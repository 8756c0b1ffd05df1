--------------------------- MODULE ModelStoreProofs ---------------------------
(***************************************************************************)
(* The pointer names a whole version, however many trainings, prunes,      *)
(* crashes and failed writes there are; no API goes back from a healthy    *)
(* model to an older one, nor loses its model to a healthy training; and   *)
(* without failures the worker is left with the newest healthy version.    *)
(*                                                                         *)
(* LatestIsWhole is not inductive: it says nothing of the version that     *)
(* the worker is writing, of the one it will put back, or of those it is   *)
(* about to unlink.  IInv adds what the worker knows of these, and SInv    *)
(* orders what the APIs serve and look up against the pointer.  NewestInv  *)
(* and PointedInv do the same for the other two.                           *)
(***************************************************************************)
EXTENDS ModelStore, TLAPS

\* The version being written is new to the pointer, and its files are whole
\* from one step to the next.
WritingInv ==
  /\ step # "idle" => version \in Versions
  /\ latest # None => latest <= version
  /\ step \in {"dump", "describe"} => latest # version
  /\ step \in {"describe", "flip"} => blob[version] = "whole"
  /\ step = "flip" => meta[version] = "whole"

\* What an unhealthy training will put back is whole, and not what it writes.
RestoringInv ==
  step \in {"dump", "describe", "flip", "restore", "rewrite"} /\ previous # None =>
    previous < version /\ Whole(previous)

\* prune spares the version the pointer names.
PruningInv == step \in {"prune", "undescribe"} => latest \notin doomed

IInv == TypeOK /\ LatestIsWhole /\ WritingInv /\ RestoringInv /\ PruningInv

\* The versions to drop are versions, and the current one is not among them.
LEMMA ExcessSparesCurrent ==
  ASSUME NEW current
  PROVE  Excess(current) \subseteq Versions /\ current \notin Excess(current)
  BY DEF Excess, Oldest

LEMMA OldestAreMembers ==
  ASSUME NEW n, NEW S
  PROVE  Oldest(n, S) \subseteq S
  BY DEF Oldest

\* At the start there is no pointer and no file.
LEMMA InitHolds == Init => IInv
  BY ModelStoreAssumption
  DEF Init, IInv, TypeOK, LatestIsWhole, WritingInv, RestoringInv, PruningInv,
      Versions, Pointer, Contents, Steps

\* Every step of the worker and of the APIs keeps the invariant.
LEMMA StepHolds == IInv /\ [Next]_vars => IInv'
<1> SUFFICES ASSUME IInv, [Next]_vars PROVE IInv'
  OBVIOUS
<1> USE ModelStoreAssumption
    DEF IInv, TypeOK, LatestIsWhole, WritingInv, RestoringInv, PruningInv, Whole,
        Versions, Pointer, Contents, Steps
<1>1. ASSUME NEW isHealthy \in BOOLEAN, BeginTraining(isHealthy) PROVE IInv'
  BY <1>1 DEF BeginTraining, apiVars
<1>2. CASE DumpBlob
  BY <1>2 DEF DumpBlob, apiVars
<1>3. CASE WriteMeta
  BY <1>3 DEF WriteMeta, apiVars
<1>4. CASE FlipHealthy
  BY <1>4, ExcessSparesCurrent DEF FlipHealthy, NextVictim, files, apiVars
<1>5. CASE PruneBlob
  <2>1. PICK v \in Oldest(1, doomed) : blob' = [blob EXCEPT ![v] = "absent"]
    BY <1>5 DEF PruneBlob
  <2>2. v \in doomed /\ v # latest
    BY <1>5, OldestAreMembers DEF PruneBlob
  <2> QED
    BY <1>5, <2>1, <2>2 DEF PruneBlob, apiVars
<1>6. CASE PruneMeta
  <2>1. PICK v \in Oldest(1, doomed) : /\ meta' = [meta EXCEPT ![v] = "absent"]
                                      /\ doomed' = doomed \ {v}
    BY <1>6 DEF PruneMeta
  <2>2. v \in doomed /\ v # latest
    BY <1>6, OldestAreMembers DEF PruneMeta
  <2>3. step' \in {"prune", "reload"}
    BY <1>6 DEF PruneMeta, NextVictim
  <2> QED
    BY <1>6, <2>1, <2>2, <2>3 DEF PruneMeta, apiVars
<1>7. CASE FlipUnhealthy
  BY <1>7 DEF FlipUnhealthy, files, apiVars
<1>8. CASE EmptyPointer
  BY <1>8 DEF EmptyPointer, files, apiVars
<1>9. CASE RewritePointer
  BY <1>9 DEF RewritePointer, files, apiVars
<1>10. CASE ReloadModel
  BY <1>10 DEF ReloadModel, Reloaded, files, apiVars
<1>11. CASE SkipTraining
  BY <1>11 DEF SkipTraining, Reloaded, files, apiVars
<1>12. CASE WorkerFails
  BY <1>12 DEF WorkerFails, files, apiVars
<1>13. CASE WorkerRestarts
  BY <1>13 DEF WorkerRestarts, files, apiVars
<1>14. ASSUME NEW a \in Apis, FindVersion(a) PROVE IInv'
  <2>1. UNCHANGED <<blob, meta, latest, healthy, version, step, previous, doomed, model, faults>>
    BY <1>14 DEF FindVersion, files, worker
  <2>2. want' \in [Apis -> Pointer] /\ serving' \in [Apis -> Pointer]
    <3>1. want' = want \/ want' = [want EXCEPT ![a] = latest]
      BY <1>14 DEF FindVersion
    <3>2. serving' = serving \/ serving' = [serving EXCEPT ![a] = None]
      BY <1>14 DEF FindVersion
    <3> QED
      BY <3>1, <3>2
  <2> QED
    BY <2>1, <2>2
<1>15. ASSUME NEW a \in Apis, LoadVersion(a) PROVE IInv'
  BY <1>15 DEF LoadVersion, files, worker
<1>16. ASSUME NEW a \in Apis, ApiRestarts(a) PROVE IInv'
  BY <1>16 DEF ApiRestarts, files, worker
<1>17. CASE UNCHANGED vars
  BY <1>17 DEF vars, files, worker, apiVars
<1> QED
  BY <1>1, <1>2, <1>3, <1>4, <1>5, <1>6, <1>7, <1>8, <1>9, <1>10, <1>11, <1>12,
     <1>13, <1>14, <1>15, <1>16, <1>17
  DEF Next

LEMMA Inductive == Spec => []IInv
  BY InitHolds, StepHolds, PTL DEF Spec

\* Every variable keeps its type.
THEOREM TypeCorrect == Spec => []TypeOK
<1>1. IInv => TypeOK
  BY DEF IInv
<1> QED
  BY <1>1, Inductive, PTL

\* "A half-written artifact can never become current" (modelstore.py:9-10):
\* for any number of trainings, faults and APIs, and any Keep.
THEOREM LatestAlwaysWhole == Spec => []LatestIsWhole
<1>1. IInv => LatestIsWhole
  BY DEF IInv
<1> QED
  BY <1>1, Inductive, PTL

-----------------------------------------------------------------------------
\* x, if it passed the bars, is no newer than y, if there is one.
NoNewer(x, y) == x \in healthy /\ y # None => x <= y

\* What the APIs serve and load has been trained, and nothing they could load
\* next is older than a healthy version they serve.
ServingInv ==
  \A a \in Apis :
    /\ serving[a] # None => serving[a] <= version
    /\ want[a] # None => want[a] <= version
    /\ NoNewer(serving[a], latest)
    /\ NoNewer(want[a], latest)
    /\ NoNewer(serving[a], want[a])

\* Nor is what an unhealthy training will put back.
PuttingBackInv ==
  step \in {"dump", "describe", "flip", "restore", "rewrite"} =>
    /\ NoNewer(latest, previous)
    /\ \A a \in Apis : NoNewer(serving[a], previous) /\ NoNewer(want[a], previous)

\* The healthy versions have all been trained.
HealthyInv ==
  /\ \A v \in healthy : v <= version
  /\ step = "restore" => latest \notin healthy

SInv == ServingInv /\ PuttingBackInv /\ HealthyInv

LEMMA ServingInit == Init => SInv
  BY DEF Init, SInv, ServingInv, PuttingBackInv, HealthyInv, NoNewer

\* Every step keeps SInv, given the types.
LEMMA ServingStep == TypeOK /\ WritingInv /\ SInv /\ [Next]_vars => SInv'
<1> SUFFICES ASSUME TypeOK, WritingInv, SInv, [Next]_vars PROVE SInv'
  OBVIOUS
<1> USE ModelStoreAssumption
    DEF TypeOK, WritingInv, SInv, ServingInv, PuttingBackInv, HealthyInv, NoNewer,
        Versions, Pointer, Steps
<1>1. ASSUME NEW isHealthy \in BOOLEAN, BeginTraining(isHealthy) PROVE SInv'
  BY <1>1 DEF BeginTraining, apiVars
<1>2. CASE DumpBlob
  BY <1>2 DEF DumpBlob, files, apiVars
<1>3. CASE WriteMeta
  BY <1>3 DEF WriteMeta, files, apiVars
<1>4. CASE FlipHealthy
  BY <1>4 DEF FlipHealthy, NextVictim, files, apiVars
<1>5. CASE PruneBlob
  BY <1>5 DEF PruneBlob, files, apiVars
<1>6. CASE PruneMeta
  BY <1>6 DEF PruneMeta, NextVictim, files, apiVars
<1>7. CASE FlipUnhealthy
  BY <1>7 DEF FlipUnhealthy, files, apiVars
<1>8. CASE EmptyPointer
  BY <1>8 DEF EmptyPointer, files, apiVars
<1>9. CASE RewritePointer
  BY <1>9 DEF RewritePointer, files, apiVars
<1>10. CASE ReloadModel
  BY <1>10 DEF ReloadModel, files, apiVars
<1>11. CASE SkipTraining
  BY <1>11 DEF SkipTraining, files, apiVars
<1>12. CASE WorkerFails
  BY <1>12 DEF WorkerFails, files, apiVars
<1>13. CASE WorkerRestarts
  BY <1>13 DEF WorkerRestarts, files, apiVars
<1>14. ASSUME NEW a \in Apis, FindVersion(a) PROVE SInv'
  <2>1. UNCHANGED <<latest, healthy, version, step, previous>>
    BY <1>14 DEF FindVersion, worker
  <2>2. CASE latest = None
    <3>1. serving' = [serving EXCEPT ![a] = None] /\ want' = want
      BY <1>14, <2>2 DEF FindVersion
    <3> QED
      BY <2>1, <3>1
  <2>3. CASE latest # None
    <3>1. want' = [want EXCEPT ![a] = latest] /\ serving' = serving
      BY <1>14, <2>3 DEF FindVersion
    <3> QED
      BY <2>1, <3>1
  <2> QED
    BY <2>2, <2>3
<1>15. ASSUME NEW a \in Apis, LoadVersion(a) PROVE SInv'
  BY <1>15 DEF LoadVersion, files, worker
<1>16. ASSUME NEW a \in Apis, ApiRestarts(a) PROVE SInv'
  BY <1>16 DEF ApiRestarts, files, worker
<1>17. CASE UNCHANGED vars
  BY <1>17 DEF vars, files, worker, apiVars
<1> QED
  BY <1>1, <1>2, <1>3, <1>4, <1>5, <1>6, <1>7, <1>8, <1>9,
     <1>10, <1>11, <1>12, <1>13, <1>14, <1>15, <1>16, <1>17
  DEF Next

LEMMA ServingInductive == Spec => [](IInv /\ SInv)
<1>1. IInv => TypeOK /\ WritingInv
  BY DEF IInv
<1> QED
  BY <1>1, InitHolds, StepHolds, ServingInit, ServingStep, PTL DEF Spec

\* An unhealthy training puts back what it displaced, so no API goes from a
\* healthy model to an older one: only LoadVersion brings a version into service,
\* and it was looked up when nothing newer was healthy and served.
THEOREM ServiceNeverGoesBack == Spec => NeverBackFromHealthy
<1> DEFINE Forward == \A a \in Apis : serving[a] \in healthy /\ serving'[a] # None
                                     => serving'[a] >= serving[a]
<1>1. IInv /\ SInv /\ [Next]_vars => [Forward]_vars
  <2> SUFFICES ASSUME IInv, SInv, Next PROVE Forward
    BY DEF vars
  <2> USE ModelStoreAssumption DEF IInv, TypeOK, SInv, ServingInv, NoNewer, Versions, Pointer
  <2>1. CASE \E a \in Apis : LoadVersion(a)
    BY <2>1 DEF LoadVersion
  <2>2. CASE \E a \in Apis : FindVersion(a) \/ ApiRestarts(a)
    <3>1. PICK a \in Apis : serving' = serving \/ serving' = [serving EXCEPT ![a] = None]
      BY <2>2 DEF FindVersion, ApiRestarts
    <3>2. \A b \in Apis : serving'[b] \in {serving[b], None}
      BY <3>1
    <3> QED
      BY <3>2
  <2>3. CASE UNCHANGED serving
    BY <2>3
  <2> QED
    BY <2>1, <2>2, <2>3
    DEF Next, BeginTraining, DumpBlob, WriteMeta, FlipHealthy, PruneBlob, PruneMeta,
        FlipUnhealthy, EmptyPointer, RewritePointer, ReloadModel, SkipTraining,
        WorkerFails, WorkerRestarts, apiVars
<1> QED
  BY <1>1, ServingInductive, PTL DEF Spec, NeverBackFromHealthy

-----------------------------------------------------------------------------
\* What train_once is to keep in the pointer: the newest version that passed
\* the bars, none if there is none.
IsNewest(x) ==
  IF x = None THEN healthy = {} ELSE x \in healthy /\ \A v \in healthy : v <= x

\* An unhealthy version is in the pointer only while the step says so, and what
\* takes its place again is the newest healthy one.
UnhealthyInv == step \in {"restore", "rewrite"} => version \notin healthy

NewestInv ==
  faults = 0 =>
    /\ model # None => model \in healthy
    /\ step = "idle" => IsNewest(latest) /\ (model # None => IsNewest(model))
    /\ step \in {"dump", "describe", "flip", "restore", "rewrite"} /\ version \notin healthy
         => IsNewest(previous)
    /\ step \in {"prune", "undescribe", "reload"} => IsNewest(latest)

LEMMA NewestInit == Init => UnhealthyInv /\ NewestInv
  BY DEF Init, UnhealthyInv, NewestInv, IsNewest

LEMMA NewestStep ==
  IInv /\ HealthyInv /\ UnhealthyInv /\ NewestInv /\ [Next]_vars => UnhealthyInv' /\ NewestInv'
<1> SUFFICES ASSUME IInv, HealthyInv, UnhealthyInv, NewestInv, [Next]_vars
             PROVE  UnhealthyInv' /\ NewestInv'
  OBVIOUS
<1> USE ModelStoreAssumption
    DEF IInv, TypeOK, LatestIsWhole, HealthyInv, UnhealthyInv, NewestInv, IsNewest,
        Versions, Pointer, Steps
<1>1. ASSUME NEW isHealthy \in BOOLEAN, BeginTraining(isHealthy)
      PROVE  UnhealthyInv' /\ NewestInv'
  BY <1>1 DEF BeginTraining
<1>2. CASE DumpBlob \/ WriteMeta
  <2>1. /\ step \in {"dump", "describe"} /\ step' \in {"describe", "flip"}
        /\ UNCHANGED <<latest, healthy, version, previous, model, faults>>
    BY <1>2 DEF DumpBlob, WriteMeta
  <2> QED
    BY <2>1
<1>3. CASE FlipHealthy
  BY <1>3 DEF FlipHealthy, NextVictim
<1>4. CASE PruneBlob \/ PruneMeta
  <2>1. /\ step \in {"prune", "undescribe"} /\ step' \in {"prune", "undescribe", "reload"}
        /\ UNCHANGED <<latest, healthy, version, previous, model, faults>>
    BY <1>4 DEF PruneBlob, PruneMeta, NextVictim
  <2> QED
    BY <2>1
<1>5. CASE FlipUnhealthy
  BY <1>5 DEF FlipUnhealthy
<1>6. CASE EmptyPointer
  BY <1>6 DEF EmptyPointer
<1>7. CASE RewritePointer
  BY <1>7 DEF RewritePointer
<1>8. CASE ReloadModel \/ SkipTraining
  <2>1. /\ step \in {"reload", "idle"} /\ step' = "idle" /\ model' \in {latest, model}
        /\ latest # None /\ Whole(latest) => model' = latest
        /\ UNCHANGED <<latest, healthy, version, previous, faults>>
    BY <1>8 DEF ReloadModel, SkipTraining, Reloaded
  <2>2. latest # None => model' = latest
    BY <2>1
  <2> QED
    BY <2>1, <2>2
<1>9. CASE WorkerFails \/ WorkerRestarts \/ \E a \in Apis : ApiRestarts(a)
  BY <1>9 DEF WorkerFails, WorkerRestarts, ApiRestarts, worker
<1>10. CASE UNCHANGED vars \/ \E a \in Apis : FindVersion(a) \/ LoadVersion(a)
  <2>1. UNCHANGED <<latest, healthy, version, step, previous, model, faults>>
    BY <1>10 DEF FindVersion, LoadVersion, vars, worker
  <2> QED
    BY <2>1
<1> QED
  BY <1>1, <1>2, <1>3, <1>4, <1>5, <1>6, <1>7, <1>8, <1>9, <1>10 DEF Next

LEMMA NewestInductive == Spec => [](IInv /\ SInv /\ UnhealthyInv /\ NewestInv)
<1>1. SInv => HealthyInv
  BY DEF SInv
<1> QED
  BY <1>1, ServingInductive, NewestInit, NewestStep, PTL DEF Spec

\* train.py:54-93: between passes, as long as nothing has failed, the worker
\* scores with the newest healthy version, whatever the trainings came out as.
THEOREM WorkerKeepsNewestHealthy == Spec => []WorkerScoresNewestHealthy
<1>1. NewestInv => WorkerScoresNewestHealthy
  BY DEF NewestInv, IsNewest, WorkerScoresNewestHealthy
<1> QED
  BY <1>1, NewestInductive, PTL

-----------------------------------------------------------------------------
\* Once an API has a version, the pointer is not empty unless a bad training
\* emptied it.
PointedInv ==
  1..version \subseteq healthy =>
    \A a \in Apis : serving[a] # None \/ want[a] # None => latest # None

LEMMA PointedStep ==
  IInv /\ SInv /\ UnhealthyInv /\ PointedInv /\ [Next]_vars => PointedInv'
<1> SUFFICES ASSUME IInv, SInv, UnhealthyInv, PointedInv, [Next]_vars PROVE PointedInv'
  OBVIOUS
<1> USE ModelStoreAssumption DEF IInv, TypeOK, PointedInv, Versions, Pointer
<1>1. ASSUME NEW isHealthy \in BOOLEAN, BeginTraining(isHealthy) PROVE PointedInv'
  <2>1. 1..version' \subseteq healthy' => 1..version \subseteq healthy
    BY <1>1 DEF BeginTraining
  <2> QED
    BY <1>1, <2>1 DEF BeginTraining, apiVars
<1>2. CASE EmptyPointer \/ RewritePointer
  <2>1. version \in 1..version /\ version \notin healthy /\ UNCHANGED <<version, healthy>>
    BY <1>2 DEF EmptyPointer, RewritePointer, UnhealthyInv, WritingInv
  <2> QED
    BY <2>1
<1>3. CASE FlipHealthy \/ FlipUnhealthy
  <2>1. latest' = version /\ version # None
    BY <1>3 DEF FlipHealthy, FlipUnhealthy, WritingInv
  <2> QED
    BY <2>1
<1>4. CASE DumpBlob \/ WriteMeta \/ PruneBlob \/ PruneMeta \/ ReloadModel \/ SkipTraining
           \/ WorkerFails \/ WorkerRestarts \/ UNCHANGED vars
  <2>1. UNCHANGED <<version, healthy, latest, serving, want>>
    BY <1>4 DEF DumpBlob, WriteMeta, PruneBlob, PruneMeta, ReloadModel, SkipTraining,
                WorkerFails, WorkerRestarts, vars, worker, apiVars
  <2> QED
    BY <2>1
<1>5. CASE \E a \in Apis : FindVersion(a) \/ LoadVersion(a) \/ ApiRestarts(a)
  BY <1>5 DEF FindVersion, LoadVersion, ApiRestarts, worker
<1> QED
  BY <1>1, <1>2, <1>3, <1>4, <1>5 DEF Next

\* modelstore.py:163 against api.py:117: while trainings come out healthy no
\* step of the worker, prune included, takes the model from a serving API.
THEOREM HealthyTrainingKeepsServingHolds == Spec => HealthyTrainingKeepsServing
<1> DEFINE Kept == \A a \in Apis : serving[a] # None /\ 1..version \subseteq healthy
                                   /\ faults' = faults => serving'[a] # None
<1>1. Init => PointedInv
  BY DEF Init, PointedInv
<1>2. IInv /\ PointedInv /\ [Next]_vars => [Kept]_vars
  <2> SUFFICES ASSUME IInv, PointedInv, Next PROVE Kept
    BY DEF vars
  <2> USE DEF IInv, TypeOK, PointedInv
  <2>1. CASE \E a \in Apis : FindVersion(a)
    BY <2>1 DEF FindVersion
  <2>2. CASE \E a \in Apis : LoadVersion(a)
    BY <2>2 DEF LoadVersion
  <2>3. CASE \E a \in Apis : ApiRestarts(a)
    BY <2>3, ModelStoreAssumption DEF ApiRestarts
  <2>4. CASE UNCHANGED serving
    BY <2>4
  <2> QED
    BY <2>1, <2>2, <2>3, <2>4
    DEF Next, BeginTraining, DumpBlob, WriteMeta, FlipHealthy, PruneBlob, PruneMeta,
        FlipUnhealthy, EmptyPointer, RewritePointer, ReloadModel, SkipTraining,
        WorkerFails, WorkerRestarts, apiVars
<1> QED
  BY <1>1, <1>2, PointedStep, NewestInductive, PTL DEF Spec, HealthyTrainingKeepsServing
=============================================================================
