------------------------------ MODULE ModelStore ------------------------------
(***************************************************************************)
(* The flow models of ml-anomaly and their way into service: the worker    *)
(* that trains, stores, prunes and scores (flowsync, train, modelstore),   *)
(* and the serving processes that follow the `latest` pointer (api).       *)
(*                                                                         *)
(* They are containers of their own and share a volume and nothing else.   *)
(* A rename is atomic; a file that is written in place can be read, or     *)
(* left behind, before it is whole.  Versions are time stamps: the v-th    *)
(* training stores version v.  Neither loader looks at `healthy`.          *)
(***************************************************************************)
EXTENDS Integers, FiniteSets

CONSTANTS
  Apis,       \* the serving processes
  Trainings,  \* bound on the trainings
  Keep,       \* how many artifacts prune leaves; 5 in the code
  MaxFaults,  \* bound on crashes, restarts and failed writes
  None        \* no model, no version, no pointer

Versions == 1..Trainings

ASSUME ModelStoreAssumption ==
  /\ Trainings \in Nat
  /\ Keep \in Nat
  /\ MaxFaults \in Nat
  /\ None \notin Versions

VARIABLES
  blob,      \* the .joblib file of each version
  meta,      \* its .json file, which carries the digest of the blob
  latest,    \* the version the pointer names; None if it is absent or empty
  healthy,   \* the versions whose metrics passed the bars
  version,   \* the version trained last; 0 before the first
  step,      \* what the worker does next with the files
  previous,  \* what an unhealthy training found in the pointer
  doomed,    \* versions prune still has to drop
  model,     \* the version the worker scores with
  want,      \* per API: the version it found in the pointer and is loading
  serving,   \* per API: the version it serves
  faults     \* history: crashes, restarts and failed writes so far

files   == <<blob, meta>>
worker  == <<version, step, previous, doomed, model>>
apiVars == <<want, serving>>
vars    == <<files, latest, healthy, worker, apiVars, faults>>

Contents == {"absent", "partial", "whole"}
Steps    == {"idle", "dump", "describe", "flip", "prune", "undescribe",
             "restore", "rewrite", "reload"}
Pointer  == Versions \cup {None}

TypeOK ==
  /\ blob     \in [Versions -> Contents]
  /\ meta     \in [Versions -> Contents]
  /\ latest   \in Pointer
  /\ healthy  \subseteq Versions
  /\ version  \in 0..Trainings
  /\ step     \in Steps
  /\ previous \in Pointer
  /\ doomed   \subseteq Versions
  /\ model    \in Pointer
  /\ want     \in [Apis -> Pointer]
  /\ serving  \in [Apis -> Pointer]
  /\ faults   \in 0..MaxFaults

Init ==
  /\ blob     = [v \in Versions |-> "absent"]
  /\ meta     = [v \in Versions |-> "absent"]
  /\ latest   = None
  /\ healthy  = {}
  /\ version  = 0
  /\ step     = "idle"
  /\ previous = None
  /\ doomed   = {}
  /\ model    = None
  /\ want     = [a \in Apis |-> None]
  /\ serving  = [a \in Apis |-> None]
  /\ faults   = 0

\* load refuses a version that lacks a file, or whose digest does not match.
Whole(v) == blob[v] = "whole" /\ meta[v] = "whole"

-----------------------------------------------------------------------------
\* Fault: what a bad training gives way to is read once and then kept.
BeginTrainingCached(isHealthy) ==
  /\ step = "idle"
  /\ version < Trainings
  /\ version' = version + 1
  /\ healthy' = IF isHealthy THEN healthy \cup {version + 1} ELSE healthy
  /\ previous' = IF previous = None THEN latest ELSE previous
  /\ blob' = [blob EXCEPT ![version + 1] = "partial"]
  /\ step' = "dump"
  /\ UNCHANGED <<meta, latest, doomed, model, apiVars, faults>>

\* The worker.  A day has passed, or there is no model yet: a training fits
\* version + 1, evaluates it, and opens its blob.
BeginTraining(isHealthy) ==
  /\ step = "idle"
  /\ version < Trainings
  /\ version' = version + 1
  /\ healthy' = IF isHealthy THEN healthy \cup {version + 1} ELSE healthy
  /\ previous' = IF isHealthy THEN None ELSE latest
  /\ blob' = [blob EXCEPT ![version + 1] = "partial"]
  /\ step' = "dump"
  /\ UNCHANGED <<meta, latest, doomed, model, apiVars, faults>>

\* Fault: the pointer is flipped before the metadata is there.
DumpBlobFlips ==
  /\ step = "dump"
  /\ blob' = [blob EXCEPT ![version] = "whole"]
  /\ meta' = [meta EXCEPT ![version] = "partial"]
  /\ latest' = version
  /\ step' = "describe"
  /\ UNCHANGED <<healthy, version, previous, doomed, model, apiVars, faults>>

DumpBlob ==
  /\ step = "dump"
  /\ blob' = [blob EXCEPT ![version] = "whole"]
  /\ meta' = [meta EXCEPT ![version] = "partial"]
  /\ step' = "describe"
  /\ UNCHANGED <<latest, healthy, version, previous, doomed, model, apiVars, faults>>

WriteMeta ==
  /\ step = "describe"
  /\ meta' = [meta EXCEPT ![version] = "whole"]
  /\ step' = "flip"
  /\ UNCHANGED <<blob, latest, healthy, version, previous, doomed, model, apiVars, faults>>

Larger(a, b) == IF a > b THEN a ELSE b

\* The n oldest of S.
Oldest(n, S) == {v \in S : Cardinality({u \in S : u < v}) < n}

\* What prune drops: the oldest but Keep - 1, and never the current one.
Excess(current) ==
  LET candidates == {v \in Versions : meta[v] # "absent" /\ v # current}
  IN  Oldest(Cardinality(candidates) - Larger(0, Keep - 1), candidates)

NextVictim(rest) == IF rest = {} THEN "reload" ELSE "prune"

\* The rename.  Nobody but the worker changes the files prune looks at, so what
\* it will drop can be settled here.
FlipHealthy ==
  /\ step = "flip"
  /\ version \in healthy
  /\ latest' = version
  /\ doomed' = Excess(version)
  /\ step' = NextVictim(doomed')
  /\ UNCHANGED <<files, healthy, version, previous, model, apiVars, faults>>

\* Fault: the unhealthy version stays current.
FlipUnhealthyForGood ==
  /\ step = "flip"
  /\ version \notin healthy
  /\ latest' = version
  /\ step' = "reload"
  /\ UNCHANGED <<files, healthy, version, previous, doomed, model, apiVars, faults>>

FlipUnhealthy ==
  /\ step = "flip"
  /\ version \notin healthy
  /\ latest' = version
  /\ step' = "restore"
  /\ UNCHANGED <<files, healthy, version, previous, doomed, model, apiVars, faults>>

PruneBlob ==
  /\ step = "prune"
  /\ \E v \in Oldest(1, doomed) : blob' = [blob EXCEPT ![v] = "absent"]
  /\ step' = "undescribe"
  /\ UNCHANGED <<meta, latest, healthy, version, previous, doomed, model, apiVars, faults>>

PruneMeta ==
  /\ step = "undescribe"
  /\ \E v \in Oldest(1, doomed) :
       /\ meta' = [meta EXCEPT ![v] = "absent"]
       /\ doomed' = doomed \ {v}
  /\ step' = NextVictim(doomed')
  /\ UNCHANGED <<blob, latest, healthy, version, previous, model, apiVars, faults>>

\* Fault: an emptied pointer names the empty version, here 0, instead of none.
EmptyPointerNamed ==
  /\ step = "restore"
  /\ latest' = IF previous = None THEN None ELSE 0
  /\ step' = IF previous = None THEN "reload" ELSE "rewrite"
  /\ UNCHANGED <<files, healthy, version, previous, doomed, model, apiVars, faults>>

\* The pointer is restored in place: emptied, or removed if there was none ...
EmptyPointer ==
  /\ step = "restore"
  /\ latest' = None
  /\ step' = IF previous = None THEN "reload" ELSE "rewrite"
  /\ UNCHANGED <<files, healthy, version, previous, doomed, model, apiVars, faults>>

\* ... and written.
RewritePointer ==
  /\ step = "rewrite"
  /\ latest' = previous
  /\ step' = "reload"
  /\ UNCHANGED <<files, healthy, version, previous, doomed, model, apiVars, faults>>

Reloaded == IF latest # None /\ Whole(latest) THEN latest ELSE model

ReloadModel ==
  /\ step = "reload"
  /\ model' = Reloaded
  /\ step' = "idle"
  /\ UNCHANGED <<files, latest, healthy, version, previous, doomed, apiVars, faults>>

\* Too little history to train: the pass only reloads.
SkipTraining ==
  /\ step = "idle"
  /\ model' = Reloaded
  /\ UNCHANGED <<files, latest, healthy, version, step, previous, doomed, apiVars, faults>>

\* A write fails, for want of space say: the pass ends where it is, and the next
\* one trains anew.
WorkerFails ==
  /\ step # "idle"
  /\ faults < MaxFaults
  /\ faults' = faults + 1
  /\ step' = "idle"
  /\ doomed' = {}
  /\ UNCHANGED <<files, latest, healthy, version, previous, model, apiVars>>

WorkerRestarts ==
  /\ faults < MaxFaults
  /\ faults' = faults + 1
  /\ step' = "idle"
  /\ doomed' = {}
  /\ previous' = None
  /\ model' = IF latest # None /\ Whole(latest) THEN latest ELSE None
  /\ UNCHANGED <<files, latest, healthy, version, apiVars>>

-----------------------------------------------------------------------------
\* Fault: a model that serves is kept whatever the pointer says.
FindVersionOnce(a) ==
  /\ want[a] = None
  /\ latest # serving[a]
  /\ IF latest = None
     THEN serving' = [serving EXCEPT ![a] = None] /\ UNCHANGED want
     ELSE /\ serving[a] = None
          /\ want' = [want EXCEPT ![a] = latest]
          /\ UNCHANGED serving
  /\ UNCHANGED <<files, latest, healthy, worker, faults>>

\* The API.  A refresh, under the holder's lock, finds another version than the
\* one it serves ...
FindVersion(a) ==
  /\ want[a] = None
  /\ latest # serving[a]
  /\ IF latest = None
     THEN serving' = [serving EXCEPT ![a] = None] /\ UNCHANGED want
     ELSE want' = [want EXCEPT ![a] = latest] /\ UNCHANGED serving
  /\ UNCHANGED <<files, latest, healthy, worker, faults>>

\* Fault: a version that does not load leaves the API without one.
LoadVersionOrNone(a) ==
  /\ want[a] # None
  /\ serving' = [serving EXCEPT ![a] = IF Whole(want[a]) THEN want[a] ELSE None]
  /\ want' = [want EXCEPT ![a] = None]
  /\ UNCHANGED <<files, latest, healthy, worker, faults>>

\* ... and loads it: the worker may have moved on in between.
LoadVersion(a) ==
  /\ want[a] # None
  /\ serving' = [serving EXCEPT ![a] = IF Whole(want[a]) THEN want[a] ELSE @]
  /\ want' = [want EXCEPT ![a] = None]
  /\ UNCHANGED <<files, latest, healthy, worker, faults>>

ApiRestarts(a) ==
  /\ faults < MaxFaults
  /\ faults' = faults + 1
  /\ serving' = [serving EXCEPT ![a] = None]
  /\ want' = [want EXCEPT ![a] = None]
  /\ UNCHANGED <<files, latest, healthy, worker>>

-----------------------------------------------------------------------------
Next ==
  \/ \E isHealthy \in BOOLEAN : BeginTraining(isHealthy)
  \/ DumpBlob \/ WriteMeta
  \/ FlipHealthy \/ PruneBlob \/ PruneMeta
  \/ FlipUnhealthy \/ EmptyPointer \/ RewritePointer
  \/ ReloadModel \/ SkipTraining
  \/ WorkerFails \/ WorkerRestarts
  \/ \E a \in Apis : FindVersion(a) \/ LoadVersion(a) \/ ApiRestarts(a)

Spec == Init /\ [][Next]_vars

\* The readiness probe asks every ten seconds and each request refreshes.
FairSpec ==
  /\ Spec
  /\ \A a \in Apis : WF_vars(FindVersion(a)) /\ WF_vars(LoadVersion(a))

-----------------------------------------------------------------------------
\* "a half-written artifact can never become current" (modelstore.py:9-10):
\* whatever fails or stops, the version the pointer names has both its files.
LatestIsWhole == latest # None => Whole(latest)

\* train_once keeps a bad training from displacing a good model: between
\* passes, as long as nothing has failed, the worker scores with the newest
\* version that passed the bars.
WorkerScoresNewestHealthy ==
  step = "idle" /\ faults = 0 /\ model # None =>
    model \in healthy /\ \A v \in healthy : v <= model

\* The API reads the pointer and the files while the worker replaces both:
\* while all trainings come out healthy, a serving API goes on serving, also
\* when prune takes the version it was about to load.
HealthyTrainingKeepsServing ==
  [][\A a \in Apis : serving[a] # None /\ 1..version \subseteq healthy /\ faults' = faults
       => serving'[a] # None]_vars

\* An unhealthy training puts back what it displaced: no API goes from a
\* healthy model straight to an older one.
NeverBackFromHealthy ==
  [][\A a \in Apis : serving[a] \in healthy /\ serving'[a] # None
       => serving'[a] >= serving[a]]_vars

\* A refresh picks up the daily training without a restart (api.py:11-13): the
\* version the pointer names is served in the end, unless the pointer moves on.
ApiCatchesUp ==
  \A a \in Apis, v \in Versions : latest = v ~> (serving[a] = v \/ latest # v)

\* "`latest` is NOT flipped, so a bad train can never displace a good model"
\* (train.py:9-10).  FALSE: it is flipped, and put back after.
ServesOnlyHealthy == \A a \in Apis : serving[a] # None => serving[a] \in healthy
=============================================================================
