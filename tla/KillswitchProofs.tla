--------------------------- MODULE KillswitchProofs ---------------------------
(***************************************************************************)
(* Theorems about Killswitch, for any number of actions, handlers, events  *)
(* and restarts, and for every way a driver call may fail.  IInv carries   *)
(* the approvals; HandInv, TargetInv and RuleInv, further down, carry the  *)
(* rules of the actions that are active, AloneInv and WitnessInv those of  *)
(* the actions that are reverted.  Ranks are what eviction goes by.        *)
(***************************************************************************)
EXTENDS Killswitch, FiniteSetTheorems, WellFoundedInduction, TLAPS

\* The labels at which a handler acts for an action that has been decided.
Acting == {"approve_get", "apply", "activate", "apply_failed",
           "revert_driver", "revert_failed"}

\* Approved once, by someone who may.  Eviction and restarts keep the record.
Decided(id) == /\ state[id] \notin {"none", "pending", "rejected"}
               /\ approvedBy[id] \in Authorisers

ActingInv == \A h \in Handlers : pc[h] \in Acting => Decided(subject[h])

StateInv ==
  \A id \in ActionIds :
    state[id] \in {"approved", "active", "failed", "reverted"} => approvedBy[id] \in Authorisers

AppliedInv ==
  /\ \A id \in applied : Decided(id)
  /\ \A t \in rules \ InitialRules : \E id \in applied : target[id] = t

IInv == TypeOK /\ ActingInv /\ StateInv /\ AppliedInv

-----------------------------------------------------------------------------
(***************************************************************************)
(* Eviction only turns terminal actions into gone ones.                    *)
(***************************************************************************)
LEMMA EvictLockedChanges ==
  ASSUME NEW S, NEW st \in [ActionIds -> S]
  PROVE  /\ EvictLocked(st) \in [ActionIds -> S \cup {"gone"}]
         /\ \A i \in ActionIds :
              \/ EvictLocked(st)[i] = st[i]
              \/ st[i] \in TerminalStates /\ EvictLocked(st)[i] = "gone"
BY DEF EvictLocked, Victims, TerminalIn

(***************************************************************************)
(* What Create does to the states: the new action gets its first state and *)
(* some terminal ones are dropped.                                         *)
(***************************************************************************)
LEMMA CreateChanges ==
  ASSUME TypeOK, NEW id \in ActionIds, NEW t, NEW auto \in BOOLEAN, Create(id, t, auto)
  PROVE  /\ state' \in [ActionIds -> ActionStates \cup AbsentStates]
         /\ state[id] = "none"
         /\ state'[id] = IF auto THEN "approved" ELSE "pending"
         /\ \A i \in ActionIds \ {id} :
              \/ state'[i] = state[i]
              \/ state[i] \in TerminalStates /\ state'[i] = "gone"
<1> DEFINE st == [state EXCEPT ![id] = IF auto THEN "approved" ELSE "pending"]
<1>1. st \in [ActionIds -> ActionStates \cup AbsentStates]
  BY DEF TypeOK, StoreTypeOK, ActionStates
<1>2. state' = EvictLocked(st)
  BY DEF Create
<1> HIDE DEF st
<1>3. /\ state' \in [ActionIds -> (ActionStates \cup AbsentStates) \cup {"gone"}]
      /\ \A i \in ActionIds :
           \/ state'[i] = st[i]
           \/ st[i] \in TerminalStates /\ state'[i] = "gone"
  BY <1>1, <1>2, EvictLockedChanges
<1>4. st[id] = (IF auto THEN "approved" ELSE "pending") /\ st[id] \notin TerminalStates
  BY DEF st, TypeOK, StoreTypeOK, TerminalStates
<1>5. \A i \in ActionIds \ {id} : st[i] = state[i]
  BY DEF st, TypeOK, StoreTypeOK
<1>6. state[id] = "none"
  BY DEF Create, IsNext
<1> QED
  BY <1>3, <1>4, <1>5, <1>6 DEF AbsentStates

(***************************************************************************)
(* TypeOK is inductive.                                                    *)
(***************************************************************************)
LEMMA TypeOKInit == Init => TypeOK
<1> SUFFICES ASSUME Init PROVE TypeOK
  OBVIOUS
<1>1. StoreTypeOK
  BY DEF Init, StoreInit, StoreTypeOK, AbsentStates, Approvers, Failures
<1>2. rules \subseteq Targets /\ crashes \in 0..MaxCrashes
  BY KillswitchAssumption DEF Init
<1>3. pc \in [Procs -> Labels] /\ subject \in [Procs -> ActionIds \cup {NoAction}]
  BY DEF Init, Labels
<1> QED
  BY <1>1, <1>2, <1>3 DEF Init, TypeOK

\* Only actions are ever contended: an idle goroutine has none in hand.
LEMMA EnterTypes ==
  ASSUME TypeOK, NEW p \in Procs, NEW id \in ActionIds \cup {NoAction}, NEW label \in Labels,
         id = NoAction <=> label = "idle", Enter(p, id, label)
  PROVE  /\ pc' \in [Procs -> Labels] /\ subject' \in [Procs -> ActionIds \cup {NoAction}]
         /\ \A q \in Procs : subject'[q] = NoAction <=> pc'[q] = "idle"
         /\ contended' \subseteq ActionIds
<1>1. Meets(p, id, label) => id \in ActionIds
  BY DEF Meets, Applying, TypeOK
<1>. QED BY <1>1 DEF Enter, TypeOK

LEMMA StepTypes ==
  ASSUME TypeOK, NEW p \in Procs, pc[p] # "idle",
         Finish(p) \/ \E label \in Labels \ {"idle"} : Goto(p, label)
  PROVE  /\ pc' \in [Procs -> Labels] /\ subject' \in [Procs -> ActionIds \cup {NoAction}]
         /\ \A q \in Procs : subject'[q] = NoAction <=> pc'[q] = "idle"
         /\ contended' \subseteq ActionIds
<1>1. CASE Finish(p)
  BY <1>1, EnterTypes DEF Finish, Labels
<1>2. ASSUME NEW label \in Labels \ {"idle"}, Goto(p, label)
      PROVE  Enter(p, subject[p], label) /\ subject[p] # NoAction
             /\ subject[p] \in ActionIds \cup {NoAction}
  BY <1>2 DEF Goto, TypeOK
<1>. QED BY <1>1, <1>2, EnterTypes

LEMMA TypeOKNext == TypeOK /\ [Next]_vars => TypeOK'
<1> SUFFICES ASSUME TypeOK, [Next]_vars PROVE TypeOK'
  OBVIOUS
<1> USE KillswitchAssumption
<1>1. ASSUME NEW h \in Handlers, NEW e \in Events, NEW id \in ActionIds, EvaluateAuto(h, e, id)
      PROVE  TypeOK'
  <2>1. state' \in [ActionIds -> ActionStates \cup AbsentStates]
    BY <1>1, CreateChanges DEF EvaluateAuto
  <2>2. Enter(h, id, "apply") /\ UNCHANGED <<rules, batch, applied, crashes>>
    BY <1>1 DEF EvaluateAuto
  <2>3. /\ pc' \in [Procs -> Labels] /\ subject' \in [Procs -> ActionIds \cup {NoAction}]
        /\ \A q \in Procs : subject'[q] = NoAction <=> pc'[q] = "idle"
        /\ contended' \subseteq ActionIds
    BY <2>2, EnterTypes DEF Procs, Labels
  <2>4. StoreTypeOK'
    BY <1>1, <2>1 DEF EvaluateAuto, TypeOK, StoreTypeOK, Create, Approvers
  <2> QED
    BY <2>2, <2>3, <2>4 DEF TypeOK
<1>2. ASSUME NEW h \in Handlers, NEW e \in Events, NEW id \in ActionIds, EvaluatePending(h, e, id)
      PROVE  TypeOK'
  <2>1. state' \in [ActionIds -> ActionStates \cup AbsentStates]
    BY <1>2, CreateChanges DEF EvaluatePending
  <2> QED
    BY <1>2, <2>1 DEF EvaluatePending, TypeOK, StoreTypeOK, Create, procVars, Approvers
<1>3. ASSUME NEW h \in Handlers, NEW id \in ActionIds, ApproveRequest(h, id)
      PROVE  TypeOK'
  <2>1. Enter(h, id, "approve_get") /\ UNCHANGED <<rules, batch, applied, crashes>>
    BY <1>3 DEF ApproveRequest
  <2>2. /\ pc' \in [Procs -> Labels] /\ subject' \in [Procs -> ActionIds \cup {NoAction}]
        /\ \A q \in Procs : subject'[q] = NoAction <=> pc'[q] = "idle"
        /\ contended' \subseteq ActionIds
    BY <2>1, EnterTypes DEF Procs, Labels
  <2>3. StoreTypeOK'
    BY <1>3 DEF ApproveRequest, Approve, Transition, TypeOK, StoreTypeOK, ActionStates, Approvers
  <2> QED
    BY <2>1, <2>2, <2>3 DEF TypeOK
<1>4. ASSUME NEW h \in Handlers, NEW id \in ActionIds, RejectRequest(h, id)
      PROVE  TypeOK'
  BY <1>4 DEF RejectRequest, Reject, Transition, TypeOK, StoreTypeOK, procVars, ActionStates
<1>5. ASSUME NEW h \in Handlers, NEW id \in ActionIds, RevertRequest(h, id)
      PROVE  TypeOK'
  <2>1. PICK label \in {"revert_driver", "revert_store"} : Enter(h, id, label)
    BY <1>5 DEF RevertRequest
  <2>2. /\ pc' \in [Procs -> Labels] /\ subject' \in [Procs -> ActionIds \cup {NoAction}]
        /\ \A q \in Procs : subject'[q] = NoAction <=> pc'[q] = "idle"
        /\ contended' \subseteq ActionIds
    BY <2>1, EnterTypes DEF Procs, Labels
  <2> QED
    BY <1>5, <2>2 DEF RevertRequest, TypeOK, StoreTypeOK, storeVars
<1>6. ASSUME NEW h \in Handlers, ApproveGet(h)
      PROVE  TypeOK'
  <2>1. Goto(h, "apply") \/ Finish(h)
    BY <1>6 DEF ApproveGet
  <2>2. pc[h] = "approve_get" /\ UNCHANGED <<storeVars, rules, batch, applied, crashes>>
    BY <1>6 DEF ApproveGet
  <2>3. /\ pc' \in [Procs -> Labels] /\ subject' \in [Procs -> ActionIds \cup {NoAction}]
        /\ \A q \in Procs : subject'[q] = NoAction <=> pc'[q] = "idle"
        /\ contended' \subseteq ActionIds
    BY <2>1, <2>2, StepTypes DEF Procs, Labels
  <2> QED
    BY <2>2, <2>3 DEF TypeOK, StoreTypeOK, storeVars
<1>7. ASSUME NEW h \in Handlers, ApplyOK(h) \/ ApplyRefused(h) \/ ApplyLost(h)
      PROVE  TypeOK'
  <2>1. UNCHANGED <<storeVars, batch, crashes>>
    BY <1>7 DEF ApplyOK, ApplyRefused, ApplyLost
  <2>2. pc[h] = "apply" /\ (Goto(h, "activate") \/ Goto(h, "apply_failed"))
    BY <1>7 DEF ApplyOK, ApplyRefused, ApplyLost
  <2>3. /\ pc' \in [Procs -> Labels] /\ subject' \in [Procs -> ActionIds \cup {NoAction}]
        /\ \A p \in Procs : subject'[p] = NoAction <=> pc'[p] = "idle"
        /\ contended' \subseteq ActionIds
    BY <2>2, StepTypes DEF Procs, Labels
  <2>4. rules' \subseteq Targets
    BY <1>7 DEF ApplyOK, ApplyRefused, ApplyLost, AddRule, TypeOK
  <2>5. applied' \subseteq ActionIds
    BY <1>7, <2>2 DEF ApplyOK, ApplyRefused, ApplyLost, TypeOK, Procs
  <2> QED
    BY <2>1, <2>3, <2>4, <2>5 DEF TypeOK, StoreTypeOK, storeVars
<1>8. ASSUME NEW h \in Handlers, ApplyActivate(h)
      PROVE  TypeOK'
  <2>1. /\ pc[h] = "activate" /\ Finish(h) /\ Activate(subject[h])
        /\ UNCHANGED <<rules, batch, applied, crashes>>
    BY <1>8 DEF ApplyActivate
  <2>2. /\ pc' \in [Procs -> Labels] /\ subject' \in [Procs -> ActionIds \cup {NoAction}]
        /\ \A q \in Procs : subject'[q] = NoAction <=> pc'[q] = "idle"
        /\ contended' \subseteq ActionIds
    BY <2>1, StepTypes DEF Procs
  <2>3. StoreTypeOK'
    BY <2>1 DEF Activate, Transition, TypeOK, StoreTypeOK, ActionStates
  <2> QED
    BY <2>1, <2>2, <2>3 DEF TypeOK
<1>9. ASSUME NEW h \in Handlers, ApplyRecordFailure(h) \/ RevertRecordFailure(h)
      PROVE  TypeOK'
  <2>1. PICK why \in Failures : RecordFailure(subject[h], why)
    BY <1>9 DEF ApplyRecordFailure, RevertRecordFailure, Failures
  <2>2. pc[h] # "idle" /\ Finish(h) /\ UNCHANGED <<rules, batch, applied, crashes>>
    BY <1>9 DEF ApplyRecordFailure, RevertRecordFailure
  <2>3. StoreTypeOK'
    <3>1. CASE state[subject[h]] \in ActionStates
      <4>1. state' = [state EXCEPT ![subject[h]] = "failed"]
        BY <2>1, <3>1 DEF RecordFailure
      <4>2. failure' = [failure EXCEPT ![subject[h]] = why]
        BY <2>1, <3>1 DEF RecordFailure
      <4>3. state' \in [ActionIds -> ActionStates \cup AbsentStates]
        BY <4>1 DEF TypeOK, StoreTypeOK, ActionStates
      <4>4. failure' \in [ActionIds -> Failures]
        BY <4>2 DEF TypeOK, StoreTypeOK
      <4> QED
        BY <2>1, <4>3, <4>4 DEF RecordFailure, TypeOK, StoreTypeOK
    <3>2. CASE state[subject[h]] \notin ActionStates
      BY <2>1, <3>2 DEF RecordFailure, TypeOK, StoreTypeOK
    <3> QED
      BY <3>1, <3>2
  <2>4. /\ pc' \in [Procs -> Labels] /\ subject' \in [Procs -> ActionIds \cup {NoAction}]
        /\ \A q \in Procs : subject'[q] = NoAction <=> pc'[q] = "idle"
        /\ contended' \subseteq ActionIds
    BY <2>2, StepTypes DEF Procs
  <2> QED
    BY <2>2, <2>3, <2>4 DEF TypeOK
<1>10. ASSUME NEW p \in Procs, RevertStep(p)
       PROVE  TypeOK'
  <2>1. /\ pc[p] # "idle" /\ UNCHANGED <<batch, applied, crashes>>
        /\ Finish(p) \/ \E label \in {"revert_store", "revert_failed"} : Goto(p, label)
    BY <1>10 DEF RevertStep, RevertDriverOK, RevertDriverRefused, RevertDriverLost, RevertStore,
                 AfterRevertError
  <2>2. /\ pc' \in [Procs -> Labels] /\ subject' \in [Procs -> ActionIds \cup {NoAction}]
        /\ \A q \in Procs : subject'[q] = NoAction <=> pc'[q] = "idle"
        /\ contended' \subseteq ActionIds
    BY <2>1, StepTypes DEF Labels
  <2>3. StoreTypeOK' /\ rules' \subseteq Targets
    BY <1>10 DEF RevertStep, RevertDriverOK, RevertDriverRefused, RevertDriverLost, RevertStore,
                 Revert, RemoveRule, TypeOK, StoreTypeOK, storeVars, ActionStates
  <2> QED
    BY <2>1, <2>2, <2>3 DEF TypeOK
<1>11. ASSUME TTLStep PROVE TypeOK'
  <2>1. CASE Tick
    BY <2>1 DEF Tick, ListExpired, TypeOK, StoreTypeOK, storeVars
  <2>2. ASSUME NEW id \in ActionIds, RevertNext(id) PROVE TypeOK'
    <3>1. /\ pc' \in [Procs -> Labels] /\ subject' \in [Procs -> ActionIds \cup {NoAction}]
          /\ \A q \in Procs : subject'[q] = NoAction <=> pc'[q] = "idle"
          /\ contended' \subseteq ActionIds
      BY <2>2, EnterTypes DEF RevertNext, Procs, Labels
    <3> QED
      BY <2>2, <3>1 DEF RevertNext, TypeOK, StoreTypeOK, storeVars
  <2> QED
    BY <1>11, <2>1, <2>2 DEF TTLStep
<1>12. ASSUME NEW id \in ActionIds, Expiry(id)
       PROVE  TypeOK'
  BY <1>12 DEF Expiry, Expire, TypeOK, StoreTypeOK, procVars
<1>13. ASSUME Crash PROVE TypeOK'
  BY <1>13 DEF Crash, TypeOK, StoreTypeOK, AbsentStates, Labels
<1>14. ASSUME UNCHANGED vars PROVE TypeOK'
  BY <1>14 DEF vars, storeVars, procVars, TypeOK, StoreTypeOK
<1> QED
  BY <1>1, <1>2, <1>3, <1>4, <1>5, <1>6, <1>7, <1>8, <1>9, <1>10, <1>11, <1>12, <1>13, <1>14
     DEF Next, HandlerStep

(***************************************************************************)
(* The store, the rules and the goroutines always have their types.        *)
(***************************************************************************)
THEOREM KillswitchType == Spec => []TypeOK
BY TypeOKInit, TypeOKNext, PTL DEF Spec

-----------------------------------------------------------------------------
(***************************************************************************)
(* A decided action stays decided: no operation of the store moves it back *)
(* to pending or on to rejected, and none takes its approver away.         *)
(***************************************************************************)
LEMMA DecidedStable ==
  ASSUME TypeOK, [Next]_vars, NEW id \in ActionIds, Decided(id)
  PROVE  Decided(id)'
<1> USE DEF Decided, TypeOK, StoreTypeOK
<1>1. ASSUME NEW t, NEW auto \in BOOLEAN, NEW new \in ActionIds, Create(new, t, auto)
      PROVE  Decided(id)'
  <2>1. /\ state[new] = "none"
        /\ \A i \in ActionIds \ {new} :
             \/ state'[i] = state[i]
             \/ state[i] \in TerminalStates /\ state'[i] = "gone"
    BY <1>1, CreateChanges
  <2>2. id # new
    BY <2>1
  <2>3. state'[id] \notin {"none", "pending", "rejected"}
    BY <2>1, <2>2
  <2>4. approvedBy'[id] = approvedBy[id]
    BY <1>1, <2>2 DEF Create
  <2> QED
    BY <2>3, <2>4 DEF Authorisers
<1>2. ASSUME NEW i \in ActionIds, Approve(i) \/ Reject(i) PROVE Decided(id)'
  BY <1>2 DEF Approve, Reject, Transition, Authorisers
<1>3. ASSUME NEW i, Activate(i) \/ Revert(i) \/ RecordFailure(i, "apply") \/ RecordFailure(i, "revert")
      PROVE  Decided(id)'
  BY <1>3 DEF Activate, Transition, Revert, RecordFailure, Authorisers
<1>4. ASSUME UNCHANGED <<state, approvedBy>> PROVE Decided(id)'
  BY <1>4 DEF Authorisers
<1>5. ASSUME Crash PROVE Decided(id)'
  BY <1>5 DEF Crash, Authorisers
<1>6. ASSUME NEW h \in Handlers, HandlerStep(h) PROVE Decided(id)'
  BY <1>1, <1>2, <1>3, <1>4, <1>6
     DEF HandlerStep, EvaluateAuto, EvaluatePending, ApproveRequest, RejectRequest, RevertRequest,
         ApproveGet, ApplyOK, ApplyRefused, ApplyLost, ApplyActivate, ApplyRecordFailure,
         RevertRecordFailure, storeVars
<1>7. ASSUME NEW p \in Procs, RevertStep(p) PROVE Decided(id)'
  BY <1>3, <1>4, <1>7
     DEF RevertStep, RevertDriverOK, RevertDriverRefused, RevertDriverLost, RevertStore, storeVars
<1>8. ASSUME TTLStep \/ (\E i \in ActionIds : Expiry(i)) \/ UNCHANGED vars PROVE Decided(id)'
  BY <1>4, <1>8 DEF TTLStep, Tick, RevertNext, Expiry, Expire, vars, storeVars
<1> QED
  BY <1>5, <1>6, <1>7, <1>8 DEF Next

(***************************************************************************)
(* Every state past pending, rejected apart, carries an approver.          *)
(***************************************************************************)
LEMMA StateInvNext == TypeOK /\ ActingInv /\ StateInv /\ [Next]_vars => StateInv'
<1> SUFFICES ASSUME TypeOK, ActingInv, StateInv, [Next]_vars,
                    NEW id \in ActionIds,
                    state'[id] \in {"approved", "active", "failed", "reverted"}
             PROVE  approvedBy'[id] \in Authorisers
  BY DEF StateInv, Authorisers
<1> DEFINE Past(i) == state[i] \in {"approved", "active", "failed", "reverted"}
<1>1. CASE Past(id)
  <2>1. Decided(id)
    BY <1>1 DEF StateInv, Decided
  <2> QED
    BY <2>1, DecidedStable DEF Decided, Authorisers
<1>2. CASE ~Past(id)
  <2> USE DEF TypeOK, StoreTypeOK
  <2>1. ASSUME NEW h \in Handlers, NEW e \in Events, NEW i \in ActionIds, EvaluateAuto(h, e, i)
        PROVE  approvedBy'[id] \in Authorisers
    <3>1. AutoBlockAllowed /\ Create(i, DomainOf[e], TRUE)
      BY <2>1 DEF EvaluateAuto
    <3>2. id = i
      BY <1>2, <3>1, CreateChanges DEF TerminalStates
    <3> QED
      BY <3>1, <3>2 DEF Create, Authorisers
  <2>2. ASSUME NEW h \in Handlers, NEW e \in Events, NEW i \in ActionIds, EvaluatePending(h, e, i)
        PROVE  approvedBy'[id] \in Authorisers
    <3>1. Create(i, DomainOf[e], FALSE)
      BY <2>2 DEF EvaluatePending
    <3>2. FALSE
      BY <1>2, <3>1, CreateChanges DEF TerminalStates
    <3> QED
      BY <3>2
  <2>3. ASSUME NEW h \in Handlers, NEW i \in ActionIds,
               ApproveRequest(h, i) \/ RejectRequest(h, i) \/ RevertRequest(h, i)
        PROVE  approvedBy'[id] \in Authorisers
    BY <1>2, <2>3 DEF ApproveRequest, RejectRequest, RevertRequest, Approve, Reject, Transition,
                      storeVars, Authorisers
  <2>4. ASSUME NEW h \in Handlers, ApplyActivate(h)
        PROVE  approvedBy'[id] \in Authorisers
    BY <1>2, <2>4 DEF ApplyActivate, Activate, Transition
  <2>5. ASSUME NEW h \in Handlers, ApplyRecordFailure(h) \/ RevertRecordFailure(h)
        PROVE  approvedBy'[id] \in Authorisers
    <3>1. Decided(subject[h])
      BY <2>5 DEF ApplyRecordFailure, RevertRecordFailure, ActingInv, Acting
    <3>2. id = subject[h] /\ approvedBy' = approvedBy
      BY <1>2, <2>5 DEF ApplyRecordFailure, RevertRecordFailure, RecordFailure
    <3> QED
      BY <3>1, <3>2 DEF Decided
  <2>6. ASSUME NEW p \in Procs, RevertStep(p)
        PROVE  approvedBy'[id] \in Authorisers
    BY <1>2, <2>6 DEF RevertStep, RevertDriverOK, RevertDriverRefused, RevertDriverLost,
                      RevertStore, Revert, storeVars
  <2>7. ASSUME Crash PROVE approvedBy'[id] \in Authorisers
    BY <1>2, <2>7 DEF Crash
  <2>8. ASSUME state' = state PROVE approvedBy'[id] \in Authorisers
    BY <1>2, <2>8
  <2> QED
    BY <2>1, <2>2, <2>3, <2>4, <2>5, <2>6, <2>7, <2>8
       DEF Next, HandlerStep, ApproveGet, ApplyOK, ApplyRefused, ApplyLost, TTLStep, Tick,
           RevertNext, Expiry, Expire, vars, storeVars
<1> QED
  BY <1>1, <1>2

(***************************************************************************)
(* Whoever acts for an action acts for a decided one: the handlers enter   *)
(* the acting labels after a store operation that saw it approved or       *)
(* active.                                                                 *)
(***************************************************************************)
LEMMA ActingInvNext == TypeOK /\ ActingInv /\ StateInv /\ [Next]_vars => ActingInv'
<1> SUFFICES ASSUME TypeOK, ActingInv, StateInv, [Next]_vars,
                    NEW h \in Handlers, pc'[h] \in Acting
             PROVE  Decided(subject[h])'
  BY DEF ActingInv, Acting
<1> DEFINE Keeps  == subject'[h] = subject[h] /\ pc[h] \in Acting
           Enters == /\ subject'[h] \in ActionIds
                     /\ state'[subject'[h]] \in {"approved", "active"}
<1> USE KillswitchAssumption DEF Procs
<1>1. CASE Keeps
  <2>1. Decided(subject[h]) /\ subject[h] \in ActionIds
    BY <1>1 DEF ActingInv, Acting, TypeOK
  <2> QED
    BY <1>1, <2>1, DecidedStable DEF Decided, Authorisers
<1>2. CASE Enters
  BY <1>2, StateInvNext DEF StateInv, Decided, Authorisers
<1>3. Keeps \/ Enters
  <2> USE DEF TypeOK, StoreTypeOK, Acting
  <2>1. ASSUME NEW p \in Procs \ {h}, NEW id, NEW label, Enter(p, id, label) PROVE Keeps
    BY <2>1 DEF Enter
  <2>2. ASSUME UNCHANGED <<pc, subject>> PROVE Keeps
    BY <2>2
  <2>3. ASSUME NEW g \in Handlers, NEW e \in Events, NEW id \in ActionIds, EvaluateAuto(g, e, id)
        PROVE  Keeps \/ Enters
    <3>1. Create(id, DomainOf[e], TRUE) /\ Enter(g, id, "apply")
      BY <2>3 DEF EvaluateAuto
    <3>2. state'[id] = "approved"
      BY <3>1, CreateChanges
    <3> QED
      BY <2>1, <3>1, <3>2 DEF Enter
  <2>4. ASSUME NEW g \in Handlers, NEW id \in ActionIds, ApproveRequest(g, id)
        PROVE  Keeps \/ Enters
    <3>1. Enter(g, id, "approve_get") /\ state'[id] = "approved"
      BY <2>4 DEF ApproveRequest, TransitionOK, Approve, Transition
    <3> QED
      BY <2>1, <3>1 DEF Enter
  <2>5. ASSUME NEW g \in Handlers, NEW id \in ActionIds, RevertRequest(g, id)
        PROVE  Keeps \/ Enters
    <3>1. CASE g # h
      BY <2>1, <2>5, <3>1 DEF RevertRequest
    <3>2. CASE g = h
      BY <2>5, <3>2 DEF RevertRequest, Enter, storeVars
    <3> QED
      BY <3>1, <3>2
  <2>6. ASSUME NEW g \in Handlers,
               \/ ApproveGet(g) \/ ApplyOK(g) \/ ApplyRefused(g) \/ ApplyLost(g)
               \/ ApplyActivate(g) \/ ApplyRecordFailure(g) \/ RevertRecordFailure(g)
        PROVE  Keeps
    <3>1. /\ pc[g] \in Acting
          /\ \/ \E label : Enter(g, subject[g], label)
             \/ Enter(g, NoAction, "idle")
      BY <2>6 DEF ApproveGet, ApplyOK, ApplyRefused, ApplyLost, ApplyActivate,
                  ApplyRecordFailure, RevertRecordFailure, Goto, Finish
    <3> QED
      BY <2>1, <3>1 DEF Enter
  <2>7. ASSUME NEW p \in Procs, RevertStep(p) PROVE Keeps
    <3>1. \/ pc[p] \in Acting /\ \E label : Enter(p, subject[p], label)
          \/ Enter(p, NoAction, "idle")
      BY <2>7 DEF RevertStep, RevertDriverOK, RevertDriverRefused, RevertDriverLost,
                  RevertStore, AfterRevertError, Goto, Finish
    <3> QED
      BY <2>1, <3>1 DEF Enter
  <2>8. ASSUME TTLStep PROVE Keeps
    BY <2>1, <2>2, <2>8 DEF TTLStep, Tick, RevertNext
  <2>9. ASSUME Crash PROVE FALSE
    BY <2>9 DEF Crash
  <2> QED
    BY <2>2, <2>3, <2>4, <2>5, <2>6, <2>7, <2>8, <2>9
       DEF Next, HandlerStep, EvaluatePending, RejectRequest, Expiry, vars, procVars
<1> QED
  BY <1>1, <1>2, <1>3

(***************************************************************************)
(* What was applied was decided, and every written rule is its trace.      *)
(***************************************************************************)
LEMMA AppliedInvNext == TypeOK /\ ActingInv /\ AppliedInv /\ [Next]_vars => AppliedInv'
<1> SUFFICES ASSUME TypeOK, ActingInv, AppliedInv, [Next]_vars PROVE AppliedInv'
  OBVIOUS
<1> USE DEF TypeOK, StoreTypeOK
<1>1. \A id \in applied : Decided(id)'
  BY DecidedStable DEF AppliedInv
<1>2. \A id \in applied : target'[id] = target[id]
  <2> SUFFICES ASSUME NEW id \in applied PROVE target'[id] = target[id]
    OBVIOUS
  <2>1. state[id] # "none"
    BY DEF AppliedInv, Decided
  <2>2. ASSUME NEW i \in ActionIds, NEW t, NEW auto, Create(i, t, auto)
        PROVE  target'[id] = target[id]
    BY <2>1, <2>2 DEF Create, IsNext
  <2> QED
    BY <2>2 DEF Next, vars, storeVars, HandlerStep, EvaluateAuto, EvaluatePending, ApproveRequest,
                RejectRequest, RevertRequest, Approve, Reject, ApproveGet, ApplyOK, ApplyRefused,
                ApplyLost, ApplyActivate, Activate, ApplyRecordFailure, RevertRecordFailure,
                RecordFailure, RevertStep, RevertDriverOK, RevertDriverRefused, RevertDriverLost,
                RevertStore, Revert, TTLStep, Tick, RevertNext, Expiry, Expire, Crash
<1>3. ASSUME applied' = applied, rules' \subseteq rules PROVE AppliedInv'
  BY <1>1, <1>2, <1>3 DEF AppliedInv, Decided, Authorisers
<1>4. ASSUME NEW h \in Handlers, ApplyOK(h) \/ ApplyRefused(h) \/ ApplyLost(h)
      PROVE  AppliedInv'
  <2>1. applied' = applied \cup {subject[h]} /\ pc[h] = "apply" /\ UNCHANGED storeVars
    BY <1>4 DEF ApplyOK, ApplyRefused, ApplyLost
  <2>2. rules' = rules \/ rules' = rules \cup {target[subject[h]]}
    BY <1>4 DEF ApplyOK, ApplyRefused, ApplyLost, AddRule
  <2>3. Decided(subject[h])
    BY <2>1 DEF ActingInv, Acting
  <2>4. \A id \in applied' : Decided(id)'
    BY <2>1, <2>3 DEF AppliedInv, Decided, storeVars, Authorisers
  <2>5. \A t \in rules' \ InitialRules : \E id \in applied' : target'[id] = t
    BY <2>1, <2>2 DEF AppliedInv, storeVars
  <2> QED
    BY <2>4, <2>5 DEF AppliedInv, Authorisers
<1>5. CASE \E h \in Handlers : ApplyOK(h) \/ ApplyRefused(h) \/ ApplyLost(h)
  BY <1>4, <1>5
<1>6. CASE ~\E h \in Handlers : ApplyOK(h) \/ ApplyRefused(h) \/ ApplyLost(h)
  <2>1. applied' = applied /\ rules' \subseteq rules
    BY <1>6 DEF Next, vars, storeVars, HandlerStep, EvaluateAuto, EvaluatePending,
                ApproveRequest, RejectRequest, RevertRequest, ApproveGet, ApplyActivate,
                ApplyRecordFailure, RevertRecordFailure, RevertStep, RevertDriverOK,
                RevertDriverRefused, RevertDriverLost, RemoveRule, RevertStore, TTLStep, Tick,
                RevertNext, Expiry, Crash
  <2> QED
    BY <1>3, <2>1
<1> QED
  BY <1>5, <1>6

(***************************************************************************)
(* The inductive invariant.                                                *)
(***************************************************************************)
LEMMA IInvHolds == Spec => []IInv
<1>1. Init => IInv
  <2> SUFFICES ASSUME Init PROVE IInv
    OBVIOUS
  <2>1. ActingInv
    BY DEF Init, ActingInv, Acting, Procs
  <2>2. StateInv
    BY DEF Init, StoreInit, StateInv
  <2>3. AppliedInv
    BY DEF Init, AppliedInv
  <2> QED
    BY <2>1, <2>2, <2>3, TypeOKInit DEF IInv
<1>2. IInv /\ [Next]_vars => IInv'
  BY TypeOKNext, ActingInvNext, StateInvNext, AppliedInvNext DEF IInv
<1> QED
  BY <1>1, <1>2, PTL DEF Spec

(***************************************************************************)
(* No rule is written without the approval the configuration asks for:     *)
(* with auto-block disabled, a human's (handleEvaluate, handleApprove).    *)
(***************************************************************************)
THEOREM EveryBlockIsAuthorisedHolds == Spec => []EveryBlockIsAuthorised
<1>1. IInv => EveryBlockIsAuthorised
  BY DEF IInv, AppliedInv, Decided, EveryBlockIsAuthorised
<1> QED
  BY <1>1, IInvHolds, PTL

(***************************************************************************)
(* No driver Apply for an action that is pending or was rejected.          *)
(***************************************************************************)
THEOREM UndecidedNeverEnforcedHolds == Spec => []UndecidedNeverEnforced
<1>1. IInv => UndecidedNeverEnforced
  BY DEF IInv, AppliedInv, Decided, UndecidedNeverEnforced
<1> QED
  BY <1>1, IInvHolds, PTL

-----------------------------------------------------------------------------
(***************************************************************************)
(* An approved action is always in some handler's hand.  Inductive given   *)
(* the types: the handler that has it leaves it only by taking it out of   *)
(* approved.                                                               *)
(***************************************************************************)
LEMMA InHandNext == TypeOK /\ ApprovedIsInHand /\ [Next]_vars => ApprovedIsInHand'
<1> SUFFICES ASSUME TypeOK, ApprovedIsInHand, [Next]_vars,
                    NEW id \in ActionIds, state'[id] = "approved"
             PROVE  \E h \in Handlers :
                      subject'[h] = id /\ pc'[h] \in {"approve_get", "apply", "activate", "apply_failed"}
  BY DEF ApprovedIsInHand, Applying
<1> DEFINE Holds(h)  == subject[h] = id /\ pc[h] \in {"approve_get", "apply", "activate", "apply_failed"}
           HoldsN(h) == subject'[h] = id /\ pc'[h] \in {"approve_get", "apply", "activate", "apply_failed"}
<1> USE KillswitchAssumption DEF Procs, TypeOK, StoreTypeOK, Applying
<1>1. CASE state[id] = "approved"
  <2>1. PICK h \in Handlers : Holds(h)
    BY <1>1 DEF ApprovedIsInHand
  <2>2. pc[h] # "idle" /\ h # TTL
    BY <2>1
  <2>3. ASSUME NEW p \in Procs \ {h}, NEW i, NEW label, Enter(p, i, label) PROVE HoldsN(h)
    BY <2>1, <2>3 DEF Enter
  <2>4. ASSUME UNCHANGED <<pc, subject>> PROVE HoldsN(h)
    BY <2>1, <2>4
  <2>5. ASSUME NEW g \in Handlers,
               \/ \E e \in Events, i \in ActionIds : EvaluateAuto(g, e, i)
               \/ \E i \in ActionIds : ApproveRequest(g, i) \/ RevertRequest(g, i)
        PROVE  HoldsN(h)
    <3>1. pc[g] = "idle" /\ \E i \in ActionIds : \E label : Enter(g, i, label)
      BY <2>5 DEF EvaluateAuto, ApproveRequest, RevertRequest
    <3> QED
      BY <2>2, <2>3, <3>1
  <2>6. ASSUME NEW g \in Handlers,
               ApproveGet(g) \/ ApplyOK(g) \/ ApplyRefused(g) \/ ApplyLost(g)
        PROVE  HoldsN(h)
    <3>1. CASE g = h
      BY <1>1, <2>1, <2>6, <3>1 DEF ApproveGet, ApplyOK, ApplyRefused, ApplyLost, Goto, Enter
    <3>2. CASE g # h
      BY <2>3, <2>6, <3>2 DEF ApproveGet, ApplyOK, ApplyRefused, ApplyLost, Goto, Finish
    <3> QED
      BY <3>1, <3>2
  <2>7. ASSUME NEW g \in Handlers, ApplyActivate(g) \/ ApplyRecordFailure(g) \/ RevertRecordFailure(g)
        PROVE  HoldsN(h)
    <3>1. g # h
      BY <2>1, <2>7 DEF ApplyActivate, Activate, Transition, ApplyRecordFailure,
                        RevertRecordFailure, RecordFailure, ActionStates
    <3> QED
      BY <2>3, <2>7, <3>1 DEF ApplyActivate, ApplyRecordFailure, RevertRecordFailure, Finish
  <2>8. ASSUME NEW p \in Procs, RevertStep(p) PROVE HoldsN(h)
    <3>1. pc[p] \in {"revert_driver", "revert_store"} /\ \E i : \E label : Enter(p, i, label)
      BY <2>8 DEF RevertStep, RevertDriverOK, RevertDriverRefused, RevertDriverLost, RevertStore,
                  AfterRevertError, Goto, Finish
    <3> QED
      BY <2>1, <2>3, <3>1
  <2>9. ASSUME TTLStep PROVE HoldsN(h)
    BY <2>2, <2>3, <2>4, <2>9 DEF TTLStep, Tick, RevertNext
  <2>10. ASSUME Crash PROVE FALSE
    BY <2>10 DEF Crash, ActionStates
  <2> QED
    BY <2>4, <2>5, <2>6, <2>7, <2>8, <2>9, <2>10
       DEF Next, HandlerStep, EvaluatePending, RejectRequest, Expiry, vars, procVars
<1>2. CASE state[id] # "approved"
  <2>1. ASSUME NEW g \in Handlers, NEW e \in Events, NEW i \in ActionIds, EvaluateAuto(g, e, i)
        PROVE  HoldsN(g)
    <3>1. Create(i, DomainOf[e], TRUE) /\ Enter(g, i, "apply")
      BY <2>1 DEF EvaluateAuto
    <3>2. id = i
      BY <1>2, <3>1, CreateChanges
    <3> QED
      BY <3>1, <3>2 DEF Enter
  <2>2. ASSUME NEW g \in Handlers, NEW e \in Events, NEW i \in ActionIds, EvaluatePending(g, e, i)
        PROVE  FALSE
    <3>1. Create(i, DomainOf[e], FALSE)
      BY <2>2 DEF EvaluatePending
    <3> QED
      BY <1>2, <3>1, CreateChanges
  <2>3. ASSUME NEW g \in Handlers, NEW i \in ActionIds, ApproveRequest(g, i) PROVE HoldsN(g)
    <3>1. id = i
      BY <1>2, <2>3 DEF ApproveRequest, Approve, Transition
    <3> QED
      BY <2>3, <3>1 DEF ApproveRequest, Enter
  <2>4. ASSUME NEW g \in Handlers,
               \/ \E i \in ActionIds : RejectRequest(g, i)
               \/ ApplyActivate(g) \/ ApplyRecordFailure(g) \/ RevertRecordFailure(g)
        PROVE  FALSE
    BY <1>2, <2>4 DEF RejectRequest, Reject, Transition, ApplyActivate, Activate,
                      ApplyRecordFailure, RevertRecordFailure, RecordFailure
  <2>5. ASSUME NEW p \in Procs, RevertStep(p) PROVE FALSE
    BY <1>2, <2>5 DEF RevertStep, RevertDriverOK, RevertDriverRefused, RevertDriverLost,
                      RevertStore, Revert, storeVars
  <2>6. ASSUME Crash PROVE FALSE
    BY <1>2, <2>6 DEF Crash
  <2>7. ASSUME state' = state PROVE FALSE
    BY <1>2, <2>7
  <2> QED
    BY <2>1, <2>2, <2>3, <2>4, <2>5, <2>6, <2>7
       DEF Next, HandlerStep, RevertRequest, ApproveGet, ApplyOK, ApplyRefused, ApplyLost,
           TTLStep, Tick, RevertNext, Expiry, Expire, vars, storeVars
<1> QED
  BY <1>1, <1>2

(***************************************************************************)
(* No action rests in approved: a handler always has it in hand.           *)
(***************************************************************************)
THEOREM ApprovedIsInHandHolds == Spec => []ApprovedIsInHand
<1>1. Init => ApprovedIsInHand
  BY DEF Init, StoreInit, ApprovedIsInHand
<1> QED
  BY <1>1, InHandNext, KillswitchType, PTL DEF Spec

-----------------------------------------------------------------------------
(***************************************************************************)
(* Every step of the controller is a move of the abstract lifecycle or     *)
(* leaves the states alone.                                                *)
(***************************************************************************)
LEMMA LifecycleStep == IInv /\ [Next]_vars => [Lifecycle!Next]_state
<1> SUFFICES ASSUME TypeOK, ActingInv, [Next]_vars PROVE [Lifecycle!Next]_state
  BY DEF IInv
<1> USE DEF TypeOK, StoreTypeOK, Lifecycle!Next
<1>1. ASSUME NEW i \in ActionIds, NEW t, NEW auto \in BOOLEAN, Create(i, t, auto)
      PROVE  Lifecycle!Admit(i)
  BY <1>1, CreateChanges DEF Lifecycle!Admit, Lifecycle!Terminal, TerminalStates
<1>2. ASSUME NEW i \in ActionIds, Approve(i) \/ Reject(i)
      PROVE  Lifecycle!Decide(i) \/ state' = state
  BY <1>2 DEF Approve, Reject, Transition, Lifecycle!Decide, Lifecycle!Move
<1>3. ASSUME NEW i \in ActionIds, Activate(i) PROVE Lifecycle!Enforce(i) \/ state' = state
  BY <1>3 DEF Activate, Transition, Lifecycle!Enforce, Lifecycle!Move
<1>4. ASSUME NEW i \in ActionIds, Revert(i) PROVE Lifecycle!Lift(i) \/ state' = state
  BY <1>4 DEF Revert, Lifecycle!Lift, Lifecycle!Move
<1>5. ASSUME NEW i \in ActionIds, NEW why, Decided(i), RecordFailure(i, why)
      PROVE  Lifecycle!Fail(i) \/ state' = state
  BY <1>5 DEF RecordFailure, Decided, ActionStates, Lifecycle!Fail, Lifecycle!Move
<1>6. ASSUME NEW h \in Handlers, ApplyActivate(h) \/ ApplyRecordFailure(h) \/ RevertRecordFailure(h)
      PROVE  [Lifecycle!Next]_state
  <2>1. subject[h] \in ActionIds /\ Decided(subject[h])
    BY <1>6 DEF ApplyActivate, ApplyRecordFailure, RevertRecordFailure, ActingInv, Acting, Procs
  <2> QED
    BY <1>3, <1>5, <1>6, <2>1 DEF ApplyActivate, ApplyRecordFailure, RevertRecordFailure
<1>7. ASSUME NEW h \in Handlers, HandlerStep(h) PROVE [Lifecycle!Next]_state
  BY <1>1, <1>2, <1>6, <1>7
     DEF HandlerStep, EvaluateAuto, EvaluatePending, ApproveRequest, RejectRequest, RevertRequest,
         ApproveGet, ApplyOK, ApplyRefused, ApplyLost, storeVars
<1>8. ASSUME NEW p \in Procs, RevertStep(p) PROVE [Lifecycle!Next]_state
  <2>1. pc[p] # "idle" /\ subject[p] \in ActionIds
    BY <1>8 DEF RevertStep, RevertDriverOK, RevertDriverRefused, RevertDriverLost, RevertStore
  <2> QED
    BY <1>4, <1>8, <2>1 DEF RevertStep, RevertDriverOK, RevertDriverRefused, RevertDriverLost,
                            RevertStore, storeVars
<1>9. ASSUME Crash PROVE Lifecycle!Restart
  BY <1>9 DEF Crash, Lifecycle!Restart, Lifecycle!Absent, ActionStates, AbsentStates
<1>10. ASSUME TTLStep \/ (\E i \in ActionIds : Expiry(i)) \/ UNCHANGED vars PROVE state' = state
  BY <1>10 DEF TTLStep, Tick, RevertNext, Expiry, Expire, vars, storeVars
<1> QED
  BY <1>7, <1>8, <1>9, <1>10 DEF Next

(***************************************************************************)
(* The controller implements the lifecycle of ActionLifecycle: an action   *)
(* becomes active once and only from approved, a rejected one stays so,    *)
(* and only terminal actions are evicted.                                  *)
(***************************************************************************)
THEOREM ImplementsLifecycleHolds == Spec => ImplementsLifecycle
<1>1. Init => Lifecycle!Init
  BY DEF Init, StoreInit, Lifecycle!Init
<1> QED
  BY <1>1, LifecycleStep, IInvHolds, PTL DEF Spec, ImplementsLifecycle, Lifecycle!Spec

-----------------------------------------------------------------------------
(***************************************************************************)
(* SoleActiveIsEnforced says nothing of an action before it is activated,  *)
(* nor of one that is being lifted.  HandInv: only what was active is ever *)
(* lifted, and by the TTL goroutine only what has expired.  RuleInv: an    *)
(* action is activated with its rule in place, and as long as it is active *)
(* the handler that took the rule away has not finished.                   *)
(***************************************************************************)
Early == {"none", "pending", "approved"}

Sole(id) == \A j \in ActionIds \ {id} : target[j] # target[id]

HandInv ==
  /\ \A p \in Procs : subject[p] # NoAction => state[subject[p]] # "none"
  /\ \A p \in Procs : pc[p] = "revert_driver" => state[subject[p]] \notin Early
  /\ subject[TTL] # NoAction => expired[subject[TTL]]
  /\ \A id \in batch : expired[id] /\ state[id] \notin Early

TargetInv ==
  \A id \in ActionIds : IF state[id] = "none" THEN target[id] = NoTarget
                                              ELSE target[id] \in Targets

Lifting(h, id) == subject[h] = id /\ pc[h] \in {"revert_store", "revert_failed"}

RuleInv ==
  \A id \in ActionIds : Sole(id) =>
    /\ \A h \in Handlers : state[id] = "approved" /\ subject[h] = id /\ pc[h] = "activate"
                             => target[id] \in rules
    /\ state[id] = "active" /\ ~expired[id] /\ target[id] \notin rules
         => \E h \in Handlers : Lifting(h, id)

\* The lifecycle has no way back.
LEMMA StatesMoveOn ==
  ASSUME TypeOK, [Lifecycle!Next]_state, NEW id \in ActionIds
  PROVE  /\ state[id] # "none" => state'[id] # "none"
         /\ state[id] \notin Early => state'[id] \notin Early
         /\ state'[id] = "active" => state[id] \in {"approved", "active"}
         /\ state'[id] = "approved" => state[id] \in Early
<1> USE DEF TypeOK, StoreTypeOK, Early
<1>1. CASE state' = state
  BY <1>1
<1>2. ASSUME NEW i \in ActionIds, NEW from, NEW to \in {"approved", "rejected", "active", "reverted", "failed"},
             Lifecycle!Move(i, from, to)
      PROVE  state'[id] = IF id = i THEN to ELSE state[id]
  BY <1>2 DEF Lifecycle!Move
<1>3. ASSUME NEW i \in ActionIds, Lifecycle!Admit(i)
      PROVE  IF id = i THEN state[id] = "none" /\ state'[id] \in {"pending", "approved"}
                       ELSE state'[id] = state[id] \/ (state[id] \in TerminalStates /\ state'[id] = "gone")
  BY <1>3 DEF Lifecycle!Admit, Lifecycle!Terminal, TerminalStates
<1>4. CASE \E i \in ActionIds : Lifecycle!Admit(i)
  BY <1>3, <1>4 DEF TerminalStates
<1>5. ASSUME NEW i \in ActionIds, Lifecycle!Decide(i)
      PROVE  state[i] = "pending" /\ state'[id] \in (IF id = i THEN {"approved", "rejected"} ELSE {state[id]})
  BY <1>2, <1>5 DEF Lifecycle!Decide, Lifecycle!Move
<1>6. ASSUME NEW i \in ActionIds, Lifecycle!Enforce(i)
      PROVE  state[i] = "approved" /\ state'[id] = IF id = i THEN "active" ELSE state[id]
  BY <1>2, <1>6 DEF Lifecycle!Enforce, Lifecycle!Move
<1>7. ASSUME NEW i \in ActionIds, Lifecycle!Lift(i) \/ Lifecycle!Fail(i)
      PROVE  state'[id] \in (IF id = i THEN {"reverted", "failed"} ELSE {state[id]})
  BY <1>2, <1>7 DEF Lifecycle!Lift, Lifecycle!Fail
<1>8. CASE Lifecycle!Restart
  BY <1>8 DEF Lifecycle!Restart, Lifecycle!Absent
<1> QED
  BY <1>1, <1>4, <1>5, <1>6, <1>7, <1>8 DEF Lifecycle!Next

LEMMA CreateRecords ==
  ASSUME TypeOK, NEW e \in Events, NEW i \in ActionIds, NEW auto, Create(i, DomainOf[e], auto)
  PROVE  /\ target' = [target EXCEPT ![i] = DomainOf[e]] /\ UNCHANGED expired
         /\ target'[i] \in Targets
         /\ \A j \in ActionIds \ {i} : target'[j] = target[j]
<1>1. DomainOf[e] \in Targets
  BY KillswitchAssumption
<1>2. target' = [target EXCEPT ![i] = DomainOf[e]] /\ UNCHANGED expired
  BY DEF Create
<1> QED
  BY <1>1, <1>2 DEF TypeOK, StoreTypeOK

\* What an action is about is fixed when it is created, and time does not go back.
LEMMA RecordsStay ==
  ASSUME TypeOK, TargetInv, [Next]_vars
  PROVE  /\ \A id \in ActionIds : /\ expired[id] => expired'[id]
                                  /\ state[id] # "none" => target'[id] = target[id]
         /\ \A id \in ActionIds : target'[id] = target[id]
              \/ (target[id] = NoTarget /\ target'[id] \in Targets /\ state'[id] # "none")
<1> USE KillswitchAssumption DEF TypeOK, StoreTypeOK
<1>1. ASSUME NEW h \in Handlers, NEW e \in Events, NEW i \in ActionIds,
             EvaluateAuto(h, e, i) \/ EvaluatePending(h, e, i)
      PROVE  /\ state[i] = "none" /\ state'[i] # "none" /\ UNCHANGED expired
             /\ target'[i] \in Targets /\ \A j \in ActionIds \ {i} : target'[j] = target[j]
  <2>1. PICK auto \in BOOLEAN : Create(i, DomainOf[e], auto)
    BY <1>1 DEF EvaluateAuto, EvaluatePending
  <2>2. state[i] = "none" /\ state'[i] # "none"
    BY <2>1, CreateChanges
  <2> QED
    BY <2>1, <2>2, CreateRecords
<1>2. CASE \E h \in Handlers, e \in Events, i \in ActionIds :
             EvaluateAuto(h, e, i) \/ EvaluatePending(h, e, i)
  BY <1>1, <1>2 DEF TargetInv
<1>3. CASE ~\E h \in Handlers, e \in Events, i \in ActionIds :
              EvaluateAuto(h, e, i) \/ EvaluatePending(h, e, i)
  <2>1. target' = target
    BY <1>3 DEF Next, vars, storeVars, HandlerStep, ApproveRequest,
                RejectRequest, RevertRequest, Approve, Reject, ApproveGet, ApplyOK, ApplyRefused,
                ApplyLost, ApplyActivate, Activate, ApplyRecordFailure, RevertRecordFailure,
                RecordFailure, RevertStep, RevertDriverOK, RevertDriverRefused, RevertDriverLost,
                RevertStore, Revert, TTLStep, Tick, RevertNext, Expiry, Expire, Crash
  <2>2. expired' = expired \/ \E i \in ActionIds : expired' = [expired EXCEPT ![i] = TRUE]
    BY <1>3 DEF Next, vars, storeVars, HandlerStep, ApproveRequest,
                RejectRequest, RevertRequest, Approve, Reject, ApproveGet, ApplyOK, ApplyRefused,
                ApplyLost, ApplyActivate, Activate, ApplyRecordFailure, RevertRecordFailure,
                RecordFailure, RevertStep, RevertDriverOK, RevertDriverRefused, RevertDriverLost,
                RevertStore, Revert, TTLStep, Tick, RevertNext, Expiry, Expire, Crash
  <2> QED
    BY <2>1, <2>2
<1> QED
  BY <1>2, <1>3

LEMMA TargetInvNext == IInv /\ TargetInv /\ [Next]_vars => TargetInv'
<1> SUFFICES ASSUME TypeOK, IInv, TargetInv, [Next]_vars, NEW id \in ActionIds
             PROVE  IF state'[id] = "none" THEN target'[id] = NoTarget ELSE target'[id] \in Targets
  BY DEF TargetInv, IInv
<1>1. state[id] # "none" => state'[id] # "none"
  BY LifecycleStep, StatesMoveOn
<1>2. state[id] = "none" /\ state'[id] # "none" => target'[id] \in Targets
  <2> SUFFICES ASSUME state[id] = "none", state'[id] # "none" PROVE target'[id] \in Targets
    OBVIOUS
  <2> USE KillswitchAssumption DEF TypeOK, StoreTypeOK
  <2>1. ASSUME NEW e \in Events, NEW i \in ActionIds, NEW auto \in BOOLEAN, Create(i, DomainOf[e], auto)
        PROVE  target'[id] \in Targets
    <3>1. id = i
      BY <2>1, CreateChanges DEF TerminalStates
    <3> QED
      BY <2>1, <3>1, CreateRecords
  <2>2. ASSUME NEW i \in ActionIds,
               \/ Approve(i) \/ Reject(i) \/ Activate(i) \/ Revert(i)
               \/ RecordFailure(i, "apply") \/ RecordFailure(i, "revert")
        PROVE  FALSE
    BY <2>2 DEF Approve, Reject, Transition, Activate, Revert, RecordFailure, ActionStates
  <2>3. ASSUME NEW p \in Procs, pc[p] # "idle" PROVE subject[p] \in ActionIds
    BY <2>3
  <2>4. \A h \in Handlers : h \in Procs
    BY DEF Procs
  <2>5. ASSUME NEW h \in Handlers, HandlerStep(h) PROVE target'[id] \in Targets
    BY <2>1, <2>2, <2>3, <2>4, <2>5
       DEF HandlerStep, EvaluateAuto, EvaluatePending, ApproveRequest, RejectRequest,
           RevertRequest, ApproveGet, ApplyOK, ApplyRefused, ApplyLost, ApplyActivate,
           ApplyRecordFailure, RevertRecordFailure, storeVars
  <2>6. ASSUME NEW p \in Procs, RevertStep(p) PROVE FALSE
    BY <2>2, <2>3, <2>6 DEF RevertStep, RevertDriverOK, RevertDriverRefused, RevertDriverLost,
                            RevertStore, storeVars
  <2>7. ASSUME Crash PROVE FALSE
    BY <2>7 DEF Crash, ActionStates
  <2>8. ASSUME UNCHANGED state PROVE FALSE
    BY <2>8
  <2> QED
    BY <2>5, <2>6, <2>7, <2>8
       DEF Next, vars, storeVars, TTLStep, Tick, RevertNext, Expiry, Expire
<1> QED
  BY <1>1, <1>2, RecordsStay DEF TargetInv

\* How a goroutine comes to have an action in hand.
LEMMA HandMoves ==
  ASSUME TypeOK, [Next]_vars, NEW p \in Procs
  PROVE  \/ subject'[p] = subject[p] /\ (pc'[p] = "revert_driver" => pc[p] = "revert_driver")
         \/ subject'[p] = NoAction /\ pc'[p] = "idle"
         \/ /\ p \in Handlers /\ subject'[p] \in ActionIds
            /\ state'[subject'[p]] # "none" /\ pc'[p] # "revert_driver"
         \/ /\ p \in Handlers /\ subject'[p] \in ActionIds
            /\ state[subject'[p]] = "active" /\ state' = state
         \/ p = TTL /\ subject'[p] \in batch /\ state' = state
<1> DEFINE Same == subject'[p] = subject[p] /\ pc'[p] = pc[p]
           Goal == \/ subject'[p] = subject[p] /\ (pc'[p] = "revert_driver" => pc[p] = "revert_driver")
                   \/ subject'[p] = NoAction /\ pc'[p] = "idle"
                   \/ /\ p \in Handlers /\ subject'[p] \in ActionIds
                      /\ state'[subject'[p]] # "none" /\ pc'[p] # "revert_driver"
                   \/ /\ p \in Handlers /\ subject'[p] \in ActionIds
                      /\ state[subject'[p]] = "active" /\ state' = state
                   \/ p = TTL /\ subject'[p] \in batch /\ state' = state
<1> USE KillswitchAssumption DEF TypeOK, StoreTypeOK, Procs
<1>1. ASSUME NEW q \in Procs, NEW i, NEW label, label \in Labels, Enter(q, i, label)
      PROVE  IF p = q THEN subject'[p] = i /\ pc'[p] = label ELSE Same
  BY <1>1 DEF Enter
<1>2. ASSUME NEW h \in Handlers, NEW e \in Events, NEW i \in ActionIds, EvaluateAuto(h, e, i)
      PROVE  Goal
  <2>1. state'[i] = "approved" /\ Enter(h, i, "apply")
    BY <1>2, CreateChanges DEF EvaluateAuto
  <2> QED
    BY <1>1, <2>1 DEF Labels
<1>3. ASSUME NEW h \in Handlers, NEW i \in ActionIds, ApproveRequest(h, i)
      PROVE  Goal
  <2>1. state'[i] = "approved" /\ Enter(h, i, "approve_get")
    BY <1>3 DEF ApproveRequest, Approve, Transition, TransitionOK
  <2> QED
    BY <1>1, <2>1 DEF Labels
<1>4. ASSUME NEW h \in Handlers, NEW i \in ActionIds, RevertRequest(h, i)
      PROVE  Goal
  <2>1. CASE state[i] = "active"
    BY <1>1, <1>4, <2>1 DEF RevertRequest, storeVars, Labels
  <2>2. CASE state[i] # "active"
    BY <1>1, <1>4, <2>2 DEF RevertRequest, storeVars, Labels, ActionStates
  <2> QED
    BY <2>1, <2>2
<1>5. ASSUME NEW q \in Procs, NEW label \in {"apply", "activate", "apply_failed", "revert_store", "revert_failed"},
             Goto(q, label) \/ Finish(q)
      PROVE  Goal
  BY <1>1, <1>5 DEF Goto, Finish, Labels
<1>6. ASSUME Same PROVE Goal
  BY <1>6
<1> HIDE DEF Goal
<1>7. ASSUME NEW h \in Handlers, HandlerStep(h) PROVE Goal
  <2>1. CASE \E e \in Events, i \in ActionIds : EvaluateAuto(h, e, i)
    BY <1>2, <2>1
  <2>2. CASE \E i \in ActionIds : ApproveRequest(h, i) \/ RevertRequest(h, i)
    BY <1>3, <1>4, <2>2
  <2>3. CASE \/ \E e \in Events, i \in ActionIds : EvaluatePending(h, e, i)
             \/ \E i \in ActionIds : RejectRequest(h, i)
    BY <1>6, <2>3 DEF EvaluatePending, RejectRequest, procVars
  <2>4. CASE \/ ApproveGet(h) \/ ApplyOK(h) \/ ApplyRefused(h) \/ ApplyLost(h)
             \/ ApplyActivate(h) \/ ApplyRecordFailure(h) \/ RevertRecordFailure(h)
    BY <1>5, <2>4 DEF ApproveGet, ApplyOK, ApplyRefused, ApplyLost, ApplyActivate,
                      ApplyRecordFailure, RevertRecordFailure
  <2> QED
    BY <1>7, <2>1, <2>2, <2>3, <2>4 DEF HandlerStep
<1>8. ASSUME NEW q \in Procs, RevertStep(q) PROVE Goal
  BY <1>5, <1>8 DEF RevertStep, RevertDriverOK, RevertDriverRefused, RevertDriverLost,
                    RevertStore, AfterRevertError
<1>9. ASSUME NEW i \in ActionIds, RevertNext(i) PROVE Goal
  BY <1>1, <1>9 DEF RevertNext, storeVars, Labels, Goal
<1>10. ASSUME Crash PROVE Goal
  BY <1>10 DEF Crash, Goal
<1>11. ASSUME Tick \/ (\E i \in ActionIds : Expiry(i)) \/ UNCHANGED vars PROVE Goal
  BY <1>6, <1>11 DEF Tick, Expiry, vars, procVars
<1> QED
  BY <1>7, <1>8, <1>9, <1>10, <1>11 DEF Next, TTLStep, Goal

LEMMA BatchMoves ==
  ASSUME TypeOK, [Next]_vars
  PROVE  batch' \subseteq batch \/ (batch' = ListExpired /\ UNCHANGED storeVars)
<1>1. ASSUME NEW h \in Handlers, HandlerStep(h) PROVE batch' = batch
  BY <1>1 DEF HandlerStep, EvaluateAuto, EvaluatePending, ApproveRequest, RejectRequest,
              RevertRequest, ApproveGet, ApplyOK, ApplyRefused, ApplyLost, ApplyActivate,
              ApplyRecordFailure, RevertRecordFailure, procVars
<1>2. ASSUME NEW p \in Procs, RevertStep(p) PROVE batch' = batch
  BY <1>2 DEF RevertStep, RevertDriverOK, RevertDriverRefused, RevertDriverLost, RevertStore
<1> QED
  BY <1>1, <1>2 DEF Next, TTLStep, Tick, RevertNext, Expiry, Crash, vars, procVars

LEMMA HandInvNext == IInv /\ TargetInv /\ HandInv /\ [Next]_vars => HandInv'
<1> SUFFICES ASSUME IInv, TypeOK, TargetInv, HandInv, [Next]_vars PROVE HandInv'
  BY DEF IInv
<1>1. \A id \in ActionIds : /\ state[id] # "none" => state'[id] # "none"
                            /\ state[id] \notin Early => state'[id] \notin Early
                            /\ expired[id] => expired'[id]
  BY LifecycleStep, StatesMoveOn, RecordsStay
<1>2. \A p \in Procs : subject[p] \in ActionIds \cup {NoAction}
  BY DEF TypeOK
<1>3. batch \subseteq ActionIds
  BY DEF TypeOK
<1>4. TTL \in Procs /\ TTL \notin Handlers
  BY KillswitchAssumption DEF Procs
<1>5. ASSUME NEW p \in Procs, subject'[p] # NoAction PROVE state'[subject'[p]] # "none"
  BY <1>1, <1>2, <1>3, <1>5, HandMoves DEF HandInv, Early
<1>6. ASSUME NEW p \in Procs, pc'[p] = "revert_driver" PROVE state'[subject'[p]] \notin Early
  <2>1. pc[p] = "revert_driver" => subject[p] \in ActionIds
    BY DEF TypeOK
  <2> QED
    BY <1>1, <1>2, <1>3, <1>6, <2>1, HandMoves DEF HandInv, Early
<1>7. ASSUME subject'[TTL] # NoAction PROVE expired'[subject'[TTL]]
  BY <1>1, <1>2, <1>3, <1>4, <1>7, HandMoves DEF HandInv
<1>8. ASSUME NEW id \in batch' PROVE expired'[id] /\ state'[id] \notin Early
  BY <1>1, <1>3, <1>8, BatchMoves DEF HandInv, ListExpired, Early, storeVars
<1> QED
  BY <1>5, <1>6, <1>7, <1>8 DEF HandInv, Early

\* A rule leaves AdGuard by a driver's revert only, and a handler that took it
\* out still has the store to tell.
LEMMA RulesShrink ==
  ASSUME TypeOK, [Next]_vars, NEW t \in rules, t \notin rules'
  PROVE  \E p \in Procs :
           /\ pc[p] = "revert_driver" /\ target[subject[p]] = t
           /\ \/ p = TTL
              \/ p \in Handlers /\ subject'[p] = subject[p] /\ pc'[p] \in {"revert_store", "revert_failed"}
<1>1. ASSUME NEW h \in Handlers, HandlerStep(h) PROVE rules \subseteq rules'
  BY <1>1 DEF HandlerStep, EvaluateAuto, EvaluatePending, ApproveRequest, RejectRequest,
              RevertRequest, ApproveGet, ApplyOK, ApplyRefused, ApplyLost, ApplyActivate,
              ApplyRecordFailure, RevertRecordFailure, AddRule
<1>2. PICK p \in Procs : RevertDriverOK(p) \/ RevertDriverLost(p)
  BY <1>1 DEF Next, RevertStep, RevertDriverRefused, RevertStore, TTLStep, Tick, RevertNext,
              Expiry, Crash, vars
<1>3. pc[p] = "revert_driver" /\ target[subject[p]] = t
  BY <1>2 DEF RevertDriverOK, RevertDriverLost, RemoveRule
<1>4. p # TTL => Goto(p, "revert_store") \/ Goto(p, "revert_failed")
  BY <1>2 DEF RevertDriverOK, RevertDriverLost, AfterRevertError
<1> QED
  BY <1>3, <1>4 DEF Goto, Enter, Procs, TypeOK

\* An action is activated by a handler that has applied it.
LEMMA Activation ==
  ASSUME TypeOK, [Next]_vars, NEW id \in ActionIds, state[id] = "approved", state'[id] = "active"
  PROVE  \E h \in Handlers : subject[h] = id /\ pc[h] = "activate" /\ rules' = rules
<1> USE DEF TypeOK, StoreTypeOK
<1>1. ASSUME NEW i \in ActionIds, NEW t, NEW auto \in BOOLEAN, Create(i, t, auto) PROVE FALSE
  BY <1>1, CreateChanges
<1>2. ASSUME NEW i, \/ Approve(i) \/ Reject(i) \/ Revert(i)
                    \/ RecordFailure(i, "apply") \/ RecordFailure(i, "revert")
      PROVE  FALSE
  BY <1>2 DEF Approve, Reject, Transition, Revert, RecordFailure
<1>3. ASSUME UNCHANGED state \/ Crash PROVE FALSE
  BY <1>3 DEF Crash, ActionStates
<1>4. ASSUME NEW h \in Handlers, HandlerStep(h) PROVE ApplyActivate(h)
  BY <1>1, <1>2, <1>3, <1>4
     DEF HandlerStep, EvaluateAuto, EvaluatePending, ApproveRequest, RejectRequest, RevertRequest,
         ApproveGet, ApplyOK, ApplyRefused, ApplyLost, ApplyRecordFailure, RevertRecordFailure,
         storeVars
<1>5. ASSUME NEW p \in Procs, RevertStep(p) PROVE FALSE
  BY <1>2, <1>3, <1>5
     DEF RevertStep, RevertDriverOK, RevertDriverRefused, RevertDriverLost, RevertStore, storeVars
<1>6. PICK h \in Handlers : ApplyActivate(h)
  BY <1>3, <1>4, <1>5 DEF Next, TTLStep, Tick, RevertNext, Expiry, Expire, vars, storeVars
<1> QED
  BY <1>6 DEF ApplyActivate, Activate, Transition

\* A handler at one of its own labels is moved on by nobody else.
LEMMA OthersLeaveHandler ==
  ASSUME TypeOK, [Next]_vars, NEW h \in Handlers, ~HandlerStep(h), ~RevertStep(h), ~Crash
  PROVE  subject'[h] = subject[h] /\ pc'[h] = pc[h]
<1> DEFINE Same == subject'[h] = subject[h] /\ pc'[h] = pc[h]
<1> USE KillswitchAssumption DEF TypeOK, Procs
<1>1. ASSUME NEW q \in Procs \ {h}, NEW i, NEW label, Enter(q, i, label) PROVE Same
  BY <1>1 DEF Enter
<1> HIDE DEF Same
<1>2. ASSUME UNCHANGED <<pc, subject>> PROVE Same
  BY <1>2 DEF Same
<1>3. ASSUME NEW q \in Handlers \ {h}, HandlerStep(q) PROVE Same
  BY <1>1, <1>2, <1>3
     DEF HandlerStep, EvaluateAuto, EvaluatePending, ApproveRequest, RejectRequest, RevertRequest,
         ApproveGet, ApplyOK, ApplyRefused, ApplyLost, ApplyActivate, ApplyRecordFailure,
         RevertRecordFailure, Goto, Finish, procVars
<1>4. ASSUME NEW q \in Procs \ {h}, RevertStep(q) PROVE Same
  BY <1>1, <1>4 DEF RevertStep, RevertDriverOK, RevertDriverRefused, RevertDriverLost,
                    RevertStore, AfterRevertError, Goto, Finish
<1>5. ASSUME TTLStep \/ (\E i \in ActionIds : Expiry(i)) \/ UNCHANGED vars PROVE Same
  BY <1>1, <1>2, <1>5 DEF TTLStep, Tick, RevertNext, Expiry, vars, procVars
<1> QED
  BY <1>3, <1>4, <1>5 DEF Next, Same

\* The handler that took the rule away does not finish and leave the action active.
LEMMA Parked ==
  ASSUME TypeOK, [Next]_vars, NEW h \in Handlers, NEW id \in ActionIds, Lifting(h, id),
         state[id] = "active", state'[id] = "active"
  PROVE  Lifting(h, id)'
<1> USE DEF TypeOK, StoreTypeOK, Lifting
<1>1. ~HandlerStep(h)
  BY DEF HandlerStep, EvaluateAuto, EvaluatePending, ApproveRequest, RejectRequest, RevertRequest,
         ApproveGet, ApplyOK, ApplyRefused, ApplyLost, ApplyActivate, ApplyRecordFailure,
         RevertRecordFailure, RecordFailure, ActionStates
<1>2. ~RevertStep(h)
  BY DEF RevertStep, RevertDriverOK, RevertDriverRefused, RevertDriverLost, RevertStore, Revert
<1>3. ~Crash
  BY DEF Crash, ActionStates
<1> QED
  BY <1>1, <1>2, <1>3, OthersLeaveHandler

\* A handler gets to "activate" by a driver call that succeeded.
LEMMA AppliedFirst ==
  ASSUME TypeOK, [Next]_vars, NEW h \in Handlers, pc'[h] = "activate"
  PROVE  \/ subject'[h] = subject[h] /\ pc[h] = "activate"
         \/ subject'[h] = subject[h] /\ target[subject[h]] \in rules' /\ target' = target
<1> USE KillswitchAssumption DEF TypeOK, Procs
<1>1. ASSUME HandlerStep(h) PROVE ApplyOK(h) \/ UNCHANGED <<pc, subject>>
  BY <1>1 DEF HandlerStep, EvaluateAuto, EvaluatePending, ApproveRequest, RejectRequest, RevertRequest,
         ApproveGet, ApplyRefused, ApplyLost, ApplyActivate, ApplyRecordFailure,
         RevertRecordFailure, Goto, Finish, Enter, procVars
<1>2. ~RevertStep(h)
  BY DEF RevertStep, RevertDriverOK, RevertDriverRefused, RevertDriverLost, RevertStore,
         AfterRevertError, Goto, Finish, Enter
<1>3. ~Crash
  BY DEF Crash
<1>4. CASE ApplyOK(h)
  BY <1>4 DEF ApplyOK, AddRule, Goto, Enter, storeVars
<1> QED
  BY <1>1, <1>2, <1>3, <1>4, OthersLeaveHandler

\* An action that shares its target with no other one never did.
LEMMA SoleBefore ==
  ASSUME IInv, TargetInv, [Next]_vars, NEW id \in ActionIds, state[id] # "none", Sole(id)'
  PROVE  Sole(id)
<1> USE TargetsAssumption
<1>1. \A j \in ActionIds : target'[j] = target[j] \/ target[j] = NoTarget
  BY RecordsStay DEF IInv
<1>2. target'[id] = target[id] /\ target[id] \in Targets
  BY RecordsStay DEF IInv, TargetInv
<1> QED
  BY <1>1, <1>2 DEF Sole

LEMMA RuleInvNext == IInv /\ TargetInv /\ HandInv /\ RuleInv /\ [Next]_vars => RuleInv'
<1> SUFFICES ASSUME IInv, TypeOK, TargetInv, HandInv, RuleInv, [Next]_vars,
                    NEW id \in ActionIds, Sole(id)', state'[id] \in {"approved", "active"}
             PROVE  /\ \A h \in Handlers :
                         state'[id] = "approved" /\ subject'[h] = id /\ pc'[h] = "activate"
                           => target'[id] \in rules'
                    /\ state'[id] = "active" /\ ~expired'[id] /\ target'[id] \notin rules'
                         => \E h \in Handlers : Lifting(h, id)'
  BY DEF IInv, RuleInv
<1>1. ASSUME state[id] # "none", target[id] \in rules, target[id] \notin rules'
      PROVE  \E p \in Procs :
               /\ pc[p] = "revert_driver" /\ subject[p] = id
               /\ \/ p = TTL
                  \/ p \in Handlers /\ subject'[p] = id /\ pc'[p] \in {"revert_store", "revert_failed"}
  <2>1. PICK p \in Procs :
          /\ pc[p] = "revert_driver" /\ target[subject[p]] = target[id]
          /\ \/ p = TTL
             \/ p \in Handlers /\ subject'[p] = subject[p] /\ pc'[p] \in {"revert_store", "revert_failed"}
    BY <1>1, RulesShrink
  <2>2. subject[p] \in ActionIds
    BY <2>1 DEF TypeOK
  <2>3. subject[p] = id
    BY <1>1, <2>1, <2>2, SoleBefore DEF Sole
  <2> QED
    BY <2>1, <2>3
<1>2. state[id] # "none" => target'[id] = target[id]
  BY RecordsStay
<1>3. ASSUME NEW h \in Handlers, state'[id] = "approved", subject'[h] = id, pc'[h] = "activate"
      PROVE  target'[id] \in rules'
  <2>1. CASE subject[h] = id /\ pc[h] = "activate"
    <3>1. state[id] \in Early
      BY <1>3, LifecycleStep, StatesMoveOn
    <3>2. Decided(id)
      BY <2>1 DEF ActingInv, Acting, IInv
    <3>3. state[id] = "approved"
      BY <3>1, <3>2 DEF Decided, Early
    <3>4. target[id] \in rules
      BY <2>1, <3>3, SoleBefore DEF RuleInv
    <3>5. target[id] \in rules'
      BY <1>1, <3>3, <3>4 DEF HandInv, Early
    <3> QED
      BY <1>2, <3>3, <3>5
  <2>2. CASE subject[h] = id /\ target[id] \in rules' /\ target' = target
    BY <2>2
  <2> QED
    BY <1>3, <2>1, <2>2, AppliedFirst
<1>4. ASSUME state'[id] = "active", ~expired'[id], target'[id] \notin rules'
      PROVE  \E h \in Handlers : Lifting(h, id)'
  <2>1. state[id] \in {"approved", "active"} /\ ~expired[id]
    BY <1>4, LifecycleStep, StatesMoveOn, RecordsStay DEF TypeOK, StoreTypeOK
  <2>2. Sole(id) /\ target'[id] = target[id]
    BY <1>2, <2>1, SoleBefore
  <2>3. state[id] = "active"
    <3> SUFFICES ASSUME state[id] = "approved" PROVE FALSE
      BY <2>1
    <3>1. PICK h \in Handlers : subject[h] = id /\ pc[h] = "activate" /\ rules' = rules
      BY <1>4, Activation
    <3> QED
      BY <1>4, <2>2, <3>1 DEF RuleInv
  <2>4. CASE target[id] \in rules
    <3>1. PICK p \in Procs :
            /\ pc[p] = "revert_driver" /\ subject[p] = id
            /\ \/ p = TTL
               \/ p \in Handlers /\ subject'[p] = id /\ pc'[p] \in {"revert_store", "revert_failed"}
      BY <1>1, <1>4, <2>2, <2>3, <2>4
    <3>2. p # TTL
      BY <2>1, <3>1 DEF HandInv, TypeOK
    <3> QED
      BY <3>1, <3>2 DEF Lifting
  <2>5. CASE target[id] \notin rules
    <3>1. PICK h \in Handlers : Lifting(h, id)
      BY <2>1, <2>2, <2>3, <2>5 DEF RuleInv
    <3> QED
      BY <1>4, <2>3, <3>1, Parked
  <2> QED
    BY <2>4, <2>5
<1> QED
  BY <1>3, <1>4

(***************************************************************************)
(* What the active list tells the operator: until its TTL has passed, and  *)
(* with no call about its target under way, an active action that shares   *)
(* its target with no other one is enforced in AdGuard, however the calls  *)
(* of its handlers failed and in whatever order they ran.                  *)
(***************************************************************************)
THEOREM SoleActiveIsEnforcedHolds == Spec => []SoleActiveIsEnforced
<1>1. Init => TargetInv /\ HandInv /\ RuleInv
  <2> SUFFICES ASSUME Init PROVE TargetInv /\ HandInv /\ RuleInv
    OBVIOUS
  <2>1. TargetInv
    BY DEF Init, StoreInit, TargetInv
  <2>2. TTL \in Procs /\ \A p \in Procs : subject[p] = NoAction /\ pc[p] = "idle"
    BY DEF Init, Procs
  <2>3. HandInv
    BY <2>2 DEF Init, HandInv
  <2>4. RuleInv
    BY DEF Init, StoreInit, RuleInv
  <2> QED
    BY <2>1, <2>3, <2>4
<1>2. IInv /\ RuleInv => SoleActiveIsEnforced
  <2> SUFFICES ASSUME IInv, RuleInv, NEW id \in ActionIds, state[id] = "active", ~expired[id],
                      ~Busy(target[id]), Sole(id), target[id] \notin rules
               PROVE  FALSE
    BY DEF SoleActiveIsEnforced, Sole
  <2>1. PICK h \in Handlers : subject[h] = id
    BY DEF RuleInv, Lifting
  <2> QED
    BY <2>1, KillswitchAssumption DEF Busy, Procs
<1> QED
  BY <1>1, <1>2, IInvHolds, TargetInvNext, HandInvNext, RuleInvNext, PTL DEF Spec

-----------------------------------------------------------------------------
(***************************************************************************)
(* CleanlyRevertedIsLifted says nothing of an action before it is reverted.*)
(* AloneInv: whoever applies an action that nobody else has had in hand    *)
(* meanwhile has it alone, and it is approved.  WitnessInv: every rule has *)
(* an applied action that accounts for it, and such an action is reported  *)
(* as reverted by a goroutine that has lifted the rule before, or leaves a *)
(* trace.                                                                  *)
(***************************************************************************)
AloneInv ==
  \A h \in Handlers :
    pc[h] \in Applying /\ subject[h] \notin contended =>
      /\ state[subject[h]] = "approved"
      /\ \A q \in Procs \ {h} : subject[q] # subject[h]

AppliedBy(h, j) == subject[h] = j /\ pc[h] \in {"activate", "apply_failed"}

Traced(j) == j \in contended \/ state[j] = "gone" \/ failure[j] # ""

Unlifted(j) == /\ state[j] = "active"
               /\ \A p \in Procs : ~(subject[p] = j /\ pc[p] = "revert_store")

Accounts(j) == Traced(j) \/ Unlifted(j) \/ \E h \in Handlers : AppliedBy(h, j)

WitnessInv == \A t \in rules \ InitialRules : \E j \in applied : target[j] = t /\ Accounts(j)

\* How the goroutines move: at most one of them, by Enter, unless the process dies.
LEMMA OneEnters ==
  ASSUME TypeOK, [Next]_vars, ~Crash
  PROVE  \/ UNCHANGED <<pc, subject, contended>>
         \/ \E p \in Procs, id \in ActionIds \cup {NoAction}, label \in Labels :
              Enter(p, id, label) /\ (id = NoAction <=> label = "idle")
<1> DEFINE Goal == \/ UNCHANGED <<pc, subject, contended>>
                   \/ \E p \in Procs, id \in ActionIds \cup {NoAction}, label \in Labels :
                        Enter(p, id, label) /\ (id = NoAction <=> label = "idle")
<1> USE KillswitchAssumption
<1>1. ASSUME NEW p \in Procs, NEW id \in ActionIds, NEW label \in Labels \ {"idle"},
             Enter(p, id, label)
      PROVE  Goal
  BY <1>1
<1>2. ASSUME NEW p \in Procs, Finish(p) PROVE Goal
  <2>1. NoAction \in ActionIds \cup {NoAction} /\ "idle" \in Labels
    BY DEF Labels
  <2>2. Enter(p, NoAction, "idle")
    BY <1>2 DEF Finish
  <2>. QED BY <2>1, <2>2
<1>3. ASSUME NEW p \in Procs, pc[p] # "idle", NEW label \in Labels \ {"idle"}, Goto(p, label)
      PROVE  Goal
  <2>1. subject[p] \in ActionIds
    BY <1>3 DEF TypeOK
  <2>. QED BY <1>1, <1>3, <2>1 DEF Goto
<1>4. ASSUME UNCHANGED <<pc, subject, contended>> PROVE Goal
  BY <1>4
<1> HIDE DEF Goal
<1>5. ASSUME NEW h \in Handlers, HandlerStep(h) PROVE Goal
  <2>1. h \in Procs
    BY DEF Procs
  <2>2. CASE \E e \in Events, id \in ActionIds : EvaluateAuto(h, e, id)
    BY <1>1, <2>1, <2>2 DEF EvaluateAuto, Labels
  <2>3. CASE \E id \in ActionIds : ApproveRequest(h, id) \/ RevertRequest(h, id)
    BY <1>1, <2>1, <2>3 DEF ApproveRequest, RevertRequest, Labels
  <2>4. CASE \/ \E e \in Events, id \in ActionIds : EvaluatePending(h, e, id)
             \/ \E id \in ActionIds : RejectRequest(h, id)
    BY <1>4, <2>4 DEF EvaluatePending, RejectRequest, procVars
  <2>5. CASE ApproveGet(h) \/ ApplyOK(h) \/ ApplyRefused(h) \/ ApplyLost(h)
    BY <1>2, <1>3, <2>1, <2>5 DEF ApproveGet, ApplyOK, ApplyRefused, ApplyLost, Labels
  <2>6. CASE ApplyActivate(h) \/ ApplyRecordFailure(h) \/ RevertRecordFailure(h)
    BY <1>2, <2>1, <2>6 DEF ApplyActivate, ApplyRecordFailure, RevertRecordFailure
  <2>. QED BY <1>5, <2>2, <2>3, <2>4, <2>5, <2>6 DEF HandlerStep
<1>6. ASSUME NEW p \in Procs, RevertStep(p) PROVE Goal
  BY <1>2, <1>3, <1>6 DEF RevertStep, RevertDriverOK, RevertDriverRefused, RevertDriverLost,
                          RevertStore, AfterRevertError, Labels
<1>7. ASSUME TTLStep PROVE Goal
  BY <1>1, <1>4, <1>7 DEF TTLStep, Tick, RevertNext, Procs, Labels
<1>8. ASSUME (\E id \in ActionIds : Expiry(id)) \/ UNCHANGED vars PROVE Goal
  BY <1>4, <1>8 DEF Expiry, vars, procVars
<1>. QED BY <1>5, <1>6, <1>7, <1>8 DEF Next, Goal

LEMMA ContendedStays ==
  ASSUME TypeOK, [Next]_vars, NEW j \in contended
  PROVE  j \in contended'
<1>1. CASE Crash
  BY <1>1 DEF Crash
<1>2. CASE ~Crash
  BY <1>2, OneEnters DEF Enter
<1>. QED BY <1>1, <1>2

\* An approved action is moved on by a goroutine that has it in hand.
LEMMA ApprovedMoves ==
  ASSUME TypeOK, [Next]_vars, ~Crash,
         NEW j \in ActionIds, state[j] = "approved", state'[j] # "approved"
  PROVE  \E h \in Handlers :
           /\ subject[h] = j /\ Finish(h)
           /\ \/ ApplyActivate(h) /\ state'[j] = "active"
              \/ ApplyRecordFailure(h) \/ RevertRecordFailure(h)
<1> USE DEF TypeOK, StoreTypeOK
<1>1. ASSUME NEW i \in ActionIds, NEW t, NEW auto \in BOOLEAN, Create(i, t, auto) PROVE FALSE
  BY <1>1, CreateChanges DEF TerminalStates
<1>2. ASSUME NEW i, Approve(i) \/ Reject(i) \/ Revert(i) PROVE FALSE
  BY <1>2 DEF Approve, Reject, Transition, Revert
<1>3. ASSUME UNCHANGED state PROVE FALSE
  BY <1>3
<1>4. ASSUME NEW h \in Handlers, HandlerStep(h)
      PROVE  ApplyActivate(h) \/ ApplyRecordFailure(h) \/ RevertRecordFailure(h)
  BY <1>1, <1>2, <1>3, <1>4
     DEF HandlerStep, EvaluateAuto, EvaluatePending, ApproveRequest, RejectRequest, RevertRequest,
         ApproveGet, ApplyOK, ApplyRefused, ApplyLost, storeVars
<1>5. ASSUME NEW p \in Procs, RevertStep(p) PROVE FALSE
  BY <1>2, <1>3, <1>5
     DEF RevertStep, RevertDriverOK, RevertDriverRefused, RevertDriverLost, RevertStore, storeVars
<1>6. PICK h \in Handlers : ApplyActivate(h) \/ ApplyRecordFailure(h) \/ RevertRecordFailure(h)
  BY <1>3, <1>4, <1>5 DEF Next, TTLStep, Tick, RevertNext, Expiry, Expire, vars, storeVars
<1>7. Finish(h)
  BY <1>6 DEF ApplyActivate, ApplyRecordFailure, RevertRecordFailure
<1>8. subject[h] = j
  BY <1>6 DEF ApplyActivate, Activate, Transition, ApplyRecordFailure, RevertRecordFailure,
              RecordFailure
<1>9. ApplyActivate(h) => state'[j] = "active"
  BY <1>8 DEF ApplyActivate, Activate, Transition
<1>. QED BY <1>6, <1>7, <1>8, <1>9

\* Who gets to one of the applying labels was there before, or has just approved the action.
LEMMA ApplierEnters ==
  ASSUME TypeOK, [Next]_vars, NEW h \in Handlers, pc'[h] \in Applying
  PROVE  \/ subject'[h] = subject[h] /\ pc[h] \in Applying
         \/ subject'[h] \in ActionIds /\ state'[subject'[h]] = "approved"
<1> USE KillswitchAssumption DEF TypeOK, StoreTypeOK, Procs
<1>1. CASE HandlerStep(h)
  <2>1. ASSUME NEW e \in Events, NEW i \in ActionIds, EvaluateAuto(h, e, i)
        PROVE  subject'[h] = i /\ state'[i] = "approved"
    BY <2>1, CreateChanges DEF EvaluateAuto, Enter
  <2>2. ASSUME NEW i \in ActionIds, ApproveRequest(h, i)
        PROVE  subject'[h] = i /\ state'[i] = "approved"
    BY <2>2 DEF ApproveRequest, Approve, Transition, TransitionOK, Enter
  <2>3. ASSUME NEW i \in ActionIds, RevertRequest(h, i) PROVE FALSE
    BY <2>3 DEF RevertRequest, Enter, Applying
  <2>4. CASE \/ \E e \in Events, i \in ActionIds : EvaluatePending(h, e, i)
             \/ \E i \in ActionIds : RejectRequest(h, i)
    BY <2>4 DEF EvaluatePending, RejectRequest, procVars, Applying
  <2>5. CASE \/ ApproveGet(h) \/ ApplyOK(h) \/ ApplyRefused(h) \/ ApplyLost(h)
             \/ ApplyActivate(h) \/ ApplyRecordFailure(h) \/ RevertRecordFailure(h)
    BY <2>5 DEF ApproveGet, ApplyOK, ApplyRefused, ApplyLost, ApplyActivate, ApplyRecordFailure,
                RevertRecordFailure, Goto, Finish, Enter, Applying
  <2>. QED BY <1>1, <2>1, <2>2, <2>3, <2>4, <2>5 DEF HandlerStep
<1>2. ~RevertStep(h)
  BY DEF RevertStep, RevertDriverOK, RevertDriverRefused, RevertDriverLost, RevertStore,
         AfterRevertError, Goto, Finish, Enter, Applying
<1>3. ~Crash
  BY DEF Crash, Applying
<1>. QED BY <1>1, <1>2, <1>3, OthersLeaveHandler

LEMMA AloneInvNext == TypeOK /\ AloneInv /\ [Next]_vars => AloneInv'
<1> SUFFICES ASSUME TypeOK, AloneInv, [Next]_vars,
                    NEW h \in Handlers, pc'[h] \in Applying, subject'[h] \notin contended'
             PROVE  /\ state'[subject'[h]] = "approved"
                    /\ \A q \in Procs \ {h} : subject'[q] # subject'[h]
  BY DEF AloneInv
<1>1. h \in Procs /\ ~Crash
  BY DEF Procs, Crash, Applying
<1>2. pc'[h] # "idle" /\ subject'[h] # NoAction
  <2>1. TypeOK'
    BY TypeOKNext
  <2>. QED BY <1>1, <2>1 DEF TypeOK, Applying
<1>3. ASSUME NEW q \in Procs \ {h}, subject'[q] = subject'[h] PROVE FALSE
  <2>1. CASE UNCHANGED <<pc, subject, contended>>
    BY <1>3, <2>1 DEF AloneInv
  <2>2. ASSUME NEW p \in Procs, NEW id \in ActionIds \cup {NoAction}, NEW label \in Labels,
               Enter(p, id, label)
        PROVE  FALSE
    <3>1. /\ subject'[p] = id /\ pc'[p] = label
          /\ \A r \in Procs \ {p} : subject'[r] = subject[r] /\ pc'[r] = pc[r]
          /\ (id \in contended' <=> id \in contended \/ Meets(p, id, label))
      BY <2>2 DEF Enter, TypeOK
    <3>2. CASE p = h
      BY <1>3, <3>1, <3>2 DEF Meets
    <3>3. CASE p = q
      <4>1. subject[h] = id /\ pc[h] \in Applying
        BY <1>1, <1>3, <3>1, <3>3
      <4>. QED BY <1>1, <1>3, <3>1, <3>3, <4>1 DEF Meets
    <3>4. CASE p # h /\ p # q
      <4>1. subject[q] = subject[h] /\ pc[h] \in Applying
        BY <1>1, <1>3, <3>1, <3>4
      <4>2. subject[h] \notin contended
        BY <1>1, <3>1, <3>4, ContendedStays
      <4>. QED BY <1>3, <4>1, <4>2 DEF AloneInv
    <3>. QED BY <3>2, <3>3, <3>4
  <2>. QED BY <1>1, <2>1, <2>2, OneEnters
<1>4. state'[subject'[h]] = "approved"
  <2>1. CASE subject'[h] = subject[h] /\ pc[h] \in Applying
    <3>1. subject[h] \in ActionIds /\ subject[h] \notin contended
      BY <1>1, <1>2, <2>1, ContendedStays DEF TypeOK
    <3>2. state[subject[h]] = "approved" /\ \A q \in Procs \ {h} : subject[q] # subject[h]
      BY <2>1, <3>1 DEF AloneInv
    <3>3. ASSUME state'[subject[h]] # "approved" PROVE FALSE
      <4>1. PICK g \in Handlers : subject[g] = subject[h] /\ Finish(g)
        BY <1>1, <3>1, <3>2, <3>3, ApprovedMoves
      <4>2. g = h
        BY <3>2, <4>1 DEF Procs
      <4>. QED BY <1>1, <1>2, <4>1, <4>2 DEF Finish, Enter, TypeOK
    <3>. QED BY <2>1, <3>3
  <2>. QED BY <2>1, ApplierEnters
<1>. QED BY <1>3, <1>4

\* A trace stays: a dropped action does not come back, and nothing clears a failure.
LEMMA TraceStays ==
  ASSUME TypeOK, [Next]_vars, NEW j \in ActionIds, Traced(j)
  PROVE  Traced(j)'
<1> USE DEF TypeOK, StoreTypeOK
<1>1. CASE j \in contended
  BY <1>1, ContendedStays DEF Traced
<1>2. CASE state[j] = "gone" \/ failure[j] # ""
  <2> DEFINE Stays == /\ state[j] = "gone" => state'[j] = "gone"
                      /\ failure[j] # "" => failure'[j] # ""
  <2>1. ASSUME NEW i \in ActionIds, NEW t, NEW auto \in BOOLEAN, Create(i, t, auto) PROVE Stays
    <3>1. failure' = failure
      BY <2>1 DEF Create
    <3>2. state[j] = "gone" => state'[j] = "gone"
      BY <2>1, CreateChanges
    <3>. QED BY <3>1, <3>2
  <2>2. ASSUME NEW i, Approve(i) \/ Reject(i) \/ Activate(i) \/ Revert(i) PROVE Stays
    BY <2>2 DEF Approve, Reject, Activate, Revert, Transition
  <2>3. ASSUME NEW i, NEW why \in {"apply", "revert"}, RecordFailure(i, why) PROVE Stays
    BY <2>3 DEF RecordFailure, ActionStates
  <2>4. ASSUME UNCHANGED <<state, failure>> \/ Crash PROVE Stays
    BY <2>4 DEF Crash, ActionStates
  <2> HIDE DEF Stays
  <2>5. ASSUME NEW h \in Handlers, HandlerStep(h) PROVE Stays
    BY <2>1, <2>2, <2>3, <2>4, <2>5
       DEF HandlerStep, EvaluateAuto, EvaluatePending, ApproveRequest, RejectRequest,
           RevertRequest, ApproveGet, ApplyOK, ApplyRefused, ApplyLost, ApplyActivate,
           ApplyRecordFailure, RevertRecordFailure, storeVars
  <2>6. ASSUME NEW p \in Procs, RevertStep(p) PROVE Stays
    BY <2>2, <2>4, <2>6
       DEF RevertStep, RevertDriverOK, RevertDriverRefused, RevertDriverLost, RevertStore, storeVars
  <2>7. Stays
    BY <2>4, <2>5, <2>6
       DEF Next, TTLStep, Tick, RevertNext, Expiry, Expire, vars, storeVars
  <2>. QED BY <1>2, <2>7 DEF Traced, Stays
<1>. QED BY <1>1, <1>2 DEF Traced

\* An active action ceases to be active with a trace, or by a goroutine at revert_store.
LEMMA ActiveLeaves ==
  ASSUME TypeOK, [Next]_vars, NEW j \in ActionIds, state[j] = "active", state'[j] # "active"
  PROVE  Traced(j)' \/ \E p \in Procs : subject[p] = j /\ pc[p] = "revert_store"
<1> DEFINE Goal == Traced(j)' \/ \E p \in Procs : subject[p] = j /\ pc[p] = "revert_store"
<1> USE DEF TypeOK, StoreTypeOK
<1>1. ASSUME NEW i \in ActionIds, NEW t, NEW auto \in BOOLEAN, Create(i, t, auto) PROVE FALSE
  BY <1>1, CreateChanges DEF TerminalStates
<1>2. ASSUME NEW i, Approve(i) \/ Reject(i) \/ Activate(i) PROVE FALSE
  BY <1>2 DEF Approve, Reject, Activate, Transition
<1>3. ASSUME NEW i, NEW why \in {"apply", "revert"}, RecordFailure(i, why) PROVE Goal
  BY <1>3 DEF RecordFailure, ActionStates, Traced
<1>4. ASSUME NEW p \in Procs, RevertStore(p) PROVE Goal
  BY <1>4 DEF RevertStore, Revert
<1>5. ASSUME Crash PROVE Goal
  BY <1>5 DEF Crash, ActionStates, Traced
<1>6. ASSUME UNCHANGED state PROVE FALSE
  BY <1>6
<1> HIDE DEF Goal
<1>7. ASSUME NEW h \in Handlers, HandlerStep(h) PROVE Goal
  BY <1>1, <1>2, <1>3, <1>6, <1>7
     DEF HandlerStep, EvaluateAuto, EvaluatePending, ApproveRequest, RejectRequest, RevertRequest,
         ApproveGet, ApplyOK, ApplyRefused, ApplyLost, ApplyActivate, ApplyRecordFailure,
         RevertRecordFailure, storeVars
<1>8. ASSUME NEW p \in Procs, RevertStep(p) PROVE Goal
  BY <1>4, <1>6, <1>8
     DEF RevertStep, RevertDriverOK, RevertDriverRefused, RevertDriverLost, storeVars
<1>9. Goal
  BY <1>5, <1>6, <1>7, <1>8 DEF Next, TTLStep, Tick, RevertNext, Expiry, Expire, vars, storeVars
<1>. QED BY <1>9 DEF Goal

\* A goroutine gets to revert_store with an active action by lifting its rule only.
LEMMA LiftedFirst ==
  ASSUME TypeOK, [Next]_vars, NEW p \in Procs, pc'[p] = "revert_store"
  PROVE  \/ subject'[p] = subject[p] /\ pc[p] = "revert_store"
         \/ subject'[p] = subject[p] /\ target[subject[p]] \notin rules' /\ target' = target
         \/ subject'[p] \in ActionIds /\ state[subject'[p]] # "active" /\ state' = state
<1> DEFINE Same == subject'[p] = subject[p] /\ pc'[p] = pc[p]
           Goal == \/ subject'[p] = subject[p] /\ pc[p] = "revert_store"
                   \/ subject'[p] = subject[p] /\ target[subject[p]] \notin rules' /\ target' = target
                   \/ subject'[p] \in ActionIds /\ state[subject'[p]] # "active" /\ state' = state
<1> USE KillswitchAssumption DEF TypeOK
<1>1. ASSUME Same PROVE Goal
  BY <1>1
<1>2. ASSUME NEW q \in Procs, NEW id, NEW label, label # "revert_store", Enter(q, id, label)
      PROVE  Same
  BY <1>2 DEF Enter
<1>3. ASSUME NEW h \in Handlers, NEW id \in ActionIds, RevertRequest(h, id) PROVE Goal
  <2>1. h \in Procs
    BY DEF Procs
  <2>. QED BY <1>3, <2>1 DEF RevertRequest, Enter, storeVars
<1>4. ASSUME NEW q \in Procs, RevertDriverOK(q) PROVE Goal
  BY <1>4 DEF RevertDriverOK, RemoveRule, Goto, Enter, storeVars
<1>5. ASSUME NEW q \in Procs, NEW label \in Labels \ {"revert_store"}, Goto(q, label) \/ Finish(q)
      PROVE  Same
  BY <1>2, <1>5 DEF Goto, Finish
<1>6. ASSUME UNCHANGED <<pc, subject>> PROVE Same
  BY <1>6
<1> HIDE DEF Goal, Same
<1>7. ASSUME NEW h \in Handlers, HandlerStep(h) PROVE Goal
  <2>1. h \in Procs
    BY DEF Procs
  <2>2. CASE \E id \in ActionIds : RevertRequest(h, id)
    BY <1>3, <2>2
  <2>3. CASE \/ \E e \in Events, id \in ActionIds : EvaluateAuto(h, e, id) \/ EvaluatePending(h, e, id)
             \/ \E id \in ActionIds : ApproveRequest(h, id) \/ RejectRequest(h, id)
    BY <1>1, <1>2, <1>6, <2>1, <2>3
       DEF EvaluateAuto, EvaluatePending, ApproveRequest, RejectRequest, procVars
  <2>4. CASE \/ ApproveGet(h) \/ ApplyOK(h) \/ ApplyRefused(h) \/ ApplyLost(h)
             \/ ApplyActivate(h) \/ ApplyRecordFailure(h) \/ RevertRecordFailure(h)
    BY <1>1, <1>5, <2>1, <2>4
       DEF ApproveGet, ApplyOK, ApplyRefused, ApplyLost, ApplyActivate, ApplyRecordFailure,
           RevertRecordFailure, Labels
  <2>. QED BY <1>7, <2>2, <2>3, <2>4 DEF HandlerStep
<1>8. ASSUME NEW q \in Procs, RevertStep(q) PROVE Goal
  BY <1>1, <1>4, <1>5, <1>8
     DEF RevertStep, RevertDriverRefused, RevertDriverLost, RevertStore, AfterRevertError, Labels
<1>9. ASSUME TTLStep PROVE Goal
  BY <1>1, <1>2, <1>6, <1>9 DEF TTLStep, Tick, RevertNext, Procs
<1>10. ~Crash
  BY DEF Crash
<1>11. ASSUME (\E id \in ActionIds : Expiry(id)) \/ UNCHANGED vars PROVE Goal
  BY <1>1, <1>6, <1>11 DEF Expiry, vars, procVars
<1>. QED BY <1>7, <1>8, <1>9, <1>10, <1>11 DEF Next, Goal

\* A rule that appears is that of an action just applied.
LEMMA RulesGrow ==
  ASSUME TypeOK, [Next]_vars, NEW t \in rules', t \notin rules
  PROVE  \E h \in Handlers, j \in applied' : target'[j] = t /\ AppliedBy(h, j)'
<1>1. PICK h \in Handlers : ApplyOK(h) \/ ApplyLost(h)
  BY DEF Next, vars, HandlerStep, EvaluateAuto, EvaluatePending, ApproveRequest, RejectRequest,
         RevertRequest, ApproveGet, ApplyRefused, ApplyActivate, ApplyRecordFailure,
         RevertRecordFailure, RevertStep, RevertDriverOK, RevertDriverRefused, RevertDriverLost,
         RemoveRule, RevertStore, TTLStep, Tick, RevertNext, Expiry, Crash
<1>2. h \in Procs
  BY DEF Procs
<1>3. /\ applied' = applied \cup {subject[h]} /\ target' = target /\ target[subject[h]] = t
      /\ Goto(h, "activate") \/ Goto(h, "apply_failed")
  BY <1>1 DEF ApplyOK, ApplyLost, AddRule, storeVars
<1>4. subject'[h] = subject[h] /\ pc'[h] \in {"activate", "apply_failed"}
  BY <1>2, <1>3 DEF Goto, Enter, TypeOK
<1>5. PICK j : j = subject[h]
  OBVIOUS
<1>6. AppliedBy(h, j)'
  BY <1>4, <1>5 DEF AppliedBy
<1>. QED BY <1>3, <1>5, <1>6

\* What the handler that has applied an action alone does next accounts for the rule.
LEMMA ApplierAccounts ==
  ASSUME TypeOK, AloneInv, [Next]_vars, NEW h \in Handlers, NEW j \in ActionIds,
         AppliedBy(h, j), ~Traced(j)
  PROVE  Accounts(j)'
<1> USE DEF TypeOK, StoreTypeOK
<1>1. /\ subject[h] = j /\ pc[h] \in {"activate", "apply_failed"} /\ h \in Procs
      /\ state[j] = "approved" /\ \A q \in Procs \ {h} : subject[q] # j
  BY DEF AppliedBy, AloneInv, Traced, Applying, Procs
<1>2. CASE Crash
  BY <1>1, <1>2 DEF Crash, Accounts, Traced, ActionStates
<1>3. CASE ApplyRecordFailure(h)
  BY <1>1, <1>3 DEF ApplyRecordFailure, RecordFailure, Accounts, Traced, ActionStates
<1>4. CASE ApplyActivate(h)
  <2>1. state'[j] = "active" /\ Finish(h)
    BY <1>1, <1>4 DEF ApplyActivate, Activate, Transition
  <2>2. \A q \in Procs : subject'[q] = j => FALSE
    BY <1>1, <2>1, KillswitchAssumption DEF Finish, Enter
  <2>. QED BY <2>1, <2>2 DEF Accounts, Unlifted
<1>5. CASE ~Crash /\ ~ApplyRecordFailure(h) /\ ~ApplyActivate(h)
  <2>1. ~HandlerStep(h)
    BY <1>1, <1>5 DEF HandlerStep, EvaluateAuto, EvaluatePending, ApproveRequest, RejectRequest,
                      RevertRequest, ApproveGet, ApplyOK, ApplyRefused, ApplyLost,
                      RevertRecordFailure
  <2>2. ~RevertStep(h)
    BY <1>1 DEF RevertStep, RevertDriverOK, RevertDriverRefused, RevertDriverLost, RevertStore
  <2>3. subject'[h] = subject[h] /\ pc'[h] = pc[h]
    BY <1>5, <2>1, <2>2, OthersLeaveHandler
  <2>4. AppliedBy(h, j)'
    BY <1>1, <2>3 DEF AppliedBy
  <2>. QED BY <2>4 DEF Accounts
<1>. QED BY <1>2, <1>3, <1>4, <1>5

LEMMA WitnessInvNext ==
  IInv /\ TargetInv /\ AloneInv /\ WitnessInv /\ [Next]_vars => WitnessInv'
<1> SUFFICES ASSUME IInv, TypeOK, TargetInv, AloneInv, WitnessInv, [Next]_vars,
                    NEW t \in rules' \ InitialRules
             PROVE  \E j \in applied' : target'[j] = t /\ Accounts(j)'
  BY DEF WitnessInv, IInv
<1>1. CASE t \notin rules
  <2>1. PICK h \in Handlers, j \in applied' : target'[j] = t /\ AppliedBy(h, j)'
    BY <1>1, RulesGrow
  <2>2. Accounts(j)'
    BY <2>1 DEF Accounts
  <2>. QED BY <2>1, <2>2
<1>2. CASE t \in rules
  <2>1. PICK j \in applied : target[j] = t /\ Accounts(j)
    BY <1>2 DEF WitnessInv
  <2>2. j \in ActionIds /\ state[j] # "none" /\ j \in applied'
    <3>1. Decided(j) /\ j \in ActionIds
      BY DEF IInv, AppliedInv, TypeOK
    <3>2. applied \subseteq applied'
      BY DEF Next, vars, HandlerStep, EvaluateAuto, EvaluatePending, ApproveRequest,
             RejectRequest, RevertRequest, ApproveGet, ApplyOK, ApplyRefused, ApplyLost,
             ApplyActivate, ApplyRecordFailure, RevertRecordFailure, RevertStep, RevertDriverOK,
             RevertDriverRefused, RevertDriverLost, RevertStore, TTLStep, Tick, RevertNext,
             Expiry, Crash
    <3>. QED BY <3>1, <3>2 DEF Decided
  <2>3. target'[j] = t
    BY <2>1, <2>2, RecordsStay
  <2>4. ASSUME Traced(j) PROVE Accounts(j)'
    BY <2>2, <2>4, TraceStays DEF Accounts
  <2>5. ASSUME NEW h \in Handlers, AppliedBy(h, j), ~Traced(j) PROVE Accounts(j)'
    BY <2>2, <2>5, ApplierAccounts
  <2>6. ASSUME Unlifted(j) PROVE Accounts(j)'
    <3>1. ASSUME state'[j] # "active" PROVE Accounts(j)'
      <4>1. Traced(j)'
        BY <2>2, <2>6, <3>1, ActiveLeaves DEF Unlifted
      <4>. QED BY <4>1 DEF Accounts
    <3>2. ASSUME state'[j] = "active" PROVE Accounts(j)'
      <4>1. ASSUME NEW p \in Procs, subject'[p] = j, pc'[p] = "revert_store" PROVE FALSE
        BY <2>1, <2>6, <4>1, LiftedFirst DEF Unlifted
      <4>. QED BY <3>2, <4>1 DEF Accounts, Unlifted
    <3>. QED BY <3>1, <3>2
  <2>7. Accounts(j)'
    BY <2>1, <2>4, <2>5, <2>6 DEF Accounts
  <2>. QED BY <2>2, <2>3, <2>7
<1>. QED BY <1>1, <1>2

(***************************************************************************)
(* What the revert reports, with any number of handlers and events, lost   *)
(* calls and restarts: as long as a target is blocked by the controller,   *)
(* some action applied to it is not reported as reverted, or has a failure *)
(* recorded, or was in other hands while it was applied.                   *)
(***************************************************************************)
THEOREM CleanlyRevertedIsLiftedHolds == Spec => []CleanlyRevertedIsLifted
<1>1. Init => TargetInv /\ AloneInv /\ WitnessInv
  <2> SUFFICES ASSUME Init PROVE TargetInv /\ AloneInv /\ WitnessInv
    OBVIOUS
  <2>1. TargetInv
    BY DEF Init, StoreInit, TargetInv
  <2>2. AloneInv
    BY DEF Init, AloneInv, Procs, Applying
  <2>3. WitnessInv
    BY DEF Init, WitnessInv
  <2>. QED BY <2>1, <2>2, <2>3
<1>2. IInv /\ AloneInv /\ WitnessInv => CleanlyRevertedIsLifted
  <2> SUFFICES ASSUME TypeOK, AloneInv, WitnessInv, NEW t \in rules \ InitialRules
               PROVE  \E id \in applied : target[id] = t /\ ~CleanlyReverted(id)
    BY DEF CleanlyRevertedIsLifted, IInv
  <2>1. PICK j \in applied : target[j] = t /\ Accounts(j)
    BY DEF WitnessInv
  <2>2. ASSUME NEW h \in Handlers, AppliedBy(h, j), j \notin contended PROVE state[j] = "approved"
    BY <2>2 DEF AloneInv, AppliedBy, Applying
  <2>3. ~CleanlyReverted(j)
    BY <2>1, <2>2 DEF Accounts, Traced, Unlifted, CleanlyReverted
  <2>. QED BY <2>1, <2>3
<1>3. IInv => TypeOK
  BY DEF IInv
<1>. QED BY <1>1, <1>2, <1>3, IInvHolds, TargetInvNext, AloneInvNext, WitnessInvNext, PTL DEF Spec

-----------------------------------------------------------------------------
(***************************************************************************)
(* Eviction.  The rank of a terminal action is how many older ones there   *)
(* are; the victims are those whose rank is below the excess of the map,   *)
(* so they are the oldest ones, and as many as the excess or all there are.*)
(***************************************************************************)
Older(st, i) == {j \in TerminalIn(st) : j < i}
Excess(st)   == Cardinality(InMap(st)) - MaxActions

LEMMA SmallestOf ==
  ASSUME NEW T, T \subseteq Nat, T # {}
  PROVE  \E x \in T : \A y \in T : x <= y
<1> DEFINE Less == {ss \in Nat \X Nat : ss[1] < ss[2]}
<1>1. IsWellFoundedOn(Less, Nat)
  BY NatLessThanWellFounded DEF OpToRel
<1> HIDE DEF Less
<1>2. PICK x \in T : \A y \in T : ~(<<y, x>> \in Less)
  BY <1>1, WFMin
<1>3. \A y \in T : y \in Nat /\ x \in Nat /\ ~(y < x)
  BY <1>2 DEF Less
<1>. QED BY <1>3

LEMMA Ranks ==
  ASSUME NEW st, IsFiniteSet(InMap(st))
  PROVE  /\ IsFiniteSet(TerminalIn(st)) /\ TerminalIn(st) \subseteq InMap(st)
         /\ Cardinality(InMap(st)) \in Nat /\ Excess(st) \in Int
         /\ \A i : IsFiniteSet(Older(st, i)) /\ Cardinality(Older(st, i)) \in Nat
         /\ \A i \in TerminalIn(st), j \in TerminalIn(st) :
              i < j => Cardinality(Older(st, i)) < Cardinality(Older(st, j))
         /\ Victims(st) = {i \in TerminalIn(st) : Cardinality(Older(st, i)) < Excess(st)}
<1>1. TerminalIn(st) \subseteq InMap(st)
  BY DEF TerminalIn, InMap, TerminalStates, ActionStates
<1>2. IsFiniteSet(TerminalIn(st))
  BY <1>1, FS_Subset
<1>3. Cardinality(InMap(st)) \in Nat /\ Excess(st) \in Int
  BY FS_CardinalityType, MaxActionsAssumption DEF Excess
<1>4. \A i : IsFiniteSet(Older(st, i)) /\ Cardinality(Older(st, i)) \in Nat
  <2>1. \A i : Older(st, i) \subseteq TerminalIn(st)
    BY DEF Older
  <2>. QED BY <1>2, <2>1, FS_Subset, FS_CardinalityType
<1>5. ASSUME NEW i \in TerminalIn(st), NEW j \in TerminalIn(st), i < j
      PROVE  Cardinality(Older(st, i)) < Cardinality(Older(st, j))
  <2>1. i \in Nat /\ j \in Nat /\ \A x \in TerminalIn(st) : x \in Nat
    BY ActionIdsAssumption DEF TerminalIn
  <2>2. Older(st, i) \cup {i} \subseteq Older(st, j) /\ i \notin Older(st, i)
    <3>1. \A x \in TerminalIn(st) : (x < i => x < j) /\ ~(i < i)
      BY <1>5, <2>1
    <3>. QED BY <1>5, <3>1 DEF Older
  <2>3. Cardinality(Older(st, i) \cup {i}) = Cardinality(Older(st, i)) + 1
    BY <1>4, <2>2, FS_AddElement
  <2>4. Cardinality(Older(st, i) \cup {i}) <= Cardinality(Older(st, j))
    BY <1>4, <2>2, FS_Subset
  <2>. QED BY <1>4, <2>3, <2>4
<1>6. Victims(st) = {i \in TerminalIn(st) : Cardinality(Older(st, i)) < Excess(st)}
  BY DEF Victims, Older, Excess
<1>. QED BY <1>1, <1>2, <1>3, <1>4, <1>5, <1>6

LEMMA VictimsAreOldest ==
  ASSUME NEW st, IsFiniteSet(InMap(st)), NEW i \in Victims(st), NEW j \in TerminalIn(st) \ Victims(st)
  PROVE  i < j
<1>1. i \in TerminalIn(st) /\ i \in Nat /\ j \in Nat
  BY ActionIdsAssumption DEF Victims, TerminalIn
<1>2. Cardinality(Older(st, i)) < Excess(st) /\ ~(Cardinality(Older(st, j)) < Excess(st))
  BY Ranks
<1>3. ~(j < i) /\ j # i
  BY <1>1, <1>2, Ranks
<1>. QED BY <1>1, <1>3

\* No more than the excess, because two victims never have the same rank.
LEMMA VictimsAtMost ==
  ASSUME NEW st, IsFiniteSet(InMap(st)), Victims(st) # {}
  PROVE  /\ IsFiniteSet(Victims(st)) /\ Cardinality(Victims(st)) \in Nat
         /\ Excess(st) \in Nat /\ Cardinality(Victims(st)) <= Excess(st)
<1> DEFINE m == Excess(st)
           f == [i \in Victims(st) |-> Cardinality(Older(st, i))]
<1>1. \A i \in Victims(st) : f[i] \in Nat /\ f[i] < m /\ i \in Nat /\ i \in TerminalIn(st)
  BY Ranks, ActionIdsAssumption DEF TerminalIn
<1>2. m \in Nat /\ m # 0
  BY <1>1, Ranks
<1>3. f \in [Victims(st) -> 0..(m - 1)]
  BY <1>1, <1>2
<1>4. \A i, j \in Victims(st) : i < j => f[i] < f[j]
  BY <1>1, Ranks
<1>5. \A i, j \in Victims(st) : f[i] = f[j] => i = j
  BY <1>1, <1>4
<1>6. f \in Injection(Victims(st), 0..(m - 1))
  BY <1>3, <1>5 DEF Injection, IsInjective
<1>7. IsFiniteSet(0..(m - 1)) /\ Cardinality(0..(m - 1)) = m
  BY <1>2, FS_Interval
<1>8. IsFiniteSet(Victims(st)) /\ Cardinality(Victims(st)) <= m
  BY <1>6, <1>7, FS_Injection
<1>. QED BY <1>2, <1>8, FS_CardinalityType

\* As many as the excess, unless no terminal action is left.
LEMMA VictimsAtLeast ==
  ASSUME NEW st, IsFiniteSet(InMap(st)), NEW j \in TerminalIn(st) \ Victims(st)
  PROVE  Cardinality(Victims(st)) \in Nat /\ Cardinality(Victims(st)) >= Excess(st)
<1> DEFINE T == TerminalIn(st) \ Victims(st)
<1>1. T \subseteq Nat /\ T # {}
  BY ActionIdsAssumption DEF TerminalIn
<1>2. PICK k \in T : \A y \in T : k <= y
  BY <1>1, SmallestOf
<1>3. Older(st, k) \subseteq Victims(st)
  <2> SUFFICES ASSUME NEW x \in Older(st, k), x \notin Victims(st) PROVE FALSE
    OBVIOUS
  <2>1. x \in T /\ x < k
    BY DEF Older
  <2>2. x \in Nat /\ k \in Nat
    BY <1>1, <2>1
  <2>. QED BY <1>2, <2>1, <2>2
<1>4. IsFiniteSet(Victims(st))
  BY Ranks, FS_Subset
<1>5. Cardinality(Older(st, k)) <= Cardinality(Victims(st)) /\ Cardinality(Victims(st)) \in Nat
  BY <1>3, <1>4, FS_Subset, FS_CardinalityType
<1>6. ~(Cardinality(Older(st, k)) < Excess(st))
  BY <1>2, Ranks
<1>. QED BY <1>5, <1>6, Ranks

\* A step creates an action, restarts the process, or leaves the map's keys alone.
KeysStay == \A i \in ActionIds : \/ state'[i] = state[i]
                                 \/ state[i] \in ActionStates /\ state'[i] \in ActionStates

LEMMA StepKinds ==
  ASSUME TypeOK, [Next]_vars
  PROVE  \/ \E id \in ActionIds, t \in Targets, auto \in BOOLEAN : Create(id, t, auto)
         \/ Crash
         \/ KeysStay
<1> USE DEF TypeOK, StoreTypeOK
<1>1. ASSUME NEW i \in ActionIds, Approve(i) \/ Reject(i) \/ Activate(i) \/ Revert(i)
      PROVE  KeysStay
  BY <1>1 DEF Approve, Reject, Activate, Revert, Transition, KeysStay, ActionStates
<1>2. ASSUME NEW i \in ActionIds, NEW why, RecordFailure(i, why) PROVE KeysStay
  BY <1>2 DEF RecordFailure, KeysStay, ActionStates
<1>3. ASSUME state' = state PROVE KeysStay
  BY <1>3 DEF KeysStay
<1>4. ASSUME NEW p \in Procs, pc[p] # "idle" PROVE subject[p] \in ActionIds
  BY <1>4
<1>5. ASSUME NEW h \in Handlers, NEW e \in Events, NEW i \in ActionIds,
             EvaluateAuto(h, e, i) \/ EvaluatePending(h, e, i)
      PROVE  \E id \in ActionIds, t \in Targets, auto \in BOOLEAN : Create(id, t, auto)
  <2>1. DomainOf[e] \in Targets
    BY KillswitchAssumption
  <2>. QED BY <1>5, <2>1 DEF EvaluateAuto, EvaluatePending
<1>6. ASSUME NEW h \in Handlers, HandlerStep(h)
      PROVE  \/ \E id \in ActionIds, t \in Targets, auto \in BOOLEAN : Create(id, t, auto)
             \/ KeysStay
  <2>1. CASE \E i \in ActionIds : ApproveRequest(h, i) \/ RejectRequest(h, i)
    BY <1>1, <2>1 DEF ApproveRequest, RejectRequest
  <2>2. CASE ApplyActivate(h) \/ ApplyRecordFailure(h) \/ RevertRecordFailure(h)
    <3>1. h \in Procs /\ pc[h] # "idle"
      BY <2>2 DEF Procs, ApplyActivate, ApplyRecordFailure, RevertRecordFailure
    <3>. QED BY <1>1, <1>2, <1>4, <2>2, <3>1
             DEF ApplyActivate, ApplyRecordFailure, RevertRecordFailure
  <2>3. CASE ApproveGet(h) \/ ApplyOK(h) \/ ApplyRefused(h) \/ ApplyLost(h)
             \/ (\E i \in ActionIds : RevertRequest(h, i))
    BY <1>3, <2>3 DEF ApproveGet, ApplyOK, ApplyRefused, ApplyLost, RevertRequest, storeVars
  <2>4. CASE \E e \in Events, i \in ActionIds : EvaluateAuto(h, e, i) \/ EvaluatePending(h, e, i)
    BY <1>5, <2>4
  <2>. QED BY <1>6, <2>1, <2>2, <2>3, <2>4 DEF HandlerStep
<1>7. ASSUME NEW p \in Procs, RevertStep(p) PROVE KeysStay
  BY <1>1, <1>3, <1>4, <1>7
     DEF RevertStep, RevertDriverOK, RevertDriverRefused, RevertDriverLost, RevertStore, storeVars
<1>8. ASSUME TTLStep \/ (\E i \in ActionIds : Expiry(i)) \/ UNCHANGED vars PROVE KeysStay
  BY <1>3, <1>8 DEF TTLStep, Tick, RevertNext, Expiry, Expire, vars, storeVars
<1>. QED BY <1>6, <1>7, <1>8 DEF Next

\* What insertion and eviction together do to the map.
LEMMA CreateEvicts ==
  ASSUME TypeOK, IsFiniteSet(InMap(state)),
         NEW id \in ActionIds, NEW t, NEW auto \in BOOLEAN, Create(id, t, auto)
  PROVE  \E st \in [ActionIds -> ActionStates \cup AbsentStates] :
           /\ IsFiniteSet(InMap(st))
           /\ InMap(state') = InMap(st) \ Victims(st)
           /\ TerminalIn(state') = TerminalIn(st) \ Victims(st)
           /\ \A i \in ActionIds :
                state[i] \in ActionStates /\ state'[i] = "gone" => i \in Victims(st)
           /\ \A i \in Victims(st) : state[i] \in TerminalStates
<1> DEFINE s0 == IF auto THEN "approved" ELSE "pending"
           st == [state EXCEPT ![id] = s0]
<1>1. /\ state \in [ActionIds -> ActionStates \cup AbsentStates]
      /\ s0 \in ActionStates \ TerminalStates
  BY DEF TypeOK, StoreTypeOK, ActionStates, TerminalStates
<1>2. /\ st \in [ActionIds -> ActionStates \cup AbsentStates]
      /\ st[id] = s0 /\ \A i \in ActionIds \ {id} : st[i] = state[i]
  BY <1>1
<1>3. state' = EvictLocked(st)
  BY DEF Create
<1>4. Victims(st) \subseteq ActionIds /\ \A i \in Victims(st) : st[i] \in TerminalStates
  BY DEF Victims, TerminalIn
<1> HIDE DEF st, s0
<1>5. \A i \in ActionIds : state'[i] = IF i \in Victims(st) THEN "gone" ELSE st[i]
  BY <1>3 DEF EvictLocked
<1>6. "gone" \notin ActionStates /\ "gone" \notin TerminalStates
  BY DEF ActionStates, TerminalStates
<1>7. /\ InMap(state') = InMap(st) \ Victims(st)
      /\ TerminalIn(state') = TerminalIn(st) \ Victims(st)
  BY <1>5, <1>6 DEF InMap, TerminalIn
<1>8. IsFiniteSet(InMap(st))
  <2>1. InMap(st) \subseteq InMap(state) \cup {id}
    BY <1>2 DEF InMap
  <2>. QED BY <2>1, FS_AddElement, FS_Subset
<1>9. ASSUME NEW i \in ActionIds, state[i] \in ActionStates, state'[i] = "gone"
      PROVE  i \in Victims(st)
  BY <1>1, <1>2, <1>5, <1>6, <1>9
<1>10. \A i \in Victims(st) : state[i] \in TerminalStates
  BY <1>1, <1>2, <1>4
<1>11. \A i \in ActionIds : state[i] \in ActionStates /\ state'[i] = "gone" => i \in Victims(st)
  BY <1>9
<1> USE <1>2
<1> WITNESS st \in [ActionIds -> ActionStates \cup AbsentStates]
<1>. QED BY <1>7, <1>8, <1>10, <1>11

LEMMA FiniteMapNext ==
  ASSUME TypeOK, [Next]_vars, IsFiniteSet(InMap(state))
  PROVE  IsFiniteSet(InMap(state'))
<1>1. CASE \E id \in ActionIds, t \in Targets, auto \in BOOLEAN : Create(id, t, auto)
  <2>1. PICK st \in [ActionIds -> ActionStates \cup AbsentStates] :
           IsFiniteSet(InMap(st)) /\ InMap(state') = InMap(st) \ Victims(st)
    BY <1>1, CreateEvicts
  <2>. QED BY <2>1, FS_Difference
<1>2. CASE Crash \/ KeysStay
  <2>1. \A i \in ActionIds : state'[i] \in ActionStates => state[i] \in ActionStates
    BY <1>2 DEF Crash, KeysStay, ActionStates
  <2>2. InMap(state') \subseteq InMap(state)
    BY <2>1 DEF InMap
  <2>. QED BY <2>2, FS_Subset
<1>. QED BY <1>1, <1>2, StepKinds

\* EvictsOldestTerminal, of one step.
Eviction ==
  /\ \A i \in Dropped : state[i] \in {"reverted", "rejected", "failed"}
  /\ \A i \in Dropped : \A j \in TerminalIn(state') : i < j
  /\ Dropped # {} => Cardinality(InMap(state')) >= MaxActions
  /\ Inserts => \/ Cardinality(InMap(state')) <= MaxActions
                \/ TerminalIn(state') = {}

LEMMA EvictionStep ==
  ASSUME TypeOK, [Next]_vars, IsFiniteSet(InMap(state)), crashes' = crashes
  PROVE  Eviction
<1>1. ASSUME Crash PROVE FALSE
  BY <1>1 DEF Crash, TypeOK
<1>2. CASE KeysStay
  <2>1. Dropped = {} /\ ~Inserts
    BY <1>2 DEF KeysStay, Dropped, Inserts, ActionStates
  <2>. QED BY <2>1 DEF Eviction
<1>3. CASE \E id \in ActionIds, t \in Targets, auto \in BOOLEAN : Create(id, t, auto)
  <2>1. PICK st \in [ActionIds -> ActionStates \cup AbsentStates] :
           /\ IsFiniteSet(InMap(st))
           /\ InMap(state') = InMap(st) \ Victims(st)
           /\ TerminalIn(state') = TerminalIn(st) \ Victims(st)
           /\ \A i \in ActionIds :
                state[i] \in ActionStates /\ state'[i] = "gone" => i \in Victims(st)
           /\ \A i \in Victims(st) : state[i] \in TerminalStates
    BY <1>3, CreateEvicts
  <2>2. Dropped \subseteq Victims(st)
    BY <2>1 DEF Dropped
  <2>3. Victims(st) \subseteq InMap(st)
    BY <2>1, Ranks
  <2>4. /\ IsFiniteSet(Victims(st)) /\ Cardinality(Victims(st)) \in Nat
        /\ Cardinality(InMap(state')) = Cardinality(InMap(st)) - Cardinality(Victims(st))
        /\ Cardinality(InMap(st)) \in Nat /\ MaxActions \in Nat
    <3>1. InMap(st) \cap Victims(st) = Victims(st)
      BY <2>3
    <3>. QED BY <2>1, <2>3, <3>1, FS_Difference, FS_Subset, FS_CardinalityType, MaxActionsAssumption
  <2>5. \A i \in Dropped : state[i] \in {"reverted", "rejected", "failed"}
    BY <2>1, <2>2 DEF TerminalStates
  <2>6. \A i \in Dropped : \A j \in TerminalIn(state') : i < j
    BY <2>1, <2>2, VictimsAreOldest
  <2>7. ASSUME Dropped # {} PROVE Cardinality(InMap(state')) >= MaxActions
    <3>1. Cardinality(Victims(st)) <= Excess(st)
      BY <2>1, <2>2, <2>7, VictimsAtMost
    <3>. QED BY <2>4, <3>1 DEF Excess
  <2>8. ASSUME TerminalIn(state') # {} PROVE Cardinality(InMap(state')) <= MaxActions
    <3>1. PICK j : j \in TerminalIn(st) \ Victims(st)
      BY <2>1, <2>8
    <3>2. Cardinality(Victims(st)) >= Excess(st)
      BY <2>1, <3>1, VictimsAtLeast
    <3>. QED BY <2>4, <3>2 DEF Excess
  <2>. QED BY <2>5, <2>6, <2>7, <2>8 DEF Eviction
<1>. QED BY <1>1, <1>2, <1>3, StepKinds

(***************************************************************************)
(* Eviction (evictLocked), for every bound of the map: short of a restart, *)
(* an action leaves the map only when it is terminal, no terminal action   *)
(* older than it stays, no more are dropped than the bound asks for, and   *)
(* an insertion leaves the map within its bound or without a terminal      *)
(* action.                                                                 *)
(***************************************************************************)
THEOREM EvictsOldestTerminalHolds == Spec => EvictsOldestTerminal
<1> DEFINE FiniteMap == IsFiniteSet(InMap(state))
<1>1. Init => FiniteMap
  <2> SUFFICES ASSUME Init PROVE InMap(state) = {}
    BY FS_EmptySet
  <2>. QED BY DEF Init, StoreInit, InMap, ActionStates
<1>2. TypeOK /\ FiniteMap /\ [Next]_vars => FiniteMap'
  BY FiniteMapNext
<1>3. TypeOK /\ FiniteMap /\ [Next]_vars => [crashes' = crashes => Eviction]_vars
  BY EvictionStep
<1>4. [crashes' = crashes => Eviction]_vars =>
        [crashes' = crashes =>
           /\ \A i \in Dropped : state[i] \in {"reverted", "rejected", "failed"}
           /\ \A i \in Dropped : \A j \in TerminalIn(state') : i < j
           /\ Dropped # {} => Cardinality(InMap(state')) >= MaxActions
           /\ Inserts => \/ Cardinality(InMap(state')) <= MaxActions
                         \/ TerminalIn(state') = {}]_vars
  BY DEF Eviction
<1>. QED BY <1>1, <1>2, <1>3, <1>4, KillswitchType, PTL DEF Spec, EvictsOldestTerminal
=============================================================================
