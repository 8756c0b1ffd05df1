----------------------------- MODULE Killswitch -----------------------------
(***************************************************************************)
(* killswitch-controller: the HTTP handlers, the TTL-revert goroutine, the *)
(* action store they share, and the filter rules of AdGuard Home that the  *)
(* DNS-sinkhole driver edits.                                              *)
(*                                                                         *)
(* Every handler runs in a goroutine of its own.  It interleaves with the  *)
(* others wherever it leaves the store's mutex or waits for AdGuard, so a  *)
(* handler is a sequence of steps: one per critical section of the store,  *)
(* one per driver call.  The driver's read-modify-write holds rulesMu and  *)
(* is one step.  A crash loses the store and every goroutine; the rules    *)
(* stay in AdGuard.                                                        *)
(***************************************************************************)
EXTENDS ActionStore

CONSTANTS
  Handlers,          \* goroutines of the HTTP server
  TTL,               \* the runSafeTTLRevert goroutine
  Events,            \* detection events POST /evaluate may carry
  Decision,          \* what Policy.Evaluate answers for each of them
  DomainOf,          \* the domain of each of them
  PlainHostnames,    \* the targets validateDomain accepts
  AutoBlockAllowed,  \* FALSE when the allowlist is empty (main.go:88-98)
  InitialRules,      \* filter rules present before the controller acts
  ApplyFailures,     \* how a driver call may fail: "refused" before it has an
  RevertFailures,    \* effect, "lost" when AdGuard took the rules but the
  TTLFailures,       \* caller sees an error (timeout, cancelled request)
  StuckTargets,      \* targets whose revert never succeeds
  MaxCrashes,        \* bound on the restarts of the process
  NoAction           \* what an idle goroutine has in hand

FailureModes == {"refused", "lost"}

ASSUME KillswitchAssumption ==
  /\ TTL \notin Handlers
  /\ Decision \in [Events -> {"auto_block", "pending", "ignore"}]
  /\ DomainOf \in [Events -> Targets]
  /\ PlainHostnames \subseteq Targets
  /\ AutoBlockAllowed \in BOOLEAN
  /\ InitialRules \subseteq PlainHostnames
  /\ ApplyFailures \subseteq FailureModes
  /\ RevertFailures \subseteq FailureModes
  /\ TTLFailures \subseteq FailureModes
  /\ StuckTargets \subseteq PlainHostnames
  /\ MaxCrashes \in Nat
  /\ NoAction \notin ActionIds

Procs == Handlers \cup {TTL}

VARIABLES
  rules,    \* AdGuard's user_rules, reduced to the domains they block
  pc,       \* where each goroutine stands
  subject,  \* the action it has in hand
  batch,    \* what is left of the TTL goroutine's ListExpired snapshot
  contended,\* history: the actions being applied while another goroutine had them
  applied,  \* history: the actions a driver Apply was issued for
  crashes   \* history: restarts so far

procVars == <<pc, subject, batch, contended>>
vars == <<storeVars, rules, procVars, applied, crashes>>

Labels == {"idle", "approve_get", "apply", "activate", "apply_failed",
           "revert_driver", "revert_failed", "revert_store"}

\* The labels of a handler on its way from an approval to the end of applyAction.
Applying == {"approve_get", "apply", "activate", "apply_failed"}

TypeOK ==
  /\ StoreTypeOK
  /\ rules   \subseteq Targets
  /\ pc      \in [Procs -> Labels]
  /\ subject \in [Procs -> ActionIds \cup {NoAction}]
  /\ \A p \in Procs : subject[p] = NoAction <=> pc[p] = "idle"
  /\ batch   \subseteq ActionIds
  /\ contended \subseteq ActionIds
  /\ applied \subseteq ActionIds
  /\ crashes \in 0..MaxCrashes

Init ==
  /\ StoreInit
  /\ rules   = InitialRules
  /\ pc      = [p \in Procs |-> "idle"]
  /\ subject = [p \in Procs |-> NoAction]
  /\ batch   = {}
  /\ contended = {}
  /\ applied = {}
  /\ crashes = 0

-----------------------------------------------------------------------------
\* Goroutine p, at `label`, meets another one that has action id in hand, and one
\* of the two is applying it.
Meets(p, id, label) ==
  \E q \in Procs \ {p} : subject[q] = id /\ {label, pc[q]} \cap Applying # {}

\* Goroutine p goes on with action id at `label`, or is done with it.
Enter(p, id, label) ==
  /\ pc'      = [pc EXCEPT ![p] = label]
  /\ subject' = [subject EXCEPT ![p] = id]
  /\ contended' = contended \cup {i \in {id} : Meets(p, id, label)}

Goto(p, label) == Enter(p, subject[p], label)
Finish(p)      == Enter(p, NoAction, "idle")

\* The sinkhole driver, under rulesMu: an existing rule is left as it is.
AddRule(t)    == rules' = rules \cup {t}
RemoveRule(t) == rules' = rules \ {t}

\* POST /evaluate on an event the policy auto-blocks.
EvaluateAuto(h, e, id) ==
  /\ pc[h] = "idle"
  /\ Decision[e] = "auto_block"
  /\ AutoBlockAllowed
  /\ Create(id, DomainOf[e], TRUE)
  /\ Enter(h, id, "apply")
  /\ UNCHANGED <<rules, batch, applied, crashes>>

\* POST /evaluate on an event that waits for a human, downgraded ones included.
EvaluatePending(h, e, id) ==
  /\ pc[h] = "idle"
  /\ \/ Decision[e] = "pending"
     \/ Decision[e] = "auto_block" /\ ~AutoBlockAllowed
  /\ Create(id, DomainOf[e], FALSE)
  /\ UNCHANGED <<rules, procVars, applied, crashes>>

\* POST /actions/{id}/approve: the transition, then a separate Get.
ApproveRequest(h, id) ==
  /\ pc[h] = "idle"
  /\ TransitionOK(id, "approved", "pending")
  /\ Approve(id)
  /\ Enter(h, id, "approve_get")
  /\ UNCHANGED <<rules, batch, applied, crashes>>

ApproveGet(h) ==
  /\ pc[h] = "approve_get"
  /\ IF state[subject[h]] = "approved" THEN Goto(h, "apply") ELSE Finish(h)
  /\ UNCHANGED <<storeVars, rules, batch, applied, crashes>>

\* applyAction: the driver call, then the transition it calls for.
ApplyOK(h) ==
  /\ pc[h] = "apply"
  /\ target[subject[h]] \in PlainHostnames
  /\ AddRule(target[subject[h]])
  /\ applied' = applied \cup {subject[h]}
  /\ Goto(h, "activate")
  /\ UNCHANGED <<storeVars, batch, crashes>>

\* Fault: the driver's error is dropped and the action activated.
ApplyRefusedIgnored(h) ==
  /\ pc[h] = "apply"
  /\ target[subject[h]] \notin PlainHostnames \/ "refused" \in ApplyFailures
  /\ applied' = applied \cup {subject[h]}
  /\ Goto(h, "activate")
  /\ UNCHANGED <<storeVars, rules, batch, crashes>>

\* validateDomain rejects the target, or the driver or AdGuard fails.
ApplyRefused(h) ==
  /\ pc[h] = "apply"
  /\ target[subject[h]] \notin PlainHostnames \/ "refused" \in ApplyFailures
  /\ applied' = applied \cup {subject[h]}
  /\ Goto(h, "apply_failed")
  /\ UNCHANGED <<storeVars, rules, batch, crashes>>

ApplyLost(h) ==
  /\ pc[h] = "apply"
  /\ target[subject[h]] \in PlainHostnames \ rules
  /\ "lost" \in ApplyFailures
  /\ AddRule(target[subject[h]])
  /\ applied' = applied \cup {subject[h]}
  /\ Goto(h, "apply_failed")
  /\ UNCHANGED <<storeVars, batch, crashes>>

ApplyActivate(h) ==
  /\ pc[h] = "activate"
  /\ Activate(subject[h])
  /\ Finish(h)
  /\ UNCHANGED <<rules, batch, applied, crashes>>

\* Fault: a failed apply leaves the action in approved.
ApplyFailureUnrecorded(h) ==
  /\ pc[h] = "apply_failed"
  /\ Finish(h)
  /\ UNCHANGED <<storeVars, rules, batch, applied, crashes>>

ApplyRecordFailure(h) ==
  /\ pc[h] = "apply_failed"
  /\ RecordFailure(subject[h], "apply")
  /\ Finish(h)
  /\ UNCHANGED <<rules, batch, applied, crashes>>

\* Fault: an approved action can still be rejected.
RejectRequestLate(h, id) ==
  /\ pc[h] = "idle"
  /\ state[id] \in {"pending", "approved"}
  /\ state' = [state EXCEPT ![id] = "rejected"]
  /\ UNCHANGED <<target, approvedBy, failure, expired, rules, procVars, applied, crashes>>

\* POST /actions/{id}/reject.
RejectRequest(h, id) ==
  /\ pc[h] = "idle"
  /\ TransitionOK(id, "rejected", "pending")
  /\ Reject(id)
  /\ UNCHANGED <<rules, procVars, applied, crashes>>

\* Fault: the store is told before the driver ("the old order", main.go:540).
RevertRequestStoreOnly(h, id) ==
  /\ pc[h] = "idle"
  /\ state[id] \in ActionStates
  /\ Enter(h, id, "revert_store")
  /\ UNCHANGED <<storeVars, rules, batch, applied, crashes>>

\* POST /actions/{id}/revert: only an action read as active reaches the driver.
RevertRequest(h, id) ==
  /\ pc[h] = "idle"
  /\ state[id] \in ActionStates
  /\ Enter(h, id, IF state[id] = "active" THEN "revert_driver" ELSE "revert_store")
  /\ UNCHANGED <<storeVars, rules, batch, applied, crashes>>

-----------------------------------------------------------------------------
\* The driver's Revert, for a handler and for the TTL goroutine alike.  A target
\* that is no plain hostname has no rule, and its revert succeeds.
RevertDriverOK(p) ==
  /\ pc[p] = "revert_driver"
  /\ target[subject[p]] \notin StuckTargets
  /\ RemoveRule(target[subject[p]])
  /\ Goto(p, "revert_store")
  /\ UNCHANGED <<storeVars, batch, applied, crashes>>

\* Fault: the TTL goroutine retries on the spot and never gets to the next action.
RetryOnTheSpot(p) == IF p = TTL THEN Goto(p, "revert_driver") ELSE Goto(p, "revert_failed")

\* A handler records the failure; the TTL goroutine leaves the action to the next tick.
AfterRevertError(p) == IF p = TTL THEN Finish(p) ELSE Goto(p, "revert_failed")

FailuresOf(p) == IF p = TTL THEN TTLFailures ELSE RevertFailures

RevertDriverRefused(p) ==
  /\ pc[p] = "revert_driver"
  /\ \/ target[subject[p]] \in StuckTargets
     \/ target[subject[p]] \in PlainHostnames /\ "refused" \in FailuresOf(p)
  /\ AfterRevertError(p)
  /\ UNCHANGED <<storeVars, rules, batch, applied, crashes>>

RevertDriverLost(p) ==
  /\ pc[p] = "revert_driver"
  /\ target[subject[p]] \in rules \ StuckTargets
  /\ "lost" \in FailuresOf(p)
  /\ RemoveRule(target[subject[p]])
  /\ AfterRevertError(p)
  /\ UNCHANGED <<storeVars, batch, applied, crashes>>

RevertRecordFailure(h) ==
  /\ pc[h] = "revert_failed"
  /\ RecordFailure(subject[h], "revert")
  /\ Finish(h)
  /\ UNCHANGED <<rules, batch, applied, crashes>>

RevertStore(p) ==
  /\ pc[p] = "revert_store"
  /\ Revert(subject[p])
  /\ Finish(p)
  /\ UNCHANGED <<rules, batch, applied, crashes>>

-----------------------------------------------------------------------------
\* The TTL goroutine takes a snapshot per tick and works it off in any order:
\* ListExpired iterates a map.
Tick ==
  /\ pc[TTL] = "idle"
  /\ batch = {}
  /\ ListExpired # {}
  /\ batch' = ListExpired
  /\ UNCHANGED <<storeVars, rules, pc, subject, contended, applied, crashes>>

RevertNext(id) ==
  /\ pc[TTL] = "idle"
  /\ id \in batch
  /\ batch' = batch \ {id}
  /\ Enter(TTL, id, "revert_driver")
  /\ UNCHANGED <<storeVars, rules, applied, crashes>>

\* Time passes for action id.
Expiry(id) ==
  /\ Expire(id)
  /\ UNCHANGED <<rules, procVars, applied, crashes>>

\* The process dies and starts again: the map is empty, AdGuard is not.
Crash ==
  /\ crashes < MaxCrashes
  /\ crashes' = crashes + 1
  /\ state' = [i \in ActionIds |-> IF state[i] \in ActionStates THEN "gone" ELSE state[i]]
  /\ pc'      = [p \in Procs |-> "idle"]
  /\ subject' = [p \in Procs |-> NoAction]
  /\ batch'   = {}
  /\ UNCHANGED <<target, approvedBy, failure, expired, rules, contended, applied>>

-----------------------------------------------------------------------------
HandlerStep(h) ==
  \/ \E e \in Events, id \in ActionIds : EvaluateAuto(h, e, id) \/ EvaluatePending(h, e, id)
  \/ \E id \in ActionIds : ApproveRequest(h, id) \/ RejectRequest(h, id) \/ RevertRequest(h, id)
  \/ ApproveGet(h)
  \/ ApplyOK(h) \/ ApplyRefused(h) \/ ApplyLost(h)
  \/ ApplyActivate(h) \/ ApplyRecordFailure(h)
  \/ RevertRecordFailure(h)

RevertStep(p) ==
  \/ RevertDriverOK(p) \/ RevertDriverRefused(p) \/ RevertDriverLost(p)
  \/ RevertStore(p)

TTLStep == Tick \/ \E id \in ActionIds : RevertNext(id)

Next ==
  \/ \E h \in Handlers : HandlerStep(h)
  \/ \E p \in Procs : RevertStep(p)
  \/ TTLStep
  \/ \E id \in ActionIds : Expiry(id)
  \/ Crash

Spec == Init /\ [][Next]_vars

(***************************************************************************)
(* The ticker keeps firing and every call of the TTL goroutine returns: its*)
(* driver call carries a 10 s timeout, its store calls end with an audit   *)
(* write of at most 5 s.                                                   *)
(* Strong fairness of the successful revert is an assumption about AdGuard:*)
(* an action retried again and again is eventually lifted, unless its      *)
(* target is stuck.  Nothing is assumed about the operators.               *)
(***************************************************************************)
Fairness ==
  /\ WF_vars(TTLStep)
  /\ \A id \in ActionIds : SF_vars(subject[TTL] = id /\ RevertDriverOK(TTL))
  /\ WF_vars(RevertStep(TTL))

FairSpec == Spec /\ Fairness

-----------------------------------------------------------------------------
\* Some goroutine is in the middle of a call about target t.
Busy(t) == \E p \in Procs : subject[p] # NoAction /\ target[subject[p]] = t

\* Another action about the same target that may still want it blocked.
Shared(id) == \E j \in ActionIds \ {id} :
                target[j] = target[id] /\ state[j] \in {"approved", "active", "failed"}

\* Whom a block may rest on: with an empty allowlist, on a human only (main.go:82-87).
Authorisers == IF AutoBlockAllowed THEN {"auto-policy", "operator"} ELSE {"operator"}

(***************************************************************************)
(* A rule the controller wrote rests on an action that the policy or an    *)
(* operator approved; with auto-block disabled, on an operator's approval. *)
(* Holds across failed and repeated calls, eviction and restarts.          *)
(***************************************************************************)
EveryBlockIsAuthorised ==
  \A t \in rules \ InitialRules :
    \E id \in applied : target[id] = t /\ approvedBy[id] \in Authorisers

(***************************************************************************)
(* No driver Apply is ever issued for an action that waits for its human,  *)
(* or that the human refused (handleApprove, handleReject): the two race,  *)
(* and applyAction does not look at the state again.                       *)
(***************************************************************************)
UndecidedNeverEnforced ==
  \A id \in applied : state[id] \notin {"none", "pending", "rejected"}

(***************************************************************************)
(* "Approved" is never a resting place: some handler still has the action  *)
(* in hand and will activate it or record its failure, so "approved but    *)
(* never enforced" cannot be mistaken for progress (store.go:175-178).     *)
(* The comment of applyAction says otherwise of a failed apply, that it    *)
(* leaves the action in approved with a recorded failure (main.go:433-436);*)
(* RecordFailure makes it failed (store.go:187-197).                       *)
(***************************************************************************)
ApprovedIsInHand ==
  \A id \in ActionIds : state[id] = "approved" =>
    \E h \in Handlers :
      subject[h] = id /\ pc[h] \in Applying

(***************************************************************************)
(* What the active list tells the operator: until its TTL has passed and   *)
(* when no call about its target is under way, an active action is         *)
(* enforced in AdGuard.  (After the TTL it may be lifted and active for a  *)
(* tick or more, when AdGuard's reply to the TTL goroutine was lost.)  It  *)
(* holds of an action that shares its target with no other one; two        *)
(* actions share one rule (sinkhole.go:88-92), and lifting one lifts the   *)
(* other.                                                                  *)
(***************************************************************************)
SoleActiveIsEnforced ==
  \A id \in ActionIds :
    /\ state[id] = "active"
    /\ ~expired[id]
    /\ ~Busy(target[id])
    /\ \A j \in ActionIds \ {id} : target[j] # target[id]
    => target[id] \in rules

(***************************************************************************)
(* "The one outcome a killswitch must never produce" (main.go:539-542): an *)
(* action reported as reverted while its rule is still in AdGuard.         *)
(***************************************************************************)
RevertedIsLifted ==
  \A id \in ActionIds :
    /\ state[id] = "reverted"
    /\ ~Busy(target[id])
    /\ ~Shared(id)
    /\ target[id] \notin InitialRules
    => target[id] \notin rules

(***************************************************************************)
(* What does hold of it, with handlers, TTL goroutine, lost calls and      *)
(* restarts racing: once every action a driver Apply was issued for about  *)
(* a target is reported as reverted, the target is no longer blocked.  Two *)
(* things are excepted, and both leave a trace: a recorded failure, after  *)
(* which handleRevert tells the store and not the driver (main.go:543-566),*)
(* and a goroutine that had the action in hand while it was being applied. *)
(***************************************************************************)
CleanlyReverted(id) == state[id] = "reverted" /\ failure[id] = "" /\ id \notin contended

CleanlyRevertedIsLifted ==
  \A t \in rules \ InitialRules :
    \E id \in applied : target[id] = t /\ ~CleanlyReverted(id)

\* The actions the current step drops from the map.
Dropped == {i \in ActionIds : state[i] \in ActionStates /\ state'[i] = "gone"}
Inserts == \E i \in ActionIds : state[i] = "none" /\ state'[i] # "none"

(***************************************************************************)
(* Eviction (evictLocked): short of a restart, an action leaves the map    *)
(* only when it is terminal, oldest first, and no more of them than the    *)
(* bound asks for; after an insertion the map is within its bound or holds *)
(* no terminal action at all.                                              *)
(***************************************************************************)
EvictsOldestTerminal ==
  [][crashes' = crashes =>
       /\ \A i \in Dropped : state[i] \in {"reverted", "rejected", "failed"}
       /\ \A i \in Dropped : \A j \in TerminalIn(state') : i < j
       /\ Dropped # {} => Cardinality(InMap(state')) >= MaxActions
       /\ Inserts => \/ Cardinality(InMap(state')) <= MaxActions
                     \/ TerminalIn(state') = {}]_vars

(***************************************************************************)
(* The controller moves actions as the abstract lifecycle promises: active *)
(* once and only after approval, rejected for good, out of the store only  *)
(* when terminal.                                                          *)
(***************************************************************************)
Lifecycle == INSTANCE ActionLifecycle WITH ActionIds <- ActionIds, state <- state
ImplementsLifecycle == Lifecycle!Spec

(***************************************************************************)
(* TTL auto-revert (runSafeTTLRevert): an expired active action does not   *)
(* stay active, whatever operators do and even if the revert of another    *)
(* action never succeeds.                                                  *)
(***************************************************************************)
ExpiredIsReverted ==
  \A id \in ActionIds :
    (state[id] = "active" /\ expired[id] /\ target[id] \notin StuckTargets)
      ~> (state[id] # "active")
=============================================================================
