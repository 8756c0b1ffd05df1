----------------------------- MODULE ActionStore -----------------------------
(***************************************************************************)
(* The in-memory store of enforcement actions of killswitch-controller     *)
(* (internal/actions/store.go): a map guarded by one RWMutex.  Every       *)
(* operation below is one critical section of that mutex, so it is one     *)
(* atomic step of whatever module uses it.                                 *)
(*                                                                         *)
(* An action is named by its rank in the insertion order (the code's       *)
(* `order` slice), so "older" is "<" and the names are never reused: the   *)
(* code's ids come from a process-wide counter behind a per-process prefix.*)
(***************************************************************************)
EXTENDS Integers, FiniteSets

CONSTANTS
  ActionIds,   \* ranks of the actions one instance may create
  MaxActions,  \* StoreOptions.MaxActions
  Targets,     \* what an action blocks: the domain of the detection
  NoTarget     \* the target of an action that does not exist yet

ASSUME ActionIdsAssumption == ActionIds \subseteq Nat
ASSUME MaxActionsAssumption == MaxActions \in Nat \ {0}
ASSUME TargetsAssumption == NoTarget \notin Targets

VARIABLES
  state,       \* State of each action; "none" and "gone" are not in the map
  target,      \* BlockedDomain
  approvedBy,  \* ApprovedBy
  failure,     \* FailureReason, reduced to the driver call that failed
  expired      \* time.Now() is after ExpiresAt

storeVars == <<state, target, approvedBy, failure, expired>>

(***************************************************************************)
(* "none": not created yet.  "gone": evicted from the map, or lost with    *)
(* the process.  The code cannot tell the two apart: both are `!ok`.       *)
(***************************************************************************)
ActionStates   == {"pending", "approved", "active", "reverted", "rejected", "failed"}
TerminalStates == {"reverted", "rejected", "failed"}
AbsentStates   == {"none", "gone"}

Approvers == {"", "auto-policy", "operator"}
Failures  == {"", "apply", "revert"}

StoreTypeOK ==
  /\ state      \in [ActionIds -> ActionStates \cup AbsentStates]
  /\ target     \in [ActionIds -> Targets \cup {NoTarget}]
  /\ approvedBy \in [ActionIds -> Approvers]
  /\ failure    \in [ActionIds -> Failures]
  /\ expired    \in [ActionIds -> BOOLEAN]

StoreInit ==
  /\ state      = [i \in ActionIds |-> "none"]
  /\ target     = [i \in ActionIds |-> NoTarget]
  /\ approvedBy = [i \in ActionIds |-> ""]
  /\ failure    = [i \in ActionIds |-> ""]
  /\ expired    = [i \in ActionIds |-> FALSE]

-----------------------------------------------------------------------------
\* The actions that are in the map, and the terminal ones among them.
InMap(st)      == {i \in ActionIds : st[i] \in ActionStates}
TerminalIn(st) == {i \in ActionIds : st[i] \in TerminalStates}

\* Fault: the newest terminal actions go first.
VictimsNewest(st) ==
  {i \in TerminalIn(st) :
     Cardinality({j \in TerminalIn(st) : j > i}) < Cardinality(InMap(st)) - MaxActions}

\* The oldest terminal actions, as many as the map exceeds MaxActions by.
Victims(st) ==
  {i \in TerminalIn(st) :
     Cardinality({j \in TerminalIn(st) : j < i}) < Cardinality(InMap(st)) - MaxActions}

EvictLocked(st) == [i \in ActionIds |-> IF i \in Victims(st) THEN "gone" ELSE st[i]]

\* The rank the next insertion gets.
IsNext(id) == /\ state[id] = "none"
              /\ \A j \in ActionIds : j < id => state[j] # "none"

Create(id, t, autoApproved) ==
  /\ IsNext(id)
  /\ state' = EvictLocked([state EXCEPT ![id] = IF autoApproved THEN "approved" ELSE "pending"])
  /\ target' = [target EXCEPT ![id] = t]
  /\ approvedBy' = [approvedBy EXCEPT ![id] = IF autoApproved THEN "auto-policy" ELSE ""]
  /\ UNCHANGED <<failure, expired>>

(***************************************************************************)
(* The generic state changer: a no-op, and no error, when the action is    *)
(* already in `to`; an error when it is in neither `to` nor `from`.        *)
(***************************************************************************)
TransitionOK(id, to, from) == state[id] \in {to, from}
Transition(id, to, from) ==
  IF state[id] = from THEN state' = [state EXCEPT ![id] = to] ELSE UNCHANGED state

\* Fault: the approver is not recorded.
ApproveUnsigned(id) ==
  /\ Transition(id, "approved", "pending")
  /\ UNCHANGED <<target, approvedBy, failure, expired>>

Approve(id) ==
  /\ Transition(id, "approved", "pending")
  /\ approvedBy' = IF state[id] = "pending" THEN [approvedBy EXCEPT ![id] = "operator"]
                                            ELSE approvedBy
  /\ UNCHANGED <<target, failure, expired>>

Reject(id) ==
  /\ Transition(id, "rejected", "pending")
  /\ UNCHANGED <<target, approvedBy, failure, expired>>

\* Fault: a failed action can be activated.
ActivateFailed(id) ==
  /\ state' = IF state[id] \in {"approved", "failed"} THEN [state EXCEPT ![id] = "active"]
                                                      ELSE state
  /\ UNCHANGED <<target, approvedBy, failure, expired>>

Activate(id) ==
  /\ Transition(id, "active", "approved")
  /\ UNCHANGED <<target, approvedBy, failure, expired>>

\* From active and from failed: a failed apply may have partially landed.
Revert(id) ==
  /\ state' = IF state[id] \in {"active", "failed"} THEN [state EXCEPT ![id] = "reverted"]
                                                    ELSE state
  /\ UNCHANGED <<target, approvedBy, failure, expired>>

\* Fault: the state the action comes from is stored as the reason.
RecordFailureSwapped(id, why) ==
  /\ IF state[id] \in ActionStates
       THEN /\ state'   = [state EXCEPT ![id] = "failed"]
            /\ failure' = [failure EXCEPT ![id] = state[id]]
       ELSE UNCHANGED <<state, failure>>
  /\ UNCHANGED <<target, approvedBy, expired>>

\* No source state is excluded: whatever is in the map becomes failed.
RecordFailure(id, why) ==
  /\ IF state[id] \in ActionStates
       THEN /\ state'   = [state EXCEPT ![id] = "failed"]
            /\ failure' = [failure EXCEPT ![id] = why]
       ELSE UNCHANGED <<state, failure>>
  /\ UNCHANGED <<target, approvedBy, expired>>

\* The clock passes ExpiresAt, which Create fixed; nothing else changes.
Expire(id) ==
  /\ state[id] \in ActionStates
  /\ ~expired[id]
  /\ expired' = [expired EXCEPT ![id] = TRUE]
  /\ UNCHANGED <<state, target, approvedBy, failure>>

ListExpired == {i \in ActionIds : state[i] = "active" /\ expired[i]}
=============================================================================
