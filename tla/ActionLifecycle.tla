--------------------------- MODULE ActionLifecycle ---------------------------
(***************************************************************************)
(* What the store of killswitch-controller promises about the life of an   *)
(* enforcement action, without handlers, drivers or time: the state of     *)
(* every action and the moves it may make.                                 *)
(*                                                                         *)
(*        +-- reject --> rejected                                          *)
(*   pending                                                               *)
(*        +-- approve -> approved --> active --> reverted                  *)
(*                           |          |         |   ^                    *)
(*                           +----------+---------+-> failed               *)
(*                                                                         *)
(* The promise: an action becomes active once, and only after approval; a  *)
(* rejected action never moves again; an action leaves the store only when *)
(* it is terminal and another is inserted, or with all others in a restart.*)
(***************************************************************************)
EXTENDS Naturals

CONSTANTS ActionIds
VARIABLE  state

Terminal == {"reverted", "rejected", "failed"}
Absent   == {"none", "gone"}

Init == state = [i \in ActionIds |-> "none"]

Move(id, from, to) == state[id] \in from /\ state' = [state EXCEPT ![id] = to]

\* Insertion, which may push terminal actions out.
Admit(id) ==
  /\ state[id] = "none"
  /\ state'[id] \in {"pending", "approved"}
  /\ state' = [i \in ActionIds |-> state'[i]]
  /\ \A i \in ActionIds \ {id} :
       \/ state'[i] = state[i]
       \/ state[i] \in Terminal /\ state'[i] = "gone"

Decide(id)  == \E to \in {"approved", "rejected"} : Move(id, {"pending"}, to)
Enforce(id) == Move(id, {"approved"}, "active")
Lift(id)    == Move(id, {"active", "failed"}, "reverted")
Fail(id)    == Move(id, {"approved", "active", "failed", "reverted"}, "failed")

Restart == state' = [i \in ActionIds |-> IF state[i] \in Absent THEN state[i] ELSE "gone"]

Next == \/ \E id \in ActionIds : Admit(id) \/ Decide(id) \/ Enforce(id) \/ Lift(id) \/ Fail(id)
        \/ Restart

Spec == Init /\ [][Next]_state
=============================================================================
