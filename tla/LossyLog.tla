------------------------------ MODULE LossyLog ------------------------------
(***************************************************************************)
(* What a bounded, non-blocking pipe to a table promises, whoever fills    *)
(* it: an item is taken or dropped at the door; what was taken leaves in   *)
(* the order it came, a prefix at a time, and none is held for good.  A    *)
(* prefix is written whole and at most once: at once, or late, after       *)
(* others that left after it, or never.                                    *)
(*                                                                         *)
(* The event writer of device-inventory is shown to be one (Inventory).    *)
(***************************************************************************)
EXTENDS Naturals, SequencesExt

CONSTANTS
  Items,     \* what goes through
  Capacity   \* how many items are held at most

VARIABLES
  held,      \* taken and still here, oldest first
  late,      \* prefixes that have left and may yet be written
  written    \* what the table holds, in the order it was written

logVars == <<held, late, written>>

Init == held = <<>> /\ late = <<>> /\ written = <<>>

Accept ==
  /\ Len(held) < Capacity
  /\ \E item \in Items : held' = Append(held, item)
  /\ UNCHANGED <<late, written>>

First(n) == SubSeq(held, 1, n)
After(n) == SubSeq(held, n + 1, Len(held))

\* The oldest n items leave together: all of them are written, or put off.
Leave(n) ==
  \/ written' = written \o First(n) /\ UNCHANGED late
  \/ late' = Append(late, First(n)) /\ UNCHANGED written

Settle ==
  \E n \in 1..Len(held) :
    /\ held' = After(n)
    /\ Leave(n)

\* What was put off is written after all, in any order.
Land ==
  \E i \in 1..Len(late) :
    /\ written' = written \o late[i]
    /\ late' = RemoveAt(late, i)
    /\ UNCHANGED held

\* The process stops: a last prefix leaves, the rest is lost.
Stop ==
  /\ held' = <<>>
  /\ UNCHANGED <<late, written>> \/ \E n \in 1..Len(held) : Leave(n)

Next == Accept \/ Settle \/ Land \/ Stop

Spec == Init /\ [][Next]_logVars

\* What is held does not stay.
FairSpec == Spec /\ WF_logVars(Settle \/ Stop)
=============================================================================
