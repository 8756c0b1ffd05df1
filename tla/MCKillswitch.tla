---------------------------- MODULE MCKillswitch ----------------------------
(***************************************************************************)
(* Instances of Killswitch for TLC: an event the policy auto-blocks, one   *)
(* that waits for a human, and one about the same domain as the first.     *)
(***************************************************************************)
EXTENDS Killswitch, TLC

CONSTANTS h1, h2, c2, phish, tunnel

MCIds1 == {1}
MCIds2 == 1..2
MCIds3 == 1..3

MCDomainOf == [e \in Events |->
  CASE e = "c2Match" -> c2 [] e = "c2Again" -> c2 [] e = "phishHit" -> phish
    [] e = "badName" -> tunnel]
MCDecision == [e \in Events |-> IF e = "c2Match" \/ e = "badName" THEN "auto_block" ELSE "pending"]

HandlerSymmetry == Permutations(Handlers)
=============================================================================
