---------------------------- MODULE MCArpIsolate ----------------------------
(***************************************************************************)
(* An instance of ArpIsolate: a camera that is cut off again and again by  *)
(* a router that may come back with another address.                       *)
(***************************************************************************)
EXTENDS ArpIsolate, TLC

CONSTANTS a1, camera, router1, router2

OneVictim == a1 :> camera
=============================================================================
