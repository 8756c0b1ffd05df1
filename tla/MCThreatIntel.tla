---------------------------- MODULE MCThreatIntel ----------------------------
(***************************************************************************)
(* Instances of ThreatIntel for TLC: of the five feeds, in their order,    *)
(* one that dates the addition only, one that dates sightings and one that *)
(* dates nothing, and an indicator that all of them may claim.             *)
(***************************************************************************)
EXTENDS ThreatIntel, TLC

CONSTANTS misp, threatfox, spamhaus, evil

MCFeeds == <<misp, threatfox, spamhaus>>
MCDates == (misp :> "addition") @@ (threatfox :> "sightings") @@ (spamhaus :> "none")

\* mispToIndicators sets no confidence; ThreatFox passes on what it is told.
MCConfidence == (misp :> {0}) @@ (threatfox :> {60, 150}) @@ (spamhaus :> {95})
=============================================================================
