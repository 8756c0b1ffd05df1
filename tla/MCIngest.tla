------------------------------ MODULE MCIngest ------------------------------
(***************************************************************************)
(* Instances of Ingest for TLC: a client that connects to one address      *)
(* without a name, which is a finding unless a domain was resolved to it;  *)
(* and one that does so, or does so with the fingerprint of known malware, *)
(* which is another finding.                                               *)
(***************************************************************************)
EXTENDS Ingest

CONSTANTS ext, d1

MCObservations == {[dst |-> ext, sni |-> None, known |-> FALSE]}
MCTwoFindings == {[dst |-> ext, sni |-> None, known |-> known] : known \in BOOLEAN}
=============================================================================
