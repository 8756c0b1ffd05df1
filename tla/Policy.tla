------------------------------- MODULE Policy -------------------------------
(***************************************************************************)
(* The enforcement policy of killswitch-controller (internal/policy) and   *)
(* the part of the shared event contract it keys off (libs/events): what   *)
(* the controller decides for one detection event.  Pure operators; the    *)
(* policy, the allowlist and the event are their arguments.                *)
(*                                                                         *)
(* An address is a model value.  What the parsers do with its spellings is *)
(* the constant Canonical; the ranges an allowlist entry may stand for are *)
(* the constant Ranges.                                                    *)
(***************************************************************************)
EXTENDS Integers, FiniteSets

CONSTANTS
  Canonical,  \* spelling of an address |-> the address, or Unparseable
  Ranges,     \* CIDR entry |-> the addresses in it
  Unparseable

Severities == {"critical", "high", "medium", "low"}
SeverityRank(s) ==
  CASE s = "critical" -> 4 [] s = "high" -> 3 [] s = "medium" -> 2 [] s = "low" -> 1
    [] OTHER -> 0

SeverityForConfidence(c) ==
  CASE c >= 90 -> "critical" [] c >= 70 -> "high" [] c >= 50 -> "medium" [] OTHER -> "low"

ActionTypes == {"dns_sinkhole", "arp_isolate", "switch_acl"}

\* Signal classes; the known-bad ones are attested from outside.
KnownBadClasses == {"ioc", "ids-signature"}
Heuristics      == {"tls", "beacon", "volumetric"}
SignalClasses   == KnownBadClasses \cup Heuristics

KnownBadSignals(ev) == ({ev.class} \cup ev.signals) \cap KnownBadClasses

-----------------------------------------------------------------------------
DefaultPolicy == [
  AutoMinConfidence   |-> 90,
  AutoMinSeverity     |-> "critical",
  PendMinConfidence   |-> 50,
  PendMinSeverity     |-> "medium",
  DefaultAction       |-> "dns_sinkhole",
  AutoMinSignals      |-> 1,
  AutoRequireKnownBad |-> TRUE]

ValidValues == [
  AutoMinConfidence   |-> 0..100,
  AutoMinSeverity     |-> Severities,
  PendMinConfidence   |-> 0..100,
  PendMinSeverity     |-> Severities,
  DefaultAction       |-> ActionTypes,
  AutoMinSignals      |-> Nat \ {0},
  AutoRequireKnownBad |-> BOOLEAN]

\* An environment value that is missing or invalid leaves the default.
LoadFromEnv(env) ==
  [k \in DOMAIN DefaultPolicy |->
     IF k \in DOMAIN env /\ env[k] \in ValidValues[k] THEN env[k] ELSE DefaultPolicy[k]]

\* The addresses a list of allowlist entries protects; rejected entries protect none.
Protected(entries) ==
  UNION {IF e \in DOMAIN Ranges THEN Ranges[e] ELSE {Canonical[e]} \ {Unparseable} :
           e \in entries}

Contains(entries, client) ==
  client \in DOMAIN Canonical /\ Canonical[client] \in Protected(entries)

-----------------------------------------------------------------------------
SignalCount(ev) == Cardinality(ev.signals)

\* An event without composite metadata is a single signal and counts as corroborated.
Corroborated(p, ev) ==
  p.AutoMinSignals <= 1 \/ SignalCount(ev) = 0 \/ SignalCount(ev) >= p.AutoMinSignals

MayAutoBlock(p, ev) ==
  /\ p.AutoRequireKnownBad => KnownBadSignals(ev) # {}
  /\ Corroborated(p, ev)

Reaches(ev, conf, sev) ==
  ev.confidence >= conf /\ SeverityRank(ev.severity) >= SeverityRank(sev)

Evaluate(p, entries, ev) ==
  CASE Contains(entries, ev.client) -> "ignore"
    [] ~Contains(entries, ev.client) /\ Reaches(ev, p.AutoMinConfidence, p.AutoMinSeverity) ->
         IF MayAutoBlock(p, ev) THEN "auto_block" ELSE "pending"
    [] OTHER ->
         IF Reaches(ev, p.PendMinConfidence, p.PendMinSeverity) THEN "pending" ELSE "ignore"

\* Decisions by how far they reach into the network.
Strength(decision) ==
  CASE decision = "auto_block" -> 2 [] decision = "pending" -> 1 [] OTHER -> 0
=============================================================================
