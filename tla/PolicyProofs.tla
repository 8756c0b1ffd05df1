---------------------------- MODULE PolicyProofs ----------------------------
(***************************************************************************)
(* What the enforcement policy guarantees for every setting of it and for  *)
(* every event, whatever the allowlist holds.                              *)
(***************************************************************************)
EXTENDS Policy, TLAPS

\* The settings LoadFromEnv can return.
Policies ==
  [AutoMinConfidence : 0..100, AutoMinSeverity : Severities, PendMinConfidence : 0..100,
   PendMinSeverity : Severities, DefaultAction : ActionTypes, AutoMinSignals : Nat \ {0},
   AutoRequireKnownBad : BOOLEAN]

\* The ranks order the severities, and nothing else has one.
LEMMA SeverityRankType == ASSUME NEW s PROVE SeverityRank(s) \in 0..4
  BY DEF SeverityRank

\* More confidence and more severity reach every threshold that less does.
LEMMA ReachesMonotone ==
  ASSUME NEW e, NEW f, NEW conf \in Int, NEW sev,
         e.confidence \in Int, f.confidence \in Int,
         e.confidence <= f.confidence,
         SeverityRank(e.severity) <= SeverityRank(f.severity),
         Reaches(e, conf, sev)
  PROVE  Reaches(f, conf, sev)
  BY SeverityRankType DEF Reaches

\* Whatever the environment holds, the controller runs with valid settings
\* (policy.go's LoadFromEnv keeps the default for anything it cannot parse).
THEOREM LoadFromEnvIsValid == ASSUME NEW env PROVE LoadFromEnv(env) \in Policies
<1> DEFINE p == LoadFromEnv(env)
<1>1. DOMAIN DefaultPolicy = {"AutoMinConfidence", "AutoMinSeverity", "PendMinConfidence",
        "PendMinSeverity", "DefaultAction", "AutoMinSignals", "AutoRequireKnownBad"}
  BY DEF DefaultPolicy
<1>2. p = [k \in DOMAIN DefaultPolicy |-> p[k]]
  BY DEF LoadFromEnv
<1>3. p.AutoMinConfidence \in 0..100 /\ p.PendMinConfidence \in 0..100
  BY <1>1 DEF LoadFromEnv, DefaultPolicy, ValidValues
<1>4. p.AutoMinSeverity \in Severities /\ p.PendMinSeverity \in Severities
  BY <1>1 DEF LoadFromEnv, DefaultPolicy, ValidValues, Severities
<1>5. p.DefaultAction \in ActionTypes
  BY <1>1 DEF LoadFromEnv, DefaultPolicy, ValidValues, ActionTypes
<1>6. p.AutoMinSignals \in Nat \ {0}
  BY <1>1 DEF LoadFromEnv, DefaultPolicy, ValidValues
<1>7. p.AutoRequireKnownBad \in BOOLEAN
  <2>1. ValidValues["AutoRequireKnownBad"] = BOOLEAN
    BY DEF ValidValues
  <2>2. DefaultPolicy["AutoRequireKnownBad"] \in BOOLEAN
    BY Zenon DEF DefaultPolicy
  <2>3. p["AutoRequireKnownBad"] =
          IF /\ "AutoRequireKnownBad" \in DOMAIN env
             /\ env["AutoRequireKnownBad"] \in ValidValues["AutoRequireKnownBad"]
          THEN env["AutoRequireKnownBad"] ELSE DefaultPolicy["AutoRequireKnownBad"]
    BY <1>1, Zenon DEF LoadFromEnv
  <2>4. QED
    BY <2>1, <2>2, <2>3, Zenon
<1>8. QED
  BY <1>1, <1>2, <1>3, <1>4, <1>5, <1>6, <1>7 DEF Policies

\* With every setting, an event about the same client that carries the same
\* signals, at least the confidence and at least the severity, is never taken
\* less seriously (policy.go's Evaluate; the gates must not turn a stronger
\* event into a weaker decision).
THEOREM EvaluateMonotone ==
  ASSUME NEW p \in Policies, NEW entries, NEW e, NEW f,
         e.confidence \in Int, f.confidence \in Int,
         f.client = e.client, f.class = e.class, f.signals = e.signals,
         e.confidence <= f.confidence,
         SeverityRank(e.severity) <= SeverityRank(f.severity)
  PROVE  Strength(Evaluate(p, entries, e)) <= Strength(Evaluate(p, entries, f))
<1> DEFINE auto(x) == Reaches(x, p.AutoMinConfidence, p.AutoMinSeverity)
           pend(x) == Reaches(x, p.PendMinConfidence, p.PendMinSeverity)
<1>1. p.AutoMinConfidence \in Int /\ p.PendMinConfidence \in Int
  BY DEF Policies
<1>2. (auto(e) => auto(f)) /\ (pend(e) => pend(f))
  BY <1>1, ReachesMonotone
<1>3. MayAutoBlock(p, e) <=> MayAutoBlock(p, f)
  BY DEF MayAutoBlock, KnownBadSignals, Corroborated, SignalCount
<1>4. Contains(entries, e.client) <=> Contains(entries, f.client)
  OBVIOUS
<1>5. CASE Contains(entries, e.client)
  BY <1>4, <1>5 DEF Evaluate, Strength
<1>6. CASE ~Contains(entries, e.client)
  BY <1>2, <1>3, <1>4, <1>6 DEF Evaluate, Strength
<1>7. QED
  BY <1>5, <1>6
=============================================================================
