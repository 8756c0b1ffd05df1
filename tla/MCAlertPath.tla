----------------------------- MODULE MCAlertPath -----------------------------
(***************************************************************************)
(* Instances of AlertPath for TLC: two devices, an indicator a heuristic   *)
(* found and one that a feed accuses, with much confidence or with little. *)
(***************************************************************************)
EXTENDS AlertPath, TLC

CONSTANTS laptop, camera, router, domainX, domainY, s1, s2

Alert(client, ioc, class, confidence, severity) ==
  [client |-> client, ioc |-> ioc, class |-> class, confidence |-> confidence,
   severity |-> severity]

\* ml-anomaly scores a beacon 75 at most; feeds and signatures go up to 95.
Beaconing  == Alert(laptop, domainX, "beacon", 75, "high")
BeaconingY == Alert(laptop, domainY, "beacon", 75, "high")
Match      == Alert(laptop, domainY, "ioc", 70, "high")
SureMatch  == Alert(laptop, domainY, "ioc", 95, "critical")
WeakMatch  == Alert(laptop, domainY, "ioc", 40, "low")
OtherMatch == Alert(camera, domainY, "ids-signature", 95, "critical")

MCAlerts4 == {Beaconing, SureMatch, WeakMatch, OtherMatch}
MCAlertsY == {BeaconingY, Match}

\* Settings of the controller: POLICY_AUTO_MIN_SIGNALS=2 and an invalid threshold.
MCEnv == [AutoMinSignals |-> 2, AutoMinConfidence |-> 900]

\* Entries of the allowlist: another spelling of an address, a range, a typo.
MCCanonical == [c \in {laptop, camera, router, "router-mapped", "typo"} |->
  CASE c = "router-mapped" -> router [] c = "typo" -> Unparseable [] OTHER -> c]
MCRanges    == [e \in {"infra-range"} |-> {camera}]
MCAllowlist == {"router-mapped", "infra-range", "typo"}

\* The state without the histories that no guard and neither of the properties
\* of the restart run reads.
RestartView == <<now, feedbackVars, signals, step, work, queue, sending, raised, restarts>>

SourceSymmetry == Permutations(Sources)
=============================================================================
