SPECIFICATION FairSpec
CONSTANTS
  laptop = laptop
  camera = camera
  router = router
  domainX = domainX
  domainY = domainY
  s1 = s1
  s2 = s2
  Indicators = {domainX, domainY}
  Clients = {laptop, camera}
  Anywhere = Anywhere
  TTL = 5
  MaxSuppressions = 2
  ClickHouseFails = FALSE
  MaxVerdicts = 0
  MaxTime = 3
  Window = 1
  MaxTracked = 1
  MinEmit = 50
  NoSignal = NoSignal
  Canonical <- MCCanonical
  Ranges <- MCRanges
  Unparseable = Unparseable
  Sources = {s1, s2}
  Alerts <- MCAlerts4
  Env <- MCEnv
  Allowlist <- MCAllowlist
  QueueSize = 1
  Retries = 1
  Failures = {"lost","refused","rejected"}
  MaxRaised = 3
  MaxRestarts = 0
  NoEvent = NoEvent
INVARIANT TypeOK
INVARIANT AutoBlockIsAttested
PROPERTY CorroborationNeverWeakens
PROPERTY QueueIsDrained
CHECK_DEADLOCK FALSE
