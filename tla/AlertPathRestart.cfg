SPECIFICATION Spec
CONSTANTS
  laptop = laptop
  camera = camera
  router = router
  domainX = domainX
  domainY = domainY
  s1 = s1
  s2 = s2
  Indicators = {domainY}
  Clients = {laptop}
  Anywhere = Anywhere
  TTL = 1
  MaxSuppressions = 1
  ClickHouseFails = TRUE
  MaxVerdicts = 2
  MaxTime = 3
  Window = 1
  MaxTracked = 2
  MinEmit = 50
  NoSignal = NoSignal
  Canonical <- MCCanonical
  Ranges <- MCRanges
  Unparseable = Unparseable
  Sources = {s1}
  Alerts <- MCAlertsY
  Env <- MCEnv
  Allowlist <- MCAllowlist
  QueueSize = 1
  Retries = 0
  Failures = {}
  MaxRaised = 2
  MaxRestarts = 1
  NoEvent = NoEvent
INVARIANT VerdictsGovern
INVARIANT SilencedIsNotSent
CHECK_DEADLOCK FALSE
VIEW RestartView
