SPECIFICATION Spec
CONSTANTS
  h1 = h1
  h2 = h2
  c2 = c2
  phish = phish
  tunnel = tunnel
  TTL = TTL
  NoTarget = NoTarget
  NoAction = NoAction
  Handlers = {h1, h2}
  ActionIds <- MCIds2
  MaxActions = 1
  Targets = {c2, phish}
  PlainHostnames = {c2, phish}
  Events = {"c2Match", "phishHit"}
  Decision <- MCDecision
  DomainOf <- MCDomainOf
  AutoBlockAllowed = TRUE
  InitialRules = {}
  ApplyFailures = {"refused", "lost"}
  RevertFailures = {"refused", "lost"}
  TTLFailures = {"refused", "lost"}
  StuckTargets = {}
  MaxCrashes = 1
SYMMETRY HandlerSymmetry
INVARIANT TypeOK
INVARIANT EveryBlockIsAuthorised
INVARIANT UndecidedNeverEnforced
INVARIANT ApprovedIsInHand
INVARIANT CleanlyRevertedIsLifted
INVARIANT SoleActiveIsEnforced
PROPERTY ImplementsLifecycle
CHECK_DEADLOCK FALSE
