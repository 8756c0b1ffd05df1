SPECIFICATION Spec
CONSTANTS
  h1 = h1
  h2 = h2
  c2 = c2
  phish = phish
  tunnel = tunnel
  TTL = TTL
  NoTarget = NoTarget
  NoAction = NoAction
  Handlers = {h1}
  ActionIds <- MCIds1
  MaxActions = 2
  Targets = {c2}
  PlainHostnames = {c2}
  Events = {"c2Match"}
  Decision <- MCDecision
  DomainOf <- MCDomainOf
  AutoBlockAllowed = TRUE
  InitialRules = {}
  ApplyFailures = {}
  RevertFailures = {"refused"}
  TTLFailures = {}
  StuckTargets = {}
  MaxCrashes = 0
INVARIANT RevertedIsLifted
CHECK_DEADLOCK FALSE
