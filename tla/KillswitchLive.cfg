SPECIFICATION FairSpec
CONSTANTS
  h1 = h1
  h2 = h2
  c2 = c2
  phish = phish
  tunnel = tunnel
  TTL = TTL
  NoTarget = NoTarget
  NoAction = NoAction
  Handlers = {h1}
  ActionIds <- MCIds3
  MaxActions = 2
  Targets = {c2, phish}
  PlainHostnames = {c2, phish}
  Events = {"c2Match", "phishHit"}
  Decision <- MCDecision
  DomainOf <- MCDomainOf
  AutoBlockAllowed = FALSE
  InitialRules = {phish}
  ApplyFailures = {"refused"}
  RevertFailures = {}
  TTLFailures = {"refused"}
  StuckTargets = {c2}
  MaxCrashes = 0
PROPERTY EvictsOldestTerminal
PROPERTY ExpiredIsReverted
CHECK_DEADLOCK FALSE
