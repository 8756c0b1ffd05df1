SPECIFICATION FairSpec
CONSTANTS
  printer = printer
  private1 = private1
  private2 = private2
  phone = phone
  lan1 = lan1
  NoRow = NoRow
  NoInfo = NoInfo
  Macs = {printer, private1, private2}
  RandomizedMacs = {private1, private2}
  Ips = {lan1}
  Names = {phone}
  VendorClasses = {"vendor"}
  Infos <- MCInfos
  LegacyRows <- MCLegacy
  Retention = 0
  QueueDepth = 1
  BatchSize = 2
  MaxTime = 1
  MaxSightings = 3
  MaxRestarts = 1
INVARIANT TypeOK
INVARIANT StableIdsUnique
PROPERTY KnownDevicesStay
PROPERTY WritesEventsOnce
CHECK_DEADLOCK FALSE
