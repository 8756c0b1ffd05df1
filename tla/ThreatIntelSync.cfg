SPECIFICATION FairSpec
CONSTANTS
  misp = misp
  threatfox = threatfox
  spamhaus = spamhaus
  evil = evil
  Feeds <- MCFeeds
  Confidence <- MCConfidence
  Dates <- MCDates
  Reliable = {threatfox}
  Indicators = {evil}
  StoreAccepts = {evil}
  MatcherAccepts = {evil}
  Static = {}
  TTL = 1
  MaxTime = 4
  MaxEdits = 2
  MaxRestarts = 1
  None = None
INVARIANT TypeOK
INVARIANT FreshIntelOutlivesOutages
PROPERTY AssertedIsMatched
PROPERTY StaleIntelLeaves
CHECK_DEADLOCK FALSE
