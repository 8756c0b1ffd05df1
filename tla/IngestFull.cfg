SPECIFICATION FairSpec
CONSTANTS
  ext = ext
  d1 = d1
  Observations <- MCObservations
  Malformed = Malformed
  Addresses = {ext}
  Local = {}
  Domains = {d1}
  Limit = 2
  LogBatch = 2
  DnsTTL = 1
  SuppressWindow = 1
  MaxSuppressed = 1
  MaxLag = 1
  MaxTime = 2
  MaxRows = 3
  MaxLog = 3
  MaxFaults = 1
  None = None
INVARIANT TypeOK
INVARIANT RowsTakenOnce
INVARIANT PunctualRowsAhead
INVARIANT QueriesCheckedOnce
INVARIANT LossIsCounted
PROPERTY PunctualRowsArrive
CHECK_DEADLOCK FALSE
