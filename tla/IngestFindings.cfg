SPECIFICATION Spec
CONSTANTS
  ext = ext
  d1 = d1
  Observations <- MCTwoFindings
  Malformed = Malformed
  Addresses = {ext}
  Local = {}
  Domains = {d1}
  Limit = 3
  LogBatch = 1
  DnsTTL = 1
  SuppressWindow = 2
  MaxSuppressed = 1
  MaxLag = 0
  MaxTime = 4
  MaxRows = 3
  MaxLog = 0
  MaxFaults = 1
  None = None
PROPERTY FindingsNotRepeated
CHECK_DEADLOCK FALSE
