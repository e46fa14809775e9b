SPECIFICATION Spec
CONSTANTS
  BodyUnits = 9
  DocUnits = 12
  MaxDepth = 3
  MaxKeys = 3
  MaxName = 8
  MaxEntries = 3
  MaxFetches = 1
  QueryBatch = 2
INVARIANTS ScanStaysHome NothingReadIsLost BodiesShareOneAllowance
CHECK_DEADLOCK FALSE
