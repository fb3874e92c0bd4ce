SPECIFICATION FairSpec
CONSTANTS
  d1 = d1
  d2 = d2
  Db = {d1, d2}
  kQueueCapacity = 2
  kMaxRowsPerTxn = 3
  MaxBatch = 2
  MaxRows = 4
  MaxSwaps = 2
INVARIANTS
  RowsAccounted
PROPERTIES
  ReadersFollow
  RowsSettle
