SPECIFICATION FairSpec
CONSTANTS
  None = None
  Lsns = {1, 2, 3}
  Size <- MCSize
  MaxSegmentSize = 5
  MaxBatch = 3
  Nodes <- MCNodes
  MaxCrashes = 2
INVARIANTS TypeOK SegmentBound  ReadIsSuffix
PROPERTIES RestoreComplete ImplementsAppendLog IndexCatchesUp
CHECK_DEADLOCK FALSE
