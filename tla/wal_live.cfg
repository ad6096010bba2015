SPECIFICATION FairSpec
CONSTANTS
  r1 = r1
  r2 = r2
  r3 = r3
  k1 = k1
  k2 = k2
  v1 = v1
  v2 = v2
  Absent = Absent
  Requests = {r1, r2}
  Keys = {k1, k2}
  Values = {v1, v2}
  Op <- MCOp
  Oversize = {r2}
  FlushBatchSize = 1
  IsMaster = FALSE
  Faults = {"crash", "cancel", "io"}
  MaxCrashes = 2
PROPERTIES   EveryWriteSettles
CHECK_DEADLOCK FALSE
