SPECIFICATION Spec
CONSTANTS
  Base = 4
  LsnWidth = 1
  CountWidth = 1
  LenWidth = 2
  Space = 0
  SET <- MCSET
  GET <- MCGET
  DEL <- MCDEL
  Inputs <- MCInputs
  BufSize = 4
  Faults = {"torn", "io"}
INVARIANTS  RowsReadBack RestoredOffsets 
CHECK_DEADLOCK FALSE
