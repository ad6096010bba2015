SPECIFICATION FairSpec
CONSTANTS
  c1 = c1
  c2 = c2
  Clients = {c1, c2}
  Console = console
  None = None
  MaxConn = 1
  Loads <- MCLoads
  MaxFaults = 1
  Faults = {"listen", "accept", "deadline", "panic"}
INVARIANTS
  TypeOK
  SlotsExact
  LinesInOrder
PROPERTIES
  BacklogMoves
  ConnectionEnds
CHECK_DEADLOCK FALSE
