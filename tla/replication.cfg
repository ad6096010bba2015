SPECIFICATION FairSpec
CONSTANTS
  k1 = k1
  k2 = k2
  KeyOf <- MCKeyOf
  Writers = 1
  MaxLsn = 5
  Faults = {"master", "slave", "deadline", "read", "write"}
  MaxFaults = 3
INVARIANTS TypeOK NoRowSkipped  
PROPERTIES NoNewLogsHonest 
CHECK_DEADLOCK FALSE
