SPECIFICATION Spec
CONSTANTS
  k1 = k1
  k2 = k2
  KeyOf <- MCKeyOf
  Writers = 2
  MaxLsn = 3
  Faults = {}
  MaxFaults = 0
INVARIANT NoRowSkipped
