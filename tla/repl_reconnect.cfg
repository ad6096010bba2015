SPECIFICATION DeadlineSpec
CONSTANTS
  k1 = k1
  k2 = k2
  KeyOf <- MCKeyOf
  Writers = 1
  MaxLsn = 2
  Faults = {"deadline"}
  MaxFaults = 0
PROPERTY PollsForever
