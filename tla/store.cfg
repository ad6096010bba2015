SPECIFICATION FairSpec
CONSTANTS
  g1 = g1
  g2 = g2
  k1 = k1
  k2 = k2
  k3 = k3
  v1 = v1
  Callers = {g1, g2}
  Keys = {k1, k2, k3}
  Values = {v1}
  Absent = Absent
  Empty = Empty
  NoCaller = NoCaller
  NumShards = 2
  Hash <- MCHash
INVARIANTS RaceFree
PROPERTIES ImplementsKVStore EveryCallReturns
