SPECIFICATION FairSpec
CONSTANTS
  k1 = k1
  k2 = k2
  k3 = k3
  Procs = {p1, p2}
  Keys = {k1, k2}
  Vals = {0}
  Merged <- MCMerged
  Ops = {"Put", "Get", "Merge", "Clear", "Size", "Range"}
  NoKey = NoKey
  NoVal = NoVal
  Tables = {2, 4}
  InitBuckets = 2
  MaxBuckets = 4
  Hash <- MCHash
  LoadNum = 1
  LoadDen = 4
  NoProc = NoProc
INVARIANT
  TypeOK
PROPERTIES
  EveryCallReturns
  OverloadEnds
