SPECIFICATION Spec
CONSTANTS
  k1 = k1
  k2 = k2
  k3 = k3
  Procs = {p1, p2, p3}
  Keys = {k1, k3}
  Vals = {0}
  Merged <- MCMerged
  Ops = {"Put", "Get", "Clear"}
  NoKey = NoKey
  NoVal = NoVal
  Tables = {2, 4, 8}
  InitBuckets = 2
  MaxBuckets = 8
  Hash <- MCHash
  LoadNum = 1
  LoadDen = 4
  NoProc = NoProc
SYMMETRY ProcSymmetry
INVARIANTS
  Exclusion
  CheckedTableIsCurrent
  OnlyCurrentTableLinked
  LoadIsPaidFor
PROPERTY
  GrowsUnderAllLocks
