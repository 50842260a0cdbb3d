SPECIFICATION Spec
CONSTANTS
  Procs = {p1, p2}
  Keys = {k1, k2}
  Vals = {0, 1}
  Merged <- MCMerged
  Ops = {"Put", "Get", "Merge", "Clear", "Size", "Range"}
  NoKey = NoKey
  NoVal = NoVal
  NoProc = NoProc
SYMMETRY ProcSymmetry
INVARIANT
  RangeIsSnapshot
PROPERTY
  Linearizable
