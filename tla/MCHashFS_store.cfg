SPECIFICATION FairSpec
CONSTANTS
  k1 = k1
  k2 = k2
  k3 = k3
  short = short
  long = long
  huge = huge
  Keys = {k1, k3}
  Vals = {short, long, huge}
  TooLarge = {huge}
  NoKey = NoKey
  NoVal = NoVal
  Ok = Ok
  Missing = Missing
  Err = Err
  Hash <- MCHash
  Size <- MCSize
  HeaderSize = 1
  PageSize = 1
  OpenCounts = {1, 2}
  Capacity = 5
  StopPCs <- AfterFormat
INVARIANTS
  ChainsWhole
  ChainsDescend
PROPERTIES
  LinkedRecordsKept
  Durable
  CallsReturn
