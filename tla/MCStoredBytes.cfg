SPECIFICATION StorageSpec
CONSTANTS
  ByteBits = 5
  BlockSize = 3
  MaxExceptions = 1
  Streams <- MCStreams
  PostingLists <- MCPostingLists
  KeyLists <- MCKeyLists
  Indexes <- MCIndexes
  encode <- encodePostings
  decode <- decodePostings
  LookedUp <- MCLookedUp
  MaxName = 2
  MaxSaves = 2
INVARIANTS
  ComesBack
  CutRefused
  OpenedIsWhole
  LookupsExact
CHECK_DEADLOCK FALSE
