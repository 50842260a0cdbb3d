SPECIFICATION LoopSpec
CONSTANTS
  Lists <- MCLists
  Distances = {0, 1, 3}
  Documents <- MCDocuments
  TermLists <- MCTermLists
  Widths <- MCWidths
  Lines <- MCLines
  IntBits = 4
INVARIANTS
  Correct
  ScanCorrect
  WindowCorrect
  FrontsApart
  NothingMissed
  ParsesTheGrammar
PROPERTY
  Returns
