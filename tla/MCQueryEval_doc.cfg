SPECIFICATION Spec
CONSTANTS
  Terms <- MCTerms
  Texts <- MCTexts
  Nodes <- MCNodes
  Queries <- DocQueries
  MaxDocs = 1
  MaxCalls = 1
INVARIANT
  EvalIsAlwaysScan
