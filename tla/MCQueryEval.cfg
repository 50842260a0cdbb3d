SPECIFICATION Spec
CONSTANTS
  Terms <- MCTerms
  Texts <- MCTexts
  Nodes <- MCNodes
  Queries <- MCQueries
  MaxDocs = 2
  MaxCalls = 2
INVARIANTS
  EvalIsScan
  WarnedAnswersExact
  AnswersStay
  IndexIsExact
