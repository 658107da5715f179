CONSTANTS
  Trees <- MCTrees
  Depth <- MCDepth
  Statements <- MCStatements
  WordsOf <- MCWordsOf
  NoMatch = NoMatch
  None = None

SPECIFICATION Spec
INVARIANTS BuiltAsWritten OwnedOnce DownOnlyOnFaults
