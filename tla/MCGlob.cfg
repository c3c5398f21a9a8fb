CONSTANTS
  Alphabet <- MCGlobAlphabet
  ClassLetters = {"a"}
  MaxPattern = 5
  MaxPath = 3
SPECIFICATION SpecGlob
INVARIANTS
  PrefilterLosesNothing
  ExactIsLiteral
CHECK_DEADLOCK FALSE
