CONSTANTS
  Texts <- MCTexts
  Start <- MCStart
  Lexers <- MCLexers
  TokenAt <- MCLex
  HeredocOperators <- MCHeredocOperators
  StrippingOperators <- MCStrippingOperators
  Claim <- MCClaim
  BytesLeft <- MCRemaining
  MaxMarks = 2
SPECIFICATION Spec
INVARIANTS
  EndIsExplained
  SpansAreOrdered
  ReadOnce
PROPERTIES
  IsCursor
  PeekKeepsPlace
