CONSTANTS
  Corpora <- MCCorpora
  Trees <- MCTrees
  Fold <- MCFold
  Axes = {"trust", "exposure"}
  Unset = Unset
  Cases <- MCCases
SPECIFICATION Spec
\* Each of the three programs comes to its end.
CHECK_DEADLOCK FALSE
INVARIANTS
  ReadsWhatIsWritten
  EveryCaseTested
  TableIsDetermined
  TableAnswersOnce
  RatingIsOrderFree
