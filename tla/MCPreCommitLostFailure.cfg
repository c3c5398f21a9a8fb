CONSTANTS
  Procs = {p1}
  Texts <- MCTexts
  Edits = {"raw"}
  Configs <- MCConfigs
  Effect <- MCEffect
  Requests = {"ready"}
SPECIFICATION Spec
INVARIANT EveryFailureHasABlock
CHECK_DEADLOCK FALSE
