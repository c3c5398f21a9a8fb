CONSTANTS
  Procs = {p1, p2}
  Texts <- MCTexts
  Edits = {"raw", "half", "clean"}
  Configs <- MCConfigs
  Effect <- MCEffect
  Requests = {"bad_input", "no_config", "ready"}
SPECIFICATION Spec
INVARIANTS
  NetDiffExact
  AttributionExact
  FailuresReported
  SomeoneReports
PROPERTY EveryRunEnds
CHECK_DEADLOCK FALSE
