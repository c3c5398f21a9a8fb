SPECIFICATION Spec
INVARIANTS
  RefusalSurvives
  ContentReachesClaude
CHECK_DEADLOCK FALSE
