CONSTANT Scripts <- MCScripts
SPECIFICATION Spec
INVARIANTS
  WordsAccounted
  SpansNest
  EachCommandOnce
  FlowsFollowed
  RoundTrips
CHECK_DEADLOCK FALSE
