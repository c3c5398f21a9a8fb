CONSTANTS
  CommandHooks <- MCHooks
  EventNames <- MCHooks
  EventTools <- MCTools
  Files = {"flake.lock", "main.rs"}
SPECIFICATION Spec
INVARIANT ReportReachesAgent
CHECK_DEADLOCK FALSE
