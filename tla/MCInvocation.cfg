CONSTANTS
  CommandHooks <- MCHooks
  EventNames <- MCHooks
  EventTools <- MCTools
  Files = {"flake.lock", "main.rs"}
SPECIFICATION Spec
INVARIANTS
  GuardedIsRefused
  NoStrayRefusal
  MismatchIsHarmless
  RtkArrives
PROPERTY EveryInvocationAnswered
CHECK_DEADLOCK FALSE
