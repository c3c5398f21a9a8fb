CONSTANTS
  Stages <- MCStages
  Hook <- MCHook
  ToolNames <- MCToolNames
  Replies <- MCReplies
  Tools = {"Bash", "Read"}
  RequestKinds = {"PreToolUse", "PermissionRequest", "SessionStart"}
SPECIFICATION Spec
INVARIANTS
  TypeOK
  RefusalStands
  DecisionsCombine
  NoStageSilenced
  LastOutputWins
PROPERTY ImplementsVerdict
CHECK_DEADLOCK FALSE
