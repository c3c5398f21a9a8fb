---------------------------- MODULE MCInvocation ----------------------------
(***************************************************************************)
(* Both hosts' words for the two tool events and a session event, in every *)
(* combination on the command line and in the payload, right or wrong.     *)
(***************************************************************************)
EXTENDS Invocation

MCHooks == {"PreToolUse", "BeforeTool", "PostToolUse", "AfterTool", "SessionStart", "NoSuchHook"}

MCTools == {"Bash", "Read", "Write", "Task"}
=============================================================================
