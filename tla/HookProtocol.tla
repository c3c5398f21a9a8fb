---------------------------- MODULE HookProtocol ----------------------------
(***************************************************************************)
(* The canonical hook vocabulary of crates/protocol: the hook kinds, which *)
(* optional fields each kind's output structure carries, and the accessors *)
(* of HookOutputEvent through which the engine and the drivers see an      *)
(* output.  An output is a record; a field its kind does not carry holds   *)
(* the value None.  Everything an output carries besides its decision,     *)
(* halt flag, permission behavior and exit code (reasons, messages,        *)
(* rewritten inputs, context) is one opaque value, its content.            *)
(***************************************************************************)
(* Option::None, for every optional field. *)
None == "none"

Decision == {"Allow", "Deny", "Ask", "Block"}
PermissionBehavior == {"allow", "deny"}

-----------------------------------------------------------------------------
(* The output structures.  A field is listed when the structure has it.    *)

(* Structures of the tool, agent and model phases. *)
PhaseOutputs ==
  [ PreToolUse  |-> {"decision", "reason", "updated_input", "additional_context",
                     "system_message", "halt", "exit_code"},
    PostToolUse |-> {"decision", "reason", "updated_tool_output", "additional_context",
                     "suppress_output", "halt", "exit_code"},
    BeforeAgent |-> {"decision", "reason", "additional_context", "halt", "exit_code"},
    AfterAgent  |-> {"decision", "reason", "clear_context", "halt", "exit_code"},
    BeforeModel |-> {"decision", "reason", "llm_request", "llm_response", "halt",
                     "exit_code"},
    AfterModel  |-> {"decision", "reason", "llm_response", "halt", "exit_code"},
    BeforeToolSelection |-> {"tool_config"} ]

(* Structures of the session, notification and workspace hooks. *)
SessionOutputs ==
  [ SessionStart |-> {"additional_context", "system_message", "persist_env",
                      "initial_user_message", "session_title", "watch_paths",
                      "reload_skills"},
    SessionEnd   |-> {"system_message"},
    Notification |-> {"system_message"},
    PreCompact   |-> {"system_message", "decision", "reason", "exit_code"},
    PostCompact  |-> {"system_message"},
    CwdChanged   |-> {"persist_env", "watch_paths"},
    FileChanged  |-> {"persist_env", "watch_paths"},
    InstructionsLoaded |-> {"system_message"},
    UserPromptSubmit   |-> {"additional_context", "decision", "reason"},
    WorktreeCreate     |-> {"worktree_path"},
    WorktreeRemove     |-> {},
    Setup              |-> {"additional_context"} ]

(* Structures of the permission, sub-agent, task and elicitation hooks. *)
AgentOutputs ==
  [ UserPromptExpansion |-> {"decision", "reason", "additional_context"},
    MessageDisplay      |-> {"replacement_text"},
    PermissionRequest   |-> {"behavior", "updated_input", "permission_rule_definition"},
    PostToolUseFailure  |-> {"decision", "reason"},
    PostToolBatch       |-> {"decision", "reason"},
    PermissionDenied    |-> {"additional_context"},
    SubagentStart       |-> {"additional_context"},
    SubagentStop        |-> {"decision", "reason", "additional_context"},
    TaskCreated         |-> {"decision", "reason"},
    TaskCompleted       |-> {"decision", "reason"},
    Stop                |-> {"decision", "additional_context"},
    StopFailure         |-> {},
    TeammateIdle        |-> {"decision", "reason"},
    ConfigChange        |-> {"decision", "reason"},
    Elicitation         |-> {"response"},
    ElicitationResult   |-> {} ]

HookKind == DOMAIN PhaseOutputs \cup DOMAIN SessionOutputs \cup DOMAIN AgentOutputs

OutputFields ==
  [k \in HookKind |-> IF k \in DOMAIN PhaseOutputs THEN PhaseOutputs[k]
                      ELSE IF k \in DOMAIN SessionOutputs THEN SessionOutputs[k]
                      ELSE AgentOutputs[k]]

Carrying(field) == {k \in HookKind : field \in OutputFields[k]}

-----------------------------------------------------------------------------
(* The accessors.  Each is a match over the variants it names, with `_` for *)
(* the rest, so a variant missing from an arm reads as None whatever its    *)
(* structure holds.                                                         *)

DecisionKinds ==
  {"PreToolUse", "PostToolUse", "BeforeAgent", "AfterAgent", "BeforeModel", "AfterModel",
   "PreCompact", "UserPromptSubmit", "PostToolUseFailure", "PostToolBatch", "ConfigChange",
   "Stop", "UserPromptExpansion", "SubagentStop", "TaskCreated", "TaskCompleted",
   "TeammateIdle"}

HaltKinds ==
  {"PreToolUse", "PostToolUse", "BeforeAgent", "AfterAgent", "BeforeModel", "AfterModel"}

ExitKinds == HaltKinds \cup {"PreCompact"}

DecisionOf(o) == IF o.kind \in DecisionKinds THEN o.decision ELSE None

HaltOf(o) == IF o.kind \in HaltKinds THEN o.halt ELSE None

ExitCodeOf(o) == IF o.kind \in ExitKinds THEN o.exit_code ELSE None

SetDecision(o, d) == IF o.kind \in DecisionKinds THEN [o EXCEPT !.decision = d] ELSE o

(* HookInputEvent::tool_name: the events that name a tool. *)
ToolKinds ==
  {"PreToolUse", "PostToolUse", "PermissionRequest", "PostToolUseFailure",
   "PermissionDenied"}

ToolNameOf(kind, tool) == IF kind \in ToolKinds THEN tool ELSE None
=============================================================================
