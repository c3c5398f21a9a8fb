-------------------------------- MODULE Wire --------------------------------
(***************************************************************************)
(* The two drivers of crates/driver-claude and crates/driver-gemini as     *)
(* pure functions: the hook a name of the command line stands for, the     *)
(* event a name in the payload stands for, and the answer an output        *)
(* becomes.  What an output holds besides decision, halt flag and behavior *)
(* is the set of its other fields that are filled, its content; an answer  *)
(* carries some of them.  A flag that asks for nothing (clear_context set  *)
(* to false) counts as not filled.                                         *)
(***************************************************************************)
EXTENDS HookProtocol

Driver == {"claude", "gemini"}

(* ProtocolError::UnsupportedEvent *)
Unsupported == "unsupported"

-----------------------------------------------------------------------------
(* Names in, kinds out.                                                    *)

(* Gemini's own words for kinds the protocol names after Claude. *)
GeminiAlias == [BeforeTool  |-> "PreToolUse",
                AfterTool   |-> "PostToolUse",
                PreCompress |-> "PreCompact"]

(* Driver::hook_kind: what follows the driver on the command line.  Each   *)
(* driver also accepts every name of the protocol, its own or not.         *)
HookKindOf(driver, name) ==
  IF driver = "gemini" /\ name \in DOMAIN GeminiAlias THEN GeminiAlias[name]
  ELSE IF name \in HookKind THEN name
  ELSE Unsupported

ModelPhases == {"BeforeAgent", "AfterAgent", "BeforeModel", "AfterModel",
                "BeforeToolSelection"}

(* The kinds of event a driver can decode under the protocol's own name. *)
ClaudeEvents == HookKind \ ModelPhases

GeminiEvents == ModelPhases \cup {"SessionStart", "SessionEnd", "Notification"}

(* Driver::map_input: the hook_event_name of the payload. *)
EventKindOf(driver, name) ==
  IF driver = "gemini" /\ name \in DOMAIN GeminiAlias THEN GeminiAlias[name]
  ELSE IF name \in (IF driver = "claude" THEN ClaudeEvents ELSE GeminiEvents) THEN name
  ELSE Unsupported

(* The kinds of event a driver can decode. *)
Receivable(driver) ==
  IF driver = "claude" THEN ClaudeEvents
  ELSE GeminiEvents \cup {GeminiAlias[n] : n \in DOMAIN GeminiAlias}

-----------------------------------------------------------------------------
(* Outputs out.                                                            *)

(* Fault: reason() has the arms of exit_metadata. *)
ReasonKinds_LikeExit == ExitKinds

ReasonKinds == DecisionKinds \ {"Stop"}

(* Fault: the arm of PreToolUse is missing. *)
SystemMessageKinds_NoTool == {"SessionStart", "SessionEnd", "Notification",
                              "PreCompact", "InstructionsLoaded", "PostCompact"}

SystemMessageKinds == {"PreToolUse", "SessionStart", "SessionEnd", "Notification",
                       "PreCompact", "InstructionsLoaded", "PostCompact"}

(* The fields both drivers read through the accessors of HookOutputEvent. *)
TopLevel(kind) ==
  (IF kind \in ReasonKinds THEN {"reason"} ELSE {})
    \cup (IF kind \in SystemMessageKinds THEN {"system_message"} ELSE {})
    \cup (IF kind = "PostToolUse" THEN {"suppress_output"} ELSE {})

(* ClaudeHookSpecificOutput: the fields of its variant for a kind. *)
ClaudeSpecific(kind) ==
  CASE kind = "PreToolUse"     -> {"reason", "updated_input", "additional_context"}
    [] kind = "PostToolUse"    -> {"additional_context", "updated_tool_output"}
    [] kind = "SessionStart"   -> {"additional_context", "initial_user_message",
                                   "session_title", "watch_paths", "reload_skills"}
    [] kind \in {"UserPromptSubmit", "Setup", "Stop", "UserPromptExpansion",
                 "SubagentStart", "SubagentStop", "PermissionDenied"}
                               -> {"additional_context"}
    [] kind = "PermissionRequest" -> {"updated_input", "permission_rule_definition"}
    [] kind = "WorktreeCreate" -> {"worktree_path"}
    [] kind = "MessageDisplay" -> {"replacement_text"}
    [] kind = "Elicitation"    -> {"response"}
    [] OTHER                   -> {}

(* GeminiHookSpecificOutput: likewise. *)
GeminiSpecific(kind) ==
  CASE kind = "PreToolUse"   -> {"updated_input"}
    [] kind = "PostToolUse"  -> {"updated_tool_output"}
    [] kind = "AfterAgent"   -> {"clear_context"}
    [] kind = "BeforeModel"  -> {"llm_request", "llm_response"}
    [] kind = "AfterModel"   -> {"llm_response"}
    [] kind = "BeforeToolSelection" -> {"tool_config"}
    [] kind \in {"BeforeAgent", "SessionStart"} -> {"additional_context"}
    [] OTHER                 -> {}

(* `continue` is the negation of the halt flag. *)
Negated(flag) == IF flag = None THEN None ELSE IF flag = "true" THEN "false" ELSE "true"

(* ClaudeDriver::map_output.  permission stands for permissionDecision of a *)
(* PreToolUse answer and for the nested decision of a PermissionRequest,    *)
(* which is left out together with its content when there is no behavior.   *)
ClaudeWire(o, content) ==
  [ decision   |-> IF DecisionOf(o) \in {"Deny", "Block"} THEN "block" ELSE None,
    continue   |-> Negated(HaltOf(o)),
    permission |-> IF o.kind = "PreToolUse" THEN o.decision
                   ELSE IF o.kind = "PermissionRequest" THEN o.behavior
                   ELSE None,
    carried    |-> IF o.kind = "PermissionRequest" /\ o.behavior = None THEN {}
                   ELSE content \cap (TopLevel(o.kind) \cup ClaudeSpecific(o.kind)) ]

(* GeminiDriver::map_output *)
GeminiWire(o, content) ==
  [ decision   |-> DecisionOf(o),
    continue   |-> Negated(HaltOf(o)),
    permission |-> None,
    carried    |-> content \cap (TopLevel(o.kind) \cup GeminiSpecific(o.kind)) ]

(* Fault: Claude is told of a denial only where it has a word for it. *)
ToWire_DenyInPlace(driver, o, content) ==
  IF driver = "claude"
  THEN [ClaudeWire(o, content) EXCEPT !.decision = IF DecisionOf(o) = "Block" THEN "block" ELSE None]
  ELSE GeminiWire(o, content)

(* Driver::map_output *)
ToWire(driver, o, content) ==
  IF driver = "claude" THEN ClaudeWire(o, content) ELSE GeminiWire(o, content)

(* What an output refuses, read from its fields. *)
IsRefusal(o) == o.decision \in {"Deny", "Block"} \/ o.halt = "true" \/ o.behavior = "deny"

(* How the host reads an answer: it holds the action back on any of these,  *)
(* and lets it pass on an empty object.                                     *)
Refuses(wire) ==
  \/ wire.decision \in {"block", "Deny", "Block"}
  \/ wire.continue = "false"
  \/ wire.permission \in {"Deny", "Block", "deny"}

EmptyObject == [decision |-> None, continue |-> None, permission |-> None, carried |-> {}]
=============================================================================
