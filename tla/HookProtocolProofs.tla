------------------------- MODULE HookProtocolProofs -------------------------
(***************************************************************************)
(* The accessors of HookOutputEvent against the structures they read: an   *)
(* arm forgotten under `_ => None` would make a stage's decision or halt   *)
(* invisible to the pipeline, whatever the stage answered.                 *)
(***************************************************************************)
EXTENDS HookProtocol, TLAPS

LEMMA AgentKinds ==
  DOMAIN AgentOutputs =
    {"UserPromptExpansion", "MessageDisplay", "PermissionRequest", "PostToolUseFailure",
     "PostToolBatch", "PermissionDenied", "SubagentStart", "SubagentStop", "TaskCreated",
     "TaskCompleted", "Stop", "StopFailure", "TeammateIdle", "ConfigChange", "Elicitation",
     "ElicitationResult"}
  BY DEF AgentOutputs

(* The agent table, one kind at a time. *)
LEMMA AgentFields ==
  \A k \in DOMAIN AgentOutputs :
    /\ "decision" \in AgentOutputs[k] <=> k \in DecisionKinds
    /\ "halt" \notin AgentOutputs[k] /\ "exit_code" \notin AgentOutputs[k]
    /\ "behavior" \in AgentOutputs[k] <=> k = "PermissionRequest"
<1> DEFINE P(k) ==
      /\ "decision" \in AgentOutputs[k] <=> k \in DecisionKinds
      /\ "halt" \notin AgentOutputs[k] /\ "exit_code" \notin AgentOutputs[k]
      /\ "behavior" \in AgentOutputs[k] <=> k = "PermissionRequest"
<1>1. /\ P("UserPromptExpansion") /\ P("MessageDisplay") /\ P("PermissionRequest")
      /\ P("PostToolUseFailure") /\ P("PostToolBatch") /\ P("PermissionDenied")
  BY DEF AgentOutputs, DecisionKinds
<1>2. /\ P("SubagentStart") /\ P("SubagentStop") /\ P("TaskCreated")
      /\ P("TaskCompleted") /\ P("Stop") /\ P("StopFailure")
  BY DEF AgentOutputs, DecisionKinds
<1>3. P("TeammateIdle") /\ P("ConfigChange") /\ P("Elicitation") /\ P("ElicitationResult")
  BY DEF AgentOutputs, DecisionKinds
<1> QED BY <1>1, <1>2, <1>3, AgentKinds

LEMMA SessionKinds ==
  DOMAIN SessionOutputs =
    {"SessionStart", "SessionEnd", "Notification", "PreCompact", "PostCompact", "CwdChanged",
     "FileChanged", "InstructionsLoaded", "UserPromptSubmit", "WorktreeCreate",
     "WorktreeRemove", "Setup"}
  BY DEF SessionOutputs

LEMMA SessionFields ==
  \A k \in DOMAIN SessionOutputs :
    /\ "decision" \in SessionOutputs[k] <=> k \in DecisionKinds
    /\ "halt" \notin SessionOutputs[k]
    /\ "exit_code" \in SessionOutputs[k] <=> k = "PreCompact"
    /\ "behavior" \notin SessionOutputs[k] /\ k # "PermissionRequest" /\ k \notin HaltKinds
<1> DEFINE P(k) ==
      /\ "decision" \in SessionOutputs[k] <=> k \in DecisionKinds
      /\ "halt" \notin SessionOutputs[k]
      /\ "exit_code" \in SessionOutputs[k] <=> k = "PreCompact"
      /\ "behavior" \notin SessionOutputs[k]
<1>1. /\ P("SessionStart") /\ P("SessionEnd") /\ P("Notification")
      /\ P("PreCompact") /\ P("PostCompact") /\ P("CwdChanged")
  BY DEF SessionOutputs, DecisionKinds
<1>2. /\ P("FileChanged") /\ P("InstructionsLoaded") /\ P("UserPromptSubmit")
      /\ P("WorktreeCreate") /\ P("WorktreeRemove") /\ P("Setup")
  BY DEF SessionOutputs, DecisionKinds
<1>3. \A k \in DOMAIN SessionOutputs : k # "PermissionRequest" /\ k \notin HaltKinds
  BY SessionKinds DEF HaltKinds
<1> QED BY <1>1, <1>2, <1>3, SessionKinds

LEMMA PhaseFields ==
  \A k \in DOMAIN PhaseOutputs :
    /\ "decision" \in PhaseOutputs[k] <=> k \in DecisionKinds
    /\ "halt" \in PhaseOutputs[k] <=> k \in HaltKinds
    /\ "exit_code" \in PhaseOutputs[k] <=> k \in HaltKinds
    /\ "behavior" \notin PhaseOutputs[k] /\ k # "PermissionRequest"
  BY DEF PhaseOutputs, DecisionKinds, HaltKinds

(* Every kind some accessor names is a kind of one of the tables. *)
LEMMA AccessorKinds ==
  DecisionKinds \cup ExitKinds \cup {"PermissionRequest"} \subseteq HookKind
<1>1. {"PreToolUse", "PostToolUse", "BeforeAgent", "AfterAgent", "BeforeModel", "AfterModel"}
        \subseteq DOMAIN PhaseOutputs
  BY DEF PhaseOutputs
<1>2. {"PreCompact", "UserPromptSubmit"} \subseteq DOMAIN SessionOutputs
  BY DEF SessionOutputs
<1> QED BY <1>1, <1>2, AgentKinds DEF HookKind, DecisionKinds, ExitKinds, HaltKinds

(* Each accessor of HookOutputEvent reaches exactly the kinds whose         *)
(* structure has the field: none is forgotten and none is invented.         *)
THEOREM AccessorsCoverFields ==
  /\ Carrying("decision") = DecisionKinds
  /\ Carrying("halt") = HaltKinds
  /\ Carrying("exit_code") = ExitKinds
  /\ Carrying("behavior") = {"PermissionRequest"}
<1>1. ASSUME NEW k \in HookKind
      PROVE  /\ "decision" \in OutputFields[k] <=> k \in DecisionKinds
             /\ "halt" \in OutputFields[k] <=> k \in HaltKinds
             /\ "exit_code" \in OutputFields[k] <=> k \in ExitKinds
             /\ "behavior" \in OutputFields[k] <=> k = "PermissionRequest"
  <2>1. CASE k \in DOMAIN PhaseOutputs
    <3>1. OutputFields[k] = PhaseOutputs[k]
      BY <2>1 DEF OutputFields
    <3>2. k # "PreCompact"
      BY <2>1 DEF PhaseOutputs
    <3> QED BY <2>1, <3>1, <3>2, PhaseFields DEF ExitKinds
  <2>2. CASE k \notin DOMAIN PhaseOutputs /\ k \in DOMAIN SessionOutputs
    <3>1. OutputFields[k] = SessionOutputs[k]
      BY <2>2 DEF OutputFields
    <3> QED BY <2>2, <3>1, SessionFields DEF ExitKinds
  <2>3. CASE k \notin DOMAIN PhaseOutputs /\ k \notin DOMAIN SessionOutputs
    <3>1. OutputFields[k] = AgentOutputs[k] /\ k \in DOMAIN AgentOutputs
      BY <2>3 DEF OutputFields, HookKind
    <3>2. k \notin ExitKinds
      BY <3>1, AgentKinds DEF ExitKinds, HaltKinds
    <3> QED BY <3>1, <3>2, AgentFields DEF ExitKinds
  <2> QED BY <2>1, <2>2, <2>3
<1> QED BY <1>1, AccessorKinds DEF Carrying, ExitKinds
=============================================================================
