----------------------------- MODULE WireProofs -----------------------------
(***************************************************************************)
(* Both drivers keep a refusal a refusal, for every output of every kind   *)
(* the driver can receive, and Claude's leaves out nothing that is said.   *)
(***************************************************************************)
EXTENDS MCWire, HookProtocolProofs

Filled ==
  [kind     : HookKind,
   decision : Decision \cup {None},
   halt     : {"true", "false", None},
   behavior : PermissionBehavior \cup {None}]

(* A field holds a value only where the structure of the kind has it. *)
WellFormed ==
  /\ driver \in Driver
  /\ output \in Filled
  /\ output.kind \in Receivable(driver)
  /\ output.decision # None => output.kind \in DecisionKinds
  /\ output.halt # None => output.kind \in HaltKinds
  /\ output.behavior # None => output.kind = "PermissionRequest"

(* The kinds a driver receives are kinds of the protocol; a permission      *)
(* request is not one of Gemini's.                                          *)
LEMMA ReceivableKinds ==
  /\ \A d \in Driver : Receivable(d) \subseteq HookKind
  /\ "PermissionRequest" \notin Receivable("gemini")
<1>1. GeminiEvents \subseteq HookKind
  <2>1. ModelPhases \subseteq DOMAIN PhaseOutputs
    BY DEF ModelPhases, PhaseOutputs
  <2>2. {"SessionStart", "SessionEnd", "Notification"} \subseteq HookKind
    BY SessionKinds DEF HookKind
  <2> QED BY <2>1, <2>2 DEF GeminiEvents, HookKind
<1>2. {GeminiAlias[n] : n \in DOMAIN GeminiAlias} = {"PreToolUse", "PostToolUse", "PreCompact"}
  BY DEF GeminiAlias
<1>3. {"PreToolUse", "PostToolUse", "PreCompact"} \subseteq HookKind
  BY AccessorKinds DEF ExitKinds, HaltKinds
<1>4. "PermissionRequest" \notin GeminiEvents
  BY DEF GeminiEvents, ModelPhases
<1> QED BY <1>1, <1>2, <1>3, <1>4 DEF Receivable, ClaudeEvents

(* The accessors read the raw fields of a well-formed output. *)
LEMMA AccessorsRead ==
  WellFormed => DecisionOf(output) = output.decision /\ HaltOf(output) = output.halt
  BY DEF WellFormed, DecisionOf, HaltOf

LEMMA ClaudeRefuses ==
  WellFormed => (Refuses(ClaudeWire(output, content)) <=> IsRefusal(output))
<1> SUFFICES ASSUME WellFormed
             PROVE  Refuses(ClaudeWire(output, content)) <=> IsRefusal(output)
  OBVIOUS
<1> DEFINE w == ClaudeWire(output, content)
<1>1. w.decision = "block" <=> output.decision \in {"Deny", "Block"}
  BY AccessorsRead DEF ClaudeWire, None
<1>2. w.decision \in {"block", None}
  BY DEF ClaudeWire
<1>3. w.continue = "false" <=> output.halt = "true"
  BY AccessorsRead DEF ClaudeWire, Negated, WellFormed, Filled, None
<1>4. w.permission = IF output.kind = "PreToolUse" THEN output.decision
                     ELSE IF output.kind = "PermissionRequest" THEN output.behavior
                     ELSE None
  BY DEF ClaudeWire
<1>5. w.permission = "deny" <=> output.behavior = "deny"
  BY <1>4 DEF WellFormed, Filled, Decision, None
<1>6. w.permission \in {"Deny", "Block"} => output.decision \in {"Deny", "Block"}
  BY <1>4 DEF WellFormed, Filled, PermissionBehavior, None
<1> QED BY <1>1, <1>2, <1>3, <1>5, <1>6 DEF Refuses, IsRefusal, None

LEMMA GeminiRefuses ==
  WellFormed /\ driver = "gemini" => (Refuses(GeminiWire(output, content)) <=> IsRefusal(output))
<1> SUFFICES ASSUME WellFormed, driver = "gemini"
             PROVE  Refuses(GeminiWire(output, content)) <=> IsRefusal(output)
  OBVIOUS
<1> DEFINE w == GeminiWire(output, content)
<1>1. w.decision = output.decision /\ w.permission = None
  BY AccessorsRead DEF GeminiWire
<1>2. output.decision # "block"
  BY DEF WellFormed, Filled, Decision, None
<1>3. w.continue = "false" <=> output.halt = "true"
  BY AccessorsRead DEF GeminiWire, Negated, WellFormed, Filled, None
<1>4. output.behavior = None
  BY ReceivableKinds DEF WellFormed
<1> QED BY <1>1, <1>2, <1>3, <1>4 DEF Refuses, IsRefusal, None

LEMMA WellFormedInductive == Spec => []WellFormed
<1>1. Init => WellFormed
  BY ReceivableKinds DEF Init, WellFormed, Filled
<1>2. WellFormed /\ [Next]_<<driver, output, content>> => WellFormed'
  <2> SUFFICES ASSUME WellFormed, [Next]_<<driver, output, content>>
               PROVE  WellFormed'
    OBVIOUS
  <2> USE DEF WellFormed, Filled
  <2>1. CASE Decide
    BY <2>1, AccessorsCoverFields DEF Decide
  <2>2. CASE Halt
    BY <2>2, AccessorsCoverFields DEF Halt
  <2>3. CASE Permit
    BY <2>3, AccessorsCoverFields DEF Permit
  <2>4. CASE Fill
    BY <2>4 DEF Fill
  <2>5. CASE UNCHANGED <<driver, output, content>>
    BY <2>5
  <2> QED BY <2>1, <2>2, <2>3, <2>4, <2>5 DEF Next
<1> QED BY <1>1, <1>2, PTL DEF Spec

(* A refusal survives the driver of either host, and only a refusal reads   *)
(* as one (map_output of both drivers, through decision and halt).          *)
THEOREM RefusalsSurvive == Spec => []RefusalSurvives
<1>1. WellFormed => RefusalSurvives
  BY ClaudeRefuses, GeminiRefuses DEF RefusalSurvives, wire, ToWire, WellFormed, Driver
<1> QED BY <1>1, WellFormedInductive, PTL

-----------------------------------------------------------------------------
(* Content is only what the kind's structure has a field for.               *)
Contained == content \subseteq OutputFields[output.kind]

(* The fields through which a stage speaks to Claude's model.               *)
Spoken ==
  {"additional_context", "updated_input", "updated_tool_output", "replacement_text",
   "worktree_path", "response", "reason", "system_message"}

Reaches(k, fields) == fields \cap Spoken \subseteq TopLevel(k) \cup ClaudeSpecific(k)

LEMMA PhaseReaches ==
  \A k \in DOMAIN PhaseOutputs \ ModelPhases : Reaches(k, PhaseOutputs[k])
<1>1. DOMAIN PhaseOutputs \ ModelPhases = {"PreToolUse", "PostToolUse"}
  BY DEF PhaseOutputs, ModelPhases
<1>2. Reaches("PreToolUse", PhaseOutputs["PreToolUse"])
  <2>1. TopLevel("PreToolUse") = {"reason", "system_message"}
    BY DEF TopLevel, ReasonKinds, DecisionKinds, SystemMessageKinds
  <2> QED BY <2>1 DEF PhaseOutputs, Reaches, Spoken, ClaudeSpecific
<1>3. Reaches("PostToolUse", PhaseOutputs["PostToolUse"])
  <2>1. "reason" \in TopLevel("PostToolUse")
    BY DEF TopLevel, ReasonKinds, DecisionKinds
  <2> QED BY <2>1 DEF PhaseOutputs, Reaches, Spoken, ClaudeSpecific
<1> QED BY <1>1, <1>2, <1>3

LEMMA SessionReaches == \A k \in DOMAIN SessionOutputs : Reaches(k, SessionOutputs[k])
<1> DEFINE R(k) == Reaches(k, SessionOutputs[k])
<1> USE DEF Reaches, Spoken, ClaudeSpecific, TopLevel, ReasonKinds, DecisionKinds, SystemMessageKinds,
            SessionOutputs
<1>1. R("SessionStart") /\ R("SessionEnd") /\ R("Notification")
  OBVIOUS
<1>2. R("PreCompact") /\ R("PostCompact") /\ R("CwdChanged")
  OBVIOUS
<1>3. R("FileChanged") /\ R("InstructionsLoaded") /\ R("UserPromptSubmit")
  OBVIOUS
<1>4. R("WorktreeCreate") /\ R("WorktreeRemove") /\ R("Setup")
  OBVIOUS
<1> QED BY <1>1, <1>2, <1>3, <1>4, SessionKinds

LEMMA AgentReaches == \A k \in DOMAIN AgentOutputs : Reaches(k, AgentOutputs[k])
<1> DEFINE R(k) == Reaches(k, AgentOutputs[k])
<1> USE DEF Reaches, Spoken, ClaudeSpecific, TopLevel, ReasonKinds, DecisionKinds, SystemMessageKinds,
            AgentOutputs
<1>1. R("UserPromptExpansion") /\ R("MessageDisplay") /\ R("PermissionRequest")
  OBVIOUS
<1>2. R("PostToolUseFailure") /\ R("PostToolBatch") /\ R("PermissionDenied")
  OBVIOUS
<1>3. R("SubagentStart") /\ R("SubagentStop") /\ R("TaskCreated")
  OBVIOUS
<1>4. R("TaskCompleted") /\ R("Stop") /\ R("StopFailure")
  OBVIOUS
<1>5. R("TeammateIdle") /\ R("ConfigChange") /\ R("Elicitation") /\ R("ElicitationResult")
  OBVIOUS
<1> QED BY <1>1, <1>2, <1>3, <1>4, <1>5, AgentKinds

(* Every kind Claude can send has room in its answer for what the kind's    *)
(* output says.                                                             *)
LEMMA ClaudeHasRoom == \A k \in ClaudeEvents : Reaches(k, OutputFields[k])
<1> SUFFICES ASSUME NEW k \in ClaudeEvents PROVE Reaches(k, OutputFields[k])
  OBVIOUS
<1>1. k \in HookKind /\ k \notin ModelPhases
  BY DEF ClaudeEvents
<1>2. CASE k \in DOMAIN PhaseOutputs
  <2>1. OutputFields[k] = PhaseOutputs[k]
    BY <1>1, <1>2 DEF OutputFields
  <2> QED BY <1>1, <1>2, <2>1, PhaseReaches
<1>3. CASE k \notin DOMAIN PhaseOutputs /\ k \in DOMAIN SessionOutputs
  <2>1. OutputFields[k] = SessionOutputs[k]
    BY <1>1, <1>3 DEF OutputFields
  <2> QED BY <1>3, <2>1, SessionReaches
<1>4. CASE k \notin DOMAIN PhaseOutputs /\ k \notin DOMAIN SessionOutputs
  <2>1. OutputFields[k] = AgentOutputs[k] /\ k \in DOMAIN AgentOutputs
    BY <1>1, <1>4 DEF OutputFields, HookKind
  <2> QED BY <2>1, AgentReaches
<1> QED BY <1>2, <1>3, <1>4

LEMMA ContainedInductive == Spec => []Contained
<1>1. Init => Contained
  BY DEF Init, Contained
<1>2. WellFormed /\ Contained /\ [Next]_<<driver, output, content>> => Contained'
  <2> SUFFICES ASSUME WellFormed, Contained, [Next]_<<driver, output, content>>
               PROVE  Contained'
    OBVIOUS
  <2> USE DEF Contained
  <2>1. CASE Decide \/ Halt \/ Permit
    <3>1. content' = content /\ output'.kind = output.kind
      BY <2>1 DEF Decide, Halt, Permit, WellFormed, Filled
    <3> QED BY <3>1
  <2>2. CASE Fill
    BY <2>2 DEF Fill
  <2>3. CASE UNCHANGED <<driver, output, content>>
    BY <2>3
  <2> QED BY <2>1, <2>2, <2>3 DEF Next
<1> QED BY <1>1, <1>2, WellFormedInductive, PTL DEF Spec

(* ClaudeDriver::map_output: whatever a stage gives the model to read or to *)
(* use is in the answer, for every kind of event Claude sends.              *)
THEOREM ContentSurvives == Spec => []ContentReachesClaude
<1>1. WellFormed /\ Contained => ContentReachesClaude
  <2> SUFFICES ASSUME WellFormed, Contained, driver = "claude",
                      output.kind = "PermissionRequest" => output.behavior # None
               PROVE  content \cap Spoken \subseteq wire.carried
    BY DEF ContentReachesClaude, Spoken
  <2>1. output.kind \in ClaudeEvents
    BY DEF WellFormed, Receivable
  <2>2. content \cap Spoken \subseteq TopLevel(output.kind) \cup ClaudeSpecific(output.kind)
    BY <2>1, ClaudeHasRoom DEF Contained, Reaches
  <2>3. wire.carried = content \cap (TopLevel(output.kind) \cup ClaudeSpecific(output.kind))
    BY DEF wire, ToWire, ClaudeWire
  <2> QED BY <2>2, <2>3
<1> QED BY <1>1, WellFormedInductive, ContainedInductive, PTL
=============================================================================
