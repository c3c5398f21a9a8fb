-------------------------- MODULE InvocationProofs --------------------------
(***************************************************************************)
(* Proofs about one invocation of the binary, for any names on the command *)
(* line and in the payload, any tools and any files.                       *)
(*                                                                         *)
(* What PipelineProofs proves of any registry is used here for the four    *)
(* production stages: PP is that module on the variables of Invocation.    *)
(* On top of it the invariant says what the binary adds: the bucket and    *)
(* the event are those of the inputs, the stages are registered in         *)
(* build_registry's order, each reply is one the stage can give to this    *)
(* event, and the answer is that of the result.                            *)
(***************************************************************************)
EXTENDS Invocation, HookProtocolProofs

PP == INSTANCE PipelineProofs
        WITH Stages <- Stage, Hook <- StageHook, ToolNames <- StageTools,
             Tools <- ShellTools \cup ReadTools \cup WriteTools \cup EventTools,
             RequestKinds <- HookKind

-----------------------------------------------------------------------------
(* The four stages are stages Pipeline knows how to run.                    *)

LEMMA Stages4 ==
  /\ Stage = {"rtk", "flake-lock-summarization", "read-write-guard", "pre-commit-runner"}
  /\ DOMAIN StageOrder = 1 .. 4
  BY DEF Stage, StageOrder

LEMMA SameKinds ==
  /\ PP!HookKind = HookKind /\ P!HookKind = HookKind
  /\ PP!None = None /\ P!None = None
  /\ PP!Nothing = Nothing /\ P!Nothing = Nothing
  /\ PP!Error = Error /\ P!Error = Error
  /\ PP!NotRun = P!NotRun
  /\ PP!DecisionKinds = DecisionKinds /\ P!DecisionKinds = DecisionKinds
  /\ PP!HaltKinds = HaltKinds /\ P!HaltKinds = HaltKinds
<1>1. PP!HookKind = HookKind
  BY DEF PP!HookKind, HookKind, PP!PhaseOutputs, PhaseOutputs, PP!SessionOutputs, SessionOutputs,
         PP!AgentOutputs, AgentOutputs
<1>2. P!HookKind = HookKind
  BY DEF P!HookKind, HookKind, P!PhaseOutputs, PhaseOutputs, P!SessionOutputs, SessionOutputs,
         P!AgentOutputs, AgentOutputs
<1>3. /\ PP!None = None /\ P!None = None
      /\ PP!Nothing = Nothing /\ P!Nothing = Nothing
      /\ PP!Error = Error /\ P!Error = Error
      /\ PP!NotRun = P!NotRun
  BY DEF PP!None, P!None, None, PP!Nothing, P!Nothing, Nothing, PP!Error, P!Error, Error,
         PP!NotRun, P!NotRun
<1>4. PP!DecisionKinds = DecisionKinds /\ P!DecisionKinds = DecisionKinds
  BY DEF PP!DecisionKinds, P!DecisionKinds, DecisionKinds
<1>5. PP!HaltKinds = HaltKinds /\ P!HaltKinds = HaltKinds
  BY DEF PP!HaltKinds, P!HaltKinds, HaltKinds
<1> QED BY <1>1, <1>2, <1>3, <1>4, <1>5

LEMMA ToolKindsKnown == {"PreToolUse", "PostToolUse"} \subseteq HookKind
  BY DEF HookKind, PhaseOutputs

LEMMA HookFits == PP!HookAssumption
  BY SameKinds, ToolKindsKnown DEF PP!HookAssumption, StageHook

LEMMA ToolNamesFit == PP!ToolNamesAssumption
<1>1. None \notin ShellTools \cup ReadTools \cup WriteTools
      /\ "*" \notin ShellTools \cup ReadTools \cup WriteTools
  BY DEF None, ShellTools, ReadTools, WriteTools
<1>2. \A s \in Stage : StageTools[s] \subseteq ShellTools \cup ReadTools \cup WriteTools
  BY Stages4 DEF StageTools
<1> QED BY <1>1, <1>2, EventToolsAssumption, SameKinds DEF PP!ToolNamesAssumption, StageTools

LEMMA RequestFits == PP!RequestAssumption
  BY SameKinds DEF PP!RequestAssumption

LEMMA ToolKindsDecide == {"PreToolUse", "PostToolUse"} \subseteq PP!Carrying("decision")
<1>1. PP!OutputFields = OutputFields
  BY DEF PP!OutputFields, OutputFields, PP!HookKind, HookKind, PP!PhaseOutputs, PhaseOutputs,
         PP!SessionOutputs, SessionOutputs, PP!AgentOutputs, AgentOutputs
<1>2. PP!Carrying("decision") = Carrying("decision")
  BY <1>1, SameKinds DEF PP!Carrying, Carrying
<1> QED BY <1>2, AccessorsCoverFields DEF DecisionKinds

LEMMA RepliesFit4 == PP!RepliesAssumption
<1>1. ASSUME NEW s \in Stage, NEW d \in {"Allow", "Deny", None}
      PROVE  Says(s, d) \in PP!Output(s)
  <2>1. StageHook[s] \in {"PreToolUse", "PostToolUse"}
    BY <1>1 DEF StageHook
  <2>2. StageHook[s] \in PP!Carrying("decision") /\ StageHook[s] \in HookKind
    BY <2>1, ToolKindsDecide, ToolKindsKnown
  <2> QED BY <1>1, <2>2, SameKinds DEF Says, PP!Output, PP!Decision, PP!PermissionBehavior
<1> QED BY <1>1, SameKinds DEF PP!RepliesAssumption, Replies

-----------------------------------------------------------------------------
(* Invocation's pipeline is the pipeline of PP, action by action.           *)

LEMMA SameReading ==
  /\ P!Bucket = PP!Bucket /\ P!Registered = PP!Registered
  /\ P!registryVars = PP!registryVars /\ pipelineVars = PP!vars
  /\ \A r : P!IsOutput(r) <=> PP!IsOutput(r)
  /\ \A r : P!IsTerminal(r) <=> PP!IsTerminal(r)
  /\ \A r : P!DecisionOf(r) = PP!DecisionOf(r)
  /\ \A e, d : P!Combine(e, d) = PP!Combine(e, d)
  /\ \A o, d : P!SetDecision(o, d) = PP!SetDecision(o, d)
  /\ \A s, t : P!ToolNamesMatch(s, t) <=> PP!ToolNamesMatch(s, t)
<1>1. /\ P!Bucket = PP!Bucket /\ P!Registered = PP!Registered
      /\ P!registryVars = PP!registryVars /\ pipelineVars = PP!vars
  BY DEF P!Bucket, PP!Bucket, P!Registered, PP!Registered, P!registryVars, PP!registryVars, pipelineVars, PP!vars
<1>2. \A r : P!IsOutput(r) <=> PP!IsOutput(r)
  BY DEF P!IsOutput, PP!IsOutput
<1>3. \A r : P!DecisionOf(r) = PP!DecisionOf(r) /\ P!HaltOf(r) = PP!HaltOf(r)
  BY SameKinds DEF P!DecisionOf, PP!DecisionOf, P!HaltOf, PP!HaltOf
<1>4. \A r : P!IsTerminal(r) <=> PP!IsTerminal(r)
  BY <1>3, SameKinds DEF P!IsTerminal, PP!IsTerminal
<1>5. \A e, d : P!Combine(e, d) = PP!Combine(e, d)
  BY DEF P!Combine, PP!Combine
<1>6. \A o, d : P!SetDecision(o, d) = PP!SetDecision(o, d)
  BY SameKinds DEF P!SetDecision, PP!SetDecision
<1>7. \A s, t : P!ToolNamesMatch(s, t) <=> PP!ToolNamesMatch(s, t)
  BY SameKinds DEF P!ToolNamesMatch, PP!ToolNamesMatch
<1> QED BY <1>1, <1>2, <1>3, <1>4, <1>5, <1>6, <1>7

LEMMA SameInit == P!Init => PP!Init
  BY SameKinds DEF P!Init, PP!Init

LEMMA SameAnswers == \A s, r : P!Answers(s, r) <=> PP!Answers(s, r)
  BY SameReading DEF P!Answers, PP!Answers

LEMMA SameActions ==
  /\ \A s : P!Register(s) => PP!Register(s)
  /\ P!RunPipeline => PP!RunPipeline
  /\ P!Skip => PP!Skip
  /\ P!Return => PP!Return
  /\ \A s : P!Run(s) => PP!Run(s)
<1>1. \A s : P!Register(s) => PP!Register(s)
  BY SameReading DEF P!Register, PP!Register
<1>2. P!RunPipeline => PP!RunPipeline
  BY SameReading DEF P!RunPipeline, PP!RunPipeline, P!registryVars, PP!registryVars
<1>3. P!Skip => PP!Skip
  BY SameReading DEF P!Skip, PP!Skip, P!registryVars, PP!registryVars
<1>4. P!Return => PP!Return
  BY SameReading, SameKinds DEF P!Return, PP!Return, P!registryVars, PP!registryVars
<1>5. ASSUME NEW s, P!Run(s) PROVE PP!Run(s)
  <2> USE SameAnswers, SameReading, SameKinds DEF P!registryVars, PP!registryVars
  <2>1. P!StageErrs(s) => PP!StageErrs(s)
    BY DEF P!StageErrs, PP!StageErrs
  <2>2. P!StagePasses(s) => PP!StagePasses(s)
    BY DEF P!StagePasses, PP!StagePasses
  <2>3. P!StageTerminates(s) => PP!StageTerminates(s)
    BY DEF P!StageTerminates, PP!StageTerminates
  <2>4. P!StageContributes(s) => PP!StageContributes(s)
    BY DEF P!StageContributes, PP!StageContributes
  <2> QED BY <1>5, <2>1, <2>2, <2>3, <2>4 DEF P!Run, PP!Run
<1> QED BY <1>1, <1>2, <1>3, <1>4, <1>5

-----------------------------------------------------------------------------
(* The invariant.                                                           *)

(* The position of a stage in build_registry. *)
Rank == [s \in Stage |-> CHOOSE i \in DOMAIN StageOrder : StageOrder[i] = s]

(* The bucket is the command line's choice, the tool the payload's. *)
InputsFixed ==
  /\ driver \in Driver /\ payload \in Payload
  /\ kind = IF KnownHook THEN HookKindOf(driver, hook) ELSE "PreToolUse"
  /\ tool = IF Decodes THEN ToolNameOf(eventKind, payload.tool) ELSE None

(* Buckets are filled in build_registry's order, ... *)
InOrder ==
  \A k \in HookKind : \A i, j \in DOMAIN pipelines[k] :
    i < j => Rank[pipelines[k][i]] < Rank[pipelines[k][j]]

(* ... which passes over no enabled stage. *)
RegisteredInTurn ==
  /\ P!Registered \subseteq enabled /\ enabled \subseteq Stage
  /\ \A s \in P!Registered, t \in enabled : Rank[t] < Rank[s] => t \in P!Registered

RepliesFit == \A s \in Stage : reply[s] \in CanReply(s) \cup {P!NotRun}

DueOnly ==
  \A s \in Stage : reply[s] # P!NotRun => s \in P!Registered /\ P!ToolNamesMatch(s, tool)

AnswerFor(r) ==
  IF r = Error THEN NoOutput
  ELSE IF r = Nothing THEN <<EmptyObject>>
  ELSE <<ToWire(driver, r, ContentOf(r.by, r.decision))>>

(* How far the invocation is, and what then is in place. *)
Phases ==
  \/ phase = "start" /\ pc = "setup" /\ P!Registered = {} /\ answer.stdout = NoOutput
  \/ phase = "registry" /\ pc = "setup" /\ KnownHook /\ answer.stdout = NoOutput
  \/ /\ phase = "pipeline" /\ pc # "setup" /\ KnownHook /\ Decodes
     /\ P!Registered = enabled /\ answer.stdout = NoOutput
  \/ /\ phase = "done" /\ pc = "setup" /\ ~(KnownHook /\ Decodes)
     /\ answer.stdout = NoOutput
  \/ /\ phase = "done" /\ pc = "returned" /\ KnownHook /\ Decodes
     /\ P!Registered = enabled /\ answer.stdout = AnswerFor(result)

PipelineInv == PP!IInv /\ PP!CInv /\ PP!ResultAsGiven

InvocationInv == InputsFixed /\ InOrder /\ RegisteredInTurn /\ RepliesFit /\ DueOnly /\ Phases

-----------------------------------------------------------------------------
LEMMA PipelineInvInit == Init => PipelineInv
  BY SameInit, HookFits, ToolNamesFit, RequestFits, RepliesFit4,
     PP!InitIInv, PP!ContentInit, PP!AsGivenInit DEF Init, PipelineInv

(* Every step of the invocation is a step of the pipeline or leaves it as   *)
(* it is, and none touches what came in.                                    *)
LEMMA StepOfPipeline ==
  ASSUME [Next]_vars
  PROVE  [PP!Next]_(PP!vars) /\ UNCHANGED <<driver, hook, payload, kind, tool>>
<1>1. CASE UNCHANGED vars
  BY <1>1 DEF vars, inputVars, pipelineVars, PP!vars
<1>2. CASE UnknownHook \/ BlankInput \/ LoadConfig \/ DecodeFails \/ HandleOutput
  <2>1. UNCHANGED <<pipelineVars, inputVars>>
    BY <1>2 DEF UnknownHook, BlankInput, LoadConfig, DecodeFails, HandleOutput, Exits
  <2> QED BY <2>1 DEF pipelineVars, PP!vars, inputVars
<1>3. CASE RegisterStage
  <2>1. PICK i \in DOMAIN StageOrder : P!Register(StageOrder[i])
    BY <1>3 DEF RegisterStage
  <2>2. StageOrder[i] \in Stage
    BY DEF Stage
  <2> QED BY <1>3, <2>1, <2>2, SameActions DEF RegisterStage, P!Register, PP!Next, inputVars
<1>4. CASE RunPipeline
  BY <1>4, SameActions DEF RunPipeline, P!RunPipeline, P!registryVars, PP!Next, inputVars
<1>5. CASE RunStage
  <2>1. PP!Next
    BY <1>5, SameActions DEF RunStage, PP!Next
  <2>2. UNCHANGED <<driver, hook, payload>>
    BY <1>5 DEF RunStage, inputVars
  <2>3. UNCHANGED P!registryVars
    BY <1>5 DEF RunStage, P!Run, P!StageErrs, P!StagePasses, P!StageTerminates, P!StageContributes,
                P!Skip, P!Return
  <2> QED BY <2>1, <2>2, <2>3 DEF P!registryVars
<1> QED BY <1>1, <1>2, <1>3, <1>4, <1>5 DEF Next

LEMMA PipelineInvNext == PipelineInv /\ [Next]_vars => PipelineInv'
  BY StepOfPipeline, HookFits, ToolNamesFit, RequestFits, RepliesFit4,
     PP!NextPreserves, PP!ContentNext, PP!AsGivenNext DEF PipelineInv

-----------------------------------------------------------------------------
(* What the invariant needs of the pipeline's. *)
LEMMA PipelineFacts ==
  ASSUME PipelineInv
  PROVE  /\ pipelines \in [HookKind -> Seq(Stage)] /\ kind \in HookKind
         /\ pc \in {"setup", "running", "returned"}
         /\ DOMAIN reply = Stage
         /\ \A k \in HookKind : \A i \in DOMAIN pipelines[k] : StageHook[pipelines[k][i]] = k
         /\ \A s \in Stage : reply[s] # P!NotRun => StageHook[s] = kind
         /\ pc = "setup" => \A s \in Stage : reply[s] = P!NotRun
  BY SameKinds DEF PipelineInv, PP!IInv, PP!TypeOK, PP!Bucketed

LEMMA Ranks ==
  /\ Rank["rtk"] = 1 /\ Rank["flake-lock-summarization"] = 2
  /\ Rank["read-write-guard"] = 3 /\ Rank["pre-commit-runner"] = 4
  /\ \A i \in DOMAIN StageOrder : StageOrder[i] \in Stage /\ Rank[StageOrder[i]] = i
  /\ \A s \in Stage : Rank[s] \in 1 .. 4 /\ StageOrder[Rank[s]] = s
<1>1. \A i, j \in 1 .. 4 : StageOrder[i] = StageOrder[j] => i = j
  BY DEF StageOrder
<1>2. \A i \in DOMAIN StageOrder : StageOrder[i] \in Stage /\ Rank[StageOrder[i]] = i
  BY <1>1, Stages4 DEF Rank, Stage
<1>3. /\ StageOrder[1] = "rtk" /\ StageOrder[2] = "flake-lock-summarization"
      /\ StageOrder[3] = "read-write-guard" /\ StageOrder[4] = "pre-commit-runner"
  BY DEF StageOrder
<1> QED BY <1>2, <1>3, Stages4

LEMMA InvocationInit == Init => InvocationInv
<1> SUFFICES ASSUME Init PROVE InvocationInv
  OBVIOUS
<1>1. /\ pipelines = [k \in HookKind |-> << >>] /\ pc = "setup"
      /\ reply = [s \in Stage |-> P!NotRun] /\ enabled = {}
  BY SameKinds DEF Init, P!Init
<1>2. P!Registered = {}
  BY <1>1, SameKinds, HookFits DEF P!Registered, PP!HookAssumption
<1>3. InputsFixed
  BY DEF Init, InputsFixed
<1>4. InOrder /\ RegisteredInTurn /\ RepliesFit /\ DueOnly
  BY <1>1, <1>2 DEF InOrder, RegisteredInTurn, RepliesFit, DueOnly
<1>5. Phases
  BY <1>1, <1>2 DEF Init, Phases
<1> QED BY <1>3, <1>4, <1>5 DEF InvocationInv

-----------------------------------------------------------------------------
(* Nothing but registration, configuration and the stages' answers touches  *)
(* the parts of the invariant about them.                                   *)
LEMMA InputsStay ==
  ASSUME InputsFixed, UNCHANGED <<driver, hook, payload, kind, tool>>
  PROVE  InputsFixed' /\ (KnownHook' <=> KnownHook) /\ (Decodes' <=> Decodes) /\ eventKind' = eventKind
  BY DEF InputsFixed, KnownHook, Decodes, eventKind

LEMMA RegistryStays ==
  ASSUME InOrder, RegisteredInTurn, UNCHANGED <<pipelines, enabled>>
  PROVE  InOrder' /\ RegisteredInTurn' /\ P!Registered' = P!Registered
<1>1. P!Registered' = P!Registered
  BY DEF P!Registered
<1> QED BY <1>1 DEF InOrder, RegisteredInTurn

LEMMA RepliesStay ==
  ASSUME RepliesFit, DueOnly, UNCHANGED <<pipelines, tool, driver, payload, denied, reply>>
  PROVE  RepliesFit' /\ DueOnly'
<1>1. RepliesFit'
  BY DEF RepliesFit, CanReply, StageRepliesTo, eventKind, RtkReplies, FlakeReplies, GuardReplies, PreCommitReplies
<1>2. DueOnly'
  BY DEF DueOnly, P!Registered, P!ToolNamesMatch
<1> QED BY <1>1, <1>2

LEMMA ExitsKeeps ==
  ASSUME InvocationInv, InputsFixed', NEW status, NEW out, Exits(status, out)
  PROVE  InOrder' /\ RegisteredInTurn' /\ RepliesFit' /\ DueOnly'
<1>1. UNCHANGED <<pipelines, tool, enabled, driver, payload, denied, reply>>
  BY DEF Exits, pipelineVars, inputVars, configVars
<1> QED BY <1>1, RegistryStays, RepliesStay DEF InvocationInv

LEMMA RegisterKeeps ==
  ASSUME InvocationInv, PipelineInv, RegisterStage
  PROVE  InvocationInv'
<1>1. PICK n \in DOMAIN StageOrder :
        /\ StageOrder[n] \in enabled
        /\ \A j \in 1 .. n - 1 : StageOrder[j] \in enabled => StageOrder[j] \in P!Registered
        /\ P!Register(StageOrder[n])
  BY DEF RegisterStage
<1> DEFINE s == StageOrder[n]
<1>2. s \in Stage /\ Rank[s] = n /\ n \in 1 .. 4
  BY Ranks, Stages4
<1>3. /\ pc = "setup" /\ s \notin P!Registered /\ UNCHANGED <<pc, kind, tool, reply>>
      /\ pipelines' = [pipelines EXCEPT ![StageHook[s]] = Append(@, s)]
      /\ UNCHANGED <<phase, driver, hook, payload, enabled, denied, answer>> /\ phase = "registry"
  BY <1>1 DEF P!Register, RegisterStage, inputVars, configVars
<1>4. /\ pipelines \in [HookKind -> Seq(Stage)] /\ StageHook[s] \in HookKind
      /\ \A k \in HookKind : \A i \in DOMAIN pipelines[k] : StageHook[pipelines[k][i]] = k
  BY <1>2, PipelineFacts, HookFits, SameKinds DEF PP!HookAssumption
<1>5. ASSUME NEW k \in HookKind
      PROVE  /\ pipelines[k] \in Seq(Stage) /\ pipelines'[k] \in Seq(Stage)
             /\ \A i \in DOMAIN pipelines'[k] :
                  \/ i \in DOMAIN pipelines[k] /\ pipelines'[k][i] = pipelines[k][i]
                  \/ i = Len(pipelines[k]) + 1 /\ pipelines'[k][i] = s /\ k = StageHook[s]
             /\ \A i \in DOMAIN pipelines[k] :
                  i \in DOMAIN pipelines'[k] /\ pipelines'[k][i] = pipelines[k][i]
             /\ k = StageHook[s] => Len(pipelines[k]) + 1 \in DOMAIN pipelines'[k]
                                    /\ pipelines'[k][Len(pipelines[k]) + 1] = s
  <2>1. CASE k = StageHook[s]
    BY <2>1, <1>2, <1>3, <1>4
  <2>2. CASE k # StageHook[s]
    BY <2>2, <1>2, <1>3, <1>4
  <2> QED BY <2>1, <2>2
(* Whoever is registered already ranks lower: an enabled stage that ranks   *)
(* lower than a registered one is registered.                               *)
<1>6. \A t \in P!Registered : Rank[t] < Rank[s]
  <2> SUFFICES ASSUME NEW t \in P!Registered PROVE Rank[t] < Rank[s]
    OBVIOUS
  <2>1. t \in Stage /\ Rank[t] \in 1 .. 4
    BY Ranks DEF P!Registered
  <2>2. ~(Rank[s] < Rank[t])
    BY <1>1, <1>3 DEF InvocationInv, RegisteredInTurn
  <2>3. Rank[s] # Rank[t]
    BY <1>2, <1>3, <2>1, Ranks
  <2> QED BY <1>2, <2>1, <2>2, <2>3
<1>7. P!Registered' = P!Registered \cup {s}
  <2>1. P!Registered' \subseteq P!Registered \cup {s}
    BY <1>5, HookFits, SameKinds DEF P!Registered, PP!HookAssumption
  <2>2. P!Registered \cup {s} \subseteq P!Registered'
    <3>1. s \in P!Registered'
      BY <1>2, <1>4, <1>5 DEF P!Registered
    <3>2. ASSUME NEW t \in Stage, NEW i \in DOMAIN pipelines[StageHook[t]], pipelines[StageHook[t]][i] = t
          PROVE  t \in P!Registered'
      <4>1. StageHook[t] \in HookKind
        BY HookFits, SameKinds DEF PP!HookAssumption
      <4> QED BY <1>5, <3>2, <4>1 DEF P!Registered
    <3> QED BY <3>1, <3>2 DEF P!Registered
  <2> QED BY <2>1, <2>2
<1>8. InOrder'
  <2> SUFFICES ASSUME NEW k \in HookKind, NEW i \in DOMAIN pipelines'[k], NEW j \in DOMAIN pipelines'[k], i < j
               PROVE  Rank[pipelines'[k][i]] < Rank[pipelines'[k][j]]
    BY DEF InOrder
  <2>1. pipelines[k] \in Seq(Stage) /\ i \in Nat /\ j \in Nat
    BY <1>5
  <2>2. CASE j \in DOMAIN pipelines[k]
    BY <1>5, <2>1, <2>2 DEF InvocationInv, InOrder
  <2>3. CASE j \notin DOMAIN pipelines[k]
    <3>1. j = Len(pipelines[k]) + 1 /\ pipelines'[k][j] = s /\ k = StageHook[s]
      BY <1>5, <2>3
    <3>2. i \in DOMAIN pipelines[k] /\ pipelines'[k][i] = pipelines[k][i]
      BY <1>5, <2>1, <3>1
    <3>3. pipelines[k][i] \in P!Registered
      BY <1>4, <2>1, <3>2 DEF P!Registered
    <3> QED BY <1>6, <3>1, <3>2, <3>3
  <2> QED BY <2>2, <2>3
<1>9. RegisteredInTurn'
  <2>1. (P!Registered \subseteq enabled /\ enabled \subseteq Stage)'
    BY <1>1, <1>3, <1>7 DEF InvocationInv, RegisteredInTurn
  <2>2. ASSUME NEW t \in enabled, Rank[t] < Rank[s] PROVE t \in P!Registered
    <3>1. Rank[t] \in 1 .. n - 1 /\ StageOrder[Rank[t]] = t
      BY <1>2, <2>2, Ranks DEF InvocationInv, RegisteredInTurn
    <3> QED BY <1>1, <2>2, <3>1
  <2> QED BY <1>3, <1>7, <2>1, <2>2 DEF InvocationInv, RegisteredInTurn
<1>10. InputsFixed' /\ RepliesFit' /\ DueOnly' /\ (KnownHook' <=> KnownHook)
  <2>1. \A t \in Stage : reply'[t] = P!NotRun
    BY <1>3, PipelineFacts
  <2> QED BY <1>3, <2>1, InputsStay DEF InvocationInv, RepliesFit, DueOnly
<1>11. Phases'
  BY <1>3, <1>10 DEF InvocationInv, Phases
<1> QED BY <1>8, <1>9, <1>10, <1>11 DEF InvocationInv

LEMMA LoadKeeps ==
  ASSUME InvocationInv, PipelineInv, LoadConfig
  PROVE  InvocationInv'
<1>1. /\ phase = "start" /\ phase' = "registry" /\ enabled' \subseteq Stage /\ KnownHook
      /\ UNCHANGED <<pipelines, pc, kind, tool, reply, driver, hook, payload, answer>>
  BY DEF LoadConfig, pipelineVars, inputVars
<1>2. pc = "setup" /\ P!Registered = {} /\ answer.stdout = NoOutput
  BY <1>1 DEF InvocationInv, Phases
<1>3. P!Registered' = {}
  BY <1>1, <1>2 DEF P!Registered
<1>4. \A s \in Stage : reply'[s] = P!NotRun
  BY <1>1, <1>2, PipelineFacts
<1>5. InputsFixed' /\ KnownHook'
  BY <1>1, InputsStay DEF InvocationInv
<1>6. InOrder' /\ RegisteredInTurn' /\ RepliesFit' /\ DueOnly'
  BY <1>1, <1>3, <1>4 DEF InvocationInv, InOrder, RegisteredInTurn, RepliesFit, DueOnly
<1> QED BY <1>1, <1>2, <1>5, <1>6 DEF InvocationInv, Phases

LEMMA EndsEarlyKeeps ==
  ASSUME InvocationInv, UnknownHook \/ BlankInput \/ DecodeFails
  PROVE  InvocationInv'
<1>1. ~(KnownHook /\ Decodes) /\ (phase = "start" \/ phase = "registry") /\ \E status : Exits(status, NoOutput)
  BY DEF UnknownHook, BlankInput, DecodeFails, RegistryBuilt, Decodes
<1>2. PICK status : Exits(status, NoOutput)
  BY <1>1
<1>3. InputsFixed' /\ (KnownHook' <=> KnownHook) /\ (Decodes' <=> Decodes)
  BY <1>2, InputsStay DEF InvocationInv, Exits, inputVars, pipelineVars
<1>4. phase' = "done" /\ pc' = pc /\ pc = "setup" /\ answer'.stdout = NoOutput
  BY <1>1, <1>2 DEF Exits, pipelineVars, InvocationInv, Phases
<1> QED BY <1>1, <1>2, <1>3, <1>4, ExitsKeeps DEF InvocationInv, Phases

LEMMA StartsKeeps ==
  ASSUME InvocationInv, RunPipeline
  PROVE  InvocationInv'
<1>1. /\ RegistryBuilt /\ Decodes /\ phase' = "pipeline" /\ pc' = "running"
      /\ UNCHANGED <<pipelines, kind, tool, reply, driver, hook, payload, enabled, denied, answer>>
  BY DEF RunPipeline, P!RunPipeline, P!registryVars, inputVars, configVars
<1>2. KnownHook /\ P!Registered = enabled /\ answer.stdout = NoOutput
  BY <1>1 DEF InvocationInv, Phases, RegistryBuilt
<1>3. InputsFixed' /\ (KnownHook' <=> KnownHook) /\ (Decodes' <=> Decodes)
  BY <1>1, InputsStay DEF InvocationInv
<1>4. InOrder' /\ RegisteredInTurn' /\ RepliesFit' /\ DueOnly' /\ P!Registered' = P!Registered
  BY <1>1, RegistryStays, RepliesStay DEF InvocationInv
<1> QED BY <1>1, <1>2, <1>3, <1>4 DEF InvocationInv, Phases

LEMMA StageKeeps ==
  ASSUME InvocationInv, PipelineInv, RunStage
  PROVE  InvocationInv'
<1>1. phase = "pipeline" /\ UNCHANGED <<phase, driver, hook, payload, enabled, denied, answer>>
  BY DEF RunStage, inputVars, configVars
<1>2. /\ UNCHANGED <<pipelines, kind, tool>> /\ pc' \in {"running", "returned"}
      /\ \/ reply' = reply
         \/ \E s \in Stage : \E r :
              /\ reply' = [reply EXCEPT ![s] = r] /\ reply'[s] \in CanReply(s)
              /\ pos <= Len(P!Bucket) /\ s = P!Bucket[pos] /\ P!ToolNamesMatch(s, tool)
  BY DEF RunStage, P!Run, P!StageErrs, P!StagePasses, P!StageTerminates, P!StageContributes,
         P!Answers, P!Skip, P!Return, P!registryVars
<1>3. InputsFixed' /\ (KnownHook' <=> KnownHook) /\ (Decodes' <=> Decodes) /\ eventKind' = eventKind
  BY <1>1, <1>2, InputsStay DEF InvocationInv
<1>4. InOrder' /\ RegisteredInTurn' /\ P!Registered' = P!Registered
  BY <1>1, <1>2, RegistryStays DEF InvocationInv
<1>5. RepliesFit' /\ DueOnly'
  <2>1. CASE reply' = reply
    BY <1>1, <1>2, <2>1, RepliesStay DEF InvocationInv
  <2>2. ASSUME NEW s \in Stage, NEW r, reply' = [reply EXCEPT ![s] = r], reply'[s] \in CanReply(s),
               pos <= Len(P!Bucket), s = P!Bucket[pos], P!ToolNamesMatch(s, tool)
        PROVE  RepliesFit' /\ DueOnly'
    <3>1. \A t \in Stage : reply'[t] \in CanReply(t) \cup {P!NotRun}
      BY <2>2, PipelineFacts DEF InvocationInv, RepliesFit
    <3>2. ASSUME NEW t \in Stage PROVE CanReply(t)' = CanReply(t)
      BY <1>1, <1>3 DEF CanReply, StageRepliesTo, RtkReplies, FlakeReplies, GuardReplies, PreCommitReplies
    <3>3. s \in P!Registered
      <4>1. P!Bucket \in Seq(Stage) /\ kind \in HookKind /\ pos \in Nat \ {0}
        BY PipelineFacts DEF P!Bucket, PipelineInv, PP!IInv, PP!TypeOK
      <4>2. pos \in DOMAIN pipelines[kind] /\ pipelines[kind][pos] = s
        BY <2>2, <4>1 DEF P!Bucket
      <4> QED BY <4>1, <4>2, PipelineFacts DEF P!Registered
    <3>4. DueOnly'
      BY <1>2, <1>4, <2>2, <3>3, PipelineFacts DEF InvocationInv, DueOnly, P!ToolNamesMatch
    <3> QED BY <3>1, <3>2, <3>4 DEF RepliesFit, P!NotRun
  <2> QED BY <1>2, <2>1, <2>2
<1>6. Phases'
  BY <1>1, <1>2, <1>3, <1>4 DEF InvocationInv, Phases
<1> QED BY <1>3, <1>4, <1>5, <1>6 DEF InvocationInv

LEMMA AnswerKeeps ==
  ASSUME InvocationInv, HandleOutput
  PROVE  InvocationInv'
<1>1. phase = "pipeline" /\ pc = "returned" /\ \E status : Exits(status, AnswerFor(result))
  <2>1. CASE result = Error
    <3>1. Exits(1, NoOutput)
      BY <2>1 DEF HandleOutput, Error, Nothing
    <3> QED BY <2>1, <3>1 DEF HandleOutput, AnswerFor
  <2>2. CASE result = Nothing
    <3>1. Exits(0, <<EmptyObject>>)
      BY <2>2 DEF HandleOutput, Error, Nothing
    <3> QED BY <2>2, <3>1 DEF HandleOutput, AnswerFor, Error, Nothing
  <2>3. CASE result # Error /\ result # Nothing
    <3>1. Exits(0, <<ToWire(driver, result, ContentOf(result.by, result.decision))>>)
      BY <2>3 DEF HandleOutput
    <3> QED BY <2>3, <3>1 DEF HandleOutput, AnswerFor
  <2> QED BY <2>1, <2>2, <2>3
<1>2. PICK status : Exits(status, AnswerFor(result))
  BY <1>1
<1>3. UNCHANGED <<pipelines, pc, kind, tool, result, driver, hook, payload, enabled>>
  BY <1>2 DEF Exits, pipelineVars, inputVars, configVars
<1>4. InputsFixed' /\ (KnownHook' <=> KnownHook) /\ (Decodes' <=> Decodes)
  BY <1>3, InputsStay DEF InvocationInv
<1>5. P!Registered' = P!Registered /\ AnswerFor(result)' = AnswerFor(result)
  BY <1>3 DEF P!Registered, AnswerFor
<1>6. phase' = "done" /\ answer'.stdout = AnswerFor(result)
  BY <1>2 DEF Exits
<1>7. Phases'
  BY <1>1, <1>3, <1>4, <1>5, <1>6 DEF InvocationInv, Phases
<1> QED BY <1>2, <1>4, <1>7, ExitsKeeps DEF InvocationInv

LEMMA InvocationNext == InvocationInv /\ PipelineInv /\ [Next]_vars => InvocationInv'
<1> SUFFICES ASSUME InvocationInv, PipelineInv, [Next]_vars PROVE InvocationInv'
  OBVIOUS
<1>1. CASE UNCHANGED vars
  <2>1. UNCHANGED <<pipelines, pc, kind, tool, result, reply, phase, driver, hook, payload, enabled, denied, answer>>
    BY <1>1 DEF vars, pipelineVars, inputVars, configVars
  <2>2. InputsFixed' /\ InOrder' /\ RegisteredInTurn' /\ RepliesFit' /\ DueOnly' /\ P!Registered' = P!Registered
        /\ (KnownHook' <=> KnownHook) /\ (Decodes' <=> Decodes)
    BY <2>1, InputsStay, RegistryStays, RepliesStay DEF InvocationInv
  <2>3. AnswerFor(result)' = AnswerFor(result)
    BY <2>1 DEF AnswerFor
  <2> QED BY <2>1, <2>2, <2>3 DEF InvocationInv, Phases
<1>2. CASE Next
  BY <1>2, RegisterKeeps, LoadKeeps, EndsEarlyKeeps, StartsKeeps, StageKeeps, AnswerKeeps DEF Next
<1> QED BY <1>1, <1>2

(* The invariant of the pipeline and that of the invocation hold of every   *)
(* run of the binary.                                                       *)
THEOREM InvocationInvariant == Spec => [](PipelineInv /\ InvocationInv)
  BY PipelineInvInit, PipelineInvNext, InvocationInit, InvocationNext, PTL DEF Spec

-----------------------------------------------------------------------------
(* An answer was written only for a result; it is refused or carries        *)
(* something only if the result is an output.                               *)
LEMMA AnswerOfResult ==
  ASSUME InvocationInv, Answered, answer.stdout # NoOutput
  PROVE  /\ pc = "returned" /\ KnownHook /\ Decodes /\ P!Registered = enabled
         /\ kind = HookKindOf(driver, hook) /\ tool = ToolNameOf(eventKind, payload.tool)
         /\ answer.stdout = AnswerFor(result) /\ result # Error
  BY DEF InvocationInv, InputsFixed, Phases, Answered, AnswerFor

LEMMA NotBlank == ASSUME InvocationInv, ~Answered PROVE answer.stdout = NoOutput
  BY DEF InvocationInv, Phases, Answered

(* A stage that was run is of the bucket, and an output or an error of it   *)
(* means that the event is of the bucket's kind too.                        *)
LEMMA ReplyFits ==
  ASSUME InvocationInv, PipelineInv, NEW s \in Stage, reply[s] # P!NotRun
  PROVE  /\ StageHook[s] = kind /\ s \in P!Registered /\ P!ToolNamesMatch(s, tool)
         /\ reply[s] # Nothing => eventKind = StageHook[s] /\ reply[s] \in StageRepliesTo(s)
         /\ reply[s] \in {Nothing, Error} \cup {Says(s, d) : d \in {"Allow", "Deny", None}}
<1>1. reply[s] \in CanReply(s) /\ s \in P!Registered /\ P!ToolNamesMatch(s, tool)
  BY DEF InvocationInv, RepliesFit, DueOnly
<1>2. StageHook[s] = kind
  BY PipelineFacts
<1>3. StageRepliesTo(s) \subseteq {Nothing, Error} \cup {Says(s, d) : d \in {"Allow", "Deny", None}}
  BY Stages4 DEF StageRepliesTo, RtkReplies, FlakeReplies, GuardReplies, PreCommitReplies
<1> QED BY <1>1, <1>2, <1>3 DEF CanReply

LEMMA SaysFields ==
  ASSUME NEW s \in Stage, NEW d
  PROVE  /\ Says(s, d).tag = "output" /\ Says(s, d).kind = StageHook[s] /\ Says(s, d).decision = d
         /\ Says(s, d).halt = None /\ Says(s, d).behavior = None /\ Says(s, d).by = s
         /\ P!IsOutput(Says(s, d)) /\ PP!IsOutput(Says(s, d))
         /\ PP!FinalWord(Says(s, d)) <=> d \in {"Deny", "Block"}
         /\ Says(s, d) # Nothing /\ Says(s, d) # Error /\ Says(s, d) # P!NotRun
<1>1. /\ Says(s, d).tag = "output" /\ Says(s, d).kind = StageHook[s] /\ Says(s, d).decision = d
      /\ Says(s, d).halt = None /\ Says(s, d).behavior = None /\ Says(s, d).by = s
  BY DEF Says
<1>2. PP!FinalWord(Says(s, d)) <=> d \in {"Deny", "Block"}
  BY <1>1, SameKinds DEF PP!FinalWord, None
<1>3. Nothing.tag = "nothing" /\ Error.tag = "error" /\ P!NotRun.tag = "not_run"
  BY DEF Nothing, Error, P!NotRun
<1>4. Says(s, d) # Nothing /\ Says(s, d) # Error /\ Says(s, d) # P!NotRun
  BY <1>1, <1>3
<1> QED BY <1>1, <1>2, <1>4 DEF P!IsOutput, PP!IsOutput

LEMMA OutputIsSaid ==
  ASSUME InvocationInv, PipelineInv, NEW s \in Stage, P!IsOutput(reply[s])
  PROVE  /\ reply[s] # P!NotRun /\ reply[s] # Nothing
         /\ \E d \in {"Allow", "Deny", None} : reply[s] = Says(s, d)
<1>1. reply[s] # P!NotRun /\ reply[s] # Nothing /\ reply[s] # Error
  BY DEF P!IsOutput, P!NotRun, Nothing, Error
<1> QED BY <1>1, ReplyFits

(* The command line and the payload disagree: every stage of the bucket     *)
(* passes, so the result is nothing.                                        *)
LEMMA MismatchInv == PipelineInv /\ InvocationInv => MismatchIsHarmless
<1> SUFFICES ASSUME PipelineInv, InvocationInv, Answered, eventKind # HookKindOf(driver, hook),
                    answer.stdout # NoOutput
             PROVE  answer.stdout = <<EmptyObject>>
  BY DEF MismatchIsHarmless
<1>1. /\ pc = "returned" /\ kind = HookKindOf(driver, hook)
      /\ answer.stdout = AnswerFor(result) /\ result # Error
  BY AnswerOfResult
<1>2. ASSUME NEW s \in Stage PROVE ~P!IsOutput(reply[s])
  BY <1>1, ReplyFits, OutputIsSaid
<1>3. result = Nothing
  BY <1>1, <1>2, SameKinds, SameReading DEF PipelineInv, PP!ResultAsGiven, PP!AsGiven
<1> QED BY <1>1, <1>3 DEF AnswerFor, Nothing, Error

(* On the command line's word alone, whatever the payload holds: a hook     *)
(* command wired to the wrong event answers nothing.                        *)
THEOREM MismatchesAreHarmless == Spec => []MismatchIsHarmless
  BY InvocationInvariant, MismatchInv, PTL

-----------------------------------------------------------------------------
(* What a host sees of an output of the two tool events.                    *)
LEMMA WireOfTool ==
  ASSUME NEW r, NEW content, r.kind \in {"PreToolUse", "PostToolUse"}, r.halt = None,
         r.decision \in {"Allow", "Ask", "Deny", "Block", None}, driver \in Driver
  PROVE  Refuses(ToWire(driver, r, content)) <=> r.decision \in {"Deny", "Block"}
<1>1. DecisionOf(r) = r.decision /\ HaltOf(r) = None /\ r.kind # "PermissionRequest"
  BY DEF DecisionOf, HaltOf, DecisionKinds, HaltKinds
<1>2. CASE driver = "claude"
  BY <1>1, <1>2 DEF ToWire, ClaudeWire, Refuses, Negated, None
<1>3. CASE driver = "gemini"
  BY <1>1, <1>3 DEF ToWire, GeminiWire, Refuses, Negated, None
<1> QED BY <1>2, <1>3 DEF Driver

LEMMA EmptyRefusesNothing == ~Refuses(EmptyObject)
  BY DEF Refuses, EmptyObject, None

(* What is answered of a result that some stage gave. *)
LEMMA AnswerIsResult ==
  ASSUME InvocationInv, Answered, answer.stdout # NoOutput, P!IsOutput(result)
  PROVE  /\ answer.stdout = <<ToWire(driver, result, ContentOf(result.by, result.decision))>>
         /\ driver \in Driver
  BY AnswerOfResult DEF AnswerFor, P!IsOutput, Nothing, Error, InvocationInv, InputsFixed

(* A stage that denies has the last word and is heard.                      *)
LEMMA DenialIsRefused ==
  ASSUME InvocationInv, PipelineInv, Answered, KnownHook, Decodes,
         NEW s \in Stage, reply[s] = Says(s, "Deny")
  PROVE  Refused
<1>1. pc = "returned" /\ answer.stdout = AnswerFor(result)
  BY PipelineFacts, SaysFields DEF InvocationInv, Phases, Answered
<1>2. result = Says(s, "Deny")
  BY SaysFields DEF PipelineInv, PP!IInv, PP!RefusalStands
<1>3. answer.stdout = <<ToWire(driver, result, ContentOf(result.by, result.decision))>>
  BY <1>1, <1>2, SaysFields DEF AnswerFor
<1>4. Refuses(answer.stdout[1]) /\ 1 \in DOMAIN answer.stdout
  <2>1. StageHook[s] \in {"PreToolUse", "PostToolUse"} /\ driver \in Driver
    BY DEF StageHook, InvocationInv, InputsFixed
  <2>2. Refuses(ToWire(driver, result, ContentOf(result.by, result.decision)))
    BY <1>2, <2>1, SaysFields, WireOfTool
  <2> QED BY <1>3, <2>2
<1> QED BY <1>4 DEF Refused

LEMMA GuardedInv == PipelineInv /\ InvocationInv => GuardedIsRefused
<1> SUFFICES ASSUME PipelineInv, InvocationInv, Answered, FileCall, denied, "read-write-guard" \in enabled
             PROVE  Refused
  BY DEF GuardedIsRefused
<1> DEFINE guard == "read-write-guard"
<1>1. /\ KnownHook /\ Decodes /\ pc = "returned" /\ guard \in P!Registered
      /\ kind = "PreToolUse" /\ eventKind = "PreToolUse" /\ tool = payload.tool
      /\ payload.input \in Files /\ payload.tool \in ReadTools \cup WriteTools
  BY DEF FileCall, InvocationInv, InputsFixed, Phases, Answered, ToolNameOf, ToolKinds
<1>2. payload.input \notin {"undecodable", "nothing", "command"}
  BY <1>1, FilesAssumption
<1>3. guard \in Stage /\ P!ToolNamesMatch(guard, tool)
  BY <1>1, Stages4, SameKinds DEF P!ToolNamesMatch, StageTools, None, ReadTools, WriteTools
<1>4. PICK g \in DOMAIN pipelines["PreToolUse"] : pipelines["PreToolUse"][g] = guard
  BY <1>1, Stages4 DEF P!Registered, StageHook
<1>5. CASE reply[guard] # P!NotRun
  <2>1. reply[guard] \in CanReply(guard)
    BY <1>3, <1>5 DEF InvocationInv, RepliesFit
  <2>2. CanReply(guard) = {Says(guard, "Deny")}
    BY <1>1, <1>2, <1>3 DEF CanReply, StageRepliesTo, GuardReplies, StageHook
  <2> QED BY <1>1, <1>3, <2>1, <2>2, DenialIsRefused
<1>6. CASE reply[guard] = P!NotRun
  <2>1. PICK s \in Stage :
          /\ PP!Precedes(s, guard)
          /\ reply[s] = Error \/ (P!IsOutput(reply[s]) /\ PP!FinalWord(reply[s]))
    <3>1. guard \in {PP!Bucket[i] : i \in DOMAIN PP!Bucket}
      BY <1>1, <1>4 DEF PP!Bucket
    <3> QED BY <1>1, <1>3, <1>6, <3>1, SameKinds, SameReading
         DEF PipelineInv, PP!CInv, PP!NoStageSilenced
  <2>2. Rank[s] < Rank[guard]
    <3>1. "PreToolUse" \in HookKind
      BY ToolKindsKnown
    <3> QED BY <1>1, <2>1, <3>1 DEF PP!Precedes, PP!Bucket, InvocationInv, InOrder
  <2>3. s \in {"rtk", "flake-lock-summarization"}
    BY <2>2, Stages4, Ranks
  <2>4. reply[s] # P!NotRun /\ reply[s] # Nothing
    BY <2>1 DEF P!IsOutput, P!NotRun, Nothing, Error
  <2>5. reply[s] \in StageRepliesTo(s)
    BY <2>4, ReplyFits
  <2>6. s # "rtk"
    BY <1>2, <2>4, <2>5 DEF StageRepliesTo, RtkReplies
  <2>7. reply[s] = Says(s, "Deny")
    BY <1>2, <2>3, <2>4, <2>5, <2>6 DEF StageRepliesTo, FlakeReplies
  <2> QED BY <1>1, <2>7, DenialIsRefused
<1> QED BY <1>5, <1>6

(* Whatever the files, tools and rules: a guarded file is refused to the    *)
(* agent of either host.                                                    *)
THEOREM GuardedFilesAreRefused == Spec => []GuardedIsRefused
  BY InvocationInvariant, GuardedInv, PTL

-----------------------------------------------------------------------------
(* A result that is an output is what a stage said, or says Allow or Ask    *)
(* with that stage's content.                                               *)
LEMMA ResultIsSaid ==
  ASSUME InvocationInv, PipelineInv, pc = "returned", P!IsOutput(result)
  PROVE  \E s \in Stage : \E d \in {"Allow", "Deny", None}, e \in {"Allow", "Ask", "Deny", None} :
           /\ reply[s] = Says(s, d) /\ result = Says(s, e)
           /\ e \in {d, "Allow", "Ask"}
<1>1. result # Nothing /\ result # Error
  BY DEF P!IsOutput, Nothing, Error
<1>2. PICK s \in Stage :
        /\ P!IsOutput(reply[s])
        /\ \/ result = reply[s]
           \/ \E e \in {"Allow", "Ask"} : result = [reply[s] EXCEPT !.decision = e]
  BY <1>1, SameKinds, SameReading DEF PipelineInv, PP!ResultAsGiven, PP!AsGiven
<1>3. PICK d \in {"Allow", "Deny", None} : reply[s] = Says(s, d)
  BY <1>2, OutputIsSaid
<1>4. \A e : [Says(s, d) EXCEPT !.decision = e] = Says(s, e)
  BY DEF Says
<1> QED BY <1>2, <1>3, <1>4

(* A refusal comes from a stage's own denial, and only the guard and the    *)
(* flake-lock summary deny.                                                 *)
LEMMA StrayInv == PipelineInv /\ InvocationInv => NoStrayRefusal
<1> SUFFICES ASSUME PipelineInv, InvocationInv, Refused
             PROVE  /\ FileCall
                    /\ \/ denied /\ "read-write-guard" \in enabled
                       \/ /\ "flake-lock-summarization" \in enabled
                          /\ payload.input = "flake.lock" /\ payload.tool \in ReadTools
  BY DEF NoStrayRefusal
<1>1. PICK i \in DOMAIN answer.stdout : Refuses(answer.stdout[i])
  BY DEF Refused
<1>2. answer.stdout # NoOutput
  BY <1>1 DEF NoOutput
<1>3. /\ Answered /\ pc = "returned" /\ KnownHook /\ Decodes /\ P!Registered = enabled
      /\ kind = HookKindOf(driver, hook) /\ tool = ToolNameOf(eventKind, payload.tool)
      /\ answer.stdout = AnswerFor(result) /\ result # Error
  BY <1>2, NotBlank, AnswerOfResult
<1>4. result # Nothing
  <2>1. answer.stdout # <<EmptyObject>>
    BY <1>1, EmptyRefusesNothing
  <2> QED BY <1>3, <2>1 DEF AnswerFor, Nothing, Error
<1>5. P!IsOutput(result)
  <2>1. PICK s \in Stage :
          /\ P!IsOutput(reply[s])
          /\ \/ result = reply[s]
             \/ \E e \in {"Allow", "Ask"} : result = [reply[s] EXCEPT !.decision = e]
    BY <1>3, <1>4, SameKinds, SameReading DEF PipelineInv, PP!ResultAsGiven, PP!AsGiven
  <2>2. \A e : [reply[s] EXCEPT !.decision = e].tag = reply[s].tag
    <3>1. PICK d \in {"Allow", "Deny", None} : reply[s] = Says(s, d)
      BY <2>1, OutputIsSaid
    <3> QED BY <3>1 DEF Says
  <2> QED BY <2>1, <2>2 DEF P!IsOutput
<1>6. PICK s \in Stage, d \in {"Allow", "Deny", None}, e \in {"Allow", "Ask", "Deny", None} :
        reply[s] = Says(s, d) /\ result = Says(s, e) /\ e \in {d, "Allow", "Ask"}
  BY <1>3, <1>5, ResultIsSaid
<1>7. d = "Deny"
  <2>1. Refuses(ToWire(driver, result, ContentOf(result.by, result.decision)))
    BY <1>1, <1>2, <1>3, <1>5, AnswerIsResult
  <2>2. StageHook[s] \in {"PreToolUse", "PostToolUse"} /\ driver \in Driver
    BY DEF StageHook, InvocationInv, InputsFixed
  <2>3. e \in {"Deny", "Block"}
    BY <1>6, <2>1, <2>2, SaysFields, WireOfTool
  <2> QED BY <1>6, <2>3 DEF None
<1>8. /\ StageHook[s] = kind /\ s \in enabled /\ P!ToolNamesMatch(s, tool)
      /\ eventKind = StageHook[s] /\ reply[s] \in StageRepliesTo(s)
  BY <1>3, <1>6, ReplyFits, SaysFields
<1>9. reply[s] # Nothing /\ reply[s] # Error /\ reply[s].decision = "Deny"
  BY <1>6, <1>7, SaysFields
<1>10. s \in {"flake-lock-summarization", "read-write-guard"}
  <2>1. "Deny" \notin {"Allow", None}
    BY DEF None
  <2>2. CASE s = "rtk"
    BY <1>8, <1>9, <2>1, <2>2, SaysFields DEF StageRepliesTo, RtkReplies
  <2>3. CASE s = "pre-commit-runner"
    BY <1>8, <1>9, <2>1, <2>3, SaysFields DEF StageRepliesTo, PreCommitReplies
  <2> QED BY <2>2, <2>3, Stages4
<1>11. StageHook[s] = "PreToolUse" /\ tool = payload.tool
  BY <1>3, <1>8, <1>10 DEF StageHook, ToolNameOf, ToolKinds
<1>12. CASE s = "read-write-guard"
  <2>1. payload.input \in Files /\ denied
    BY <1>8, <1>9, <1>12 DEF StageRepliesTo, GuardReplies
  <2>2. payload.tool \in ReadTools \cup WriteTools
    BY <1>8, <1>11, <1>12, Stages4, SameKinds DEF P!ToolNamesMatch, StageTools, ReadTools, WriteTools
  <2> QED BY <1>3, <1>8, <1>11, <1>12, <2>1, <2>2 DEF FileCall
<1>13. CASE s = "flake-lock-summarization"
  <2>1. payload.input = "flake.lock"
    BY <1>8, <1>9, <1>13 DEF StageRepliesTo, FlakeReplies
  <2>2. payload.input \in Files
    BY <1>3, <2>1 DEF InvocationInv, InputsFixed, Payload, Inputs, Decodes
  <2>3. payload.tool \in ReadTools
    BY <1>8, <1>11, <1>13, Stages4, SameKinds DEF P!ToolNamesMatch, StageTools, ReadTools
  <2> QED BY <1>3, <1>8, <1>11, <1>13, <2>1, <2>2, <2>3 DEF FileCall
<1> QED BY <1>10, <1>12, <1>13

(* Whatever comes in, only a call for a file that some enabled stage has in *)
(* charge is refused.                                                       *)
THEOREM NothingElseIsRefused == Spec => []NoStrayRefusal
  BY InvocationInvariant, StrayInv, PTL

-----------------------------------------------------------------------------
(* rtk has something to say of a command only, of which no other stage of   *)
(* its bucket has.                                                          *)
LEMMA RtkAlone ==
  ASSUME InvocationInv, PipelineInv, P!IsOutput(reply["rtk"])
  PROVE  /\ \A s \in Stage : s # "rtk" => reply[s] \in {P!NotRun, Nothing}
         /\ kind = "PreToolUse"
         /\ \E d \in {"Allow", None} : reply["rtk"] = Says("rtk", d)
<1>1. "rtk" \in Stage
  BY Stages4
<1>2. /\ kind = "PreToolUse" /\ reply["rtk"] \in RtkReplies
      /\ reply["rtk"] # Nothing /\ reply["rtk"] # Error
  <2>1. reply["rtk"] # P!NotRun /\ reply["rtk"] # Nothing /\ reply["rtk"] # Error
    BY <1>1, OutputIsSaid, SaysFields
  <2> QED BY <1>1, <2>1, ReplyFits DEF StageHook, StageRepliesTo
<1>3. payload.input = "command" /\ payload.input \notin Files
  BY <1>2, FilesAssumption DEF RtkReplies
<1>4. ASSUME NEW s \in Stage, s # "rtk", reply[s] \notin {P!NotRun, Nothing}
      PROVE  FALSE
  <2>1. StageHook[s] = "PreToolUse" /\ reply[s] \in StageRepliesTo(s)
    BY <1>2, <1>4, ReplyFits
  <2>2. s \in {"flake-lock-summarization", "read-write-guard"}
    BY <1>4, <2>1, Stages4 DEF StageHook
  <2> QED BY <1>3, <1>4, <2>1, <2>2 DEF StageRepliesTo, FlakeReplies, GuardReplies
<1> QED BY <1>2, <1>3, <1>4 DEF RtkReplies

LEMMA RtkInv == PipelineInv /\ InvocationInv => RtkArrives
<1> SUFFICES ASSUME PipelineInv, InvocationInv, Answered, P!IsOutput(reply["rtk"])
             PROVE  Carries(ContentOf("rtk", reply["rtk"].decision))
  BY DEF RtkArrives
<1>1. "rtk" \in Stage
  BY Stages4
<1>2. PICK d \in {"Allow", None} : reply["rtk"] = Says("rtk", d)
  BY RtkAlone
<1>3. \A s \in Stage : s # "rtk" => ~P!IsOutput(reply[s]) /\ reply[s] # Error
  <2>1. \A r \in {P!NotRun, Nothing} : ~P!IsOutput(r) /\ r # Error
    BY DEF P!NotRun, Nothing, Error, P!IsOutput
  <2> QED BY <2>1, RtkAlone
<1>4. pc = "returned" /\ answer.stdout = AnswerFor(result)
  BY <1>1, <1>2, PipelineFacts, SaysFields DEF InvocationInv, Phases, Answered
<1>5. result # Error /\ result # Nothing
  <2>1. \A s \in Stage : reply[s] # Error
    BY <1>1, <1>2, <1>3, SaysFields
  <2> QED BY <1>1, <1>2, <1>4, <2>1, SameKinds, SaysFields DEF PipelineInv, PP!CInv, PP!LastOutputWins
<1>6. \E e \in {d, "Allow", "Ask"} : result = Says("rtk", e)
  <2>1. \A e : [Says("rtk", d) EXCEPT !.decision = e] = Says("rtk", e)
    BY DEF Says
  <2> QED BY <1>2, <1>3, <1>4, <1>5, <2>1, SameKinds, SameReading DEF PipelineInv, PP!ResultAsGiven, PP!AsGiven
<1>7. result = Says("rtk", d)
  <2>1. PICK e \in {d, "Allow", "Ask"} : result = Says("rtk", e)
    BY <1>6
  <2>2. result.decision = e /\ PP!IsOutput(result) /\ ~PP!FinalWord(result)
    BY <1>1, <1>2, <2>1, SaysFields DEF None
  <2>3. \A w : PP!Said(w) <=> w = d
    BY <1>1, <1>2, <1>3, SaysFields, SameReading DEF PP!Said
  <2>4. e = d
    BY <1>2, <2>2, <2>3, SameKinds DEF PipelineInv, PP!IInv, PP!DecisionsCombine, None
  <2> QED BY <2>1, <2>4
<1>8. answer.stdout = <<ToWire(driver, result, ContentOf("rtk", d))>>
  BY <1>1, <1>4, <1>5, <1>7, SaysFields DEF AnswerFor
<1>9. ContentOf("rtk", d) \subseteq ToWire(driver, result, ContentOf("rtk", d)).carried
  <2>1. result.kind = "PreToolUse"
    BY <1>1, <1>7, SaysFields DEF StageHook
  <2>2. ContentOf("rtk", d) \subseteq {"reason", "updated_input", "system_message"}
    BY DEF ContentOf
  <2>3. {"reason", "system_message"} \subseteq TopLevel("PreToolUse")
    BY DEF TopLevel, ReasonKinds, SystemMessageKinds, DecisionKinds
  <2>4. "updated_input" \in ClaudeSpecific("PreToolUse") /\ "updated_input" \in GeminiSpecific("PreToolUse")
    BY DEF ClaudeSpecific, GeminiSpecific
  <2> QED BY <2>1, <2>2, <2>3, <2>4 DEF ToWire, ClaudeWire, GeminiWire
<1>10. 1 \in DOMAIN answer.stdout /\ answer.stdout[1] = ToWire(driver, result, ContentOf("rtk", d))
  BY <1>8
<1>11. reply["rtk"].decision = d
  BY <1>1, <1>2, SaysFields
<1> QED BY <1>9, <1>10, <1>11 DEF Carries

(* Whatever else is enabled, what rtk has to say reaches either host.       *)
THEOREM RtkIsHeard == Spec => []RtkArrives
  BY InvocationInvariant, RtkInv, PTL
=============================================================================
