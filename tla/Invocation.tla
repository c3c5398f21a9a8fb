----------------------------- MODULE Invocation -----------------------------
(***************************************************************************)
(* One invocation of the binary (src/main.rs, cli.rs, registry.rs,         *)
(* output.rs): command line, payload, configuration, registry, decoding,   *)
(* the pipeline over the four production stages, and the answer.           *)
(*                                                                         *)
(* The pipeline is the module Pipeline on this module's variables; what    *)
(* the external parties of a stage contribute - the state of a flake.lock, *)
(* the rtk program, the pre-commit hooks - is a choice among the replies   *)
(* that the stage can give to the event.                                   *)
(***************************************************************************)
EXTENDS Wire, Integers, Sequences

CONSTANTS
  CommandHooks, \* the words after the driver on the command line
  EventNames,   \* the values of hook_event_name in payloads
  EventTools,   \* the tool names in payloads
  Files         \* the paths tools are called for; "flake.lock" is one named so

(* A tool is a name, neither the absence of one nor the wildcard of         *)
(* tool_names.                                                              *)
ASSUME EventToolsAssumption == None \notin EventTools /\ "*" \notin EventTools

(* A path is none of the words for an input that holds no path. *)
ASSUME FilesAssumption == Files \cap {"undecodable", "nothing", "command"} = {}

(* Nothing written to stdout. *)
NoOutput == << >>

ShellTools == {"Bash", "run_shell_command"}
ReadTools  == {"Read", "view_file", "cat"}
WriteTools == {"Write", "Edit", "MultiEdit", "write_file", "replace"}

(* What tool_input holds: it is kept raw and may not decode, it may name    *)
(* neither a path nor a command, or it holds one.                           *)
Inputs == Files \cup {"undecodable", "nothing", "command"}

(* What is on stdin. *)
Payload ==
  [form : {"event"}, name : EventNames, tool : EventTools, input : Inputs]
    \cup [form : {"blank", "garbled"}, name : {None}, tool : {None}, input : {"nothing"}]

-----------------------------------------------------------------------------
(* The production stages, in the order build_registry registers them.       *)
StageOrder == <<"rtk", "flake-lock-summarization", "read-write-guard", "pre-commit-runner">>

Stage == {StageOrder[i] : i \in DOMAIN StageOrder}

StageHook == [s \in Stage |-> IF s = "pre-commit-runner" THEN "PostToolUse" ELSE "PreToolUse"]

StageTools == [s \in Stage |-> CASE s = "rtk" -> ShellTools
                                 [] s = "flake-lock-summarization" -> ReadTools
                                 [] s = "read-write-guard" -> ReadTools \cup WriteTools
                                 [] s = "pre-commit-runner" -> WriteTools]

Nothing == [tag |-> "nothing"]
Error   == [tag |-> "error"]

(* An output with every field at its default but the decision and content. *)
Says(s, d) == [tag |-> "output", kind |-> StageHook[s], decision |-> d, halt |-> None,
               behavior |-> None, by |-> s]

(* The other fields of the output a stage builds with decision d. *)
ContentOf(s, d) ==
  IF s = "pre-commit-runner" THEN {"additional_context"}
  ELSE IF s = "rtk" /\ d = "Allow" THEN {"reason", "updated_input"}
  ELSE IF s = "rtk" THEN {"system_message"}
  ELSE {"reason"}

Replies == [s \in Stage |-> {Nothing, Error} \cup {Says(s, d) : d \in {"Allow", "Deny", None}}]

VARIABLES
  pipelines, pc, kind, tool, pos, final, combined, result, reply, \* of Pipeline
  phase,    \* "start", "registry", "pipeline" or "done"
  driver,   \* the driver of the command line
  hook,     \* its hook, as given
  payload,  \* stdin
  enabled,  \* the stages the configuration enables
  denied,   \* the guard's rules deny this tool this file (RuleSets: Get, Dispatch)
  answer    \* what was written to stdout, and the exit status

pipelineVars == <<pipelines, pc, kind, tool, pos, final, combined, result, reply>>
inputVars == <<driver, hook, payload>>
configVars == <<enabled, denied>>
vars == <<pipelineVars, phase, inputVars, configVars, answer>>

P == INSTANCE Pipeline
       WITH Stages <- Stage, Hook <- StageHook, ToolNames <- StageTools,
            Tools <- ShellTools \cup ReadTools \cup WriteTools \cup EventTools,
            RequestKinds <- HookKind

eventKind == EventKindOf(driver, payload.name)

KnownHook == HookKindOf(driver, hook) # Unsupported

(* from_wire succeeds. *)
Decodes == payload.form = "event" /\ eventKind # Unsupported

-----------------------------------------------------------------------------
(* What each stage can reply to the event, given a tool its names match.    *)

(* RtkStage::run; the rtk program decides between the last three.           *)
RtkReplies ==
  IF payload.input = "undecodable" THEN {Error}
  ELSE IF payload.input # "command" THEN {Nothing}
  ELSE {Says("rtk", "Allow"), Says("rtk", None), Nothing}

(* Fault: the file's basename is not looked at. *)
FlakeReplies_AnyFile ==
  IF payload.input = "undecodable" THEN {Error}
  ELSE IF payload.input \notin Files THEN {Nothing}
  ELSE {Says("flake-lock-summarization", "Deny"), Nothing}

(* Fault: an unreadable file is an error and no longer a pass. *)
FlakeReplies_ErrsUnreadable ==
  IF payload.input = "undecodable" THEN {Error}
  ELSE IF payload.input # "flake.lock" THEN {Nothing}
  ELSE {Says("flake-lock-summarization", "Deny"), Error}

(* FlakeLockSummarizationStage::run; the file may be unreadable, no JSON or *)
(* without inputs at the moment it is read.                                 *)
FlakeReplies ==
  IF payload.input = "undecodable" THEN {Error}
  ELSE IF payload.input # "flake.lock" THEN {Nothing}
  ELSE {Says("flake-lock-summarization", "Deny"), Nothing}

(* ReadWriteGuardStage::run *)
GuardReplies ==
  IF payload.input = "undecodable" THEN {Error}
  ELSE IF payload.input \in Files /\ denied THEN {Says("read-write-guard", "Deny")}
  ELSE {Nothing}

(* PreCommitRunnerStage::run; there may be no session directory, no hook    *)
(* configuration, or nothing to report.                                     *)
PreCommitReplies ==
  IF payload.input = "undecodable" THEN {Error}
  ELSE IF payload.input \notin Files THEN {Nothing}
  ELSE {Says("pre-commit-runner", None), Nothing}

StageRepliesTo(s) ==
  CASE s = "rtk" -> RtkReplies
    [] s = "flake-lock-summarization" -> FlakeReplies
    [] s = "read-write-guard" -> GuardReplies
    [] s = "pre-commit-runner" -> PreCommitReplies

(* Fault: stages trust the command line for the event's kind. *)
CanReply_AnyEvent(s) == StageRepliesTo(s)

(* Each stage first takes the event of its own hook's kind apart. *)
CanReply(s) == IF eventKind = StageHook[s] THEN StageRepliesTo(s) ELSE {Nothing}

-----------------------------------------------------------------------------
Init ==
  /\ driver \in Driver /\ hook \in CommandHooks /\ payload \in Payload
  /\ P!Init
  /\ kind = IF KnownHook THEN HookKindOf(driver, hook) ELSE "PreToolUse"
  /\ tool = IF Decodes THEN ToolNameOf(eventKind, payload.tool) ELSE None
  /\ phase = "start"
  /\ enabled = {} /\ denied = FALSE
  /\ answer = [stdout |-> NoOutput, status |-> 0]

Exits(status, stdout) ==
  /\ answer' = [stdout |-> stdout, status |-> status]
  /\ phase' = "done"
  /\ UNCHANGED <<pipelineVars, inputVars, configVars>>

(* Cli::parse_and_validate fails before stdin is read. *)
UnknownHook == phase = "start" /\ ~KnownHook /\ Exits(1, NoOutput)

BlankInput ==
  /\ phase = "start" /\ KnownHook
  /\ payload.form = "blank"
  /\ Exits(0, NoOutput)

(* Config::load; which layers say so is GuardConfig's matter. *)
LoadConfig ==
  /\ phase = "start" /\ KnownHook /\ payload.form # "blank"
  /\ enabled' \in SUBSET Stage
  /\ denied' \in BOOLEAN
  /\ phase' = "registry"
  /\ UNCHANGED <<pipelineVars, inputVars, answer>>

(* build_registry *)
RegisterStage ==
  /\ phase = "registry"
  /\ \E i \in DOMAIN StageOrder :
       /\ StageOrder[i] \in enabled
       /\ \A j \in 1 .. i - 1 : StageOrder[j] \in enabled => StageOrder[j] \in P!Registered
       /\ P!Register(StageOrder[i])
  /\ UNCHANGED <<phase, inputVars, configVars, answer>>

RegistryBuilt == phase = "registry" /\ P!Registered = enabled

(* Fault: an event of an unknown name is taken for none at all. *)
DecodeFails_KnownName ==
  RegistryBuilt /\ payload.form = "garbled" /\ Exits(1, NoOutput)

DecodeFails == RegistryBuilt /\ ~Decodes /\ Exits(1, NoOutput)

RunPipeline ==
  /\ RegistryBuilt /\ Decodes
  /\ P!RunPipeline
  /\ phase' = "pipeline"
  /\ UNCHANGED <<inputVars, configVars, answer>>

RunStage ==
  /\ phase = "pipeline"
  /\ \/ \E s \in Stage : P!Run(s) /\ reply'[s] \in CanReply(s)
     \/ P!Skip
     \/ P!Return
  /\ UNCHANGED <<phase, inputVars, configVars, answer>>

(* handle_output.  No production stage sets an exit code or creates a       *)
(* worktree.                                                                *)
HandleOutput ==
  /\ phase = "pipeline" /\ pc = "returned"
  /\ CASE result = Error   -> Exits(1, NoOutput)
       [] result = Nothing -> Exits(0, <<EmptyObject>>)
       [] OTHER ->
            Exits(0, <<ToWire(driver, result, ContentOf(result.by, result.decision))>>)

Next ==
  \/ UnknownHook \/ BlankInput \/ LoadConfig
  \/ RegisterStage \/ DecodeFails \/ RunPipeline
  \/ RunStage \/ HandleOutput

(* The program is sequential and its stages return. *)
Spec == Init /\ [][Next]_vars /\ WF_vars(Next)

-----------------------------------------------------------------------------
Answered == phase = "done"

Refused == \E i \in DOMAIN answer.stdout : Refuses(answer.stdout[i])

Carries(content) == \E i \in DOMAIN answer.stdout : content \subseteq answer.stdout[i].carried

(* A well-formed call of a file tool that the host asks about before it     *)
(* runs, under the hook it configured for that.                             *)
FileCall ==
  /\ KnownHook /\ Decodes
  /\ HookKindOf(driver, hook) = "PreToolUse" /\ eventKind = "PreToolUse"
  /\ payload.tool \in ReadTools \cup WriteTools /\ payload.input \in Files

(* A file the rules guard is refused to the agent of either host, whatever  *)
(* the stages registered before the guard find: the guard is the fallback   *)
(* when the flake-lock summary comes to nothing (read_write_guard/mod.rs,   *)
(* "Implementation Details").                                               *)
GuardedIsRefused ==
  Answered /\ FileCall /\ denied /\ "read-write-guard" \in enabled => Refused

(* Nothing else is refused: a refusal on the wire is of a file call, and    *)
(* some enabled stage has it in charge - the guard by its rules, or the     *)
(* summary of a flake.lock that is read.                                    *)
NoStrayRefusal ==
  Refused =>
    /\ FileCall
    /\ \/ denied /\ "read-write-guard" \in enabled
       \/ /\ "flake-lock-summarization" \in enabled
          /\ payload.input = "flake.lock" /\ payload.tool \in ReadTools

(* A hook command wired to the wrong event changes nothing: the command     *)
(* line picks the bucket and the payload the event, and where the two       *)
(* differ the answer is empty (Command in cli.rs: dispatch is not driven by *)
(* the payload).                                                            *)
MismatchIsHarmless ==
  Answered /\ eventKind # HookKindOf(driver, hook) => answer.stdout \in {NoOutput, <<EmptyObject>>}

(* A rewrite, or the message that rtk failed, is not replaced by the output *)
(* of a later stage of the bucket and reaches either host: the risk that    *)
(* rtk.rs calls latent ("Edge Cases") is not there with these stages.       *)
RtkArrives ==
  Answered /\ P!IsOutput(reply["rtk"]) =>
    Carries(ContentOf("rtk", reply["rtk"].decision))

(* The report of the pre-commit hooks is fed back to the agent that edited  *)
(* the file (pre_commit_runner.rs, first paragraph).                        *)
ReportReachesAgent ==
  Answered /\ P!IsOutput(reply["pre-commit-runner"]) =>
    Carries({"additional_context"})

(* Every invocation ends with an answer or an exit status. *)
EveryInvocationAnswered == <>Answered
=============================================================================
