------------------------------ MODULE Pipeline ------------------------------
(***************************************************************************)
(* crates/engine/src/registry.rs: the Registry and run_pipeline.           *)
(*                                                                         *)
(* Stages are registered into one bucket per hook kind; run_pipeline walks *)
(* the bucket of the kind it is given in registration order, one stage at  *)
(* a time, folding the outputs into a running final output and a combined  *)
(* decision.  A stage is arbitrary code behind the Stage trait: when it is *)
(* run it answers with any of its possible Replies - nothing, an error, or *)
(* an output of its own hook's kind.                                       *)
(***************************************************************************)
EXTENDS HookProtocol, Integers, Sequences

CONSTANTS
  Stages,      \* the stages a build of the program knows
  Hook,        \* Stage::hook
  ToolNames,   \* Stage::tool_names
  Tools,       \* the tool names an event can carry
  Replies,     \* what each stage may answer when it is run
  RequestKinds \* the hook kinds the program is invoked for

(* The answers of a stage that are not outputs, and the mark of a stage    *)
(* that was not run.                                                       *)
Nothing == [tag |-> "nothing"]
Error   == [tag |-> "error"]
NotRun  == [tag |-> "not_run"]

IsOutput(r) == r.tag = "output"

(* The outputs a stage can build: a field its hook's structure lacks is     *)
(* None.  by stands for the content: everything in the output that is       *)
(* neither decision, halt flag nor behavior.                                *)
Output(s) ==
  {o \in [tag : {"output"}, kind : {Hook[s]}, decision : Decision \cup {None},
          halt : {None, "true", "false"}, behavior : PermissionBehavior \cup {None},
          by : {s}] :
     /\ o.decision # None => Hook[s] \in Carrying("decision")
     /\ o.halt # None => Hook[s] \in Carrying("halt")
     /\ o.behavior # None => Hook[s] \in Carrying("behavior")}

ASSUME HookAssumption == Hook \in [Stages -> HookKind]

ASSUME ToolNamesAssumption == /\ ToolNames \in [Stages -> SUBSET (Tools \cup {"*"})]
                              /\ None \notin Tools /\ "*" \notin Tools

(* The variant of an output is that of the stage's hook. *)
ASSUME RepliesAssumption ==
  \A s \in Stages : Replies[s] \subseteq Output(s) \cup {Nothing, Error}

ASSUME RequestAssumption == RequestKinds \subseteq HookKind

VARIABLES
  pipelines, \* Registry::pipelines
  pc,        \* "setup", "running" or "returned"
  kind,      \* the hook kind run_pipeline is called for
  tool,      \* conn.event.tool_name(); the event need not be of that kind
  pos,       \* the bucket entry the loop is at
  final,     \* final_output
  combined,  \* combined_decision
  result,    \* what run_pipeline returned
  reply      \* history: what each stage answered

registryVars == <<pipelines, kind, tool>>
vars == <<pipelines, pc, kind, tool, pos, final, combined, result, reply>>

Bucket == pipelines[kind]

-----------------------------------------------------------------------------
(* tool_names_match *)
ToolNamesMatch(s, t) == "*" \in ToolNames[s] \/ (t # None /\ t \in ToolNames[s])

(* Fault: is_terminal without the halt flag. *)
IsTerminal_IgnoresHalt(o) ==
  IF o.kind = "PermissionRequest"
  THEN o.behavior # None
  ELSE DecisionOf(o) \in {"Deny", "Block"}

(* Fault: any decision ends the pipeline, an Allow too. *)
IsTerminal_AnyDecision(o) ==
  IF o.kind = "PermissionRequest"
  THEN o.behavior # None
  ELSE DecisionOf(o) # None \/ HaltOf(o) = "true"

(* is_terminal *)
IsTerminal(o) ==
  IF o.kind = "PermissionRequest"
  THEN o.behavior # None
  ELSE DecisionOf(o) \in {"Deny", "Block"} \/ HaltOf(o) = "true"

(* Fault: a later Allow takes back an earlier Ask. *)
Combine_LastWins(existing, d) == IF d = None THEN existing ELSE d

(* One round of the match that folds a decision into the combined one. *)
Combine(existing, d) ==
  IF "Ask" \in {existing, d} THEN "Ask"
  ELSE IF d = "Allow" THEN "Allow"
  ELSE existing

-----------------------------------------------------------------------------
Registered == {s \in Stages : \E i \in DOMAIN pipelines[Hook[s]] : pipelines[Hook[s]][i] = s}

(* Fault: the loop starts one entry too early. *)
Init_ZeroBased ==
  /\ pipelines = [k \in HookKind |-> << >>]
  /\ pc = "setup"
  /\ kind \in RequestKinds
  /\ tool \in Tools \cup {None}
  /\ pos = 0
  /\ final = NotRun /\ combined = None /\ result = NotRun
  /\ reply = [s \in Stages |-> NotRun]

Init ==
  /\ pipelines = [k \in HookKind |-> << >>]
  /\ pc = "setup"
  /\ kind \in RequestKinds
  /\ tool \in Tools \cup {None}
  /\ pos = 1
  /\ final = NotRun
  /\ combined = None
  /\ result = NotRun
  /\ reply = [s \in Stages |-> NotRun]

(* Registry::register: each stage object is handed to the registry at most *)
(* once, in whatever order the caller chooses.                             *)
Register(s) ==
  /\ pc = "setup"
  /\ s \notin Registered
  /\ pipelines' = [pipelines EXCEPT ![Hook[s]] = Append(@, s)]
  /\ UNCHANGED <<pc, kind, tool, pos, final, combined, result, reply>>

RunPipeline ==
  /\ pc = "setup"
  /\ pc' = "running"
  /\ UNCHANGED <<registryVars, pos, final, combined, result, reply>>

(* The loop is at an entry whose stage matches, and the stage answers r. *)
Answers(s, r) ==
  /\ pc = "running" /\ pos <= Len(Bucket) /\ s = Bucket[pos]
  /\ ToolNamesMatch(s, tool)
  /\ r \in Replies[s]
  /\ reply' = [reply EXCEPT ![s] = r]

Skip ==
  /\ pc = "running" /\ pos <= Len(Bucket)
  /\ ~ToolNamesMatch(Bucket[pos], tool)
  /\ pos' = pos + 1
  /\ UNCHANGED <<registryVars, pc, final, combined, result, reply>>

StageErrs(s) ==
  /\ Answers(s, Error)
  /\ result' = Error
  /\ pc' = "returned"
  /\ UNCHANGED <<registryVars, pos, final, combined>>

StagePasses(s) ==
  /\ Answers(s, Nothing)
  /\ pos' = pos + 1
  /\ UNCHANGED <<registryVars, pc, final, combined, result>>

StageTerminates(s) ==
  \E r \in Replies[s] :
    /\ IsOutput(r) /\ IsTerminal(r)
    /\ Answers(s, r)
    /\ result' = r
    /\ pc' = "returned"
    /\ UNCHANGED <<registryVars, pos, final, combined>>

(* Fault: the first output is kept instead of the last. *)
StageContributes_KeepsFirst(s) ==
  \E r \in Replies[s] :
    /\ IsOutput(r) /\ ~IsTerminal(r)
    /\ Answers(s, r)
    /\ combined' = Combine(combined, DecisionOf(r))
    /\ final' = IF IsOutput(final) THEN final ELSE r
    /\ pos' = pos + 1
    /\ UNCHANGED <<registryVars, pc, result>>

StageContributes(s) ==
  \E r \in Replies[s] :
    /\ IsOutput(r) /\ ~IsTerminal(r)
    /\ Answers(s, r)
    /\ combined' = Combine(combined, DecisionOf(r))
    /\ final' = r
    /\ pos' = pos + 1
    /\ UNCHANGED <<registryVars, pc, result>>

(* Fault: the combined decision is forgotten. *)
Return_Unmerged ==
  /\ pc = "running" /\ pos > Len(Bucket)
  /\ result' = IF IsOutput(final) THEN final ELSE Nothing
  /\ pc' = "returned"
  /\ UNCHANGED <<registryVars, pos, final, combined, reply>>

(* The loop is over: the combined decision is written onto the final output. *)
Return ==
  /\ pc = "running" /\ pos > Len(Bucket)
  /\ result' = IF ~IsOutput(final) THEN Nothing
               ELSE IF combined # None THEN SetDecision(final, combined) ELSE final
  /\ pc' = "returned"
  /\ UNCHANGED <<registryVars, pos, final, combined, reply>>

Run(s) == StageErrs(s) \/ StagePasses(s) \/ StageTerminates(s) \/ StageContributes(s)

Next ==
  \/ \E s \in Stages : Register(s)
  \/ RunPipeline
  \/ Skip
  \/ \E s \in Stages : Run(s)
  \/ Return

(* A stage that is run eventually answers, and the loop then goes on. *)
Fairness == WF_vars(Skip) /\ WF_vars(Return) /\ WF_vars(\E s \in Stages : Run(s))

Spec == Init /\ [][Next]_vars /\ Fairness

-----------------------------------------------------------------------------
Reply == {Nothing, Error, NotRun} \cup UNION {Output(s) : s \in Stages}

TypeOK ==
  /\ pipelines \in [HookKind -> Seq(Stages)]
  /\ pc \in {"setup", "running", "returned"}
  /\ kind \in RequestKinds
  /\ tool \in Tools \cup {None}
  /\ pos \in Nat \ {0}
  /\ combined \in {"Allow", "Ask", None}
  /\ final \in Reply /\ result \in Reply
  /\ reply \in [Stages -> Reply]

(* What an output says, read from its fields and not through the accessors. *)
FinalWord(o) == o.decision \in {"Deny", "Block"} \/ o.halt = "true" \/ o.behavior # None

(* Some stage that was run said d. *)
Said(d) == \E s \in Stages : IsOutput(reply[s]) /\ reply[s].decision = d

(* The position at which a registered stage waits in the bucket. *)
Precedes(s, t) == \E i, j \in DOMAIN Bucket : i < j /\ Bucket[i] = s /\ Bucket[j] = t

(* A refusal is returned as it is: once a stage answers with a terminal     *)
(* output - deny, block, halt, a permission behavior - run_pipeline returns *)
(* exactly that output, whatever earlier stages allowed or asked, so no     *)
(* early Allow suppresses a later Deny or Block (registry.rs, "Decision     *)
(* combination").                                                           *)
RefusalStands ==
  \A s \in Stages : IsOutput(reply[s]) /\ FinalWord(reply[s]) => result = reply[s]

(* The decision a caller reads on a non-terminal result is Ask if any stage *)
(* asked, Allow if some stage allowed and none asked, and absent otherwise, *)
(* although the result is only the last stage's output (set_decision at the *)
(* end of run_pipeline).                                                    *)
DecisionsCombine ==
  IsOutput(result) /\ ~FinalWord(result) =>
    result.decision = IF Said("Ask") THEN "Ask"
                         ELSE IF Said("Allow") THEN "Allow"
                         ELSE None

(* A stage is silenced only by a mismatch of its tool names or by a final   *)
(* word of a stage registered before it: whenever run_pipeline has          *)
(* returned, each matching stage of the bucket was run unless a stage ahead *)
(* of it ended the pipeline with an error or a terminal output.             *)
NoStageSilenced ==
  pc = "returned" =>
    \A t \in {Bucket[i] : i \in DOMAIN Bucket} :
      ToolNamesMatch(t, tool) /\ reply[t] = NotRun =>
        \E s \in Stages :
          Precedes(s, t) /\ (reply[s] = Error \/ (IsOutput(reply[s]) /\ FinalWord(reply[s])))

(* The content of the result - reasons, messages, rewritten input - is that *)
(* of the last stage that produced an output; an error of any stage         *)
(* discards every output, even an Ask, and returns nothing else.            *)
LastOutputWins ==
  pc = "returned" =>
    /\ result = Error <=> \E s \in Stages : reply[s] = Error
    /\ IsOutput(result) =>
         /\ IsOutput(reply[result.by])
         /\ \A s \in Stages : IsOutput(reply[s]) => ~Precedes(result.by, s)
    /\ result = Nothing => \A s \in Stages : ~IsOutput(reply[s])

-----------------------------------------------------------------------------
(* Refinement: what the caller can see of the pipeline implements Verdict.  *)

SeverityOf(d) == IF d = "Ask" THEN 2 ELSE IF d = "Allow" THEN 1 ELSE 0

VisibleSeverity(r) ==
  IF ~IsOutput(r) THEN 0 ELSE IF FinalWord(r) THEN 3 ELSE SeverityOf(r.decision)

verdictView == IF pc = "returned" THEN VisibleSeverity(result) ELSE SeverityOf(combined)

statusView ==
  IF pc = "setup" THEN "idle"
  ELSE IF pc = "running" THEN "open"
  ELSE IF result = Error THEN "failed" ELSE "closed"

Contract == INSTANCE Verdict WITH verdict <- verdictView, status <- statusView

(* The pipeline's verdict only ever gets more severe, it is never weakened  *)
(* when the final output is assembled, and every invocation is answered.    *)
ImplementsVerdict == Contract!Spec
=============================================================================
