--------------------------- MODULE PipelineProofs ---------------------------
(***************************************************************************)
(* Proofs about Pipeline for any set of stages, hooks, tool names and      *)
(* replies.                                                                *)
(*                                                                         *)
(* The fold keeps only the last output and one combined decision, so what  *)
(* the result says about all the outputs is not inductive by itself.  The  *)
(* strengthening, Folded, says what the two hold about every stage run so  *)
(* far, and Bucketed says why no stage can be run twice and so take back   *)
(* what it said: buckets hold each stage once, in the bucket of its hook,  *)
(* and the stages from pos on have not been run.                           *)
(***************************************************************************)
EXTENDS Pipeline, HookProtocolProofs

Bucketed ==
  /\ \A k \in HookKind : \A i \in DOMAIN pipelines[k] : Hook[pipelines[k][i]] = k
  /\ \A k \in HookKind : \A i, j \in DOMAIN pipelines[k] :
       pipelines[k][i] = pipelines[k][j] => i = j
  /\ \A s \in Stages : reply[s] \in Replies[s] \cup {NotRun}
  /\ \A s \in Stages : reply[s] # NotRun => Hook[s] = kind
  /\ pc = "setup" => pos = 1 /\ final = NotRun /\ combined = None
                     /\ \A s \in Stages : reply[s] = NotRun
  /\ pc # "returned" => result = NotRun
  /\ pc # "returned" => \A i \in DOMAIN Bucket : i >= pos => reply[Bucket[i]] = NotRun

(* The declared combination of everything the stages said. *)
Declared == IF Said("Ask") THEN "Ask" ELSE IF Said("Allow") THEN "Allow" ELSE None

Folded ==
  pc # "returned" =>
    /\ \A s \in Stages : reply[s] # Error
    /\ \A s \in Stages : IsOutput(reply[s]) => ~FinalWord(reply[s]) /\ IsOutput(final)
    /\ IsOutput(final) => \E s \in Stages : final = reply[s]
    /\ combined = Declared

IInv == TypeOK /\ Bucketed /\ Folded /\ RefusalStands /\ DecisionsCombine

-----------------------------------------------------------------------------
(* What a stage can answer: an output answer is one of its hook's kind.     *)
LEMMA OutputAnswers ==
  ASSUME NEW s \in Stages, NEW r \in Replies[s] \cup {NotRun}
  PROVE  /\ r \in Reply
         /\ IsOutput(r) => r \in Output(s) /\ r.kind = Hook[s]
         /\ ~IsOutput(r) => r \in {Nothing, Error, NotRun}
  BY RepliesAssumption DEF Reply, Output, IsOutput, Nothing, Error, NotRun

(* The accessors and is_terminal read an output as its fields say.          *)
LEMMA AccessorsRead ==
  ASSUME NEW s \in Stages, NEW o \in Output(s)
  PROVE  /\ IsOutput(o) /\ o.kind = Hook[s] /\ o \in Reply
         /\ o.decision \in Decision \cup {None}
         /\ DecisionOf(o) = o.decision
         /\ IsTerminal(o) <=> FinalWord(o)
         /\ ~FinalWord(o) => o.decision \in {"Allow", "Ask", None}
<1>1. /\ IsOutput(o) /\ o.kind = Hook[s] /\ o \in Reply
      /\ o.decision \in Decision \cup {None}
      /\ o.decision # None => o.kind \in DecisionKinds
      /\ o.halt # None => o.kind \in HaltKinds
      /\ o.behavior # None => o.kind = "PermissionRequest"
  BY AccessorsCoverFields DEF Output, IsOutput, Reply
<1>2. DecisionOf(o) = o.decision
  BY <1>1 DEF DecisionOf
<1>3. HaltOf(o) = o.halt
  BY <1>1 DEF HaltOf
<1>4. "PermissionRequest" \notin DecisionKinds /\ "PermissionRequest" \notin HaltKinds
  BY DEF DecisionKinds, HaltKinds
<1>5. IsTerminal(o) <=> FinalWord(o)
  <2>1. CASE o.kind = "PermissionRequest"
    <3>1. o.decision = None /\ o.halt = None
      BY <1>1, <1>4, <2>1
    <3> QED BY <2>1, <3>1 DEF IsTerminal, FinalWord, None
  <2>2. CASE o.kind # "PermissionRequest"
    BY <1>1, <1>2, <1>3, <2>2 DEF IsTerminal, FinalWord
  <2> QED BY <2>1, <2>2
<1> QED BY <1>1, <1>2, <1>5 DEF FinalWord, Decision

(* Writing a decision onto an output whose kind has one changes that field  *)
(* and nothing else.                                                        *)
LEMMA SetThenGet ==
  ASSUME NEW s \in Stages, NEW o \in Output(s), NEW d \in {"Allow", "Ask"},
         o.kind \in DecisionKinds
  PROVE  /\ SetDecision(o, d) \in Output(s)
         /\ SetDecision(o, d).decision = d
         /\ FinalWord(SetDecision(o, d)) => FinalWord(o)
  BY AccessorsCoverFields DEF SetDecision, Output, Decision, FinalWord

(* Combine adds one decision to a declared combination.                     *)
LEMMA CombineStep ==
  ASSUME NEW e \in {"Allow", "Ask", None}, NEW d \in {"Allow", "Ask", None}
  PROVE  Combine(e, d) = IF e = "Ask" \/ d = "Ask" THEN "Ask"
                         ELSE IF e = "Allow" \/ d = "Allow" THEN "Allow" ELSE None
  BY DEF Combine, None

-----------------------------------------------------------------------------
LEMMA InitIInv == Init => IInv
<1> SUFFICES ASSUME Init PROVE IInv
  OBVIOUS
<1> USE DEF Init
<1>1. TypeOK
  BY RequestAssumption DEF TypeOK, Reply, NotRun
<1>2. Bucketed
  BY RequestAssumption DEF Bucketed, Bucket
<1>3. \A s \in Stages : ~IsOutput(reply[s])
  BY DEF NotRun, IsOutput
<1>4. Folded /\ RefusalStands /\ DecisionsCombine
  BY <1>3 DEF Folded, Declared, Said, RefusalStands, DecisionsCombine, NotRun, IsOutput, Error
<1> QED BY <1>1, <1>2, <1>4 DEF IInv

-----------------------------------------------------------------------------
(* The stage at the head of the loop is a stage of this bucket that was not *)
(* run yet, and what it answers is one of its replies.                      *)
LEMMA AnswerFacts ==
  ASSUME IInv, NEW s \in Stages, NEW r, Answers(s, r)
  PROVE  /\ kind \in HookKind /\ pos \in DOMAIN Bucket
         /\ Hook[s] = kind /\ reply[s] = NotRun /\ r \in Replies[s]
         /\ reply' = [reply EXCEPT ![s] = r]
         /\ pc = "running" /\ result = NotRun
         /\ \A i \in DOMAIN Bucket : i > pos => Bucket[i] # s
<1>1. kind \in HookKind /\ Bucket \in Seq(Stages)
  BY RequestAssumption DEF IInv, TypeOK, Bucket
<1>2. pos \in DOMAIN Bucket
  BY <1>1 DEF IInv, TypeOK, Answers
<1> QED BY <1>1, <1>2 DEF IInv, Bucketed, Bucket, Answers

(* Everything said before s answers is still said after, and s adds the     *)
(* decision of its answer.                                                  *)
LEMMA SaidStep ==
  ASSUME IInv, NEW s \in Stages, NEW r, Answers(s, r), NEW d
  PROVE  Said(d)' <=> Said(d) \/ (IsOutput(r) /\ r.decision = d)
<1>1. reply[s] = NotRun /\ reply' = [reply EXCEPT ![s] = r]
  BY AnswerFacts
<1>2. DOMAIN reply = Stages /\ ~IsOutput(reply[s])
  BY <1>1 DEF IInv, TypeOK, IsOutput, NotRun
<1>3. reply'[s] = r /\ \A t \in Stages : t # s => reply'[t] = reply[t]
  BY <1>1, <1>2
<1>4. Said(d)' <=> \E t \in Stages : IsOutput(reply'[t]) /\ reply'[t].decision = d
  BY DEF Said
<1> QED BY <1>2, <1>3, <1>4 DEF Said

LEMMA RegisterPreserves ==
  ASSUME IInv, NEW s \in Stages, Register(s)
  PROVE  IInv'
<1> USE DEF Register
<1>1. Hook[s] \in HookKind
  BY HookAssumption
<1>2. TypeOK'
  BY <1>1 DEF IInv, TypeOK
<1>3. ASSUME NEW k \in HookKind
      PROVE  /\ pipelines[k] \in Seq(Stages)
             /\ pipelines'[k] \in Seq(Stages)
             /\ \A i \in DOMAIN pipelines'[k] :
                  \/ i \in DOMAIN pipelines[k] /\ pipelines'[k][i] = pipelines[k][i]
                  \/ i = Len(pipelines[k]) + 1 /\ pipelines'[k][i] = s /\ k = Hook[s]
  <2>1. pipelines[k] \in Seq(Stages) /\ pipelines'[k] \in Seq(Stages)
    BY <1>2 DEF IInv, TypeOK
  <2>2. CASE k = Hook[s]
    BY <2>1, <2>2, <1>1 DEF IInv, TypeOK
  <2>3. CASE k # Hook[s]
    BY <2>1, <2>3, <1>1 DEF IInv, TypeOK
  <2> QED BY <2>1, <2>2, <2>3
<1>4. \A i \in DOMAIN pipelines[Hook[s]] : pipelines[Hook[s]][i] # s
  BY DEF Registered
<1>5. Bucketed'
  <2>1. (\A k \in HookKind : \A i \in DOMAIN pipelines[k] : Hook[pipelines[k][i]] = k)'
    BY <1>3 DEF IInv, Bucketed
  <2>2. (\A k \in HookKind : \A i, j \in DOMAIN pipelines[k] :
           pipelines[k][i] = pipelines[k][j] => i = j)'
    BY <1>3, <1>4 DEF IInv, Bucketed
  <2>3. (\A s1 \in Stages : reply[s1] = NotRun)'
    BY DEF IInv, Bucketed
  <2>4. (\A i \in DOMAIN Bucket : i >= pos => reply[Bucket[i]] = NotRun)'
    <3>1. kind \in HookKind /\ kind' = kind
      BY RequestAssumption DEF IInv, TypeOK
    <3>2. pipelines'[kind] \in Seq(Stages)
      BY <3>1, <1>3
    <3> QED BY <2>3, <3>1, <3>2 DEF Bucket
  <2> QED BY <2>1, <2>2, <2>3, <2>4 DEF IInv, Bucketed
<1>6. Folded' /\ RefusalStands' /\ DecisionsCombine'
  BY DEF IInv, Folded, Declared, Said, RefusalStands, DecisionsCombine
<1> QED BY <1>2, <1>5, <1>6 DEF IInv

LEMMA RunPipelinePreserves ==
  ASSUME IInv, RunPipeline
  PROVE  IInv'
<1> USE DEF RunPipeline, registryVars
<1>1. TypeOK'
  BY DEF IInv, TypeOK
<1>2. Bucketed'
  BY DEF IInv, Bucketed, Bucket
<1>3. Folded' /\ RefusalStands' /\ DecisionsCombine'
  BY DEF IInv, Folded, Declared, Said, RefusalStands, DecisionsCombine
<1> QED BY <1>1, <1>2, <1>3 DEF IInv

LEMMA SkipPreserves ==
  ASSUME IInv, Skip
  PROVE  IInv'
<1> USE DEF Skip, registryVars
<1>1. TypeOK'
  BY DEF IInv, TypeOK
<1>2. Bucketed'
  BY DEF IInv, TypeOK, Bucketed, Bucket
<1>3. Folded' /\ RefusalStands' /\ DecisionsCombine'
  BY DEF IInv, Folded, Declared, Said, RefusalStands, DecisionsCombine
<1> QED BY <1>1, <1>2, <1>3 DEF IInv

(* Bucketed survives any answer, wherever the loop goes next.               *)
LEMMA AnswerKeepsBucketed ==
  ASSUME IInv, NEW s \in Stages, NEW r, Answers(s, r),
         UNCHANGED registryVars,
         \/ pc' = "returned"
         \/ pc' = pc /\ pos' = pos + 1 /\ UNCHANGED result
  PROVE  Bucketed'
<1>1. /\ kind \in HookKind /\ pos \in DOMAIN Bucket /\ pos \in Nat
      /\ Hook[s] = kind /\ reply[s] = NotRun /\ r \in Replies[s]
      /\ reply' = [reply EXCEPT ![s] = r]
      /\ pc = "running" /\ result = NotRun
      /\ \A i \in DOMAIN Bucket : i > pos => Bucket[i] # s
  BY AnswerFacts DEF IInv, TypeOK
<1>2. Bucket' = Bucket /\ Bucket \in Seq(Stages)
  BY RequestAssumption DEF registryVars, Bucket, IInv, TypeOK
<1>3. (\A s1 \in Stages : reply[s1] \in Replies[s1] \cup {NotRun})'
  BY <1>1 DEF IInv, TypeOK, Bucketed
<1>4. (\A s1 \in Stages : reply[s1] # NotRun => Hook[s1] = kind)'
  BY <1>1 DEF IInv, TypeOK, Bucketed, registryVars
<1>5. (pc # "returned" => \A i \in DOMAIN Bucket : i >= pos => reply[Bucket[i]] = NotRun)'
  <2> SUFFICES ASSUME pc' = pc, pos' = pos + 1, NEW i \in DOMAIN Bucket, i >= pos'
               PROVE  reply'[Bucket[i]] = NotRun
    BY <1>2
  <2>1. i \in Nat /\ i > pos /\ Bucket[i] \in Stages
    BY <1>1, <1>2
  <2> QED BY <2>1, <1>1 DEF IInv, TypeOK, Bucketed
<1> QED BY <1>1, <1>2, <1>3, <1>4, <1>5 DEF IInv, Bucketed, registryVars

LEMMA StageErrsPreserves ==
  ASSUME IInv, NEW s \in Stages, StageErrs(s)
  PROVE  IInv'
<1> USE DEF StageErrs
<1>1. Bucketed'
  BY AnswerKeepsBucketed DEF Answers
<1>2. reply' = [reply EXCEPT ![s] = Error] /\ pc = "running"
  BY AnswerFacts
<1>3. TypeOK'
  BY <1>2 DEF IInv, TypeOK, registryVars, Reply
<1>4. \A t \in Stages : ~(IsOutput(reply'[t]) /\ FinalWord(reply'[t]))
  BY <1>2 DEF IInv, TypeOK, Folded, IsOutput, Error
<1>5. Folded' /\ RefusalStands' /\ DecisionsCombine'
  BY <1>4 DEF Folded, RefusalStands, DecisionsCombine, IsOutput, Error
<1> QED BY <1>1, <1>3, <1>5 DEF IInv

LEMMA StagePassesPreserves ==
  ASSUME IInv, NEW s \in Stages, StagePasses(s)
  PROVE  IInv'
<1> USE DEF StagePasses
<1>1. Bucketed'
  BY AnswerKeepsBucketed DEF Answers
<1>2. reply' = [reply EXCEPT ![s] = Nothing] /\ pc = "running" /\ reply[s] = NotRun
  BY AnswerFacts
<1>3. TypeOK'
  BY <1>2 DEF IInv, TypeOK, registryVars, Reply
<1>4. \A d : Said(d)' <=> Said(d)
  BY SaidStep DEF IsOutput, Nothing
<1>5. Folded'
  <2>1. (\A t \in Stages : reply[t] # Error)'
    BY <1>2 DEF IInv, TypeOK, Folded, Error, Nothing
  <2>2. (\A t \in Stages : IsOutput(reply[t]) => ~FinalWord(reply[t]) /\ IsOutput(final))'
    BY <1>2 DEF IInv, TypeOK, Folded, IsOutput, Nothing
  <2>3. (IsOutput(final) => \E t \in Stages : final = reply[t])'
    BY <1>2 DEF IInv, TypeOK, Folded, IsOutput, NotRun
  <2>4. (combined = Declared)'
    BY <1>2, <1>4 DEF IInv, Folded, Declared
  <2> QED BY <2>1, <2>2, <2>3, <2>4 DEF Folded
<1>6. RefusalStands' /\ DecisionsCombine'
  BY <1>2, <1>5 DEF IInv, Bucketed, Folded, RefusalStands, DecisionsCombine, IsOutput, NotRun
<1> QED BY <1>1, <1>3, <1>5, <1>6 DEF IInv

LEMMA StageTerminatesPreserves ==
  ASSUME IInv, NEW s \in Stages, StageTerminates(s)
  PROVE  IInv'
<1>1. PICK r \in Replies[s] :
        /\ IsOutput(r) /\ IsTerminal(r) /\ Answers(s, r)
        /\ result' = r /\ pc' = "returned"
        /\ UNCHANGED <<registryVars, pos, final, combined>>
  BY DEF StageTerminates
<1>2. Bucketed'
  BY <1>1, AnswerKeepsBucketed
<1>3. reply' = [reply EXCEPT ![s] = r] /\ pc = "running" /\ r \in Reply /\ FinalWord(r)
  BY <1>1, AnswerFacts, OutputAnswers, AccessorsRead
<1>4. TypeOK'
  BY <1>1, <1>3 DEF IInv, TypeOK, registryVars
<1>5. RefusalStands'
  BY <1>1, <1>3 DEF IInv, TypeOK, Folded, RefusalStands
<1>6. Folded' /\ DecisionsCombine'
  BY <1>1, <1>3 DEF Folded, DecisionsCombine
<1> QED BY <1>2, <1>4, <1>5, <1>6 DEF IInv

LEMMA StageContributesPreserves ==
  ASSUME IInv, NEW s \in Stages, StageContributes(s)
  PROVE  IInv'
<1>1. PICK r \in Replies[s] :
        /\ IsOutput(r) /\ ~IsTerminal(r) /\ Answers(s, r)
        /\ combined' = Combine(combined, DecisionOf(r))
        /\ final' = r /\ pos' = pos + 1
        /\ UNCHANGED <<registryVars, pc, result>>
  BY DEF StageContributes
<1>2. Bucketed'
  BY <1>1, AnswerKeepsBucketed
<1>3. /\ reply' = [reply EXCEPT ![s] = r] /\ pc = "running" /\ result = NotRun
      /\ r \in Reply /\ r \in Output(s)
  BY <1>1, AnswerFacts, OutputAnswers
<1>4. DecisionOf(r) = r.decision /\ r.decision \in {"Allow", "Ask", None} /\ ~FinalWord(r)
  BY <1>1, <1>3, AccessorsRead
<1>5. combined' = IF combined = "Ask" \/ r.decision = "Ask" THEN "Ask"
                  ELSE IF combined = "Allow" \/ r.decision = "Allow" THEN "Allow"
                  ELSE None
  BY <1>1, <1>4, CombineStep DEF IInv, TypeOK
<1>6. TypeOK'
  BY <1>1, <1>3, <1>5 DEF IInv, TypeOK, registryVars
<1>7. Folded'
  <2>1. (\A t \in Stages : reply[t] # Error)'
    BY <1>1, <1>3 DEF IInv, TypeOK, Folded, IsOutput, Error
  <2>2. (\A t \in Stages : IsOutput(reply[t]) => ~FinalWord(reply[t]) /\ IsOutput(final))'
    BY <1>1, <1>3, <1>4 DEF IInv, TypeOK, Folded
  <2>3. (\E t \in Stages : final = reply[t])'
    BY <1>1, <1>3 DEF IInv, TypeOK
  <2>4. Said("Ask")' <=> Said("Ask") \/ r.decision = "Ask"
    BY <1>1, SaidStep
  <2>5. Said("Allow")' <=> Said("Allow") \/ r.decision = "Allow"
    BY <1>1, SaidStep
  <2>6. (combined = Declared)'
    <3>1. combined = Declared
      BY <1>3 DEF IInv, Folded
    <3> QED BY <3>1, <1>5, <2>4, <2>5 DEF Declared, None
  <2> QED BY <2>1, <2>2, <2>3, <2>6 DEF Folded
<1>8. RefusalStands' /\ DecisionsCombine'
  BY <1>1, <1>3, <1>7 DEF Folded, RefusalStands, DecisionsCombine, IsOutput, NotRun
<1> QED BY <1>2, <1>6, <1>7, <1>8 DEF IInv

(* With the loop over, the final output is what some stage answered, of a   *)
(* kind that carries the combined decision if there is one to carry.        *)
LEMMA ReturnPreserves ==
  ASSUME IInv, Return
  PROVE  IInv'
<1> USE DEF Return, registryVars
<1>1. pc = "running" /\ result = NotRun /\ \A d : Said(d)' <=> Said(d)
  BY DEF IInv, Bucketed, Said
<1>2. \A t \in Stages : ~(IsOutput(reply'[t]) /\ FinalWord(reply'[t]))
  BY <1>1 DEF IInv, Folded
<1>3. Bucketed' /\ Folded' /\ RefusalStands'
  BY <1>2 DEF IInv, Bucketed, Folded, RefusalStands
<1>4. CASE ~IsOutput(final)
  <2>1. result' = Nothing
    BY <1>4
  <2>2. DecisionsCombine' /\ result' \in Reply
    BY <2>1 DEF DecisionsCombine, IsOutput, Nothing, Reply
  <2> QED BY <2>2, <1>3 DEF IInv, TypeOK
<1>5. CASE IsOutput(final)
  <2>1. PICK t \in Stages : final = reply[t]
    BY <1>1, <1>5 DEF IInv, Folded
  <2>2. final \in Output(t) /\ final \in Reply /\ ~FinalWord(final)
    BY <1>1, <1>5, <2>1, OutputAnswers DEF IInv, Bucketed, Folded
  <2>3. combined \in {"Allow", "Ask", None} /\ combined = Declared
    BY <1>1 DEF IInv, TypeOK, Folded
  <2>4. ASSUME combined # None
        PROVE  final.kind \in DecisionKinds
    <3>1. Said(combined)
      BY <2>3, <2>4 DEF Declared
    <3>2. PICK u \in Stages : IsOutput(reply[u]) /\ reply[u].decision # None
      BY <3>1, <2>4 DEF Said
    <3>3. reply[u] \in Output(u) /\ Hook[u] = kind
      BY <3>2, OutputAnswers DEF IInv, Bucketed, IsOutput, NotRun
    <3>4. final.kind = Hook[t] /\ Hook[t] = kind
      BY <1>5, <2>1, OutputAnswers DEF IInv, Bucketed, IsOutput, NotRun
    <3> QED BY <3>2, <3>3, <3>4, AccessorsRead DEF DecisionOf
  <2>5. result' \in Reply /\ result'.decision = combined
    <3>1. CASE combined # None
      BY <3>1, <1>5, <2>2, <2>3, <2>4, SetThenGet DEF Reply
    <3>2. CASE combined = None
      <4>1. result' = final /\ ~Said("Ask") /\ ~Said("Allow")
        BY <3>2, <1>5, <2>3 DEF Declared, None
      <4>2. final.decision \in {"Allow", "Ask", None}
        BY <2>2, AccessorsRead
      <4>3. final.decision # "Ask" /\ final.decision # "Allow"
        BY <4>1, <2>1, <1>5 DEF Said
      <4> QED BY <4>1, <4>2, <4>3, <2>2, <3>2
    <3> QED BY <3>1, <3>2
  <2>6. DecisionsCombine'
    BY <1>1, <2>3, <2>5 DEF DecisionsCombine, Declared
  <2> QED BY <2>5, <2>6, <1>3 DEF IInv, TypeOK
<1> QED BY <1>4, <1>5

LEMMA NextPreserves == IInv /\ [Next]_vars => IInv'
<1> SUFFICES ASSUME IInv, [Next]_vars PROVE IInv'
  OBVIOUS
<1>1. CASE UNCHANGED vars
  BY <1>1 DEF vars, IInv, TypeOK, Bucketed, Bucket, Folded, Declared, Said, RefusalStands,
              DecisionsCombine
<1>2. CASE Next
  BY <1>2, RegisterPreserves, RunPipelinePreserves, SkipPreserves, StageErrsPreserves,
     StagePassesPreserves, StageTerminatesPreserves, StageContributesPreserves,
     ReturnPreserves DEF Next, Run
<1> QED BY <1>1, <1>2

-----------------------------------------------------------------------------
(* The inductive invariant holds of every registry and every run of it.     *)
THEOREM PipelineInvariant == Spec => []IInv
  BY InitIInv, NextPreserves, PTL DEF Spec

(* run_pipeline only ever holds and returns outputs, errors and decisions   *)
(* of the declared types; in particular the combined decision is never Deny *)
(* or Block.                                                                *)
THEOREM TypeCorrect == Spec => []TypeOK
<1>1. IInv => TypeOK
  BY DEF IInv
<1> QED BY <1>1, PipelineInvariant, PTL

(* Whatever stages are registered, in whatever order, a terminal output is  *)
(* returned exactly as the stage gave it.                                   *)
THEOREM RefusalsStand == Spec => []RefusalStands
<1>1. IInv => RefusalStands
  BY DEF IInv
<1> QED BY <1>1, PipelineInvariant, PTL

(* Whatever stages are registered, the decision of a non-terminal result is *)
(* the declared combination of all the decisions given.                     *)
THEOREM DecisionsAreCombined == Spec => []DecisionsCombine
<1>1. IInv => DecisionsCombine
  BY DEF IInv
<1> QED BY <1>1, PipelineInvariant, PTL

-----------------------------------------------------------------------------
(* Refinement of Verdict: initial states map to its initial state and every *)
(* step to one of its steps or to a stutter.  Its liveness is left to TLC.  *)

LEMMA InitRefines == Init => Contract!Init
  BY DEF Init, Contract!Init, verdictView, statusView, SeverityOf, None

(* The loop's verdict is mild, and only a final word is more.               *)
LEMMA OpenVerdict ==
  ASSUME IInv, pc = "running"
  PROVE  statusView = "open" /\ verdictView = SeverityOf(combined) /\ verdictView \in 0 .. 2
  BY DEF statusView, verdictView, SeverityOf

(* Assembling the result neither weakens nor strengthens the verdict.       *)
LEMMA ReturnCloses ==
  ASSUME IInv, Return
  PROVE  Contract!Close
<1>1. pc = "running" /\ pc' = "returned" /\ combined' = combined
  BY DEF Return
<1>2. IInv' /\ (\A d : Said(d)' <=> Said(d))
  BY ReturnPreserves DEF Return, Said
<1>3. CASE ~IsOutput(final)
  <2>1. result' = Nothing
    BY <1>3 DEF Return
  <2>2. combined = None
    BY <1>1, <1>3 DEF IInv, Folded, Declared, Said
  <2>3. verdictView' = 0 /\ statusView' = "closed"
    BY <1>1, <2>1 DEF verdictView, statusView, VisibleSeverity, IsOutput, Nothing, Error
  <2>4. SeverityOf(combined) = 0
    BY <2>2 DEF SeverityOf, None
  <2> QED BY <1>1, <2>3, <2>4, OpenVerdict DEF Contract!Close
<1>4. CASE IsOutput(final)
  <2>1. PICK t \in Stages : final \in Output(t) /\ ~FinalWord(final)
    <3>1. PICK t \in Stages : final = reply[t]
      BY <1>1, <1>4 DEF IInv, Folded
    <3> QED BY <1>1, <1>4, <3>1, OutputAnswers DEF IInv, Bucketed, Folded
  <2>2. combined \in {"Allow", "Ask", None} /\ combined = Declared
    BY <1>1 DEF IInv, TypeOK, Folded
  <2>3. IsOutput(result') /\ ~FinalWord(result')
    <3>1. CASE combined = None \/ final.kind \notin DecisionKinds
      BY <1>4, <2>1, <3>1 DEF Return, SetDecision
    <3>2. CASE combined # None /\ final.kind \in DecisionKinds
      <4>1. result' = SetDecision(final, combined) /\ combined \in {"Allow", "Ask"}
        BY <1>4, <2>2, <3>2 DEF Return
      <4> QED BY <4>1, <2>1, <3>2, SetThenGet, AccessorsRead
    <3> QED BY <3>1, <3>2
  <2>4. result'.decision = combined
    BY <1>2, <2>2, <2>3 DEF IInv, DecisionsCombine, Declared
  <2>5. verdictView' = SeverityOf(combined) /\ statusView' = "closed"
    BY <1>1, <2>3, <2>4 DEF verdictView, statusView, VisibleSeverity, IsOutput, Error
  <2> QED BY <1>1, <2>5, OpenVerdict DEF Contract!Close
<1> QED BY <1>3, <1>4

LEMMA StepRefines == IInv /\ [Next]_vars => [Contract!Next]_(Contract!vars)
<1> SUFFICES ASSUME IInv, [Next]_vars
             PROVE  Contract!Next \/ UNCHANGED <<verdictView, statusView>>
  BY DEF Contract!vars
<1> USE DEF verdictView, statusView
<1>1. CASE UNCHANGED vars
  BY <1>1 DEF vars
<1>2. ASSUME NEW s \in Stages, Register(s) PROVE UNCHANGED <<verdictView, statusView>>
  BY <1>2 DEF Register
<1>3. CASE RunPipeline
  BY <1>3 DEF RunPipeline, Contract!Next, Contract!Open
<1>4. CASE Skip
  BY <1>4 DEF Skip
<1>5. ASSUME NEW s \in Stages, StageErrs(s) PROVE Contract!Next
  <2>1. pc = "running" /\ pc' = "returned" /\ result' = Error
    BY <1>5 DEF StageErrs, Answers
  <2>2. verdictView' = 0 /\ statusView' = "failed"
    BY <2>1 DEF VisibleSeverity, IsOutput, Error
  <2> QED BY <2>1, <2>2 DEF Contract!Next, Contract!Fail
<1>6. ASSUME NEW s \in Stages, StagePasses(s) PROVE UNCHANGED <<verdictView, statusView>>
  BY <1>6 DEF StagePasses
<1>7. ASSUME NEW s \in Stages, StageTerminates(s) PROVE Contract!Next
  <2>1. pc = "running" /\ pc' = "returned" /\ IsOutput(result') /\ FinalWord(result')
    BY <1>7, OutputAnswers, AccessorsRead DEF StageTerminates, Answers
  <2>2. verdictView' = 3 /\ statusView' = "closed"
    BY <2>1 DEF VisibleSeverity, IsOutput, Error
  <2>3. Contract!Raise(3)
    BY <2>1, <2>2, OpenVerdict DEF Contract!Raise
  <2> QED BY <2>3 DEF Contract!Next, Contract!Severity
<1>8. ASSUME NEW s \in Stages, StageContributes(s) PROVE Contract!Next
  <2>1. PICK r \in Replies[s] :
          /\ IsOutput(r) /\ ~IsTerminal(r) /\ combined' = Combine(combined, DecisionOf(r))
          /\ pc = "running" /\ pc' = pc
    BY <1>8 DEF StageContributes, Answers
  <2>2. DecisionOf(r) \in {"Allow", "Ask", None}
    BY <2>1, OutputAnswers, AccessorsRead
  <2>3. /\ verdictView = SeverityOf(combined) /\ verdictView' = SeverityOf(combined')
        /\ statusView = "open" /\ statusView' = "open"
    BY <2>1
  <2>4. SeverityOf(combined') \in 0 .. 2 /\ SeverityOf(combined') >= SeverityOf(combined)
    BY <2>1, <2>2 DEF SeverityOf, Combine, IInv, TypeOK, None
  <2>5. Contract!Raise(SeverityOf(combined'))
    BY <2>3, <2>4 DEF Contract!Raise
  <2> QED BY <2>4, <2>5 DEF Contract!Next, Contract!Severity
<1>9. CASE Return
  BY <1>9, ReturnCloses DEF Contract!Next
<1> QED BY <1>1, <1>2, <1>3, <1>4, <1>5, <1>6, <1>7, <1>8, <1>9 DEF Next, Run

(* Whatever the stages are, what a caller can see of run_pipeline is a      *)
(* behaviour Verdict allows: the verdict never gets less severe, and        *)
(* assembling the result does not change it.                                *)
THEOREM SafelyImplementsVerdict ==
  Spec => Contract!Init /\ [][Contract!Next]_(Contract!vars)
  BY InitRefines, StepRefines, PipelineInvariant, PTL DEF Spec

-----------------------------------------------------------------------------
(* What run_pipeline keeps and drops: no stage is passed over without a      *)
(* reason, and the content of the result is the last stage's.  Both are      *)
(* about the end of the loop; Walked and Latest say on the way what the end  *)
(* then inherits: the entries behind pos that match were run, and final is   *)
(* the answer of the last of those that gave an output.                      *)
Walked ==
  pc # "returned" =>
    \A i \in DOMAIN Bucket : i < pos /\ ToolNamesMatch(Bucket[i], tool) => reply[Bucket[i]] # NotRun

IsLast(t) ==
  /\ t \in Stages /\ IsOutput(reply[t])
  /\ \A s \in Stages : IsOutput(reply[s]) => ~Precedes(t, s)

Latest == pc # "returned" /\ IsOutput(final) => IsLast(final.by)

CInv == Walked /\ Latest /\ NoStageSilenced /\ LastOutputWins

-----------------------------------------------------------------------------
LEMMA OutputIsBy ==
  ASSUME NEW s \in Stages, NEW r \in Replies[s], IsOutput(r)
  PROVE  r.by = s /\ r # Error /\ r # Nothing
  BY OutputAnswers DEF Output, IsOutput, Error, Nothing

(* A stage that answers is behind every stage that has answered.            *)
LEMMA AnswersLast ==
  ASSUME IInv, NEW s \in Stages, NEW r, Answers(s, r), UNCHANGED registryVars
  PROVE  /\ Bucket' = Bucket /\ tool' = tool
         /\ pos \in DOMAIN Bucket /\ Bucket[pos] = s
         /\ reply'[s] = r
         /\ \A t \in Stages : t # s => reply'[t] = reply[t]
         /\ \A t \in Stages : Precedes(s, t)' => reply'[t] = NotRun
<1>1. Bucket' = Bucket /\ tool' = tool /\ Bucket[pos] = s
  BY DEF registryVars, Bucket, Answers
<1>2. /\ pos \in DOMAIN Bucket /\ pc = "running"
      /\ reply'[s] = r /\ \A t \in Stages : t # s => reply'[t] = reply[t]
      /\ \A i \in DOMAIN Bucket : i > pos => Bucket[i] # s
  BY AnswerFacts DEF IInv, TypeOK
<1>3. \A i \in DOMAIN Bucket : i >= pos => reply[Bucket[i]] = NotRun
  BY <1>2 DEF IInv, Bucketed
<1>4. kind \in HookKind /\ Bucket \in Seq(Stages) /\ \A i, j \in DOMAIN Bucket : Bucket[i] = Bucket[j] => i = j
  BY RequestAssumption DEF IInv, TypeOK, Bucketed, Bucket
<1>5. ASSUME NEW t \in Stages, Precedes(s, t)'
      PROVE  reply'[t] = NotRun
  <2>1. PICK i, j \in DOMAIN Bucket : i < j /\ Bucket[i] = s /\ Bucket[j] = t
    BY <1>1, <1>5 DEF Precedes
  <2>2. i = pos
    BY <2>1, <1>1, <1>2, <1>4
  <2>3. j > pos /\ j >= pos
    BY <2>1, <2>2, <1>4
  <2>4. reply[t] = NotRun /\ t # s
    BY <2>1, <2>3, <1>2, <1>3
  <2> QED BY <2>4, <1>2
<1> QED BY <1>1, <1>2, <1>5

(* If the answer of s ends the pipeline, only stages behind s were not run. *)
LEMMA EndsWithReason ==
  ASSUME IInv, CInv, NEW s \in Stages, NEW r, Answers(s, r), UNCHANGED registryVars,
         r # NotRun, r = Error \/ (IsOutput(r) /\ FinalWord(r))
  PROVE  NoStageSilenced'
<1>1. /\ Bucket' = Bucket /\ tool' = tool
      /\ pos \in DOMAIN Bucket /\ Bucket[pos] = s
      /\ reply'[s] = r
      /\ \A t \in Stages : t # s => reply'[t] = reply[t]
  BY AnswersLast
<1>2. pc = "running" /\ kind \in HookKind /\ Bucket \in Seq(Stages)
  BY RequestAssumption DEF Answers, IInv, TypeOK, Bucket
<1>3. ASSUME NEW i \in DOMAIN Bucket, ToolNamesMatch(Bucket[i], tool), reply'[Bucket[i]] = NotRun
      PROVE  Precedes(s, Bucket[i])'
  <2>1. Bucket[i] \in Stages /\ i \in Nat /\ pos \in Nat
    BY <1>1, <1>2
  <2>2. Bucket[i] # s /\ reply[Bucket[i]] = NotRun
    BY <1>1, <1>3, <2>1
  <2>3. ~(i < pos)
    BY <1>2, <1>3, <2>2 DEF CInv, Walked
  <2>4. pos < i
    BY <2>1, <2>2, <2>3, <1>1
  <2> QED BY <1>1, <2>4 DEF Precedes
<1>4. (reply[s] = Error \/ (IsOutput(reply[s]) /\ FinalWord(reply[s])))'
  BY <1>1
<1>5. ASSUME NEW t \in {Bucket'[i] : i \in DOMAIN Bucket'}, ToolNamesMatch(t, tool'), reply'[t] = NotRun
      PROVE  Precedes(s, t)'
  BY <1>1, <1>3, <1>5
<1>6. (\A t \in {Bucket[i] : i \in DOMAIN Bucket} :
         ToolNamesMatch(t, tool) /\ reply[t] = NotRun => Precedes(s, t))'
  BY <1>5 DEF ToolNamesMatch
<1> QED BY <1>4, <1>6 DEF NoStageSilenced

(* If it does not, the loop has run one entry more.                         *)
LEMMA WalksOn ==
  ASSUME IInv, CInv, NEW s \in Stages, NEW r, Answers(s, r), UNCHANGED registryVars,
         r # NotRun, pos' = pos + 1, pc' = pc
  PROVE  Walked' /\ NoStageSilenced'
<1>1. /\ Bucket' = Bucket /\ tool' = tool
      /\ pos \in DOMAIN Bucket /\ Bucket[pos] = s
      /\ reply'[s] = r
      /\ \A t \in Stages : t # s => reply'[t] = reply[t]
  BY AnswersLast
<1>2. pc = "running" /\ kind \in HookKind /\ Bucket \in Seq(Stages)
  BY RequestAssumption DEF Answers, IInv, TypeOK, Bucket
<1>3. ASSUME NEW i \in DOMAIN Bucket, i < pos + 1, ToolNamesMatch(Bucket[i], tool)
      PROVE  reply'[Bucket[i]] # NotRun
  <2>1. Bucket[i] \in Stages /\ i \in Nat /\ pos \in Nat
    BY <1>1, <1>2
  <2>2. CASE Bucket[i] = s
    BY <2>2, <1>1
  <2>3. CASE Bucket[i] # s
    <3>1. i < pos
      BY <2>1, <2>3, <1>1, <1>3
    <3> QED BY <3>1, <2>1, <2>3, <1>1, <1>2, <1>3 DEF CInv, Walked
  <2> QED BY <2>2, <2>3
<1> QED BY <1>1, <1>2, <1>3 DEF Walked, NoStageSilenced, ToolNamesMatch

-----------------------------------------------------------------------------
LEMMA ContentInit == Init => CInv
<1> SUFFICES ASSUME Init PROVE CInv
  OBVIOUS
<1>1. kind \in HookKind /\ Bucket = << >> /\ pc = "setup" /\ ~IsOutput(final)
  BY RequestAssumption DEF Init, Bucket, IsOutput, NotRun
<1> QED BY <1>1 DEF CInv, Walked, Latest, NoStageSilenced, LastOutputWins

LEMMA QuietKeepsContent ==
  ASSUME IInv, CInv, (\E s \in Stages : Register(s)) \/ RunPipeline
  PROVE  CInv'
<1>1. pc = "setup" /\ pc' # "returned" /\ pos' = pos /\ final' = final
  BY DEF Register, RunPipeline
<1>2. pos = 1 /\ ~IsOutput(final)
  BY <1>1 DEF IInv, Bucketed, IsOutput, NotRun
<1>3. kind \in HookKind /\ kind' = kind /\ IInv'
  BY RequestAssumption, RegisterPreserves, RunPipelinePreserves DEF IInv, TypeOK, Register, RunPipeline, registryVars
<1>4. Bucket' \in Seq(Stages)
  BY <1>3 DEF IInv, TypeOK, Bucket
<1>5. Walked'
  BY <1>1, <1>2, <1>4 DEF Walked
<1> QED BY <1>1, <1>2, <1>5 DEF CInv, Latest, NoStageSilenced, LastOutputWins

LEMMA SkipKeepsContent ==
  ASSUME IInv, CInv, Skip
  PROVE  CInv'
<1>1. /\ pc = "running" /\ pc' = pc /\ pos' = pos + 1 /\ ~ToolNamesMatch(Bucket[pos], tool)
      /\ Bucket' = Bucket /\ UNCHANGED <<tool, final, reply, result>>
  BY DEF Skip, registryVars, Bucket
<1>2. kind \in HookKind /\ Bucket \in Seq(Stages) /\ pos \in Nat
  BY RequestAssumption DEF IInv, TypeOK, Bucket
<1>3. Walked'
  <2> SUFFICES ASSUME NEW i \in DOMAIN Bucket, i < pos + 1, ToolNamesMatch(Bucket[i], tool)
               PROVE  reply[Bucket[i]] # NotRun
    BY <1>1 DEF Walked, ToolNamesMatch
  <2>1. i \in Nat /\ i # pos
    BY <1>1, <1>2
  <2>2. i < pos
    BY <1>2, <2>1
  <2> QED BY <1>1, <2>2 DEF CInv, Walked
<1>4. Latest'
  BY <1>1 DEF CInv, Latest, IsLast, Precedes
<1> QED BY <1>1, <1>3, <1>4 DEF CInv, NoStageSilenced, LastOutputWins

LEMMA ErrKeepsContent ==
  ASSUME IInv, CInv, NEW s \in Stages, StageErrs(s)
  PROVE  CInv'
<1>1. Answers(s, Error) /\ UNCHANGED registryVars /\ result' = Error /\ pc' = "returned"
  BY DEF StageErrs
<1>2. NoStageSilenced'
  BY <1>1, EndsWithReason DEF Error, NotRun
<1>3. reply'[s] = Error
  BY <1>1, AnswersLast
<1>4. LastOutputWins'
  BY <1>1, <1>3 DEF LastOutputWins, IsOutput, Error, Nothing
<1> QED BY <1>1, <1>2, <1>4 DEF CInv, Walked, Latest

LEMMA PassKeepsContent ==
  ASSUME IInv, CInv, NEW s \in Stages, StagePasses(s)
  PROVE  CInv'
<1>1. /\ Answers(s, Nothing) /\ UNCHANGED <<registryVars, pc, final, result>> /\ pos' = pos + 1
      /\ pc = "running"
  BY DEF StagePasses, Answers
<1>2. Walked' /\ NoStageSilenced'
  BY <1>1, WalksOn DEF Nothing, NotRun
<1>3. /\ Bucket' = Bucket /\ reply'[s] = Nothing
      /\ \A t \in Stages : t # s => reply'[t] = reply[t]
  BY <1>1, AnswersLast
<1>4. ~IsOutput(reply[s]) /\ \A t \in Stages : IsOutput(reply'[t]) <=> IsOutput(reply[t])
  BY <1>1, <1>3, AnswerFacts DEF IsOutput, NotRun, Nothing
<1>5. Latest'
  BY <1>1, <1>3, <1>4 DEF CInv, Latest, IsLast, Precedes
<1> QED BY <1>1, <1>2, <1>5 DEF CInv, LastOutputWins

LEMMA TerminateKeepsContent ==
  ASSUME IInv, CInv, NEW s \in Stages, StageTerminates(s)
  PROVE  CInv'
<1>1. PICK r \in Replies[s] :
        /\ IsOutput(r) /\ IsTerminal(r) /\ Answers(s, r)
        /\ result' = r /\ pc' = "returned" /\ UNCHANGED registryVars
  BY DEF StageTerminates
<1>2. r.by = s /\ r # Error /\ r # Nothing /\ r # NotRun /\ FinalWord(r) /\ pc = "running"
  BY <1>1, OutputIsBy, OutputAnswers, AccessorsRead DEF Answers, IsOutput, NotRun
<1>3. NoStageSilenced'
  BY <1>1, <1>2, EndsWithReason
<1>4. /\ reply'[s] = r
      /\ \A t \in Stages : t # s => reply'[t] = reply[t]
      /\ \A t \in Stages : Precedes(s, t)' => reply'[t] = NotRun
  BY <1>1, AnswersLast
<1>5. \A t \in Stages : reply'[t] # Error
  BY <1>2, <1>4 DEF IInv, Folded
<1>6. \A t \in Stages : IsOutput(reply'[t]) => ~Precedes(s, t)'
  BY <1>4 DEF IsOutput, NotRun
<1>7. LastOutputWins'
  BY <1>1, <1>2, <1>4, <1>5, <1>6 DEF LastOutputWins
<1> QED BY <1>1, <1>3, <1>7 DEF CInv, Walked, Latest

LEMMA ContributeKeepsContent ==
  ASSUME IInv, CInv, NEW s \in Stages, StageContributes(s)
  PROVE  CInv'
<1>1. PICK r \in Replies[s] :
        /\ IsOutput(r) /\ Answers(s, r) /\ final' = r
        /\ pos' = pos + 1 /\ UNCHANGED <<registryVars, pc, result>>
  BY DEF StageContributes
<1>2. r.by = s /\ r # NotRun /\ pc = "running"
  BY <1>1, OutputIsBy DEF Answers, IsOutput, NotRun
<1>3. Walked' /\ NoStageSilenced'
  BY <1>1, <1>2, WalksOn
<1>4. /\ reply'[s] = r
      /\ \A t \in Stages : Precedes(s, t)' => reply'[t] = NotRun
  BY <1>1, AnswersLast
<1>5. \A t \in Stages : IsOutput(reply'[t]) => ~Precedes(s, t)'
  BY <1>4 DEF IsOutput, NotRun
<1>6. Latest'
  BY <1>1, <1>2, <1>4, <1>5 DEF Latest, IsLast
<1> QED BY <1>1, <1>2, <1>3, <1>6 DEF CInv, LastOutputWins

(* Assembling the result writes the decision and nothing else.              *)
LEMMA ReturnKeepsContent ==
  ASSUME IInv, CInv, Return
  PROVE  CInv'
<1>1. /\ pc = "running" /\ pc' = "returned" /\ pos > Len(Bucket)
      /\ Bucket' = Bucket /\ UNCHANGED <<tool, reply>>
      /\ result' = IF ~IsOutput(final) THEN Nothing
                   ELSE IF combined # None THEN SetDecision(final, combined) ELSE final
  BY DEF Return, registryVars, Bucket
<1>2. kind \in HookKind /\ Bucket \in Seq(Stages) /\ pos \in Nat
  BY RequestAssumption DEF IInv, TypeOK, Bucket
<1>3. NoStageSilenced'
  <2>1. \A i \in DOMAIN Bucket : ToolNamesMatch(Bucket[i], tool) => reply[Bucket[i]] # NotRun
    BY <1>1, <1>2 DEF CInv, Walked
  <2> QED BY <1>1, <2>1 DEF NoStageSilenced, ToolNamesMatch
<1>4. \A t \in Stages : reply[t] # Error /\ (IsOutput(reply[t]) => IsOutput(final))
  BY <1>1 DEF IInv, Folded
<1>5. CASE ~IsOutput(final)
  <2>1. result' = Nothing /\ result' # Error /\ ~IsOutput(result')
    BY <1>1, <1>5 DEF Nothing, Error, IsOutput
  <2>2. LastOutputWins'
    BY <1>1, <1>4, <1>5, <2>1 DEF LastOutputWins
  <2> QED BY <1>1, <1>3, <2>2 DEF CInv, Walked, Latest
<1>6. CASE IsOutput(final)
  <2>1. PICK t \in Stages : final = reply[t]
    BY <1>1, <1>6 DEF IInv, Folded
  <2>2. final \in Output(t)
    BY <1>6, <2>1, OutputAnswers DEF IInv, Bucketed
  <2>3. IsOutput(result') /\ result'.by = final.by
    BY <1>1, <1>6, <2>2 DEF SetDecision, Output, IsOutput
  <2>4. result' # Error /\ result' # Nothing
    BY <2>3 DEF IsOutput, Error, Nothing
  <2>5. IsLast(final.by)
    BY <1>1, <1>6 DEF CInv, Latest
  <2>6. LastOutputWins'
    BY <1>1, <1>4, <2>3, <2>4, <2>5 DEF LastOutputWins, IsLast, Precedes
  <2> QED BY <1>1, <1>3, <2>6 DEF CInv, Walked, Latest
<1> QED BY <1>5, <1>6

LEMMA ContentNext == IInv /\ CInv /\ [Next]_vars => CInv'
<1> SUFFICES ASSUME IInv, CInv, [Next]_vars PROVE CInv'
  OBVIOUS
<1>1. CASE UNCHANGED vars
  BY <1>1 DEF vars, CInv, Walked, Latest, IsLast, NoStageSilenced, LastOutputWins, Precedes, Bucket, ToolNamesMatch
<1>2. CASE Next
  BY <1>2, QuietKeepsContent, SkipKeepsContent, ErrKeepsContent, PassKeepsContent, TerminateKeepsContent,
     ContributeKeepsContent, ReturnKeepsContent DEF Next, Run
<1> QED BY <1>1, <1>2

LEMMA ContentInvariant == Spec => []CInv
  BY PipelineInvariant, ContentInit, ContentNext, PTL DEF Spec

-----------------------------------------------------------------------------
(* An output that is returned was given by a stage: only its decision may   *)
(* be another, and then it is Allow or Ask.                                 *)
AsGiven(o) ==
  \E s \in Stages :
    /\ IsOutput(reply[s])
    /\ \/ o = reply[s]
       \/ \E d \in {"Allow", "Ask"} : o = [reply[s] EXCEPT !.decision = d]

ResultAsGiven == pc = "returned" => result \in {Error, Nothing} \/ AsGiven(result)

LEMMA AsGivenInit == Init => ResultAsGiven
  BY DEF Init, ResultAsGiven

LEMMA AsGivenNext == IInv /\ ResultAsGiven /\ [Next]_vars => ResultAsGiven'
<1> SUFFICES ASSUME IInv, ResultAsGiven, [Next]_vars PROVE ResultAsGiven'
  OBVIOUS
<1>1. CASE UNCHANGED vars
  BY <1>1 DEF vars, ResultAsGiven, AsGiven
<1>2. CASE (\E s \in Stages : Register(s)) \/ RunPipeline \/ Skip
  BY <1>2 DEF Register, RunPipeline, Skip, ResultAsGiven
<1>3. ASSUME NEW s \in Stages, StageErrs(s) \/ StagePasses(s) \/ StageContributes(s)
      PROVE  ResultAsGiven'
  BY <1>3 DEF StageErrs, StagePasses, StageContributes, Answers, ResultAsGiven
<1>4. ASSUME NEW s \in Stages, StageTerminates(s) PROVE ResultAsGiven'
  <2>1. PICK r \in Replies[s] : IsOutput(r) /\ Answers(s, r) /\ result' = r
    BY <1>4 DEF StageTerminates
  <2>2. reply'[s] = r
    BY <2>1, AnswerFacts DEF IInv, TypeOK
  <2> QED BY <2>1, <2>2 DEF ResultAsGiven, AsGiven
<1>5. CASE Return
  <2>1. pc = "running" /\ reply' = reply
    BY <1>5 DEF Return
  <2>2. CASE ~IsOutput(final)
    BY <1>5, <2>2 DEF Return, ResultAsGiven
  <2>3. CASE IsOutput(final)
    <3>1. PICK t \in Stages : final = reply[t]
      BY <2>1, <2>3 DEF IInv, Folded
    <3>2. combined \in {"Allow", "Ask", None}
      BY DEF IInv, TypeOK
    <3>3. result' = final \/ \E d \in {"Allow", "Ask"} : result' = [final EXCEPT !.decision = d]
      BY <1>5, <2>3, <3>2 DEF Return, SetDecision
    <3> QED BY <2>1, <2>3, <3>1, <3>3 DEF ResultAsGiven, AsGiven
  <2> QED BY <2>2, <2>3
<1> QED BY <1>1, <1>2, <1>3, <1>4, <1>5 DEF Next, Run

-----------------------------------------------------------------------------
(* Whatever stages are registered, in whatever order, run_pipeline passes   *)
(* over a stage only when its tool names do not match or a stage before it  *)
(* failed or had the final word.                                            *)
THEOREM NobodySilenced == Spec => []NoStageSilenced
<1>1. CInv => NoStageSilenced
  BY DEF CInv
<1> QED BY <1>1, ContentInvariant, PTL

(* The content of the result is that of the last stage that gave an output, *)
(* and the error of any stage discards all of it.                           *)
THEOREM LastOutputIsReturned == Spec => []LastOutputWins
<1>1. CInv => LastOutputWins
  BY DEF CInv
<1> QED BY <1>1, ContentInvariant, PTL
=============================================================================
