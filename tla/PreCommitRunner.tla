-------------------------- MODULE PreCommitRunner --------------------------
(***************************************************************************)
(* crates/stages/src/pre_commit_runner.rs: the pre-commit stage, run by    *)
(* several inceptool processes that the host starts after each edit.       *)
(*                                                                         *)
(* A process walks the hooks of .pre-commit-config.yaml in order; for each *)
(* one that applies it reads the edited file, spawns the hook's program,   *)
(* waits for it and reads the file again.  Nothing locks the file: between *)
(* any two of these steps the agent may edit it again and the programs     *)
(* another process spawned may rewrite it.  A hook program is external: it *)
(* reads the file when it starts and writes its version when it exits.     *)
(***************************************************************************)
EXTENDS Integers, Sequences, SequencesExt

CONSTANTS
  Procs,     \* inceptool processes, each started by one edit of the file
  Texts,     \* what the file can hold and read_to_string can read
  Edits,     \* the texts the agent writes
  Configs,   \* the hook lists a repository may declare
  Effect,    \* what a hook's program makes of a text: a set of [text, ok]
  Requests   \* what the invocation looks like before any hook is considered

(* The file after a program deleted it or wrote what is not UTF-8. *)
Unreadable == "unreadable"

(* Option::None *)
None == "none"

Contents == Texts \cup {Unreadable}

(* How a hook's pattern fares on the path of the file: no pattern, a match,  *)
(* no match, a pattern that does not compile, and one whose matching fails.  *)
Pattern == {"absent", "match", "miss", "invalid", "fails"}

(* entry: "absent" also stands for a blank one, "missing" for a program that *)
(* cannot be spawned.                                                        *)
Hook ==
  [id : STRING, entry : {"absent", "missing", "present"}, always_run : BOOLEAN,
   files : Pattern, exclude : Pattern]

(* Before the hook loop run either fails, passes, or goes on. *)
Request == {"bad_input", "no_file", "no_cwd", "no_config", "bad_config", "ready"}

HookIds == UNION {{c[i].id : i \in DOMAIN c} : c \in Configs}

ASSUME ConfigsAssumption == Configs \subseteq Seq(Hook)

ASSUME TextsAssumption == Unreadable \notin Texts /\ None \notin Texts /\ Edits \subseteq Texts

ASSUME EffectAssumption ==
  Effect \in [HookIds -> [Texts -> SUBSET [text : Contents, ok : BOOLEAN]]]

ASSUME RequestsAssumption == Requests \subseteq Request

VARIABLES
  config,  \* the parsed .pre-commit-config.yaml
  file,    \* content of the edited file
  pc,      \* where each process is
  at,      \* the hook of the loop each process is at
  before,  \* content_before of that hook
  input,   \* the content the spawned program read
  succeeded,      \* output.status.success() of the program that exited
  outcome, \* RunOutcome
  result,  \* what Stage::run returned
  edit,    \* history: the agent's last edit: its text, whether it met no run
           \* under way, and the runs that were over by then
  trace    \* history of each run: see Fresh

vars == <<config, file, pc, at, before, input, succeeded, outcome, result, edit, trace>>

-----------------------------------------------------------------------------
(* Nothing recorded yet: RunOutcome::default(). *)
NoOutcome == [initial_content |-> None, final_content |-> None,
              modified_by |-> << >>, failures |-> << >>]

(* The diff of a report without one: unified_diff is None. *)
NoDiff == << >>

Nothing == [tag |-> "nothing"]
Error   == [tag |-> "error"]
Running == [tag |-> "running"]

(* History: the content at the start and the end of the run, the hooks whose *)
(* program changed the file, the places in the list of those whose program   *)
(* exited non-zero or left the file unreadable to the second read, and       *)
(* whether anybody else wrote the file in between.                           *)
Fresh(text) == [start |-> text, end |-> None, changed |-> << >>, failed |-> {},
                unread |-> {}, disturbed |-> FALSE]

Active(p) == pc[p] \notin {"idle", "done"}

(* Somebody other than p (or the agent, when p = None) wrote the file. *)
Disturb(p, t) ==
  [q \in Procs |-> IF q # p /\ Active(q) THEN [t[q] EXCEPT !.disturbed = TRUE] ELSE t[q]]

Current(p) == config[at[p]]

(* file_matches_hook *)
FileMatchesHook(h) ==
  \/ h.always_run
  \/ h.files \in {"absent", "match"} /\ h.exclude \in {"absent", "miss", "fails"}

(* Fault: every hook's "before" moves the first endpoint. *)
Record_LastBefore(o, id, contentBefore, contentAfter, success) ==
  [initial_content |-> contentBefore,
   final_content   |-> contentAfter,
   modified_by     |-> IF contentBefore # contentAfter THEN Append(o.modified_by, id)
                       ELSE o.modified_by,
   failures        |-> IF success THEN o.failures ELSE Append(o.failures, id)]

(* Fault: only the first hook's "after" is kept. *)
Record_FirstAfter(o, id, contentBefore, contentAfter, success) ==
  [initial_content |-> IF o.initial_content = None THEN contentBefore ELSE o.initial_content,
   final_content   |-> IF o.final_content = None THEN contentAfter ELSE o.final_content,
   modified_by     |-> IF contentBefore # contentAfter THEN Append(o.modified_by, id)
                       ELSE o.modified_by,
   failures        |-> IF success THEN o.failures ELSE Append(o.failures, id)]

(* Fault: every hook that ran is said to have changed the file. *)
Record_NamesAll(o, id, contentBefore, contentAfter, success) ==
  [initial_content |-> IF o.initial_content = None THEN contentBefore ELSE o.initial_content,
   final_content   |-> contentAfter,
   modified_by     |-> Append(o.modified_by, id),
   failures        |-> IF success THEN o.failures ELSE Append(o.failures, id)]

(* RunOutcome::record *)
Record(o, id, contentBefore, contentAfter, success) ==
  [initial_content |-> IF o.initial_content = None THEN contentBefore ELSE o.initial_content,
   final_content   |-> contentAfter,
   modified_by     |-> IF contentBefore # contentAfter THEN Append(o.modified_by, id)
                       ELSE o.modified_by,
   failures        |-> IF success THEN o.failures ELSE Append(o.failures, id)]

(* Fault: a diff hides the failures. *)
Report_DiffHidesFailures(o) ==
  IF o.initial_content # o.final_content
  THEN [tag |-> "report", diff |-> <<o.initial_content, o.final_content>>,
        hook_ids |-> o.modified_by, failures |-> << >>]
  ELSE IF o.failures = << >> THEN Nothing
  ELSE [tag |-> "report", diff |-> NoDiff, hook_ids |-> << >>, failures |-> o.failures]

(* PreCommitReport::new, with None for a report that would be empty. *)
Report(o) ==
  LET net == o.initial_content # o.final_content
  IN  IF ~net /\ o.failures = << >> THEN Nothing
      ELSE [tag |-> "report",
            diff |-> IF net THEN <<o.initial_content, o.final_content>> ELSE NoDiff,
            hook_ids |-> IF net THEN o.modified_by ELSE << >>,
            failures |-> o.failures]

-----------------------------------------------------------------------------
Init ==
  /\ config \in Configs
  /\ file \in Edits
  /\ pc = [p \in Procs |-> "idle"]
  /\ at = [p \in Procs |-> 1]
  /\ before = [p \in Procs |-> None]
  /\ input = [p \in Procs |-> None]
  /\ succeeded = [p \in Procs |-> TRUE]
  /\ outcome = [p \in Procs |-> NoOutcome]
  /\ result = [p \in Procs |-> Running]
  /\ edit = [text |-> file, quiet |-> TRUE, over |-> {}]
  /\ trace = [p \in Procs |-> Fresh(file)]

(* The agent edits the file with a write tool; the host then starts p. *)
Edit(p) ==
  /\ pc[p] = "idle"
  /\ \E e \in Edits : file' = e
  /\ pc' = [pc EXCEPT ![p] = "started"]
  /\ edit' = [text |-> file', over |-> {q \in Procs : pc[q] = "done"},
              quiet |-> \A q \in Procs : pc[q] \in {"idle", "started", "done"}]
  /\ trace' = [Disturb(p, trace) EXCEPT ![p] = Fresh(file')]
  /\ UNCHANGED <<config, at, before, input, succeeded, outcome, result>>

(* run, up to the hook loop. *)
Begin(p) ==
  /\ pc[p] = "started"
  /\ \E r \in Requests :
       /\ pc' = [pc EXCEPT ![p] = IF r = "ready" THEN "match" ELSE "done"]
       /\ result' = [result EXCEPT ![p] = CASE r = "ready"     -> Running
                                            [] r = "bad_input" -> Error
                                            [] OTHER           -> Nothing]
       /\ trace' = [trace EXCEPT ![p].end = IF r = "ready" THEN None ELSE file]
  /\ UNCHANGED <<config, edit, file, at, before, input, succeeded, outcome>>

AtHook(p) == pc[p] = "match" /\ at[p] <= Len(config)

NextHook(p) == pc' = [pc EXCEPT ![p] = "match"] /\ at' = [at EXCEPT ![p] = @ + 1]

(* A hook that does not apply, or has nothing to run. *)
SkipHook(p) ==
  /\ AtHook(p)
  /\ ~FileMatchesHook(Current(p)) \/ Current(p).entry = "absent"
  /\ NextHook(p)
  /\ UNCHANGED <<config, edit, file, before, input, succeeded, outcome, result, trace>>

(* Fault: the hook is tried again until the file can be read. *)
ReadBeforeFails_Waits(p) ==
  /\ AtHook(p) /\ FileMatchesHook(Current(p)) /\ Current(p).entry # "absent"
  /\ file = Unreadable
  /\ UNCHANGED vars

(* read_snapshot "before" fails: the hook is dropped, its program not run. *)
ReadBeforeFails(p) ==
  /\ AtHook(p) /\ FileMatchesHook(Current(p)) /\ Current(p).entry # "absent"
  /\ file = Unreadable
  /\ NextHook(p)
  /\ UNCHANGED <<config, edit, file, before, input, succeeded, outcome, result, trace>>

ReadBefore(p) ==
  /\ AtHook(p) /\ FileMatchesHook(Current(p)) /\ Current(p).entry # "absent"
  /\ file # Unreadable
  /\ before' = [before EXCEPT ![p] = file]
  /\ pc' = [pc EXCEPT ![p] = "spawn"]
  /\ UNCHANGED <<config, edit, file, at, input, succeeded, outcome, result, trace>>

(* spawn_hook: Command::output cannot start the program. *)
SpawnFails(p) ==
  /\ pc[p] = "spawn" /\ Current(p).entry = "missing"
  /\ NextHook(p)
  /\ UNCHANGED <<config, edit, file, before, input, succeeded, outcome, result, trace>>

SpawnHook(p) ==
  /\ pc[p] = "spawn" /\ Current(p).entry = "present"
  /\ input' = [input EXCEPT ![p] = file]
  /\ pc' = [pc EXCEPT ![p] = "running"]
  /\ UNCHANGED <<config, edit, file, at, before, succeeded, outcome, result, trace>>

(* External: the hook's program writes its version of what it read, if it   *)
(* has another, and exits.  On a file it cannot read it just fails.          *)
HookExits(p) ==
  /\ pc[p] = "running"
  /\ \E e \in IF input[p] = Unreadable THEN {[text |-> Unreadable, ok |-> FALSE]}
              ELSE Effect[Current(p).id][input[p]] :
       LET writes == e.text # input[p]
       IN  /\ file' = IF writes THEN e.text ELSE file
           /\ succeeded' = [succeeded EXCEPT ![p] = e.ok]
           /\ trace' = [(IF writes THEN Disturb(p, trace) ELSE trace) EXCEPT
                ![p].changed = IF writes THEN Append(@, Current(p).id) ELSE @,
                ![p].failed  = IF e.ok THEN @ ELSE @ \cup {at[p]}]
  /\ pc' = [pc EXCEPT ![p] = "exited"]
  /\ UNCHANGED <<config, edit, at, before, input, outcome, result>>

(* read_snapshot "after" fails: run_hook returns None and the exit status   *)
(* is lost with it.                                                         *)
ReadAfterFails(p) ==
  /\ pc[p] = "exited" /\ file = Unreadable
  /\ NextHook(p)
  /\ trace' = [trace EXCEPT ![p].unread = @ \cup {at[p]}]
  /\ UNCHANGED <<config, edit, file, before, input, succeeded, outcome, result>>

ReadAfter(p) ==
  /\ pc[p] = "exited" /\ file # Unreadable
  /\ outcome' = [outcome EXCEPT ![p] = Record(@, Current(p).id, before[p], file, succeeded[p])]
  /\ NextHook(p)
  /\ UNCHANGED <<config, edit, file, before, input, succeeded, result, trace>>

Finish(p) ==
  /\ pc[p] = "match" /\ at[p] > Len(config)
  /\ result' = [result EXCEPT ![p] = Report(outcome[p])]
  /\ pc' = [pc EXCEPT ![p] = "done"]
  /\ trace' = [trace EXCEPT ![p].end = file]
  /\ UNCHANGED <<config, edit, file, at, before, input, succeeded, outcome>>

(* What the processes do, given that the agent makes its edits. *)
Step(p) ==
  \/ Begin(p) \/ SkipHook(p) \/ ReadBeforeFails(p) \/ ReadBefore(p) \/ SpawnFails(p)
  \/ SpawnHook(p) \/ HookExits(p) \/ ReadAfterFails(p) \/ ReadAfter(p) \/ Finish(p)

Next == \E p \in Procs : Edit(p) \/ Step(p)

(* The scheduler runs every started process, and hook programs exit. *)
Fairness == \A p \in Procs : WF_vars(Step(p))

Spec == Init /\ [][Next]_vars /\ Fairness

-----------------------------------------------------------------------------
Reported(p)       == result[p].tag = "report"
DiffOf(p)         == IF Reported(p) THEN result[p].diff ELSE NoDiff
FailuresOf(p)     == IF Reported(p) THEN result[p].failures ELSE << >>

(* The ids are those of the hooks at these places of a list, in its order. *)
Lists(hooks, ids, places) ==
  \E place \in [DOMAIN ids -> places] :
    /\ places = {place[i] : i \in DOMAIN ids}
    /\ \A i, j \in DOMAIN ids : i < j => place[i] < place[j]
    /\ \A i \in DOMAIN ids : ids[i] = hooks[place[i]].id

(* A run that ended with the file readable and nobody else at it. *)
Alone(p) == pc[p] = "done" /\ ~trace[p].disturbed /\ trace[p].end # Unreadable

(* Left alone, a run reports one diff, from the content before its first    *)
(* hook to the content after its last one, and only if the two differ:      *)
(* hooks that undo each other are not reported, and a hook that was dropped *)
(* (no entry, no program, unreadable file) does not move either endpoint.   *)
NetDiffExact ==
  \A p \in Procs : Alone(p) =>
    DiffOf(p) = IF trace[p].start = trace[p].end THEN NoDiff
                ELSE <<trace[p].start, trace[p].end>>

(* Left alone, a run attributes its diff to exactly the hooks whose program *)
(* changed the file, in the order they did.                                 *)
AttributionExact ==
  \A p \in Procs : Alone(p) /\ DiffOf(p) # NoDiff => result[p].hook_ids = trace[p].changed

(* A hook that exits non-zero is reported, in order, whatever it and others *)
(* did to the file - unless the file could not be read when it had exited,  *)
(* which a run left alone never meets if the file is readable at its end:   *)
(* no hook is run on an unreadable file, so none can mend it.               *)
FailuresReported ==
  \A p \in Procs : pc[p] = "done" =>
    /\ Lists(config, FailuresOf(p), trace[p].failed \ trace[p].unread)
    /\ Alone(p) => trace[p].unread = {}

(* Each program of the list that changes a text makes one of a higher rank. *)
Rises(hooks, rank) ==
  \A i \in DOMAIN hooks : \A t \in Texts : \A does \in Effect[hooks[i].id][t] :
    does.text # t => does.text \in Texts /\ rank[does.text] > rank[t]

(* No hook of the list brings back a text another one has changed. *)
Converging(hooks) == \E rank \in [Texts -> 1 .. Cardinality(Texts)] : Rises(hooks, rank)

(* With hooks that never bring back a text they have changed, and an edit    *)
(* that came while no hooks were being run, a rewrite of that edit is        *)
(* reported: however the runs of several processes interleave, one of them   *)
(* shows a diff that starts from what the agent wrote.                       *)
SomeoneReports ==
  (\A p \in Procs : pc[p] \in {"idle", "done"}) /\ edit.quiet /\ file # edit.text /\ Converging(config) =>
    \E p \in Procs \ edit.over : DiffOf(p) # NoDiff /\ DiffOf(p)[1] = edit.text

(* Every run that is started comes to its end, whatever the hooks do to the *)
(* file, as long as their programs exit.                                    *)
EveryRunEnds == \A p \in Procs : pc[p] = "started" ~> pc[p] = "done"

(* The module's account of itself: a report has one block per failing hook, *)
(* and the stage passes through silently when no hook failed.               *)
EveryFailureHasABlock ==
  \A p \in Procs : pc[p] = "done" => Lists(config, FailuresOf(p), trace[p].failed)
=============================================================================
