-------------------------- MODULE PreCommitProofs --------------------------
(***************************************************************************)
(* What the pre-commit stage reports, proved for any number of processes,  *)
(* any hook lists and any programs behind the hooks.                       *)
(***************************************************************************)
EXTENDS PreCommitRunner, FiniteSets, TLAPS

Station == {"idle", "started", "match", "spawn", "running", "exited", "done"}

Outcome ==
  {o \in [initial_content : Texts \cup {None}, final_content : Texts \cup {None},
          modified_by : Seq(HookIds), failures : Seq(HookIds)] :
     o.initial_content = None <=> o.final_content = None}

ReportType ==
  [tag : {"report"}, diff : {NoDiff} \cup (Texts \X Texts),
   hook_ids : Seq(HookIds), failures : Seq(HookIds)]

History ==
  [start : Contents, end : Contents \cup {None}, changed : Seq(HookIds),
   failed : SUBSET Nat, unread : SUBSET Nat, disturbed : BOOLEAN]

TypeOK ==
  /\ config \in Configs
  /\ file \in Contents
  /\ pc \in [Procs -> Station]
  /\ at \in [Procs -> Nat \ {0}]
  /\ before \in [Procs -> Texts \cup {None}]
  /\ input \in [Procs -> Contents \cup {None}]
  /\ succeeded \in [Procs -> BOOLEAN]
  /\ outcome \in [Procs -> Outcome]
  /\ result \in [Procs -> {Nothing, Error, Running} \cup ReportType]
  /\ edit \in [text : Texts, quiet : BOOLEAN, over : SUBSET Procs]
  /\ trace \in [Procs -> History]

(* A run before its loop has recorded nothing; one at a hook's program is at *)
(* a hook of the list and has read the file for it.                          *)
Placed(p) ==
  /\ pc[p] \in {"idle", "started"} => at[p] = 1 /\ outcome[p] = NoOutcome
  /\ pc[p] \in {"spawn", "running", "exited"} => at[p] \in DOMAIN config /\ before[p] \in Texts
  /\ pc[p] = "running" => input[p] \in Contents

Shape == TypeOK /\ \A p \in Procs : Placed(p)

-----------------------------------------------------------------------------
(* The lists, the programs, the two functions of the source.                *)

LEMMA HooksOfConfig ==
  ASSUME Shape, NEW p \in Procs, at[p] \in DOMAIN config
  PROVE  Current(p) \in Hook /\ Current(p).id \in HookIds /\ Current(p).id = config[at[p]].id
<1>1. config \in Configs /\ config \in Seq(Hook)
  BY ConfigsAssumption DEF Shape, TypeOK
<1>2. Current(p) \in Hook
  BY <1>1 DEF Current
<1> QED BY <1>1, <1>2 DEF Current, HookIds

LEMMA RecordType ==
  ASSUME NEW o \in Outcome, NEW id \in HookIds, NEW b \in Texts, NEW a \in Texts, NEW s \in BOOLEAN
  PROVE  LET r == Record(o, id, b, a, s)
         IN  /\ r \in Outcome
             /\ r.initial_content = IF o.initial_content = None THEN b ELSE o.initial_content
             /\ r.final_content = a
             /\ r.modified_by = IF b # a THEN Append(o.modified_by, id) ELSE o.modified_by
             /\ r.failures = IF s THEN o.failures ELSE Append(o.failures, id)
             /\ r.initial_content \in Texts
<1> DEFINE r == Record(o, id, b, a, s)
<1>1. /\ r.initial_content = IF o.initial_content = None THEN b ELSE o.initial_content
      /\ r.final_content = a
      /\ r.modified_by = IF b # a THEN Append(o.modified_by, id) ELSE o.modified_by
      /\ r.failures = IF s THEN o.failures ELSE Append(o.failures, id)
  BY DEF Record
<1>2. r.initial_content \in Texts
  BY <1>1 DEF Outcome
<1>3. r \in Outcome
  BY <1>1, <1>2, TextsAssumption DEF Record, Outcome
<1> QED BY <1>1, <1>2, <1>3

LEMMA NoOutcomeType == NoOutcome \in Outcome
  BY DEF NoOutcome, Outcome

LEMMA FreshType == \A t \in Contents : Fresh(t) \in History
  BY DEF Fresh, History

LEMMA HistoryUpdated ==
  ASSUME NEW h \in History
  PROVE  /\ \A c \in Contents \cup {None} : [h EXCEPT !.end = c] \in History
         /\ \A n \in Nat : [h EXCEPT !.unread = @ \cup {n}] \in History
         /\ \A ids \in Seq(HookIds), ps \in SUBSET Nat :
              [h EXCEPT !.changed = ids, !.failed = ps] \in History
<1>1. \A c \in Contents \cup {None} : [h EXCEPT !.end = c] \in History
  BY DEF History
<1>2. \A n \in Nat : [h EXCEPT !.unread = @ \cup {n}] \in History
  <2> SUFFICES ASSUME NEW n \in Nat PROVE [h EXCEPT !.unread = @ \cup {n}] \in History
    OBVIOUS
  <2>1. h.unread \cup {n} \in SUBSET Nat
    BY DEF History
  <2> QED BY <2>1 DEF History
<1>3. \A ids \in Seq(HookIds), ps \in SUBSET Nat : [h EXCEPT !.changed = ids, !.failed = ps] \in History
  BY DEF History
<1> QED BY <1>1, <1>2, <1>3

LEMMA ReportIs ==
  ASSUME NEW o \in Outcome
  PROVE  IF o.initial_content = o.final_content /\ o.failures = << >> THEN Report(o) = Nothing
         ELSE /\ Report(o) \in ReportType
              /\ Report(o).failures = o.failures
              /\ Report(o).diff = IF o.initial_content = o.final_content THEN NoDiff
                                  ELSE <<o.initial_content, o.final_content>>
              /\ o.initial_content # o.final_content => Report(o).hook_ids = o.modified_by
<1>1. CASE o.initial_content = o.final_content
  BY <1>1 DEF Report, ReportType, Outcome
<1>2. CASE o.initial_content # o.final_content
  <2>1. o.initial_content \in Texts /\ o.final_content \in Texts
    BY <1>2 DEF Outcome
  <2>2. <<o.initial_content, o.final_content>> \in Texts \X Texts
    BY <2>1
  <2>3. Report(o) = [tag |-> "report", diff |-> <<o.initial_content, o.final_content>>,
                     hook_ids |-> o.modified_by, failures |-> o.failures]
    BY <1>2 DEF Report
  <2>4. o.modified_by \in Seq(HookIds) /\ o.failures \in Seq(HookIds)
    BY DEF Outcome
  <2> QED BY <1>2, <2>2, <2>3, <2>4 DEF ReportType
<1> QED BY <1>1, <1>2

LEMMA ListsNone == ASSUME NEW hooks PROVE Lists(hooks, << >>, {})
<1>1. [i \in {} |-> i] \in [DOMAIN << >> -> {}]
  OBVIOUS
<1> QED BY <1>1 DEF Lists

(* One more place after all the others, and the id of its hook.             *)
LEMMA ListsMore ==
  ASSUME NEW hooks, NEW S, NEW ids \in Seq(S), NEW places \in SUBSET Nat, Lists(hooks, ids, places),
         NEW n \in Nat, \A m \in places : m < n, NEW id \in S, id = hooks[n].id
  PROVE  Lists(hooks, Append(ids, id), places \cup {n})
<1> DEFINE more == Append(ids, id)
<1>1. PICK place \in [DOMAIN ids -> places] :
        /\ places = {place[i] : i \in DOMAIN ids}
        /\ \A i, j \in DOMAIN ids : i < j => place[i] < place[j]
        /\ \A i \in DOMAIN ids : ids[i] = hooks[place[i]].id
  BY DEF Lists
<1> DEFINE next == [i \in DOMAIN more |-> IF i \in DOMAIN ids THEN place[i] ELSE n]
<1>2. /\ DOMAIN ids = 1 .. Len(ids) /\ Len(ids) \in Nat
      /\ DOMAIN more = 1 .. Len(ids) + 1
      /\ more[Len(ids) + 1] = id
      /\ \A i \in DOMAIN ids : more[i] = ids[i]
  OBVIOUS
<1>3. DOMAIN more = DOMAIN ids \cup {Len(ids) + 1} /\ Len(ids) + 1 \notin DOMAIN ids
  BY <1>2
<1>4. next \in [DOMAIN more -> places \cup {n}]
  BY <1>1
<1>5. next[Len(ids) + 1] = n /\ \A i \in DOMAIN ids : next[i] = place[i]
  BY <1>3
<1>6. places \cup {n} = {next[i] : i \in DOMAIN more}
  <2>1. {next[i] : i \in DOMAIN more} = {next[i] : i \in DOMAIN ids} \cup {next[Len(ids) + 1]}
    BY <1>3
  <2>2. {next[i] : i \in DOMAIN ids} = {place[i] : i \in DOMAIN ids}
    BY <1>5
  <2> QED BY <1>1, <1>5, <2>1, <2>2
<1>7. \A i, j \in DOMAIN more : i < j => next[i] < next[j]
  <2> SUFFICES ASSUME NEW i \in DOMAIN more, NEW j \in DOMAIN more, i < j PROVE next[i] < next[j]
    OBVIOUS
  <2>1. i \in DOMAIN ids
    BY <1>2
  <2>2. next[i] = place[i] /\ place[i] \in places
    BY <1>1, <1>5, <2>1
  <2>3. CASE j \in DOMAIN ids
    BY <1>1, <1>5, <2>1, <2>2, <2>3
  <2>4. CASE j = Len(ids) + 1
    BY <1>5, <2>2, <2>4
  <2> QED BY <1>3, <2>3, <2>4
<1>8. \A i \in DOMAIN more : more[i] = hooks[next[i]].id
  BY <1>1, <1>2, <1>3, <1>5
<1> HIDE DEF next, more
<1> QED BY <1>4, <1>6, <1>7, <1>8 DEF Lists, more

-----------------------------------------------------------------------------
(* The shape of the state.                                                  *)

LEMMA ShapeInit == Init => Shape
  BY TextsAssumption, NoOutcomeType, FreshType
  DEF Init, Shape, TypeOK, Placed, Station, Contents

LEMMA DisturbType ==
  ASSUME TypeOK, NEW p
  PROVE  /\ Disturb(p, trace) \in [Procs -> History]
         /\ \A q \in Procs : Disturb(p, trace)[q] =
              IF q # p /\ Active(q) THEN [trace[q] EXCEPT !.disturbed = TRUE] ELSE trace[q]
  BY DEF TypeOK, Disturb, History

(* What a program's exit does, with the answer of the program named.        *)
LEMMA Exit ==
  ASSUME Shape, NEW p \in Procs, HookExits(p)
  PROVE  \E e \in [text : Contents, ok : BOOLEAN] :
           /\ IF input[p] = Unreadable THEN e = [text |-> Unreadable, ok |-> FALSE]
              ELSE input[p] \in Texts /\ e \in Effect[Current(p).id][input[p]]
           /\ file' = IF e.text # input[p] THEN e.text ELSE file
           /\ succeeded' = [succeeded EXCEPT ![p] = e.ok]
           /\ trace' \in [Procs -> History]
           /\ trace'[p] = [trace[p] EXCEPT
                 !.changed = IF e.text # input[p] THEN Append(@, Current(p).id) ELSE @,
                 !.failed  = IF e.ok THEN @ ELSE @ \cup {at[p]}]
           /\ \A q \in Procs \ {p} :
                trace'[q] = IF e.text # input[p] /\ Active(q)
                            THEN [trace[q] EXCEPT !.disturbed = TRUE] ELSE trace[q]
<1>1. /\ pc[p] = "running" /\ TypeOK /\ Placed(p)
      /\ Current(p).id \in HookIds
      /\ input[p] \in Contents
      /\ at[p] \in Nat
  BY HooksOfConfig DEF Shape, TypeOK, Placed, HookExits
<1> DEFINE answers == IF input[p] = Unreadable THEN {[text |-> Unreadable, ok |-> FALSE]}
                      ELSE Effect[Current(p).id][input[p]]
           seen(e) == IF e.text # input[p] THEN Disturb(p, trace) ELSE trace
<1>2. PICK e \in answers :
        /\ file' = IF e.text # input[p] THEN e.text ELSE file
        /\ succeeded' = [succeeded EXCEPT ![p] = e.ok]
        /\ trace' = [seen(e) EXCEPT
              ![p].changed = IF e.text # input[p] THEN Append(@, Current(p).id) ELSE @,
              ![p].failed  = IF e.ok THEN @ ELSE @ \cup {at[p]}]
  BY DEF HookExits
<1>3. input[p] # Unreadable => input[p] \in Texts
  BY <1>1 DEF Contents
<1>4. e \in [text : Contents, ok : BOOLEAN]
  <2>1. CASE input[p] = Unreadable
    <3>1. e = [text |-> Unreadable, ok |-> FALSE]
      BY <2>1
    <3>2. Unreadable \in Contents
      BY DEF Contents
    <3> QED BY <3>1, <3>2
  <2>2. CASE input[p] # Unreadable
    <3>1. Effect[Current(p).id][input[p]] \in SUBSET [text : Contents, ok : BOOLEAN]
      BY <1>1, <1>3, <2>2, EffectAssumption
    <3> QED BY <2>2, <3>1
  <2> QED BY <2>1, <2>2
<1>5. /\ seen(e) \in [Procs -> History]
      /\ seen(e)[p] = trace[p]
      /\ \A q \in Procs \ {p} :
           seen(e)[q] = IF e.text # input[p] /\ Active(q)
                        THEN [trace[q] EXCEPT !.disturbed = TRUE] ELSE trace[q]
  BY <1>1, DisturbType DEF TypeOK
<1> HIDE DEF seen
<1>6. trace[p] \in History
  BY <1>1 DEF TypeOK
<1> DEFINE mine == [trace[p] EXCEPT
                      !.changed = IF e.text # input[p] THEN Append(@, Current(p).id) ELSE @,
                      !.failed  = IF e.ok THEN @ ELSE @ \cup {at[p]}]
<1>7. mine \in History
  <2> DEFINE ids == IF e.text # input[p] THEN Append(trace[p].changed, Current(p).id) ELSE trace[p].changed
             ps  == IF e.ok THEN trace[p].failed ELSE trace[p].failed \cup {at[p]}
  <2>1. ids \in Seq(HookIds) /\ ps \in SUBSET Nat
    BY <1>1, <1>6 DEF History
  <2>2. mine = [trace[p] EXCEPT !.changed = ids, !.failed = ps]
    OBVIOUS
  <2> QED BY <1>6, <2>1, <2>2, HistoryUpdated
<1>8. trace' = [seen(e) EXCEPT ![p] = mine]
  BY <1>2, <1>5, <1>6 DEF History
<1> HIDE DEF mine
<1>9. trace' \in [Procs -> History] /\ trace'[p] = mine /\ \A q \in Procs \ {p} : trace'[q] = seen(e)[q]
  BY <1>5, <1>7, <1>8
<1> QED BY <1>2, <1>3, <1>4, <1>5, <1>9 DEF mine

(* Only p's own variables and the histories change in a step of p.          *)
Still(q) ==
  /\ pc'[q] = pc[q] /\ at'[q] = at[q] /\ before'[q] = before[q] /\ input'[q] = input[q]
  /\ succeeded'[q] = succeeded[q] /\ outcome'[q] = outcome[q] /\ result'[q] = result[q]

LEMMA ShapeNext == ASSUME Shape, NEW p \in Procs, Edit(p) \/ Step(p) PROVE Shape'
<1>1. CASE Edit(p)
  <2>1. file' \in Texts
    BY <1>1, TextsAssumption DEF Edit
  <2>2. trace' \in [Procs -> History]
    BY <1>1, <2>1, DisturbType, FreshType DEF Edit, Shape, Contents
  <2>3. edit' \in [text : Texts, quiet : BOOLEAN, over : SUBSET Procs]
    BY <1>1, <2>1 DEF Edit
  <2>4. TypeOK'
    BY <1>1, <2>1, <2>2, <2>3 DEF Edit, Shape, TypeOK, Station, Contents
  <2> QED BY <1>1, <2>4 DEF Edit, Shape, TypeOK, Placed
<1>2. CASE Begin(p)
  <2>1. trace' \in [Procs -> History]
    <3>1. PICK c \in Contents \cup {None} : trace' = [trace EXCEPT ![p] = [trace[p] EXCEPT !.end = c]]
      BY <1>2 DEF Begin, Shape, TypeOK
    <3>2. [trace[p] EXCEPT !.end = c] \in History
      BY HistoryUpdated DEF Shape, TypeOK
    <3> QED BY <3>1, <3>2 DEF Shape, TypeOK
  <2>2. result' \in [Procs -> {Nothing, Error, Running} \cup ReportType]
    BY <1>2 DEF Begin, Shape, TypeOK
  <2>3. pc' \in [Procs -> Station]
    BY <1>2 DEF Begin, Shape, TypeOK, Station
  <2> QED BY <1>2, <2>1, <2>2, <2>3 DEF Begin, Shape, TypeOK, Placed
<1>3. CASE SkipHook(p) \/ ReadBeforeFails(p) \/ SpawnFails(p)
  <2>1. /\ NextHook(p)
        /\ UNCHANGED <<config, edit, file, before, input, succeeded, outcome, result, trace>>
        /\ pc[p] \notin {"idle", "started"}
    BY <1>3 DEF SkipHook, ReadBeforeFails, SpawnFails, AtHook
  <2> QED BY <2>1 DEF NextHook, Shape, TypeOK, Placed, Station
<1>4. CASE ReadBefore(p)
  <2>1. config \in Seq(Hook) /\ at[p] \in DOMAIN config
    BY <1>4, ConfigsAssumption DEF ReadBefore, AtHook, Shape, TypeOK
  <2>2. file \in Texts
    BY <1>4 DEF ReadBefore, Shape, TypeOK, Contents
  <2> QED BY <1>4, <2>1, <2>2 DEF ReadBefore, Shape, TypeOK, Placed, Station
<1>5. CASE SpawnHook(p)
  <2>1. input'[p] \in Contents
    BY <1>5 DEF SpawnHook, Shape, TypeOK
  <2> QED BY <1>5, <2>1 DEF SpawnHook, Shape, TypeOK, Placed, Station
<1>6. CASE HookExits(p)
  <2>1. PICK e \in [text : Contents, ok : BOOLEAN] :
          /\ file' = IF e.text # input[p] THEN e.text ELSE file
          /\ succeeded' = [succeeded EXCEPT ![p] = e.ok]
          /\ trace' \in [Procs -> History]
    BY <1>6, Exit
  <2> QED BY <1>6, <2>1 DEF HookExits, Shape, TypeOK, Placed, Station
<1>7. CASE ReadAfterFails(p)
  <2>1. trace[p] \in History /\ at[p] \in Nat
    BY DEF Shape, TypeOK
  <2>2. [trace[p] EXCEPT !.unread = @ \cup {at[p]}] \in History
    BY <2>1, HistoryUpdated
  <2>3. trace' = [trace EXCEPT ![p] = [trace[p] EXCEPT !.unread = @ \cup {at[p]}]]
    BY <1>7 DEF ReadAfterFails
  <2>4. trace' \in [Procs -> History]
    BY <2>2, <2>3 DEF Shape, TypeOK
  <2> QED BY <1>7, <2>4 DEF ReadAfterFails, NextHook, Shape, TypeOK, Placed, Station
<1>8. CASE ReadAfter(p)
  <2>1. Current(p).id \in HookIds /\ before[p] \in Texts /\ file \in Texts /\ succeeded[p] \in BOOLEAN
    BY <1>8, HooksOfConfig DEF ReadAfter, Shape, TypeOK, Placed, Contents
  <2>2. outcome' \in [Procs -> Outcome]
    BY <1>8, <2>1, RecordType DEF ReadAfter, Shape, TypeOK
  <2> QED BY <1>8, <2>2 DEF ReadAfter, NextHook, Shape, TypeOK, Placed, Station
<1>9. CASE Finish(p)
  <2>1. trace' \in [Procs -> History]
    BY <1>9, HistoryUpdated DEF Finish, Shape, TypeOK
  <2>2. Report(outcome[p]) \in {Nothing} \cup ReportType
    BY ReportIs DEF Shape, TypeOK
  <2>3. result' \in [Procs -> {Nothing, Error, Running} \cup ReportType]
    BY <1>9, <2>2 DEF Finish, Shape, TypeOK
  <2> QED BY <1>9, <2>1, <2>3 DEF Finish, Shape, TypeOK, Placed, Station
<1> QED BY <1>1, <1>2, <1>3, <1>4, <1>5, <1>6, <1>7, <1>8, <1>9 DEF Step

LEMMA ShapeStutters == Shape /\ UNCHANGED vars => Shape'
  BY DEF vars, Shape, TypeOK, Placed, Current

(* The others keep what is theirs; who wrote the file disturbed them.       *)
LEMMA OthersKeep ==
  ASSUME Shape, NEW p \in Procs, Edit(p) \/ Step(p), NEW q \in Procs, q # p
  PROVE  /\ Still(q) /\ config' = config
         /\ \/ trace'[q] = trace[q] /\ (file' = file \/ ~Active(q))
            \/ trace'[q] = [trace[q] EXCEPT !.disturbed = TRUE] /\ Active(q)
<1>1. CASE Edit(p)
  BY <1>1, DisturbType DEF Edit, Still, Shape, TypeOK
<1>2. CASE HookExits(p)
  <2>1. PICK e \in [text : Contents, ok : BOOLEAN] :
          /\ file' = IF e.text # input[p] THEN e.text ELSE file
          /\ succeeded' = [succeeded EXCEPT ![p] = e.ok]
          /\ trace'[q] = IF e.text # input[p] /\ Active(q)
                         THEN [trace[q] EXCEPT !.disturbed = TRUE] ELSE trace[q]
    BY <1>2, Exit
  <2> QED BY <1>2, <2>1 DEF HookExits, Still, Shape, TypeOK
<1>3. CASE Begin(p) \/ SkipHook(p) \/ ReadBeforeFails(p) \/ ReadBefore(p) \/ SpawnFails(p) \/ SpawnHook(p)
  BY <1>3 DEF Begin, SkipHook, ReadBeforeFails, ReadBefore, SpawnFails, SpawnHook, NextHook, Still, Shape, TypeOK
<1>4. CASE ReadAfterFails(p) \/ ReadAfter(p) \/ Finish(p)
  BY <1>4 DEF ReadAfterFails, ReadAfter, Finish, NextHook, Still, Shape, TypeOK
<1> QED BY <1>1, <1>2, <1>3, <1>4 DEF Step

-----------------------------------------------------------------------------
(* The failures.  While p is at a hook its outcome lists the failures of    *)
(* the hooks before it, the one it is at has failed only between its exit   *)
(* and the second read, and no later one has run.                           *)
FailuresKept(p) ==
  LET t == trace[p]
  IN  /\ Active(p) =>
           /\ Lists(config, outcome[p].failures, {n \in t.failed \ t.unread : n < at[p]})
           /\ \A n \in t.failed : 1 <= n /\ n <= at[p]
           /\ \A n \in t.unread : 1 <= n /\ n < at[p]
           /\ at[p] \in t.failed <=> pc[p] = "exited" /\ ~succeeded[p]
      /\ pc[p] = "started" => t.failed = {} /\ t.unread = {}
      /\ pc[p] = "done" => Lists(config, FailuresOf(p), t.failed \ t.unread)

LEMMA FailuresInit == Init => \A p \in Procs : FailuresKept(p)
  BY DEF Init, FailuresKept, Active

LEMMA FailuresOthers ==
  ASSUME Shape, NEW p \in Procs, Edit(p) \/ Step(p), NEW q \in Procs, q # p, FailuresKept(q)
  PROVE  FailuresKept(q)'
<1>1. /\ Still(q) /\ config' = config
      /\ trace'[q].failed = trace[q].failed /\ trace'[q].unread = trace[q].unread
  <2>1. trace[q] \in History
    BY DEF Shape, TypeOK
  <2>2. [trace[q] EXCEPT !.disturbed = TRUE].failed = trace[q].failed
        /\ [trace[q] EXCEPT !.disturbed = TRUE].unread = trace[q].unread
    BY <2>1 DEF History
  <2> QED BY <2>2, OthersKeep
<1> QED BY <1>1 DEF FailuresKept, Still, Active, FailuresOf, Reported

(* p goes on to its next hook: nothing failed at the one it leaves, or the  *)
(* failure is not read.                                                     *)
LEMMA FailuresGoOn ==
  ASSUME Shape, NEW p \in Procs, FailuresKept(p), Active(p), NextHook(p), config' = config,
         outcome'[p].failures = outcome[p].failures,
         trace'[p].failed = trace[p].failed,
         \/ pc[p] # "exited" /\ trace'[p].unread = trace[p].unread
         \/ trace'[p].unread = trace[p].unread \cup {at[p]}
  PROVE  FailuresKept(p)'
<1> DEFINE t == trace[p]
           kept == {n \in t.failed \ t.unread : n < at[p]}
<1>1. /\ at[p] \in Nat \ {0} /\ t.failed \subseteq Nat /\ t.unread \subseteq Nat
      /\ pc'[p] = "match" /\ at'[p] = at[p] + 1
  BY DEF Shape, TypeOK, NextHook, History
<1>2. Lists(config, outcome[p].failures, kept)
  BY DEF FailuresKept
<1>3. {n \in trace'[p].failed \ trace'[p].unread : n < at'[p]} = kept
  BY <1>1 DEF FailuresKept
<1>4. /\ \A n \in trace'[p].failed : 1 <= n /\ n <= at'[p]
      /\ \A n \in trace'[p].unread : 1 <= n /\ n < at'[p]
      /\ at'[p] \notin trace'[p].failed
  BY <1>1 DEF FailuresKept
<1> QED BY <1>1, <1>2, <1>3, <1>4 DEF FailuresKept

LEMMA FailuresNext ==
  ASSUME Shape, NEW p \in Procs, Edit(p) \/ Step(p), FailuresKept(p)
  PROVE  FailuresKept(p)'
<1> DEFINE t == trace[p]
<1>t. /\ at[p] \in Nat \ {0} /\ t \in History /\ t.failed \subseteq Nat /\ t.unread \subseteq Nat
      /\ outcome[p] \in Outcome /\ outcome[p].failures \in Seq(HookIds)
  BY DEF Shape, TypeOK, History, Outcome
<1>1. CASE Edit(p)
  <2>1. trace'[p] = Fresh(file') /\ pc'[p] = "started" /\ at'[p] = 1 /\ outcome'[p].failures = << >>
    BY <1>1, DisturbType DEF Edit, Shape, TypeOK, Placed, NoOutcome
  <2>2. trace'[p].failed = {} /\ trace'[p].unread = {}
    BY <2>1 DEF Fresh
  <2> QED BY <2>1, <2>2, ListsNone DEF FailuresKept
<1>2. CASE Begin(p)
  <2>1. /\ pc[p] = "started" /\ pc'[p] \in {"match", "done"} /\ config' = config
        /\ at'[p] = at[p] /\ outcome'[p] = outcome[p]
        /\ trace'[p].failed = {} /\ trace'[p].unread = {}
        /\ pc'[p] = "done" => result'[p] \in {Nothing, Error}
    BY <1>2, <1>t DEF Begin, Shape, TypeOK, FailuresKept, History
  <2>2. pc'[p] = "done" => FailuresOf(p)' = << >>
    BY <2>1 DEF FailuresOf, Reported, Nothing, Error
  <2>3. outcome[p].failures = << >>
    BY <2>1 DEF Shape, Placed, NoOutcome
  <2> QED BY <2>1, <2>2, <2>3, <1>t, ListsNone DEF FailuresKept
<1>3. CASE SkipHook(p) \/ ReadBeforeFails(p) \/ SpawnFails(p)
  BY <1>3, FailuresGoOn DEF SkipHook, ReadBeforeFails, SpawnFails, AtHook, Active
<1>4. CASE ReadBefore(p) \/ SpawnHook(p)
  <2>1. /\ pc[p] \in {"match", "spawn"} /\ pc'[p] \in {"spawn", "running"}
        /\ config' = config /\ at' = at /\ outcome' = outcome /\ trace' = trace
    BY <1>4 DEF ReadBefore, SpawnHook, AtHook, Shape, TypeOK
  <2> QED BY <2>1 DEF FailuresKept, Active
<1>5. CASE HookExits(p)
  <2>1. PICK e \in [text : Contents, ok : BOOLEAN] :
          /\ succeeded' = [succeeded EXCEPT ![p] = e.ok]
          /\ trace'[p] = [trace[p] EXCEPT
               !.changed = IF e.text # input[p] THEN Append(@, Current(p).id) ELSE @,
               !.failed  = IF e.ok THEN @ ELSE @ \cup {at[p]}]
    BY <1>5, Exit
  <2>2. /\ trace'[p].failed = IF e.ok THEN t.failed ELSE t.failed \cup {at[p]}
        /\ trace'[p].unread = t.unread /\ succeeded'[p] = e.ok
    BY <2>1, <1>t DEF Shape, TypeOK, History
  <2>3. /\ pc[p] = "running" /\ pc'[p] = "exited" /\ config' = config /\ at' = at /\ outcome' = outcome
    BY <1>5 DEF HookExits, Shape, TypeOK
  <2>4. at[p] \notin t.failed
    BY <2>3 DEF FailuresKept, Active
  <2>5. {n \in trace'[p].failed \ trace'[p].unread : n < at'[p]} = {n \in t.failed \ t.unread : n < at[p]}
    BY <2>2, <2>3, <1>t
  <2>6. /\ \A n \in trace'[p].failed : 1 <= n /\ n <= at'[p]
        /\ \A n \in trace'[p].unread : 1 <= n /\ n < at'[p]
        /\ at'[p] \in trace'[p].failed <=> ~succeeded'[p]
    BY <2>2, <2>3, <2>4, <1>t DEF FailuresKept, Active
  <2>7. Lists(config, outcome[p].failures, {n \in t.failed \ t.unread : n < at[p]})
    BY <2>3 DEF FailuresKept, Active
  <2> QED BY <2>3, <2>5, <2>6, <2>7 DEF FailuresKept
<1>6. CASE ReadAfterFails(p)
  <2>1. trace'[p].failed = t.failed /\ trace'[p].unread = t.unread \cup {at[p]}
    BY <1>6, <1>t DEF ReadAfterFails, Shape, TypeOK, History
  <2>2. NextHook(p) /\ config' = config /\ Active(p) /\ outcome' = outcome
    BY <1>6 DEF ReadAfterFails, Active
  <2> QED BY <2>1, <2>2, FailuresGoOn
<1>7. CASE ReadAfter(p)
  <2>1. /\ pc[p] = "exited" /\ Current(p).id \in HookIds /\ Current(p).id = config[at[p]].id
        /\ before[p] \in Texts /\ file \in Texts /\ succeeded[p] \in BOOLEAN
    BY <1>7, HooksOfConfig DEF ReadAfter, Shape, TypeOK, Placed, Contents
  <2>2. outcome'[p].failures = IF succeeded[p] THEN outcome[p].failures
                               ELSE Append(outcome[p].failures, Current(p).id)
    BY <1>7, <1>t, <2>1, RecordType DEF ReadAfter, Shape, TypeOK
  <2>3. CASE succeeded[p]
    <3>1. /\ pc'[p] = "match" /\ at'[p] = at[p] + 1 /\ trace' = trace /\ config' = config
          /\ outcome'[p].failures = outcome[p].failures
      BY <1>7, <2>2, <2>3 DEF ReadAfter, NextHook, Shape, TypeOK
    <3>2. /\ Lists(config, outcome[p].failures, {n \in t.failed \ t.unread : n < at[p]})
          /\ \A n \in t.failed : 1 <= n /\ n <= at[p]
          /\ \A n \in t.unread : 1 <= n /\ n < at[p]
          /\ at[p] \notin t.failed
      BY <2>1, <2>3 DEF FailuresKept, Active
    <3>3. {n \in trace'[p].failed \ trace'[p].unread : n < at'[p]} = {n \in t.failed \ t.unread : n < at[p]}
      BY <3>1, <3>2, <1>t
    <3>4. /\ \A n \in trace'[p].failed : 1 <= n /\ n <= at'[p]
          /\ \A n \in trace'[p].unread : 1 <= n /\ n < at'[p]
          /\ at'[p] \notin trace'[p].failed
      BY <3>1, <3>2, <1>t
    <3> QED BY <3>1, <3>2, <3>3, <3>4 DEF FailuresKept
  <2>4. CASE ~succeeded[p]
    <3> DEFINE kept == {n \in t.failed \ t.unread : n < at[p]}
    <3>1. at[p] \in t.failed /\ at[p] \notin t.unread /\ Lists(config, outcome[p].failures, kept)
      BY <2>1, <2>4, <1>t DEF FailuresKept, Active
    <3>2. Lists(config, outcome'[p].failures, kept \cup {at[p]})
      <4>1. kept \in SUBSET Nat /\ \A m \in kept : m < at[p]
        BY <1>t
      <4>2. outcome'[p].failures = Append(outcome[p].failures, Current(p).id)
        BY <2>2, <2>4
      <4>3. Lists(config, Append(outcome[p].failures, Current(p).id), kept \cup {at[p]})
        <5> HIDE DEF kept
        <5> QED BY <3>1, <4>1, <2>1, <1>t, ListsMore
      <4> QED BY <4>2, <4>3
    <3>3. pc'[p] = "match" /\ at'[p] = at[p] + 1 /\ trace' = trace /\ config' = config
      BY <1>7 DEF ReadAfter, NextHook, Shape, TypeOK
    <3>4. {n \in trace'[p].failed \ trace'[p].unread : n < at'[p]} = kept \cup {at[p]}
      BY <3>1, <3>3, <1>t
    <3>5. /\ \A n \in t.failed : 1 <= n /\ n <= at[p]
          /\ \A n \in t.unread : 1 <= n /\ n < at[p]
      BY <2>1 DEF FailuresKept, Active
    <3>6. /\ \A n \in trace'[p].failed : 1 <= n /\ n <= at'[p]
          /\ \A n \in trace'[p].unread : 1 <= n /\ n < at'[p]
          /\ at'[p] \notin trace'[p].failed
      BY <3>3, <3>5, <1>t
    <3> QED BY <3>2, <3>3, <3>4, <3>6 DEF FailuresKept
  <2> QED BY <2>1, <2>3, <2>4
<1>8. CASE Finish(p)
  <2>1. /\ pc[p] = "match" /\ pc'[p] = "done" /\ result'[p] = Report(outcome[p]) /\ config' = config
        /\ trace'[p].failed = t.failed /\ trace'[p].unread = t.unread
    BY <1>8, <1>t DEF Finish, Shape, TypeOK, History
  <2>2. FailuresOf(p)' = outcome[p].failures
    <3>1. CASE Report(outcome[p]) = Nothing
      <4>1. outcome[p].failures = << >>
        <5>1. Report(outcome[p]) \notin ReportType
          BY <3>1 DEF Nothing, ReportType
        <5> QED BY <1>t, <5>1, ReportIs
      <4> QED BY <2>1, <3>1, <4>1 DEF FailuresOf, Reported, Nothing
    <3>2. CASE Report(outcome[p]) # Nothing
      <4>1. Report(outcome[p]).tag = "report" /\ Report(outcome[p]).failures = outcome[p].failures
        BY <1>t, <3>2, ReportIs DEF ReportType
      <4> QED BY <2>1, <4>1 DEF FailuresOf, Reported
    <3> QED BY <3>1, <3>2
  <2>3. {n \in t.failed \ t.unread : n < at[p]} = t.failed \ t.unread
    BY <2>1, <1>t DEF FailuresKept, Active
  <2>4. Lists(config, outcome[p].failures, {n \in t.failed \ t.unread : n < at[p]})
    BY <2>1 DEF FailuresKept, Active
  <2> QED BY <2>1, <2>2, <2>3, <2>4 DEF FailuresKept, Active
<1> QED BY <1>1, <1>2, <1>3, <1>4, <1>5, <1>6, <1>7, <1>8 DEF Step

-----------------------------------------------------------------------------
(* The diff.  While nobody else is at the file, what p has recorded reaches *)
(* from the content p started with to the content it read last, which is    *)
(* what the file holds except between a program's exit and the second read. *)
RecordedUpTo(p, text) ==
  LET o == outcome[p]
  IN  IF o.initial_content = None THEN text = trace[p].start
      ELSE o.initial_content = trace[p].start /\ o.final_content = text

DiffKept(p) ==
  LET t == trace[p]
      o == outcome[p]
  IN  /\ Active(p) /\ ~t.disturbed =>
           /\ t.start \in Texts
           /\ pc[p] = "started" => file = t.start /\ t.changed = << >>
           /\ pc[p] = "match" /\ file # Unreadable =>
                t.unread = {} /\ RecordedUpTo(p, file) /\ t.changed = o.modified_by
           /\ pc[p] \in {"spawn", "running"} =>
                /\ t.unread = {} /\ RecordedUpTo(p, file) /\ t.changed = o.modified_by
                /\ before[p] = file
                /\ pc[p] = "running" => input[p] = file
           /\ pc[p] = "exited" =>
                /\ t.unread = {} /\ RecordedUpTo(p, before[p])
                /\ t.changed = IF file # before[p] THEN Append(o.modified_by, Current(p).id)
                               ELSE o.modified_by
      /\ Alone(p) =>
           /\ t.unread = {}
           /\ DiffOf(p) = IF t.start = t.end THEN NoDiff ELSE <<t.start, t.end>>
           /\ DiffOf(p) # NoDiff => result[p].hook_ids = t.changed

LEMMA DiffInit == Init => \A p \in Procs : DiffKept(p)
  BY DEF Init, DiffKept, Active, Alone

LEMMA DiffOthers ==
  ASSUME Shape, NEW p \in Procs, Edit(p) \/ Step(p), NEW q \in Procs, q # p, DiffKept(q)
  PROVE  DiffKept(q)'
<1>1. Still(q) /\ config' = config
  BY OthersKeep
<1>2. CASE trace'[q] = trace[q] /\ file' = file
  BY <1>1, <1>2 DEF DiffKept, Still, Active, Alone, DiffOf, Reported, RecordedUpTo, Current
<1>3. CASE ~Active(q) /\ trace'[q] = trace[q]
  BY <1>1, <1>3 DEF DiffKept, Still, Active, Alone, DiffOf, Reported
<1>4. CASE Active(q) /\ trace'[q].disturbed
  BY <1>1, <1>4 DEF DiffKept, Still, Active, Alone
<1>5. trace'[q] = [trace[q] EXCEPT !.disturbed = TRUE] => trace'[q].disturbed
  BY DEF Shape, TypeOK, History
<1> QED BY <1>2, <1>3, <1>4, <1>5, OthersKeep

LEMMA DiffNext ==
  ASSUME Shape, NEW p \in Procs, Edit(p) \/ Step(p), FailuresKept(p), DiffKept(p)
  PROVE  DiffKept(p)'
<1> DEFINE t == trace[p]
           o == outcome[p]
<1>t. t \in History /\ o \in Outcome /\ at[p] \in Nat \ {0} /\ pc[p] \in Station /\ file \in Contents
  BY DEF Shape, TypeOK
<1>1. CASE Edit(p)
  <2>1. file' \in Texts /\ trace'[p] = Fresh(file') /\ pc'[p] = "started"
    BY <1>1, DisturbType, TextsAssumption DEF Edit, Shape, TypeOK
  <2>2. trace'[p].start = file' /\ trace'[p].changed = << >>
    BY <2>1 DEF Fresh
  <2> QED BY <2>1, <2>2 DEF DiffKept, Alone
<1>2. CASE Begin(p)
  <2>1. /\ pc[p] = "started" /\ o = NoOutcome /\ outcome' = outcome /\ file' = file
        /\ t.unread = {}
    BY <1>2 DEF Begin, Shape, Placed, FailuresKept
  <2>2. /\ trace'[p].start = t.start /\ trace'[p].changed = t.changed
        /\ trace'[p].unread = t.unread /\ trace'[p].disturbed = t.disturbed
        /\ pc'[p] \in {"match", "done"}
        /\ pc'[p] = "done" => trace'[p].end = file /\ result'[p] \in {Nothing, Error}
    BY <1>2, <1>t DEF Begin, Shape, TypeOK, History
  <2>3. ~t.disturbed => t.start \in Texts /\ file = t.start /\ t.changed = << >>
    BY <2>1 DEF DiffKept, Active
  <2>4. CASE pc'[p] = "match"
    BY <2>1, <2>2, <2>3, <2>4 DEF DiffKept, Alone, RecordedUpTo, NoOutcome
  <2>5. CASE pc'[p] = "done"
    <3>1. DiffOf(p)' = NoDiff
      BY <2>2, <2>5 DEF DiffOf, Reported, Nothing, Error
    <3> QED BY <2>1, <2>2, <2>3, <2>5, <3>1 DEF DiffKept, Active, Alone
  <2> QED BY <2>2, <2>4, <2>5
<1>3. CASE SkipHook(p) \/ ReadBeforeFails(p) \/ SpawnFails(p)
  <2>1. /\ pc[p] \in {"match", "spawn"} /\ pc'[p] = "match" /\ file' = file
        /\ trace' = trace /\ outcome' = outcome
    BY <1>3 DEF SkipHook, ReadBeforeFails, SpawnFails, AtHook, NextHook, Shape, TypeOK
  <2> QED BY <2>1 DEF DiffKept, Active, Alone, RecordedUpTo
<1>4. CASE ReadBefore(p)
  <2>1. /\ pc[p] = "match" /\ pc'[p] = "spawn" /\ file # Unreadable /\ before'[p] = file
        /\ file' = file /\ trace' = trace /\ outcome' = outcome
    BY <1>4 DEF ReadBefore, AtHook, Shape, TypeOK
  <2> QED BY <2>1 DEF DiffKept, Active, Alone, RecordedUpTo
<1>5. CASE SpawnHook(p)
  <2>1. /\ pc[p] = "spawn" /\ pc'[p] = "running" /\ input'[p] = file
        /\ file' = file /\ trace' = trace /\ outcome' = outcome /\ before' = before
    BY <1>5 DEF SpawnHook, Shape, TypeOK
  <2> QED BY <2>1 DEF DiffKept, Active, Alone, RecordedUpTo
<1>6. CASE HookExits(p)
  <2>1. PICK e \in [text : Contents, ok : BOOLEAN] :
          /\ IF input[p] = Unreadable THEN e = [text |-> Unreadable, ok |-> FALSE]
             ELSE input[p] \in Texts /\ e \in Effect[Current(p).id][input[p]]
          /\ file' = IF e.text # input[p] THEN e.text ELSE file
          /\ trace'[p] = [trace[p] EXCEPT
               !.changed = IF e.text # input[p] THEN Append(@, Current(p).id) ELSE @,
               !.failed  = IF e.ok THEN @ ELSE @ \cup {at[p]}]
    BY <1>6, Exit
  <2>2. /\ trace'[p].changed = IF e.text # input[p] THEN Append(t.changed, Current(p).id) ELSE t.changed
        /\ trace'[p].unread = t.unread /\ trace'[p].start = t.start /\ trace'[p].disturbed = t.disturbed
    BY <2>1, <1>t DEF History
  <2>3. /\ pc[p] = "running" /\ pc'[p] = "exited" /\ outcome' = outcome /\ before' = before
        /\ Current(p)' = Current(p)
    BY <1>6 DEF HookExits, Shape, TypeOK, Current
  <2>4. ~t.disturbed =>
          /\ t.start \in Texts /\ t.unread = {} /\ RecordedUpTo(p, before[p])
          /\ t.changed = o.modified_by /\ before[p] = file /\ input[p] = file
    BY <2>3 DEF DiffKept, Active
  <2>5. ~t.disturbed => RecordedUpTo(p, before[p])'
    BY <2>2, <2>3, <2>4 DEF RecordedUpTo
  <2> QED BY <2>1, <2>2, <2>3, <2>4, <2>5 DEF DiffKept, Alone
<1>7. CASE ReadAfterFails(p)
  <2>1. /\ pc[p] = "exited" /\ pc'[p] = "match" /\ file' = file /\ file = Unreadable
        /\ trace'[p].start = t.start /\ trace'[p].disturbed = t.disturbed
    BY <1>7, <1>t DEF ReadAfterFails, NextHook, Shape, TypeOK, History
  <2> QED BY <2>1 DEF DiffKept, Active, Alone
<1>8. CASE ReadAfter(p)
  <2>1. /\ pc[p] = "exited" /\ Current(p).id \in HookIds
        /\ before[p] \in Texts /\ file \in Texts /\ succeeded[p] \in BOOLEAN
    BY <1>8, HooksOfConfig DEF ReadAfter, Shape, TypeOK, Placed, Contents
  <2>2. /\ pc'[p] = "match" /\ file' = file /\ trace' = trace
        /\ outcome'[p] = Record(o, Current(p).id, before[p], file, succeeded[p])
    BY <1>8 DEF ReadAfter, NextHook, Shape, TypeOK
  <2>3. /\ outcome'[p].initial_content = IF o.initial_content = None THEN before[p] ELSE o.initial_content
        /\ outcome'[p].final_content = file
        /\ outcome'[p].modified_by = IF before[p] # file THEN Append(o.modified_by, Current(p).id)
                                     ELSE o.modified_by
        /\ outcome'[p].initial_content \in Texts
    BY <2>1, <2>2, <1>t, RecordType
  <2>4. ~t.disturbed =>
          /\ t.start \in Texts /\ t.unread = {} /\ RecordedUpTo(p, before[p])
          /\ t.changed = IF file # before[p] THEN Append(o.modified_by, Current(p).id) ELSE o.modified_by
    BY <2>1 DEF DiffKept, Active
  <2>5. ~t.disturbed => RecordedUpTo(p, file)'
    BY <2>2, <2>3, <2>4, TextsAssumption DEF RecordedUpTo
  <2> QED BY <2>2, <2>3, <2>4, <2>5 DEF DiffKept, Alone
<1>9. CASE Finish(p)
  <2>1. /\ pc[p] = "match" /\ pc'[p] = "done" /\ result'[p] = Report(o)
        /\ trace'[p].start = t.start /\ trace'[p].end = file /\ trace'[p].changed = t.changed
        /\ trace'[p].unread = t.unread /\ trace'[p].disturbed = t.disturbed
    BY <1>9, <1>t DEF Finish, Shape, TypeOK, History
  <2> SUFFICES ASSUME Alone(p)'
               PROVE  /\ t.unread = {}
                      /\ DiffOf(p)' = IF t.start = file THEN NoDiff ELSE <<t.start, file>>
                      /\ DiffOf(p)' # NoDiff => result'[p].hook_ids = t.changed
    BY <2>1 DEF DiffKept, Active
  <2>2. /\ t.start \in Texts /\ t.unread = {} /\ RecordedUpTo(p, file) /\ t.changed = o.modified_by
    BY <2>1 DEF DiffKept, Active, Alone
  <2>3. CASE o.initial_content = o.final_content
    <3>1. t.start = file
      BY <2>2, <2>3 DEF RecordedUpTo
    <3>2. DiffOf(p)' = NoDiff
      <4>1. CASE Report(o) = Nothing
        BY <2>1, <4>1 DEF DiffOf, Reported, Nothing
      <4>2. CASE Report(o) # Nothing
        <5>1. Report(o).diff = NoDiff
          BY <2>3, <4>2, <1>t, ReportIs
        <5> QED BY <2>1, <5>1 DEF DiffOf
      <4> QED BY <4>1, <4>2
    <3> QED BY <2>2, <3>1, <3>2
  <2>4. CASE o.initial_content # o.final_content
    <3>1. o.initial_content = t.start /\ o.final_content = file
      BY <2>2, <2>4, <1>t DEF RecordedUpTo, Outcome
    <3>2. /\ Report(o) \in ReportType /\ Report(o).diff = <<t.start, file>>
          /\ Report(o).hook_ids = o.modified_by
      BY <2>4, <3>1, <1>t, ReportIs
    <3>3. DiffOf(p)' = <<t.start, file>>
      BY <2>1, <3>2 DEF DiffOf, Reported, ReportType
    <3> QED BY <2>1, <2>2, <2>4, <3>1, <3>2, <3>3
  <2> QED BY <2>3, <2>4
<1> QED BY <1>1, <1>2, <1>3, <1>4, <1>5, <1>6, <1>7, <1>8, <1>9 DEF Step

-----------------------------------------------------------------------------
(* The invariant of one run, and what it says once the run is over.         *)
RunInv == Shape /\ \A p \in Procs : FailuresKept(p) /\ DiffKept(p)

LEMMA RunInvInit == Init => RunInv
  BY ShapeInit, FailuresInit, DiffInit DEF RunInv

LEMMA RunInvNext == RunInv /\ [Next]_vars => RunInv'
<1> SUFFICES ASSUME RunInv, [Next]_vars PROVE RunInv'
  OBVIOUS
<1>1. CASE Next
  <2>1. PICK p \in Procs : Edit(p) \/ Step(p)
    BY <1>1 DEF Next
  <2>2. Shape'
    BY <2>1, ShapeNext DEF RunInv
  <2>3. ASSUME NEW q \in Procs PROVE FailuresKept(q)' /\ DiffKept(q)'
    <3>1. CASE q = p
      BY <2>1, <3>1, FailuresNext, DiffNext DEF RunInv
    <3>2. CASE q # p
      BY <2>1, <3>2, FailuresOthers, DiffOthers DEF RunInv
    <3> QED BY <3>1, <3>2
  <2> QED BY <2>2, <2>3 DEF RunInv
<1>2. CASE UNCHANGED vars
  <2>1. Shape'
    BY <1>2, ShapeStutters DEF RunInv
  <2>2. ASSUME NEW q \in Procs PROVE FailuresKept(q)' /\ DiffKept(q)'
    BY <1>2 DEF vars, RunInv, FailuresKept, DiffKept, Active, Alone, FailuresOf, DiffOf, Reported,
                RecordedUpTo, Current
  <2> QED BY <2>1, <2>2 DEF RunInv
<1> QED BY <1>1, <1>2

(* Every state of the pre-commit stage has the shape above, and each run's  *)
(* outcome says of its failures and of its diff what the invariant says.    *)
THEOREM RunInvariant == Spec => []RunInv
  BY RunInvInit, RunInvNext, PTL DEF Spec

(* PreCommitReport::new, for a run nobody else wrote the file under: one    *)
(* diff from the content before its first hook to that after its last, and  *)
(* none when the two are the same, whatever the hooks in between did.       *)
THEOREM NetDiffIsExact == Spec => []NetDiffExact
<1>1. RunInv => NetDiffExact
  BY DEF RunInv, DiffKept, NetDiffExact
<1> QED BY <1>1, RunInvariant, PTL

(* RunOutcome::record and PreCommitReport::new: such a run names exactly    *)
(* the hooks that changed the file, in the order they did.                  *)
THEOREM AttributionIsExact == Spec => []AttributionExact
<1>1. RunInv => AttributionExact
  BY DEF RunInv, DiffKept, AttributionExact
<1> QED BY <1>1, RunInvariant, PTL

(* Any run, disturbed or not, reports one failure for each hook that exited *)
(* non-zero with the file readable to the second read, in the list's order; *)
(* a run nobody disturbed loses none if the file can be read at its end.    *)
THEOREM FailuresAreReported == Spec => []FailuresReported
<1>1. RunInv => FailuresReported
  BY DEF RunInv, FailuresKept, DiffKept, FailuresReported
<1> QED BY <1>1, RunInvariant, PTL

-----------------------------------------------------------------------------
(* An edit that met no run under way, and programs that only raise a rank.  *)
(* Either nobody has changed the text yet, and no run remembers another; or *)
(* the file is of a higher rank, no program can bring it back down, and a   *)
(* run that the edit did not find over has the edited text as the first     *)
(* content of its outcome, or is about to record it.                        *)

Unmoved ==
  /\ file = edit.text
  /\ \A p \in Procs : Active(p) =>
       /\ outcome[p].initial_content \in {None, edit.text}
       /\ pc[p] \in {"spawn", "running", "exited"} => before[p] = edit.text
       /\ pc[p] = "running" => input[p] = edit.text

Tells(p) ==
  LET o == outcome[p]
  IN  \/ pc[p] = "done" /\ DiffOf(p) # NoDiff /\ DiffOf(p)[1] = edit.text
      \/ Active(p) /\ pc[p] # "exited" /\ o.initial_content = edit.text /\ o.final_content # edit.text
      \/ pc[p] = "exited" /\ o.initial_content = edit.text
      \/ pc[p] = "exited" /\ o.initial_content = None /\ before[p] = edit.text

Above(rank) ==
  /\ file \in Texts /\ rank[file] > rank[edit.text]
  /\ \A p \in Procs : pc[p] = "running" => input[p] \in Texts /\ rank[input[p]] >= rank[edit.text]

Rank == [Texts -> 1 .. Cardinality(Texts)]

QuietInv ==
  /\ edit.over \subseteq {p \in Procs : pc[p] = "done"}
  /\ edit.quiet => \A rank \in Rank : Rises(config, rank) =>
       Unmoved \/ (Above(rank) /\ \E p \in Procs \ edit.over : Tells(p))

LEMMA RankIsNumber == \A rank \in Rank : \A t \in Texts : rank[t] \in Int
  BY DEF Rank

(* A program that writes raises the rank of the file above what it read.    *)
LEMMA ExitRises ==
  ASSUME Shape, NEW p \in Procs, HookExits(p), input[p] \in Texts, NEW rank \in Rank, Rises(config, rank)
  PROVE  file' = file \/ (file' \in Texts /\ rank[file'] > rank[input[p]])
<1>1. PICK e \in [text : Contents, ok : BOOLEAN] :
        /\ e \in Effect[Current(p).id][input[p]]
        /\ file' = IF e.text # input[p] THEN e.text ELSE file
  BY Exit, TextsAssumption
<1>2. at[p] \in DOMAIN config /\ Current(p).id = config[at[p]].id
  BY DEF HookExits, Shape, Placed, Current
<1>3. e.text # input[p] => e.text \in Texts /\ rank[e.text] > rank[input[p]]
  BY <1>1, <1>2 DEF Rises
<1> QED BY <1>1, <1>3

(* Until somebody writes the file nothing but the edit can be remembered.   *)
LEMMA UnmovedNext ==
  ASSUME Shape, NEW p \in Procs, Step(p), Unmoved, edit.text \in Texts, file' = file
  PROVE  Unmoved'
<1>1. edit' = edit
  BY DEF Step, Begin, SkipHook, ReadBeforeFails, ReadBefore, SpawnFails, SpawnHook, HookExits,
         ReadAfterFails, ReadAfter, Finish
<1>2. ASSUME NEW q \in Procs, q # p, Active(q)'
      PROVE  /\ outcome'[q].initial_content \in {None, edit.text}
             /\ pc'[q] \in {"spawn", "running", "exited"} => before'[q] = edit.text
             /\ pc'[q] = "running" => input'[q] = edit.text
  BY <1>2, OthersKeep DEF Still, Unmoved, Active
<1>3. ASSUME Active(p)'
      PROVE  /\ outcome'[p].initial_content \in {None, edit.text}
             /\ pc'[p] \in {"spawn", "running", "exited"} => before'[p] = edit.text
             /\ pc'[p] = "running" => input'[p] = edit.text
  <2>1. CASE Begin(p) \/ SkipHook(p) \/ ReadBeforeFails(p) \/ ReadBefore(p) \/ SpawnFails(p)
    BY <2>1 DEF Begin, SkipHook, ReadBeforeFails, ReadBefore, SpawnFails, AtHook, NextHook, Unmoved,
                Active, Shape, TypeOK
  <2>2. CASE SpawnHook(p) \/ HookExits(p) \/ ReadAfterFails(p)
    BY <2>2 DEF SpawnHook, HookExits, ReadAfterFails, NextHook, Unmoved, Active, Shape, TypeOK
  <2>3. CASE ReadAfter(p)
    <3>1. /\ pc[p] = "exited" /\ Current(p).id \in HookIds
          /\ before[p] \in Texts /\ file \in Texts /\ succeeded[p] \in BOOLEAN /\ outcome[p] \in Outcome
      BY <2>3, HooksOfConfig DEF ReadAfter, Shape, TypeOK, Placed, Contents
    <3>2. outcome'[p].initial_content =
            IF outcome[p].initial_content = None THEN before[p] ELSE outcome[p].initial_content
      BY <2>3, <3>1, RecordType DEF ReadAfter, Shape, TypeOK
    <3>3. pc'[p] = "match"
      BY <2>3 DEF ReadAfter, NextHook, Shape, TypeOK
    <3> QED BY <3>1, <3>2, <3>3 DEF Unmoved, Active
  <2>4. CASE Finish(p)
    BY <2>4, <1>3 DEF Finish, Active, Shape, TypeOK
  <2> QED BY <2>1, <2>2, <2>3, <2>4 DEF Step
<1> QED BY <1>1, <1>2, <1>3 DEF Unmoved

(* Once the edit has been rewritten, a run that can tell keeps it in mind.  *)
LEMMA TellsNext ==
  ASSUME Shape, NEW p \in Procs, Step(p), NEW w \in Procs, Tells(w), edit.text \in Texts,
         file # edit.text, file \in Texts
  PROVE  Tells(w)'
<1>1. edit' = edit
  BY DEF Step, Begin, SkipHook, ReadBeforeFails, ReadBefore, SpawnFails, SpawnHook, HookExits,
         ReadAfterFails, ReadAfter, Finish
<1>2. CASE w # p
  BY <1>1, <1>2, OthersKeep DEF Still, Tells, Active, DiffOf, Reported
<1>3. CASE w = p
  <2> DEFINE o == outcome[p]
  <2>0. edit.text # None /\ file # Unreadable /\ pc[p] \notin {"idle", "done"} /\ o \in Outcome
    BY TextsAssumption DEF Shape, TypeOK, Step, Begin, SkipHook, ReadBeforeFails, ReadBefore, SpawnFails,
       SpawnHook, HookExits, ReadAfterFails, ReadAfter, Finish, AtHook
  <2>1. pc[p] = "started" => FALSE
    BY <1>3, <2>0 DEF Tells, Shape, Placed, NoOutcome, Active
  <2>2. CASE SkipHook(p) \/ ReadBefore(p) \/ SpawnFails(p) \/ SpawnHook(p)
    <3>1. /\ pc[p] \in {"match", "spawn"} /\ pc'[p] \in {"match", "spawn", "running"}
          /\ outcome' = outcome
      BY <2>2 DEF SkipHook, ReadBefore, SpawnFails, SpawnHook, AtHook, NextHook, Shape, TypeOK
    <3> QED BY <1>1, <1>3, <3>1 DEF Tells, Active
  <2>3. CASE HookExits(p)
    <3>1. pc[p] = "running" /\ pc'[p] = "exited" /\ outcome' = outcome
      BY <2>3 DEF HookExits, Shape, TypeOK
    <3> QED BY <1>1, <1>3, <3>1 DEF Tells, Active
  <2>4. CASE ReadAfter(p)
    <3>1. /\ pc[p] = "exited" /\ Current(p).id \in HookIds
          /\ before[p] \in Texts /\ succeeded[p] \in BOOLEAN
      BY <2>4, HooksOfConfig DEF ReadAfter, Shape, TypeOK, Placed
    <3>2. /\ outcome'[p].initial_content = IF o.initial_content = None THEN before[p] ELSE o.initial_content
          /\ outcome'[p].final_content = file
      BY <2>4, <3>1, <2>0, RecordType DEF ReadAfter, Shape, TypeOK
    <3>3. pc'[p] = "match"
      BY <2>4 DEF ReadAfter, NextHook, Shape, TypeOK
    <3>4. outcome'[p].initial_content = edit.text
      BY <1>3, <2>0, <3>1, <3>2 DEF Tells, Active
    <3> QED BY <1>1, <1>3, <3>2, <3>3, <3>4 DEF Tells, Active
  <2>5. CASE Finish(p)
    <3>1. pc[p] = "match" /\ pc'[p] = "done" /\ result'[p] = Report(o)
      BY <2>5 DEF Finish, Shape, TypeOK
    <3>2. o.initial_content = edit.text /\ o.final_content # edit.text
      BY <1>3, <3>1 DEF Tells, Active
    <3>3. /\ Report(o) \in ReportType /\ Report(o).diff = <<edit.text, o.final_content>>
      BY <2>0, <3>2, ReportIs
    <3>4. DiffOf(p)' = <<edit.text, o.final_content>>
      BY <3>1, <3>3 DEF DiffOf, Reported, ReportType
    <3>5. DiffOf(p)' # NoDiff /\ DiffOf(p)'[1] = edit.text
      BY <3>4 DEF NoDiff
    <3> QED BY <1>1, <1>3, <3>1, <3>5 DEF Tells
  <2> QED BY <2>0, <2>1, <2>2, <2>3, <2>4, <2>5 DEF Step, Begin, ReadBeforeFails, ReadAfterFails
<1> QED BY <1>2, <1>3

LEMMA QuietInit == Init => QuietInv
  BY DEF Init, QuietInv, Unmoved, Active

LEMMA QuietNext == ASSUME Shape, NEW p \in Procs, Edit(p) \/ Step(p), QuietInv PROVE QuietInv'
<1>1. CASE Edit(p)
  <2>1. edit'.over \subseteq {q \in Procs : pc'[q] = "done"}
    BY <1>1 DEF Edit, Shape, TypeOK
  <2>2. ASSUME edit'.quiet PROVE Unmoved'
    <3>1. \A q \in Procs : pc'[q] \in {"idle", "started", "done"} /\ outcome'[q] = outcome[q]
      BY <1>1, <2>2 DEF Edit, Shape, TypeOK
    <3>2. \A q \in Procs : Active(q)' => outcome'[q] = NoOutcome
      BY <1>1, <3>1 DEF Edit, Shape, TypeOK, Placed, Active
    <3>3. file' = edit'.text
      BY <1>1 DEF Edit
    <3> QED BY <3>1, <3>2, <3>3 DEF Unmoved, NoOutcome
  <2> QED BY <2>1, <2>2 DEF QuietInv
<1>2. CASE Step(p)
  <2>1. edit' = edit /\ config' = config /\ edit.text \in Texts
    BY <1>2 DEF Step, Begin, SkipHook, ReadBeforeFails, ReadBefore, SpawnFails, SpawnHook, HookExits,
         ReadAfterFails, ReadAfter, Finish, Shape, TypeOK
  <2>2. \A q \in Procs : pc[q] = "done" => pc'[q] = "done"
    <3>1. pc[p] # "done"
      BY <1>2 DEF Step, Begin, SkipHook, ReadBeforeFails, ReadBefore, SpawnFails, SpawnHook, HookExits,
         ReadAfterFails, ReadAfter, Finish, AtHook
    <3> QED BY <3>1, <1>2, OthersKeep DEF Still
  <2> SUFFICES ASSUME edit.quiet, NEW rank \in Rank, Rises(config, rank)
               PROVE  Unmoved' \/ (Above(rank)' /\ \E w \in Procs \ edit.over : Tells(w)')
    BY <2>1, <2>2 DEF QuietInv
  <2>3. ~HookExits(p) => file' = file
    BY <1>2 DEF Step, Begin, SkipHook, ReadBeforeFails, ReadBefore, SpawnFails, SpawnHook,
         ReadAfterFails, ReadAfter, Finish
  <2>4. HookExits(p) => /\ pc[p] = "running" /\ pc'[p] = "exited" /\ outcome' = outcome
                        /\ before' = before /\ input' = input
    BY DEF HookExits, Shape, TypeOK
  <2>5. \A q \in Procs : pc'[q] = "running" =>
          (pc[q] = "running" /\ input'[q] = input[q]) \/ (input'[q] = file /\ ~HookExits(p))
    <3>1. ASSUME NEW q \in Procs, q # p, pc'[q] = "running" PROVE pc[q] = "running" /\ input'[q] = input[q]
      BY <1>2, <3>1, OthersKeep DEF Still
    <3>2. ASSUME pc'[p] = "running" PROVE input'[p] = file /\ ~HookExits(p)
      <4>1. SpawnHook(p)
        BY <1>2, <3>2 DEF Step, Begin, SkipHook, ReadBeforeFails, ReadBefore, SpawnFails, HookExits,
           ReadAfterFails, ReadAfter, Finish, NextHook, Shape, TypeOK
      <4> QED BY <4>1, <2>4 DEF SpawnHook, Shape, TypeOK
    <3> QED BY <3>1, <3>2
  <2>6. CASE Unmoved
    <3>1. CASE file' = file
      BY <1>2, <2>1, <2>6, <3>1, UnmovedNext
    <3>2. CASE file' # file
      <4>1. HookExits(p) /\ input[p] = edit.text /\ before[p] = edit.text
            /\ outcome[p].initial_content \in {None, edit.text}
        BY <2>3, <2>4, <2>6, <3>2 DEF Unmoved, Active
      <4>2. file' \in Texts /\ rank[file'] > rank[edit.text]
        BY <2>1, <3>2, <4>1, ExitRises
      <4>3. \A q \in Procs : pc'[q] = "running" => input'[q] = edit.text
        BY <2>5, <2>6, <4>1 DEF Unmoved, Active
      <4>4. Above(rank)'
        BY <2>1, <4>2, <4>3, RankIsNumber DEF Above
      <4>5. Tells(p)'
        BY <2>1, <2>4, <4>1 DEF Tells
      <4>6. p \notin edit.over
        BY <2>4, <4>1 DEF QuietInv
      <4> QED BY <4>4, <4>5, <4>6
    <3> QED BY <3>1, <3>2
  <2>7. CASE Above(rank) /\ \E w \in Procs \ edit.over : Tells(w)
    <3>1. file \in Texts /\ rank[file] > rank[edit.text] /\ file # edit.text
      BY <2>1, <2>7, RankIsNumber DEF Above
    <3>2. file' \in Texts /\ rank[file'] > rank[edit.text]
      <4>1. CASE file' = file
        BY <3>1, <4>1
      <4>2. CASE file' # file
        <5>1. HookExits(p) /\ input[p] \in Texts /\ rank[input[p]] >= rank[edit.text]
          BY <2>3, <2>4, <2>7, <4>2 DEF Above
        <5>2. file' \in Texts /\ rank[file'] > rank[input[p]]
          BY <4>2, <5>1, ExitRises
        <5> QED BY <2>1, <5>1, <5>2, RankIsNumber
      <4> QED BY <4>1, <4>2
    <3>3. \A q \in Procs : pc'[q] = "running" => input'[q] \in Texts /\ rank[input'[q]] >= rank[edit.text]
      BY <2>1, <2>5, <2>7, <3>1, RankIsNumber DEF Above
    <3>4. PICK w \in Procs \ edit.over : Tells(w)
      BY <2>7
    <3>5. Tells(w)'
      BY <1>2, <2>1, <3>1, <3>4, TellsNext
    <3> QED BY <2>1, <3>2, <3>3, <3>5 DEF Above
  <2> QED BY <2>6, <2>7 DEF QuietInv
<1> QED BY <1>1, <1>2

(* Several processes at one file: however they interleave, a rewrite of an  *)
(* edit that came at a quiet moment is told to the agent by a run the edit  *)
(* did not find over already, when no hook brings back what another changed.*)
THEOREM RewritesAreReported == Spec => []SomeoneReports
<1>1. Shape /\ QuietInv => SomeoneReports
  <2> SUFFICES ASSUME Shape, QuietInv, \A p \in Procs : pc[p] \in {"idle", "done"}, edit.quiet,
                      file # edit.text, Converging(config)
               PROVE  \E p \in Procs \ edit.over : DiffOf(p) # NoDiff /\ DiffOf(p)[1] = edit.text
    BY DEF SomeoneReports
  <2>1. PICK rank \in Rank : Rises(config, rank)
    BY DEF Converging, Rank
  <2>2. PICK p \in Procs \ edit.over : Tells(p)
    BY <2>1 DEF QuietInv, Unmoved
  <2> QED BY <2>2 DEF Tells, Active
<1>2. Init => Shape /\ QuietInv
  BY ShapeInit, QuietInit
<1>3. Shape /\ QuietInv /\ [Next]_vars => Shape' /\ QuietInv'
  <2> SUFFICES ASSUME Shape, QuietInv, [Next]_vars PROVE Shape' /\ QuietInv'
    OBVIOUS
  <2>1. CASE Next
    BY <2>1, ShapeNext, QuietNext DEF Next
  <2>2. CASE UNCHANGED vars
    <3>1. QuietInv'
      BY <2>2 DEF vars, QuietInv, Unmoved, Above, Tells, Active, DiffOf, Reported
    <3> QED BY <2>2, <3>1, ShapeStutters
  <2> QED BY <2>1, <2>2
<1> QED BY <1>1, <1>2, <1>3, PTL DEF Spec

=============================================================================
