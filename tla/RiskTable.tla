------------------------------ MODULE RiskTable ------------------------------
(***************************************************************************)
(* The generator of the command-risk table (crates/risk-data/src): it      *)
(* walks a directory of .toml files, merges the commands they declare,     *)
(* checks them against each other and groups them by name.                 *)
(*                                                                         *)
(* A tree maps each directory to its entries; an entry is a record with    *)
(* the name it has there and what is behind it, symbolic links followed.   *)
(* A name is a sequence of characters, numbers in the order of the         *)
(* characters, and so is a path: files are sorted by the text of their     *)
(* paths, the separators included.  What a file holds is a Dataset, the    *)
(* sequence of the commands it declares, or Malformed.                     *)
(***************************************************************************)
EXTENDS Integers, Sequences, FiniteSetsExt, SequencesExt

CONSTANTS Trees,      \* the directories a build script may point to
          Fold(_)     \* a flag spelling in lower case

RiskDataError ==
  {"MissingRoot", "Io", "NoTomlFiles", "Toml", "DuplicateCommand", "DuplicateFlagSpelling", "UnknownComboFlag",
   "InvalidPattern", "DuplicateSubcommand", "CombinableUnderGoGrammar"}

Slash == 3   \* after "-" and ".", before the letters

NotADirectory == [missing |-> TRUE]
Malformed     == [malformed |-> TRUE]
Dataset(commands) == [command |-> commands]

Pattern    == [pattern : STRING]
Flag       == [spellings : Seq(STRING), value_rule : Seq(Pattern)]
Ruleset    == [combinable : BOOLEAN, flags : Seq(Flag), combos : Seq(Seq(STRING)), operands : Seq(Pattern)]
Subcommand == [name : STRING, aliases : Seq(STRING), rules : Ruleset]
Command    == [name : STRING, aliases : Seq(STRING), platform : {"GnuLinux", "Bsd", "MacOs", "Busybox"},
               grammar : {"Gnu", "Bsd", "Go"}, case_sensitive : BOOLEAN, rules : Ruleset,
               subcommands : Seq(Subcommand)]

(* A name, taken as text, is unique in its directory and holds no           *)
(* separator, and no directory is inside itself, by whatever links.         *)
ASSUME TreesAssumption ==
  \A t \in Trees \ {NotADirectory} :
    /\ IsFiniteSet(DOMAIN t) /\ "root" \in DOMAIN t
    /\ \A d \in DOMAIN t :
         /\ \A e \in t[d] :
              /\ e.name \in Seq(Nat \ {Slash})
              /\ e.is \in {"dir", "toml", "other", "unreadable"}
              /\ e.is = "dir" => e.to \in DOMAIN t
              /\ e.is = "toml" => e.content = Malformed \/ e.content \in [command : Seq(Command)]
         /\ \A e, f \in t[d] : e.name = f.name => e = f
    /\ \E depth \in [DOMAIN t -> 0 .. Cardinality(DOMAIN t)] :
         \A d \in DOMAIN t : \A e \in t[d] : e.is = "dir" => depth[e.to] < depth[d]

VARIABLES
  tree,     \* the directory, or NotADirectory
  walk,     \* the directories being walked, outermost first: [path, left]
  files,    \* the .toml files found so far: [path, content]
  table,    \* COMMANDS: each name to the sequence of its [platform, entry]
  verdict   \* "walking", "built" or the error generate_command_table returns

table_vars == <<tree, walk, files, table, verdict>>

-----------------------------------------------------------------------------
(* Dataset::validate and what it calls.  Each check answers "ok" or the    *)
(* error it stops at; the first error in the order of the code is reported.*)

FirstError(checks) ==
  LET bad == {i \in DOMAIN checks : checks[i] # "ok"}
  IN  IF bad = {} THEN "ok" ELSE checks[Min(bad)]

Check(holds, error) == IF holds THEN "ok" ELSE error

Names(declared) == <<declared.name>> \o declared.aliases

AllSpellings(flags) == UNION {ToSet(flags[i].spellings) : i \in DOMAIN flags}

SpellingEq(x, y, sensitive) == x = y \/ (~sensitive /\ Fold(x) = Fold(y))

(* Fault: the case of a spelling is never folded. *)
ContainsSpelling_Exact(spellings, needle, sensitive) == needle \in spellings

(* contains_spelling *)
ContainsSpelling(spellings, needle, sensitive) == \E s \in spellings : SpellingEq(s, needle, sensitive)

ValidPatterns(rules) == [i \in DOMAIN rules |-> Check(rules[i].pattern # "(", "InvalidPattern")]

SpelledBefore(flags, f, s) ==
  (UNION {ToSet(flags[g].spellings) : g \in 1 .. f - 1}) \cup {flags[f].spellings[r] : r \in 1 .. s - 1}

CheckFlag(flags, f, sensitive) ==
  [s \in DOMAIN flags[f].spellings |->
     Check(~ContainsSpelling(SpelledBefore(flags, f, s), flags[f].spellings[s], sensitive), "DuplicateFlagSpelling")]
    \o ValidPatterns(flags[f].value_rule)

CheckCombo(requires, reachable, sensitive) ==
  [r \in DOMAIN requires |-> Check(ContainsSpelling(reachable, requires[r], sensitive), "UnknownComboFlag")]

(* validate_ruleset *)
CheckRuleset(rules, sensitive, extra) ==
  FlattenSeq([f \in DOMAIN rules.flags |-> CheckFlag(rules.flags, f, sensitive)])
    \o FlattenSeq([c \in DOMAIN rules.combos |->
                     CheckCombo(rules.combos[c], AllSpellings(rules.flags) \cup extra, sensitive)])
    \o ValidPatterns(rules.operands)

NamedBefore(subs, i, n) ==
  (UNION {ToSet(Names(subs[j])) : j \in 1 .. i - 1}) \cup {Names(subs[i])[m] : m \in 1 .. n - 1}

CheckSub(command, i) ==
  LET subs == command.subcommands
  IN  [n \in DOMAIN Names(subs[i]) |->
         Check(Names(subs[i])[n] \notin NamedBefore(subs, i, n), "DuplicateSubcommand")]
        \o CheckRuleset(subs[i].rules, command.case_sensitive, AllSpellings(command.rules.flags))

(* Command::validate *)
CheckCommand(command) ==
  <<Check(~(command.grammar = "Go" /\ command.rules.combinable), "CombinableUnderGoGrammar")>>
    \o CheckRuleset(command.rules, command.case_sensitive, {})
    \o FlattenSeq([i \in DOMAIN command.subcommands |-> CheckSub(command, i)])

Claims(command) == ToSet(Names(command)) \X {command.platform}

CheckNames(commands, k) ==
  Check(\A j \in 1 .. k - 1 : Claims(commands[j]) \cap Claims(commands[k]) = {}, "DuplicateCommand")

(* Dataset::validate *)
CheckDataset(commands) ==
  FlattenSeq([k \in DOMAIN commands |-> <<CheckNames(commands, k)>> \o CheckCommand(commands[k])])

(* Dataset::parse *)
Merged(sources) == FlattenSeq([i \in DOMAIN sources |-> sources[i].content.command])

Parsed(sources) ==
  IF \E i \in DOMAIN sources : sources[i].content = Malformed THEN "Toml"
  ELSE FirstError(CheckDataset(Merged(sources)))

-----------------------------------------------------------------------------
(* What a declaration is rendered into: the flags paired with each of      *)
(* their spellings, the subcommands with each of their names.              *)

RenderFlag(flag) ==
  [s \in DOMAIN flag.spellings |-> <<flag.spellings[s], [flag EXCEPT !.spellings = <<>>]>>]

RenderRuleset(rules) ==
  [rules EXCEPT !.flags = FlattenSeq([f \in DOMAIN rules.flags |-> RenderFlag(rules.flags[f])])]

RenderSubcommand(sub) ==
  [n \in DOMAIN Names(sub) |-> <<Names(sub)[n], RenderRuleset(sub.rules)>>]

RenderCommand(command) ==
  [grammar |-> command.grammar, case_sensitive |-> command.case_sensitive,
   rules   |-> RenderRuleset(command.rules),
   subcommands |-> FlattenSeq([i \in DOMAIN command.subcommands |-> RenderSubcommand(command.subcommands[i])])]

RenderNames(command) ==
  [n \in DOMAIN Names(command) |->
     [name |-> Names(command)[n], variant |-> [platform |-> command.platform, entry |-> RenderCommand(command)]]]

(* generate_command_table: each name's variants are pushed one by one. *)
Grouped(commands) ==
  LET pairs == FlattenSeq([k \in DOMAIN commands |-> RenderNames(commands[k])])
      grouped[i \in 0 .. Len(pairs)] ==
        IF i = 0 THEN [name \in {pairs[j].name : j \in DOMAIN pairs} |-> <<>>]
        ELSE [grouped[i - 1] EXCEPT ![pairs[i].name] = Append(@, pairs[i].variant)]
  IN  grouped[Len(pairs)]

-----------------------------------------------------------------------------
(* The walk begins at the root, if that is a directory. *)
InitTable ==
  /\ tree \in Trees
  /\ walk = IF tree = NotADirectory THEN <<>> ELSE <<[path |-> <<>>, left |-> tree["root"]]>>
  /\ files = <<>> /\ table = <<>>
  /\ verdict = "walking"

RefuseRoot ==
  /\ verdict = "walking"
  /\ tree = NotADirectory
  /\ verdict' = "MissingRoot"
  /\ UNCHANGED <<tree, walk, files, table>>

(* Scanner::walk: the next entry the innermost directory lists. *)
Visit(entry) ==
  LET top  == Last(walk)
      path == top.path \o <<Slash>> \o entry.name
      here == [walk EXCEPT ![Len(walk)].left = @ \ {entry}]
  IN  /\ verdict = "walking"
      /\ walk # <<>>
      /\ entry \in top.left
      /\ \/ entry.is = "dir" /\ walk' = Append(here, [path |-> path, left |-> tree[entry.to]])
              /\ UNCHANGED <<files, verdict>>
         \/ entry.is = "toml" /\ walk' = here
              /\ files' = Append(files, [path |-> path, content |-> entry.content])
              /\ UNCHANGED verdict
         \/ entry.is = "other" /\ walk' = here /\ UNCHANGED <<files, verdict>>
         \/ entry.is = "unreadable" /\ verdict' = "Io" /\ UNCHANGED <<walk, files>>
      /\ UNCHANGED <<tree, table>>

LeaveDirectory ==
  /\ verdict = "walking"
  /\ walk # <<>> /\ Last(walk).left = {}
  /\ walk' = Front(walk)
  /\ UNCHANGED <<tree, files, table, verdict>>

PathBefore(a, b) ==
  \E i \in DOMAIN b :
    /\ \A j \in 1 .. i - 1 : j \in DOMAIN a /\ a[j] = b[j]
    /\ i \in DOMAIN a => a[i] < b[i]

(* Fault: the files stay in the order they were listed in. *)
Sorted_AsListed(found) == found

(* sort_by, which is stable: the n-th has n - 1 that come before it. *)
Sorted(found) ==
  LET ComesBefore(i, j) == \/ PathBefore(found[i].path, found[j].path)
                           \/ found[i].path = found[j].path /\ i < j
  IN  [n \in DOMAIN found |->
         found[CHOOSE j \in DOMAIN found : Cardinality({i \in DOMAIN found : ComesBefore(i, j)}) = n - 1]]

(* The rest of generate_command_table, once the walk has ended. *)
Generate ==
  /\ verdict = "walking"
  /\ tree # NotADirectory /\ walk = <<>>
  /\ IF files = <<>> THEN verdict' = "NoTomlFiles" /\ table' = table
     ELSE LET sources == Sorted(files)
          IN  IF Parsed(sources) = "ok"
              THEN verdict' = "built" /\ table' = Grouped(Merged(sources))
              ELSE verdict' = Parsed(sources) /\ table' = table
  /\ UNCHANGED <<tree, walk, files>>

NextTable ==
  \/ RefuseRoot
  \/ walk # <<>> /\ \E entry \in Last(walk).left : Visit(entry)
  \/ LeaveDirectory
  \/ Generate

SpecTable == InitTable /\ [][NextTable]_table_vars

-----------------------------------------------------------------------------
Ended == verdict \in RiskDataError \cup {"built"}

(* What an entry of a directory leads to, by the paths from there, given     *)
(* what is below the directory behind it.                                    *)
Reached(e, inside) ==
  IF e.is = "dir" THEN {[path |-> <<Slash>> \o e.name \o f.path, entry |-> f.entry] : f \in inside}
  ELSE IF e.is = "other" THEN {}
  ELSE {[path |-> <<Slash>> \o e.name, entry |-> e]}

(* The files below each directory of a tree, the unreadable ones included. *)
Below(t) ==
  LET below[dir \in DOMAIN t] == UNION {Reached(e, below[e.to]) : e \in t[dir]}
  IN  below

Files == Below(tree)["root"]

(* The sources in the order of their paths: the n-th has n - 1 before it. *)
Sources ==
  LET found == {[path |-> f.path, content |-> f.entry.content] : f \in Files}
  IN  [n \in 1 .. Cardinality(found) |->
         CHOOSE f \in found : Cardinality({g \in found : PathBefore(g.path, f.path)}) = n - 1]

(* The table, or the error reported in its place, is the one the files     *)
(* taken in the order of their paths give, in whatever order the file      *)
(* system lists them (codegen/scanner.rs, codegen/table.rs).               *)
TableIsDetermined ==
  Ended =>
    CASE tree = NotADirectory -> verdict = "MissingRoot"
      [] tree # NotADirectory /\ \E f \in Files : f.entry.is = "unreadable" -> verdict = "Io"
      [] OTHER ->
           LET failure == IF Sources = <<>> THEN "NoTomlFiles" ELSE Parsed(Sources)
           IN  IF failure = "ok" THEN verdict = "built" /\ table = Grouped(Merged(Sources))
               ELSE verdict = failure

Flags(rules) == {rules.flags[i][1] : i \in DOMAIN rules.flags}

(* A rendered ruleset leaves no lookup open: a flag the command line spells *)
(* is found at most once, every flag a combination requires can be given,   *)
(* and patterns compile.                                                    *)
ClearRules(rules, reachable, sensitive) ==
  /\ \A i, j \in DOMAIN rules.flags : SpellingEq(rules.flags[i][1], rules.flags[j][1], sensitive) => i = j
  /\ \A c \in DOMAIN rules.combos : \A r \in DOMAIN rules.combos[c] :
       \E flag \in reachable : SpellingEq(flag, rules.combos[c][r], sensitive)
  /\ \A i \in DOMAIN rules.flags : \A v \in DOMAIN rules.flags[i][2].value_rule :
       rules.flags[i][2].value_rule[v].pattern # "("
  /\ \A i \in DOMAIN rules.operands : rules.operands[i].pattern # "("

(* Nor does an entry: a subcommand's name is one subcommand's. *)
Clear(entry) ==
  LET subs == entry.subcommands
  IN  /\ entry.grammar = "Go" => ~entry.rules.combinable
      /\ ClearRules(entry.rules, Flags(entry.rules), entry.case_sensitive)
      /\ \A i, j \in DOMAIN subs : subs[i][1] = subs[j][1] => i = j
      /\ \A i \in DOMAIN subs :
           ClearRules(subs[i][2], Flags(entry.rules) \cup Flags(subs[i][2]), entry.case_sensitive)

Sound(commands) ==
  /\ \A k \in DOMAIN commands : Clear(RenderCommand(commands[k]))
  /\ \A k, l \in DOMAIN commands : k # l => Claims(commands[k]) \cap Claims(commands[l]) = {}

(* A flag without a spelling is not rendered, but its patterns are checked. *)
Spelled(rules) == \A f \in DOMAIN rules.flags : rules.flags[f].spellings # <<>>

AllSpelled(commands) ==
  \A k \in DOMAIN commands :
    /\ Spelled(commands[k].rules)
    /\ \A i \in DOMAIN commands[k].subcommands : Spelled(commands[k].subcommands[i].rules)

Answers(answer, commands) ==
  /\ \A k \in DOMAIN commands : \A name \in ToSet(Names(commands[k])) :
       {v.entry : v \in {v \in ToSet(answer[name]) : v.platform = commands[k].platform}}
         = {RenderCommand(commands[k])}
  /\ \A name \in DOMAIN answer : \A v \in ToSet(answer[name]) :
       \E k \in DOMAIN commands : <<name, v.platform>> \in Claims(commands[k])

(* The generator accepts the data exactly when no two commands share a     *)
(* name on one platform and every entry is clear, and the table it then    *)
(* writes has, for every name and platform a command declares, that        *)
(* command's entry and no other (types/dataset.rs, types/command.rs,       *)
(* codegen/table.rs).  Only what is wrong with a flag nobody can spell     *)
(* does not show in an entry.                                              *)
TableAnswersOnce ==
  Ended /\ verdict \notin {"MissingRoot", "Io", "NoTomlFiles", "Toml"} =>
    LET commands == Merged(Sources)
    IN  /\ verdict = "built" => Sound(commands) /\ Answers(table, commands)
        /\ Sound(commands) /\ AllSpelled(commands) => verdict = "built"
=============================================================================
