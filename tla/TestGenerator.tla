---------------------------- MODULE TestGenerator ----------------------------
(***************************************************************************)
(* The build script of the bash parser (crates/parable/build.rs): it reads *)
(* the corpus directory in whatever order the file system lists it and     *)
(* writes one generated test file, or nothing at all when it fails.        *)
(***************************************************************************)
EXTENDS CorpusFile

CONSTANT Corpora   \* the corpus directories: functions from entries to what they are

NoDirectory == [missing |-> TRUE]

(* Its entries are finitely many; only a .tests file that can be read has  *)
(* lines.  A text split at its newlines has one line or more.              *)
ASSUME CorporaAssumption ==
  \A c \in Corpora \ {NoDirectory} :
    /\ IsFiniteSet(DOMAIN c)
    /\ \A e \in DOMAIN c :
         /\ c[e].is \in {"tests", "other", "bad_stem", "unreadable"}
         /\ c[e].is = "tests" => c[e].lines \in Seq(ToSet(c[e].lines)) \ {<<>>}

VARIABLES
  corpus,     \* what the corpus directory holds, or NoDirectory
  unread,     \* its entries the script has still to visit
  numbers,    \* seen_suite_numbers
  modules,    \* test_modules: one per suite, in the order they were read
  outcome     \* "running", "written", "panicked" or the error main returns

gen_vars == <<corpus, unread, numbers, modules, outcome>>

-----------------------------------------------------------------------------
(* The test functions of one group: what each is given of the cases it     *)
(* runs, every case under its name as an identifier.                       *)

Tested(fn, cases, Given(_)) == <<[fn |-> fn, cases |-> [c \in DOMAIN cases |-> Given(cases[c])]]>>

GenerateTestFn(cases) ==
  Tested("parses", cases, LAMBDA t : <<ToIdentFragment(t.name), t.input, t.expected>>)

GenerateRoundtripTestFn(cases) ==
  Tested("roundtrips", cases, LAMBDA t : <<ToIdentFragment(t.name), t.input>>)

GenerateErrorTestFn(cases) ==
  Tested("fails_to_parse", cases, LAMBDA t : <<ToIdentFragment(t.name), t.input, t.expected>>)

GenerateBashVerifyTestFn(cases) ==
  Tested("bash_verifies", cases, LAMBDA t : <<ToIdentFragment(t.name), t.input, ~t.parses>>)

(* The cases of a group that must parse, or those that must not, in order. *)
Partition(cases, parses) ==
  FlattenSeq([c \in DOMAIN cases |-> IF cases[c].parses = parses THEN <<cases[c]>> ELSE <<>>])

(* Fault: `bash -n` is only asked about the cases of one kind. *)
TestFunctions_SplitVerify(group) ==
  LET positive == Partition(group.cases, TRUE)
  IN  IF positive = <<>> THEN GenerateErrorTestFn(group.cases) \o GenerateBashVerifyTestFn(group.cases)
      ELSE GenerateTestFn(positive) \o GenerateRoundtripTestFn(positive) \o GenerateBashVerifyTestFn(positive)

(* A function is generated for the cases it has. *)
TestFunctions(group) ==
  LET positive == Partition(group.cases, TRUE)
      negative == Partition(group.cases, FALSE)
  IN  (IF positive = <<>> THEN <<>> ELSE GenerateTestFn(positive) \o GenerateRoundtripTestFn(positive))
        \o (IF negative = <<>> THEN <<>> ELSE GenerateErrorTestFn(negative))
        \o (IF group.cases = <<>> THEN <<>> ELSE GenerateBashVerifyTestFn(group.cases))

SuiteModule(suite) ==
  [name   |-> <<suite.number, ToIdentFragment(suite.name)>>,
   groups |-> [g \in DOMAIN suite.groups |->
                 [name |-> ToIdentFragment(suite.groups[g].name), functions |-> TestFunctions(suite.groups[g])]]]

(* format_ident! panics on an empty identifier. *)
HasIdents(suite) ==
  \A g \in DOMAIN suite.groups :
    /\ ToIdentFragment(suite.groups[g].name) # <<>>
    /\ \A c \in DOMAIN suite.groups[g].cases : ToIdentFragment(suite.groups[g].cases[c].name) # <<>>

-----------------------------------------------------------------------------
InitTests ==
  /\ corpus \in Corpora
  /\ unread = IF corpus = NoDirectory THEN {} ELSE DOMAIN corpus
  /\ numbers = {} /\ modules = <<>>
  /\ outcome = "running"

Stop(why) == outcome' = why /\ UNCHANGED <<corpus, numbers, modules>>

(* One entry of the directory. *)
ReadEntry(e) ==
  LET entry == corpus[e]
      suite == Parse(entry.lines)
  IN  /\ outcome = "running"
      /\ e \in unread
      /\ unread' = unread \ {e}
      /\ \/ entry.is = "other" /\ UNCHANGED <<corpus, numbers, modules, outcome>>
         \/ entry.is = "bad_stem" /\ Stop("InvalidFileStem")
         \/ entry.is = "unreadable" /\ Stop("Io")
         \/ entry.is = "tests" /\ ~Accepted(suite) /\ Stop(suite.error)
         \/ entry.is = "tests" /\ Accepted(suite) /\ suite.number \in numbers /\ Stop("DuplicateSuiteNumber")
         \/ /\ entry.is = "tests" /\ Accepted(suite) /\ suite.number \notin numbers
            /\ ~HasIdents(suite)
            /\ Stop("panicked")
         \/ /\ entry.is = "tests" /\ Accepted(suite) /\ suite.number \notin numbers
            /\ HasIdents(suite)
            /\ numbers' = numbers \cup {suite.number}
            /\ modules' = Append(modules, SuiteModule(suite))
            /\ UNCHANGED <<corpus, outcome>>

(* The generated file is written once, after the loop, and is empty when   *)
(* there is no corpus.                                                     *)
WriteGenerated ==
  /\ outcome = "running"
  /\ unread = {}
  /\ outcome' = "written"
  /\ UNCHANGED <<corpus, unread, numbers, modules>>

NextTests == (\E e \in unread : ReadEntry(e)) \/ WriteGenerated

SpecTests == InitTests /\ [][NextTests]_gen_vars

-----------------------------------------------------------------------------
TestsFiles == IF corpus = NoDirectory THEN {} ELSE {e \in DOMAIN corpus : corpus[e].is = "tests"}

(* Every file that reads as a suite is a suite the format can spell, and   *)
(* spelling it out and reading that gives the same suite: no separator,    *)
(* terminator or escape is taken for another one, and no case swallows the *)
(* next (parser.rs parse_case, find_case_separator,                        *)
(* unescape_delimiter_lines).                                              *)
ReadsWhatIsWritten ==
  outcome = "running" /\ modules = <<>> =>
    \A e \in TestsFiles :
      LET suite == Parse(corpus[e].lines)
      IN  Accepted(suite) => Writable(suite) /\ Parse(Write(suite)) = suite

(* Whatever order the directory is listed in, the generated file holds     *)
(* exactly the suites of the corpus, each number once, and in the module   *)
(* of its group every case is run by exactly one of `parses` and           *)
(* `fails_to_parse`, by `roundtrips` iff it must parse, and always by      *)
(* `bash_verifies`; a corpus with an error in it generates nothing         *)
(* (build.rs main).                                                        *)
EveryCaseTested ==
  outcome = "written" =>
    LET suites == {Parse(corpus[e].lines) : e \in TestsFiles}
        Given(made, name) ==
          UNION {{Tail(c) : c \in ToSet(f.cases)} : f \in {f \in ToSet(made.functions) : f.fn = name}}
        Runs(made, cases) ==
          /\ made.name # <<>>
          /\ Given(made, "parses") = {<<c.input, c.expected>> : c \in {c \in cases : c.parses}}
          /\ Given(made, "roundtrips") = {<<c.input>> : c \in {c \in cases : c.parses}}
          /\ Given(made, "fails_to_parse") = {<<c.input, c.expected>> : c \in {c \in cases : ~c.parses}}
          /\ Given(made, "bash_verifies") = {<<c.input, ~c.parses>> : c \in cases}
    IN  /\ unread = {}
        /\ corpus = NoDirectory \/ \A e \in DOMAIN corpus : corpus[e].is \in {"tests", "other"}
        /\ Len(modules) = Cardinality(TestsFiles)
        /\ \A s \in suites : Accepted(s) /\ \E m \in DOMAIN modules :
             /\ \A n \in DOMAIN modules : modules[n].name[1] = s.number <=> n = m
             /\ \A g \in DOMAIN s.groups : Runs(modules[m].groups[g], ToSet(s.groups[g].cases))
=============================================================================
