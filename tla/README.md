# inceptool: specification, model checking and proofs

`inceptool <driver> <hook>` is started by an AI coding agent (Claude Code, Gemini CLI) for each
hook event. It reads one JSON payload, turns it into a protocol-level event, runs the *stages*
registered for the hook, and writes one JSON answer. This directory models its logic in TLA+, checks
the models with TLC and proves what matters most with TLAPS. The workspace also holds what later
decisions about shell commands are to rest on: a bash parser with a taint analysis, and the generator of
a table of command risks. They are modelled too.

## The system

| part | source | state it keeps | operations | what is hard |
| --- | --- | --- | --- | --- |
| engine | `crates/engine/src/registry.rs` | one bucket of stages per hook kind; while running: final output, combined decision | `register`, `run_pipeline` | order of stages against strength of verdicts, early ends, errors half way |
| protocol | `crates/protocol/src` | none | accessors over 35 output variants, `from_wire`, `to_wire` | accessors are matches with a `_ => None` arm |
| pre-commit stage | `crates/stages/src/pre_commit_runner.rs` | outcome accumulated over the hooks of one run | `run`, `run_hook`, `record`, report | several processes, the agent and spawned programs write one file without a lock |
| read-write guard | `crates/stages/src/read_write_guard` | rule set: exact map and ordered globs | fold, lookup, `subsumes`, pre-filter, `dispatch` | which of several overlapping rules answers |
| configuration | `src/config` | merged hooks and rules, repository root | `load`, `merge_layer_at`, `merge`, printing | four layers, missing or malformed, one directory under two names |
| rtk stage | `crates/stages/src/rtk.rs` | none | run `rtk rewrite`, classify its exit | an external program |
| flake-lock stage | `crates/stages/src/flake_lock.rs` | none | diff of the file with `HEAD` | two reads at two times |
| drivers | `crates/driver-claude`, `crates/driver-gemini` | none | wire input and output mapping | what an output loses on the wire |
| binary | `src/main.rs`, `src/cli.rs`, `src/output.rs`, `src/registry.rs` | none | arguments, dispatch, exit code | hook of the command line against event of the payload |
| parable | `crates/parable/src` | token stream: lexer, one buffered token, failure snapshot; environment of the taint analysis | lex, peek, take, mark, reset; parse; walk with rules; render | three places to be at, heredocs read ahead, an abstract syntax with thirteen constructs walked by hand |
| corpus-parser and `parable/build.rs` | `crates/corpus-parser/src` | suites read so far | parse a corpus file, generate tests | separators, terminators and escapes that differ by a character; listing order |
| risk-data | `crates/risk-data/src` | files found, merged commands | walk, merge, validate, group; escalate, mitigate | listing order, case-insensitive spellings in nested scopes, nine written-out axes |

The binary loads the configuration, builds the registry from it, has the driver decode the event,
calls `run_pipeline`, and has the driver encode what comes back. Stages call external programs and
read files; nothing is persisted and nothing is shared in memory between invocations, but the host
runs several at once on one working tree. The hazards are listed in `PROJECT.json`, each at the line
where it bites, with the properties that cover it.

### What makes each part correct

- engine: a refusal is never weakened or skipped past; decisions combine to the strongest one
  whatever the order; no stage is passed over without a reason.
- protocol: an accessor sees a field of every structure that has it.
- pre-commit: an undisturbed run reports exactly the net change, names exactly the hooks that made
  it, and reports every failure; disturbed runs still end, and together still report.
- parable: the stream is a cursor whatever is peeked and reset, no byte of a script is read twice or
  dropped, spans nest, every command is shown to the rules once, and a rendered script reads as the same
  tree.
- corpus and risk table: a file means what it spells, every case is tested by the tests its kind needs,
  and what is generated depends on the contents of the directory and not on its listing.
- guard: the pre-filter rejects no match; layering order survives merging; the last layer decides; a
  file has one answer however it is named.

## Modules

| module | models | extends |
| --- | --- | --- |
| `HookProtocol` | hook kinds, output structures and their fields, accessors | - |
| `Verdict` | abstract contract of a pipeline: severity only grows, then it closes | - |
| `Pipeline` | `Registry` and `run_pipeline` over arbitrary stages | `HookProtocol` |
| `PreCommitRunner` | the pre-commit stage in several concurrent processes | - |
| `Glob` | patterns: basename, matching, glob or exact, required literal, specificity | - |
| `RuleSets` | the rule set: fold, order, enumeration, lookup, dispatch | `Glob` |
| `GuardConfig` | loading and merging of layers, the guard's answer, `inceptool config` | `RuleSets` |
| `Wire` | both drivers: names in, answers out | `HookProtocol` |
| `Invocation` | one invocation: arguments, payload, configuration, registry, pipeline over the production stages, answer | `Wire`; `P == INSTANCE Pipeline` |
| `BashLexer` | words, operators, blanks, heredoc bodies; what is skipped at a newline | - |
| `TokenCursor` | abstract contract of a token stream: a cursor that can be put back | - |
| `TokenStream` | the stream: lookahead, failure snapshot, checkpoints, over any lexer | - |
| `BashWords` | references inside a word: expressions, interpolation, assignments, taint of a text | `BashLexer` |
| `BashGrammar` | the parser: every construct, its redirects and its span | `BashWords` |
| `BashRender` | a tree written out, heredocs pending to the end of the line; a tree without spans | `BashGrammar` |
| `Parable` | one script: parsed, walked by the engine, written, parsed again | `BashRender` |
| `CorpusFile`, `TestGenerator` | a `.tests` file by lines; the build script over a directory of them | `TestGenerator` extends `CorpusFile` |
| `RiskTable` | the walk, the merge, the checks, the table | - |
| `Rating` | the axes and the fold of a rating | - |
| `HookProtocolProofs`, `PipelineProofs`, `WireProofs`, `InvocationProofs`, `PreCommitProofs`, `GuardProofs`, `TokenStreamProofs`, `BuildTimeProofs` | theorems | the above, `TLAPS` |
| `MC...` | instances for TLC | the above |

### Correspondence with the code

**Pipeline.** `pipelines` is `Registry::pipelines`; `pos`, `final` and `combined` are the loop's
position and locals. One action is one round of the loop by outcome: `Skip` (tool names mismatch),
`StageErrs` (`?`), `StagePasses` (`None`), `StageTerminates` (`is_terminal`), `StageContributes` (the
`match` on decisions and the replacement of `final_output`); `Return` is the code after the loop with
`set_decision`. A stage is a box that answers with any of its `Replies`: nothing, an error, or an
output of its own hook's variant, which is what the `Stage` trait allows. `reply` is history.

**PreCommitRunner.** One action per point at which something else can happen to the file: the edit
that starts a process, the checks before the loop, each hook's skip, its two reads, its spawn and its
exit, and the report. `HookExits` and `Edit` are external: a program reads the file at its start and
writes its version at its exit, the agent writes whenever it likes. `outcome` is `RunOutcome`;
`Record` and `Report` are `record` and `PreCommitReport::new`. `trace` and `edit` are history; what `trace`
keeps of a hook it keeps by its place in the list, since nothing stops a configuration from naming one id
twice.

**Glob, RuleSets, GuardConfig.** Patterns and paths are short sequences over a small alphabet.
`FromIter`, `IntoIter`, `Get` and `Subsumes` follow `rule_set.rs` and `rule.rs` in what
they compute: the fold, the drop of patterns that do not compile, the sort by `glob_specificity`, the
reversed enumeration, exact rules before globs, the pre-filter before the match. The fold keeps a set: no
two rules it keeps share a pattern, and both indexes are sorted afterwards. `Matches`, the external glob
crate, is a recursive function: `RestMatches` gives, from a place of the pattern on, the places of the path
from which the rest of it matches. `hint` and `note` of an access policy, which no decision reads, are left
out. `GuardConfig` has one action per layer that
`Config::load` merges; then the process answers one event or prints its configuration. Directories
are told apart by how git and the process name them (`Place`). `merged` is history.

**Wire.** `EventKindOf` and `HookKindOf` are the two name tables of a driver (`map_input`,
`hook_kind`); `ToWire` is `map_output`. An answer is a record of the fields a host acts on and the set
of other fields that are carried, so a property can ask what is lost. The tables `ClaudeSpecific` and
`GeminiSpecific` list the fields each conversion copies. How a host reads an answer (`Refuses`) is
external.

**Invocation.** The variables of `Pipeline` are shared with the instance `P`; `driver`, `hook` and
`payload` are the process's inputs, `enabled` and `denied` what the configuration says about the stages
and about this file, `answer` the output and exit status. `UnknownHook`, `BlankInput`, `LoadConfig`,
`RegisterStage`, `DecodeFails`, `RunPipeline`, `RunStage` and `HandleOutput` follow `main.rs` in order:
stages are registered before the payload is decoded. `RtkReplies`, `FlakeReplies`, `GuardReplies` and
`PreCommitReplies` are what each stage can answer to the event at hand; the rtk program, the file read
and the pre-commit hooks choose among them. That the guard denies exactly what its rules say, and that
the pre-commit report is exact, is the matter of `GuardConfig` and `PreCommitRunner`.

**BashLexer, TokenStream.** A script is a sequence of characters, a lexer the position it stands at and
the bytes it has still to skip at the next newline. `Lex` is `lex_token_with_start`: blanks, an operator,
a newline with the heredoc bodies behind it, or a word scanned by `ScanStep` through quotes, expansions
and backslashes; characters of two bytes are there because lengths are in bytes and `take` is in
characters. `stream` is `TokenStream`; `Peek`, `NextToken`, `Checkpoint`, `Reset` and `TakeDelimiter` are
`peek_token`, `next_token`, `checkpoint`, `reset` and `parse_heredoc_target`, and any order of them is a
behaviour, since combinators peek and backtrack as they like. `TokenStream` takes the lexer as a
parameter; `MCTokenStream` gives it the one of `BashLexer`. `taken`, `answer` and `from` are history.

**BashWords, BashGrammar, BashRender, Parable.** One operator per parser function, in its order of
attempts, from a token stream without lookahead (which `IsCursor` allows) to a node with its span or an
error; `Stream(text)` is that token stream, the token at every cursor. A node made right behind its own closing
word ends there; one that is made when nothing more of it was found ends at `SpanEnd`, which is
`previous_span_end` after that look ahead. `Children` is the tree as `Debug` shows it and `Entered` the arms of
`Engine::visit`, so that `EachCommandOnce` compares the two; `WordsAccounted` compares the tree with the
script's own tokens. `Show` is `write_collecting`: what goes on the line and what is pending behind it. `Parable` is
`parse_program`, then `Engine::visit` one statement at a time, then `Display`, then the parser again as
`build.rs` does in the test it generates. `Wide` characters and digits stand for all of their kind; a
descriptor of three digits stands for one that does not fit (`MaxFdDigits`).

**CorpusFile, TestGenerator.** A file is a sequence of lines, each of one of the shapes the format tells
apart; `ParseCase` works on lines where the code works on `"\n---\n"`, and keeps that the newline before a
separator belongs to it. `ReadNext` is one round of the loop of `parse_groups`, and `ParseGroups` runs as many
rounds as there are lines, since each takes one or more. `ReadEntry` is one round of the loop in `main`, in
any order of entries; the script returns an error, panics on an empty identifier, or writes its file once.
`Write` is not in the code: it is the format from the other side, for `ReadsWhatIsWritten`.

**RiskTable.** `Visit` is one round of `Scanner::walk`, in any order of entries, through directories and
symbolic links to them; `Generate` sorts, parses, validates and groups. Each check answers "ok" or an
error, and the first in the order of the code is reported. Names are sequences of numbers ordered like
characters, because paths are sorted as text, separators included; two names of one directory that the
lossy conversion of `to_string_lossy` would make one text are left out, and so are directories that contain
themselves through links (`TreesAssumption`). The walk stands at the root from the start (`InitTable`), or
`RefuseRoot` ends it there. What is below a directory (`Below`), which the properties compare the table
with, is a function the tree determines and no variable of the walk.

**Rating.** The nine axes are nine triples of levels and `Escalate` and `Mitigate` the arms of the matches
all of them have. The fold that uses them, in a crate that is not in the repository, is external and
follows the README of `risk-data`: escalations first, then mitigations, in any order within each. That the
two classes come one after the other is thus imposed by the model; what `RatingIsOrderFree` and its theorem
say about code in the repository is that the nine matches commute within each class.

## Runs

| run | configuration | shows |
| --- | --- | --- |
| `pipeline` | `MCPipeline.cfg` | `RefusalStands`, `DecisionsCombine`, `NoStageSilenced`, `LastOutputWins`, refinement of `Verdict` |
| `pre_commit` | `MCPreCommitRunner.cfg` | `NetDiffExact`, `AttributionExact`, `FailuresReported`, `SomeoneReports`, `EveryRunEnds` |
| `pre_commit_lost_failure` | `MCPreCommitLostFailure.cfg` | violation of `EveryFailureHasABlock` |
| `glob` | `MCGlob.cfg` | `PrefilterLosesNothing`, `ExactIsLiteral` |
| `guard_config` | `MCGuardConfig.cfg` | `MergeIsOneFold`, `ShownConfigReloads`, `RereadHarmless`, `LastLayerDecides`, `AnchoredAtRoot` |
| `guard_narrowest` | `MCGuardConfigNarrowest.cfg` | violation of `NarrowestGlobWins` |
| `wire` | `MCWire.cfg` | `RefusalSurvives`, `ContentReachesClaude` |
| `invocation` | `MCInvocation.cfg` | `GuardedIsRefused`, `NoStrayRefusal`, `MismatchIsHarmless`, `RtkArrives`, `EveryInvocationAnswered` |
| `invocation_report_lost` | `MCInvocationReport.cfg` | violation of `ReportReachesAgent` |
| `token_stream` | `MCTokenStream.cfg` | refinement of `TokenCursor` (`IsCursor`), `EndIsExplained`, `SpansAreOrdered`, `PeekKeepsPlace`, `ReadOnce` |
| `parable` | `MCParable.cfg` | `WordsAccounted`, `SpansNest`, `EachCommandOnce`, `FlowsFollowed`, `RoundTrips` |
| `build_time` | `MCBuildTime.cfg` | `ReadsWhatIsWritten`, `EveryCaseTested`, `TableIsDetermined`, `TableAnswersOnce`, `RatingIsOrderFree` |

Bounds, and why they are enough:

- `pipeline`: three stages in one bucket with tool names that overlap in every way, two in the bucket
  whose final word is a behavior, one for an event without a tool, in every order of registration and
  any subset, with every decision and halt flag. A wrong combination needs two stages, a silenced one
  three.
- `pre_commit`: two processes, three hooks each, three texts and an unreadable file. Two processes
  give every race on one file; three hooks give a change, its undoing and a failure after it. Some
  sets of hooks undo each other, some only move a text towards its clean form; `SomeoneReports` speaks of
  the latter, since of two hooks that undo each other neither run need see a change.
- `glob`: patterns of five symbols hold a leading `**/` and a literal on each side of a wildcard.
- `guard_config`: six layers of two rules each, so that every way two rules of different or of one
  layer can overlap occurs, in each of three files, at five kinds of place.

- `wire`: no bound; every output a driver can receive, its other fields filled in every combination.
- `invocation`: both hosts' words for the tool events, a session event and a wrong name, on the command
  line and in the payload independently; a shell tool, a read tool, a write tool and one no stage
  wants; a `flake.lock` and another file, no file, or input that does not decode; any subset of the
  stages enabled, the file denied or not.
- `token_stream`: every text of up to three of nine characters, one of each kind the lexer tells apart,
  and longer ones with two heredocs on a line, stripped tabs, quoted and missing delimiters and wide
  letters; two checkpoints (`MaxMarks`), the fewest that can be held one inside the other.
- `parable`: every way to join two of six commands or to put them into one of nine constructs, every such
  pair of two commands inside another, all three-line scripts over nine assignments and uses, and a list
  of scripts the parser refuses or reads in its own way, and every construct, plain, redirected, in the
  background or with a separator, with blanks at the end of the script. A node forgotten, doubled or misplaced needs one
  construct inside another; a flow needs an assignment, another over it and a use.
- `build_time`: all cases with up to two lines of any shape in each section, with one case or two; every
  header and every two loose lines; three directory entries of eight kinds. Directories of up to three
  files below one another or linked twice, all pairs of a global and a subcommand's ruleset of seven. Up to
  three rules on two axes: an axis is folded apart from the others, so a second one only shows that
  leaving it out changes nothing.

The specifications of one invocation, one script or one build stop when it is over, and their
configurations switch the deadlock check off; `TokenStream` never has to stop and is checked for deadlock.

Fairness. `Pipeline` assumes that a stage that is run answers and that the loop goes on: it is
sequential code, and a stage that hangs hangs the program. `PreCommitRunner` assumes that the
operating system runs each started process and that hook programs exit; the code waits for them
without a timeout, so nothing weaker gives `EveryRunEnds`. The agent is never forced to edit.
`Invocation` assumes weak fairness of its whole next-state relation: one sequential program whose
stages return.

## Findings

- *Lost failure* (`pre_commit_lost_failure`). `run_hook` reads the file again after the hook's program
  has exited, and returns `None` if that read fails; the exit status goes with it. A hook that fails
  and leaves the file deleted or not UTF-8 is not reported, although the module documents "one block
  per failing hook".
- *Wider glob wins* (`guard_narrowest`). `RuleSet::get` documents that of several matching patterns
  the narrowest wins. The order is a count of wildcard characters: `**/b` (only files named `b`) has a
  higher count than `*b` and loses to it, so a rule for `**/Cargo.lock` never overrides `*.lock`.
- *Report lost under Gemini* (`invocation_report_lost`). The pre-commit stage also answers for Gemini's
  write tools and puts its report into `additional_context`. Gemini's answer to an `AfterTool` event has
  no field for it, so the hooks run, may rewrite the file, and the agent is told nothing, although the
  stage documents that it feeds the results back.

What the passing runs of the parser leave out, because the code does not do it and the properties say so
in their premises:

- `Display` does not write every tree so that it reads the same, which the corpus tests assert of every
  case they have (`crates/parable/README.md:332-335`): `${x}y` is written
  `$xy`, `>f if` as `if >f`, several statements of one list on lines of their own. `RoundTrips` excludes
  them by name (`Writable` in `Parable`).
- A descriptor that does not fit is dropped from the command (`parser/redirect.rs:81`), and the digits of
  `a 2 >f` are taken for one although a blank follows them. `WordsAccounted` excludes the first (`IsLost`).
- A heredoc's body is looked for behind the first newline of the text, even one inside a quoted word of the
  same line (`lexer/heredoc.rs:99`). `ReadOnce` and `RoundTrips` exclude such words.
- A word is measured in bytes and cut in characters (`lexer/word.rs:213`), so a word with a wide character
  takes what follows it along; a single quote opens a quote inside double quotes. Both are in `BashLexer` as
  they are.
- A peek at the end of the input skips trailing blanks and buffers nothing, so it moves the end of the
  previous token, although `stream/token_stream.rs:76-77` says that a peek alone is never mistaken for
  consumed progress; `PeekKeepsPlace` is about peeks that find a token. A pipeline, and-or, sequence, background
  or redirected node with only blanks behind it therefore takes them in: the pipeline of `a | b ` is 0..6.
  `SpansNest` says just when that happens, and that every other node ends where a token ends, a newline
  token behind the heredoc bodies it jumps over.
- The taint analysis takes the last assignment of a branch or loop body as the only one
  (`taint.rs:53-62`), so `FlowsFollowed` is about scripts that run straight.
- A subcommand's `short_flags_combinable` is not checked against the Go grammar, only the command's is; an
  alias that repeats its command's own name gives two entries for one platform, which a test accepts.
  `TableAnswersOnce` asks for one entry as a set.
- A flag without a spelling is not rendered, yet its patterns are checked (`types/command.rs:204`), so it can have
  data refused in which no entry shows anything wrong. That clear data are accepted is therefore said of data whose
  flags are all spelled (`AllSpelled`); that accepted data are clear is said of all.

## Proofs

`HookProtocolProofs` proves `AccessorsCoverFields`: over all hook kinds, the kinds in the arms of an
accessor are exactly those whose structure has the field. It is used in the pipeline's proofs, where
the properties read raw fields and the code reads through accessors.

`PipelineProofs` proves for any set of stages, hooks, tool names and replies allowed by the
assumptions: `TypeCorrect`, `RefusalsStand`, `DecisionsAreCombined`, and the safety part of the
refinement (`SafelyImplementsVerdict`: initial states map to initial states, each step maps to a step
of `Verdict` or to a stutter). None of these is inductive. The invariant `IInv` adds that a stage is
in its own hook's bucket at most once, that replies are recorded only for entries before the
position, that a terminal or failed reply exists only when the pipeline has returned it, and that
`final` and `combined` are the last output and the fold of the decisions recorded so far.

It also proves `NobodySilenced` and `LastOutputIsReturned`. Both speak of the end of the loop, and `CInv` says on the way, relative to `IInv`, what the end inherits: every entry
behind `pos` that matches was run (`Walked`), and `final` is the answer of the last stage that gave an output
(`Latest`). With it every safety invariant of the pipeline run is proved.

`WireProofs` proves `RefusalsSurvive` for both drivers: the invariant `WellFormed` says that a field is
filled only where the kind has it, so that, by `AccessorsCoverFields`, the accessors lose nothing; each
driver's mapping is then compared with the raw fields. `ContentSurvives` follows the fields instead: what a
stage fills in is a field of the output's structure (`Contained`), and of each variant the fields that speak
to Claude's model are among those its conversion copies (`Reaches`).

`InvocationProofs` proves all four safety properties of an invocation, for any tools and files and
whichever stages are enabled: `GuardedFilesAreRefused`, `NothingElseIsRefused`, `MismatchesAreHarmless`, `RtkIsHeard`. The pipeline
inside is not looked at again: every step of an invocation is a step of the instance `P` or leaves its
variables alone, so the pipeline's `IInv` and `CInv` hold of it (`PipelineInv`), and their consequences are
cited. What the invocation adds is `InvocationInv`: the inputs stay (`InputsFixed`), buckets hold the stages
in the order `main.rs` registers them (`InOrder`, `RegisteredInTurn`), a recorded reply is one its stage can
give to this event (`RepliesFit`) and belongs to a registered stage that wants the tool (`DueOnly`), and each
phase comes with what is in place by then (`Phases`).

`PreCommitProofs` proves for any number of processes, hooks, texts and effects: `NetDiffIsExact`,
`AttributionIsExact`, `FailuresAreReported`, `RewritesAreReported`. `RunInv` relates, for each process, its
outcome to what happened: `FailuresKept` says that the failures listed are those of the hooks passed so far
that failed and whose result was read, `DiffKept` what the outcome holds at each place of the loop as long as
nobody disturbed the run: no diff yet and the file as it was met, or its first and its present text, and the
hooks that changed it. `RewritesAreReported` needs
a second invariant, `QuietInv`, over all processes at once: as long as only hooks that raise some rank of the
text write, either nobody has moved the file since the edit and no run remembers another text (`Unmoved`), or
it stands above the rank of the edit, no program can bring it back down (`Above`), and a run the edit did not
find over has the change to tell (`Tells`). `FailuresReported` speaks of places in the list of hooks: stated
of ids it is false, because two hooks may share one.

`GuardProofs` proves all seven properties of patterns, rules and layers, for any alphabet, patterns, paths
and files:

- `PrefilterIsSound`, `ExactPatternsAreLiteral`. A match shows every run of the pattern that is free of
  wildcards, behind the leading `**/`, somewhere in the path (`RunShown`), the required literal among them.
  `RestMatches` is recursive; its equation is a lemma (a function that solves it is built), and what it
  computes is shown by induction on the place of the pattern, over sets of numbers (`Induct`).
- `LayersFoldAsOne`, `RereadChangesNothing`, `PrintedConfigReloads`. `FromIter` leaves in force the
  rules no later one subsumes (`Survivors`), less those that do not compile (`Kept`), and what a concatenation
  leaves is what its second half leaves, over what the first leaves and the second does not subsume
  (`KeptConcat`). The orders of both indexes are strict and total (`MoreSpecificOrders`, `LexLessTotal`), so
  sorting and enumerating lose nothing and can be undone (`IntoIterKeeps`); merging in any grouping and
  reading a layer twice are then equations about sets of rules (`Over`).
- `LastLayerHasTheWord`, `RulesAreAnchored` read the same sets through `GetIs`, what a lookup returns.

`GuardInv` ties the variables to that algebra: the rules in force are those of the files read so far, on the
base layer (`Loaded`, `Based`); the root's layer was the last one before that of the working directory; an
answer is the one the rules give (`Answered`).

`TokenStreamProofs` proves for every lexer: `StreamIsCursor` (the stream refines `TokenCursor`),
`PeekIsNoProgress` and `EndExplained`. The first two rest on `BufferInv`: in the stream and in every
checkpoint, a buffered token is what the lexer cuts off at the place it was read from, the lexer stands
right behind it, and nothing has failed. A reset restores a stream the invariant also speaks of, which is
why it quantifies over the checkpoints. `EndInv` adds that every lexer in sight is one of the script and
that an answer "none" without a snapshot means the lexer is at the end; it needs the assumption
(`LexerAssumption`, evaluated by TLC over `BashLexer`) that a lexer that found nothing finds the same nothing
from where it stopped. `SpansOrdered` is about all tokens taken, so `SpanInv` says of the stream and of every
checkpoint that each token was cut off behind the one before it (`Chain`, `Behind`) and that the lexer stands
behind the last (`Walked`); it rests on `ProgressAssumption`: a lexer never goes back, and a token takes at
least a byte.

`BuildTimeProofs` proves `RatingDetermined` for any axes, baseline and set of rules. The finished rating says
nothing of the way there, so the invariant `IInv` does: escalations are folded before mitigations, and on
every axis the profile is the best of the caps folded so far and the worst of the baseline and the
escalations folded so far. Each fold adds one level to one of the two sets (`EscalateAdds`, `MitigateAdds`).

It also proves `TableDetermined`, for any set of finite trees of any depth and whatever the files hold. The
invariant `WalkInv` says where the walk is: the files below the root are those of a part that is done, none
of them unreadable and each of them found, and those behind the entries left in the frames of the walk
(`Covered`); and no two of all these have one path (`Apart`). Stepping into a directory moves what was behind
the entry into the new frame (`AheadDirectory`, `StepsIn`), by the equation of the recursive `Below`
(`BelowEquation`, from the bound on the depth of a directory); two entries of one directory have nothing under
one path because a name ends at the first separator (`NamesPart`, `Siblings`). At the end nothing is ahead, so
what was found is what is there (`AllFound`). The order of paths is strict and total, hence files of different
paths are sorted in one way (`Placed`, `SortedByPath`), and what follows the sort is the same computation on
the same sequence, whatever it computes.

The third is `TableAnswered`: `TableAnswersOnce` for any commands, spellings and way of folding case. Only
`Generate` writes a table, so the step is where it is shown (`GeneratesAnswers`), from `WalkInv`, which brings
every file in (`AllFound`), and from `FilesAreEntries`, by which what is parsed is what the tree holds
(`SourcesHold`). The checks go through the declarations and compare each
name and spelling with those before it, while the entries are those declarations flattened into lists; the two
meet in where an element of a flattened list came from (`PlacedBy`): a list has no two elements that clash iff
no place of the declarations has an earlier one it clashes with (`NoTwo`), and a list of checks is free of errors
iff each of its parts is (`FlattenHolds`, `FirstErrorIs`). From there the argument climbs as the code does, from
rulesets (`RulesClear`) to commands (`CommandClear`) to the whole data (`DatasetSound`). The table is made by
pushing variants one at a time; the recursive function has its equation (`PushesAre`), and by induction on the
number of pushes a name holds what was pushed under it and nothing else (`PushesGive`, `GroupedAnswers`).

The last is `CasesTested`: `EveryCaseTested` for any directory and whatever its files hold. `GenInv` pairs what
was visited with what was made of it: nothing visited was an obstacle (`CleanSoFar`), and the modules are one for
each suite read, with different numbers (`OneModuleEach`). No error is called like a state of the script
(`SuiteRead`, which follows the rounds of the parser's loop: `Underway`, `ReadOnKeeps`), so a script that stopped
has not written. That the functions of a group run its cases (`GroupTested`) follows from the two halves of the
partition (`PartitionIs`), by the same lemma on flattened lists as above; it needs that a case read from a file is
of one kind or the other, which is the other half of the invariant of the parser's loop.

The theorems are about every value of the constants that meets the assumptions stated beside them: that
stages, hooks, layers, paths and replies are of the types the code gives them (`StageAssumption` and its like,
`ConfigsAssumption`, `LayersAssumption`, `PathsAssumption`, `TreesAssumption`, `CorporaAssumption`), that a tool is not called like a wildcard and a
file not like an input without one (`EventToolsAssumption`, `FilesAssumption`), that the letters of the
alphabet are no wildcards and have an order (`AlphabetAssumption`), and the two about the lexer. TLC evaluates
all of them on the instances of the runs.

Only model-checked:

- liveness (`EveryRunEnds`, `EveryInvocationAnswered`, the progress part of `ImplementsVerdict`), which the
  prover cannot treat;
- the properties of the lexer, the parser, the rules and the rendering (`ReadOnce`, `WordsAccounted`,
  `SpansNest`, `EachCommandOnce`, `FlowsFollowed`, `RoundTrips`), whose operators are recursive over texts and
  trees;
- what the format of corpus files means (`ReadsWhatIsWritten`): an induction over texts, writing against reading.

## What is left out

Deserialisation and rendering of text, tracing, logging, the wording of denials, reports and error
messages. The glob and regex crates, git, the host, the hook programs and the program that folds ratings
are external and modelled by what the code relies on. Configuration files are taken to be stable during one
load, and a corpus or risk directory during one build. The diff of inputs behind a flake-lock denial only
decides its text. Parsers of YAML and TOML are libraries: what they read is data here.

## Plan

Done: the pipeline and its contract, the pre-commit stage, the guard and its configuration, the drivers, one
invocation, the bash parser with its stream, rules and rendering, the programs of the build, and the proofs
above. Next:

1. Proofs: that what is written reads back (`ReadsWhatIsWritten`), for texts of any length.
2. The input diff of `flake_lock` against a reference definition.
3. Exit codes and the worktree's plain-text answer in `Invocation`, over arbitrary stages.
