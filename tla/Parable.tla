------------------------------- MODULE Parable -------------------------------
(***************************************************************************)
(* What the library does with a script: parse_program builds the tree,     *)
(* Engine::run walks it with an environment, Display writes it and         *)
(* the corpus tests (build.rs) read it again.                              *)
(***************************************************************************)
EXTENDS BashRender

CONSTANT Scripts

VARIABLES
  script,
  phase,         \* "text", "parsed", "written", "read" or "rejected"
  tree,          \* the statements of the script
  todo,          \* the statements the engine has still to visit
  env,           \* the engine's environment
  visited,       \* history: the places of the commands the rules have seen
  findings,      \* the places of the commands that have a finding
  written,       \* the script written out
  again          \* what parsing that gave

vars == <<script, phase, tree, todo, env, visited, findings, written, again>>

Init ==
  /\ script \in Scripts
  /\ phase = "text" /\ tree = <<>> /\ todo = <<>> /\ env = <<>>
  /\ visited = <<>> /\ findings = <<>> /\ written = <<>> /\ again = <<>>

(* What the parser says of a text: one list of statements, or none. *)
Results(r) == IF r.res = "ok" THEN <<r.v>> ELSE <<>>

Parse ==
  /\ phase = "text"
  /\ \E results \in {Results(ParseProgram(script))} :
       /\ phase' = IF results = <<>> THEN "rejected" ELSE "parsed"
       /\ tree' = FlattenSeq(results)
  /\ todo' = tree'
  /\ UNCHANGED <<script, env, visited, findings, written, again>>

(* TaintedDangerousCommand: the environment is the one before the command. *)
DangerousCommand == {<<"eval">>, <<"source">>, <<".">>}

Flagged(stmt) ==
  /\ stmt.type = "command" /\ stmt.name \in DangerousCommand
  /\ \E i \in DOMAIN stmt.args : ResolveExpr(env, stmt.args[i].expr) = "tainted"

Applied_FirstWins(stmt) ==
  LET eq == AssignmentAt(stmt.name)
  IN IF stmt.type = "command" /\ stmt.args = <<>> /\ eq > 0
     THEN env @@ (SubSeq(stmt.name, 1, eq - 1) :> ResolveText(env, After(stmt.name, eq)))
     ELSE env

(* apply_statement: a command of one word, and that word an assignment. *)
Applied(stmt) ==
  LET eq == AssignmentAt(stmt.name)
  IN IF stmt.type = "command" /\ stmt.args = <<>> /\ eq > 0
     THEN (SubSeq(stmt.name, 1, eq - 1) :> ResolveText(env, After(stmt.name, eq))) @@ env
     ELSE env

Branches_NoElse(stmt) == <<stmt.condition, stmt.then>>

Branches(stmt) == <<stmt.condition, stmt.then>> \o stmt.else

(* The statements Engine::visit goes on to, by an arm for each construct.     *)
Entered(stmt) ==
  CASE stmt.type = "command" -> <<>>
    [] stmt.type \in {"for", "subshell", "brace_group"} -> <<stmt.body>>
    [] stmt.type = "if" -> Branches(stmt)
    [] stmt.type \in {"while", "until"} -> <<stmt.condition, stmt.body>>
    [] stmt.type = "case" -> FlattenSeq([i \in DOMAIN stmt.arms |-> stmt.arms[i].body])
    [] stmt.type = "pipeline" -> <<stmt.head>> \o [i \in DOMAIN stmt.tail |-> stmt.tail[i].cmd]
    [] stmt.type = "and_or" -> <<stmt.left, stmt.right>>
    [] stmt.type \in {"sequence", "background"} -> <<stmt.left>> \o stmt.right
    [] stmt.type = "redirected" -> <<stmt.inner>>

(* Engine::visit: the rules, the environment, then the statements inside. *)
Visit ==
  /\ phase = "parsed" /\ todo # <<>>
  /\ LET stmt == Head(todo)
     IN /\ todo' = Entered(stmt) \o Tail(todo)
        /\ env' = Applied(stmt)
        /\ visited' = IF stmt.type = "command" THEN Append(visited, stmt.span[1]) ELSE visited
        /\ findings' = IF Flagged(stmt) THEN Append(findings, stmt.span[1]) ELSE findings
  /\ UNCHANGED <<script, phase, tree, written, again>>

Write ==
  /\ phase = "parsed" /\ todo = <<>>
  /\ phase' = "written" /\ written' = DisplayAll(tree)
  /\ UNCHANGED <<script, tree, todo, env, visited, findings, again>>

ReadAgain ==
  /\ phase = "written"
  /\ again' = Results(ParseProgram(written))
  /\ phase' = "read"
  /\ UNCHANGED <<script, tree, todo, env, visited, findings, written>>

Next == Parse \/ Visit \/ Write \/ ReadAgain

Spec == Init /\ [][Next]_vars

-----------------------------------------------------------------------------
(* The tokens of a text up to its end or its first failure, heredoc bodies   *)
(* passed over.                                                              *)
RECURSIVE TokensFrom(_, _, _)
TokensFrom(t, l, previous) ==
  LET token == Lex(t, l)
      after == IF previous \in HeredocKind /\ token.kind = "word"
               THEN Heredoc(t, token.next, previous = <<"<", "<", "-">>, token.chars).lexer
               ELSE token.next
  IN IF token.kind \in {"eof", "error"} THEN <<>>
     ELSE <<token>> \o TokensFrom(t, after, token.chars)

Tokens == TokensFrom(script, NewLexer, <<>>)

Keyword ==
  {"for", "in", "do", "done", "if", "then", "elif", "else", "fi", "while", "until",
   "case", "esac", "{", "}"}

(* A word as the tree shows it. *)
AsShown(w) == ShowExpr(Interpolate(w))

(* The words a node holds itself, those of the nodes inside it left out. *)
OwnWords(s) ==
  CASE s.type = "command" -> <<AsShown(s.name)>> \o [i \in DOMAIN s.args |-> ShowExpr(s.args[i].expr)]
    [] s.type = "for" ->
         <<ShowExpr(s.variable.expr)>> \o
         [i \in DOMAIN SelectSeq(s.iterable, LAMBDA w : w.span[1] < w.span[2])
            |-> ShowExpr(s.iterable[i].expr)]
    [] s.type = "case" ->
         <<ShowExpr(s.word.expr)>> \o
         FlattenSeq([i \in DOMAIN s.arms |->
           [j \in DOMAIN s.arms[i].patterns |-> AsShown(s.arms[i].patterns[j])]])
    [] s.type = "redirected" ->
         FlattenSeq([i \in DOMAIN s.redirects |->
           LET r == s.redirects[i]
           IN (IF r.fd = <<>> THEN <<>> ELSE <<r.fd>>) \o <<AsShown(ShowTarget(r.target))>>])
    [] OTHER -> <<>>

RECURSIVE Preorder(_)
Preorder(s) ==
  <<s>> \o FlattenSeq([i \in DOMAIN Children(s) |-> Preorder(Children(s)[i])])

NodesInOrder == FlattenSeq([i \in DOMAIN tree |-> Preorder(tree[i])])

Unstructured(words) == SelectSeq(words, LAMBDA w : ~ \E k \in Keyword : w = <<k>>)

(* A descriptor too large for the integer it is read into. *)
IsLost(w) == IsAllDigits(w) /\ Len(w) > MaxFdDigits

(* Nothing a script says is dropped, doubled or made up: the words of the     *)
(* tree are the words of the script, whatever construct they went into.       *)
WordsAccounted ==
  phase = "written" =>
    LET words == SelectSeq(Tokens, LAMBDA t : t.kind = "word" /\ ~ IsLost(t.chars))
    IN ToBag(Unstructured([i \in DOMAIN words |-> AsShown(words[i].chars)]))
         = ToBag(Unstructured(FlattenSeq([i \in DOMAIN NodesInOrder |-> OwnWords(NodesInOrder[i])])))

(* The constructs that nothing of their own closes: the parser looks for more *)
(* of them, and has met what follows, before it knows where they end.         *)
OpenEnded == {"pipeline", "and_or", "sequence", "background", "redirected"}

(* Where a token ends; a newline, behind the heredoc bodies it jumps over.    *)
EndsAt(token) == token.next.at

(* A node's span starts where a token starts and ends where one ends, except  *)
(* that an open-ended node with nothing but blanks behind it takes them in.   *)
(* It holds the spans of the nodes inside it, one behind the other, and what  *)
(* joins nodes ends with the last of them: no token looked at is taken along. *)
SpansNest ==
  phase = "written" =>
    LET tokens == ToSet(Tokens) IN
    \A s \in Nodes(tree) :
      LET inner == Children(s) IN
      /\ \E from, to \in tokens :
           /\ s.span[1] = from.start.at
           /\ s.span[2] = IF s.type \in OpenEnded /\ AllIn(After(script, EndsAt(to)), Blank)
                          THEN Len(script) ELSE EndsAt(to)
      /\ \A i \in DOMAIN inner :
           /\ s.span[1] <= inner[i].span[1] /\ inner[i].span[2] <= s.span[2]
           /\ i > 1 => inner[i - 1].span[2] <= inner[i].span[1]
      /\ s.type \in {"pipeline", "and_or", "sequence"} =>
           ~ \E t \in tokens : Last(inner).span[2] <= t.start.at /\ t.start.at < s.span[2]

(* The engine shows the rules every command of the script once, in the order  *)
(* of the script: what it enters, arm by arm, are all the nodes of the tree,  *)
(* whose words WordsAccounted compares with the script's.                     *)
EachCommandOnce ==
  phase = "written" =>
    LET commands == {s \in Nodes(tree) : s.type = "command"} IN
    /\ ToSet(visited) = {s.span[1] : s \in commands}
    /\ \A i \in 2..Len(visited) : visited[i - 1] < visited[i]

(* Scripts that run from one end to the other. *)
Straight ==
  \A s \in Nodes(tree) : s.type \in {"command", "sequence", "brace_group", "redirected"}

Names(w) ==
  {segment.text : segment \in {g \in ToSet(InterpolationSegments(w)) : g.kind = "reference"}}

(* In a script that runs from one end to the other, a command is flagged just *)
(* when the last assignments before it carry an argument of the script to it  *)
(* (taint.rs Environment, rules.rs TaintedDangerousCommand).                  *)
FlowsFollowed ==
  phase = "written" /\ Straight =>
    LET commands == SelectSeq(NodesInOrder, LAMBDA s : s.type = "command")
        Sets(i, name) == commands[i].args = <<>> /\ IsPrefix(name \o <<"=">>, commands[i].name)
        Mentioned(i) ==
          Names(commands[i].name) \cup
          UNION {ToSet([k \in DOMAIN w.expr |-> w.expr[k].text]) : w \in ToSet(commands[i].args)}
        carries[i \in DOMAIN commands] ==
          \E name \in Mentioned(i) :
            \/ name \in {<<"1">>, <<"@">>}
            \/ \E j \in 1..(i - 1) :
                 Sets(j, name) /\ carries[j] /\ \A k \in (j + 1)..(i - 1) : ~ Sets(k, name)
    IN ToSet(findings) =
         {commands[i].span[1] : i \in {j \in DOMAIN commands :
                                         commands[j].name \in DangerousCommand /\ carries[j]}}

(* What Display cannot write so that it reads the same: several statements,  *)
(* which it puts on lines of their own; a word whose reference the text      *)
(* behind it would run on from, since $xy is not ${x}y; a command named like *)
(* a keyword, which was one behind a redirect only; and a word that holds a  *)
(* newline, which the first heredoc of its line takes for the line's end.    *)
RunsOn(segments) ==
  \E i \in 2..Len(segments) :
    /\ segments[i - 1].kind = "reference" /\ segments[i].kind = "literal"
    /\ IsAlphanumeric(segments[i].text[1])

Writable ==
  /\ Len(tree) = 1
  /\ \A t \in ToSet(Tokens) :
       t.kind = "word" => ~ RunsOn(InterpolationSegments(t.chars)) /\ "\n" \notin ToSet(t.chars)
  /\ \A s \in Nodes(tree) : s.type = "command" => \A k \in Keyword : s.name # <<k>>

(* roundtrips, the test build.rs makes of every corpus case: a script written *)
(* out is a script, and reads as the same tree.                               *)
RoundTrips ==
  phase = "read" /\ Writable => again # <<>> /\ ShapeAll(again[1]) = ShapeAll(tree)
=============================================================================
