----------------------------- MODULE BashGrammar -----------------------------
(***************************************************************************)
(* parable's recursive-descent parser.  A position is a lexer cursor: the  *)
(* token stream's buffer is invisible (TokenStream!IsCursor), so a token   *)
(* is looked at as often as a rule likes.  A rule answers with a node and  *)
(* the cursor behind it, with a backtrack that an alternative may follow,  *)
(* or with a cut that ends the parse.                                      *)
(***************************************************************************)
EXTENDS BashWords

Ok(v, l) == [res |-> "ok", v |-> v, l |-> l]
Backtrack == [res |-> "backtrack"]
Cut == [res |-> "cut"]

(* cut_err: past the token that told what a construct is, nothing else will do. *)
Cutting(r) == IF r.res = "backtrack" THEN Cut ELSE r

Then(r, Continue(_, _)) == IF r.res = "ok" THEN Continue(r.v, r.l) ELSE r

-----------------------------------------------------------------------------
(* Tokens.  The parser's input is the token at every cursor of a script, and *)
(* the expression that is in it when it is a word.                           *)

Lexers(text) == [at : 0..Len(text), skip : 0..Bytes(text)]

Stream(text) ==
  [text |-> text,
   token |-> [l \in Lexers(text) |-> Lex(text, l)],
   expr |-> [l \in Lexers(text) |-> Interpolate(Lex(text, l).chars)]]

Peek(t, l) == t.token[l]

IsOneOf(token, kinds, S) == token.kind \in kinds /\ token.chars \in S

AtKeyword(t, l, w) == IsOneOf(Peek(t, l), {"word"}, {<<w>>})
AtOperator(t, l, ops) == IsOneOf(Peek(t, l), {"operator"}, ops)
AtAny(t, l, stops) == IsOneOf(Peek(t, l), {"word", "operator"}, stops)

(* The token when it is one of S. *)
Take(token, kinds, S) == IF IsOneOf(token, kinds, S) THEN Ok(token.chars, token.next) ELSE Backtrack

ConsumeKeyword(t, l, w) == Take(Peek(t, l), {"word"}, {<<w>>})
Consume(t, l, ops) == Take(Peek(t, l), {"operator"}, ops)

Separator == {<<";">>, <<"\n">>}
ArmTerminator == {<<";", ";">>, <<";", "&">>, <<";", ";", "&">>}

RECURSIVE SkipNewlines(_, _)
SkipNewlines(t, l) == IF AtOperator(t, l, {<<"\n">>}) THEN SkipNewlines(t, Peek(t, l).next) ELSE l

SpanStart(t, l) == Peek(t, l).start.at

(* The lexer's own place, behind the token that was looked at. *)
SpanEnd_Peeked(t, l) == Peek(t, l).next.at

(* previous_span_end, once the parser has looked for one more token: where    *)
(* the last one ended, unless there is none left.  Then the lexer has skipped *)
(* the blanks in front of the end, and no lookahead remembers them.           *)
SpanEnd(t, l) == IF Peek(t, l).kind \in {"eof", "error"} THEN Peek(t, l).next.at ELSE l.at

(* A node made right behind a token of its own ends at that token's cursor,   *)
(* any other at the SpanEnd.                                                  *)
Spanned(node, start, end) == node @@ [span |-> <<start, end>>]

LiteralOf(w, expr) ==
  IF w.kind = "word" THEN Ok([expr |-> expr, span |-> <<w.start.at, w.next.at>>], w.next) ELSE Backtrack

ParseLiteral(t, l) == LiteralOf(Peek(t, l), t.expr[l])

(* A case pattern is taken verbatim. *)
PatternOf(w) == IF w.kind = "word" THEN Ok(w.chars, w.next) ELSE Backtrack
ParsePatternWord(t, l) == PatternOf(Peek(t, l))

(* repeat: as many as there are, none when the first one backtracks. *)
OrNone(r, l) == IF r.res = "backtrack" THEN Ok(<<>>, l) ELSE r

RECURSIVE ParseWords(_, _)
ParseWords(t, l) ==
  OrNone(Then(ParseLiteral(t, l), LAMBDA w, m :
           Then(ParseWords(t, m), LAMBDA rest, n : Ok(<<w>> \o rest, n))), l)

-----------------------------------------------------------------------------
(* Redirects. *)

HeredocKind == {<<"<", "<">>, <<"<", "<", "-">>}
DuplicateKind == {<<"<", "&">>, <<">", "&">>}
BothKind == {<<"&", ">">>, <<"&", ">", ">">>}
RedirectKind ==
  HeredocKind \cup DuplicateKind \cup BothKind \cup
  {<<"<">>, <<">">>, <<">", ">">>, <<">", "|">>, <<"<", ">">>, <<"<", "<", "<">>}

(* The file descriptors that fit: as many digits stand for u32::MAX. *)
MaxFdDigits == 2
FdOf(digits) == IF Len(digits) <= MaxFdDigits THEN digits ELSE <<>>

(* parse_fd_prefix: the digits count when a redirect operator that takes a   *)
(* descriptor is the next token, with or without blanks between the two; a   *)
(* number that does not fit is consumed all the same.                        *)
FdOfWord(t, l, w) ==
  IF w.kind = "word" /\ IsAllDigits(w.chars) /\ AtOperator(t, w.next, RedirectKind \ BothKind)
  THEN [fd |-> FdOf(w.chars), l |-> w.next]
  ELSE [fd |-> <<>>, l |-> l]

FdPrefix(t, l) == FdOfWord(t, l, Peek(t, l))

IsDupTarget(w) ==
  w.kind = "word" /\ (w.chars = <<"-">> \/ (IsAllDigits(w.chars) /\ FdOf(w.chars) # <<>>))

DupTarget(w) == IF w.chars = <<"-">> THEN [close |-> TRUE] ELSE [fd |-> w.chars]

TargetOf(w, literal, kind) ==
  IF kind \in DuplicateKind /\ IsDupTarget(w) THEN Ok(DupTarget(w), w.next)
  ELSE Then(Cutting(literal), LAMBDA word, m : Ok([file |-> word.expr], m))

HeredocTarget(t, w, kind) ==
  IF w.kind # "word" THEN Cut
  ELSE Then(Ok(Heredoc(t.text, w.next, kind = <<"<", "<", "-">>, w.chars), w.next),
         LAMBDA got, m : Ok([delimiter |-> w.chars, body |-> got.body], got.lexer))

ParseTarget(t, l, kind) ==
  IF kind \in HeredocKind THEN HeredocTarget(t, Peek(t, l), kind)
  ELSE TargetOf(Peek(t, l), ParseLiteral(t, l), kind)

RedirectAfter(t, prefix) ==
  Then(Consume(t, prefix.l, RedirectKind), LAMBDA kind, m :
    Then(ParseTarget(t, m, kind), LAMBDA target, n :
      Ok([fd |-> prefix.fd, kind |-> kind, target |-> target], n)))

ParseRedirect(t, l) == RedirectAfter(t, FdPrefix(t, l))

RECURSIVE ParseRedirects(_, _)
ParseRedirects(t, l) ==
  OrNone(Then(ParseRedirect(t, l), LAMBDA one, m :
           Then(ParseRedirects(t, m), LAMBDA rest, n : Ok(<<one>> \o rest, n))), l)

AttachRedirects(stmt, redirects, start, end) ==
  IF redirects = <<>> THEN stmt
  ELSE IF stmt.type = "redirected"
       THEN [stmt EXCEPT !.redirects = @ \o redirects, !.span = <<start, end>>]
  ELSE Spanned([type |-> "redirected", inner |-> stmt, redirects |-> redirects], start, end)

-----------------------------------------------------------------------------
(* Commands. *)

(* The arguments and redirects after a command's name, in any order. *)
RECURSIVE ParseArguments(_, _, _, _), ArgumentAt(_, _, _, _, _, _)
ParseArguments(t, l, cmd, redirects) ==
  ArgumentAt(t, l, cmd, redirects, ParseRedirect(t, l), ParseLiteral(t, l))

ArgumentAt(t, l, cmd, redirects, r, w) ==
  CASE r.res = "ok" -> ParseArguments(t, r.l, cmd, Append(redirects, r.v))
    [] r.res = "cut" -> Cut
    [] r.res = "backtrack" /\ w.res = "ok" ->
         ParseArguments(t, w.l, [cmd EXCEPT !.args = Append(@, w.v), !.span[2] = w.l.at], redirects)
    [] OTHER -> Ok([cmd |-> cmd, redirects |-> redirects], l)

ParseBaseCommand_DropsLeading(t, l) ==
  Then(ParseRedirects(t, l), LAMBDA leading, m :
    LET name == Peek(t, m) IN
    IF name.kind # "word" THEN Backtrack
    ELSE Then(ParseArguments(t, name.next,
                Spanned([type |-> "command", name |-> name.chars, args |-> <<>>],
                        name.start.at, name.next.at), <<>>),
           LAMBDA got, n : Ok(AttachRedirects(got.cmd, got.redirects, SpanStart(t, l), SpanEnd(t, n)), n)))

ParseBaseCommand(t, l) ==
  Then(ParseRedirects(t, l), LAMBDA leading, m :
    LET name == Peek(t, m) IN
    IF name.kind # "word" THEN Backtrack
    ELSE Then(ParseArguments(t, name.next,
                Spanned([type |-> "command", name |-> name.chars, args |-> <<>>],
                        name.start.at, name.next.at), leading),
           LAMBDA got, n : Ok(AttachRedirects(got.cmd, got.redirects, SpanStart(t, l), SpanEnd(t, n)), n)))

RECURSIVE ParseCommand(_, _), ParseStages(_, _, _), ParseOperands(_, _, _, _),
          ParseListUntil(_, _, _), ParseListFrom(_, _, _, _, _), ParseElse(_, _), ParseArms(_, _)

(* The commands of a pipeline, each with the operator in front of it. *)
ParseStages(t, l, op) ==
  Then(ParseCommand(t, l), LAMBDA cmd, m :
    Then(IF AtOperator(t, m, {<<"|">>, <<"|", "&">>})
         THEN Cutting(ParseStages(t, SkipNewlines(t, Peek(t, m).next), Peek(t, m).chars))
         ELSE Ok(<<>>, m),
      LAMBDA rest, n : Ok(<<[op |-> op, cmd |-> cmd]>> \o rest, n)))

ParsePipeline(t, l) ==
  Then(ParseStages(t, l, <<>>), LAMBDA stages, m :
    Ok(IF Len(stages) = 1 THEN stages[1].cmd
       ELSE Spanned([type |-> "pipeline", head |-> stages[1].cmd, tail |-> Tail(stages)],
                    SpanStart(t, l), SpanEnd(t, m)), m))

(* && and || fold to the left; an operand must follow the operator.  What is *)
(* to the left of the operand at l, if anything is, comes with its operator. *)
ParseOperands(t, start, l, before) ==
  Then(ParsePipeline(t, l), LAMBDA operand, m :
    LET node == IF before = <<>> THEN operand
                ELSE Spanned([type |-> "and_or", right |-> operand] @@ before[1], start, SpanEnd(t, m))
    IN IF AtOperator(t, m, {<<"&", "&">>, <<"|", "|">>})
       THEN Cutting(ParseOperands(t, start, SkipNewlines(t, Peek(t, m).next),
                      <<[op |-> Peek(t, m).chars, left |-> node]>>))
       ELSE Ok(node, m))

ParseAndOr(t, l) == ParseOperands(t, SpanStart(t, l), l, <<>>)

(* A list folds to the left as well.  What follows a separator may be the    *)
(* caller's closing word, or nothing a command starts with: then a ; or a    *)
(* newline is dropped, with the newlines after it, and a & is kept.          *)
ParseListFrom(t, start, l, left, stops) ==
  IF ~ AtOperator(t, l, Separator \cup {<<"&">>}) THEN Ok(left, l)
  ELSE LET background == AtOperator(t, l, {<<"&">>})
           m == SkipNewlines(t, Peek(t, l).next)
           next == IF AtAny(t, m, stops) THEN Backtrack ELSE ParseAndOr(t, m)
           Fold(type, right, n) ==
             ParseListFrom(t, start, n,
               Spanned([type |-> type, left |-> left, right |-> right], start, SpanEnd(t, n)), stops)
       IN CASE next.res = "cut" -> Cut
            [] next.res = "ok" -> Fold(IF background THEN "background" ELSE "sequence", <<next.v>>, next.l)
            [] next.res = "backtrack" /\ background -> Fold("background", <<>>, m)
            [] OTHER -> Ok(left, m)

ParseListUntil(t, l, stops) ==
  Then(Cutting(ParseAndOr(t, SkipNewlines(t, l))), LAMBDA first, m :
    ParseListFrom(t, SpanStart(t, l), m, first, stops))

-----------------------------------------------------------------------------
(* Compound commands. *)

(* A list between two words or parentheses, the first already consumed. *)
Enclosed(t, l, close) ==
  Then(ParseListUntil(t, l, {close}), LAMBDA body, m :
    IF AtAny(t, m, {close}) THEN Ok(body, Peek(t, m).next) ELSE Cut)

(* The positional parameters, quoted, at the place where no `in` stands. *)
ImplicitIterable(at) ==
  <<[expr |-> <<[kind |-> "literal", text |-> <<"\"">>], [kind |-> "special", text |-> <<"@">>],
                [kind |-> "literal", text |-> <<"\"">>]>>,
     span |-> <<at, at>>]>>

(* The separator before `do` is only required after an `in` clause. *)
ForHead(t, l) ==
  Then(ParseLiteral(t, l), LAMBDA variable, m :
    LET n == SkipNewlines(t, m) IN
    IF AtKeyword(t, n, "in")
    THEN Then(ParseWords(t, Peek(t, n).next), LAMBDA items, o :
           IF AtOperator(t, o, Separator)
           THEN Ok([variable |-> variable, iterable |-> items], SkipNewlines(t, Peek(t, o).next))
           ELSE Cut)
    ELSE Ok([variable |-> variable, iterable |-> ImplicitIterable(m.at)],
            SkipNewlines(t, IF AtOperator(t, n, Separator) THEN Peek(t, n).next ELSE n)))

ParseForLoop(t, l) ==
  Then(ConsumeKeyword(t, l, "for"), LAMBDA kw, m : Cutting(
    Then(ForHead(t, m), LAMBDA head, n :
      LET close == IF AtKeyword(t, n, "do") THEN <<"done">> ELSE <<"}">> IN
      IF ~ AtKeyword(t, n, "do") /\ ~ AtKeyword(t, n, "{") THEN Cut
      ELSE Then(Enclosed(t, Peek(t, n).next, close), LAMBDA body, o :
             Ok(Spanned([type |-> "for", body |-> body] @@ head, SpanStart(t, l), o.at), o)))))

ParseIfHead(t, l) ==
  Then(Enclosed(t, l, <<"then">>), LAMBDA condition, m :
    Then(ParseListUntil(t, m, {<<"elif">>, <<"else">>, <<"fi">>}), LAMBDA branch, n :
      Ok([condition |-> condition, then |-> branch], n)))

(* An elif is an if in the place of the else branch. *)
ParseElse(t, l) ==
  IF AtKeyword(t, l, "elif")
  THEN Then(ParseIfHead(t, Peek(t, l).next), LAMBDA head, m :
         Then(ParseElse(t, m), LAMBDA branch, n :
           Ok(<<Spanned([type |-> "if", else |-> branch] @@ head, SpanStart(t, l), SpanEnd(t, n))>>, n)))
  ELSE IF AtKeyword(t, l, "else")
       THEN Then(ParseListUntil(t, Peek(t, l).next, {<<"fi">>}), LAMBDA branch, m : Ok(<<branch>>, m))
       ELSE Ok(<<>>, l)

ParseIf(t, l) ==
  Then(ConsumeKeyword(t, l, "if"), LAMBDA kw, m : Cutting(
    Then(ParseIfHead(t, m), LAMBDA head, n :
      Then(ParseElse(t, n), LAMBDA branch, o :
        IF AtKeyword(t, o, "fi")
        THEN Ok(Spanned([type |-> "if", else |-> branch] @@ head, SpanStart(t, l), Peek(t, o).next.at),
                Peek(t, o).next)
        ELSE Cut))))

ParseLoop(t, l, keyword) ==
  Then(ConsumeKeyword(t, l, keyword), LAMBDA kw, m : Cutting(
    Then(Enclosed(t, m, <<"do">>), LAMBDA condition, n :
      Then(Enclosed(t, n, <<"done">>), LAMBDA body, o :
        Ok(Spanned([type |-> keyword, condition |-> condition, body |-> body], SpanStart(t, l), o.at), o)))))

RECURSIVE ParsePatterns(_, _)
ParsePatterns(t, l) ==
  Then(ParsePatternWord(t, l), LAMBDA pattern, m :
    IF AtOperator(t, m, {<<"|">>})
    THEN Then(ParsePatterns(t, Peek(t, m).next), LAMBDA rest, n : Ok(<<pattern>> \o rest, n))
    ELSE Ok(<<pattern>>, m))

ParseCaseArm(t, l) ==
  Then(ParsePatterns(t, IF AtOperator(t, l, {<<"(">>}) THEN Peek(t, l).next ELSE l), LAMBDA patterns, m :
    Then(Consume(t, m, {<<")">>}), LAMBDA close, after :
      LET n == SkipNewlines(t, after)
          empty == AtOperator(t, n, ArmTerminator) \/ AtKeyword(t, n, "esac")
      IN Then(IF empty THEN Ok(<<>>, n)
              ELSE Then(ParseListUntil(t, n, {<<"esac">>}), LAMBDA body, o : Ok(<<body>>, o)),
           LAMBDA body, o :
             LET p == SkipNewlines(t, o)
                 q == IF AtOperator(t, p, ArmTerminator) THEN Peek(t, p).next ELSE p
             IN Ok([patterns |-> patterns, body |-> body], SkipNewlines(t, q)))))

ParseArms(t, l) ==
  IF AtKeyword(t, l, "esac") THEN Ok(<<>>, Peek(t, l).next)
  ELSE Then(ParseCaseArm(t, l), LAMBDA arm, m :
         Then(ParseArms(t, SkipNewlines(t, m)), LAMBDA rest, n : Ok(<<arm>> \o rest, n)))

ParseCase(t, l) ==
  Then(ConsumeKeyword(t, l, "case"), LAMBDA kw, m : Cutting(
    Then(ParseLiteral(t, m), LAMBDA word, n :
      Then(ConsumeKeyword(t, SkipNewlines(t, n), "in"), LAMBDA in, o :
        Then(ParseArms(t, SkipNewlines(t, o)), LAMBDA arms, p :
          Ok(Spanned([type |-> "case", word |-> word, arms |-> arms], SpanStart(t, l), p.at), p))))))

ParseGroup(t, l, type, open, close) ==
  IF ~ AtAny(t, l, {open}) THEN Backtrack
  ELSE Then(Enclosed(t, Peek(t, l).next, close), LAMBDA body, m :
         Ok(Spanned([type |-> type, body |-> body], SpanStart(t, l), m.at), m))

(* The alternatives tell themselves apart by their first token; the rest is *)
(* a base command.  Redirects may follow any of them.                       *)
ParseCommand(t, l) ==
  Then(CASE AtKeyword(t, l, "for") -> ParseForLoop(t, l)
         [] AtKeyword(t, l, "if") -> ParseIf(t, l)
         [] AtKeyword(t, l, "while") -> ParseLoop(t, l, "while")
         [] AtKeyword(t, l, "until") -> ParseLoop(t, l, "until")
         [] AtKeyword(t, l, "case") -> ParseCase(t, l)
         [] AtOperator(t, l, {<<"(">>}) -> ParseGroup(t, l, "subshell", <<"(">>, <<")">>)
         [] AtKeyword(t, l, "{") -> ParseGroup(t, l, "brace_group", <<"{">>, <<"}">>)
         [] OTHER -> ParseBaseCommand(t, l),
    LAMBDA stmt, m :
      Then(ParseRedirects(t, m), LAMBDA trailing, n :
        Ok(AttachRedirects(stmt, trailing, SpanStart(t, l), SpanEnd(t, n)), n)))

-----------------------------------------------------------------------------
(* A whole script: statements until the stream has no token left, and no     *)
(* statement at all when what stopped it is a lexer failure.                 *)

RECURSIVE ParseStatements(_, _)
ParseStatements(t, l) ==
  IF Peek(t, l).kind = "eof" THEN Ok(<<>>, l)
  ELSE IF Peek(t, l).kind = "error" THEN Cut
  ELSE Then(ParseListUntil(t, l, {}), LAMBDA stmt, m :
         Then(ParseStatements(t, m), LAMBDA rest, n : Ok(<<stmt>> \o rest, n)))

ParseProgram(text) == ParseStatements(Stream(text), NewLexer)
=============================================================================
