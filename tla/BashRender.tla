------------------------------ MODULE BashRender -----------------------------
(***************************************************************************)
(* A parsed script written out: Display, which is a script again, and the  *)
(* shape of the tree, which is all that Debug shows of it.                 *)
(***************************************************************************)
EXTENDS BashGrammar

(* A text under way: its line, and the heredoc bodies due after the line. *)
Out(line, bodies) == [line |-> line, bodies |-> bodies]
Plain(line) == Out(line, <<>>)

Joined(outs) ==
  Out(FlattenSeq([i \in DOMAIN outs |-> outs[i].line]),
      FlattenSeq([i \in DOMAIN outs |-> outs[i].bodies]))

Spaced(words) == FlattenSeq([i \in DOMAIN words |-> <<" ">> \o words[i]])

ShowTarget(target) ==
  CASE "file" \in DOMAIN target -> ShowExpr(target.file)
    [] "fd" \in DOMAIN target -> target.fd
    [] "close" \in DOMAIN target -> <<"-">>
    [] "delimiter" \in DOMAIN target -> target.delimiter

(* A heredoc's body goes to the end of the whole line, behind the bodies of *)
(* the heredocs before it.                                                  *)
ShowRedirect(r) ==
  Out(<<" ">> \o r.fd \o r.kind \o ShowTarget(r.target),
      IF "delimiter" \in DOMAIN r.target
      THEN r.target.body \o StripDelimiterQuoting(r.target.delimiter).out \o <<"\n">> ELSE <<>>)

ShowExprs(words) == Spaced([i \in DOMAIN words |-> ShowExpr(words[i].expr)])

RECURSIVE Show(_), ShowElse(_)

ShowPiped(p) == Joined(<<Plain(<<" ">> \o p.op \o <<" ">>), Show(p.cmd)>>)

ShowArm_NoParen(arm) ==
  Joined(<<Plain(Tail(FlattenSeq([i \in DOMAIN arm.patterns |-> <<"|">> \o arm.patterns[i]]))
                   \o <<")", " ">>)>>
         \o [i \in DOMAIN arm.body |-> Show(arm.body[i])]
         \o <<Plain(<<";", ";", " ">>)>>)

(* The ( in front of the patterns and the ;; are written whether or not they *)
(* were there.                                                               *)
ShowArm(arm) ==
  Joined(<<Plain(<<"(">> \o Tail(FlattenSeq([i \in DOMAIN arm.patterns |-> <<"|">> \o arm.patterns[i]]))
                   \o <<")", " ">>)>>
         \o [i \in DOMAIN arm.body |-> Show(arm.body[i])]
         \o <<Plain(<<";", ";", " ">>)>>)

(* A chain of ifs in else branches is written as elifs. *)
ShowElse(branch) ==
  IF branch = <<>> THEN Plain(<<>>)
  ELSE LET b == branch[1] IN
       IF b.type = "if"
       THEN Joined(<<Plain(<<";", " ", "elif", " ">>), Show(b.condition),
                     Plain(<<";", " ", "then", " ">>), Show(b.then), ShowElse(b.else)>>)
       ELSE Joined(<<Plain(<<";", " ", "else", " ">>), Show(b)>>)

Show(s) ==
  CASE s.type = "command" -> Plain(s.name \o ShowExprs(s.args))
    [] s.type = "for" ->
         Joined(<<Plain(<<"for", " ">> \o ShowExpr(s.variable.expr) \o <<" ", "in">> \o ShowExprs(s.iterable)
                          \o <<";", " ", "do", " ">>), Show(s.body), Plain(<<";", " ", "done">>)>>)
    [] s.type = "if" ->
         Joined(<<Plain(<<"if", " ">>), Show(s.condition), Plain(<<";", " ", "then", " ">>), Show(s.then),
                  ShowElse(s.else), Plain(<<";", " ", "fi">>)>>)
    [] s.type \in {"while", "until"} ->
         Joined(<<Plain(<<s.type, " ">>), Show(s.condition), Plain(<<";", " ", "do", " ">>), Show(s.body),
                  Plain(<<";", " ", "done">>)>>)
    [] s.type = "case" ->
         Joined(<<Plain(<<"case", " ">> \o ShowExpr(s.word.expr) \o <<" ", "in", " ">>)>>
                \o [i \in DOMAIN s.arms |-> ShowArm(s.arms[i])] \o <<Plain(<<"esac">>)>>)
    [] s.type = "pipeline" ->
         Joined(<<Show(s.head)>> \o [i \in DOMAIN s.tail |-> ShowPiped(s.tail[i])])
    [] s.type = "subshell" -> Joined(<<Plain(<<"(">>), Show(s.body), Plain(<<")">>)>>)
    [] s.type = "brace_group" -> Joined(<<Plain(<<"{", " ">>), Show(s.body), Plain(<<";", " ", "}">>)>>)
    [] s.type = "and_or" ->
         Joined(<<Show(s.left), Plain(<<" ">> \o s.op \o <<" ">>), Show(s.right)>>)
    [] s.type = "sequence" -> Joined(<<Show(s.left), Plain(<<";", " ">>), Show(s.right[1])>>)
    [] s.type = "background" ->
         Joined(<<Show(s.left), Plain(<<" ", "&">>)>>
                \o [i \in DOMAIN s.right |-> Joined(<<Plain(<<" ">>), Show(s.right[i])>>)])
    [] s.type = "redirected" ->
         Joined(<<Show(s.inner)>> \o [i \in DOMAIN s.redirects |-> ShowRedirect(s.redirects[i])])

(* Display for Statement: the bodies follow one newline, written when any     *)
(* redirect is pending; a line of statements is joined by newlines.           *)
RECURSIVE HasRedirect(_)
Children(s) ==
  CASE s.type = "command" -> <<>>
    [] s.type = "for" -> <<s.body>>
    [] s.type = "if" -> <<s.condition, s.then>> \o s.else
    [] s.type \in {"while", "until"} -> <<s.condition, s.body>>
    [] s.type = "case" -> FlattenSeq([i \in DOMAIN s.arms |-> s.arms[i].body])
    [] s.type = "pipeline" -> <<s.head>> \o [i \in DOMAIN s.tail |-> s.tail[i].cmd]
    [] s.type \in {"subshell", "brace_group"} -> <<s.body>>
    [] s.type = "and_or" -> <<s.left, s.right>>
    [] s.type \in {"sequence", "background"} -> <<s.left>> \o s.right
    [] s.type = "redirected" -> <<s.inner>>

HasRedirect(s) ==
  s.type = "redirected" \/ \E i \in DOMAIN Children(s) : HasRedirect(Children(s)[i])

Display(s) ==
  LET out == Show(s)
  IN IF HasRedirect(s) THEN out.line \o <<"\n">> \o out.bodies ELSE out.line

DisplayAll(stmts) ==
  IF stmts = <<>> THEN <<>>
  ELSE Tail(FlattenSeq([i \in DOMAIN stmts |-> <<"\n">> \o Display(stmts[i])]))

-----------------------------------------------------------------------------
(* Debug: the tree without its spans. *)

Exprs(words) == [i \in DOMAIN words |-> words[i].expr]

Own(s) ==
  CASE s.type = "command" -> <<s.name, Exprs(s.args)>>
    [] s.type = "for" -> <<s.variable.expr, Exprs(s.iterable)>>
    [] s.type = "case" ->
         <<s.word.expr, [i \in DOMAIN s.arms |-> <<s.arms[i].patterns, Len(s.arms[i].body)>>]>>
    [] s.type = "pipeline" -> [i \in DOMAIN s.tail |-> s.tail[i].op]
    [] s.type = "and_or" -> s.op
    [] s.type = "redirected" -> s.redirects
    [] OTHER -> <<>>

RECURSIVE Shape(_)
Shape(s) == <<s.type, Own(s), [i \in DOMAIN Children(s) |-> Shape(Children(s)[i])]>>

ShapeAll(stmts) == [i \in DOMAIN stmts |-> Shape(stmts[i])]

RECURSIVE Subtree(_)
Subtree(s) == {s} \cup UNION {Subtree(Children(s)[i]) : i \in DOMAIN Children(s)}

Nodes(stmts) == UNION {Subtree(stmts[i]) : i \in DOMAIN stmts}
=============================================================================
