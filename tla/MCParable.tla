------------------------------ MODULE MCParable ------------------------------
(***************************************************************************)
(* Scripts for Parable: every way to put two commands together and to put  *)
(* such a pair into another construct, straight-line scripts of three      *)
(* assignments and commands, scripts the parser refuses or reads in its    *)
(* own way, and scripts that end in blanks.                                *)
(***************************************************************************)
EXTENDS Parable

(* A line and the heredoc bodies due behind it, as BashRender writes them. *)
Simple ==
  {Plain(<<"a">>), Plain(<<"a", " ", "$", "{", "x", "}">>), Plain(<<"x", "=", "$", "1">>),
   Plain(<<"eval", " ", "$", "x">>), Plain(<<"a", " ", "2", ">", "f">>),
   Out(<<"a", " ", "<", "<", "E">>, <<"t", "\n", "E", "\n">>)}

Nested ==
  {Plain(<<"a">>), Out(<<"a", " ", "<", "<", "'", "E", "'">>, <<"t", "\\", "\n", "E", "\n">>)}

Joining(x, y) ==
  {Joined(<<x, Plain(op), y>>) :
     op \in {<<";", " ">>, <<"\n">>, <<"&">>, <<" ", "&", "&", "\n">>, <<"|", "|">>, <<"|">>, <<"|", "&">>}}

Enclosing(x, y) ==
  {Joined(<<Plain(<<"for", " ", "x", " ", "in", " ", "a", " ", "b", ";", "do", " ">>), x, Plain(<<";", "done">>)>>),
   Joined(<<Plain(<<"for", " ", "x", "\n", "{", " ">>), x, Plain(<<"\n", "}">>)>>),
   Joined(<<Plain(<<"if", " ">>), x, Plain(<<";", "then", " ">>), y, Plain(<<"\n", "fi">>)>>),
   Joined(<<Plain(<<"if", " ">>), x, Plain(<<";", "then", " ">>), y,
            Plain(<<"\n", "else", " ">>), x, Plain(<<";", "fi">>)>>),
   Joined(<<Plain(<<"if", " ">>), x, Plain(<<";", "then", " ">>), y,
            Plain(<<"\n", "elif", " ">>), x, Plain(<<";", "then", " ">>), y, Plain(<<"\n", "fi">>)>>),
   Joined(<<Plain(<<"while", "\n">>), x, Plain(<<";", "do", " ">>), y, Plain(<<"\n", "done", ">", "f">>)>>),
   Joined(<<Plain(<<"case", " ", "$", "x", " ", "in", "\n", "a", "|", "b", ")">>), x,
            Plain(<<";", ";", "(", "esac", ")", "\n">>), y, Plain(<<"\n", "esac">>)>>),
   Joined(<<Plain(<<"(">>), x, Plain(<<")">>)>>),
   Joined(<<Plain(<<"{", " ">>), x, Plain(<<";", "}">>)>>)}

Both(x, y) == Joining(x, y) \cup Enclosing(x, y)

Pairs == UNION {Both(x, y) : x, y \in Simple}

Deep == UNION {Both(z, Plain(<<"b">>)) : z \in UNION {Both(x, y) : x, y \in Nested}}

TextOf(out) == IF out.bodies = <<>> THEN out.line ELSE out.line \o <<"\n">> \o out.bodies

Lines ==
  {<<"x", "=", "$", "1">>, <<"x", "=", "a">>, <<"y", "=", "$", "x">>, <<"x", "=", "\"", "$", "y", "\"">>,
   <<"eval", " ", "a", " ", "$", "x">>, <<".", " ", "$", "{", "y", "}">>, <<"x", "=", "a", " ", "b">>,
   <<"{", " ", "x", "=", "'", "$", "1", "'", ";", "}">>, <<"y", "=", "$", "@", ">", "f">>}

Flows == {x \o <<"\n">> \o y \o <<";">> \o z : x, y, z \in Lines}

Odd ==
  {<<"a", " ", "2", " ", ">", "f">>, <<"a", " ", "2", "2", "2", ">", "f">>, <<"(", "a", ")", " ", "b">>,
   <<"a", " ", "$", "{", "x", "}", "y">>, <<"a", " ", "$", "{", "x", ":", "}">>, <<"a", " ", "$", "x", "y">>,
   <<"\n">>, <<" ">>, <<"a", ";", "\n", "\n">>, <<"a", "&", ";", "b">>, <<"a", "&", "\n">>,
   <<"a", " ", "'", "b">>, <<"a", "VT", "b">>, <<"a", ")">>, <<"a", "|">>, <<"a", "&", "&", "fi">>,
   <<"if", " ", "a", ";", "then", " ", "fi">>, <<"{", " ", "a", " ", "}">>, <<"for", " ", "x", " ", "in", " ", "a">>,
   <<"<", "f", " ", "a", " ", ">", "&", "2", " ", "b">>, <<"a", " ", "<", "&", "-">>, <<"a", " ", ">", "&", "f">>,
   <<"a", " ", "&", ">", ">", "f">>, <<">", "f">>, <<">", "f", " ", "if">>, <<"a", " ", ">">>,
   <<"a", " ", "<", "<", "-", "E", ";", "b", " ", "<", "<", "F", "\n", "\t", "t", "\n", "\t", "E", "\n", "u", "\n", "F", "\n", "c">>,
   <<"until", " ", "a", "\n", "do", " ", "b", "\n", "done", " ", "|", " ", "c">>,
   <<"a", " ", "<", "<", "'", "E", "\"", "'", "\n", "t", "\n", "E", "\"", "\n">>,
   <<"a", " ", "<", "<", "\\", "'", "E", "\n", "t", "\n", "E", "\n", "'", "E", "\n", "b">>,
   <<"a", " ", "<", "<", "E", "&", "\n", "t", "\n", "E", "\n", " ">>, <<"\n", "a", ";", "b", "\n">>}

(* Scripts that end in blanks, behind every construct and its redirects. *)
Trailing ==
  {TextOf(x) \o blanks : x \in Simple \cup UNION {Both(y, Plain(<<"b">>)) : y \in Nested},
                         blanks \in {<<" ">>, <<"\t", " ">>, <<" ", ">", "f", " ">>, <<" ", "&", " ">>, <<";", " ">>}}

MCScripts == {TextOf(out) : out \in Simple \cup Pairs \cup Deep} \cup Flows \cup Odd \cup Trailing
=============================================================================
