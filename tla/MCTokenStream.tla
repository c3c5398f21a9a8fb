--------------------------- MODULE MCTokenStream ---------------------------
(***************************************************************************)
(* The stream over the bash lexer: every script of up to three characters  *)
(* of the kinds the lexer tells apart, and longer ones with heredocs - two *)
(* on a line, tabs stripped, a quoted delimiter, a delimiter that never    *)
(* comes - and letters of more than one byte.                              *)
(***************************************************************************)
EXTENDS TokenStream, SequencesExt

Bash == INSTANCE BashLexer

MCStart == Bash!NewLexer
MCLex(t, l) == Bash!Lex(t, l)
MCRemaining(t, l) == Bash!Remaining(t, l)
MCLexers(t) == [at : 0..Len(t), skip : 0..Bash!Bytes(t)]

MCStrippingOperators == {<<"<", "<", "-">>}
MCHeredocOperators == {<<"<", "<">>} \cup MCStrippingOperators
MCClaim(t, l, strip, word) == Bash!Heredoc(t, l, strip, word.chars).lexer

Short == SeqOf({"a", " ", "\n", ";", "'", "$", "(", ")", "VT"}, 3)

Long == {
  <<"a", " ", "<", "<", "E", " ", " ", "b", "\n", "x", "\n", "E", "\n", "c", "\n", "d", ";", "d", " ">>,
  <<"<", "<", "E", "<", "<", "F", ";", "b", "\n", "x", "\n", "E", "\n", "e'", "\n", "F", "\n", "c">>,
  <<"<", "<", "-", "E", "\n", "\t", "x", "\\", "\n", "\t", "E", "\n", "\t", "E", "\n", "c">>,
  <<"<", "<", "'", "E", "'", "\n", "x", "\\", "\n", "E", "\n", "c", " ", " ">>,
  <<"<", "<", "E", " ", "'", "x", "\n", "y", "'", "\n", "E", "\n", "c">>,
  <<"<", "<", "'", "E", "\"", "'", "\\", "'", "\n", "E", "\n", "E", "\"", "'", "\n", "c">>,
  <<"e'", ";", "b">>, <<"a", " ", "e'">>}

MCTexts == Short \cup Long

(* The characters each token and each heredoc body was cut from. *)
Pieces ==
  {taken[i].start.at + 1 .. taken[i].start.at + Len(taken[i].chars) : i \in DOMAIN taken} \cup
  {LET body == Bash!Heredoc(text, taken[i].next, taken[i - 1].chars \in MCStrippingOperators, taken[i].chars)
   IN body.from + 1 .. body.to :
     i \in {j \in 2..Len(taken) : taken[j].kind = "word" /\ taken[j - 1].chars \in MCHeredocOperators}}

(* No character of a script is read twice, as part of two tokens or of a     *)
(* token and a heredoc body read ahead of it, and none that the parser has   *)
(* passed was read as neither but a blank: the bytes a body took are those   *)
(* the line's newline jumps over, for all the heredocs of the line.  A word  *)
(* that holds a newline is the exception: a heredoc's body is looked for     *)
(* behind the first newline of the text, which is then inside the word.      *)
ReadOnce ==
  (\A i \in DOMAIN taken : taken[i].kind = "word" => "\n" \notin ToSet(taken[i].chars)) =>
    /\ \A p \in 1..Len(text) : Cardinality({piece \in Pieces : p \in piece}) <= 1
    /\ \A p \in 1..Place(stream).at : text[p] \in Bash!Blank \/ \E piece \in Pieces : p \in piece
=============================================================================
