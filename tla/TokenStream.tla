----------------------------- MODULE TokenStream -----------------------------
(***************************************************************************)
(* parable's token stream: a lexer run on demand, one token of lookahead,  *)
(* the snapshot of a lexer that failed, and checkpoints that copy all      *)
(* three.  A peek runs the lexer although it only borrows the stream.      *)
(***************************************************************************)
EXTENDS Integers, Sequences, FiniteSets

CONSTANTS
  Texts,               \* the scripts
  Start,               \* the lexer at the beginning of a script
  Lexers(_),           \* the lexers of a script
  TokenAt(_, _),       \* the token a lexer cuts off: [kind, chars, start, next]
  HeredocOperators, StrippingOperators, Claim(_, _, _, _),
  BytesLeft(_, _),     \* the bytes a lexer has still to read
  MaxMarks             \* bound on the checkpoints held at once

Kind == {"word", "operator", "eof", "error"}

ASSUME LexerAssumption ==
  \A t \in Texts :
    /\ Start \in Lexers(t)
    /\ \A l \in Lexers(t) :
         /\ TokenAt(t, l).kind \in Kind /\ TokenAt(t, l).next \in Lexers(t)
         /\ TokenAt(t, l).kind = "word" =>
              \A strip \in BOOLEAN : Claim(t, TokenAt(t, l).next, strip, TokenAt(t, l)) \in Lexers(t)
         (* Skipping blanks decides nothing: the token is the same one after. *)
         /\ TokenAt(t, l).kind \in {"eof", "error"} => TokenAt(t, TokenAt(t, l).next).kind = TokenAt(t, l).kind

(* A token is cut off what is left, behind the blanks; a heredoc is read     *)
(* ahead, without moving the lexer.                                          *)
ASSUME ProgressAssumption ==
  \A t \in Texts : \A l \in Lexers(t) :
    LET token == TokenAt(t, l)
    IN /\ BytesLeft(t, l) \in Nat /\ BytesLeft(t, token.start) \in Nat
       /\ BytesLeft(t, token.start) <= BytesLeft(t, l)
       /\ BytesLeft(t, token.next) <= BytesLeft(t, token.start)
       /\ token.kind \in {"word", "operator"} => BytesLeft(t, token.next) < BytesLeft(t, token.start)
       /\ token.kind = "word" =>
            \A strip \in BOOLEAN :
              BytesLeft(t, Claim(t, token.next, strip, token)) <= BytesLeft(t, token.next)

VARIABLES
  text,
  stream,              \* [lexer, lookahead, failure], the last two empty or one element long
  taken,               \* history: the tokens handed out
  answer,              \* history: what the last read returned
  marks                \* the checkpoints the parser holds, each with its history

vars == <<text, stream, taken, answer, marks>>

(* Lookahead: the token and the two lengths; `from` is history, the lexer the *)
(* lookahead was read from.                                                   *)
Lookahead(l) ==
  LET t == TokenAt(text, l)
  IN [token |-> t, tokenStart |-> BytesLeft(text, t.start),
      remainingBefore |-> BytesLeft(text, l), from |-> l]

IsToken(t) == t.kind \in {"word", "operator"}

Init ==
  /\ text \in Texts
  /\ stream = [lexer |-> Start, lookahead |-> <<>>, failure |-> <<>>]
  /\ taken = <<>> /\ answer = "-" /\ marks = {}

Peeked_NoSnapshot(s) ==
  LET t == TokenAt(text, s.lexer)
  IN IF s.lookahead # <<>> \/ s.failure # <<>> THEN s
     ELSE IF IsToken(t) THEN [s EXCEPT !.lexer = t.next, !.lookahead = <<Lookahead(s.lexer)>>]
     ELSE [s EXCEPT !.lexer = t.next]

(* The stream a peek leaves behind. *)
Peeked(s) ==
  LET t == TokenAt(text, s.lexer)
  IN IF s.lookahead # <<>> \/ s.failure # <<>> THEN s
     ELSE IF IsToken(t) THEN [s EXCEPT !.lexer = t.next, !.lookahead = <<Lookahead(s.lexer)>>]
     ELSE IF t.kind = "error" THEN [s EXCEPT !.lexer = t.next, !.failure = <<t.next>>]
     ELSE [s EXCEPT !.lexer = t.next]

Peek ==
  /\ stream' = Peeked(stream)
  /\ answer' = IF stream'.lookahead # <<>> THEN "token" ELSE "none"
  /\ UNCHANGED <<text, taken, marks>>

(* next_token is what a peek would return, taken out of the lookahead; the   *)
(* code reads the lexer directly when nothing is buffered.                   *)
HandedOut(s) ==
  IF s.lookahead # <<>> THEN s.lookahead[1].token ELSE TokenAt(text, s.lexer)

StripsTabs == taken[Len(taken)].chars \in StrippingOperators

(* The word after a << is taken by parse_heredoc_target alone. *)
DelimiterDue ==
  taken # <<>> /\ taken[Len(taken)].chars \in HeredocOperators /\ HandedOut(stream).kind = "word"

NextToken ==
  /\ ~ DelimiterDue
  /\ UNCHANGED <<text, marks>>
  /\ \/ /\ stream.lookahead # <<>>
        /\ stream' = [stream EXCEPT !.lookahead = <<>>]
        /\ taken' = Append(taken, stream.lookahead[1].token)
        /\ answer' = "token"
     \/ /\ stream.lookahead = <<>> /\ stream.failure = <<>>
        /\ LET t == TokenAt(text, stream.lexer)
           IN /\ stream' = [stream EXCEPT !.lexer = t.next,
                                          !.failure = IF t.kind = "error" THEN <<t.next>> ELSE <<>>]
              /\ taken' = IF IsToken(t) THEN Append(taken, t) ELSE taken
              /\ answer' = IF IsToken(t) THEN "token" ELSE "none"
     \/ /\ stream.lookahead = <<>> /\ stream.failure # <<>>
        /\ answer' = "none"
        /\ UNCHANGED <<stream, taken>>

(* parse_heredoc_target: the delimiter is taken and the body read off the    *)
(* lexer in one go, with no peek between the two.                            *)
TakeDelimiter ==
  /\ DelimiterDue
  /\ LET t == HandedOut(stream)
         after == IF stream.lookahead # <<>> THEN stream.lexer ELSE t.next
     IN /\ stream' = [stream EXCEPT !.lookahead = <<>>,
                        !.lexer = Claim(text, after, StripsTabs, t)]
        /\ taken' = Append(taken, t)
  /\ answer' = "token"
  /\ UNCHANGED <<text, marks>>

Checkpoint ==
  /\ Cardinality(marks) < MaxMarks
  /\ marks' = marks \cup {[stream |-> stream, taken |-> taken, answer |-> answer]}
  /\ UNCHANGED <<text, stream, taken, answer>>

Reset_KeepsLexer ==
  /\ \E m \in marks :
       /\ stream' = [m.stream EXCEPT !.lexer = stream.lexer]
       /\ taken' = m.taken /\ answer' = m.answer
  /\ UNCHANGED <<text, marks>>

(* A combinator that backtracks resets to a checkpoint and may do so again. *)
Reset ==
  /\ \E m \in marks : stream' = m.stream /\ taken' = m.taken /\ answer' = m.answer
  /\ UNCHANGED <<text, marks>>

Drop ==
  /\ \E m \in marks : marks' = marks \ {m}
  /\ UNCHANGED <<text, stream, taken, answer>>

Next == Peek \/ NextToken \/ TakeDelimiter \/ Checkpoint \/ Reset \/ Drop

Spec == Init /\ [][Next]_vars

-----------------------------------------------------------------------------
LogicalRemaining_OfLexer(s) == BytesLeft(text, s.lexer)

LogicalRemaining_OfToken(s) ==
  IF s.lookahead # <<>> THEN s.lookahead[1].tokenStart ELSE BytesLeft(text, s.lexer)

LogicalRemaining(s) ==
  IF s.lookahead # <<>> THEN s.lookahead[1].remainingBefore ELSE BytesLeft(text, s.lexer)

TokenStartRemaining(s) ==
  LET p == Peeked(s)
  IN IF p.lookahead # <<>> THEN p.lookahead[1].tokenStart ELSE BytesLeft(text, p.lexer)

PreviousTokenEnd(s) == BytesLeft(text, Start) - LogicalRemaining(s)

CurrentTokenStart(s) == BytesLeft(text, Start) - TokenStartRemaining(s)

(* What take_lex_error re-derives, from the snapshot and not from the lexer. *)
LexError == stream.failure # <<>> /\ TokenAt(text, stream.failure[1]).kind = "error"

(* Where the parser stands: before the token it has only looked at. *)
Place(s) == IF s.lookahead # <<>> THEN s.lookahead[1].from ELSE s.lexer

Cursor == INSTANCE TokenCursor WITH
  cursor <- Place(stream),
  marks <- {[cursor |-> Place(m.stream), taken |-> m.taken] : m \in marks}

(* Whatever the parser peeks, however often, and however it backtracks, it   *)
(* is handed the tokens it would get from a cursor with no buffer at all: a  *)
(* peek consumes nothing and a reset undoes everything since its checkpoint. *)
IsCursor == Cursor!Spec

(* The end of the stream is never silent: when a read returned nothing,      *)
(* either the script has no token left or take_lex_error will report the     *)
(* failure, also after resets that threw a snapshot away.                    *)
EndIsExplained ==
  answer = "none" =>
    IF stream.failure = <<>> THEN TokenAt(text, stream.lexer).kind = "eof" ELSE LexError

(* The span of anything parsed since a checkpoint that took at least one     *)
(* token starts at its first token and ends after its last, in that order,   *)
(* whatever was peeked before the checkpoint and since (helpers::spanned).   *)
SpansAreOrdered ==
  \A m \in marks :
    Len(m.taken) < Len(taken) /\ SubSeq(taken, 1, Len(m.taken)) = m.taken =>
      /\ PreviousTokenEnd(m.stream) <= CurrentTokenStart(m.stream)
      /\ CurrentTokenStart(m.stream) < PreviousTokenEnd(stream)

(* A peek that returned a token leaves the end of the previous token where   *)
(* it was, so the span of what was just parsed does not grow by what the     *)
(* parser only looked at.                                                    *)
PeekKeepsPlace ==
  [][Peek /\ answer' = "token" => LogicalRemaining(stream)' = LogicalRemaining(stream)]_vars
=============================================================================
