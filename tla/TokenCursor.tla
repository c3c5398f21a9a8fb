----------------------------- MODULE TokenCursor -----------------------------
(***************************************************************************)
(* What the parser needs of a token stream: a cursor in a script, moved by *)
(* taking the token there and by nothing else, that can be put back to     *)
(* where it was.  Looking at the next token is no step at all.             *)
(***************************************************************************)
EXTENDS Integers, Sequences

CONSTANTS
  Texts,               \* the scripts
  Start,               \* the cursor at the beginning of a script
  TokenAt(_, _),       \* the token at a cursor: [kind, next, ...]
  HeredocOperators,    \* the characters of << and of <<-
  StrippingOperators,  \* those of <<-
  Claim(_, _, _, _)    \* the cursor once the heredoc of a delimiter is read

VARIABLES text, cursor, taken, marks

vars == <<text, cursor, taken, marks>>

Init == text \in Texts /\ cursor = Start /\ taken = <<>> /\ marks = {}

At == TokenAt(text, cursor)

StripsTabs == taken[Len(taken)].chars \in StrippingOperators

DelimiterDue ==
  taken # <<>> /\ taken[Len(taken)].chars \in HeredocOperators /\ At.kind = "word"

Take ==
  /\ At.kind \in {"word", "operator"} /\ ~ DelimiterDue
  /\ cursor' = At.next
  /\ taken' = Append(taken, At)
  /\ UNCHANGED <<text, marks>>

(* The word after a << is its delimiter, and taking it reads the body. *)
TakeDelimiter ==
  /\ DelimiterDue
  /\ cursor' = Claim(text, At.next, StripsTabs, At)
  /\ taken' = Append(taken, At)
  /\ UNCHANGED <<text, marks>>

(* Nothing is left to take: the cursor may settle at the very end. *)
Settle ==
  /\ At.kind \notin {"word", "operator"}
  /\ cursor' = At.next
  /\ UNCHANGED <<text, taken, marks>>

Mark ==
  /\ marks' = marks \cup {[cursor |-> cursor, taken |-> taken]}
  /\ UNCHANGED <<text, cursor, taken>>

Back ==
  /\ \E m \in marks : cursor' = m.cursor /\ taken' = m.taken
  /\ UNCHANGED <<text, marks>>

Drop ==
  /\ marks' \subseteq marks
  /\ UNCHANGED <<text, cursor, taken>>

Next == Take \/ TakeDelimiter \/ Settle \/ Mark \/ Back \/ Drop

Spec == Init /\ [][Next]_vars
=============================================================================
