----------------------------- MODULE BashLexer ------------------------------
(***************************************************************************)
(* parable's lexer: one token cut off the rest of a script, and the body   *)
(* of a heredoc read ahead of the cursor.  A script is a sequence of       *)
(* characters; a cursor is the number of characters behind it and the      *)
(* bytes of heredoc bodies the next newline has to jump over.  "BT" is the *)
(* backtick, "VT" the vertical tab, "e'" an accented letter.               *)
(***************************************************************************)
EXTENDS Integers, Sequences, FiniteSets, SequencesExt

Blank == {" ", "\t"}                 \* what skip_whitespace skips

(* char::is_whitespace is wider: a vertical tab ends a word and is no blank. *)
Whitespace == Blank \cup {"\n", "VT"}

Metacharacter == {";", "|", "&", "(", ")", "<", ">"}

Wide == {"e'"}                       \* a letter that takes two bytes in UTF-8

Operators ==
  {<<";", ";", "&">>, <<"<", "<", "-">>, <<"<", "<", "<">>, <<"&", ">", ">">>,
   <<"&", "&">>, <<"|", "|">>, <<";", ";">>, <<";", "&">>, <<"<", "<">>, <<">", ">">>,
   <<"<", "&">>, <<">", "&">>, <<"<", ">">>, <<">", "|">>, <<"&", ">">>, <<"|", "&">>,
   <<";">>, <<"|">>, <<"&">>, <<"(">>, <<")">>, <<"<">>, <<">">>, <<"\n">>}

Bytes(s) == Len(s) + Cardinality({i \in DOMAIN s : s[i] \in Wide})

After(text, at) == SubSeq(text, at + 1, Len(text))

(* The bytes the lexer has not read, what winnow calls eof_offset. *)
Remaining(text, l) == Bytes(After(text, l.at))

(* How many characters of s the first n bytes are; str::get answers nothing, *)
(* and the callers take that for the empty rest, off a character boundary.   *)
Boundary(s, n) ==
  Min({k \in 0..Len(s) : Bytes(SubSeq(s, 1, k)) = n} \cup {Len(s)})

(* How many characters at the front of s are in S. *)
Leading(s, S) == Min({i \in DOMAIN s : s[i] \notin S} \cup {Len(s) + 1}) - 1

(* The longest operator the rest starts with; the parser tries them by length. *)
Longest(fits) ==
  IF fits = {} THEN <<>> ELSE CHOOSE op \in fits : \A o \in fits : Len(o) <= Len(op)

OperatorAt(rest) == Longest({op \in Operators : IsPrefix(op, rest)})

-----------------------------------------------------------------------------
(* The scan for the end of a word. *)

ScanStart ==
  [ended |-> FALSE, opening |-> FALSE, escaped |-> FALSE, single |-> FALSE, double |-> FALSE,
   tick |-> 0, brace |-> 0, paren |-> 0, length |-> 0]

(* `$(` and `${` are taken two characters at a time; opening says the second is due. *)
Opened(s, next) ==
  IF next = "(" THEN [s EXCEPT !.opening = TRUE, !.paren = @ + 1]
                ELSE [s EXCEPT !.opening = TRUE, !.brace = @ + 1]

Opens(c, next) == c = "$" /\ next \in {"(", "{"}

InDouble(s, c, next) ==
  IF c = "\"" THEN [s EXCEPT !.double = FALSE]
  ELSE IF c = "BT" THEN [s EXCEPT !.tick = @ + 1]
  ELSE IF c = "$" THEN IF Opens(c, next) THEN Opened(s, next) ELSE s
  ELSE IF s.paren > 0 /\ c = ")" THEN [s EXCEPT !.paren = @ - 1]
  ELSE IF s.brace > 0 /\ c = "}" THEN [s EXCEPT !.brace = @ - 1]
  ELSE s

InExpansion(s, c) ==
  IF s.tick > 0 THEN IF c = "BT" THEN [s EXCEPT !.tick = @ - 1] ELSE s
  ELSE IF s.brace > 0 THEN IF c = "}" THEN [s EXCEPT !.brace = @ - 1] ELSE s
  ELSE CASE c = ")" -> [s EXCEPT !.paren = @ - 1]
         [] c = "(" -> [s EXCEPT !.paren = @ + 1]
         [] OTHER -> s

Unquoted(s, c, next) ==
  IF c = "BT" THEN [s EXCEPT !.tick = 1]
  ELSE IF Opens(c, next) THEN Opened(s, next)
  ELSE IF c = "\"" THEN [s EXCEPT !.double = TRUE]
  ELSE IF c \in Whitespace \cup Metacharacter THEN [s EXCEPT !.ended = TRUE]
  ELSE s

(* A single quote is looked for before the double-quote state, so it opens a *)
(* quotation even between double quotes.                                     *)
ScanStep(s, c, next) ==
  IF s.opening THEN [s EXCEPT !.opening = FALSE]
  ELSE IF s.escaped THEN [s EXCEPT !.escaped = FALSE]
  ELSE IF c = "\\" THEN [s EXCEPT !.escaped = TRUE]
  ELSE IF s.single THEN [s EXCEPT !.single = (c # "'")]
  ELSE IF c = "'" THEN [s EXCEPT !.single = TRUE]
  ELSE IF s.double THEN InDouble(s, c, next)
  ELSE IF s.tick + s.brace + s.paren > 0 THEN InExpansion(s, c)
  ELSE Unquoted(s, c, next)

Counted(s, k) == IF s.ended THEN s ELSE [s EXCEPT !.length = k]

(* How many characters the scan goes over before one that ends the word. *)
ScanLength(rest) ==
  LET scan[k \in 0..Len(rest)] ==
        LET before == scan[k - 1]
        IN IF k = 0 THEN ScanStart
           ELSE IF before.ended THEN before
           ELSE Counted(ScanStep(before, rest[k], IF k < Len(rest) THEN rest[k + 1] ELSE ""), k)
  IN scan[Len(rest)].length

(* parse_word sums the length in bytes and hands it to winnow's take, which *)
(* counts a str in characters; take fails when there are not so many.       *)
WordLength(rest) == Bytes(SubSeq(rest, 1, ScanLength(rest)))

-----------------------------------------------------------------------------
(* One token: its kind, its characters, the cursor at its start, the cursor after it. *)

NewLexer == [at |-> 0, skip |-> 0]

Token(kind, chars, l, next) == [kind |-> kind, chars |-> chars, start |-> l, next |-> next]

PastNewline_KeepsSkip(text, l) ==
  [at |-> l.at + 1 + Boundary(After(text, l.at + 1), l.skip), skip |-> l.skip]

(* The newline that ends a line spends the skip its heredocs have piled up. *)
PastNewline(text, l) ==
  [at |-> l.at + 1 + Boundary(After(text, l.at + 1), l.skip), skip |-> 0]

LexWord(rest, l, n) ==
  IF n > 0 /\ n <= Len(rest)
  THEN Token("word", SubSeq(rest, 1, n), l, [l EXCEPT !.at = @ + n])
  ELSE Token("error", <<>>, l, l)

LexOperator(text, l, op) ==
  Token("operator", op, l, IF op = <<"\n">> THEN PastNewline(text, l) ELSE [l EXCEPT !.at = @ + Len(op)])

LexAt(text, l, rest) ==
  IF rest = <<>> THEN Token("eof", <<>>, l, l)
  ELSE IF OperatorAt(rest) # <<>> THEN LexOperator(text, l, OperatorAt(rest))
  ELSE LexWord(rest, l, WordLength(rest))

SkipBlanks(text, l) == [l EXCEPT !.at = @ + Leading(After(text, @), Blank)]

Lex(text, l) == LexAt(text, SkipBlanks(text, l), After(text, SkipBlanks(text, l).at))

-----------------------------------------------------------------------------
(* Heredocs. *)

(* strip_delimiter_quoting: the delimiter a body ends at, and whether any of  *)
(* it was quoted.  Only the marks that quote are removed, so a quote between  *)
(* others or behind a backslash stays.  `until` is the mark that closes.      *)
Strip(s, c) ==
  CASE s.until = "next" -> [s EXCEPT !.out = Append(@, c), !.until = ""]
    [] s.until = c -> [s EXCEPT !.until = ""]
    [] s.until = "" /\ c = "\\" -> [s EXCEPT !.quoted = TRUE, !.until = "next"]
    [] s.until = "" /\ c \in {"'", "\""} -> [s EXCEPT !.quoted = TRUE, !.until = c]
    [] OTHER -> [s EXCEPT !.out = Append(@, c)]

StripDelimiterQuoting(raw) == FoldLeft(Strip, [out |-> <<>>, quoted |-> FALSE, until |-> ""], raw)

(* How many characters there are before the first newline. *)
LineEnd(s) == Min({i \in DOMAIN s : s[i] = "\n"} \cup {Len(s) + 1}) - 1

TrailingBackslashes(line) == Leading(Reverse(line), {"\\"})

(* read_logical_line: the line and the characters it took, a line that ends  *)
(* in an odd run of backslashes joined with the next one when splice is set. *)
RECURSIVE LogicalLine(_, _), JoinedLine(_, _, _)
LogicalLine(s, splice) == JoinedLine(s, splice, SubSeq(s, 1, LineEnd(s)))

JoinedLine(s, splice, piece) ==
  IF Len(piece) = Len(s) THEN [chars |-> piece, newline |-> FALSE, end |-> Len(piece)]
  ELSE IF splice /\ TrailingBackslashes(piece) % 2 = 1
       THEN [LogicalLine(After(s, Len(piece) + 1), splice) EXCEPT
               !.chars = Front(piece) \o @, !.end = Len(piece) + 1 + @]
  ELSE [chars |-> piece, newline |-> TRUE, end |-> Len(piece) + 1]

(* capture: logical lines from `start` on until one is the delimiter. *)
RECURSIVE CaptureFrom(_, _, _, _, _), KeepLine(_, _, _, _, _, _)
CaptureFrom(text, pos, delimiter, strip, splice) ==
  IF pos = Len(text) THEN [body |-> <<>>, end |-> pos]
  ELSE KeepLine(text, pos, delimiter, strip, splice, LogicalLine(After(text, pos), splice))

Kept(chars, strip) == IF strip THEN After(chars, Leading(chars, {"\t"})) ELSE chars

KeepLine(text, pos, delimiter, strip, splice, line) ==
  IF Kept(line.chars, strip) = delimiter THEN [body |-> <<>>, end |-> pos + line.end]
  ELSE [CaptureFrom(text, pos + line.end, delimiter, strip, splice) EXCEPT
          !.body = Kept(line.chars, strip) \o (IF line.newline THEN <<"\n">> ELSE <<>>) \o @]

(* capture_heredoc: the body starts after the first newline in the rest of  *)
(* the script, past the bodies this line has already claimed, and only the  *)
(* bytes it takes are remembered.                                           *)
Claimed(text, l, start, got) ==
  [body |-> got.body, from |-> start, to |-> got.end,
   lexer |-> [l EXCEPT !.skip = @ + Bytes(SubSeq(text, start + 1, got.end))]]

BodyFrom(text, l, lineEnd) == lineEnd + Boundary(After(text, lineEnd), l.skip)

HeredocFrom(text, l, strip, delimiter, start) ==
  LET effective == StripDelimiterQuoting(delimiter)
  IN Claimed(text, l, start, CaptureFrom(text, start, effective.out, strip, ~ effective.quoted))

Heredoc(text, l, strip, delimiter) ==
  HeredocFrom(text, l, strip, delimiter,
    BodyFrom(text, l, Min({l.at + LineEnd(After(text, l.at)) + 1, Len(text)})))
=============================================================================
