------------------------------ MODULE CorpusFile ------------------------------
(***************************************************************************)
(* The corpus of the bash parser: `.tests` files, and how corpus-parser    *)
(* (crates/corpus-parser/src) reads one.  A file is its text split at the  *)
(* newlines, so it is a nonempty sequence of lines and a line other than   *)
(* the last one is followed by a newline.  A line is a record that says    *)
(* which of the format's shapes it has; a name is a sequence of characters.*)
(* A "\r\n" is a newline here, as it is after the first step of `parse`.   *)
(***************************************************************************)
EXTENDS Integers, Sequences, FiniteSetsExt, SequencesExt

SuiteLine(number, name) == [is |-> "suite", number |-> number, name |-> name]
GroupLine(name) == [is |-> "group", name |-> name]
CaseLine(name)  == [is |-> "case", name |-> name]
Text(text)      == [is |-> "text", text |-> text]
Empty           == [is |-> "empty"]          \* nothing
Hash            == [is |-> "hash"]           \* #
Comment         == [is |-> "comment"]        \* # and a space, and no group header
GroupOpen       == [is |-> "group_open"]     \* # === without the closing ===
HashTight       == [is |-> "hash_tight"]     \* # and anything but a space
Equals          == [is |-> "equals"]         \* ===
EscapedEquals   == [is |-> "escaped_equals"] \* \===
Dashes          == [is |-> "dashes"]         \* ---
EscapedDashes   == [is |-> "escaped_dashes"] \* \---
ErrorDashes     == [is |-> "error_dashes"]   \* --- <error>

(* What str::parse::<u32> makes of a suite number. *)
NumberOf == [n \in {"1", "01", "2"} |-> IF n = "2" THEN 2 ELSE 1]

Trimmed(name) ==
  LET solid == {i \in DOMAIN name : name[i] # " "}
  IN  IF solid = {} THEN <<>> ELSE SubSeq(name, Min(solid), Max(solid))

Refused(kind) == [error |-> kind]
Accepted(result) == "error" \notin DOMAIN result

(* The first line of a file. *)
ParseHeader(lines) ==
  LET first == Head(lines)
  IN  CASE Len(lines) = 1 -> Refused("EmptyFile")
        [] first.is = "suite_no_colon" -> Refused("MalformedSuiteHeader")
        [] first.is # "suite" -> Refused("MissingSuiteHeader")
        [] first.number = "" -> Refused("EmptySuiteNumber")
        [] first.number \notin DOMAIN NumberOf -> Refused("InvalidSuiteNumber")
        [] Trimmed(first.name) = <<>> -> Refused("EmptySuiteName")
        [] OTHER -> [number |-> NumberOf[first.number], name |-> Trimmed(first.name)]

(* unescape_delimiter_lines: what a case's lines stand for. *)
Unescaped(lines) ==
  [i \in DOMAIN lines |-> CASE lines[i] = EscapedDashes -> Dashes
                            [] lines[i] = EscapedEquals -> Equals
                            [] OTHER -> lines[i]]

(* Fault: the error separator is looked for only if there is no bare one. *)
Separators_BareFirst(lines) ==
  LET bare == {i \in 2 .. Len(lines) - 1 : lines[i] = Dashes}
  IN  IF bare # {} THEN bare ELSE {i \in 2 .. Len(lines) - 1 : lines[i] = ErrorDashes}

(* find_case_separator: the lines that close the input section.  The       *)
(* newline before the dashes is part of the pattern, so the first line of  *)
(* the section cannot be one, nor can a last line.                         *)
Separators(lines) ==
  {i \in 2 .. Len(lines) - 1 : lines[i] \in {Dashes, ErrorDashes}}

(* The lines that close the expected section: three dashes, two empty      *)
(* lines and a newline.  On the first line of the section they mean that   *)
(* nothing is expected.                                                    *)
Terminators(lines) ==
  {i \in 1 .. Len(lines) - 3 : lines[i] = Dashes /\ lines[i + 1] = Empty /\ lines[i + 2] = Empty}

(* parse_case: the case whose header is the first line, and what follows.  *)
ParseCase(lines, grouped) ==
  LET name  == Trimmed(Head(lines).name)
      body  == Tail(lines)
      close == Min(Separators(body))
      after == SubSeq(body, close + 1, Len(body))
      end   == Min(Terminators(after))
  IN  CASE body = <<>> -> Refused("MalformedCaseHeader")
        [] name = <<>> -> Refused("EmptyCaseDescription")
        [] ~grouped -> Refused("OrphanTestCase")
        [] Separators(body) = {} -> Refused("MissingInputSeparator")
        [] Terminators(after) = {} -> Refused("MissingExpectedSeparator")
        [] OTHER ->
             [test |-> [name     |-> name,
                        input    |-> Unescaped(SubSeq(body, 1, close - 1)),
                        expected |-> IF end = 1 THEN <<Empty>> ELSE Unescaped(SubSeq(after, 1, end - 1)),
                        parses   |-> body[close] = Dashes],
              rest |-> SubSeq(after, end + 3, Len(after))]

ParseGroupHeader(line, truncated) ==
  CASE truncated -> Refused("TruncatedGroupHeader")
    [] line = GroupOpen -> Refused("MalformedGroupHeader")
    [] Trimmed(line.name) = <<>> -> Refused("EmptyGroupName")
    [] OTHER -> [name |-> Trimmed(line.name), cases |-> <<>>]

(* validate_groups *)
Validated(groups) ==
  CASE groups = <<>> -> Refused("NoGroups")
    [] \E i \in DOMAIN groups : groups[i].cases = <<>> -> Refused("EmptyGroup")
    [] OTHER -> [groups |-> groups]

(* One round of the loop in parse_groups, up to the next line left, or the *)
(* error it returns.                                                       *)
ReadNext(done) ==
  LET lines  == done.remaining
      line   == Head(lines)
      last   == Len(lines) = 1
      passed == [done EXCEPT !.remaining = Tail(lines)]
      group  == ParseGroupHeader(line, last)
      read   == ParseCase(lines, done.groups # <<>>)
  IN  CASE line \in {Empty, Hash} -> passed
        [] line.is \in {"group", "group_open"} ->
             IF Accepted(group) THEN [passed EXCEPT !.groups = Append(@, group)] ELSE group
        [] line = Comment -> IF last THEN Refused("TruncatedComment") ELSE passed
        [] line = HashTight -> Refused("MalformedComment")
        [] line.is = "case" ->
             IF Accepted(read)
             THEN [remaining |-> read.rest,
                   groups    |-> [done.groups EXCEPT ![Len(done.groups)].cases = Append(@, read.test)]]
             ELSE read
        [] OTHER -> Refused("UnexpectedContent")

ReadOn(done) == IF Accepted(done) /\ done.remaining # <<>> THEN ReadNext(done) ELSE done

(* The loop, which takes a line or more each time, and validate_groups. *)
ParseGroups(lines) ==
  LET rounds[n \in 0 .. Len(lines)] ==
        IF n = 0 THEN [remaining |-> lines, groups |-> <<>>] ELSE ReadOn(rounds[n - 1])
      end == rounds[Len(lines)]
  IN  IF Accepted(end) THEN Validated(end.groups) ELSE end

(* TestSuite::parse *)
Parse(lines) ==
  LET header == ParseHeader(lines)
      body   == ParseGroups(Tail(lines))
  IN  CASE ~Accepted(header) -> header
        [] ~Accepted(body) -> body
        [] OTHER -> [number |-> header.number, name |-> header.name, groups |-> body.groups]

-----------------------------------------------------------------------------
(* The format as the corpus documents it, from the other side: what a      *)
(* suite is written as.                                                    *)

Escaped(lines) ==
  [i \in DOMAIN lines |-> CASE lines[i] = Dashes -> EscapedDashes
                            [] lines[i] = Equals -> EscapedEquals
                            [] OTHER -> lines[i]]

WriteCase(test) ==
  <<CaseLine(test.name)>> \o Escaped(test.input)
    \o <<IF test.parses THEN Dashes ELSE ErrorDashes>>
    \o (IF test.expected = <<Empty>> THEN <<>> ELSE Escaped(test.expected))
    \o <<Dashes, Empty, Empty>>

Write(suite) ==
  <<SuiteLine(ToString(suite.number), suite.name)>>
    \o FlattenSeq([g \in DOMAIN suite.groups |->
         <<GroupLine(suite.groups[g].name)>>
           \o FlattenSeq([c \in DOMAIN suite.groups[g].cases |-> WriteCase(suite.groups[g].cases[c])])])
    \o <<Empty>>

(* The suites the format has a spelling for: it escapes neither an escape  *)
(* nor the separator of a negative case.                                   *)
Writable(suite) ==
  \A g \in DOMAIN suite.groups : \A c \in DOMAIN suite.groups[g].cases :
    LET test == suite.groups[g].cases[c]
    IN  /\ test.input # <<>>
        /\ \A i \in DOMAIN test.input :
             test.input[i] \notin {EscapedDashes, EscapedEquals} /\ (i > 1 => test.input[i] # ErrorDashes)
        /\ \A i \in DOMAIN test.expected : test.expected[i] \notin {EscapedDashes, EscapedEquals}

-----------------------------------------------------------------------------
(* to_ident_fragment (ident.rs) *)

Digits   == {"1", "2"}
Lowered  == [c \in {"a", "b", "A"} \cup Digits |-> IF c = "A" THEN "a" ELSE c]

ToIdentFragment(name) ==
  LET Push(out, c) ==
        IF c \in DOMAIN Lowered THEN Append(out, Lowered[c])
        ELSE IF out = <<>> \/ Last(out) = "_" THEN out ELSE Append(out, "_")
      pushed  == FoldLeft(Push, <<>>, name)
      trimmed == IF pushed # <<>> /\ Last(pushed) = "_" THEN Front(pushed) ELSE pushed
  IN  IF trimmed # <<>> /\ Head(trimmed) \in Digits THEN <<"_">> \o trimmed ELSE trimmed
=============================================================================
