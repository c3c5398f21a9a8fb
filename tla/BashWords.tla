------------------------------ MODULE BashWords ------------------------------
(***************************************************************************)
(* parable's words: the $NAME and ${NAME} references of a word split from  *)
(* the text around them, the expression they make, the expression written  *)
(* out again, and the symbolic value it has.  One character may stand for  *)
(* a run of letters; offsets of the parts in the word are left out.        *)
(***************************************************************************)
EXTENDS BashLexer

Digit == {"0", "1", "2", "3", "4", "5", "6", "7", "8", "9"}

SpecialParam == {"@", "*", "#", "?", "$", "!", "-"}

Punctuation ==
  Whitespace \cup Metacharacter \cup Digit \cup SpecialParam \cup
  {"{", "}", "'", "\"", "\\", "BT", "=", ":", "/", ".", "~", "%", "+", ",", "[", "]", "^"}

IsLetter(c) == c \notin Punctuation            \* is_alphabetic, or '_'
IsAlphanumeric(c) == IsLetter(c) \/ c \in Digit

AllIn(s, S) == \A i \in DOMAIN s : s[i] \in S
IsAllDigits(s) == s # <<>> /\ AllIn(s, Digit)

(* scan_reference: whether a reference starts after the $ at k - 1, its name, *)
(* and the index of the first character after what was scanned.               *)
NotAReference(next) == [is |-> FALSE, name |-> <<>>, next |-> next]
Reference(name, next) == [is |-> TRUE, name |-> name, next |-> next]

IsPlainParameterName(s) ==
  s # <<>> /\ \/ IsLetter(s[1]) /\ \A i \in DOMAIN s : IsAlphanumeric(s[i])
              \/ IsAllDigits(s)
              \/ Len(s) = 1 /\ s[1] \in SpecialParam

ScanIdentifier(s, k) ==
  LET end == SelectInSubSeq(s, k, Len(s), LAMBDA c : ~ IsAlphanumeric(c))
      next == IF end = 0 THEN Len(s) + 1 ELSE end
  IN Reference(SubSeq(s, k, next - 1), next)

ScanBraced(s, k) ==
  LET close == SelectInSubSeq(s, k + 1, Len(s), LAMBDA c : c = "}")
      name == SubSeq(s, k + 1, close - 1)
  IN IF close = 0 THEN NotAReference(Len(s) + 1)
     ELSE IF IsPlainParameterName(name) THEN Reference(name, close + 1)
     ELSE NotAReference(close + 1)

(* $(...) and $((...)): past the parenthesis that closes the one at k. *)
ScanCommandOrArithmetic(s, k) ==
  LET depth[i \in (k - 1)..Len(s)] ==
        IF i < k THEN 0
        ELSE depth[i - 1] + (CASE s[i] = "(" -> 1 [] s[i] = ")" -> -1 [] OTHER -> 0)
      closed == {i \in k..Len(s) : depth[i] = 0}
  IN NotAReference(IF closed = {} THEN Len(s) + 1
                   ELSE (CHOOSE i \in closed : \A j \in closed : i <= j) + 1)

ScanReference(s, k) ==
  IF k > Len(s) THEN NotAReference(k)
  ELSE CASE s[k] = "{" -> ScanBraced(s, k)
         [] s[k] = "(" -> ScanCommandOrArithmetic(s, k)
         [] s[k] \in Digit \cup SpecialParam -> Reference(<<s[k]>>, k + 1)
         [] IsLetter(s[k]) -> ScanIdentifier(s, k)
         [] OTHER -> NotAReference(k)

(* push_literal_segment: text in front of a segment joins a literal one. *)
Before(chars, segments) ==
  IF segments # <<>> /\ segments[1].kind = "literal"
  THEN [segments EXCEPT ![1].text = chars \o @]
  ELSE <<[kind |-> "literal", text |-> chars]>> \o segments

(* A $ and what it starts, in front of the segments behind that. *)
FromDollar(dollar, reference, segments) ==
  IF reference.is
  THEN <<[kind |-> "reference", text |-> reference.name]>> \o segments
  ELSE Before(dollar, segments)

InterpolationSegments(s) ==
  LET from[k \in 1..(Len(s) + 1), mode \in {"plain", "single", "escaped"}] ==
        LET reference == ScanReference(s, k + 1)
        IN CASE k > Len(s) -> <<>>
             [] k <= Len(s) /\ mode = "escaped" -> Before(<<s[k]>>, from[k + 1, "plain"])
             [] k <= Len(s) /\ mode = "single" ->
                  Before(<<s[k]>>, from[k + 1, IF s[k] = "'" THEN "plain" ELSE "single"])
             [] k <= Len(s) /\ mode = "plain" /\ s[k] = "$" ->
                  FromDollar(SubSeq(s, k, reference.next - 1), reference, from[reference.next, "plain"])
             [] OTHER ->
                  Before(<<s[k]>>, from[k + 1, CASE s[k] = "\\" -> "escaped"
                                                 [] s[k] = "'" -> "single"
                                                 [] OTHER -> "plain"])
  IN from[1, "plain"]

(* classify_param and interpolate: the expression of a word. *)
ClassifyParam(name) ==
  [kind |-> CASE Len(name) = 1 /\ name[1] \in SpecialParam -> "special"
              [] IsAllDigits(name) -> "positional"
              [] OTHER -> "variable",
   text |-> name]

Part(segment) == IF segment.kind = "literal" THEN segment ELSE ClassifyParam(segment.text)

(* An expression is the sequence of its parts: one part is a plain Expr,  *)
(* several are an Interpolated one, none is the empty literal.            *)
ExprOf(segments) ==
  IF segments = <<>> THEN <<[kind |-> "literal", text |-> <<>>]>>
  ELSE [i \in DOMAIN segments |-> Part(segments[i])]

Interpolate(s) == ExprOf(InterpolationSegments(s))

(* Display for Expr: a reference is written $NAME whichever way it was read. *)
ShowPart(part) == IF part.kind = "literal" THEN part.text ELSE <<"$">> \o part.text
ShowExpr(expr) == FlattenSeq([i \in DOMAIN expr |-> ShowPart(expr[i])])

-----------------------------------------------------------------------------
(* Symbolic values: what a Concat is worth is that of its worst part. *)

SymbolicValue == {"constant", "tainted", "unknown"}

ContainsUnresolvedConstruct(s) ==
  \/ \E i \in DOMAIN s : s[i] = "BT"
  \/ \E i \in 1..(Len(s) - 1) : s[i] = "$" /\ s[i + 1] = "("

IsPositionalParam(name) == name \in {<<"@">>, <<"*">>, <<"#">>} \/ IsAllDigits(name)

(* Environment: the values of the variables assigned so far. *)
Lookup(env, name) ==
  IF name \in DOMAIN env THEN env[name]
  ELSE IF IsPositionalParam(name) THEN "tainted"
  ELSE "unknown"

ResolvePart(env, part) ==
  CASE part.kind = "literal" ->
         IF ContainsUnresolvedConstruct(part.text) THEN "unknown" ELSE "constant"
    [] part.kind = "variable" -> Lookup(env, part.text)
    [] part.kind = "positional" -> "tainted"
    [] part.kind = "special" ->
         IF part.text \in {<<"@">>, <<"*">>, <<"#">>} THEN "tainted" ELSE "unknown"

Worst(values) ==
  IF "tainted" \in values THEN "tainted"
  ELSE IF "unknown" \in values THEN "unknown"
  ELSE "constant"

ResolveExpr(env, expr) == Worst({ResolvePart(env, expr[i]) : i \in DOMAIN expr})

(* resolve_text: a word that never became an expression, resolved by name. *)
ResolveText(env, s) ==
  LET Value(segment) ==
        IF segment.kind = "reference" THEN Lookup(env, segment.text)
        ELSE IF ContainsUnresolvedConstruct(segment.text) THEN "unknown"
        ELSE "constant"
  IN Worst({Value(segment) : segment \in ToSet(InterpolationSegments(s))})

(* split_assignment: where the = of NAME=value is, 0 when the word is none. *)
AssignmentAt(s) ==
  LET eq == SelectInSeq(s, LAMBDA c : c = "=")
  IN IF eq > 1 /\ IsLetter(s[1]) /\ \A i \in 1..(eq - 1) : IsAlphanumeric(s[i]) THEN eq ELSE 0
=============================================================================
