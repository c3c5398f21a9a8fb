-------------------------------- MODULE Glob --------------------------------
(***************************************************************************)
(* File patterns of the read-write guard: crates/stages/src/read_write_    *)
(* guard/glob.rs and rule.rs, with the matching of the external glob crate *)
(* they rely on.                                                           *)
(*                                                                         *)
(* Patterns and paths are sequences of symbols over a small alphabet.  One *)
(* symbol "[" stands for a whole character class [...].                    *)
(***************************************************************************)
EXTENDS Integers, Sequences, FiniteSets

CONSTANTS
  Alphabet,    \* the letters of file names, in alphabetical order: a sequence
  ClassLetters \* the letters a character class matches

Letters == {Alphabet[i] : i \in DOMAIN Alphabet}

Wildcards == {"*", "?", "["}

(* What patterns and paths are made of. *)
Symbol == Letters \cup Wildcards \cup {"/"}

ASSUME AlphabetAssumption ==
  /\ Alphabet \in Seq(Letters)
  /\ \A i, j \in DOMAIN Alphabet : i # j => Alphabet[i] # Alphabet[j]
  /\ Letters \cap (Wildcards \cup {"/"}) = {}
  /\ ClassLetters \subseteq Letters

Occurs(c, s) == \E i \in DOMAIN s : s[i] = c

Count(C, s) == Cardinality({i \in DOMAIN s : s[i] \in C})

(* str::contains *)
ContainsRun(s, run) ==
  \E i \in 0 .. Len(s) - Len(run) : SubSeq(s, i + 1, i + Len(run)) = run

-----------------------------------------------------------------------------
(* The last component of a path, by std::path::Path::file_name (external),   *)
(* which passes over separators at the end; the path itself if it has none.  *)
Basename(path) ==
  LET named == {i \in DOMAIN path : path[i] # "/"}
  IN  IF named = {} THEN path
      ELSE LET last  == CHOOSE i \in named : \A k \in named : k <= i
               first == CHOOSE i \in 1 .. last :
                          /\ \A k \in i .. last : path[k] # "/"
                          /\ i = 1 \/ path[i - 1] = "/"
           IN  SubSeq(path, first, last)

(* External: glob::Pattern.  A run of two stars must be a whole component.   *)
Doubled(p, i) == i < Len(p) /\ p[i] = "*" /\ p[i + 1] = "*"

Compiles(p) ==
  \A i \in DOMAIN p : Doubled(p, i) =>
    (i = 1 \/ p[i - 1] = "/") /\ (i + 1 = Len(p) \/ p[i + 2] = "/")

(* External: glob::Pattern::matches with default options, for the rest of a  *)
(* pattern from its i-th symbol on: the places of the path from which it     *)
(* matches, given those of the rest from the next symbol on, and from behind *)
(* a component of two stars.  A star matches separators too, two stars any   *)
(* number of directories, and at the end of the pattern anything.            *)
RestAt(p, s, i, next, beyond) ==
  {j \in 1 .. Len(s) + 1 :
     IF i > Len(p) THEN j > Len(s)
     ELSE IF Doubled(p, i)
     THEN \/ i + 1 = Len(p)
          \/ j \in beyond
          \/ \E k \in j .. Len(s) : s[k] = "/" /\ k + 1 \in beyond
     ELSE IF p[i] = "*" THEN \E k \in j .. Len(s) + 1 : k \in next
     ELSE /\ j <= Len(s)
          /\ p[i] = "?" \/ p[i] = s[j] \/ (p[i] = "[" /\ s[j] \in ClassLetters)
          /\ j + 1 \in next}

RestMatches(p, s) ==
  LET rest[i \in 1 .. Len(p) + 3] == RestAt(p, s, i, rest[i + 1], rest[i + 3])
  IN  rest

Matches(p, s) == 1 \in RestMatches(p, s)[1]

-----------------------------------------------------------------------------
(* Fault: a character class alone does not make a glob. *)
IsGlobPattern_NoClass(p) == \E i \in DOMAIN p : p[i] \in {"*", "?", "/"}

(* is_glob_pattern *)
IsGlobPattern(p) == \E i \in DOMAIN p : p[i] \in Wildcards \cup {"/"}

(* The number of leading components of two stars and a separator. *)
LeadingRecursions(p) ==
  LET leads(n) == 3 * n <= Len(p) /\ \A i \in 0 .. n - 1 :
                    SubSeq(p, 3 * i + 1, 3 * i + 3) = <<"*", "*", "/">>
  IN  CHOOSE n \in 0 .. Len(p) : leads(n) /\ ~leads(n + 1)

(* The bounds of the runs of a pattern without wildcards. *)
LiteralRuns(p) ==
  {r \in (1 .. Len(p) + 1) \X (0 .. Len(p)) :
     r[2] >= r[1] - 1 /\ \A k \in r[1] .. r[2] : p[k] \notin {"*", "?"}}

(* Its longest one, the last of several. *)
LongestRun(p) ==
  LET longest == CHOOSE r \in LiteralRuns(p) : \A q \in LiteralRuns(p) :
                   \/ r[2] - r[1] > q[2] - q[1]
                   \/ r[2] - r[1] = q[2] - q[1] /\ r[1] >= q[1]
  IN  SubSeq(p, longest[1], longest[2])

(* Fault: the separator after leading stars is taken for a literal. *)
RequiredLiteral_KeepsSeparator(p) == IF Occurs("[", p) THEN << >> ELSE LongestRun(p)

(* Fault: a class is taken for a literal. *)
RequiredLiteral_ClassIsLiteral(p) ==
  LongestRun(SubSeq(p, 3 * LeadingRecursions(p) + 1, Len(p)))

(* required_literal *)
RequiredLiteral(p) ==
  IF Occurs("[", p) THEN << >>
  ELSE LongestRun(SubSeq(p, 3 * LeadingRecursions(p) + 1, Len(p)))

WildcardScore(p) == 2 * Count({"*"}, p) + Count({"?", "["}, p)

(* The order of the symbols as characters. *)
Rank(c) ==
  CASE c = "*" -> 1 [] c = "/" -> 2 [] c = "?" -> 3 [] c = "[" -> 4
    [] OTHER -> 4 + CHOOSE i \in DOMAIN Alphabet : Alphabet[i] = c

(* The order of strings. *)
LexLess(p, q) ==
  \E n \in 0 .. Len(p) :
    /\ n <= Len(q) /\ SubSeq(p, 1, n) = SubSeq(q, 1, n)
    /\ n < Len(q) /\ (n = Len(p) \/ Rank(p[n + 1]) < Rank(q[n + 1]))

(* glob_specificity: the order of its keys, most specific first. *)
MoreSpecific(p, q) ==
  LET lp == Len(RequiredLiteral(p))
      lq == Len(RequiredLiteral(q))
  IN  \/ WildcardScore(p) < WildcardScore(q)
      \/ WildcardScore(p) = WildcardScore(q) /\ lp > lq
      \/ WildcardScore(p) = WildcardScore(q) /\ lp = lq /\ LexLess(p, q)
=============================================================================
