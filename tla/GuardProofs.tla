----------------------------- MODULE GuardProofs -----------------------------
(***************************************************************************)
(* Proofs about the file patterns, the rule sets and the configuration of  *)
(* the read-write guard, for any alphabet, any rules and any layers.       *)
(*                                                                         *)
(* Two facts carry them.  A match of a pattern shows every run of the      *)
(* pattern that is free of wildcards (RunShown), wherever the match comes  *)
(* from, and so the required literal among them.  And what a list of rules *)
(* leaves in force is a function of what its parts leave (KeptConcat), so  *)
(* rule sets can be taken apart, handed over in another order and folded   *)
(* again without a trace; the properties of layering follow from equations *)
(* about Over.  GuardInv ties the variables to that algebra.               *)
(*                                                                         *)
(* Inductions are over sets of natural numbers (Induct), built where they  *)
(* are needed.                                                             *)
(***************************************************************************)
EXTENDS GuardConfig, MCGlob, FiniteSetTheorems, WellFoundedInduction, TLAPS

-----------------------------------------------------------------------------
(* Sets of natural numbers, and the equation of the matcher. RestMatches is *)
(* a recursive function; what it gives is known by its equation, which      *)
(* holds because a function that solves it exists.                          *)

(* Every non-empty set of natural numbers has a least element. *)
LEMMA Least ==
  ASSUME NEW T \in SUBSET Nat, T # {}
  PROVE  \E x \in T : \A y \in T : ~(y < x)
<1> DEFINE R == OpToRel(<, Nat)
<1>1. IsWellFoundedOn(R, Nat)
  BY NatLessThanWellFounded
<1>2. \A y, x \in Nat : y < x => <<y, x>> \in R
  BY DEF OpToRel
<1> HIDE DEF R
<1>3. \E x \in T : \A y \in T : ~(<<y, x>> \in R)
  BY <1>1, WFMin
<1> QED BY <1>2, <1>3

(* Induction over the natural numbers, of a set that holds zero and the     *)
(* successor of each of its members.                                        *)
LEMMA Induct ==
  ASSUME NEW T \in SUBSET Nat, 0 \in T, \A n \in T : n + 1 \in T
  PROVE  T = Nat
<1> SUFFICES ASSUME Nat \ T # {} PROVE FALSE
  OBVIOUS
<1>1. PICK x \in Nat \ T : \A y \in Nat \ T : ~(y < x)
  <2> DEFINE U == Nat \ T
  <2>1. U \in SUBSET Nat /\ U # {}
    OBVIOUS
  <2> HIDE DEF U
  <2>2. \E x \in U : \A y \in U : ~(y < x)
    BY <2>1, Least
  <2> QED BY <2>2 DEF U
<1>2. x # 0 /\ x - 1 \in Nat /\ x - 1 < x
  OBVIOUS
<1>3. x - 1 \in T
  BY <1>1, <1>2
<1> QED BY <1>3, <1>1, <1>2

(* The recursive definition of RestMatches has a solution. *)
LEMMA RestMatchesEquation ==
  ASSUME NEW p \in Seq(Symbol), NEW s \in Seq(Symbol)
  PROVE  \A i \in 1 .. Len(p) + 3 :
           RestMatches(p, s)[i] = RestAt(p, s, i, RestMatches(p, s)[i + 1], RestMatches(p, s)[i + 3])
<1> DEFINE N == Len(p) + 3
           F(i, x, y) == RestAt(p, s, i, x, y)
           Solves(r, n) == \A i \in 1 .. N : i > N - n => r[i] = F(i, r[i + 1], r[i + 3])
           T == {n \in Nat : n <= N => \E r : r = [i \in 1 .. N |-> r[i]] /\ Solves(r, n)}
<1>0. N \in Nat /\ N = Len(p) + 3
  OBVIOUS
<1>9. \A i, x, y, z, w : i > Len(p) => F(i, x, y) = F(i, z, w)
  BY DEF RestAt
<1> HIDE DEF F, N
<1>1. 0 \in T
  <2>1. Solves([i \in 1 .. N |-> 0], 0)
    BY <1>0
  <2> QED BY <2>1
<1>2. ASSUME NEW n \in T PROVE n + 1 \in T
  <2>1. SUFFICES ASSUME n + 1 <= N
                 PROVE  \E r : r = [i \in 1 .. N |-> r[i]] /\ Solves(r, n + 1)
    OBVIOUS
  <2>2. PICK r : r = [i \in 1 .. N |-> r[i]] /\ Solves(r, n)
    BY <1>0, <2>1
  <2> DEFINE c == N - n
             v == F(c, r[c + 1], r[c + 3])
             q == [i \in 1 .. N |-> IF i = c THEN v ELSE r[i]]
  <2>3. c \in 1 .. N
    BY <1>0, <2>1
  <2>4. q[c] = v /\ \A i \in 1 .. N : i # c => q[i] = r[i]
    BY <2>3
  <2>5. \A i \in 1 .. N : i > N - n => q[i] = F(i, q[i + 1], q[i + 3])
    <3> SUFFICES ASSUME NEW i \in 1 .. N, i > N - n PROVE q[i] = F(i, q[i + 1], q[i + 3])
      OBVIOUS
    <3>1. q[i] = r[i] /\ r[i] = F(i, r[i + 1], r[i + 3])
      BY <2>2, <2>4, <1>0
    <3>2. CASE i > Len(p)
      BY <3>1, <3>2, <1>9
    <3>3. CASE ~(i > Len(p))
      <4>1. i + 1 \in 1 .. N /\ i + 3 \in 1 .. N /\ i + 1 # c /\ i + 3 # c
        BY <3>3, <1>0, <2>3
      <4> QED BY <3>1, <4>1, <2>4
    <3> QED BY <3>2, <3>3
  <2>6. q[c] = F(c, q[c + 1], q[c + 3])
    <3>2. CASE c > Len(p)
      BY <2>4, <3>2, <1>9
    <3>3. CASE ~(c > Len(p))
      <4>1. c + 1 \in 1 .. N /\ c + 3 \in 1 .. N /\ c + 1 # c /\ c + 3 # c
        BY <3>3, <1>0, <2>3
      <4> QED BY <4>1, <2>4
    <3> QED BY <3>2, <3>3
  <2>7. Solves(q, n + 1)
    <3> SUFFICES ASSUME NEW i \in 1 .. N, i > N - (n + 1) PROVE q[i] = F(i, q[i + 1], q[i + 3])
      OBVIOUS
    <3>1. i = c \/ i > N - n
      BY <1>0, <2>1
    <3> QED BY <3>1, <2>5, <2>6
  <2>8. q = [i \in 1 .. N |-> q[i]]
    OBVIOUS
  <2> QED BY <2>7, <2>8
<1>3. N \in T
  <2> HIDE DEF T
  <2>1. T \in SUBSET Nat
    BY DEF T
  <2>2. T = Nat
    BY <1>1, <1>2, <2>1, Induct
  <2> QED BY <2>2, <1>0
<1>4. \E r : r = [i \in 1 .. N |-> F(i, r[i + 1], r[i + 3])]
  <2>1. PICK r : r = [i \in 1 .. N |-> r[i]] /\ Solves(r, N)
    BY <1>0, <1>3
  <2>2. \A i \in 1 .. N : r[i] = F(i, r[i + 1], r[i + 3])
    <3>1. \A i \in 1 .. N : i > N - N
      BY <1>0
    <3> QED BY <2>1, <3>1
  <2>3. [i \in 1 .. N |-> F(i, r[i + 1], r[i + 3])] = [i \in 1 .. N |-> r[i]]
    BY <2>2
  <2> QED BY <2>1, <2>3
<1>5. RestMatches(p, s) = CHOOSE r : r = [i \in 1 .. N |-> F(i, r[i + 1], r[i + 3])]
  BY DEF RestMatches, F, N
<1>6. RestMatches(p, s) = [i \in 1 .. N |-> F(i, RestMatches(p, s)[i + 1], RestMatches(p, s)[i + 3])]
  BY <1>4, <1>5
<1> QED BY <1>6 DEF F, N

-----------------------------------------------------------------------------
(* What the matcher says of a place, for each kind of symbol; and that a    *)
(* pattern that is no glob matches itself alone.                            *)

(* What is said in RestAt of a place, one lemma for each kind of symbol. *)
LEMMA AtEnd ==
  ASSUME NEW p \in Seq(Symbol), NEW s \in Seq(Symbol)
  PROVE  RestMatches(p, s)[Len(p) + 1] = {Len(s) + 1}
<1> DEFINE M == RestMatches(p, s)
           i == Len(p) + 1
<1>1. M[i] = RestAt(p, s, i, M[i + 1], M[i + 3])
  BY RestMatchesEquation
<1>2. RestAt(p, s, i, M[i + 1], M[i + 3]) = {j \in 1 .. Len(s) + 1 : j > Len(s)}
  BY DEF RestAt
<1> QED BY <1>1, <1>2

(* A symbol other than a star stands for one symbol of the path.            *)
LEMMA AtSymbol ==
  ASSUME NEW p \in Seq(Symbol), NEW s \in Seq(Symbol), NEW i \in 1 .. Len(p), p[i] # "*", NEW j
  PROVE  j \in RestMatches(p, s)[i] <=>
           /\ j \in 1 .. Len(s)
           /\ p[i] = "?" \/ p[i] = s[j] \/ (p[i] = "[" /\ s[j] \in ClassLetters)
           /\ j + 1 \in RestMatches(p, s)[i + 1]
<1> DEFINE M == RestMatches(p, s)
<1>1. M[i] = RestAt(p, s, i, M[i + 1], M[i + 3])
  BY RestMatchesEquation
<1> HIDE DEF M
<1>2. ~ Doubled(p, i)
  BY DEF Doubled
<1>3. j \in M[i] <=> /\ j \in 1 .. Len(s) + 1
                     /\ j <= Len(s)
                     /\ p[i] = "?" \/ p[i] = s[j] \/ (p[i] = "[" /\ s[j] \in ClassLetters)
                     /\ j + 1 \in M[i + 1]
  BY <1>1, <1>2 DEF RestAt
<1>4. j \in 1 .. Len(s) + 1 /\ j <= Len(s) <=> j \in 1 .. Len(s)
  OBVIOUS
<1> QED BY <1>3, <1>4 DEF M

(* A star stands for any stretch of the path.                               *)
LEMMA AtStar ==
  ASSUME NEW p \in Seq(Symbol), NEW s \in Seq(Symbol), NEW i \in 1 .. Len(p), p[i] = "*", ~ Doubled(p, i),
         NEW j \in RestMatches(p, s)[i]
  PROVE  \E k \in 1 .. Len(s) + 1 : j <= k /\ k \in RestMatches(p, s)[i + 1]
<1> DEFINE M == RestMatches(p, s)
<1>1. M[i] = RestAt(p, s, i, M[i + 1], M[i + 3])
  BY RestMatchesEquation
<1> HIDE DEF M
<1>2. j \in 1 .. Len(s) + 1 /\ \E k \in j .. Len(s) + 1 : k \in M[i + 1]
  BY <1>1 DEF RestAt, M
<1> QED BY <1>2 DEF M

(* Two stars and the separator behind them stand for whole directories, or  *)
(* for nothing at all.                                                      *)
LEMMA AtDoubled ==
  ASSUME NEW p \in Seq(Symbol), NEW s \in Seq(Symbol), NEW i \in 1 .. Len(p), Doubled(p, i), i + 1 # Len(p),
         NEW j \in RestMatches(p, s)[i]
  PROVE  \E k \in RestMatches(p, s)[i + 3] : k = j \/ (k \in 2 .. Len(s) + 1 /\ s[k - 1] = "/")
<1> DEFINE M == RestMatches(p, s)
<1>1. M[i] = RestAt(p, s, i, M[i + 1], M[i + 3])
  BY RestMatchesEquation
<1> HIDE DEF M
<1>2. j \in 1 .. Len(s) + 1
      /\ (j \in M[i + 3] \/ \E k \in j .. Len(s) : s[k] = "/" /\ k + 1 \in M[i + 3])
  BY <1>1 DEF RestAt, M
<1>3. CASE j \in M[i + 3]
  BY <1>3 DEF M
<1>4. CASE \E k \in j .. Len(s) : s[k] = "/" /\ k + 1 \in M[i + 3]
  <2>1. PICK k \in j .. Len(s) : s[k] = "/" /\ k + 1 \in M[i + 3]
    BY <1>4
  <2>2. k + 1 \in 2 .. Len(s) + 1 /\ s[(k + 1) - 1] = "/"
    BY <1>2, <2>1
  <2> QED BY <2>1, <2>2 DEF M
<1> QED BY <1>2, <1>3, <1>4

(* The symbols from a to b are no wildcards.                                *)
Literal(p, a, b) == \A k \in a .. b : p[k] \notin Wildcards

(* Symbols that are no wildcards stand for themselves. *)
LEMMA LiteralRead ==
  ASSUME NEW p \in Seq(Symbol), NEW s \in Seq(Symbol),
         NEW a \in 1 .. Len(p), NEW b \in 1 .. Len(p), a <= b, Literal(p, a, b),
         NEW j \in RestMatches(p, s)[a]
  PROVE  /\ j \in 1 .. Len(s) /\ j + (b - a) <= Len(s)
         /\ \A k \in 0 .. b - a : s[j + k] = p[a + k]
         /\ j + (b - a) + 1 \in RestMatches(p, s)[b + 1]
<1> DEFINE M == RestMatches(p, s)
           Read(n) == /\ j + n \in 1 .. Len(s)
                      /\ s[j + n] = p[a + n]
                      /\ j + n + 1 \in M[a + n + 1]
           T == {n \in Nat : n <= b - a => \A k \in 0 .. n : Read(k)}
<1>1. ASSUME NEW i \in a .. b, NEW l \in M[i]
      PROVE  l \in 1 .. Len(s) /\ s[l] = p[i] /\ l + 1 \in M[i + 1]
  <2>1. i \in 1 .. Len(p) /\ p[i] # "*" /\ p[i] # "?" /\ p[i] # "["
    BY DEF Literal, Wildcards
  <2> QED BY <2>1, AtSymbol
<1>0. j \in M[a] /\ a \in a .. b /\ a \in Int
  OBVIOUS
<1> HIDE DEF M
<1>2. 0 \in T
  <2>1. a \in a .. b /\ a + 0 = a /\ j + 0 = j
    <3>1. j \in 1 .. Len(s)
      BY <1>0, <1>1
    <3> QED BY <3>1
  <2>2. Read(0)
    BY <2>1, <1>0, <1>1
  <2> QED BY <2>2
<1>3. ASSUME NEW n \in T PROVE n + 1 \in T
  <2> SUFFICES ASSUME n + 1 <= b - a PROVE \A k \in 0 .. n + 1 : Read(k)
    OBVIOUS
  <2>1. \A k \in 0 .. n : Read(k)
    OBVIOUS
  <2>2. j + n + 1 \in M[a + n + 1] /\ a + n + 1 \in a .. b /\ j \in Int
    <3>1. j \in 1 .. Len(s)
      BY <1>0, <1>1
    <3> QED BY <2>1, <3>1
  <2>3. Read(n + 1)
    <3>1. /\ j + n + 1 \in 1 .. Len(s) /\ s[j + n + 1] = p[a + n + 1]
          /\ j + n + 1 + 1 \in M[a + n + 1 + 1]
      BY <2>2, <1>1
    <3>2. j + (n + 1) = j + n + 1 /\ a + (n + 1) = a + n + 1
      <4>1. n \in Int
        OBVIOUS
      <4> HIDE DEF T
      <4> QED BY <4>1, <2>2, <1>0
    <3> QED BY <3>1, <3>2
  <2>4. \A k \in 0 .. n + 1 : k \in 0 .. n \/ k = n + 1
    OBVIOUS
  <2> QED BY <2>1, <2>3, <2>4
<1>4. b - a \in T
  <2> HIDE DEF T
  <2>1. T \in SUBSET Nat
    BY DEF T
  <2>2. T = Nat
    BY <1>2, <1>3, <2>1, Induct
  <2> QED BY <2>2
<1>5. \A k \in 0 .. b - a : Read(k)
  <2>1. b - a <= b - a
    OBVIOUS
  <2> QED BY <1>4, <2>1
<1>6. Read(0) /\ Read(b - a)
  BY <1>5
<1>7. j \in 1 .. Len(s) /\ j + (b - a) <= Len(s) /\ a + (b - a) + 1 = b + 1
  <2>1. j \in 1 .. Len(s)
    BY <1>0, <1>1
  <2> QED BY <2>1, <1>6
<1>8. \A k \in 0 .. b - a : s[j + k] = p[a + k]
  BY <1>5
<1> QED BY <1>6, <1>7, <1>8 DEF M

(* A pattern without wildcards matches itself alone.                        *)
LEMMA PlainMatch ==
  ASSUME NEW p \in Seq(Symbol), NEW s \in Seq(Symbol), ~ IsGlobPattern(p)
  PROVE  Matches(p, s) <=> p = s
<1> DEFINE M == RestMatches(p, s)
<1>1. \A i \in 1 .. Len(p) : p[i] \notin Wildcards
  BY DEF IsGlobPattern
<1>2. CASE p = << >>
  <2>1. M[1] = {Len(s) + 1}
    <3>1. Len(p) + 1 = 1
      BY <1>2
    <3>2. M[Len(p) + 1] = {Len(s) + 1}
      BY AtEnd
    <3> QED BY <3>1, <3>2
  <2>2. 1 = Len(s) + 1 <=> s = << >>
    OBVIOUS
  <2> HIDE DEF M
  <2>3. 1 \in M[1] <=> s = << >>
    BY <2>1, <2>2
  <2> QED BY <2>3, <1>2 DEF Matches, M
<1>3. CASE p # << >>
  <2>1. 1 \in 1 .. Len(p) /\ Len(p) \in 1 .. Len(p) /\ 1 <= Len(p) /\ Literal(p, 1, Len(p))
    BY <1>1, <1>3 DEF Literal
  <2>2. ASSUME Matches(p, s) PROVE p = s
    <3>1. 1 \in M[1]
      BY <2>2 DEF Matches
    <3> HIDE DEF M
    <3>2. /\ 1 + (Len(p) - 1) <= Len(s)
          /\ \A k \in 0 .. Len(p) - 1 : s[1 + k] = p[1 + k]
          /\ 1 + (Len(p) - 1) + 1 \in M[Len(p) + 1]
      BY <2>1, <3>1, LiteralRead DEF M
    <3>3. 1 + (Len(p) - 1) + 1 = Len(p) + 1
      OBVIOUS
    <3>4. Len(p) = Len(s)
      BY <3>2, <3>3, AtEnd DEF M
    <3>5. \A i \in 1 .. Len(p) : i - 1 \in 0 .. Len(p) - 1 /\ 1 + (i - 1) = i
      OBVIOUS
    <3>6. \A i \in 1 .. Len(p) : s[i] = p[i]
      BY <3>2, <3>5
    <3> QED BY <3>4, <3>6
  <2>3. ASSUME p = s PROVE Matches(p, s)
    <3> DEFINE T == {n \in Nat : n <= Len(p) => Len(p) + 1 - n \in M[Len(p) + 1 - n]}
    <3>1. 0 \in T
      BY <2>3, AtEnd
    <3>2. ASSUME NEW n \in T PROVE n + 1 \in T
      <4> SUFFICES ASSUME n + 1 <= Len(p) PROVE Len(p) - n \in M[Len(p) - n]
        <5>1. Len(p) + 1 - (n + 1) = Len(p) - n
          OBVIOUS
        <5> QED BY <5>1
      <4> DEFINE i == Len(p) - n
      <4>1. i \in 1 .. Len(p) /\ i + 1 \in M[i + 1] /\ p[i] # "*"
        <5>1. i + 1 = Len(p) + 1 - n
          OBVIOUS
        <5> QED BY <5>1, <1>1 DEF Wildcards
      <4>2. i \in 1 .. Len(s) /\ p[i] = s[i]
        BY <4>1, <2>3
      <4> QED BY <4>1, <4>2, AtSymbol
    <3>3. Len(p) \in T
      <4> HIDE DEF T
      <4>1. T \in SUBSET Nat
        BY DEF T
      <4>2. T = Nat
        BY <3>1, <3>2, <4>1, Induct
      <4> QED BY <4>2
    <3>4. Len(p) + 1 - Len(p) = 1
      OBVIOUS
    <3> QED BY <3>3, <3>4 DEF Matches
  <2> QED BY <2>2, <2>3
<1> QED BY <1>2, <1>3

-----------------------------------------------------------------------------
(* The longest run without wildcards, and the leading components of two     *)
(* stars that required_literal passes over.                                 *)

(* Every non-empty set of integers below a bound has a greatest element. *)
LEMMA Greatest ==
  ASSUME NEW N \in Int, NEW T \in SUBSET Int, T # {}, \A x \in T : x <= N
  PROVE  \E x \in T : \A y \in T : y <= x
<1> DEFINE U == {N - x : x \in T}
<1>1. U \in SUBSET Nat /\ U # {}
  <2>1. \A x \in T : N - x \in Nat
    OBVIOUS
  <2> QED BY <2>1
<1>2. PICK u \in U : \A v \in U : ~(v < u)
  <2> HIDE DEF U
  <2> QED BY <1>1, Least
<1>3. PICK x \in T : u = N - x
  OBVIOUS
<1>4. ASSUME NEW y \in T PROVE y <= x
  <2>1. N - y \in U
    OBVIOUS
  <2>2. ~(N - y < N - x)
    BY <1>2, <1>3, <2>1
  <2> QED BY <2>2
<1> QED BY <1>4

(* The longest run is one of the runs. *)
LEMMA LongestRunIs ==
  ASSUME NEW p \in Seq(Symbol)
  PROVE  \E r \in LiteralRuns(p) : LongestRun(p) = SubSeq(p, r[1], r[2])
<1> DEFINE R == LiteralRuns(p)
           Longest(r) == \A q \in R : \/ r[2] - r[1] > q[2] - q[1]
                                      \/ r[2] - r[1] = q[2] - q[1] /\ r[1] >= q[1]
           W == {r[2] - r[1] : r \in R}
<1>1. /\ \A r \in R : r[1] \in 1 .. Len(p) + 1 /\ r[2] \in 0 .. Len(p)
      /\ <<1, 0>> \in R
  BY DEF LiteralRuns
<1> HIDE DEF R
<1>2. PICK w \in W : \A v \in W : v <= w
  <2>1. W \in SUBSET Int /\ W # {} /\ \A v \in W : v <= Len(p)
    BY <1>1
  <2>2. Len(p) \in Int
    OBVIOUS
  <2> HIDE DEF W
  <2> QED BY <2>1, <2>2, Greatest
<1> DEFINE S == {r[1] : r \in {q \in R : q[2] - q[1] = w}}
<1>3. PICK a \in S : \A b \in S : b <= a
  <2>1. S \in SUBSET Int /\ S # {} /\ \A b \in S : b <= Len(p) + 1
    BY <1>1
  <2> HIDE DEF S
  <2>2. Len(p) + 1 \in Int
    OBVIOUS
  <2> QED BY <2>1, <2>2, Greatest
<1>4. PICK r \in R : r[2] - r[1] = w /\ r[1] = a
  OBVIOUS
<1>5. Longest(r)
  <2> SUFFICES ASSUME NEW q \in R
               PROVE  \/ r[2] - r[1] > q[2] - q[1]
                      \/ r[2] - r[1] = q[2] - q[1] /\ r[1] >= q[1]
    OBVIOUS
  <2>1. q[2] - q[1] <= w
    BY <1>2
  <2>2. q[2] - q[1] = w => q[1] <= a
    BY <1>3
  <2>3. q[2] - q[1] \in Int /\ q[1] \in Int /\ r[1] \in Int /\ r[2] - r[1] \in Int
    BY <1>1
  <2> QED BY <1>4, <2>1, <2>2, <2>3
<1> DEFINE longest == CHOOSE q \in R : Longest(q)
<1>6. longest \in R
  <2> HIDE DEF Longest
  <2> QED BY <1>5
<1>7. LongestRun(p) = SubSeq(p, longest[1], longest[2])
  BY DEF LongestRun, R
<1> QED BY <1>6, <1>7 DEF R

(* The pattern begins with n components of two stars.                       *)
Leads(p, n) ==
  3 * n <= Len(p) /\ \A i \in 0 .. n - 1 : SubSeq(p, 3 * i + 1, 3 * i + 3) = <<"*", "*", "/">>

(* There is a number of leading recursions, and one more would be too many. *)
LEMMA LeadingRecursionsAre ==
  ASSUME NEW p \in Seq(Symbol)
  PROVE  /\ LeadingRecursions(p) \in 0 .. Len(p)
         /\ Leads(p, LeadingRecursions(p)) /\ ~ Leads(p, LeadingRecursions(p) + 1)
<1> DEFINE T == {n \in Nat : ~ Leads(p, n)}
<1>1. Len(p) + 1 \in T /\ 0 \notin T
  BY DEF Leads
<1>2. PICK m \in T : \A n \in T : ~(n < m)
  <2>1. T \in SUBSET Nat /\ T # {}
    BY <1>1
  <2> HIDE DEF T
  <2> QED BY <2>1, Least
<1>3. m \in Nat /\ m # 0 /\ m <= Len(p) + 1 /\ ~ Leads(p, m)
  BY <1>1, <1>2
<1>4. m - 1 \in 0 .. Len(p) /\ (m - 1) + 1 = m
  BY <1>3
<1>5. Leads(p, m - 1)
  BY <1>2, <1>3, <1>4
<1>6. \E n \in 0 .. Len(p) : Leads(p, n) /\ ~ Leads(p, n + 1)
  BY <1>3, <1>4, <1>5
<1>7. LeadingRecursions(p) = CHOOSE n \in 0 .. Len(p) : Leads(p, n) /\ ~ Leads(p, n + 1)
  BY DEF LeadingRecursions, Leads
<1> QED BY <1>6, <1>7

(* Three symbols of a pattern, one by one.                                  *)
LEMMA Triple ==
  ASSUME NEW p \in Seq(Symbol), NEW i \in Nat, i + 3 <= Len(p)
  PROVE  SubSeq(p, i + 1, i + 3) = <<"*", "*", "/">> <=> p[i + 1] = "*" /\ p[i + 2] = "*" /\ p[i + 3] = "/"
<1> DEFINE t == SubSeq(p, i + 1, i + 3)
<1>1. t = [k \in 1 .. 3 |-> p[i + k]]
  <2>1. t = [k \in 1 .. (i + 3) - (i + 1) + 1 |-> p[(i + 1) + k - 1]]
    BY DEF SubSeq
  <2>2. (i + 3) - (i + 1) + 1 = 3 /\ \A k \in 1 .. 3 : (i + 1) + k - 1 = i + k
    OBVIOUS
  <2> QED BY <2>1, <2>2
<1>2. <<"*", "*", "/">> = [k \in 1 .. 3 |-> IF k = 1 THEN "*" ELSE IF k = 2 THEN "*" ELSE "/"]
  OBVIOUS
<1>3. ASSUME p[i + 1] = "*", p[i + 2] = "*", p[i + 3] = "/" PROVE t = <<"*", "*", "/">>
  <2>1. \A k \in 1 .. 3 : p[i + k] = IF k = 1 THEN "*" ELSE IF k = 2 THEN "*" ELSE "/"
    <3>1. \A k \in 1 .. 3 : k = 1 \/ k = 2 \/ k = 3
      OBVIOUS
    <3> QED BY <3>1, <1>3
  <2> HIDE DEF t
  <2> QED BY <1>1, <1>2, <2>1
<1>4. ASSUME t = <<"*", "*", "/">> PROVE p[i + 1] = "*" /\ p[i + 2] = "*" /\ p[i + 3] = "/"
  <2>0. <<"*", "*", "/">>[1] = "*" /\ <<"*", "*", "/">>[2] = "*" /\ <<"*", "*", "/">>[3] = "/"
    OBVIOUS
  <2> HIDE DEF t
  <2>1. t[1] = "*" /\ t[2] = "*" /\ t[3] = "/"
    BY <1>4, <2>0
  <2> QED BY <2>1, <1>1
<1> QED BY <1>3, <1>4

(* Behind the leading recursions a match goes on somewhere. *)
LEMMA LeadingSkipped ==
  ASSUME NEW p \in Seq(Symbol), NEW s \in Seq(Symbol), Matches(p, s), NEW n \in Nat, Leads(p, n)
  PROVE  RestMatches(p, s)[3 * n + 1] # {}
<1> DEFINE M == RestMatches(p, s)
           T == {m \in Nat : m <= n => M[3 * m + 1] # {}}
<1>1. 0 \in T
  BY DEF Matches
<1>2. ASSUME NEW m \in T PROVE m + 1 \in T
  <2> SUFFICES ASSUME m + 1 <= n PROVE M[3 * (m + 1) + 1] # {}
    OBVIOUS
  <2>1. 3 * m + 3 <= Len(p) /\ m \in 0 .. n - 1 /\ 3 * m \in Nat
    BY DEF Leads
  <2>2. p[3 * m + 1] = "*" /\ p[3 * m + 2] = "*" /\ p[3 * m + 3] = "/"
    BY <2>1, Triple DEF Leads
  <2> DEFINE i == 3 * m + 1
  <2>3. i \in 1 .. Len(p) /\ i + 1 # Len(p) /\ Doubled(p, i) /\ i + 3 = 3 * (m + 1) + 1
    BY <2>1, <2>2 DEF Doubled
  <2>4. PICK j : j \in M[i]
    OBVIOUS
  <2> HIDE DEF i, M
  <2>5. M[i + 3] # {}
    BY <2>3, <2>4, AtDoubled DEF M
  <2> QED BY <2>3, <2>5
<1>3. n \in T
  <2> HIDE DEF T
  <2>1. T \in SUBSET Nat
    BY DEF T
  <2>2. T = Nat
    BY <1>1, <1>2, <2>1, Induct
  <2> QED BY <2>2
<1> QED BY <1>3

-----------------------------------------------------------------------------
(* The pre-filter: what a match shows of a run, and the theorems about      *)
(* patterns and paths of any length.                                        *)

(* The symbols a to b of the pattern are in the path. *)
Shown(p, s, a, b) ==
  \E l \in 1 .. Len(s) : l + (b - a) <= Len(s) /\ \A k \in 0 .. b - a : s[l + k] = p[a + k]

(* Every run of literals behind the leading recursions is in the path: the   *)
(* match is followed from there to the run.  The run may begin with the      *)
(* separator of an inner component of two stars, which may have matched no   *)
(* directory at all; the separator is then the one before that component.    *)
LEMMA RunShown ==
  ASSUME NEW p \in Seq(Symbol), NEW s \in Seq(Symbol), Compiles(p),
         NEW L \in 0 .. Len(p),
         ~ (L + 3 <= Len(p) /\ p[L + 1] = "*" /\ p[L + 2] = "*" /\ p[L + 3] = "/"),
         RestMatches(p, s)[L + 1] # {},
         NEW a \in L + 1 .. Len(p), NEW b \in a .. Len(p), Literal(p, a, b)
  PROVE  Shown(p, s, a, b)
<1> DEFINE M == RestMatches(p, s)
           Entered(i, j) == i > L + 1 /\ p[i - 1] = "/" => j > 1 /\ s[j - 1] = "/"
           Reached(i) == \E j \in M[i] : j \in Int /\ Entered(i, j)
           T == {n \in Nat : \A m \in 0 .. n : m <= a - (L + 1) /\ Reached(a - m) => Shown(p, s, a, b)}
<1>0. a \in 1 .. Len(p) /\ b \in 1 .. Len(p) /\ a <= b /\ L \in Nat /\ Len(p) \in Nat /\ Len(s) \in Nat
      /\ a \in Int /\ b \in Int
  OBVIOUS
<1>1. ASSUME NEW j \in M[a] PROVE Shown(p, s, a, b)
  BY <1>0, <1>1, LiteralRead DEF Shown
<1>2. p[a] # "*"
  BY <1>0 DEF Literal, Wildcards
<1> HIDE DEF M
<1>3. 0 \in T
  <2>1. a - 0 = a
    BY <1>0
  <2> QED BY <2>1, <1>1
<1>4. ASSUME NEW n \in T PROVE n + 1 \in T
  <2> SUFFICES ASSUME n + 1 <= a - (L + 1), Reached(a - (n + 1)) PROVE Shown(p, s, a, b)
    <3>1. \A m \in 0 .. n + 1 : m \in 0 .. n \/ m = n + 1
      OBVIOUS
    <3> QED BY SMTT(40), <3>1
  <2> DEFINE i == a - (n + 1)
  <2>1. i \in 1 .. Len(p) /\ i >= L + 1 /\ i < a /\ i + 1 <= a /\ i + 1 = a - n /\ n \in Nat /\ n <= a - (L + 1)
        /\ i \in Int /\ i + 1 > L + 1 /\ (i + 1) - 1 = i
    BY <1>0
  <2>2. PICK j \in M[i] : j \in Int /\ Entered(i, j)
    OBVIOUS
  <2>9. ASSUME NEW d \in {1, 3}, i + d <= a, Reached(i + d) PROVE Shown(p, s, a, b)
    <3>1. (n + 1) - d \in 0 .. n /\ (n + 1) - d <= a - (L + 1) /\ a - ((n + 1) - d) = i + d
      BY <2>1, <2>9, <1>0
    <3> QED BY <3>1, <2>9
  <2> HIDE DEF i
  <2>3. CASE p[i] # "*"
    <3>1. /\ j \in 1 .. Len(s)
          /\ p[i] = "?" \/ p[i] = s[j] \/ (p[i] = "[" /\ s[j] \in ClassLetters)
          /\ j + 1 \in M[i + 1]
      BY <2>1, <2>2, <2>3, AtSymbol DEF M
    <3>2. j + 1 \in Int /\ j + 1 > 1 /\ (j + 1) - 1 = j
      BY SMTT(40), <3>1
    <3>3. Entered(i + 1, j + 1)
      BY <2>1, <3>1, <3>2
    <3>4. Reached(i + 1)
      BY <3>1, <3>2, <3>3
    <3> QED BY <3>4, <2>1, <2>9
  <2>4. CASE p[i] = "*" /\ ~ Doubled(p, i)
    <3>1. PICK k \in 1 .. Len(s) + 1 : k \in M[i + 1]
      BY <2>1, <2>2, <2>4, AtStar DEF M
    <3>2. Entered(i + 1, k)
      BY <2>1, <2>4
    <3>3. Reached(i + 1)
      BY <3>1, <3>2, <1>0
    <3> QED BY <3>3, <2>1, <2>9
  <2>5. CASE Doubled(p, i)
    <3>1. /\ i < Len(p) /\ p[i] = "*" /\ p[i + 1] = "*"
          /\ i = 1 \/ p[i - 1] = "/"
          /\ i + 1 = Len(p) \/ p[i + 2] = "/"
      <4>1. i \in DOMAIN p
        BY <2>1
      <4>2. (i = 1 \/ p[i - 1] = "/") /\ (i + 1 = Len(p) \/ p[i + 2] = "/")
        BY <4>1, <2>5 DEF Compiles
      <4> QED BY <4>2, <2>5 DEF Doubled
    <3>2. a # i + 1 /\ i + 1 < a /\ i + 1 # Len(p) /\ p[i + 2] = "/" /\ i + 2 <= Len(p)
      <4>1. a # i + 1 /\ a # i
        BY <3>1, <1>2, <2>1
      <4>2. i + 1 < a
        BY <4>1, <2>1, <1>0
      <4>3. i + 1 # Len(p)
        BY <4>2, <2>1, <1>0
      <4> QED BY <4>1, <4>2, <4>3, <3>1, <2>1, <1>0
    <3>3. i > L + 1 /\ p[i - 1] = "/"
      <4>1. i # L + 1
        <5> SUFFICES ASSUME i = L + 1 PROVE FALSE
          OBVIOUS
        <5>1. L + 3 <= Len(p) /\ i + 1 = L + 2 /\ i + 2 = L + 3
          BY <3>2, <1>0
        <5> QED BY <5>1, <3>1, <3>2
      <4>2. i # 1
        BY <4>1, <2>1, <1>0
      <4> QED BY <4>1, <4>2, <2>1, <3>1, <1>0
    <3>4. j > 1 /\ s[j - 1] = "/"
      BY <3>3, <2>2
    <3>5. PICK k \in M[i + 3] : k = j \/ (k \in 2 .. Len(s) + 1 /\ s[k - 1] = "/")
      BY <2>1, <2>2, <2>5, <3>2, AtDoubled DEF M
    <3>6. k \in Int /\ k > 1 /\ s[k - 1] = "/"
      BY <3>4, <3>5, <2>2, <1>0
    <3>7. CASE a = i + 2
      <4>1. CASE a = b
        <5>1. j \in 2 .. Len(s) + 1
          <6>1. j \in 1 .. Len(s) + 1
            <7>1. M[i] = RestAt(p, s, i, M[i + 1], M[i + 3])
              BY <2>1, RestMatchesEquation DEF M
            <7> QED BY <7>1, <2>2 DEF RestAt
          <6> QED BY <6>1, <3>4
        <5>2. j - 1 \in 1 .. Len(s) /\ b - a = 0 /\ (j - 1) + 0 = j - 1 /\ a + 0 = a /\ p[a] = "/"
          BY SMTT(40), <5>1, <4>1, <3>7, <3>2, <1>0
        <5>3. (j - 1) + (b - a) <= Len(s) /\ \A x \in 0 .. b - a : s[(j - 1) + x] = p[a + x]
          BY <5>2, <3>4
        <5> QED BY <5>2, <5>3 DEF Shown
      <4>2. CASE a # b
        <5>1. a + 1 = i + 3 /\ a + 1 \in 1 .. Len(p) /\ a + 1 <= b /\ Literal(p, a + 1, b)
          BY <4>2, <3>7, <2>1, <1>0 DEF Literal
        <5>2. /\ k \in 1 .. Len(s) /\ k + (b - (a + 1)) <= Len(s)
              /\ \A x \in 0 .. b - (a + 1) : s[k + x] = p[(a + 1) + x]
          <6>1. k \in RestMatches(p, s)[a + 1]
            BY <5>1, <3>5 DEF M
          <6> QED BY <6>1, <5>1, <1>0, LiteralRead
        <5>3. k - 1 \in 1 .. Len(s) /\ (k - 1) + (b - a) <= Len(s)
          BY <5>2, <3>6, <1>0
        <5>4. ASSUME NEW x \in 0 .. b - a PROVE s[(k - 1) + x] = p[a + x]
          <6>1. CASE x = 0
            BY <6>1, <3>6, <3>7, <3>2, <1>0
          <6>2. CASE x # 0
            <7>1. x - 1 \in 0 .. b - (a + 1) /\ (k - 1) + x = k + (x - 1) /\ a + x = (a + 1) + (x - 1)
              BY SMTT(40), <6>2, <1>0, <3>6
            <7> QED BY <7>1, <5>2
          <6> QED BY <6>1, <6>2
        <5> QED BY <5>3, <5>4 DEF Shown
      <4> QED BY <4>1, <4>2
    <3>8. CASE a # i + 2
      <4>1. a >= i + 3 /\ i + 3 > L + 1 /\ (i + 3) - 1 = i + 2
        BY <3>8, <3>2, <2>1, <1>0
      <4>2. Reached(i + 3)
        BY <3>5, <3>6
      <4>3. i + 3 <= a
        BY <4>1, <2>1, <1>0
      <4> QED BY <4>2, <4>3, <2>9
    <3> QED BY <3>7, <3>8
  <2> QED BY <2>3, <2>4, <2>5
<1>5. a - (L + 1) \in T
  <2> HIDE DEF T
  <2>1. T \in SUBSET Nat
    BY DEF T
  <2>2. T = Nat
    BY <1>3, <1>4, <2>1, Induct
  <2> QED BY <2>2, <1>0
<1>6. PICK j : j \in M[L + 1]
  BY DEF M
<1>7. j \in Int
  <2>1. L + 1 \in 1 .. Len(p) + 3
    BY <1>0
  <2>2. M[L + 1] = RestAt(p, s, L + 1, M[L + 2], M[L + 4])
    <3>1. (L + 1) + 1 = L + 2 /\ (L + 1) + 3 = L + 4
      BY <1>0
    <3> QED BY <2>1, <3>1, RestMatchesEquation DEF M
  <2> QED BY <2>2, <1>6 DEF RestAt
<1>8. Reached(a - (a - (L + 1)))
  <2>1. a - (a - (L + 1)) = L + 1 /\ ~ (L + 1 > L + 1)
    BY <1>0
  <2> QED BY <2>1, <1>6, <1>7
<1>9. a - (L + 1) \in 0 .. a - (L + 1) /\ a - (L + 1) <= a - (L + 1)
  BY <1>0
<1> QED BY <1>5, <1>8, <1>9

(* Every path a pattern matches contains its required literal.              *)
LEMMA PrefilterKeepsMatches ==
  ASSUME NEW p \in Seq(Symbol), NEW s \in Seq(Symbol), Compiles(p), Matches(p, s)
  PROVE  ContainsRun(s, RequiredLiteral(p))
<1> DEFINE L == 3 * LeadingRecursions(p)
           q == SubSeq(p, L + 1, Len(p))
<1>1. CASE RequiredLiteral(p) = << >>
  <2>1. Len(<< >>) = 0 /\ 0 \in 0 .. Len(s) - 0 /\ SubSeq(s, 0 + 1, 0 + 0) = << >>
    OBVIOUS
  <2> QED BY <1>1, <2>1 DEF ContainsRun
<1>2. LeadingRecursions(p) \in 0 .. Len(p) /\ Leads(p, LeadingRecursions(p))
      /\ ~ Leads(p, LeadingRecursions(p) + 1)
  BY LeadingRecursionsAre
<1>3. L \in 0 .. Len(p)
  BY <1>2 DEF Leads
<1>4. ~ (L + 3 <= Len(p) /\ p[L + 1] = "*" /\ p[L + 2] = "*" /\ p[L + 3] = "/")
  <2> SUFFICES ASSUME L + 3 <= Len(p), p[L + 1] = "*", p[L + 2] = "*", p[L + 3] = "/" PROVE FALSE
    OBVIOUS
  <2> DEFINE n == LeadingRecursions(p)
  <2>1. SubSeq(p, L + 1, L + 3) = <<"*", "*", "/">>
    BY <1>3, Triple
  <2>2. n \in Nat /\ L = 3 * n /\ 3 * (n + 1) <= Len(p) /\ \A i \in 0 .. (n + 1) - 1 : i \in 0 .. n - 1 \/ i = n
    BY <1>2
  <2> HIDE DEF n, L
  <2>3. Leads(p, n + 1)
    BY <2>1, <2>2, <1>2 DEF Leads, n
  <2> QED BY <2>3, <1>2 DEF n
<1>5. RestMatches(p, s)[L + 1] # {}
  BY <1>2, LeadingSkipped
<1> HIDE DEF L
<1>6. q \in Seq(Symbol) /\ Len(q) = Len(p) - L /\ \A i \in 1 .. Len(q) : q[i] = p[L + i]
  BY <1>3
<1> HIDE DEF q
<1>7. CASE RequiredLiteral(p) # << >>
  <2>1. ~ Occurs("[", p) /\ RequiredLiteral(p) = LongestRun(q)
    BY <1>7 DEF RequiredLiteral, q, L
  <2>2. PICK r \in LiteralRuns(q) : LongestRun(q) = SubSeq(q, r[1], r[2])
    BY <1>6, LongestRunIs
  <2> DEFINE c == r[1]
             d == r[2]
             a == L + c
             b == L + d
             run == SubSeq(q, c, d)
  <2>3. /\ c \in 1 .. Len(q) + 1 /\ d \in 0 .. Len(q) /\ \A k \in c .. d : q[k] \notin {"*", "?"}
    BY <2>2 DEF LiteralRuns
  <2>4. run # << >>
    BY <1>7, <2>1, <2>2
  <2>5. c <= d
    <3> SUFFICES ASSUME d < c PROVE FALSE
      BY <2>3
    <3>1. run = << >>
      BY <2>3
    <3> QED BY <3>1, <2>4
  <2> HIDE DEF c, d
  <2>6. a \in L + 1 .. Len(p) /\ b \in a .. Len(p)
    BY <2>3, <2>5, <1>3, <1>6
  <2>7. Literal(p, a, b)
    <3> SUFFICES ASSUME NEW k \in a .. b PROVE p[k] \notin Wildcards
      BY DEF Literal
    <3>1. k - L \in c .. d /\ k - L \in 1 .. Len(q) /\ L + (k - L) = k /\ k \in 1 .. Len(p)
      BY <2>3, <2>5, <1>3, <1>6
    <3>2. p[k] \notin {"*", "?"}
      BY <3>1, <2>3, <1>6
    <3>3. p[k] # "["
      BY <3>1, <2>1 DEF Occurs
    <3> QED BY <3>2, <3>3 DEF Wildcards
  <2>8. PICK l \in 1 .. Len(s) : l + (b - a) <= Len(s) /\ \A k \in 0 .. b - a : s[l + k] = p[a + k]
    <3> HIDE DEF a, b
    <3>1. Shown(p, s, a, b)
      BY <2>6, <2>7, <1>3, <1>4, <1>5, RunShown
    <3> QED BY <3>1 DEF Shown
  <2>9. run \in Seq(Symbol) /\ Len(run) = d - c + 1 /\ \A k \in 1 .. d - c + 1 : run[k] = q[c + k - 1]
    BY <2>3, <2>5, <1>6
  <2> DEFINE i == l - 1
             part == SubSeq(s, i + 1, i + Len(run))
  <2>10. /\ part \in Seq(Symbol) /\ Len(part) = d - c + 1
         /\ \A k \in 1 .. d - c + 1 : part[k] = s[l + k - 1]
         /\ i \in 0 .. Len(s) - Len(run)
    <3>1. i + 1 = l /\ i + Len(run) = l + (d - c) /\ l \in 1 .. Len(s) /\ l + (d - c) <= Len(s)
          /\ i \in 0 .. Len(s) - Len(run) /\ l + (d - c) >= l
      BY <2>8, <2>9, <2>3, <2>5, <1>3
    <3>2. part = SubSeq(s, l, l + (d - c))
      BY <3>1
    <3> HIDE DEF part, i
    <3> QED BY <3>1, <3>2, <2>3, <2>5
  <2>11. ASSUME NEW k \in 1 .. d - c + 1 PROVE part[k] = run[k]
    <3>1. k - 1 \in 0 .. b - a /\ l + (k - 1) = l + k - 1 /\ a + (k - 1) = L + (c + k - 1)
          /\ c + k - 1 \in 1 .. Len(q)
      BY <2>3, <2>5, <1>3
    <3>2. s[l + k - 1] = p[L + (c + k - 1)]
      BY <3>1, <2>8
    <3> QED BY <3>1, <3>2, <2>9, <2>10, <1>6
  <2>12. part = run
    <3> HIDE DEF part, run
    <3> QED BY <2>9, <2>10, <2>11
  <2>13. RequiredLiteral(p) = run
    BY <2>1, <2>2 DEF c, d
  <2>14. i \in 0 .. Len(s) - Len(run) /\ SubSeq(s, i + 1, i + Len(run)) = run
    <3> HIDE DEF run, i
    <3> QED BY <2>10, <2>12
  <2> HIDE DEF run, i, part
  <2>15. ContainsRun(s, run)
    BY <2>14 DEF ContainsRun
  <2> QED BY <2>15, <2>13
<1> QED BY <1>1, <1>7

(* The patterns and paths of SpecGlob, whatever their length.               *)
GlobInv == pattern \in Seq(Symbol) /\ target \in Seq(Symbol)

(* GlobInv is an invariant of SpecGlob.                                     *)
LEMMA GlobInvariant == SpecGlob => []GlobInv
<1>1. InitGlob => GlobInv
  BY DEF InitGlob, GlobInv
<1>2. GlobInv /\ [NextGlob]_<<pattern, target>> => GlobInv'
  <2> SUFFICES ASSUME GlobInv, [NextGlob]_<<pattern, target>> PROVE GlobInv'
    OBVIOUS
  <2>1. CASE GrowPattern
    BY <2>1 DEF GlobInv, GrowPattern, Symbol
  <2>2. CASE GrowPath
    BY <2>2 DEF GlobInv, GrowPath, Symbol
  <2>3. CASE UNCHANGED <<pattern, target>>
    BY <2>3 DEF GlobInv
  <2> QED BY <2>1, <2>2, <2>3 DEF NextGlob
<1> QED BY <1>1, <1>2, PTL DEF SpecGlob

(* For patterns and paths of any length over any alphabet, the substring    *)
(* test RuleSet::get makes before it matches a glob rejects no path the     *)
(* glob matches.                                                            *)
THEOREM PrefilterIsSound == SpecGlob => []PrefilterLosesNothing
<1>1. GlobInv => PrefilterLosesNothing
  BY PrefilterKeepsMatches DEF GlobInv, PrefilterLosesNothing
<1> QED BY <1>1, GlobInvariant, PTL

(* For patterns and paths of any length, a rule that is not a glob and so   *)
(* is looked up as a map key would match that name alone if it were         *)
(* matched.                                                                 *)
THEOREM ExactPatternsAreLiteral == SpecGlob => []ExactIsLiteral
<1>1. GlobInv => ExactIsLiteral
  BY PlainMatch DEF GlobInv, ExactIsLiteral
<1> QED BY <1>1, GlobInvariant, PTL

-----------------------------------------------------------------------------
(* glob_specificity and the order of strings are strict total orders, so    *)
(* that the indexes of a rule set have one order each.                      *)

(* The place of a symbol in the order of characters is a number,            *)
LEMMA RankType == ASSUME NEW c \in Symbol PROVE Rank(c) \in Int
<1>1. CASE c \in Wildcards \cup {"/"}
  BY <1>1 DEF Rank, Wildcards
<1>2. CASE c \in Letters
  <2>1. \E i \in DOMAIN Alphabet : Alphabet[i] = c
    BY <1>2 DEF Letters
  <2>2. (CHOOSE i \in DOMAIN Alphabet : Alphabet[i] = c) \in DOMAIN Alphabet
    BY <2>1
  <2>3. DOMAIN Alphabet \subseteq Int
    BY AlphabetAssumption DEF AlphabetAssumption
  <2>4. c \notin {"*", "/", "?", "["}
    BY <1>2, AlphabetAssumption DEF AlphabetAssumption, Wildcards
  <2>5. Rank(c) = 4 + CHOOSE i \in DOMAIN Alphabet : Alphabet[i] = c
    BY <2>4 DEF Rank
  <2> QED BY <2>2, <2>3, <2>5
<1> QED BY <1>1, <1>2 DEF Symbol

(* and no two symbols have the same.                                        *)
LEMMA RankInjective == ASSUME NEW c \in Symbol, NEW d \in Symbol, c # d PROVE Rank(c) # Rank(d)
<1> DEFINE rank(x) == CHOOSE i \in DOMAIN Alphabet : Alphabet[i] = x
<1>1. \A x \in Wildcards \cup {"/"} : Rank(x) \in 1 .. 4
  BY DEF Rank, Wildcards
<1>2. \A x, y \in Wildcards \cup {"/"} : x # y => Rank(x) # Rank(y)
  BY DEF Rank, Wildcards
<1>3. ASSUME NEW x \in Letters
      PROVE  Rank(x) = 4 + rank(x) /\ rank(x) \in Int /\ rank(x) > 0 /\ Alphabet[rank(x)] = x
  <2>1. \E i \in DOMAIN Alphabet : Alphabet[i] = x
    BY DEF Letters
  <2>2. rank(x) \in DOMAIN Alphabet /\ Alphabet[rank(x)] = x
    BY <2>1
  <2>3. \A i \in DOMAIN Alphabet : i \in Int /\ i > 0
    BY AlphabetAssumption DEF AlphabetAssumption
  <2>4. x \notin {"*", "/", "?", "["}
    BY AlphabetAssumption DEF AlphabetAssumption, Wildcards
  <2>5. Rank(x) = 4 + rank(x)
    BY <2>4 DEF Rank
  <2> QED BY <2>2, <2>3, <2>5
<1> HIDE DEF rank
<1>4. CASE c \in Letters /\ d \in Letters
  BY <1>3, <1>4
<1>5. CASE c \notin Letters \/ d \notin Letters
  BY <1>1, <1>2, <1>3, <1>5 DEF Symbol
<1> QED BY <1>4, <1>5

(* LexLess at the first difference. *)
LessAt(p, q, n) ==
  /\ n \in 0 .. Len(p) /\ n < Len(q)
  /\ \A k \in 1 .. n : p[k] = q[k]
  /\ n = Len(p) \/ Rank(p[n + 1]) < Rank(q[n + 1])

(* The order of strings, by the first place where they differ.              *)
LEMMA LexLessAt ==
  ASSUME NEW p \in Seq(Symbol), NEW q \in Seq(Symbol)
  PROVE  LexLess(p, q) <=> \E n \in Nat : LessAt(p, q, n)
<1>1. ASSUME NEW n \in Nat, n <= Len(p), n <= Len(q)
      PROVE  SubSeq(p, 1, n) = SubSeq(q, 1, n) <=> \A k \in 1 .. n : p[k] = q[k]
  <2> DEFINE a == SubSeq(p, 1, n)
             b == SubSeq(q, 1, n)
  <2>1. /\ a \in Seq(Symbol) /\ Len(a) = n /\ \A k \in 1 .. n : a[k] = p[k]
        /\ b \in Seq(Symbol) /\ Len(b) = n /\ \A k \in 1 .. n : b[k] = q[k]
    BY <1>1
  <2> HIDE DEF a, b
  <2>2. a = b <=> \A k \in 1 .. n : a[k] = b[k]
    BY <2>1
  <2> QED BY <2>1, <2>2 DEF a, b
<1>2. ASSUME LexLess(p, q) PROVE \E n \in Nat : LessAt(p, q, n)
  <2>1. PICK n \in 0 .. Len(p) :
          /\ n <= Len(q) /\ SubSeq(p, 1, n) = SubSeq(q, 1, n)
          /\ n < Len(q) /\ (n = Len(p) \/ Rank(p[n + 1]) < Rank(q[n + 1]))
    BY <1>2 DEF LexLess
  <2>2. n \in Nat /\ \A k \in 1 .. n : p[k] = q[k]
    BY <2>1, <1>1
  <2> QED BY <2>1, <2>2 DEF LessAt
<1>3. ASSUME NEW n \in Nat, LessAt(p, q, n) PROVE LexLess(p, q)
  <2>1. n \in 0 .. Len(p) /\ n <= Len(q) /\ SubSeq(p, 1, n) = SubSeq(q, 1, n)
    BY <1>1, <1>3 DEF LessAt
  <2> QED BY <2>1, <1>3 DEF LexLess, LessAt
<1> QED BY <1>2, <1>3

(* The order of strings is irreflexive,                                     *)
LEMMA LexLessIrreflexive == ASSUME NEW p \in Seq(Symbol) PROVE ~ LexLess(p, p)
<1> SUFFICES ASSUME NEW n \in Nat, LessAt(p, p, n) PROVE FALSE
  BY LexLessAt
<1>1. n + 1 \in 1 .. Len(p) /\ Rank(p[n + 1]) < Rank(p[n + 1])
  BY DEF LessAt
<1>2. p[n + 1] \in Symbol
  BY <1>1
<1> QED BY <1>1, <1>2, RankType

(* transitive,                                                              *)
LEMMA LexLessTransitive ==
  ASSUME NEW p \in Seq(Symbol), NEW q \in Seq(Symbol), NEW r \in Seq(Symbol),
         LexLess(p, q), LexLess(q, r)
  PROVE  LexLess(p, r)
<1>1. PICK n \in Nat : LessAt(p, q, n)
  BY LexLessAt
<1>2. PICK m \in Nat : LessAt(q, r, m)
  BY LexLessAt
<1>3. CASE n < m
  <2>1. /\ n \in 0 .. Len(p) /\ n < Len(r) /\ n + 1 \in 1 .. m /\ n + 1 \in 1 .. Len(q)
        /\ \A k \in 1 .. n : k \in 1 .. m
    BY <1>1, <1>2, <1>3 DEF LessAt
  <2>2. LessAt(p, r, n)
    BY <2>1, <1>1, <1>2 DEF LessAt
  <2> QED BY <2>2, LexLessAt
<1>4. CASE n = m
  <2>1. m # Len(q) /\ Rank(q[m + 1]) < Rank(r[m + 1])
    BY <1>1, <1>2, <1>4 DEF LessAt
  <2>2. n = Len(p) \/ Rank(p[n + 1]) < Rank(r[n + 1])
    <3>1. CASE n # Len(p)
      <4>1. n + 1 \in 1 .. Len(p) /\ n + 1 \in 1 .. Len(q) /\ n + 1 \in 1 .. Len(r)
        BY <1>1, <1>2, <1>4, <3>1 DEF LessAt
      <4>2. p[n + 1] \in Symbol /\ q[n + 1] \in Symbol /\ r[n + 1] \in Symbol
        BY <4>1
      <4>3. Rank(p[n + 1]) \in Int /\ Rank(q[n + 1]) \in Int /\ Rank(r[n + 1]) \in Int
        BY <4>2, RankType
      <4>4. Rank(p[n + 1]) < Rank(q[n + 1])
        BY <1>1, <3>1 DEF LessAt
      <4> QED BY <4>3, <4>4, <2>1, <1>4
    <3> QED BY <3>1
  <2>3. LessAt(p, r, n)
    BY <2>2, <1>1, <1>2, <1>4 DEF LessAt
  <2> QED BY <2>3, LexLessAt
<1>5. CASE m < n
  <2>1. /\ m \in 0 .. Len(p) /\ m # Len(q) /\ m + 1 \in 1 .. n
        /\ \A k \in 1 .. m : k \in 1 .. n
    BY <1>1, <1>2, <1>5 DEF LessAt
  <2>2. LessAt(p, r, m)
    BY <2>1, <1>1, <1>2 DEF LessAt
  <2> QED BY <2>2, LexLessAt
<1> QED BY <1>3, <1>4, <1>5

(* and total.                                                               *)
LEMMA LexLessTotal ==
  ASSUME NEW p \in Seq(Symbol), NEW q \in Seq(Symbol), p # q
  PROVE  LexLess(p, q) \/ LexLess(q, p)
<1> DEFINE T == {k \in Nat : k < Len(p) /\ k < Len(q) /\ p[k + 1] # q[k + 1]}
<1>1. CASE T # {}
  <2>1. PICK n \in T : \A k \in T : ~(k < n)
    <3>1. T \in SUBSET Nat
      OBVIOUS
    <3> HIDE DEF T
    <3> QED BY <3>1, <1>1, Least
  <2>2. \A k \in 1 .. n : p[k] = q[k]
    <3> SUFFICES ASSUME NEW k \in 1 .. n, p[k] # q[k] PROVE FALSE
      OBVIOUS
    <3>1. k - 1 \in Nat /\ k - 1 < n /\ (k - 1) + 1 = k
      OBVIOUS
    <3>2. k - 1 \in T
      BY <3>1
    <3> QED BY <3>1, <3>2, <2>1
  <2>3. n + 1 \in 1 .. Len(p) /\ n + 1 \in 1 .. Len(q) /\ n \in 0 .. Len(p) /\ n \in 0 .. Len(q)
    OBVIOUS
  <2>4. p[n + 1] \in Symbol /\ q[n + 1] \in Symbol /\ p[n + 1] # q[n + 1]
    BY <2>3
  <2>5. Rank(p[n + 1]) < Rank(q[n + 1]) \/ Rank(q[n + 1]) < Rank(p[n + 1])
    BY <2>4, RankType, RankInjective
  <2>6. n \in Nat /\ (LessAt(p, q, n) \/ LessAt(q, p, n))
    BY <2>2, <2>3, <2>5 DEF LessAt
  <2> QED BY <2>6, LexLessAt
<1>2. CASE T = {}
  <2>1. \A k \in Nat : k < Len(p) /\ k < Len(q) => p[k + 1] = q[k + 1]
    BY <1>2
  <2>2. ASSUME NEW k \in 1 .. Len(p), k <= Len(q) PROVE p[k] = q[k]
    <3>1. k - 1 \in Nat /\ k - 1 < Len(p) /\ k - 1 < Len(q) /\ (k - 1) + 1 = k
      BY <2>2
    <3> QED BY <3>1, <2>1
  <2>3. Len(p) # Len(q)
    BY <2>2
  <2>4. CASE Len(p) < Len(q)
    <3>1. LessAt(p, q, Len(p))
      BY <2>2, <2>4 DEF LessAt
    <3> QED BY <3>1, LexLessAt
  <2>5. CASE Len(q) < Len(p)
    <3>1. LessAt(q, p, Len(q))
      BY <2>2, <2>5 DEF LessAt
    <3> QED BY <3>1, LexLessAt
  <2> QED BY <2>3, <2>4, <2>5
<1> QED BY <1>1, <1>2

(* The keys of glob_specificity are numbers.                                *)
LEMMA ScoreType ==
  ASSUME NEW p \in Seq(Symbol)
  PROVE  WildcardScore(p) \in Int /\ Len(RequiredLiteral(p)) \in Int
<1>1. ASSUME NEW C PROVE Count(C, p) \in Nat
  <2>1. IsFiniteSet(DOMAIN p)
    BY FS_Interval
  <2>2. {i \in DOMAIN p : p[i] \in C} \in SUBSET DOMAIN p
    OBVIOUS
  <2>3. IsFiniteSet({i \in DOMAIN p : p[i] \in C})
    BY <2>1, <2>2, FS_Subset
  <2> QED BY <2>3, FS_CardinalityType DEF Count
<1>2. ASSUME NEW q \in Seq(Symbol) PROVE Len(LongestRun(q)) \in Nat
  <2>1. PICK r \in LiteralRuns(q) : LongestRun(q) = SubSeq(q, r[1], r[2])
    BY LongestRunIs
  <2>2. r[1] \in 1 .. Len(q) + 1 /\ r[2] \in 0 .. Len(q)
    BY DEF LiteralRuns
  <2>3. SubSeq(q, r[1], r[2]) \in Seq(Symbol)
    BY <2>2
  <2> QED BY <2>1, <2>3
<1>3. WildcardScore(p) \in Int
  <2>1. Count({"*"}, p) \in Nat /\ Count({"?", "["}, p) \in Nat
    BY <1>1
  <2> QED BY <2>1 DEF WildcardScore
<1>4. Len(RequiredLiteral(p)) \in Int
  <2> DEFINE n == 3 * LeadingRecursions(p) + 1
  <2>1. n \in 1 .. Len(p) + 1
    BY LeadingRecursionsAre DEF Leads
  <2>2. SubSeq(p, n, Len(p)) \in Seq(Symbol)
    BY <2>1
  <2> HIDE DEF n
  <2>3. Len(LongestRun(SubSeq(p, n, Len(p)))) \in Nat
    BY <1>2, <2>2
  <2> QED BY <2>3 DEF RequiredLiteral, n
<1> QED BY <1>3, <1>4

(* glob_specificity orders the patterns strictly and totally.               *)
LEMMA MoreSpecificOrders ==
  ASSUME NEW p \in Seq(Symbol), NEW q \in Seq(Symbol), NEW r \in Seq(Symbol)
  PROVE  /\ ~ MoreSpecific(p, p)
         /\ MoreSpecific(p, q) /\ MoreSpecific(q, r) => MoreSpecific(p, r)
         /\ p # q => MoreSpecific(p, q) \/ MoreSpecific(q, p)
<1>1. \A x \in Seq(Symbol) : WildcardScore(x) \in Int /\ Len(RequiredLiteral(x)) \in Int
  BY ScoreType
<1> DEFINE w(x) == WildcardScore(x)
           l(x) == Len(RequiredLiteral(x))
<1>2. /\ w(p) \in Int /\ w(q) \in Int /\ w(r) \in Int
      /\ l(p) \in Int /\ l(q) \in Int /\ l(r) \in Int
  BY <1>1
<1>3. \A x, y : MoreSpecific(x, y) <=>
        \/ w(x) < w(y)
        \/ w(x) = w(y) /\ l(x) > l(y)
        \/ w(x) = w(y) /\ l(x) = l(y) /\ LexLess(x, y)
  BY DEF MoreSpecific
<1> HIDE DEF w, l
<1>4. ~ MoreSpecific(p, p)
  BY <1>2, <1>3, LexLessIrreflexive
<1>5. ASSUME MoreSpecific(p, q), MoreSpecific(q, r) PROVE MoreSpecific(p, r)
  <2>1. w(p) <= w(q) /\ w(q) <= w(r)
    BY <1>2, <1>3, <1>5
  <2>2. CASE w(p) < w(r)
    BY <2>2, <1>3
  <2>3. CASE w(p) = w(q) /\ w(q) = w(r)
    <3>1. l(p) >= l(q) /\ l(q) >= l(r)
      BY <2>3, <1>2, <1>3, <1>5
    <3>2. CASE l(p) > l(r)
      BY <3>2, <2>3, <1>3
    <3>3. CASE l(p) = l(q) /\ l(q) = l(r)
      <4>1. LexLess(p, q) /\ LexLess(q, r)
        BY <2>3, <3>3, <1>2, <1>3, <1>5
      <4>2. LexLess(p, r)
        BY <4>1, LexLessTransitive
      <4> QED BY <4>2, <2>3, <3>3, <1>3
    <3> QED BY <3>1, <3>2, <3>3, <1>2
  <2> QED BY <2>1, <2>2, <2>3, <1>2
<1>6. ASSUME p # q PROVE MoreSpecific(p, q) \/ MoreSpecific(q, p)
  <2>1. LexLess(p, q) \/ LexLess(q, p)
    BY <1>6, LexLessTotal
  <2> QED BY <2>1, <1>2, <1>3
<1> QED BY <1>4, <1>5, <1>6

-----------------------------------------------------------------------------
(* A finite set sorted by a strict total order is enumerated.               *)

(* A sequence that has each element of S once. *)
Enumerates(seq, S) ==
  /\ seq \in Seq(S)
  /\ \A x \in S : \E i \in DOMAIN seq : seq[i] = x
  /\ \A i, j \in DOMAIN seq : seq[i] = seq[j] => i = j

(* Sorted, of a relation.                                                   *)
InOrder(S, R) ==
  [i \in 1 .. Cardinality(S) |-> CHOOSE x \in S : Cardinality({y \in S : <<y, x>> \in R}) = i - 1]

(* A finite set is enumerated by a strict total order of it: no two of its   *)
(* elements have the same number of elements before them.                    *)
LEMMA InOrderEnumerates ==
  ASSUME NEW S, IsFiniteSet(S), NEW R,
         \A x \in S : <<x, x>> \notin R,
         \A x, y, z \in S : <<x, y>> \in R /\ <<y, z>> \in R => <<x, z>> \in R,
         \A x, y \in S : x # y => <<x, y>> \in R \/ <<y, x>> \in R
  PROVE  Enumerates(InOrder(S, R), S)
<1> DEFINE n == Cardinality(S)
           below(x) == {y \in S : <<y, x>> \in R}
           f == [x \in S |-> Cardinality(below(x)) + 1]
           seq == InOrder(S, R)
<1>1. n \in Nat
  BY FS_CardinalityType
<1>2. ASSUME NEW x \in S
      PROVE  IsFiniteSet(below(x)) /\ Cardinality(below(x)) \in Nat /\ Cardinality(below(x)) < n
  <2>1. IsFiniteSet(S \ {x}) /\ Cardinality(S \ {x}) = n - 1
    BY FS_RemoveElement
  <2>2. below(x) \in SUBSET (S \ {x})
    OBVIOUS
  <2> HIDE DEF below
  <2>3. IsFiniteSet(below(x)) /\ Cardinality(below(x)) <= n - 1
    BY <2>1, <2>2, FS_Subset
  <2>4. Cardinality(below(x)) \in Nat
    BY <2>3, FS_CardinalityType
  <2> QED BY <2>3, <2>4, <1>1
<1>3. ASSUME NEW x \in S, NEW y \in S, <<x, y>> \in R
      PROVE  Cardinality(below(x)) # Cardinality(below(y))
  <2>1. below(x) \in SUBSET below(y) /\ x \in below(y) /\ x \notin below(x)
    BY <1>3
  <2> QED BY <2>1, <1>2, FS_Subset
<1> HIDE DEF below
<1>4. f \in [S -> 1 .. n]
  BY <1>1, <1>2
<1>5. \A x, y \in S : f[x] = f[y] => x = y
  <2> SUFFICES ASSUME NEW x \in S, NEW y \in S, x # y PROVE f[x] # f[y]
    OBVIOUS
  <2>1. Cardinality(below(x)) # Cardinality(below(y))
    BY <1>3
  <2> QED BY <2>1, <1>2
<1>6. f \in Surjection(S, 1 .. n)
  <2>1. f \in Injection(S, 1 .. n)
    BY <1>4, <1>5 DEF Injection, IsInjective
  <2>2. IsFiniteSet(1 .. n) /\ Cardinality(1 .. n) = n
    BY <1>1, FS_Interval
  <2> HIDE DEF f
  <2> QED BY <2>1, <2>2, FS_Injection
<1>7. ASSUME NEW i \in 1 .. n PROVE seq[i] \in S /\ f[seq[i]] = i
  <2>1. \E x \in S : f[x] = i
    BY <1>6 DEF Surjection
  <2>2. \E x \in S : Cardinality(below(x)) = i - 1
    BY <2>1, <1>2
  <2>3. seq[i] = CHOOSE x \in S : Cardinality(below(x)) = i - 1
    BY DEF InOrder, below
  <2>4. seq[i] \in S /\ Cardinality(below(seq[i])) = i - 1
    BY <2>2, <2>3
  <2> QED BY <2>4, <1>2
<1>8. DOMAIN seq = 1 .. n /\ Len(seq) = n /\ seq \in Seq(S)
  <2> DEFINE chosen(i) == CHOOSE x \in S : Cardinality({y \in S : <<y, x>> \in R}) = i - 1
  <2>1. seq = [i \in 1 .. n |-> chosen(i)]
    BY DEF InOrder
  <2> HIDE DEF seq, chosen
  <2>2. seq \in [1 .. n -> S]
    BY <2>1, <1>7
  <2> QED BY <2>2, <1>1
<1> HIDE DEF seq, f
<1>9. ASSUME NEW x \in S PROVE \E i \in DOMAIN seq : seq[i] = x
  <2>1. f[x] \in 1 .. n
    BY <1>4
  <2>2. f[seq[f[x]]] = f[x] /\ seq[f[x]] \in S
    BY <2>1, <1>7
  <2> QED BY <2>1, <2>2, <1>5, <1>8
<1>10. \A i, j \in DOMAIN seq : seq[i] = seq[j] => i = j
  BY <1>7, <1>8
<1> QED BY <1>8, <1>9, <1>10 DEF Enumerates, seq

(* No two rules have the same pattern.                                      *)
Distinct(S) == \A r, q \in S : r.filename = q.filename => r = q

(* The globs of a rule set are enumerated from the narrowest on,            *)
LEMMA GlobsEnumerated ==
  ASSUME NEW S \in SUBSET GuardRule, IsFiniteSet(S), Distinct(S)
  PROVE  Enumerates(Sorted(S, LAMBDA r, q : MoreSpecific(r.filename, q.filename)), S)
<1> DEFINE R == {rq \in S \X S : MoreSpecific(rq[1].filename, rq[2].filename)}
<1>1. \A x, y \in S : <<x, y>> \in R <=> MoreSpecific(x.filename, y.filename)
  OBVIOUS
<1>2. \A x \in S : x.filename \in Seq(Symbol)
  BY DEF GuardRule
<1>3. /\ \A x \in S : <<x, x>> \notin R
      /\ \A x, y, z \in S : <<x, y>> \in R /\ <<y, z>> \in R => <<x, z>> \in R
      /\ \A x, y \in S : x # y => <<x, y>> \in R \/ <<y, x>> \in R
  <2> HIDE DEF R
  <2> QED BY <1>1, <1>2, MoreSpecificOrders DEF Distinct
<1> DEFINE sorted == Sorted(S, LAMBDA r, q : MoreSpecific(r.filename, q.filename))
<1>4. sorted = InOrder(S, R)
  <2> DEFINE first(i) == CHOOSE x \in S : Cardinality({y \in S : <<y, x>> \in R}) = i - 1
             second(i) == CHOOSE x \in S : Cardinality({y \in S : MoreSpecific(y.filename, x.filename)}) = i - 1
  <2>1. \A x \in S : {y \in S : <<y, x>> \in R} = {y \in S : MoreSpecific(y.filename, x.filename)}
    BY <1>1
  <2>2. InOrder(S, R) = [i \in 1 .. Cardinality(S) |-> first(i)]
    BY Zenon DEF InOrder
  <2>3. sorted = [i \in 1 .. Cardinality(S) |-> second(i)]
    BY Zenon DEF Sorted
  <2> HIDE DEF R, sorted
  <2>4. \A i : first(i) = second(i)
    BY <2>1
  <2> HIDE DEF first, second
  <2> QED BY <2>2, <2>3, <2>4
<1> HIDE DEF R, sorted
<1>5. Enumerates(sorted, S)
  BY <1>3, <1>4, InOrderEnumerates
<1> QED BY <1>5, Zenon DEF sorted

(* and its exact rules in the order of their names.                         *)
LEMMA ExactEnumerated ==
  ASSUME NEW S \in SUBSET GuardRule, IsFiniteSet(S), Distinct(S)
  PROVE  Enumerates(Sorted(S, LAMBDA r, q : LexLess(r.filename, q.filename)), S)
<1> DEFINE R == {rq \in S \X S : LexLess(rq[1].filename, rq[2].filename)}
<1>1. \A x, y \in S : <<x, y>> \in R <=> LexLess(x.filename, y.filename)
  OBVIOUS
<1>2. \A x \in S : x.filename \in Seq(Symbol)
  BY DEF GuardRule
<1>3. /\ \A x \in S : <<x, x>> \notin R
      /\ \A x, y, z \in S : <<x, y>> \in R /\ <<y, z>> \in R => <<x, z>> \in R
      /\ \A x, y \in S : x # y => <<x, y>> \in R \/ <<y, x>> \in R
  <2> HIDE DEF R
  <2> QED BY <1>1, <1>2, LexLessIrreflexive, LexLessTransitive, LexLessTotal DEF Distinct
<1> DEFINE sorted == Sorted(S, LAMBDA r, q : LexLess(r.filename, q.filename))
<1>4. sorted = InOrder(S, R)
  <2> DEFINE first(i) == CHOOSE x \in S : Cardinality({y \in S : <<y, x>> \in R}) = i - 1
             second(i) == CHOOSE x \in S : Cardinality({y \in S : LexLess(y.filename, x.filename)}) = i - 1
  <2>1. \A x \in S : {y \in S : <<y, x>> \in R} = {y \in S : LexLess(y.filename, x.filename)}
    BY <1>1
  <2>2. InOrder(S, R) = [i \in 1 .. Cardinality(S) |-> first(i)]
    BY Zenon DEF InOrder
  <2>3. sorted = [i \in 1 .. Cardinality(S) |-> second(i)]
    BY Zenon DEF Sorted
  <2> HIDE DEF R, sorted
  <2>4. \A i : first(i) = second(i)
    BY <2>1
  <2> HIDE DEF first, second
  <2> QED BY <2>2, <2>3, <2>4
<1> HIDE DEF R, sorted
<1>5. Enumerates(sorted, S)
  BY <1>3, <1>4, InOrderEnumerates
<1> QED BY <1>5, Zenon DEF sorted

-----------------------------------------------------------------------------
(* What the fold of from_iter leaves.                                       *)

(* The rules among the first n that no later one of them replaces. *)
Upto(list, n) ==
  {list[i] : i \in {k \in 1 .. n : \A j \in k + 1 .. n : ~ Subsumes(list[j], list[k])}}

(* The rules no later rule of the list subsumes.                            *)
Survivors(list) == Upto(list, Len(list))

(* The fold of from_iter in closed form. *)
LEMMA FoldKeepsSurvivors ==
  ASSUME NEW list \in Seq(GuardRule)
  PROVE  FoldLeft(Override, {}, list) = Survivors(list)
<1> DEFINE N == Len(list)
           D == 1 .. N
           F(s, r) == IF s = {} THEN {} ELSE Override(r[s \ {Max(s)}], list[Max(s)])
           Solved(n) == \E r : r = [s \in SUBSET D |-> r[s]] /\ \A s \in SUBSET (1 .. n) : r[s] = F(s, r)
           T == {n \in Nat : n <= N => Solved(n)}
<1>0. N \in Nat /\ DOMAIN list = D
  OBVIOUS
<1> HIDE DEF N
<1>1. ASSUME NEW n \in Nat, NEW s \in SUBSET (1 .. n + 1), n + 1 \in s PROVE Max(s) = n + 1
  <2>1. \A x \in s : x <= n + 1 /\ x \in Int
    OBVIOUS
  <2>2. n + 1 \in s /\ \A y \in s : n + 1 >= y
    BY <1>1, <2>1
  <2>3. Max(s) \in s /\ \A y \in s : Max(s) >= y
    BY <2>2 DEF Max
  <2> DEFINE m == Max(s)
  <2>4. m \in Int /\ m <= n + 1 /\ m >= n + 1
    BY <2>1, <2>2, <2>3
  <2> HIDE DEF m
  <2>5. m = n + 1
    BY <2>4
  <2> QED BY <2>5 DEF m
<1>2. 0 \in T
  <2> DEFINE r == [s \in SUBSET D |-> {}]
  <2>1. \A s \in SUBSET (1 .. 0) : s = {} /\ s \in SUBSET D
    OBVIOUS
  <2>2. \A s \in SUBSET (1 .. 0) : r[s] = F(s, r)
    BY <2>1
  <2>3. r = [s \in SUBSET D |-> r[s]]
    OBVIOUS
  <2> HIDE DEF r, F
  <2> QED BY <2>2, <2>3
<1> HIDE DEF F
<1>3. ASSUME NEW n \in T PROVE n + 1 \in T
  <2> SUFFICES ASSUME n + 1 <= N PROVE Solved(n + 1)
    <3> HIDE DEF Solved
    <3> QED OBVIOUS
  <2>0. Solved(n)
    <3> HIDE DEF Solved
    <3> QED BY <1>0
  <2>1. PICK r : r = [s \in SUBSET D |-> r[s]] /\ \A s \in SUBSET (1 .. n) : r[s] = F(s, r)
    BY <2>0
  <2> DEFINE q == [s \in SUBSET D |-> IF n + 1 \in s THEN Override(r[s \ {n + 1}], list[n + 1]) ELSE r[s]]
  <2>2. n \in Nat /\ SUBSET (1 .. n + 1) \subseteq SUBSET D
    BY <1>0
  <2>3. ASSUME NEW s \in SUBSET (1 .. n + 1) PROVE q[s] = F(s, q)
    <3>1. s \in SUBSET D /\ s \ {Max(s)} \in SUBSET D
      BY <2>2
    <3>2. CASE n + 1 \in s
      <4>1. Max(s) = n + 1
        BY <3>2, <2>2, <1>1
      <4>2. q[s] = Override(r[s \ {n + 1}], list[n + 1])
        BY <3>1, <3>2
      <4>3. q[s \ {n + 1}] = r[s \ {n + 1}]
        BY <3>1, <4>1
      <4>4. s # {}
        BY <3>2
      <4> HIDE DEF q
      <4> QED BY <4>1, <4>2, <4>3, <4>4 DEF F
    <3>3. CASE n + 1 \notin s
      <4>1. s \in SUBSET (1 .. n)
        BY <3>3, <2>2
      <4>2. q[s] = r[s] /\ q[s \ {Max(s)}] = r[s \ {Max(s)}]
        BY <3>1, <3>3
      <4>3. r[s] = F(s, r)
        BY <4>1, <2>1
      <4> HIDE DEF q
      <4> QED BY <4>2, <4>3 DEF F
    <3> QED BY <3>2, <3>3
  <2>4. q = [s \in SUBSET D |-> q[s]]
    OBVIOUS
  <2> HIDE DEF q
  <2> QED BY <2>3, <2>4
<1>4. \E r : r = [s \in SUBSET D |-> F(s, r)]
  <2>1. N \in T
    <3> HIDE DEF T
    <3>1. T \in SUBSET Nat
      BY DEF T
    <3>2. T = Nat
      BY <1>2, <1>3, <3>1, Induct
    <3> QED BY <3>2, <1>0
  <2>2. PICK r : r = [s \in SUBSET D |-> r[s]] /\ \A s \in SUBSET D : r[s] = F(s, r)
    <3>1. Solved(N)
      <4> HIDE DEF Solved
      <4> QED BY <2>1, <1>0
    <3> QED BY <3>1
  <2>3. [s \in SUBSET D |-> F(s, r)] = [s \in SUBSET D |-> r[s]]
    BY <2>2
  <2> QED BY <2>2, <2>3
<1> DEFINE iter == CHOOSE r : r = [s \in SUBSET D |-> F(s, r)]
<1>5. FoldLeft(Override, {}, list) = iter[D]
  BY <1>0, Zenon DEF FoldLeft, MapThenFoldSet, F
<1>6. \A s \in SUBSET D : iter[s] = F(s, iter)
  <2>1. iter = [s \in SUBSET D |-> F(s, iter)]
    BY <1>4
  <2> HIDE DEF iter
  <2> QED BY <2>1
<1> HIDE DEF iter
<1> DEFINE U == {n \in Nat : n <= N => iter[1 .. n] = Upto(list, n)}
<1>7. 0 \in U
  <2>1. 1 .. 0 = {} /\ {} \in SUBSET D
    OBVIOUS
  <2>2. iter[1 .. 0] = {}
    BY <2>1, <1>6 DEF F
  <2>3. Upto(list, 0) = {}
    BY DEF Upto
  <2> QED BY <2>2, <2>3
<1>8. ASSUME NEW n \in U PROVE n + 1 \in U
  <2> SUFFICES ASSUME n + 1 <= N PROVE iter[1 .. n + 1] = Upto(list, n + 1)
    OBVIOUS
  <2>1. n \in Nat /\ 1 .. n + 1 \in SUBSET D /\ n + 1 \in 1 .. n + 1 /\ (1 .. n + 1) \ {n + 1} = 1 .. n
    BY <1>0
  <2>2. Max(1 .. n + 1) = n + 1
    BY <2>1, <1>1
  <2>3. iter[1 .. n] = Upto(list, n)
    BY <1>0
  <2>4. iter[1 .. n + 1] = Override(Upto(list, n), list[n + 1])
    <3>1. iter[1 .. n + 1] = F(1 .. n + 1, iter)
      BY <2>1, <1>6
    <3>2. 1 .. n + 1 # {}
      BY <2>1
    <3> QED BY <3>1, <3>2, <2>1, <2>2, <2>3 DEF F
  <2>5. ASSUME NEW k \in 1 .. n
        PROVE  (\A j \in k + 1 .. n + 1 : ~ Subsumes(list[j], list[k]))
               <=> (\A j \in k + 1 .. n : ~ Subsumes(list[j], list[k])) /\ ~ Subsumes(list[n + 1], list[k])
    <3>1. k + 1 .. n + 1 = (k + 1 .. n) \cup {n + 1}
      BY <2>1
    <3> QED BY <3>1
  <2>6. 1 .. n + 1 = (1 .. n) \cup {n + 1} /\ (n + 1) + 1 .. n + 1 = {}
    BY <2>1
  <2>7. Upto(list, n + 1) = {e \in Upto(list, n) : ~ Subsumes(list[n + 1], e)} \cup {list[n + 1]}
    BY <2>5, <2>6 DEF Upto
  <2> QED BY <2>4, <2>7 DEF Override
<1>9. iter[1 .. N] = Upto(list, N)
  <2> HIDE DEF U
  <2>1. U \in SUBSET Nat
    BY DEF U
  <2>2. U = Nat
    BY <1>7, <1>8, <2>1, Induct
  <2>3. N \in U
    BY <2>2, <1>0
  <2> QED BY <2>3, <1>0 DEF U
<1> QED BY <1>5, <1>9 DEF Survivors, N

-----------------------------------------------------------------------------
(* The algebra of rule lists. Kept(rules) are the rules in force; those of  *)
(* two lists in a row are those of the second laid over those of the first, *)
(* and so depend on nothing but what is kept of each.                       *)

(* from_iter drops a glob that does not compile.                            *)
Usable(r) == IsGlobPattern(r.filename) => Compiles(r.filename)

(* What from_iter indexes: the rules that are left and not dropped. *)
Kept(list) == {r \in Survivors(list) : Usable(r)}

(* B laid over A. *)
Over(A, B) == B \cup {e \in A : \A r \in B : ~ Subsumes(r, e)}

(* The rule set of the rules K.                                             *)
Indexed(K) ==
  [exact |-> {r \in K : ~ IsGlobPattern(r.filename)},
   globs |-> Sorted({r \in K : IsGlobPattern(r.filename)},
                    LAMBDA r, q : MoreSpecific(r.filename, q.filename))]

(* Survivors, and that no two of them have the same pattern.                *)
LEMMA SurvivorsAre ==
  ASSUME NEW list \in Seq(GuardRule)
  PROVE  /\ Survivors(list) \in SUBSET GuardRule
         /\ IsFiniteSet(Survivors(list))
         /\ Distinct(Survivors(list))
         /\ \A r : r \in Survivors(list) <=>
              \E k \in DOMAIN list : /\ r = list[k]
                                      /\ \A j \in DOMAIN list : j > k => ~ Subsumes(list[j], list[k])
<1> DEFINE I == {k \in 1 .. Len(list) : \A j \in k + 1 .. Len(list) : ~ Subsumes(list[j], list[k])}
           f == [k \in I |-> list[k]]
           S == Survivors(list)
<1>1. S = {list[k] : k \in I}
  BY DEF Survivors, Upto
<1>2. \A k \in 1 .. Len(list) : k \in I <=> \A j \in DOMAIN list : j > k => ~ Subsumes(list[j], list[k])
  <2> SUFFICES ASSUME NEW k \in 1 .. Len(list)
               PROVE  k \in I <=> \A j \in DOMAIN list : j > k => ~ Subsumes(list[j], list[k])
    OBVIOUS
  <2>1. \A j : j \in k + 1 .. Len(list) <=> j \in DOMAIN list /\ j > k
    OBVIOUS
  <2> QED BY <2>1
<1>3. I \in SUBSET (1 .. Len(list))
  OBVIOUS
<1> HIDE DEF I
<1>4. S \in SUBSET GuardRule
  BY <1>1, <1>3
<1>5. IsFiniteSet(S)
  <2>1. IsFiniteSet(1 .. Len(list))
    BY FS_Interval
  <2>2. IsFiniteSet(I)
    BY <2>1, <1>3, FS_Subset
  <2>3. f \in Surjection(I, S)
    BY <1>1 DEF Surjection
  <2> HIDE DEF f, S
  <2> QED BY <2>2, <2>3, FS_Surjection
<1>6. Distinct(S)
  <2> SUFFICES ASSUME NEW i \in I, NEW k \in I, list[i].filename = list[k].filename
               PROVE  list[i] = list[k]
    BY <1>1 DEF Distinct
  <2>1. Subsumes(list[i], list[k]) /\ Subsumes(list[k], list[i])
    BY DEF Subsumes
  <2>2. i \in 1 .. Len(list) /\ k \in 1 .. Len(list)
    BY <1>3
  <2>3. ~(i > k) /\ ~(k > i)
    BY <2>1, <2>2, <1>2
  <2> QED BY <2>2, <2>3
<1>7. DOMAIN list = 1 .. Len(list)
  OBVIOUS
<1>8. \A r : r \in S <=> \E k \in DOMAIN list :
             r = list[k] /\ \A j \in DOMAIN list : j > k => ~ Subsumes(list[j], list[k])
  BY <1>1, <1>2, <1>3, <1>7
<1> QED BY <1>4, <1>5, <1>6, <1>8

(* Of the rules of one pattern there is a last one.                         *)
LEMMA LastOfPattern ==
  ASSUME NEW list \in Seq(GuardRule), NEW j \in DOMAIN list
  PROVE  \E k \in DOMAIN list :
           /\ list[k].filename = list[j].filename
           /\ \A i \in DOMAIN list : i > k => list[i].filename # list[j].filename
<1> DEFINE T == {k \in DOMAIN list : list[k].filename = list[j].filename}
<1>1. T \in SUBSET Int /\ T # {} /\ Len(list) \in Int /\ \A k \in T : k <= Len(list)
  OBVIOUS
<1>2. PICK k \in T : \A i \in T : i <= k
  <2> HIDE DEF T
  <2> QED BY <1>1, Greatest
<1>3. \A i \in DOMAIN list : i > k => i \notin T
  BY <1>2
<1> QED BY <1>3

(* Nothing but a rule of the same pattern subsumes a glob.                  *)
LEMMA GlobSurvives ==
  ASSUME NEW list \in Seq(GuardRule), NEW j \in DOMAIN list, IsGlobPattern(list[j].filename)
  PROVE  \E r \in Survivors(list) : r.filename = list[j].filename
<1>1. PICK k \in DOMAIN list :
           /\ list[k].filename = list[j].filename
           /\ \A i \in DOMAIN list : i > k => list[i].filename # list[j].filename
  BY LastOfPattern
<1>2. \A i \in DOMAIN list : i > k => ~ Subsumes(list[i], list[k])
  BY <1>1 DEF Subsumes
<1>3. list[k] \in Survivors(list)
  BY <1>2, SurvivorsAre
<1> QED BY <1>1, <1>3

(* What some rule of a list covers, a rule that is kept of the list covers. *)
LEMMA CoverIsKept ==
  ASSUME NEW list \in Seq(GuardRule), NEW j \in DOMAIN list, NEW e, Usable(e), Subsumes(list[j], e)
  PROVE  \E r \in Kept(list) : Subsumes(r, e)
<1>1. CASE IsGlobPattern(e.filename)
  <2>1. list[j].filename = e.filename /\ Compiles(e.filename)
    BY <1>1 DEF Subsumes, Usable
  <2>2. PICK r \in Survivors(list) : r.filename = e.filename
    BY <2>1, <1>1, GlobSurvives
  <2> QED BY <2>1, <2>2 DEF Kept, Usable, Subsumes
<1>2. CASE \E i \in DOMAIN list : IsGlobPattern(list[i].filename) /\ ~ IsGlobPattern(e.filename)
                                  /\ Subsumes(list[i], e)
  <2>1. PICK i \in DOMAIN list : IsGlobPattern(list[i].filename) /\ ~ IsGlobPattern(e.filename)
                                  /\ Subsumes(list[i], e)
    BY <1>2
  <2>2. Compiles(list[i].filename) /\ Matches(list[i].filename, e.filename)
    BY <2>1 DEF Subsumes
  <2>3. PICK r \in Survivors(list) : r.filename = list[i].filename
    BY <2>1, GlobSurvives
  <2> QED BY <2>1, <2>2, <2>3 DEF Kept, Usable, Subsumes
<1>3. CASE ~ IsGlobPattern(e.filename)
           /\ \A i \in DOMAIN list : Subsumes(list[i], e) => ~ IsGlobPattern(list[i].filename)
  <2>1. list[j].filename = e.filename
    BY <1>3 DEF Subsumes
  <2>2. PICK k \in DOMAIN list :
           /\ list[k].filename = list[j].filename
           /\ \A i \in DOMAIN list : i > k => list[i].filename # list[j].filename
    BY LastOfPattern
  <2>3. \A i \in DOMAIN list : i > k => ~ Subsumes(list[i], list[k])
    BY <2>1, <2>2, <1>3 DEF Subsumes
  <2>4. list[k] \in Survivors(list)
    BY <2>3, SurvivorsAre
  <2> QED BY <2>1, <2>2, <2>4, <1>3 DEF Kept, Usable, Subsumes
<1> QED BY <1>1, <1>2, <1>3

(* What is kept of a list is a finite set of usable rules of different      *)
(* patterns.                                                                *)
LEMMA KeptAre ==
  ASSUME NEW list \in Seq(GuardRule)
  PROVE  /\ Kept(list) \in SUBSET GuardRule
         /\ IsFiniteSet(Kept(list))
         /\ Distinct(Kept(list))
         /\ \A r \in Kept(list) : Usable(r)
<1>1. Kept(list) \in SUBSET Survivors(list)
  BY DEF Kept
<1>2. IsFiniteSet(Kept(list))
  BY <1>1, SurvivorsAre, FS_Subset
<1>3. Distinct(Kept(list))
  BY <1>1, SurvivorsAre DEF Distinct
<1> QED BY <1>1, <1>2, <1>3, SurvivorsAre DEF Kept

(* What two lists in a row leave.                                           *)
LEMMA SurvivorsConcat ==
  ASSUME NEW a \in Seq(GuardRule), NEW b \in Seq(GuardRule)
  PROVE  Survivors(a \o b) =
           Survivors(b) \cup {e \in Survivors(a) : \A j \in DOMAIN b : ~ Subsumes(b[j], e)}
<1> DEFINE c == a \o b
           m == Len(a)
           Stays(s, k) == \A j \in DOMAIN s : j > k => ~ Subsumes(s[j], s[k])
<1>1. /\ c \in Seq(GuardRule) /\ DOMAIN c = 1 .. m + Len(b) /\ m \in Nat /\ Len(b) \in Nat
      /\ DOMAIN a = 1 .. m /\ DOMAIN b = 1 .. Len(b)
      /\ \A k \in DOMAIN a : k \in DOMAIN c /\ c[k] = a[k]
      /\ \A k \in DOMAIN b : m + k \in DOMAIN c /\ c[m + k] = b[k]
  OBVIOUS
<1>2. \A k \in DOMAIN c : k \in DOMAIN a \/ k - m \in DOMAIN b
  BY <1>1
<1> HIDE DEF c, m
<1>3. ASSUME NEW k \in DOMAIN a PROVE Stays(c, k) <=> Stays(a, k) /\ \A j \in DOMAIN b : ~ Subsumes(b[j], a[k])
  <2>1. ASSUME Stays(c, k), NEW j \in DOMAIN a, j > k PROVE ~ Subsumes(a[j], a[k])
    BY <2>1, <1>1
  <2>2. ASSUME Stays(c, k), NEW j \in DOMAIN b PROVE ~ Subsumes(b[j], a[k])
    <3>1. m + j > k
      BY <1>1
    <3> QED BY <2>2, <3>1, <1>1
  <2>3. ASSUME Stays(a, k), \A j \in DOMAIN b : ~ Subsumes(b[j], a[k]), NEW j \in DOMAIN c, j > k
        PROVE  ~ Subsumes(c[j], c[k])
    <3>1. CASE j \in DOMAIN a
      BY <3>1, <2>3, <1>1
    <3>2. CASE j - m \in DOMAIN b
      <4>1. m + (j - m) = j
        BY <1>1
      <4> QED BY <3>2, <4>1, <2>3, <1>1
    <3> QED BY <3>1, <3>2, <1>2
  <2> QED BY <2>1, <2>2, <2>3
<1>4. ASSUME NEW k \in DOMAIN b PROVE Stays(c, m + k) <=> Stays(b, k)
  <2>1. ASSUME Stays(c, m + k), NEW j \in DOMAIN b, j > k PROVE ~ Subsumes(b[j], b[k])
    <3>1. m + j > m + k
      BY <2>1, <1>1
    <3> QED BY <2>1, <3>1, <1>1
  <2>2. ASSUME Stays(b, k), NEW j \in DOMAIN c, j > m + k PROVE ~ Subsumes(c[j], c[m + k])
    <3>1. j - m \in DOMAIN b /\ m + (j - m) = j /\ j - m > k
      BY <2>2, <1>1
    <3>2. ~ Subsumes(b[j - m], b[k])
      BY <3>1, <2>2
    <3> QED BY <3>1, <3>2, <1>1
  <2> QED BY <2>1, <2>2
<1> HIDE DEF Stays
<1>5. \A s \in Seq(GuardRule) : \A r : r \in Survivors(s) <=> \E k \in DOMAIN s : r = s[k] /\ Stays(s, k)
  BY SurvivorsAre DEF Stays
<1>6. ASSUME NEW r \in Survivors(c)
      PROVE  r \in Survivors(b) \cup {e \in Survivors(a) : \A j \in DOMAIN b : ~ Subsumes(b[j], e)}
  <2>1. PICK k \in DOMAIN c : r = c[k] /\ Stays(c, k)
    BY <1>1, <1>5
  <2>2. CASE k \in DOMAIN a
    BY <2>1, <2>2, <1>1, <1>3, <1>5
  <2>3. CASE k - m \in DOMAIN b
    <3>1. m + (k - m) = k
      BY <1>1
    <3> QED BY <2>1, <2>3, <3>1, <1>1, <1>4, <1>5
  <2> QED BY <2>2, <2>3, <1>2
<1>7. ASSUME NEW r \in Survivors(b) PROVE r \in Survivors(c)
  <2>1. PICK k \in DOMAIN b : r = b[k] /\ Stays(b, k)
    BY <1>5
  <2> QED BY <2>1, <1>1, <1>4, <1>5
<1>8. ASSUME NEW r \in Survivors(a), \A j \in DOMAIN b : ~ Subsumes(b[j], r) PROVE r \in Survivors(c)
  <2>1. PICK k \in DOMAIN a : r = a[k] /\ Stays(a, k)
    BY <1>5
  <2> QED BY <2>1, <1>8, <1>1, <1>3, <1>5
<1> QED BY <1>6, <1>7, <1>8 DEF c

(* The rules kept of two lists in a row depend on those kept of each. *)
LEMMA KeptConcat ==
  ASSUME NEW a \in Seq(GuardRule), NEW b \in Seq(GuardRule)
  PROVE  Kept(a \o b) = Over(Kept(a), Kept(b))
<1>1. ASSUME NEW e, Usable(e)
      PROVE  (\A j \in DOMAIN b : ~ Subsumes(b[j], e)) <=> (\A r \in Kept(b) : ~ Subsumes(r, e))
  <2>1. ASSUME NEW j \in DOMAIN b, Subsumes(b[j], e) PROVE \E r \in Kept(b) : Subsumes(r, e)
    BY <1>1, <2>1, CoverIsKept
  <2>2. \A r \in Kept(b) : \E j \in DOMAIN b : r = b[j]
    BY SurvivorsAre DEF Kept
  <2> QED BY <2>1, <2>2
<1>2. \A e \in Kept(a) : Usable(e)
  BY DEF Kept
<1> QED BY <1>1, <1>2, SurvivorsConcat DEF Kept, Over

(* A rule set depends on what is kept of the list it is made from.          *)
LEMMA FromIterIndexes ==
  ASSUME NEW list \in Seq(GuardRule)
  PROVE  FromIter(list) = Indexed(Kept(list))
<1> DEFINE S == Survivors(list)
           G(T) == Sorted(T, LAMBDA r, q : MoreSpecific(r.filename, q.filename))
<1>1. {r \in S : ~ IsGlobPattern(r.filename)} = {r \in Kept(list) : ~ IsGlobPattern(r.filename)}
  BY DEF Kept, Usable
<1>2. {r \in S : IsGlobPattern(r.filename) /\ Compiles(r.filename)}
      = {r \in Kept(list) : IsGlobPattern(r.filename)}
  BY DEF Kept, Usable
<1>3. FromIter(list) = [exact |-> {r \in S : ~ IsGlobPattern(r.filename)},
                         globs |-> G({r \in S : IsGlobPattern(r.filename) /\ Compiles(r.filename)})]
  BY FoldKeepsSurvivors, Zenon DEF FromIter
<1>4. Indexed(Kept(list)) = [exact |-> {r \in Kept(list) : ~ IsGlobPattern(r.filename)},
                              globs |-> G({r \in Kept(list) : IsGlobPattern(r.filename)})]
  BY Zenon DEF Indexed
<1> HIDE DEF G
<1> QED BY <1>1, <1>2, <1>3, <1>4

-----------------------------------------------------------------------------
(* A rule set enumerated and folded again, Config::merge as a fold over     *)
(* both lists, and the rules of layers in a row.                            *)

(* An enumeration of rules that do not subsume each other is kept whole.    *)
LEMMA EnumerationKept ==
  ASSUME NEW S \in SUBSET GuardRule, NEW seq, Enumerates(seq, S),
         \A r \in S : Usable(r), \A r, e \in S : Subsumes(r, e) => r = e
  PROVE  seq \in Seq(GuardRule) /\ Kept(seq) = S
<1>1. seq \in Seq(S) /\ seq \in Seq(GuardRule) /\ \A i \in DOMAIN seq : seq[i] \in S
  BY DEF Enumerates
<1>2. \A k, j \in DOMAIN seq : j > k => ~ Subsumes(seq[j], seq[k])
  <2> SUFFICES ASSUME NEW k \in DOMAIN seq, NEW j \in DOMAIN seq, j > k, Subsumes(seq[j], seq[k]) PROVE FALSE
    OBVIOUS
  <2>1. seq[j] = seq[k]
    BY <1>1
  <2>2. j = k
    BY <2>1 DEF Enumerates
  <2> QED BY <2>2, <1>1
<1>3. \A r : r \in Survivors(seq) <=> \E k \in DOMAIN seq : r = seq[k]
  BY <1>1, <1>2, SurvivorsAre
<1>4. \A r \in S : \E k \in DOMAIN seq : r = seq[k]
  BY DEF Enumerates
<1> QED BY <1>1, <1>3, <1>4 DEF Kept

(* An enumeration backwards is one.                                         *)
LEMMA ReverseEnumerates ==
  ASSUME NEW S, NEW seq, Enumerates(seq, S)
  PROVE  Enumerates(Reverse(seq), S)
<1> DEFINE n == Len(seq)
           rev == Reverse(seq)
<1>1. n \in Nat /\ DOMAIN seq = 1 .. n /\ \A i \in 1 .. n : seq[i] \in S
  BY DEF Enumerates
<1>2. rev = [i \in 1 .. n |-> seq[(n - i) + 1]]
  BY DEF Reverse
<1> HIDE DEF n, rev
<1>3. \A i \in 1 .. n : (n - i) + 1 \in 1 .. n /\ (n - ((n - i) + 1)) + 1 = i
  BY <1>1
<1>4. rev \in Seq(S) /\ DOMAIN rev = 1 .. n /\ \A i \in 1 .. n : rev[i] = seq[(n - i) + 1]
  <2>1. rev \in [1 .. n -> S]
    BY <1>1, <1>2, <1>3
  <2> QED BY <2>1, <1>1, <1>2
<1>5. ASSUME NEW x \in S PROVE \E i \in DOMAIN rev : rev[i] = x
  <2>1. PICK k \in 1 .. n : seq[k] = x
    BY <1>1 DEF Enumerates
  <2>2. (n - k) + 1 \in 1 .. n /\ rev[(n - k) + 1] = x
    BY <2>1, <1>3, <1>4
  <2> QED BY <2>2, <1>4
<1>6. ASSUME NEW i \in 1 .. n, NEW j \in 1 .. n, rev[i] = rev[j] PROVE i = j
  <2>1. (n - i) + 1 = (n - j) + 1
    <3>1. seq[(n - i) + 1] = seq[(n - j) + 1] /\ (n - i) + 1 \in DOMAIN seq /\ (n - j) + 1 \in DOMAIN seq
      BY <1>1, <1>3, <1>4, <1>6
    <3>2. \A k, l \in DOMAIN seq : seq[k] = seq[l] => k = l
      BY DEF Enumerates
    <3> QED BY <3>1, <3>2
  <2> QED BY <2>1, <1>1
<1> QED BY <1>4, <1>5, <1>6 DEF Enumerates, rev

(* A rule set is enumerated so that folding it again keeps all of it. *)
LEMMA IntoIterKeeps ==
  ASSUME NEW list \in Seq(GuardRule)
  PROVE  IntoIter(FromIter(list)) \in Seq(GuardRule) /\ Kept(IntoIter(FromIter(list))) = Kept(list)
<1> DEFINE K == Kept(list)
           G == {r \in K : IsGlobPattern(r.filename)}
           X == {r \in K : ~ IsGlobPattern(r.filename)}
           g == Sorted(G, LAMBDA r, q : MoreSpecific(r.filename, q.filename))
           x == Sorted(X, LAMBDA r, q : LexLess(r.filename, q.filename))
           rs == FromIter(list)
<1>1. /\ K \in SUBSET GuardRule /\ IsFiniteSet(K) /\ Distinct(K) /\ \A r \in K : Usable(r)
  BY KeptAre
<1> HIDE DEF K
<1>2. /\ G \in SUBSET K /\ G \in SUBSET GuardRule /\ X \in SUBSET K /\ X \in SUBSET GuardRule
      /\ Distinct(G) /\ Distinct(X)
  BY <1>1 DEF Distinct
<1>3. IsFiniteSet(G) /\ IsFiniteSet(X)
  <2> HIDE DEF G, X
  <2> QED BY <1>1, <1>2, FS_Subset
<1>4. rs = [exact |-> X, globs |-> g]
  BY FromIterIndexes, Zenon DEF Indexed, K
<1>5. Enumerates(g, G) /\ Enumerates(x, X)
  <2> HIDE DEF G, X
  <2>1. Enumerates(g, G)
    BY <1>2, <1>3, GlobsEnumerated, Zenon
  <2>2. Enumerates(x, X)
    BY <1>2, <1>3, ExactEnumerated, Zenon
  <2> QED BY <2>1, <2>2
<1>6. IntoIter(rs) = Reverse(g) \o x
  <2>1. rs.exact = X /\ rs.globs = g
    <3> HIDE DEF g, X, rs
    <3> QED BY <1>4
  <2> HIDE DEF rs
  <2>2. IntoIter(rs) = Reverse(rs.globs) \o Sorted(rs.exact, LAMBDA r, q : LexLess(r.filename, q.filename))
    BY Zenon DEF IntoIter
  <2> QED BY <2>1, <2>2, Zenon
<1> HIDE DEF g, x, rs
<1>7. \A r, e \in G : Subsumes(r, e) => r = e
  BY <1>2 DEF Subsumes, Distinct
<1>8. \A r, e \in X : Subsumes(r, e) => r = e
  BY <1>2 DEF Subsumes, Distinct
<1>9. \A r \in X : \A e \in G : ~ Subsumes(r, e)
  BY DEF Subsumes
<1>10. K = G \cup X
  OBVIOUS
<1> HIDE DEF G, X
<1>11. Reverse(g) \in Seq(GuardRule) /\ Kept(Reverse(g)) = G
  BY <1>1, <1>2, <1>5, <1>7, ReverseEnumerates, EnumerationKept
<1>12. x \in Seq(GuardRule) /\ Kept(x) = X
  BY <1>1, <1>2, <1>5, <1>8, EnumerationKept
<1>13. Reverse(g) \o x \in Seq(GuardRule) /\ Kept(Reverse(g) \o x) = Over(G, X)
  BY <1>11, <1>12, KeptConcat
<1>14. Over(G, X) = K
  BY <1>9, <1>10 DEF Over
<1> QED BY <1>6, <1>13, <1>14 DEF K, rs

(* Config::merge is a fold over both lists as they were written. *)
LEMMA MergeFolds ==
  ASSUME NEW a \in Seq(GuardRule), NEW b \in Seq(GuardRule)
  PROVE  Merge(FromIter(a), b) = FromIter(a \o b)
<1> DEFINE ia == IntoIter(FromIter(a))
           ib == IntoIter(FromIter(b))
<1>1. ia \in Seq(GuardRule) /\ ib \in Seq(GuardRule) /\ Kept(ia) = Kept(a) /\ Kept(ib) = Kept(b)
  BY IntoIterKeeps
<1>2. Merge(FromIter(a), b) = FromIter(ia \o ib)
  BY DEF Merge
<1> HIDE DEF ia, ib
<1>3. ia \o ib \in Seq(GuardRule) /\ a \o b \in Seq(GuardRule)
  BY <1>1
<1>4. Kept(ia \o ib) = Kept(a \o b)
  BY <1>1, KeptConcat
<1> QED BY <1>2, <1>3, <1>4, FromIterIndexes

(* FlattenSeq, of the library, one layer more. *)
LEMMA FlattenIs ==
  ASSUME NEW S, NEW seqs \in Seq(Seq(S))
  PROVE  \E f : /\ \A i \in 1 .. Len(seqs) : f[i] = IF i = 1 THEN seqs[i] ELSE f[i - 1] \o seqs[i]
                /\ Len(seqs) # 0 => FlattenSeq(seqs) = f[Len(seqs)]
<1> DEFINE N == Len(seqs)
           F(i, r) == IF i = 1 THEN seqs[i] ELSE r[i - 1] \o seqs[i]
           Solved(n) == \E r : r = [i \in 1 .. N |-> r[i]] /\ \A i \in 1 .. N : i <= n => r[i] = F(i, r)
           T == {n \in Nat : n <= N => Solved(n)}
<1>0. N \in Nat
  OBVIOUS
<1> HIDE DEF N
<1>1. 0 \in T
  <2>1. \A i \in 1 .. N : ~(i <= 0)
    BY <1>0
  <2>2. Solved(0)
    <3> DEFINE r == [i \in 1 .. N |-> 0]
    <3>1. r = [i \in 1 .. N |-> r[i]]
      OBVIOUS
    <3> HIDE DEF r
    <3> QED BY <3>1, <2>1
  <2> HIDE DEF Solved
  <2> QED BY <2>2
<1>2. ASSUME NEW n \in T PROVE n + 1 \in T
  <2> SUFFICES ASSUME n + 1 <= N PROVE Solved(n + 1)
    <3> HIDE DEF Solved
    <3> QED OBVIOUS
  <2>0. Solved(n)
    <3> HIDE DEF Solved
    <3> QED BY <1>0
  <2>1. PICK r : r = [i \in 1 .. N |-> r[i]] /\ \A i \in 1 .. N : i <= n => r[i] = F(i, r)
    BY <2>0
  <2> DEFINE q == [i \in 1 .. N |-> IF i = n + 1 THEN F(i, r) ELSE r[i]]
  <2>2. n \in Nat /\ n + 1 \in 1 .. N
    BY <1>0
  <2>3. \A i \in 1 .. N : i # n + 1 => q[i] = r[i]
    OBVIOUS
  <2>4. q[n + 1] = F(n + 1, r)
    BY <2>2
  <2>5. q = [i \in 1 .. N |-> q[i]]
    OBVIOUS
  <2> HIDE DEF q
  <2>6. ASSUME NEW i \in 1 .. N, i <= n + 1 PROVE q[i] = F(i, r) /\ F(i, q) = F(i, r)
    <3>1. q[i] = F(i, r)
      <4>1. i = n + 1 \/ i <= n
        BY <2>2, <2>6
      <4> QED BY <4>1, <2>1, <2>2, <2>3, <2>4
    <3>2. CASE i = 1
      BY <3>1, <3>2
    <3>3. CASE i # 1
      <4>1. i - 1 \in 1 .. N /\ i - 1 # n + 1
        BY <3>3, <2>2, <2>6, <1>0
      <4> QED BY <3>1, <3>3, <4>1, <2>3
    <3> QED BY <3>2, <3>3
  <2> HIDE DEF F
  <2>7. \A i \in 1 .. N : i <= n + 1 => q[i] = F(i, q)
    BY <2>6
  <2> QED BY <2>5, <2>7
<1>3. N \in T
  <2> HIDE DEF T
  <2>1. T \in SUBSET Nat
    BY DEF T
  <2>2. T = Nat
    BY <1>1, <1>2, <2>1, Induct
  <2> QED BY <2>2, <1>0
<1>4. \E r : r = [i \in 1 .. N |-> F(i, r)]
  <2>1. Solved(N)
    <3> HIDE DEF Solved
    <3> QED BY <1>3, <1>0
  <2>2. PICK r : r = [i \in 1 .. N |-> r[i]] /\ \A i \in 1 .. N : i <= N => r[i] = F(i, r)
    BY <2>1
  <2>3. \A i \in 1 .. N : r[i] = F(i, r)
    <3>1. \A i \in 1 .. N : i <= N
      BY <1>0
    <3> HIDE DEF F
    <3> QED BY <2>2, <3>1
  <2> HIDE DEF F
  <2>4. [i \in 1 .. N |-> F(i, r)] = [i \in 1 .. N |-> r[i]]
    BY <2>3
  <2> QED BY <2>2, <2>4
<1> DEFINE f == CHOOSE r : r = [i \in 1 .. N |-> F(i, r)]
<1>5. Len(seqs) # 0 => FlattenSeq(seqs) = f[N]
  BY Zenon DEF FlattenSeq, N
<1>6. \A i \in 1 .. N : f[i] = F(i, f)
  <2> HIDE DEF F
  <2>1. f = [i \in 1 .. N |-> F(i, f)]
    BY <1>4
  <2> HIDE DEF f
  <2> QED BY <2>1
<1> HIDE DEF f
<1> QED BY <1>5, <1>6 DEF N

(* One sequence more is appended to the whole.                              *)
LEMMA FlattenAppend ==
  ASSUME NEW S, NEW seqs \in Seq(Seq(S)), NEW last \in Seq(S)
  PROVE  /\ FlattenSeq(seqs) \in Seq(S)
         /\ FlattenSeq(Append(seqs, last)) = FlattenSeq(seqs) \o last
<1> DEFINE more == Append(seqs, last)
           N == Len(seqs)
<1>0. /\ N \in Nat /\ more \in Seq(Seq(S)) /\ Len(more) = N + 1 /\ more[N + 1] = last
      /\ \A i \in 1 .. N : more[i] = seqs[i] /\ seqs[i] \in Seq(S)
  OBVIOUS
<1>1. PICK f : /\ \A i \in 1 .. Len(seqs) : f[i] = IF i = 1 THEN seqs[i] ELSE f[i - 1] \o seqs[i]
               /\ Len(seqs) # 0 => FlattenSeq(seqs) = f[Len(seqs)]
  BY FlattenIs
<1> HIDE DEF more
<1>2. PICK h : /\ \A i \in 1 .. Len(more) : h[i] = IF i = 1 THEN more[i] ELSE h[i - 1] \o more[i]
               /\ Len(more) # 0 => FlattenSeq(more) = h[Len(more)]
  BY <1>0, FlattenIs
<1>3. FlattenSeq(more) = h[N + 1]
  BY <1>0, <1>2
<1>4. CASE N = 0
  <2>1. seqs = << >> /\ FlattenSeq(seqs) = << >>
    BY <1>4 DEF FlattenSeq
  <2>2. h[1] = last
    BY <1>0, <1>2, <1>4
  <2>3. FlattenSeq(more) = last
    BY <2>2, <1>3, <1>4
  <2>4. << >> \in Seq(S) /\ << >> \o last = last
    OBVIOUS
  <2> QED BY <2>1, <2>3, <2>4 DEF more
<1>5. CASE N # 0
  <2> HIDE DEF N
  <2> DEFINE Same(n) == f[n + 1] = h[n + 1] /\ f[n + 1] \in Seq(S)
             T == {n \in Nat : n + 1 <= N => Same(n)}
  <2>0. /\ \A i \in 1 .. N : f[i] = IF i = 1 THEN seqs[i] ELSE f[i - 1] \o seqs[i]
        /\ \A i \in 1 .. N + 1 : h[i] = IF i = 1 THEN more[i] ELSE h[i - 1] \o more[i]
        /\ FlattenSeq(seqs) = f[N]
    BY <1>0, <1>1, <1>2, <1>5 DEF N
  <2>1. 0 \in T
    <3>1. 1 \in 1 .. N /\ 1 \in 1 .. N + 1 /\ 0 + 1 = 1
      BY <1>0, <1>5
    <3>2. Same(0)
      BY <3>1, <2>0, <1>0
    <3> HIDE DEF Same
    <3> QED BY <3>2
  <2>2. ASSUME NEW n \in T PROVE n + 1 \in T
    <3> SUFFICES ASSUME (n + 1) + 1 <= N PROVE Same(n + 1)
      <4> HIDE DEF Same
      <4> QED OBVIOUS
    <3>1. n + 1 <= N /\ (n + 1) + 1 \in 1 .. N /\ (n + 1) + 1 \in 1 .. N + 1 /\ (n + 1) + 1 # 1
          /\ ((n + 1) + 1) - 1 = n + 1
      BY <1>0
    <3>2. Same(n)
      <4> HIDE DEF Same
      <4> QED BY <3>1
    <3>3. f[(n + 1) + 1] = f[n + 1] \o seqs[(n + 1) + 1] /\ h[(n + 1) + 1] = h[n + 1] \o more[(n + 1) + 1]
      BY <3>1, <2>0
    <3>4. seqs[(n + 1) + 1] \in Seq(S) /\ more[(n + 1) + 1] = seqs[(n + 1) + 1]
      BY <3>1, <1>0
    <3> HIDE DEF T
    <3> QED BY <3>2, <3>3, <3>4
  <2>3. Same(N - 1)
    <3> HIDE DEF Same
    <3>1. N - 1 \in T
      <4> HIDE DEF T
      <4>1. T \in SUBSET Nat
        BY DEF T
      <4>2. T = Nat
        BY <2>1, <2>2, <4>1, Induct
      <4> QED BY <4>2, <1>0, <1>5
    <3>2. (N - 1) + 1 <= N
      BY <1>0
    <3> QED BY <3>1, <3>2
  <2>4. (N - 1) + 1 = N /\ (N + 1) - 1 = N /\ N + 1 \in 1 .. N + 1 /\ N + 1 # 1
    BY <1>0, <1>5
  <2>5. f[N] = h[N] /\ f[N] \in Seq(S)
    BY <2>3, <2>4
  <2>6. h[N + 1] = h[N] \o last
    BY <2>0, <2>4, <1>0
  <2> QED BY <2>0, <2>5, <2>6, <1>3 DEF more
<1> QED BY <1>4, <1>5

-----------------------------------------------------------------------------
(* What the guard's properties need of the algebra.                         *)

(* A list of rules that is folded in twice is folded in once. *)
LEMMA TwiceIsOnce ==
  ASSUME NEW a \in Seq(GuardRule), NEW b \in Seq(GuardRule)
  PROVE  FromIter((a \o b) \o b) = FromIter(a \o b)
<1>1. a \o b \in Seq(GuardRule) /\ (a \o b) \o b \in Seq(GuardRule)
  OBVIOUS
<1>2. Kept((a \o b) \o b) = Over(Over(Kept(a), Kept(b)), Kept(b)) /\ Kept(a \o b) = Over(Kept(a), Kept(b))
  BY <1>1, KeptConcat
<1>3. \A A, B : Over(Over(A, B), B) = Over(A, B)
  BY DEF Over
<1> QED BY <1>1, <1>2, <1>3, FromIterIndexes

(* What a list begins with is not seen in what is printed of it. *)
LEMMA HeadIsCovered ==
  ASSUME NEW a \in Seq(GuardRule), NEW b \in Seq(GuardRule)
  PROVE  Merge(FromIter(a), IntoIter(FromIter(a \o b))) = FromIter(a \o b)
<1> DEFINE shown == IntoIter(FromIter(a \o b))
<1>1. a \o b \in Seq(GuardRule)
  OBVIOUS
<1>2. shown \in Seq(GuardRule) /\ Kept(shown) = Kept(a \o b)
  BY <1>1, IntoIterKeeps
<1> HIDE DEF shown
<1>3. a \o shown \in Seq(GuardRule) /\ Merge(FromIter(a), shown) = FromIter(a \o shown)
  BY <1>2, MergeFolds
<1>4. Kept(a \o shown) = Over(Kept(a), Over(Kept(a), Kept(b)))
  BY <1>2, KeptConcat
<1>5. \A A, B : Over(A, Over(A, B)) = Over(A, B)
  BY DEF Over
<1>6. Kept(a \o shown) = Kept(a \o b)
  BY <1>4, <1>5, KeptConcat
<1> QED BY <1>1, <1>3, <1>6, FromIterIndexes DEF shown

(* What a rule set is made of. *)
LEMMA FromIterIs ==
  ASSUME NEW list \in Seq(GuardRule)
  PROVE  /\ FromIter(list).exact = {r \in Kept(list) : ~ IsGlobPattern(r.filename)}
         /\ FromIter(list).globs \in Seq({r \in Kept(list) : IsGlobPattern(r.filename)})
<1> DEFINE G == {r \in Kept(list) : IsGlobPattern(r.filename)}
           X == {r \in Kept(list) : ~ IsGlobPattern(r.filename)}
           g == Sorted(G, LAMBDA r, q : MoreSpecific(r.filename, q.filename))
<1>1. G \in SUBSET GuardRule /\ IsFiniteSet(G) /\ Distinct(G)
  <2>1. G \in SUBSET Kept(list)
    OBVIOUS
  <2>2. Kept(list) \in SUBSET GuardRule /\ IsFiniteSet(Kept(list)) /\ Distinct(Kept(list))
    BY KeptAre
  <2> HIDE DEF G
  <2> QED BY <2>1, <2>2, FS_Subset DEF Distinct
<1>2. FromIter(list) = [exact |-> X, globs |-> g]
  BY FromIterIndexes, Zenon DEF Indexed
<1> HIDE DEF G
<1>3. Enumerates(g, G)
  BY <1>1, GlobsEnumerated, Zenon
<1> HIDE DEF g, X
<1>4. FromIter(list).exact = X /\ FromIter(list).globs = g
  BY <1>2
<1> QED BY <1>3, <1>4 DEF Enumerates, X, G

(* The layers that can be merged.                                           *)
AllLayers == Layers \cup {BaseLayer}

(* One layer more appends its rules to those written.                       *)
LEMMA WrittenAppend ==
  ASSUME NEW layers \in Seq(AllLayers), NEW file \in AllLayers
  PROVE  /\ file.rules \in Seq(GuardRule) /\ Written(layers) \in Seq(GuardRule)
         /\ Written(Append(layers, file)) = Written(layers) \o file.rules
<1> DEFINE written(ls) == [i \in DOMAIN ls |-> ls[i].rules]
<1>1. \A l \in AllLayers : l.rules \in Seq(GuardRule)
  BY LayersAssumption DEF AllLayers
<1>2. written(layers) \in Seq(Seq(GuardRule))
  <2>1. written(layers) \in [1 .. Len(layers) -> Seq(GuardRule)] /\ Len(layers) \in Nat
    BY <1>1
  <2> HIDE DEF written
  <2> QED BY <2>1
<1>3. written(Append(layers, file)) = Append(written(layers), file.rules)
  <2> DEFINE more == Append(layers, file)
             w == written(layers)
             n == Len(layers)
  <2>1. /\ n \in Nat /\ DOMAIN layers = 1 .. n /\ DOMAIN more = 1 .. n + 1
        /\ more[n + 1] = file /\ \A i \in 1 .. n : more[i] = layers[i]
    OBVIOUS
  <2>2. DOMAIN w = 1 .. n /\ \A i \in 1 .. n : w[i] = layers[i].rules
    BY <2>1
  <2> HIDE DEF more, w, n
  <2>3. Len(w) = n
    BY <1>2, <2>1, <2>2 DEF w
  <2>4. Append(w, file.rules) = [i \in 1 .. n + 1 |-> IF i = n + 1 THEN file.rules ELSE w[i]]
    <3> HIDE DEF written
    <3> QED BY <1>1, <1>2, <2>1, <2>2, <2>3 DEF w
  <2>5. written(more) = [i \in 1 .. n + 1 |-> more[i].rules]
    BY <2>1
  <2>6. \A i \in 1 .. n + 1 : i # n + 1 => i \in 1 .. n
    BY <2>1
  <2>7. \A i \in 1 .. n + 1 : more[i].rules = IF i = n + 1 THEN file.rules ELSE w[i]
    BY <2>1, <2>2, <2>6
  <2> HIDE DEF written
  <2> QED BY <2>4, <2>5, <2>7 DEF more, w
<1>4. Written(layers) = FlattenSeq(written(layers))
      /\ Written(Append(layers, file)) = FlattenSeq(written(Append(layers, file)))
  BY Zenon DEF Written
<1> HIDE DEF written
<1> QED BY <1>1, <1>2, <1>3, <1>4, FlattenAppend

(* No layer, no rules.                                                      *)
LEMMA WrittenEmpty == Written(<< >>) = << >>
<1>1. [i \in DOMAIN << >> |-> << >>[i].rules] = << >>
  OBVIOUS
<1> DEFINE e == [i \in DOMAIN << >> |-> << >>[i].rules]
<1>2. Written(<< >>) = FlattenSeq(e)
  BY Zenon DEF Written
<1>3. e = << >>
  BY <1>1
<1> HIDE DEF e
<1> QED BY <1>2, <1>3 DEF FlattenSeq

-----------------------------------------------------------------------------
(* The invariant of loading and answering.                                  *)

(* The rules are one fold over all that was written, and every switch of    *)
(* the layer merged last is in force.                                       *)
Loaded ==
  /\ merged \in Seq(AllLayers)
  /\ rules = FromIter(Written(merged))
  /\ hooks \in [DOMAIN hooks -> BOOLEAN]
  /\ merged # << >> =>
       \A n \in DOMAIN LastLayer.hooks : n \in DOMAIN hooks /\ hooks[n] = LastLayer.hooks[n]

(* The rules of the base layer were written first.                          *)
BasedOn(layers) ==
  \E rest \in Seq(GuardRule) : Written(layers) = BaseLayer.rules \o rest

(* The base layer is loaded before anything else, and its switches stay.    *)
Based ==
  IF pc = "base" THEN merged = << >> /\ hooks = << >>
  ELSE /\ merged # << >> /\ BasedOn(merged)
       /\ DOMAIN BaseLayer.hooks \subseteq DOMAIN hooks

(* What was answered is what the configuration says, which does not change  *)
(* after it is loaded.                                                      *)
Answered ==
  /\ pc = "served" /\ "path" \in DOMAIN answer =>
       answer.path \in Paths /\ answer.result = Respond(answer.path, answer.isRead)
  /\ pc = "shown" => answer.rules = IntoIter(rules) /\ answer.hooks = hooks

(* The inductive invariant. The repository root's layer is the last one     *)
(* merged when the working directory's turn comes, which is what makes      *)
(* reading it twice a repetition at the end of the list.                    *)
GuardInv ==
  /\ pc \in {"base", "user", "root", "cwd", "ready", "served", "shown"}
  /\ disk \in [{"user", "root", "cwd"} -> Layers \cup {Missing, Malformed}]
  /\ Readable(disk, place)
  /\ Loaded
  /\ Based
  /\ pc = "cwd" /\ HasRoot(place) /\ IsLayer(disk["root"]) => LastLayer = disk["root"]
  /\ Answered
  /\ RereadHarmless

(* A file that is merged is a layer.                                        *)
LEMMA LayersAre ==
  /\ BaseLayer \in AllLayers
  /\ \A f \in Layers \cup {Missing, Malformed} : IsLayer(f) => f \in AllLayers
  /\ \A f \in AllLayers : IsLayer(f) /\ f.hooks \in [DOMAIN f.hooks -> BOOLEAN]
<1>1. ~ IsLayer(Missing) /\ ~ IsLayer(Malformed)
  BY DEF IsLayer, Missing, Malformed
<1> QED BY <1>1, LayersAssumption DEF AllLayers

(* Switches laid over switches.                                             *)
LEMMA OverlayIs ==
  ASSUME NEW old, NEW new, old \in [DOMAIN old -> BOOLEAN], new \in [DOMAIN new -> BOOLEAN]
  PROVE  /\ Overlay(old, new) \in [DOMAIN Overlay(old, new) -> BOOLEAN]
         /\ DOMAIN Overlay(old, new) = DOMAIN old \cup DOMAIN new
         /\ \A n \in DOMAIN new : Overlay(old, new)[n] = new[n]
BY DEF Overlay

(* Lists in a row.                                                          *)
LEMMA ConcatAssociates ==
  ASSUME NEW S, NEW a \in Seq(S), NEW b \in Seq(S), NEW c \in Seq(S)
  PROVE  b \o c \in Seq(S) /\ (a \o b) \o c = a \o (b \o c)
<1> DEFINE l == (a \o b) \o c
           r == a \o (b \o c)
<1>1. /\ a \o b \in Seq(S) /\ b \o c \in Seq(S) /\ l \in Seq(S) /\ r \in Seq(S)
      /\ Len(l) = Len(r)
  OBVIOUS
<1>2. ASSUME NEW i \in 1 .. Len(l) PROVE l[i] = r[i]
  OBVIOUS
<1> HIDE DEF l, r
<1> QED BY <1>1, <1>2

(* merge_layer_at, of a layer,                                              *)
LEMMA LayerMerged ==
  ASSUME Loaded, NEW file \in Layers \cup {Missing, Malformed, BaseLayer}, IsLayer(file), MergeLayerAt(file)
  PROVE  /\ Loaded'
         /\ merged' = Append(merged, file) /\ merged' # << >> /\ LastLayer' = file
         /\ DOMAIN hooks \subseteq DOMAIN hooks' /\ DOMAIN file.hooks \subseteq DOMAIN hooks'
         /\ BasedOn(merged) => BasedOn(merged')
<1>1. file \in AllLayers /\ file.hooks \in [DOMAIN file.hooks -> BOOLEAN]
  BY LayersAre
<1>2. /\ hooks' = Overlay(hooks, file.hooks)
      /\ rules' = Merge(rules, file.rules)
      /\ merged' = Append(merged, file)
  BY Zenon DEF MergeLayerAt
<1>3. merged \in Seq(AllLayers) /\ rules = FromIter(Written(merged))
  BY DEF Loaded
<1>4. merged' \in Seq(AllLayers) /\ merged' # << >> /\ LastLayer' = file
  BY <1>1, <1>2, <1>3 DEF LastLayer
<1>5. /\ file.rules \in Seq(GuardRule) /\ Written(merged) \in Seq(GuardRule)
      /\ Written(merged') = Written(merged) \o file.rules
  BY <1>1, <1>2, <1>3, WrittenAppend
<1>6. rules' = FromIter(Written(merged'))
  BY <1>2, <1>3, <1>5, MergeFolds
<1>7. /\ hooks' \in [DOMAIN hooks' -> BOOLEAN]
      /\ DOMAIN hooks' = DOMAIN hooks \cup DOMAIN file.hooks
      /\ \A n \in DOMAIN file.hooks : hooks'[n] = file.hooks[n]
  <2>1. hooks \in [DOMAIN hooks -> BOOLEAN]
    BY DEF Loaded
  <2>2. /\ Overlay(hooks, file.hooks) \in [DOMAIN Overlay(hooks, file.hooks) -> BOOLEAN]
        /\ DOMAIN Overlay(hooks, file.hooks) = DOMAIN hooks \cup DOMAIN file.hooks
        /\ \A n \in DOMAIN file.hooks : Overlay(hooks, file.hooks)[n] = file.hooks[n]
    BY <1>1, <2>1, OverlayIs
  <2>3. hooks' = Overlay(hooks, file.hooks)
    BY <1>2
  <2> QED BY <2>2, <2>3, Zenon
<1>8. ASSUME BasedOn(merged) PROVE BasedOn(merged')
  <2>1. PICK rest \in Seq(GuardRule) : Written(merged) = BaseLayer.rules \o rest
    BY <1>8 DEF BasedOn
  <2>2. BaseLayer.rules \in Seq(GuardRule)
    BY LayersAssumption
  <2>3. rest \o file.rules \in Seq(GuardRule)
        /\ (BaseLayer.rules \o rest) \o file.rules = BaseLayer.rules \o (rest \o file.rules)
    <3> DEFINE b == BaseLayer.rules
               f == file.rules
    <3>1. b \in Seq(GuardRule) /\ f \in Seq(GuardRule)
      BY <1>5, <2>2
    <3> HIDE DEF b, f
    <3>2. rest \o f \in Seq(GuardRule) /\ (b \o rest) \o f = b \o (rest \o f)
      BY <3>1, ConcatAssociates
    <3> QED BY <3>2 DEF b, f
  <2> QED BY <1>5, <2>1, <2>3 DEF BasedOn
<1>9. Loaded'
  BY <1>4, <1>6, <1>7 DEF Loaded
<1> QED BY <1>2, <1>4, <1>7, <1>8, <1>9

(* and of any file.                                                         *)
LEMMA FileMerged ==
  ASSUME Loaded, NEW file \in Layers \cup {Missing, Malformed}, MergeLayerAt(file)
  PROVE  /\ Loaded'
         /\ merged # << >> => merged' # << >>
         /\ DOMAIN hooks \subseteq DOMAIN hooks'
         /\ BasedOn(merged) => BasedOn(merged')
         /\ IsLayer(file) => LastLayer' = file
<1>1. CASE IsLayer(file)
  BY <1>1, LayerMerged
<1>2. CASE ~ IsLayer(file)
  <2>1. UNCHANGED <<hooks, rules, merged>>
    BY <1>2, Zenon DEF MergeLayerAt
  <2> QED BY <1>2, <2>1 DEF Loaded, LastLayer, BasedOn
<1> QED BY <1>1, <1>2

(* The invariant holds at the start of a run,                               *)
LEMMA GuardInit == Init => GuardInv
<1> SUFFICES ASSUME Init PROVE GuardInv
  OBVIOUS
<1>1. Loaded
  <2>1. merged = << >> /\ hooks = << >> /\ rules = FromIter(<< >>)
    BY DEF Init
  <2>2. Written(merged) = << >> /\ merged \in Seq(AllLayers)
    BY <2>1, WrittenEmpty
  <2>3. hooks \in [DOMAIN hooks -> BOOLEAN]
    BY <2>1
  <2> QED BY <2>1, <2>2, <2>3 DEF Loaded
<1> QED BY <1>1 DEF Init, GuardInv, Based, Answered, RereadHarmless

(* and is kept by every step of it.                                         *)
LEMMA GuardNext == GuardInv /\ [Next]_vars => GuardInv'
<1> SUFFICES ASSUME GuardInv, [Next]_vars PROVE GuardInv'
  OBVIOUS
<1> USE DEF GuardInv
<1>1. CASE LoadBase
  <2>1. pc = "base" /\ pc' = "user" /\ MergeLayerAt(BaseLayer) /\ disk' = disk /\ place' = place
    BY <1>1 DEF LoadBase
  <2>2. IsLayer(BaseLayer) /\ BaseLayer \in AllLayers
    BY LayersAre
  <2>3. /\ Loaded' /\ merged' = Append(merged, BaseLayer) /\ merged' # << >>
        /\ DOMAIN BaseLayer.hooks \subseteq DOMAIN hooks'
    BY <2>1, <2>2, LayerMerged
  <2>4. BasedOn(merged')
    <3>1. merged = << >> /\ merged \in Seq(AllLayers)
      BY <2>1 DEF Based, Loaded
    <3>2. Written(merged') = Written(merged) \o BaseLayer.rules /\ BaseLayer.rules \in Seq(GuardRule)
      BY <2>2, <2>3, <3>1, WrittenAppend
    <3>3. Written(merged') = BaseLayer.rules \o << >> /\ << >> \in Seq(GuardRule)
      BY <3>1, <3>2, WrittenEmpty
    <3> QED BY <3>3 DEF BasedOn
  <2> QED BY <2>1, <2>3, <2>4 DEF Based, Answered, RereadHarmless, Readable
<1>2. CASE LoadUser
  <2>1. pc = "user" /\ pc' = "root" /\ MergeLayerAt(disk["user"]) /\ disk' = disk /\ place' = place
    BY <1>2 DEF LoadUser
  <2>2. disk["user"] \in Layers \cup {Missing, Malformed}
    OBVIOUS
  <2>3. /\ Loaded' /\ DOMAIN hooks \subseteq DOMAIN hooks' /\ (merged # << >> => merged' # << >>)
        /\ (BasedOn(merged) => BasedOn(merged'))
    BY <2>1, <2>2, FileMerged
  <2> QED BY <2>1, <2>3 DEF Based, Answered, RereadHarmless, Readable
<1>3. CASE LoadRoot
  <2>1. pc = "root" /\ pc' = "cwd" /\ disk' = disk /\ place' = place
        /\ IF HasRoot(place) THEN MergeLayerAt(disk["root"]) ELSE UNCHANGED <<hooks, rules, merged>>
    BY <1>3, Zenon DEF LoadRoot
  <2>2. disk["root"] \in Layers \cup {Missing, Malformed}
    OBVIOUS
  <2>3. CASE HasRoot(place)
    <3>1. /\ Loaded' /\ DOMAIN hooks \subseteq DOMAIN hooks' /\ (merged # << >> => merged' # << >>)
          /\ (BasedOn(merged) => BasedOn(merged'))
          /\ (IsLayer(disk["root"]) => LastLayer' = disk["root"])
      BY <2>1, <2>2, <2>3, FileMerged
    <3> QED BY <2>1, <3>1 DEF Based, Answered, RereadHarmless, Readable
  <2>4. CASE ~ HasRoot(place)
    <3>1. UNCHANGED <<hooks, rules, merged>>
      BY <2>1, <2>4
    <3> QED BY <2>1, <2>4, <3>1 DEF Based, BasedOn, Answered, RereadHarmless, Readable, Loaded, LastLayer
  <2> QED BY <2>3, <2>4
<1>4. CASE LoadCwd
  <2>1. pc = "cwd" /\ pc' = "ready" /\ disk' = disk /\ place' = place
        /\ IF place \in {"no_repo", "alias", "below"} THEN MergeLayerAt(disk["cwd"])
           ELSE UNCHANGED <<hooks, rules, merged>>
    BY <1>4, Zenon DEF LoadCwd
  <2>2. disk["cwd"] \in Layers \cup {Missing, Malformed}
    OBVIOUS
  <2>3. CASE place \in {"no_repo", "alias", "below"}
    <3>0. MergeLayerAt(disk["cwd"])
      BY <2>1, <2>3
    <3>1. /\ Loaded' /\ DOMAIN hooks \subseteq DOMAIN hooks' /\ (merged # << >> => merged' # << >>)
          /\ (BasedOn(merged) => BasedOn(merged'))
      BY <3>0, <2>2, FileMerged
    <3>2. RereadHarmless'
      <4> SUFFICES ASSUME place = "alias", IsLayer(disk["cwd"])
                   PROVE  rules' = FromIter(Written(SubSeq(merged', 1, Len(merged') - 1)))
        BY <2>1 DEF RereadHarmless
      <4> DEFINE f == disk["cwd"]
                 front == SubSeq(merged, 1, Len(merged) - 1)
      <4>1. f \in AllLayers /\ LastLayer = f
        BY <2>1, <2>2, LayersAre DEF Readable, HasRoot
      <4>2. merged \in Seq(AllLayers) /\ merged # << >> /\ rules = FromIter(Written(merged))
        BY <2>1 DEF Loaded, Based
      <4>3. merged' = Append(merged, f) /\ Loaded'
        BY <3>0, LayerMerged
      <4>4. front \in Seq(AllLayers) /\ merged = Append(front, f)
            /\ SubSeq(merged', 1, Len(merged') - 1) = merged
        BY <4>1, <4>2, <4>3 DEF LastLayer
      <4> HIDE DEF f, front
      <4>5. /\ Written(merged) = Written(front) \o f.rules
            /\ f.rules \in Seq(GuardRule) /\ Written(front) \in Seq(GuardRule)
        BY <4>1, <4>4, WrittenAppend
      <4>6. Written(merged') = (Written(front) \o f.rules) \o f.rules
        BY <4>1, <4>2, <4>3, <4>5, WrittenAppend
      <4>7. FromIter(Written(merged')) = FromIter(Written(merged))
        BY <4>5, <4>6, TwiceIsOnce
      <4> QED BY <4>3, <4>4, <4>7 DEF Loaded
    <3> QED BY <2>1, <3>1, <3>2 DEF Based, Answered, Readable
  <2>4. CASE place \notin {"no_repo", "alias", "below"}
    <3>1. UNCHANGED <<hooks, rules, merged>>
      BY <2>1, <2>4
    <3> QED BY <2>1, <2>4, <3>1 DEF Based, BasedOn, Answered, RereadHarmless, Readable, Loaded, LastLayer
  <2> QED BY <2>3, <2>4
<1>5. CASE Serve
  <2>1. pc = "ready" /\ pc' = "served" /\ UNCHANGED <<disk, place, hooks, rules, root, merged>>
        /\ \E path \in Paths, isRead \in BOOLEAN :
             answer' = [path |-> path, isRead |-> isRead, result |-> Respond(path, isRead)]
    BY <1>5, Zenon DEF Serve
  <2>2. Loaded' /\ Based' /\ RereadHarmless' /\ Readable(disk, place)'
    BY <2>1 DEF Loaded, LastLayer, Based, BasedOn, RereadHarmless, Readable
  <2>3. PICK path \in Paths, isRead \in BOOLEAN :
             answer' = [path |-> path, isRead |-> isRead, result |-> Respond(path, isRead)]
    BY <2>1
  <2>4. answer'.path = path /\ answer'.isRead = isRead /\ answer'.result = Respond(path, isRead)
    BY <2>3
  <2>5. \A p, i : Respond(p, i)' = Respond(p, i)
    BY <2>1 DEF Respond, RepoRelative, IsHookEnabled
  <2>6. Answered'
    BY <2>1, <2>4, <2>5 DEF Answered
  <2> QED BY <2>1, <2>2, <2>6
<1>6. CASE ServeOther
  <2>1. pc = "ready" /\ pc' = "served" /\ UNCHANGED <<disk, place, hooks, rules, root, merged>>
        /\ \E r : answer' = [result |-> r]
    BY <1>6, Zenon DEF ServeOther
  <2>2. Loaded' /\ Based' /\ RereadHarmless' /\ Readable(disk, place)'
    BY <2>1 DEF Loaded, LastLayer, Based, BasedOn, RereadHarmless, Readable
  <2>3. "path" \notin DOMAIN answer'
    BY <2>1
  <2> QED BY <2>1, <2>2, <2>3 DEF Answered
<1>7. CASE ShowConfig
  <2>1. pc = "ready" /\ pc' = "shown" /\ UNCHANGED <<disk, place, hooks, rules, root, merged>>
        /\ answer' = [result |-> "shown", hooks |-> hooks, rules |-> IntoIter(rules)]
    BY <1>7, Zenon DEF ShowConfig
  <2>2. Loaded' /\ Based' /\ RereadHarmless' /\ Readable(disk, place)'
    BY <2>1 DEF Loaded, LastLayer, Based, BasedOn, RereadHarmless, Readable
  <2>3. answer'.rules = IntoIter(rules) /\ answer'.hooks = hooks
    BY <2>1
  <2> QED BY <2>1, <2>2, <2>3 DEF Answered
<1>8. CASE UNCHANGED vars
  <2>1. pc' = pc /\ UNCHANGED <<disk, place, hooks, rules, root, merged, answer>>
    BY <1>8 DEF vars
  <2>2. LastLayer' = LastLayer /\ Readable(disk, place)'
    BY <2>1 DEF LastLayer, Readable
  <2>3. Loaded' /\ Based'
    BY <2>1, <2>2 DEF Loaded, Based, BasedOn
  <2>4. RereadHarmless'
    BY <2>1, <2>2 DEF RereadHarmless
  <2>5. \A p, i : Respond(p, i)' = Respond(p, i)
    BY <2>1 DEF Respond, RepoRelative, IsHookEnabled
  <2>6. Answered'
    BY <2>1, <2>5 DEF Answered
  <2> QED BY <2>1, <2>2, <2>3, <2>4, <2>6
<1> QED BY <1>1, <1>2, <1>3, <1>4, <1>5, <1>6, <1>7, <1>8 DEF Next

(* GuardInv is an invariant of the configuration and the guard.             *)
LEMMA GuardInvariant == Spec => []GuardInv
BY GuardInit, GuardNext, PTL DEF Spec

-----------------------------------------------------------------------------
(* The theorems about the configuration and the guard.                      *)

(* For any layers of any length, merging them one by one (Config::merge)    *)
(* gives the rule set that one fold over all their rules as written gives.  *)
THEOREM LayersFoldAsOne == Spec => []MergeIsOneFold
<1>1. GuardInv => MergeIsOneFold
  BY DEF GuardInv, Loaded, MergeIsOneFold
<1> QED BY <1>1, GuardInvariant, PTL

(* Whatever the layers hold, a repository root that is read again as the    *)
(* working directory changes no rule.                                       *)
THEOREM RereadChangesNothing == Spec => []RereadHarmless
<1>1. GuardInv => RereadHarmless
  BY DEF GuardInv
<1> QED BY <1>1, GuardInvariant, PTL

(* Whatever the layers hold, what `inceptool config` prints, loaded over    *)
(* the embedded base, is the configuration it was printed from.             *)
THEOREM PrintedConfigReloads == Spec => []ShownConfigReloads
<1>1. ASSUME GuardInv PROVE ShownConfigReloads
  <2> SUFFICES ASSUME pc = "shown"
               PROVE  /\ Merge(FromIter(BaseLayer.rules), answer.rules) = rules
                      /\ Overlay(BaseLayer.hooks, answer.hooks) = hooks
    BY DEF ShownConfigReloads
  <2>1. /\ answer.rules = IntoIter(rules) /\ answer.hooks = hooks
        /\ rules = FromIter(Written(merged)) /\ hooks \in [DOMAIN hooks -> BOOLEAN]
        /\ BasedOn(merged) /\ DOMAIN BaseLayer.hooks \subseteq DOMAIN hooks
    BY <1>1 DEF GuardInv, Answered, Based, Loaded
  <2>2. Merge(FromIter(BaseLayer.rules), IntoIter(rules)) = rules
    <3>1. PICK rest \in Seq(GuardRule) : Written(merged) = BaseLayer.rules \o rest
      BY <2>1 DEF BasedOn
    <3>2. BaseLayer.rules \in Seq(GuardRule)
      BY LayersAssumption
    <3> QED BY <2>1, <3>1, <3>2, HeadIsCovered
  <2>3. Overlay(BaseLayer.hooks, hooks) = hooks
    <3>1. Overlay(BaseLayer.hooks, hooks) = [n \in DOMAIN hooks |-> hooks[n]]
      BY <2>1 DEF Overlay
    <3> QED BY <2>1, <3>1
  <2> QED BY <2>1, <2>2, <2>3
<1> QED BY <1>1, GuardInvariant, PTL

(* The rules in force are rules that are kept of all that is written. *)
LEMMA AllRulesKept ==
  ASSUME Loaded
  PROVE  /\ Written(merged) \in Seq(GuardRule)
         /\ rules.exact = {r \in Kept(Written(merged)) : ~ IsGlobPattern(r.filename)}
         /\ rules.exact \in SUBSET GuardRule /\ Distinct(rules.exact)
         /\ rules.globs \in Seq(GuardRule) /\ DOMAIN rules.globs = 1 .. Len(rules.globs)
<1>1. merged \in Seq(AllLayers) /\ rules = FromIter(Written(merged)) /\ BaseLayer \in AllLayers
  BY DEF Loaded, AllLayers
<1>2. Written(merged) \in Seq(GuardRule)
  BY <1>1, WrittenAppend
<1>3. /\ rules.exact = {r \in Kept(Written(merged)) : ~ IsGlobPattern(r.filename)}
      /\ rules.globs \in Seq({r \in Kept(Written(merged)) : IsGlobPattern(r.filename)})
  BY <1>1, <1>2, FromIterIs
<1>4. Kept(Written(merged)) \in SUBSET GuardRule /\ Distinct(Kept(Written(merged)))
  BY <1>2, KeptAre
<1> QED BY <1>2, <1>3, <1>4 DEF Distinct

(* What answers for a file is the exact rule of its name, a glob that        *)
(* applies, or nothing.                                                      *)
LEMMA GetIs ==
  ASSUME NEW path, Loaded
  PROVE  \/ /\ Get(rules, path) \in rules.exact /\ Get(rules, path).filename = Basename(path)
         \/ /\ \A r \in rules.exact : r.filename # Basename(path)
            /\ \E i \in DOMAIN rules.globs :
                 Applies(rules.globs[i], path) /\ Get(rules, path) = rules.globs[i]
         \/ /\ \A r \in rules.exact : r.filename # Basename(path)
            /\ Get(rules, path) = NoRule
<1> DEFINE S == {r \in rules.exact : r.filename = Basename(path)}
           I == {k \in 1 .. Len(rules.globs) : Applies(rules.globs[k], path)}
           g == IF I # {} THEN Min(I) ELSE 0
<1>1. Get(rules, path) = IF S # {} THEN CHOOSE r \in S : TRUE ELSE IF g # 0 THEN rules.globs[g] ELSE NoRule
  BY Zenon DEF Get, SelectInSeq
<1>2. CASE S # {}
  <2>1. Get(rules, path) \in S
    <3> HIDE DEF S
    <3> QED BY <1>1, <1>2
  <2> QED BY <2>1
<1>3. CASE S = {}
  <2>1. DOMAIN rules.globs = 1 .. Len(rules.globs)
    BY AllRulesKept
  <2>2. CASE I # {}
    <3>1. I \in SUBSET Nat /\ 0 \notin I
      BY <2>1
    <3>2. Min(I) \in I
      <4> HIDE DEF I
      <4>1. PICK x \in I : \A y \in I : ~(y < x)
        BY <2>2, <3>1, Least
      <4>2. \A y \in I : x <= y
        BY <3>1, <4>1
      <4> QED BY <4>1, <4>2, Zenon DEF Min
    <3>3. Get(rules, path) = rules.globs[Min(I)]
      <4> HIDE DEF S, I
      <4> QED BY <1>1, <1>3, <2>2, <3>1, <3>2
    <3> QED BY <1>3, <2>1, <3>2, <3>3
  <2>3. CASE I = {}
    <3> HIDE DEF S, I
    <3>1. Get(rules, path) = NoRule
      BY <1>1, <1>3, <2>3
    <3> QED BY <1>3, <3>1 DEF S
  <2> QED BY <2>2, <2>3
<1> QED BY <1>2, <1>3

(* repo_relative of a path below the root, of its absolute path, and of a   *)
(* path that only begins like the root.                                     *)
LEMMA BelowRoot ==
  ASSUME NEW path \in Paths
  PROVE  /\ RepoRelative(path) = path
         /\ root => RepoRelative(RootPath \o <<"/">> \o path) = path
         /\ RepoRelative(RootPath \o path) = RootPath \o path
<1> DEFINE C == Letters \cup {"/"}
           n == Len(RootPath)
           full == RootPath \o <<"/">> \o path
           joint == RootPath \o path
<1>1. /\ path \in Seq(C) /\ path # << >> /\ path[1] # "/"
      /\ RootPath \in Seq(C) /\ n \in Nat /\ n >= 1 /\ RootPath[1] = "/"
  BY PathsAssumption
<1> HIDE DEF C
<1>2. /\ full \in Seq(C \cup {"/"}) /\ Len(full) = n + 1 + Len(path) /\ Len(path) \in Nat /\ Len(path) >= 1
      /\ SubSeq(full, 1, n) = SubSeq(RootPath, 1, n) /\ full[n + 1] = "/"
      /\ SubSeq(full, n + 2, Len(full)) = path
  BY <1>1
<1>3. joint[n + 1] = path[1] /\ Len(joint) = n + Len(path) /\ Len(joint) # n
  BY <1>1, <1>2
<1>4. ~ IsPrefix(RootPath, path)
  <2> SUFFICES ASSUME IsPrefix(RootPath, path) PROVE FALSE
    OBVIOUS
  <2>1. n <= Len(path) /\ SubSeq(RootPath, 1, n) = SubSeq(path, 1, n)
    BY DEF IsPrefix
  <2>2. SubSeq(RootPath, 1, n)[1] = RootPath[1] /\ SubSeq(path, 1, n)[1] = path[1]
    BY <1>1, <1>2, <2>1
  <2> QED BY <1>1, <2>1, <2>2
<1>5. IsPrefix(RootPath, full)
  BY <1>1, <1>2 DEF IsPrefix
<1>6. RepoRelative(path) = path
  BY <1>4 DEF RepoRelative
<1> HIDE DEF full, joint
<1>7. root => RepoRelative(full) = path
  BY <1>2, <1>5 DEF RepoRelative
<1>8. RepoRelative(joint) = joint
  BY <1>1, <1>3 DEF RepoRelative
<1> QED BY <1>6, <1>7, <1>8 DEF full, joint

(* For any rules, root and paths, an absolute path is answered like the     *)
(* path below the root, and a path rule anchored by its first name never    *)
(* answers for a sibling of the root.                                       *)
THEOREM RulesAreAnchored == Spec => []AnchoredAtRoot
<1>1. ASSUME GuardInv PROVE AnchoredAtRoot
  <2> SUFFICES ASSUME root, NEW path \in Paths
               PROVE  /\ Get(rules, RepoRelative(RootPath \o <<"/">> \o path)) = Get(rules, path)
                      /\ Occurs("/", Get(rules, RepoRelative(RootPath \o path)).filename) =>
                           Get(rules, RepoRelative(RootPath \o path)).filename[1] \notin Letters
    BY Zenon DEF AnchoredAtRoot
  <2> DEFINE joint == RootPath \o path
             r == Get(rules, joint)
  <2>1. Get(rules, RepoRelative(RootPath \o <<"/">> \o path)) = Get(rules, path)
        /\ Get(rules, RepoRelative(RootPath \o path)) = r
    BY BelowRoot
  <2>2. joint \in Seq(Symbol) /\ joint[1] = "/"
    BY PathsAssumption DEF Symbol
  <2>3. Loaded
    BY <1>1 DEF GuardInv
  <2> SUFFICES ASSUME Occurs("/", r.filename), r.filename[1] \in Letters PROVE FALSE
    BY <2>1
  <2> HIDE DEF joint
  <2>4. \/ r \in rules.exact
        \/ \E i \in DOMAIN rules.globs : Applies(rules.globs[i], joint) /\ r = rules.globs[i]
        \/ r = NoRule
    BY <2>3, GetIs
  <2> HIDE DEF r
  <2>5. CASE r \in rules.exact
    <3>1. ~ IsGlobPattern(r.filename)
      BY <2>3, <2>5, AllRulesKept
    <3> QED BY <3>1 DEF IsGlobPattern, Occurs
  <2>6. CASE \E i \in DOMAIN rules.globs : Applies(rules.globs[i], joint) /\ r = rules.globs[i]
    <3>1. Applies(r, joint) /\ r.filename \in Seq(Symbol)
      <4>1. PICK i \in DOMAIN rules.globs : Applies(rules.globs[i], joint) /\ r = rules.globs[i]
        BY <2>6
      <4>2. rules.globs \in Seq(GuardRule)
        BY <2>3, AllRulesKept
      <4>3. rules.globs[i] \in GuardRule
        BY <4>2
      <4> QED BY <4>1, <4>3 DEF GuardRule
    <3>2. Matches(r.filename, joint)
      BY <3>1, Zenon DEF Applies, Candidate
    <3> DEFINE p == r.filename
    <3>3. 1 \in RestMatches(p, joint)[1] /\ p \in Seq(Symbol)
      BY <3>1, <3>2 DEF Matches
    <3>4. 1 \in 1 .. Len(p)
      BY <3>3 DEF Occurs
    <3>5. p[1] \in Letters /\ p[1] \notin Wildcards \cup {"/"}
      BY AlphabetAssumption
    <3> HIDE DEF p
    <3>6. p[1] = joint[1]
      BY <3>3, <3>4, <3>5, <2>2, AtSymbol DEF Wildcards
    <3> QED BY <3>5, <3>6, <2>2
  <2>7. CASE r = NoRule
    BY <2>7 DEF NoRule, Occurs
  <2> QED BY <2>4, <2>5, <2>6, <2>7
<1> QED BY <1>1, GuardInvariant, PTL

(* What the layers loaded before the last leave is under what the last one  *)
(* says.                                                                    *)
LEMMA LastIsLaidOver ==
  ASSUME Loaded, merged # << >>
  PROVE  /\ LastLayer \in AllLayers /\ LastLayer.rules \in Seq(GuardRule)
         /\ Written(merged) \in Seq(GuardRule)
         /\ \E earlier \in SUBSET GuardRule :
              Kept(Written(merged)) = Over(earlier, Kept(LastLayer.rules))
<1> DEFINE front == SubSeq(merged, 1, Len(merged) - 1)
<1>1. front \in Seq(AllLayers) /\ LastLayer \in AllLayers /\ merged = Append(front, LastLayer)
  BY DEF Loaded, LastLayer
<1> HIDE DEF front
<1>2. /\ LastLayer.rules \in Seq(GuardRule) /\ Written(front) \in Seq(GuardRule)
      /\ Written(merged) = Written(front) \o LastLayer.rules
  BY <1>1, WrittenAppend
<1>3. Kept(Written(merged)) = Over(Kept(Written(front)), Kept(LastLayer.rules))
  BY <1>2, KeptConcat
<1>4. Kept(Written(front)) \in SUBSET GuardRule
  BY <1>2, KeptAre
<1> QED BY <1>1, <1>2, <1>3, <1>4, AllRulesKept

(* For any layers and any file, the layer loaded last decides about the     *)
(* names it has an exact rule or a glob for, and about the guard itself.    *)
THEOREM LastLayerHasTheWord == Spec => []LastLayerDecides
<1>1. ASSUME GuardInv PROVE LastLayerDecides
  <2> DEFINE name == Basename(answer.path)
             last == FromIter(LastLayer.rules)
             off  == Guard \in DOMAIN LastLayer.hooks /\ ~ LastLayer.hooks[Guard]
             said(r) == IF Dispatch(r.access, answer.isRead) THEN "Deny" ELSE "nothing"
             Exact == \A r \in last.exact : r.filename = name /\ IsHookEnabled(Guard) => answer.result = said(r)
             Globs == (\E i \in DOMAIN last.globs : Matches(last.globs[i].filename, name)) =>
                        \A r \in rules.exact : r.filename = name => r \in last.exact
  <2> SUFFICES ASSUME pc = "served", "path" \in DOMAIN answer
               PROVE  (off => answer.result = "nothing") /\ (~ off => Exact /\ Globs)
    BY Zenon DEF LastLayerDecides
  <2>1. Loaded /\ merged # << >>
    BY <1>1 DEF GuardInv, Based
  <2>2. answer.path \in Paths /\ answer.result = Respond(answer.path, answer.isRead)
    BY <1>1 DEF GuardInv, Answered
  <2>3. answer.result = IF /\ IsHookEnabled(Guard) /\ Get(rules, answer.path) # NoRule
                           /\ Dispatch(Get(rules, answer.path).access, answer.isRead)
                        THEN "Deny" ELSE "nothing"
    BY <2>2, BelowRoot DEF Respond
  <2>4. ASSUME off PROVE answer.result = "nothing"
    <3>1. Guard \in DOMAIN hooks /\ hooks[Guard] = LastLayer.hooks[Guard]
      BY <2>1, <2>4 DEF Loaded
    <3>2. ~ IsHookEnabled(Guard)
      BY <2>4, <3>1 DEF IsHookEnabled
    <3> QED BY <2>3, <3>2
  <2> DEFINE K == Kept(Written(merged))
             L == Kept(LastLayer.rules)
  <2>5. PICK earlier \in SUBSET GuardRule : K = Over(earlier, L)
    BY <2>1, LastIsLaidOver
  <2>6. /\ LastLayer.rules \in Seq(GuardRule)
        /\ last.exact = {r \in L : ~ IsGlobPattern(r.filename)}
        /\ last.globs \in Seq({r \in L : IsGlobPattern(r.filename)})
    BY <2>1, LastIsLaidOver, FromIterIs
  <2>7. L \in SUBSET GuardRule /\ \A r \in L : Usable(r)
    BY <2>6, KeptAre
  <2>8. /\ rules.exact = {r \in K : ~ IsGlobPattern(r.filename)}
        /\ rules.exact \in SUBSET GuardRule /\ Distinct(rules.exact)
    BY <2>1, AllRulesKept
  <2> HIDE DEF K, L, last, name
  <2>9. ASSUME NEW r \in last.exact, r.filename = name, IsHookEnabled(Guard) PROVE answer.result = said(r)
    <3>1. r \in rules.exact
      BY <2>5, <2>6, <2>8, <2>9 DEF Over
    <3>2. Get(rules, answer.path) \in rules.exact /\ Get(rules, answer.path).filename = name
      BY <2>1, <2>9, <3>1, GetIs DEF name
    <3>3. Get(rules, answer.path) = r
      BY <2>8, <2>9, <3>1, <3>2 DEF Distinct
    <3>4. r # NoRule
      <4>1. r.access \in Access
        BY <2>8, <3>1 DEF GuardRule
      <4> QED BY <4>1 DEF NoRule, Access
    <3> QED BY <2>3, <2>9, <3>3, <3>4
  <2>10. ASSUME NEW i \in DOMAIN last.globs, Matches(last.globs[i].filename, name),
                NEW r \in rules.exact, r.filename = name
         PROVE  r \in last.exact
    <3> DEFINE g == last.globs[i]
    <3>1. g \in L /\ IsGlobPattern(g.filename)
      BY <2>6
    <3>2. Matches(g.filename, r.filename)
      BY <2>10
    <3> HIDE DEF g
    <3>3. Subsumes(g, r)
      BY <2>7, <2>8, <3>1, <3>2 DEF Subsumes, Usable
    <3> QED BY <2>5, <2>6, <2>8, <3>1, <3>3 DEF Over
  <2>11. Exact /\ Globs
    BY <2>9, <2>10
  <2> HIDE DEF Exact, Globs, off
  <2> QED BY <2>4, <2>11
<1> QED BY <1>1, GuardInvariant, PTL
=============================================================================
