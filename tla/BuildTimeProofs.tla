--------------------------- MODULE BuildTimeProofs ---------------------------
(***************************************************************************)
(* What is computed when the program is built, or from what was built      *)
(* then, does not depend on an order nobody chose, and leaves no lookup    *)
(* open.                                                                   *)
(*                                                                         *)
(* The order in which the rules of an invocation are folded does not show  *)
(* in its rating, for every set of axes, of patches and of rules.  The     *)
(* inductive invariant says of the rules folded so far what the theorem    *)
(* says of all of them; it needs the fold's order, escalations first, as a *)
(* part of its own.                                                        *)
(*                                                                         *)
(* The order in which the file system lists a directory does not show in   *)
(* the risk table, for every finite tree.  The inductive invariant says    *)
(* that the files below the root are those found and those ahead of the    *)
(* walk, and that no two of all these have one path; so the sort, which    *)
(* goes by the paths, has one result.                                      *)
(*                                                                         *)
(* That table answers for the commands it was generated from.  The checks  *)
(* go through the declarations one by one and compare each with those      *)
(* before it; the table is a list flattened and pushed under names.  What  *)
(* joins the two is where an element of a flattened list came from: two    *)
(* entries of the table clash iff one place of the declarations has an     *)
(* earlier one it clashes with (NoTwo).                                    *)
(*                                                                         *)
(* The generated test file tests every case of the corpus, for any         *)
(* directory of corpus files and in whatever order it is listed.  The      *)
(* inductive invariant pairs the files read so far with the modules made   *)
(* of them; that a read suite has groups of cases, each of one kind or the *)
(* other, is an invariant of the rounds of the parser's loop.              *)
(***************************************************************************)
EXTENDS Rating, RiskTable, TestGenerator, FiniteSetTheorems, WellFoundedInduction, TLAPS

-----------------------------------------------------------------------------
(* The fold of a rating.                                                    *)

(* The three levels of an axis are three. *)
LEMMA LevelsDiffer ==
  ASSUME NEW a \in DOMAIN AxisOf
  PROVE  /\ AxisOf[a][1] # AxisOf[a][2]
         /\ AxisOf[a][1] # AxisOf[a][3]
         /\ AxisOf[a][2] # AxisOf[a][3]
  BY DEF AxisOf, TrustImpact, Reversibility, BlastRadius, Disclosure, Persistence, Privilege,
         Auditability, Exposure, Verification

(* The axes at hand are axes.                                               *)
LEMMA AxesKnown == \A a \in Axes : a \in DOMAIN AxisOf
  BY RatingAssumption

(* What a set of levels comes to is a level. *)
LEMMA FoldsAreLevels ==
  ASSUME NEW a \in Axes, NEW S
  PROVE  WorstOf(a, S) \in Levels(a) /\ BestOf(a, S) \in Levels(a)
  BY DEF WorstOf, BestOf, Levels

(* One more escalation: the match of `escalate` computes the worst level   *)
(* of a set one level at a time.                                           *)
LEMMA EscalateAdds ==
  ASSUME NEW a \in Axes, NEW S \in SUBSET Levels(a), NEW l \in Levels(a)
  PROVE  Escalate(a, WorstOf(a, S), l) = WorstOf(a, S \cup {l})
  BY LevelsDiffer, AxesKnown DEF Escalate, WorstOf, Levels

(* One more mitigation: likewise, for `mitigate` and the best level. *)
LEMMA MitigateAdds ==
  ASSUME NEW a \in Axes, NEW S \in SUBSET Levels(a), S # {}, NEW l \in Levels(a)
  PROVE  Mitigate(a, BestOf(a, S), l) = BestOf(a, S \cup {l})
  BY LevelsDiffer, AxesKnown DEF Mitigate, BestOf, Levels

(* A single level is the best of itself. *)
LEMMA BestOfOne ==
  ASSUME NEW a \in Axes, NEW l \in Levels(a)
  PROVE  BestOf(a, {l}) = l
  BY LevelsDiffer, AxesKnown DEF BestOf, Levels

Caps(a, folded) ==
  Said(folded \ Escalations, a) \cup {WorstOf(a, Said(folded \cap Escalations, a) \cup {Baseline[a]})}

IInv ==
  /\ given \in Cases
  /\ applied \subseteq given[2]
  /\ applied \subseteq Escalations \/ Escalations \subseteq applied
  /\ profile = [a \in Axes |-> BestOf(a, Caps(a, applied))]

(* Patches say levels. *)
LEMMA Typed ==
  ASSUME given \in Cases, NEW a \in Axes
  PROVE  /\ Baseline[a] \in Levels(a)
         /\ \A r \in given[2] : r.patch[a] \in Levels(a) \cup {Unset}
         /\ Unset \notin Levels(a)
         /\ \A R \in SUBSET given[2] : Said(R, a) \in SUBSET Levels(a)
<1>1. given[1] \in Patches /\ given[2] \in SUBSET Rules
  BY RatingAssumption
<1>2. \A r \in given[2] : r.patch[a] \in Levels(a) \cup {Unset}
  BY <1>1 DEF Rules, Patches
<1>3. Baseline[a] \in Levels(a)
  BY <1>1 DEF Baseline, Patches, Lowest, Levels
<1>4. Unset \notin Levels(a)
  BY RatingAssumption
<1> QED BY <1>2, <1>3, <1>4 DEF Said

(* Before anything is folded only the baseline is said.                     *)
LEMMA InitEstablishes == InitRating => IInv
<1> SUFFICES ASSUME InitRating PROVE IInv
  OBVIOUS
<1> USE DEF InitRating
<1>1. \A a \in Axes : Baseline[a] = BestOf(a, Caps(a, applied))
  <2> TAKE a \in Axes
  <2>1. Baseline[a] \in Levels(a)
    BY Typed
  <2>2. Caps(a, applied) = {WorstOf(a, {Baseline[a]})}
    BY DEF Caps, Said
  <2>3. WorstOf(a, {Baseline[a]}) = Baseline[a]
    BY <2>1, LevelsDiffer, AxesKnown DEF WorstOf, Levels
  <2> QED BY <2>1, <2>2, <2>3, BestOfOne
<1>2. Baseline = [a \in Axes |-> Baseline[a]]
  BY DEF Baseline
<1>3. profile = [a \in Axes |-> BestOf(a, Caps(a, applied))]
  BY <1>1, <1>2
<1> QED BY <1>3 DEF IInv, Escalations

(* An escalation is folded in before any mitigation.                        *)
LEMMA EscalationKeeps == ASSUME IInv, NEW r \in given[2], FoldEscalation(r) PROVE IInv'
<1> USE DEF IInv, FoldEscalation
<1>1. applied \subseteq Escalations /\ applied' \subseteq Escalations /\ Escalations' = Escalations
  BY DEF Escalations
<1>2. ASSUME NEW a \in Axes PROVE profile'[a] = BestOf(a, Caps(a, applied)')
  <2> DEFINE S == Said(applied, a) \cup {Baseline[a]}
  <2>1. S \in SUBSET Levels(a) /\ Unset \notin Levels(a) /\ r.patch[a] \in Levels(a) \cup {Unset}
    BY Typed
  <2>2. Caps(a, applied) = {WorstOf(a, S)}
    BY <1>1, applied \cap Escalations = applied, applied \ Escalations = {} DEF Caps, Said
  <2>3. profile[a] = WorstOf(a, S)
    BY <2>2, BestOfOne, FoldsAreLevels
  <2>4. Baseline' = Baseline
    BY DEF Baseline
  <2>5. Caps(a, applied)' = {WorstOf(a, Said(applied', a) \cup {Baseline[a]})}
    BY <1>1, <2>4, applied' \cap Escalations = applied', applied' \ Escalations = {} DEF Caps, Said
  <2>6. CASE r.patch[a] = Unset
    <3>1. Said(applied', a) = Said(applied, a)
      BY <2>6 DEF Said
    <3>2. profile'[a] = profile[a]
      BY <2>6
    <3>3. Caps(a, applied)' = {profile'[a]}
      BY <2>3, <2>5, <3>1, <3>2
    <3>4. profile'[a] \in Levels(a)
      BY <2>3, <3>2, FoldsAreLevels
    <3> QED BY <3>3, <3>4, BestOfOne
  <2>7. CASE r.patch[a] # Unset
    <3>1. Said(applied', a) \cup {Baseline[a]} = S \cup {r.patch[a]}
      BY <2>7 DEF Said
    <3>2. profile'[a] = WorstOf(a, S \cup {r.patch[a]})
      BY <2>1, <2>3, <2>7, EscalateAdds
    <3>3. Caps(a, applied)' = {profile'[a]}
      BY <2>5, <3>1, <3>2
    <3>4. profile'[a] \in Levels(a)
      BY <3>2, FoldsAreLevels
    <3> QED BY <3>3, <3>4, BestOfOne
  <2> QED BY <2>6, <2>7
<1>3. profile' = [a \in Axes |-> BestOf(a, Caps(a, applied))]'
  BY <1>2
<1> QED BY <1>1, <1>3

(* A mitigation is folded in after every escalation.                        *)
LEMMA MitigationKeeps == ASSUME IInv, NEW r \in given[2], FoldMitigation(r) PROVE IInv'
<1> USE DEF IInv, FoldMitigation
<1>1. Escalations \subseteq applied /\ Escalations' = Escalations /\ r \notin Escalations
  BY DEF Escalations
<1>2. ASSUME NEW a \in Axes PROVE profile'[a] = BestOf(a, Caps(a, applied)')
  <2> DEFINE worst == WorstOf(a, Said(applied \cap Escalations, a) \cup {Baseline[a]})
             S == Said(applied \ Escalations, a) \cup {worst}
  <2>1. Said(applied \ Escalations, a) \in SUBSET Levels(a) /\ Unset \notin Levels(a)
          /\ r.patch[a] \in Levels(a) \cup {Unset}
    BY Typed, applied \ Escalations \in SUBSET given[2]
  <2>2. S \in SUBSET Levels(a) /\ S # {}
    BY <2>1, FoldsAreLevels
  <2>3. profile[a] = BestOf(a, S)
    BY DEF Caps
  <2>4. Baseline' = Baseline
    BY DEF Baseline
  <2>5. Caps(a, applied)' = Said(applied' \ Escalations, a) \cup {worst}
    BY <1>1, <2>4, applied' \cap Escalations = applied \cap Escalations DEF Caps, Said
  <2>6. applied' \ Escalations = (applied \ Escalations) \cup {r}
    BY <1>1
  <2>7. CASE r.patch[a] = Unset
    <3>1. Said(applied' \ Escalations, a) = Said(applied \ Escalations, a)
      BY <2>6, <2>7 DEF Said
    <3> QED BY <2>3, <2>5, <2>7, <3>1
  <2>8. CASE r.patch[a] # Unset
    <3>1. Said(applied' \ Escalations, a) = Said(applied \ Escalations, a) \cup {r.patch[a]}
      BY <2>6, <2>8 DEF Said
    <3>2. Caps(a, applied)' = S \cup {r.patch[a]}
      BY <2>5, <3>1
    <3>3. profile'[a] = BestOf(a, S \cup {r.patch[a]})
      <4>1. Mitigate(a, profile[a], r.patch[a]) = BestOf(a, S \cup {r.patch[a]})
        <5>1. r.patch[a] \in Levels(a)
          BY <2>1, <2>8
        <5>2. Mitigate(a, BestOf(a, S), r.patch[a]) = BestOf(a, S \cup {r.patch[a]})
          <6> HIDE DEF S, IInv, FoldMitigation
          <6> QED BY <2>2, <5>1, MitigateAdds
        <5> QED BY <2>3, <5>2
      <4> QED BY <2>8, <4>1
    <3> QED BY <3>2, <3>3
  <2> QED BY <2>7, <2>8
<1>3. profile' = [a \in Axes |-> BestOf(a, Caps(a, applied))]'
  BY <1>2
<1> QED BY <1>1, <1>3 DEF Escalations

(* The rating of an invocation depends on the rules that apply to it and   *)
(* not on the order they are folded in: on every axis it is the worst      *)
(* level of the baseline and the escalations, capped by the lowest level   *)
(* a mitigation names (escalate and mitigate of rating.rs).                *)
THEOREM RatingDetermined == SpecRating => []RatingIsOrderFree
<1>1. IInv /\ [NextRating]_rating_vars => IInv'
  <2> SUFFICES ASSUME IInv, [NextRating]_rating_vars PROVE IInv'
    OBVIOUS
  <2>1. CASE NextRating
    BY <2>1, EscalationKeeps, MitigationKeeps DEF NextRating
  <2>2. CASE UNCHANGED rating_vars
    BY <2>2 DEF rating_vars, IInv, Caps, Said, Escalations, Baseline
  <2> QED BY <2>1, <2>2
<1>2. IInv => RatingIsOrderFree
  <2> SUFFICES ASSUME IInv, applied = given[2], NEW a \in Axes
      PROVE  profile[a] = BestOf(a, Said(given[2] \ Escalations, a)
                                      \cup {WorstOf(a, Said(Escalations, a) \cup {Baseline[a]})})
    BY DEF RatingIsOrderFree
  <2>1. given[2] \cap Escalations = Escalations
    BY DEF Escalations
  <2> QED BY <2>1 DEF IInv, Caps
<1> QED BY <1>1, <1>2, InitEstablishes, PTL DEF SpecRating

-----------------------------------------------------------------------------
(* Natural numbers.                                                         *)

(* Every non-empty set of natural numbers has a least element. *)
LEMMA Least ==
  ASSUME NEW T \in SUBSET Nat, T # {}
  PROVE  \E x \in T : \A y \in T : ~(y < x)
<1> DEFINE R == OpToRel(<, Nat)
<1>1. IsWellFoundedOn(R, Nat)
  BY NatLessThanWellFounded
<1>2. \A y, x \in Nat : y < x => <<y, x>> \in R
  BY DEF OpToRel
<1> HIDE DEF R
<1>3. \E x \in T : \A y \in T : ~(<<y, x>> \in R)
  BY <1>1, WFMin
<1> QED BY <1>2, <1>3

(* Induction over the natural numbers, of a set that holds zero and the     *)
(* successor of each of its members.                                        *)
LEMMA Induct ==
  ASSUME NEW T \in SUBSET Nat, 0 \in T, \A n \in T : n + 1 \in T
  PROVE  T = Nat
<1> SUFFICES ASSUME Nat \ T # {} PROVE FALSE
  OBVIOUS
<1>1. PICK x \in Nat \ T : \A y \in Nat \ T : ~(y < x)
  <2> DEFINE U == Nat \ T
  <2>1. U \in SUBSET Nat /\ U # {}
    OBVIOUS
  <2> HIDE DEF U
  <2>2. \E x \in U : \A y \in U : ~(y < x)
    BY <2>1, Least
  <2> QED BY <2>2 DEF U
<1>2. x # 0 /\ x - 1 \in Nat /\ x - 1 < x
  OBVIOUS
<1>3. x - 1 \in T
  BY <1>1, <1>2
<1> QED BY <1>3, <1>1, <1>2

-----------------------------------------------------------------------------
(* The order of paths, which is the one text is sorted in.                  *)

(* No path is before itself.                                                *)
LEMMA PathBeforeIrreflexive == ASSUME NEW a \in Seq(Nat) PROVE ~ PathBefore(a, a)
<1> SUFFICES ASSUME NEW i \in DOMAIN a, a[i] < a[i] PROVE FALSE
  BY DEF PathBefore
<1>1. a[i] \in Nat
  OBVIOUS
<1> QED BY <1>1

(* What is before a path that is before another is before that one.         *)
LEMMA PathBeforeTransitive ==
  ASSUME NEW a \in Seq(Nat), NEW b \in Seq(Nat), NEW c \in Seq(Nat), PathBefore(a, b), PathBefore(b, c)
  PROVE  PathBefore(a, c)
<1> DEFINE At(x, y, i) == /\ \A j \in 1 .. i - 1 : j \in DOMAIN x /\ x[j] = y[j]
                          /\ i \in DOMAIN x => x[i] < y[i]
<1>1. PICK i \in DOMAIN b : At(a, b, i)
  BY DEF PathBefore
<1>2. PICK k \in DOMAIN c : At(b, c, k)
  BY DEF PathBefore
<1>3. SUFFICES \E n \in DOMAIN c : At(a, c, n)
  BY DEF PathBefore
<1>4. CASE i < k
  <2>1. i \in DOMAIN c /\ i \in 1 .. k - 1 /\ \A j \in 1 .. i - 1 : j \in 1 .. k - 1
    BY SMTT(40), <1>1, <1>2, <1>4
  <2>2. At(a, c, i)
    BY <2>1, <1>1, <1>2
  <2> QED BY <2>1, <2>2
<1>5. CASE i = k
  <2>1. b[i] < c[i] /\ b[i] \in Nat /\ c[i] \in Nat /\ (i \in DOMAIN a => a[i] \in Nat)
    BY <1>1, <1>2, <1>5
  <2>2. At(a, c, i)
    BY <2>1, <1>1, <1>2, <1>5
  <2> QED BY <2>2, <1>2, <1>5
<1>6. CASE k < i
  <2>1. k \in DOMAIN b /\ k \in 1 .. i - 1 /\ \A j \in 1 .. k - 1 : j \in 1 .. i - 1
    BY SMTT(40), <1>1, <1>2, <1>6
  <2>2. At(a, c, k)
    BY <2>1, <1>1, <1>2
  <2> QED BY <2>2, <1>2
<1> QED BY <1>4, <1>5, <1>6

(* Of two different paths one is before the other.                          *)
LEMMA PathBeforeTotal ==
  ASSUME NEW a \in Seq(Nat), NEW b \in Seq(Nat), a # b
  PROVE  PathBefore(a, b) \/ PathBefore(b, a)
<1> DEFINE T == {k \in Nat : k \in DOMAIN a /\ k \in DOMAIN b /\ a[k] # b[k]}
<1>1. CASE T # {}
  <2>1. PICK n \in T : \A k \in T : ~(k < n)
    <3>1. T \in SUBSET Nat
      OBVIOUS
    <3> HIDE DEF T
    <3> QED BY <3>1, <1>1, Least
  <2>2. n \in DOMAIN a /\ n \in DOMAIN b /\ a[n] # b[n] /\ a[n] \in Nat /\ b[n] \in Nat
    OBVIOUS
  <2>3. \A j \in 1 .. n - 1 : j \in DOMAIN a /\ j \in DOMAIN b /\ a[j] = b[j]
    <3> SUFFICES ASSUME NEW j \in 1 .. n - 1 PROVE j \in DOMAIN a /\ j \in DOMAIN b /\ a[j] = b[j]
      OBVIOUS
    <3>1. j \in Nat /\ j < n /\ j \in DOMAIN a /\ j \in DOMAIN b
      BY SMTT(40), <2>2
    <3> QED BY <3>1, <2>1
  <2>4. a[n] < b[n] \/ b[n] < a[n]
    BY <2>2
  <2> QED BY <2>2, <2>3, <2>4 DEF PathBefore
<1>2. CASE T = {}
  <2>1. \A k \in Nat : k \in DOMAIN a /\ k \in DOMAIN b => a[k] = b[k]
    BY <1>2
  <2>2. Len(a) # Len(b)
    BY <2>1
  <2>3. CASE Len(a) < Len(b)
    <3>1. /\ Len(a) + 1 \in DOMAIN b /\ Len(a) + 1 \notin DOMAIN a
          /\ \A j \in 1 .. (Len(a) + 1) - 1 : j \in DOMAIN a /\ a[j] = b[j]
      BY <2>1, <2>3
    <3> QED BY <3>1 DEF PathBefore
  <2>4. CASE Len(b) < Len(a)
    <3>1. /\ Len(b) + 1 \in DOMAIN a /\ Len(b) + 1 \notin DOMAIN b
          /\ \A j \in 1 .. (Len(b) + 1) - 1 : j \in DOMAIN b /\ b[j] = a[j]
      BY <2>1, <2>4
    <3> QED BY <3>1 DEF PathBefore
  <2> QED BY <2>2, <2>3, <2>4
<1> QED BY <1>1, <1>2

-----------------------------------------------------------------------------
(* Files of different paths are sorted in one way.                          *)

(* The elements of S that come before x. *)
Preceding(S, x) == {y \in S : PathBefore(y.path, x.path)}

(* Files of different paths. *)
Filed(S) ==
  /\ IsFiniteSet(S)
  /\ \A x \in S : x.path \in Seq(Nat)
  /\ \A x, y \in S : x.path = y.path => x = y

(* Each number below the size of S is that of the files before just one.    *)
LEMMA Placed ==
  ASSUME NEW S, Filed(S)
  PROVE  /\ Cardinality(S) \in Nat
         /\ \A x, y \in S : Cardinality(Preceding(S, x)) = Cardinality(Preceding(S, y)) => x = y
         /\ \A n \in 1 .. Cardinality(S) : \E x \in S : Cardinality(Preceding(S, x)) = n - 1
<1> DEFINE n == Cardinality(S)
           f == [x \in S |-> Cardinality(Preceding(S, x)) + 1]
<1>1. n \in Nat
  BY FS_CardinalityType DEF Filed
<1>2. ASSUME NEW x \in S
      PROVE  /\ IsFiniteSet(Preceding(S, x)) /\ Cardinality(Preceding(S, x)) \in Nat
             /\ Cardinality(Preceding(S, x)) < n
  <2>1. IsFiniteSet(S \ {x}) /\ Cardinality(S \ {x}) = n - 1
    BY FS_RemoveElement DEF Filed
  <2>2. Preceding(S, x) \in SUBSET (S \ {x})
    BY PathBeforeIrreflexive DEF Filed, Preceding
  <2>3. IsFiniteSet(Preceding(S, x)) /\ Cardinality(Preceding(S, x)) <= n - 1
    BY <2>1, <2>2, FS_Subset
  <2>4. Cardinality(Preceding(S, x)) \in Nat
    BY <2>3, FS_CardinalityType
  <2> QED BY <2>3, <2>4, <1>1
<1>3. ASSUME NEW x \in S, NEW y \in S, PathBefore(x.path, y.path)
      PROVE  Cardinality(Preceding(S, x)) # Cardinality(Preceding(S, y))
  <2>1. Preceding(S, x) \in SUBSET Preceding(S, y) /\ x \in Preceding(S, y) /\ x \notin Preceding(S, x)
    BY <1>3, PathBeforeIrreflexive, PathBeforeTransitive DEF Filed, Preceding
  <2> QED BY <2>1, <1>2, FS_Subset
<1>4. f \in [S -> 1 .. n]
  BY <1>1, <1>2
<1>5. \A x, y \in S : x # y => Cardinality(Preceding(S, x)) # Cardinality(Preceding(S, y))
  BY <1>3, PathBeforeTotal DEF Filed
<1>6. f \in Surjection(S, 1 .. n)
  <2>1. f \in Injection(S, 1 .. n)
    <3>1. \A x, y \in S : f[x] = f[y] => x = y
      BY <1>5, <1>2
    <3> HIDE DEF f
    <3> QED BY <3>1, <1>4 DEF Injection, IsInjective
  <2>2. IsFiniteSet(1 .. n) /\ Cardinality(1 .. n) = n
    BY <1>1, FS_Interval
  <2> HIDE DEF f
  <2> QED BY <2>1, <2>2, FS_Injection DEF Filed
<1>7. ASSUME NEW i \in 1 .. n PROVE \E x \in S : Cardinality(Preceding(S, x)) = i - 1
  <2>1. \E x \in S : f[x] = i
    BY <1>6 DEF Surjection
  <2> QED BY <2>1, <1>2
<1> QED BY <1>1, <1>5, <1>7

(* The files of S in the order of their paths. *)
ByPath(S) ==
  [n \in 1 .. Cardinality(S) |-> CHOOSE f \in S : Cardinality(Preceding(S, f)) = n - 1]

(* Sorted puts any list of the files of S in that order.                    *)
LEMMA SortedByPath ==
  ASSUME NEW S, NEW found \in Seq(S),
         \A x \in S : \E i \in DOMAIN found : found[i] = x,
         \A x \in S : x.path \in Seq(Nat),
         \A i, j \in DOMAIN found : found[i].path = found[j].path => i = j
  PROVE  Sorted(found) = ByPath(S) /\ Cardinality(S) = Len(found) /\ Filed(S)
<1> DEFINE N == Len(found)
           before(j) == {i \in DOMAIN found : \/ PathBefore(found[i].path, found[j].path)
                                              \/ found[i].path = found[j].path /\ i < j}
<1>1. N \in Nat /\ DOMAIN found = 1 .. N /\ \A i \in 1 .. N : found[i] \in S
  OBVIOUS
<1>2. found \in Bijection(1 .. N, S)
  <2>1. found \in [1 .. N -> S]
    BY <1>1
  <2>2. \A i, j \in 1 .. N : found[i] = found[j] => i = j
    BY <1>1
  <2> QED BY <2>1, <2>2, <1>1 DEF Bijection, Injection, Surjection, IsInjective
<1>3. IsFiniteSet(1 .. N) /\ Cardinality(1 .. N) = N
  <2> HIDE DEF N
  <2> QED BY <1>1, FS_Interval
<1>4. IsFiniteSet(S) /\ Cardinality(S) = N
  <2>1. ExistsBijection(1 .. N, S)
    BY <1>2 DEF ExistsBijection
  <2> QED BY <2>1, <1>3, FS_Bijection, <1>2
<1>5. Filed(S)
  <2>1. \A x, y \in S : x.path = y.path => x = y
    <3> SUFFICES ASSUME NEW x \in S, NEW y \in S, x.path = y.path PROVE x = y
      OBVIOUS
    <3>1. PICK i \in DOMAIN found : found[i] = x
      OBVIOUS
    <3>2. PICK j \in DOMAIN found : found[j] = y
      OBVIOUS
    <3> QED BY <3>1, <3>2
  <2> QED BY <2>1, <1>4 DEF Filed
<1>6. ASSUME NEW j \in 1 .. N
      PROVE  Cardinality(before(j)) = Cardinality(Preceding(S, found[j]))
  <2> DEFINE P == Preceding(S, found[j])
             g == [i \in before(j) |-> found[i]]
  <2>1. before(j) = {i \in 1 .. N : PathBefore(found[i].path, found[j].path)}
    <3>1. \A i \in DOMAIN found : found[i].path = found[j].path => i = j /\ ~(i < j)
      BY <1>1
    <3> QED BY <3>1, <1>1
  <2>2. before(j) \subseteq 1 .. N
    BY <2>1
  <2>3. \A i \in 1 .. N : i \in before(j) <=> found[i] \in P
    BY <2>1, <1>1 DEF Preceding
  <2>4. P \subseteq S
    BY DEF Preceding
  <2> HIDE DEF P
  <2>5. g \in Bijection(before(j), P)
    <3> HIDE DEF before
    <3>1. g \in [before(j) -> P]
      BY <2>2, <2>3
    <3>2. \A x, y \in before(j) : g[x] = g[y] => x = y
      BY <1>1, <2>2
    <3>3. \A x \in P : \E i \in before(j) : g[i] = x
      <4> SUFFICES ASSUME NEW x \in P PROVE \E i \in before(j) : g[i] = x
        OBVIOUS
      <4>1. PICK i \in 1 .. N : found[i] = x
        BY <2>4, <1>1
      <4> QED BY <4>1, <2>3
    <3> HIDE DEF g
    <3> QED BY <3>1, <3>2, <3>3 DEF Bijection, Injection, Surjection, IsInjective
  <2>6. IsFiniteSet(before(j))
    <3> HIDE DEF before
    <3> QED BY <2>2, <1>3, FS_Subset
  <2>7. ExistsBijection(before(j), P)
    BY <2>5 DEF ExistsBijection
  <2> HIDE DEF before, g
  <2> QED BY <2>6, <2>7, FS_Bijection, <2>5 DEF P
<1>7. Sorted(found) = [n \in 1 .. N |-> found[CHOOSE j \in 1 .. N : Cardinality(before(j)) = n - 1]]
  BY <1>1 DEF Sorted
<1> HIDE DEF before
<1>8. ASSUME NEW n \in 1 .. N
      PROVE  found[CHOOSE j \in 1 .. N : Cardinality(before(j)) = n - 1]
               = CHOOSE x \in S : Cardinality(Preceding(S, x)) = n - 1
  <2>1. PICK x \in S : Cardinality(Preceding(S, x)) = n - 1
    BY <1>4, <1>5, Placed
  <2>2. PICK i \in 1 .. N : found[i] = x
    BY <1>1
  <2>3. Cardinality(before(i)) = n - 1
    BY <2>1, <2>2, <1>6
  <2> DEFINE k == CHOOSE j \in 1 .. N : Cardinality(before(j)) = n - 1
             y == CHOOSE z \in S : Cardinality(Preceding(S, z)) = n - 1
  <2>4. k \in 1 .. N /\ Cardinality(before(k)) = n - 1
    BY <2>3
  <2>5. y \in S /\ Cardinality(Preceding(S, y)) = n - 1
    BY <2>1
  <2> HIDE DEF k, y
  <2>6. found[k] \in S /\ Cardinality(Preceding(S, found[k])) = n - 1
    BY <2>4, <1>6, <1>1
  <2>7. found[k] = y
    BY <2>5, <2>6, <1>5, Placed
  <2> QED BY <2>7 DEF k, y
<1>9. Sorted(found) = [n \in 1 .. N |-> CHOOSE x \in S : Cardinality(Preceding(S, x)) = n - 1]
  <2> DEFINE a(n) == found[CHOOSE j \in 1 .. N : Cardinality(before(j)) = n - 1]
             b(n) == CHOOSE x \in S : Cardinality(Preceding(S, x)) = n - 1
  <2>1. \A n \in 1 .. N : a(n) = b(n)
    BY <1>8
  <2>2. Sorted(found) = [n \in 1 .. N |-> a(n)]
    BY <1>7
  <2> HIDE DEF a, b, N
  <2>3. Sorted(found) = [n \in 1 .. N |-> b(n)]
    BY <2>1, <2>2
  <2> QED BY <2>3 DEF b
<1> QED BY <1>9, <1>4, <1>5 DEF ByPath

-----------------------------------------------------------------------------
(* What is below a directory. Below is a recursive function; what it gives  *)
(* is known by its equation, which holds because a function that solves it  *)
(* exists, built from the innermost directories outwards.                   *)

(* How deep a directory is, at most: deeper than any directory in it.       *)
LEMMA Deepening ==
  ASSUME NEW t \in Trees, t # NotADirectory
  PROVE  \E depth \in [DOMAIN t -> Nat], N \in Nat :
           /\ \A d \in DOMAIN t : depth[d] < N
           /\ \A d \in DOMAIN t : \A e \in t[d] : e.is = "dir" => e.to \in DOMAIN t /\ depth[e.to] < depth[d]
<1>1. PICK depth \in [DOMAIN t -> 0 .. Cardinality(DOMAIN t)] :
             \A d \in DOMAIN t : \A e \in t[d] : e.is = "dir" => depth[e.to] < depth[d]
  BY TreesAssumption
<1>2. Cardinality(DOMAIN t) \in Nat
  BY TreesAssumption, FS_CardinalityType
<1>3. \A d \in DOMAIN t : \A e \in t[d] : e.is = "dir" => e.to \in DOMAIN t
  BY TreesAssumption
<1>4. depth \in [DOMAIN t -> Nat] /\ \A d \in DOMAIN t : depth[d] < Cardinality(DOMAIN t) + 1
  BY <1>1, <1>2
<1>5. Cardinality(DOMAIN t) + 1 \in Nat
  BY <1>2
<1> QED BY <1>1, <1>3, <1>4, <1>5

(* The recursive definition of Below has a solution, since no directory is  *)
(* inside itself.                                                           *)
LEMMA BelowEquation ==
  ASSUME NEW t \in Trees, t # NotADirectory
  PROVE  \A d \in DOMAIN t : Below(t)[d] = UNION {Reached(e, Below(t)[e.to]) : e \in t[d]}
<1> DEFINE D == DOMAIN t
           F(d, r) == UNION {Reached(e, r[e.to]) : e \in t[d]}
<1>1. PICK depth \in [D -> Nat], N \in Nat :
             /\ \A d \in D : depth[d] < N
             /\ \A d \in D : \A e \in t[d] : e.is = "dir" => e.to \in D /\ depth[e.to] < depth[d]
  BY Deepening
<1>2. ASSUME NEW d \in D, NEW q, NEW r, \A c \in D : depth[c] < depth[d] => q[c] = r[c]
      PROVE  F(d, q) = F(d, r)
  <2>1. ASSUME NEW e \in t[d] PROVE Reached(e, q[e.to]) = Reached(e, r[e.to])
    <3>1. CASE e.is = "dir"
      BY <1>1, <1>2, <3>1
    <3>2. CASE e.is # "dir"
      BY <3>2 DEF Reached
    <3> QED BY <3>1, <3>2
  <2> QED BY <2>1
<1> HIDE DEF F
<1> DEFINE Solves(r, n) == r = [d \in D |-> r[d]] /\ \A d \in D : depth[d] < n => r[d] = F(d, r)
           T == {n \in Nat : \E r : Solves(r, n)}
<1>3. 0 \in T
  <2>1. Solves([d \in D |-> {}], 0)
    BY <1>1
  <2> QED BY <2>1
<1>4. ASSUME NEW n \in T PROVE n + 1 \in T
  <2>1. PICK r : Solves(r, n)
    OBVIOUS
  <2> DEFINE q == [d \in D |-> IF depth[d] < n THEN r[d] ELSE F(d, r)]
  <2>2. ASSUME NEW d \in D, depth[d] < n + 1 PROVE q[d] = F(d, q)
    <3>1. \A c \in D : depth[c] < depth[d] => q[c] = r[c]
      BY <2>2, <1>1
    <3>2. q[d] = F(d, r)
      BY <2>1, <2>2
    <3> HIDE DEF q
    <3>3. F(d, q) = F(d, r)
      BY <3>1, <1>2
    <3> QED BY <3>2, <3>3
  <2>3. q = [d \in D |-> q[d]]
    OBVIOUS
  <2>4. Solves(q, n + 1)
    <3> HIDE DEF q
    <3> QED BY <2>2, <2>3
  <2>5. n + 1 \in Nat
    OBVIOUS
  <2> HIDE DEF Solves, q
  <2> QED BY <2>4, <2>5
<1>5. N \in T
  <2> HIDE DEF T
  <2>1. T \in SUBSET Nat
    BY DEF T
  <2> QED BY <1>1, <1>3, <1>4, <2>1, Induct
<1>6. \E r : r = [d \in D |-> F(d, r)]
  <2>1. PICK r : Solves(r, N)
    BY <1>5
  <2>2. \A d \in D : r[d] = F(d, r)
    BY <2>1, <1>1
  <2>3. [d \in D |-> F(d, r)] = [d \in D |-> r[d]]
    BY <2>2
  <2> QED BY <2>1, <2>3
<1>7. Below(t) = CHOOSE r : r = [d \in D |-> F(d, r)]
  BY DEF Below, F
<1>8. Below(t) = [d \in D |-> F(d, Below(t))]
  BY <1>6, <1>7
<1>9. \A d \in D : Below(t)[d] = F(d, Below(t))
  BY <1>8
<1> QED BY <1>9 DEF F

(* Three paths put together are one path, either way.                       *)
LEMMA ConcatAssociates ==
  ASSUME NEW a \in Seq(Nat), NEW b \in Seq(Nat), NEW c \in Seq(Nat)
  PROVE  (a \o b) \o c = a \o (b \o c) /\ (a \o b) \o c \in Seq(Nat)
<1> DEFINE l == (a \o b) \o c
           r == a \o (b \o c)
<1>1. /\ a \o b \in Seq(Nat) /\ b \o c \in Seq(Nat) /\ l \in Seq(Nat) /\ r \in Seq(Nat)
      /\ Len(l) = Len(r)
  OBVIOUS
<1>2. ASSUME NEW i \in 1 .. Len(l) PROVE l[i] = r[i]
  OBVIOUS
<1> HIDE DEF l, r
<1> QED BY SMTT(40), <1>1, <1>2

(* Its paths are paths.                                                     *)
LEMMA BelowPaths ==
  ASSUME NEW t \in Trees, t # NotADirectory, NEW d \in DOMAIN t, NEW f \in Below(t)[d]
  PROVE  f.path \in Seq(Nat)
<1>1. PICK depth \in [DOMAIN t -> Nat], N \in Nat :
             /\ \A c \in DOMAIN t : depth[c] < N
             /\ \A c \in DOMAIN t : \A e \in t[c] : e.is = "dir" => e.to \in DOMAIN t /\ depth[e.to] < depth[c]
  BY Deepening
<1> DEFINE T == {n \in Nat : \A c \in DOMAIN t : depth[c] < n => \A g \in Below(t)[c] : g.path \in Seq(Nat)}
<1>2. 0 \in T
  BY <1>1
<1>3. ASSUME NEW n \in T PROVE n + 1 \in T
  <2> SUFFICES ASSUME NEW c \in DOMAIN t, depth[c] < n + 1, NEW g \in Below(t)[c] PROVE g.path \in Seq(Nat)
    OBVIOUS
  <2>1. PICK e \in t[c] : g \in Reached(e, Below(t)[e.to])
    BY BelowEquation
  <2>2. <<Slash>> \o e.name \in Seq(Nat)
    BY TreesAssumption DEF Slash
  <2>3. CASE e.is = "dir"
    <3>1. PICK h \in Below(t)[e.to] : g = [path |-> <<Slash>> \o e.name \o h.path, entry |-> h.entry]
      BY <2>1, <2>3 DEF Reached
    <3>2. e.to \in DOMAIN t /\ depth[e.to] < n
      BY <1>1, <2>3
    <3>3. h.path \in Seq(Nat)
      BY <3>1, <3>2
    <3>4. g.path = <<Slash>> \o e.name \o h.path
      BY <3>1
    <3> QED BY <3>3, <3>4, <2>2
  <2>4. CASE e.is # "dir"
    <3>1. g = [path |-> <<Slash>> \o e.name, entry |-> e]
      BY <2>1, <2>4 DEF Reached
    <3> QED BY <3>1, <2>2
  <2> QED BY <2>3, <2>4
<1>4. N \in T
  <2> HIDE DEF T
  <2>1. T \in SUBSET Nat
    BY DEF T
  <2> QED BY <1>1, <1>2, <1>3, <2>1, Induct
<1> QED BY <1>1, <1>4

(* A name ends at the first separator: entries of different names have      *)
(* nothing below them under one path.                                       *)
LEMMA NamesPart ==
  ASSUME NEW n \in Seq(Nat \ {Slash}), NEW m \in Seq(Nat \ {Slash}), NEW r \in Seq(Nat), NEW q \in Seq(Nat),
         r = << >> \/ r[1] = Slash, q = << >> \/ q[1] = Slash,
         n \o r = m \o q
  PROVE  n = m
<1>1. ASSUME NEW a \in Seq(Nat \ {Slash}), NEW b \in Seq(Nat \ {Slash}), NEW x \in Seq(Nat), NEW y \in Seq(Nat),
             x = << >> \/ x[1] = Slash, a \o x = b \o y, Len(a) < Len(b)
      PROVE  FALSE
  <2> DEFINE s == a \o x
             k == Len(a) + 1
  <2>1. s = b \o y
    BY <1>1
  <2>5. Len(a) < Len(b)
    BY <1>1
  <2>0. Len(a) \in Nat /\ Len(b) \in Nat /\ k \in 1 .. Len(b)
    BY <2>5
  <2>2. s[k] = b[k] /\ b[k] # Slash /\ k <= Len(s)
    <3>1. (b \o y)[k] = b[k] /\ k <= Len(b \o y)
      BY <2>0
    <3>2. b[k] \in Nat \ {Slash}
      BY <2>0
    <3> HIDE DEF s, k
    <3> QED BY <3>1, <3>2, <2>1
  <2>3. x # << >>
    BY <2>2, <2>0
  <2>4. s[k] = x[1]
    BY <2>3, <2>0
  <2> QED BY <2>2, <2>3, <2>4, <1>1
<1>2. Len(n) = Len(m)
  <2>1. ~(Len(n) < Len(m))
    BY <1>1
  <2>2. ~(Len(m) < Len(n))
    BY <1>1
  <2>3. Len(n) \in Nat /\ Len(m) \in Nat
    BY SMTT(40)
  <2> QED BY <2>1, <2>2, <2>3
<1>3. ASSUME NEW i \in 1 .. Len(n) PROVE n[i] = m[i]
  <2>1. (n \o r)[i] = n[i]
    BY SMTT(40)
  <2>2. (m \o q)[i] = m[i]
    BY <1>2
  <2> QED BY <2>1, <2>2
<1>4. n = [i \in 1 .. Len(n) |-> n[i]] /\ m = [i \in 1 .. Len(m) |-> m[i]]
  OBVIOUS
<1> QED BY <1>2, <1>3, <1>4

-----------------------------------------------------------------------------
(* What is ahead of the walk.                                               *)

(* The files F, looked at from further up. *)
Moved(path, F) == {[path |-> path \o f.path, entry |-> f.entry] : f \in F}

PathsOf(F) == {f.path : f \in F}

(* What is behind an entry of a directory that is being walked. *)
Ahead(t, frame, e) == Moved(frame.path, Reached(e, Below(t)[e.to]))

(* What is in a directory that is being walked, and in all of them. *)
Inside(t, frame) == UNION {Ahead(t, frame, e) : e \in frame.left}

Rest(t, w) == UNION {Inside(t, w[i]) : i \in DOMAIN w}

Frame(t) == {f \in [path : Seq(Nat), left : SUBSET UNION {t[d] : d \in DOMAIN t}] :
               \E d \in DOMAIN t : f.left \subseteq t[d]}

(* Nothing will be found twice, nor what has been found.                    *)
Apart(t, w, found) ==
  /\ \A i, j \in DOMAIN w : \A e \in w[i].left, f \in w[j].left :
       i # j \/ e # f => PathsOf(Ahead(t, w[i], e)) \cap PathsOf(Ahead(t, w[j], f)) = {}
  /\ \A i \in DOMAIN w : \A e \in w[i].left : \A k \in DOMAIN found :
       found[k].path \notin PathsOf(Ahead(t, w[i], e))
  /\ \A k, l \in DOMAIN found : found[k].path = found[l].path => k = l

(* A path that begins with the frame's and goes on with the entry's name. *)
GoesOn(frame, e, x) ==
  \E r \in Seq(Nat) : (r = << >> \/ r[1] = Slash) /\ x = frame.path \o (<<Slash>> \o (e.name \o r))

(* The paths ahead of a frame begin with its own and the entry's name.      *)
LEMMA AheadPaths ==
  ASSUME NEW t \in Trees, t # NotADirectory, NEW d \in DOMAIN t, NEW e \in t[d],
         NEW frame, frame.path \in Seq(Nat), NEW x \in PathsOf(Ahead(t, frame, e))
  PROVE  GoesOn(frame, e, x)
<1>1. e.name \in Seq(Nat \ {Slash}) /\ e.name \in Seq(Nat) /\ Slash \in Nat /\ (e.is = "dir" => e.to \in DOMAIN t)
  BY TreesAssumption DEF Slash
<1>2. PICK f \in Reached(e, Below(t)[e.to]) : x = frame.path \o f.path
  <2>1. PICK g \in Moved(frame.path, Reached(e, Below(t)[e.to])) : x = g.path
    BY DEF PathsOf, Ahead
  <2>2. PICK f \in Reached(e, Below(t)[e.to]) : g = [path |-> frame.path \o f.path, entry |-> f.entry]
    BY DEF Moved
  <2> QED BY <2>1, <2>2
<1>3. CASE e.is = "dir"
  <2>1. PICK h \in Below(t)[e.to] : f = [path |-> <<Slash>> \o e.name \o h.path, entry |-> h.entry]
    BY <1>2, <1>3 DEF Reached
  <2>2. h.path \in Seq(Nat)
    BY <1>1, <1>3, BelowPaths
  <2>3. PICK g \in t[e.to] : h \in Reached(g, Below(t)[g.to])
    BY <1>1, <1>3, BelowEquation
  <2>4. g.name \in Seq(Nat)
    BY <1>1, <1>3, TreesAssumption
  <2>5. h.path # << >> /\ h.path[1] = Slash
    <3>1. CASE g.is = "dir"
      <4>1. PICK k \in Below(t)[g.to] : h = [path |-> <<Slash>> \o g.name \o k.path, entry |-> k.entry]
        BY <2>3, <3>1 DEF Reached
      <4>2. k.path \in Seq(Nat)
        BY <1>1, <1>3, <3>1, TreesAssumption, BelowPaths
      <4>3. h.path = (<<Slash>> \o g.name) \o k.path
        BY <4>1
      <4>4. <<Slash>> \o g.name \in Seq(Nat) /\ (<<Slash>> \o g.name)[1] = Slash /\ Len(<<Slash>> \o g.name) >= 1
        BY <2>4, <1>1
      <4> DEFINE p == <<Slash>> \o g.name
      <4> HIDE DEF p
      <4>5. p \in Seq(Nat) /\ Len(p) >= 1 /\ p[1] = Slash
        BY <4>4 DEF p
      <4>6. ASSUME NEW u \in Seq(Nat) PROVE (p \o u)[1] = p[1] /\ p \o u # << >>
        BY <4>5
      <4>7. (p \o k.path)[1] = p[1] /\ p \o k.path # << >>
        BY <4>2, <4>6
      <4> QED BY <4>3, <4>5, <4>7 DEF p
    <3>2. CASE g.is # "dir"
      <4>1. h.path = <<Slash>> \o g.name
        BY <2>3, <3>2 DEF Reached
      <4> QED BY <4>1, <2>4, <1>1
    <3> QED BY <3>1, <3>2
  <2>6. f.path = (<<Slash>> \o e.name) \o h.path
    BY <2>1
  <2>7. f.path = <<Slash>> \o (e.name \o h.path)
    <3>1. <<Slash>> \in Seq(Nat) /\ e.name \in Seq(Nat)
      BY <1>1
    <3> DEFINE a == <<Slash>>
               b == e.name
               c == h.path
    <3>2. a \in Seq(Nat) /\ b \in Seq(Nat) /\ c \in Seq(Nat)
      BY <2>2, <3>1
    <3> HIDE DEF a, b, c
    <3>3. (a \o b) \o c = a \o (b \o c)
      BY <3>2, ConcatAssociates
    <3> QED BY <2>6, <3>3 DEF a, b, c
  <2> QED BY <1>2, <2>2, <2>5, <2>7 DEF GoesOn
<1>4. CASE e.is # "dir"
  <2>1. f.path = <<Slash>> \o e.name
    BY <1>2, <1>4 DEF Reached
  <2>2. e.name \o << >> = e.name /\ << >> \in Seq(Nat)
    BY <1>1
  <2> QED BY <1>2, <2>1, <2>2 DEF GoesOn
<1> QED BY <1>3, <1>4

(* What is appended is found after what was there.                          *)
LEMMA Appended ==
  ASSUME NEW p \in Seq(Nat), NEW s \in Seq(Nat), NEW i \in 1 .. Len(s)
  PROVE  (p \o s)[Len(p) + i] = s[i]
  OBVIOUS

(* What two paths begin with does not tell them apart.                      *)
LEMMA Cancel ==
  ASSUME NEW p \in Seq(Nat), NEW u \in Seq(Nat), NEW v \in Seq(Nat), p \o u = p \o v
  PROVE  u = v
<1>1. Len(p \o u) = Len(p) + Len(u) /\ Len(p \o v) = Len(p) + Len(v)
  OBVIOUS
<1>2. Len(u) = Len(v)
  BY <1>1
<1>3. ASSUME NEW i \in 1 .. Len(u) PROVE u[i] = v[i]
  <2>1. i \in 1 .. Len(v)
    BY <1>2
  <2>2. (p \o u)[Len(p) + i] = u[i] /\ (p \o v)[Len(p) + i] = v[i]
    BY <2>1, Appended
  <2> QED BY <2>2
<1>4. u = [i \in 1 .. Len(u) |-> u[i]] /\ v = [i \in 1 .. Len(v) |-> v[i]]
  OBVIOUS
<1> QED BY <1>2, <1>3, <1>4

(* Two entries of one directory have no path in common.                     *)
LEMMA Siblings ==
  ASSUME NEW t \in Trees, t # NotADirectory, NEW d \in DOMAIN t, NEW e \in t[d], NEW f \in t[d], e # f,
         NEW frame, frame.path \in Seq(Nat)
  PROVE  PathsOf(Ahead(t, frame, e)) \cap PathsOf(Ahead(t, frame, f)) = {}
<1> SUFFICES ASSUME NEW x, x \in PathsOf(Ahead(t, frame, e)), x \in PathsOf(Ahead(t, frame, f)) PROVE FALSE
  BY SMTT(40)
<1>1. PICK r \in Seq(Nat) : (r = << >> \/ r[1] = Slash) /\ x = frame.path \o (<<Slash>> \o (e.name \o r))
  <2>1. x \in PathsOf(Ahead(t, frame, e))
    OBVIOUS
  <2>2. GoesOn(frame, e, x)
    BY <2>1, AheadPaths
  <2> QED BY <2>2 DEF GoesOn
<1>2. PICK q \in Seq(Nat) : (q = << >> \/ q[1] = Slash) /\ x = frame.path \o (<<Slash>> \o (f.name \o q))
  <2>1. x \in PathsOf(Ahead(t, frame, f))
    OBVIOUS
  <2>2. GoesOn(frame, f, x)
    BY <2>1, AheadPaths
  <2> QED BY <2>2 DEF GoesOn
<1>3. /\ e.name \in Seq(Nat \ {Slash}) /\ f.name \in Seq(Nat \ {Slash})
      /\ e.name \in Seq(Nat) /\ f.name \in Seq(Nat) /\ <<Slash>> \in Seq(Nat)
  BY TreesAssumption DEF Slash
<1>4. <<Slash>> \o (e.name \o r) = <<Slash>> \o (f.name \o q)
  <2>1. <<Slash>> \o (e.name \o r) \in Seq(Nat) /\ <<Slash>> \o (f.name \o q) \in Seq(Nat)
    BY <1>3
  <2> QED BY <2>1, <1>1, <1>2, Cancel
<1>5. e.name \o r = f.name \o q
  <2>1. e.name \o r \in Seq(Nat) /\ f.name \o q \in Seq(Nat)
    BY <1>3
  <2> QED BY <2>1, <1>3, <1>4, Cancel
<1>6. e.name = f.name
  BY <1>1, <1>2, <1>3, <1>5, NamesPart
<1> QED BY <1>6, TreesAssumption

(* Nothing ahead of the walk is among the files F.                          *)
ApartFrom(t, w, F) ==
  \A i \in DOMAIN w : \A e \in w[i].left : PathsOf(Ahead(t, w[i], e)) \cap PathsOf(F) = {}

(* One entry taken out: the walk has that much less ahead of it.            *)
Without(w, e) == [w EXCEPT ![Len(w)].left = @ \ {e}]

(* What was behind the entry is apart from everything still ahead.          *)
LEMMA OneTaken ==
  ASSUME NEW t, NEW w \in Seq(Frame(t)), w # << >>, NEW e \in w[Len(w)].left, NEW found, Apart(t, w, found)
  PROVE  /\ Without(w, e) \in Seq(Frame(t)) /\ Len(Without(w, e)) = Len(w)
         /\ \A i \in DOMAIN w : Without(w, e)[i].path = w[i].path
         /\ Rest(t, w) = Rest(t, Without(w, e)) \cup Ahead(t, w[Len(w)], e)
         /\ Apart(t, Without(w, e), found)
         /\ ApartFrom(t, Without(w, e), Ahead(t, w[Len(w)], e))
<1> DEFINE n == Len(w)
           v == Without(w, e)
<1>1. n \in DOMAIN w /\ DOMAIN w = 1 .. n /\ n \in Nat /\ \A i \in DOMAIN w : w[i] \in Frame(t)
  OBVIOUS
<1>2. /\ DOMAIN v = DOMAIN w
      /\ \A i \in DOMAIN w : i # n => v[i] = w[i]
      /\ v[n] = [w[n] EXCEPT !.left = w[n].left \ {e}]
  BY <1>1 DEF Without
<1>3. v[n].path = w[n].path /\ v[n].left = w[n].left \ {e} /\ v[n] \in Frame(t)
  <2>1. /\ w[n] \in [path : Seq(Nat), left : SUBSET UNION {t[d] : d \in DOMAIN t}]
        /\ \E d \in DOMAIN t : w[n].left \subseteq t[d]
    BY <1>1 DEF Frame
  <2>2. v[n].path = w[n].path /\ v[n].left = w[n].left \ {e}
    BY <1>2, <2>1
  <2>3. v[n] \in [path : Seq(Nat), left : SUBSET UNION {t[d] : d \in DOMAIN t}]
    BY <1>2, <2>1
  <2> QED BY <2>1, <2>2, <2>3 DEF Frame
<1>4. v \in Seq(Frame(t)) /\ Len(v) = n
  <2>1. v = [i \in 1 .. n |-> v[i]]
    BY <1>1 DEF Without
  <2>2. \A i \in 1 .. n : v[i] \in Frame(t)
    BY <1>1, <1>2, <1>3
  <2> HIDE DEF v, n
  <2>3. v \in [1 .. n -> Frame(t)]
    BY <2>1, <2>2
  <2> QED BY <2>3, <1>1
<1> HIDE DEF v
<1>5. \A i \in DOMAIN w : v[i].path = w[i].path /\ v[i].left = IF i = n THEN w[i].left \ {e} ELSE w[i].left
  BY <1>2, <1>3
<1>6. \A i \in DOMAIN w : \A g : Ahead(t, v[i], g) = Ahead(t, w[i], g)
  BY <1>5 DEF Ahead
<1> HIDE DEF n
<1>7. Rest(t, w) = Rest(t, v) \cup Ahead(t, w[n], e)
  <2>1. ASSUME NEW x \in Rest(t, w) PROVE x \in Rest(t, v) \cup Ahead(t, w[n], e)
    <3>1. PICK i \in DOMAIN w : \E g \in w[i].left : x \in Ahead(t, w[i], g)
      BY <2>1 DEF Rest, Inside
    <3>2. PICK g \in w[i].left : x \in Ahead(t, w[i], g)
      BY <3>1
    <3>3. CASE i = n /\ g = e
      BY <3>2, <3>3
    <3>4. CASE ~(i = n /\ g = e)
      <4>1. g \in v[i].left /\ x \in Ahead(t, v[i], g) /\ i \in DOMAIN v
        BY <3>2, <3>4, <1>2, <1>5, <1>6
      <4> QED BY <4>1 DEF Rest, Inside
    <3> QED BY <3>3, <3>4
  <2>2. ASSUME NEW x \in Rest(t, v) PROVE x \in Rest(t, w)
    <3>1. PICK i \in DOMAIN v : \E g \in v[i].left : x \in Ahead(t, v[i], g)
      BY <2>2 DEF Rest, Inside
    <3>2. PICK g \in v[i].left : x \in Ahead(t, v[i], g)
      BY <3>1
    <3>3. i \in DOMAIN w /\ g \in w[i].left /\ x \in Ahead(t, w[i], g)
      BY <3>2, <1>2, <1>5, <1>6
    <3> QED BY <3>3 DEF Rest, Inside
  <2>3. ASSUME NEW x \in Ahead(t, w[n], e) PROVE x \in Rest(t, w)
    <3>1. n \in DOMAIN w /\ e \in w[n].left
      BY <1>1 DEF n
    <3> QED BY <3>1, <2>3 DEF Rest, Inside
  <2> QED BY <2>1, <2>2, <2>3
<1>10. \A i \in DOMAIN v : i \in DOMAIN w /\ v[i].left \subseteq w[i].left
  BY <1>2, <1>5
<1>8. Apart(t, v, found)
  <2>1. ASSUME NEW i \in DOMAIN v, NEW j \in DOMAIN v, NEW g \in v[i].left, NEW h \in v[j].left, i # j \/ g # h
        PROVE  PathsOf(Ahead(t, v[i], g)) \cap PathsOf(Ahead(t, v[j], h)) = {}
    <3>1. g \in w[i].left /\ h \in w[j].left /\ i \in DOMAIN w /\ j \in DOMAIN w
      BY <1>10
    <3>2. PathsOf(Ahead(t, w[i], g)) \cap PathsOf(Ahead(t, w[j], h)) = {}
      BY <2>1, <3>1 DEF Apart
    <3> QED BY <3>1, <3>2, <1>6
  <2>2. ASSUME NEW i \in DOMAIN v, NEW g \in v[i].left, NEW k \in DOMAIN found
        PROVE  found[k].path \notin PathsOf(Ahead(t, v[i], g))
    <3>1. g \in w[i].left /\ i \in DOMAIN w
      BY <1>10
    <3>2. found[k].path \notin PathsOf(Ahead(t, w[i], g))
      BY <3>1 DEF Apart
    <3> QED BY <3>1, <3>2, <1>6
  <2>3. \A k, l \in DOMAIN found : found[k].path = found[l].path => k = l
    BY DEF Apart
  <2> QED BY <2>1, <2>2, <2>3 DEF Apart
<1>9. ASSUME NEW i \in DOMAIN w, NEW g \in v[i].left
      PROVE  PathsOf(Ahead(t, v[i], g)) \cap PathsOf(Ahead(t, w[n], e)) = {}
  <2>1. g \in w[i].left /\ (i # n \/ g # e) /\ e \in w[n].left /\ n \in DOMAIN w
    BY <1>5, <1>1 DEF n
  <2> QED BY <2>1, <1>6 DEF Apart
<1>11. ApartFrom(t, v, Ahead(t, w[n], e))
  BY <1>2, <1>9 DEF ApartFrom
<1> QED BY <1>4, <1>5, <1>7, <1>8, <1>11 DEF n, v

-----------------------------------------------------------------------------
(* The walk.                                                                *)

(* What the files F hold, as the scanner keeps it. *)
Read(F) == {[path |-> f.path, content |-> f.entry.content] : f \in F}

(* Some of the files below the root are done, each found file among them    *)
(* and none unreadable; the others are ahead.                               *)
Covered(t, w, found) ==
  \E done : /\ Below(t)["root"] = done \cup Rest(t, w)
            /\ \A f \in done : f.entry.is # "unreadable"
            /\ {found[k] : k \in DOMAIN found} = Read(done)

Walking(t, w, found) ==
  /\ w \in Seq(Frame(t))
  /\ found \in Seq([path : Seq(Nat), content : {found[k].content : k \in DOMAIN found}])
  /\ Covered(t, w, found)
  /\ Apart(t, w, found)

WalkInv ==
  /\ tree \in Trees
  /\ tree = NotADirectory => walk = << >>
  /\ verdict = "walking" /\ tree # NotADirectory => Walking(tree, walk, files)
  /\ TableIsDetermined

(* A file below a directory is its path and its entry.                      *)
LEMMA FilesAre ==
  ASSUME NEW t \in Trees, t # NotADirectory, NEW d \in DOMAIN t, NEW f \in Below(t)[d]
  PROVE  f = [path |-> f.path, entry |-> f.entry] /\ f.path \in Seq(Nat)
<1>1. PICK e \in t[d] : f \in Reached(e, Below(t)[e.to])
  BY BelowEquation
<1>2. \E p, q : f = [path |-> p, entry |-> q]
  <2>1. CASE e.is = "dir"
    BY <1>1, <2>1 DEF Reached
  <2>2. CASE e.is # "dir"
    BY <1>1, <2>2 DEF Reached
  <2> QED BY <2>1, <2>2
<1> QED BY <1>2, BelowPaths

(* At the root everything is ahead.                                         *)
LEMMA WalkInit == InitTable => WalkInv
<1> SUFFICES ASSUME InitTable PROVE WalkInv
  OBVIOUS
<1>1. tree \in Trees /\ verdict = "walking" /\ files = << >>
  BY DEF InitTable
<1>2. TableIsDetermined
  BY <1>1 DEF TableIsDetermined, Ended, RiskDataError
<1>3. ASSUME tree # NotADirectory PROVE Walking(tree, walk, files)
  <2> DEFINE top == [path |-> << >>, left |-> tree["root"]]
             B == Below(tree)["root"]
  <2>1. walk = <<top>>
    BY <1>3 DEF InitTable
  <2>2. "root" \in DOMAIN tree
    BY <1>1, <1>3, TreesAssumption
  <2>3. top \in Frame(tree) /\ top.path = << >> /\ top.left = tree["root"] /\ << >> \in Seq(Nat)
    BY <2>2 DEF Frame
  <2> HIDE DEF top
  <2>4. walk \in Seq(Frame(tree)) /\ DOMAIN walk = {1} /\ walk[1] = top
    BY <2>1, <2>3
  <2>5. Rest(tree, walk) = Moved(<< >>, B)
    <3>1. Rest(tree, walk) = UNION {Ahead(tree, top, e) : e \in tree["root"]}
      BY <2>3, <2>4 DEF Rest, Inside
    <3>2. B = UNION {Reached(e, Below(tree)[e.to]) : e \in tree["root"]}
      BY <1>1, <1>3, <2>2, BelowEquation
    <3> QED BY <3>1, <3>2, <2>3 DEF Ahead, Moved
  <2>6. Moved(<< >>, B) = B
    <3>1. \A f \in B : f = [path |-> << >> \o f.path, entry |-> f.entry]
      <4> SUFFICES ASSUME NEW f \in B PROVE f = [path |-> << >> \o f.path, entry |-> f.entry]
        OBVIOUS
      <4>1. f = [path |-> f.path, entry |-> f.entry] /\ f.path \in Seq(Nat)
        BY <1>1, <1>3, <2>2, FilesAre
      <4>2. \A s \in Seq(Nat) : << >> \o s = s
        OBVIOUS
      <4>3. << >> \o f.path = f.path
        BY <4>1, <4>2
      <4> QED BY <4>1, <4>3
    <3> HIDE DEF B
    <3> QED BY <3>1 DEF Moved
  <2>7. Covered(tree, walk, files)
    <3>1. B = {} \cup Rest(tree, walk)
      BY <2>5, <2>6
    <3>2. {files[k] : k \in DOMAIN files} = Read({})
      BY <1>1 DEF Read
    <3> QED BY <3>1, <3>2 DEF Covered
  <2>8. Apart(tree, walk, files)
    <3>1. \A i, j \in DOMAIN walk : i = j /\ walk[i] = top
      BY <2>4
    <3>2. \A e, f \in top.left : e # f => PathsOf(Ahead(tree, top, e)) \cap PathsOf(Ahead(tree, top, f)) = {}
      BY <1>1, <1>3, <2>2, <2>3, Siblings
    <3>3. DOMAIN files = {}
      BY <1>1
    <3> QED BY <3>1, <3>2, <3>3 DEF Apart
  <2> QED BY <1>1, <2>4, <2>7, <2>8 DEF Walking
<1> QED BY <1>1, <1>2, <1>3 DEF WalkInv, InitTable

(* A list with one more file.                                               *)
LEMMA OneMore ==
  ASSUME NEW t, NEW w, NEW found, Walking(t, w, found), NEW path \in Seq(Nat), NEW content,
         NEW v, Apart(t, v, found),
         \A k \in DOMAIN found : found[k].path # path,
         \A i \in DOMAIN v : \A g \in v[i].left : path \notin PathsOf(Ahead(t, v[i], g))
  PROVE  LET more == Append(found, [path |-> path, content |-> content])
         IN  /\ more \in Seq([path : Seq(Nat), content : {more[k].content : k \in DOMAIN more}])
             /\ {more[k] : k \in DOMAIN more}
                  = {found[k] : k \in DOMAIN found} \cup {[path |-> path, content |-> content]}
             /\ Apart(t, v, more)
<1> DEFINE file == [path |-> path, content |-> content]
           more == Append(found, file)
           n == Len(found)
           C == {more[k].content : k \in DOMAIN more}
<1>1. found \in Seq([path : Seq(Nat), content : {found[k].content : k \in DOMAIN found}])
  BY DEF Walking
<1>7. n \in Nat /\ DOMAIN found = 1 .. n
  <2> DEFINE X == [path : Seq(Nat), content : {found[k].content : k \in DOMAIN found}]
  <2>1. found \in Seq(X)
    BY <1>1
  <2> HIDE DEF X
  <2> QED BY <2>1
<1>2. /\ DOMAIN more = 1 .. n + 1 /\ more[n + 1] = file /\ \A k \in 1 .. n : more[k] = found[k]
      /\ file.path = path /\ file.content = content /\ more = [k \in 1 .. n + 1 |-> more[k]]
  <2> DEFINE X == [path : Seq(Nat), content : {found[k].content : k \in DOMAIN found}]
  <2>1. found \in Seq(X)
    BY <1>1
  <2> HIDE DEF X
  <2> QED BY <2>1
<1>8. \A k \in 1 .. n + 1 : k = n + 1 \/ k \in 1 .. n
  <2> HIDE DEF n
  <2> QED BY <1>7
<1> HIDE DEF file, more, n
<1>3. ASSUME NEW k \in 1 .. n + 1 PROVE more[k] \in [path : Seq(Nat), content : C]
  <2>1. more[k].content \in C
    BY <1>2
  <2>2. CASE k = n + 1
    BY <2>1, <2>2, <1>2 DEF file
  <2>3. CASE k # n + 1
    <3>1. k \in 1 .. n /\ more[k] = found[k]
      BY <2>3, <1>8, <1>2
    <3>2. found[k] \in [path : Seq(Nat), content : {found[j].content : j \in DOMAIN found}]
      <4> DEFINE X == [path : Seq(Nat), content : {found[j].content : j \in DOMAIN found}]
      <4>1. found \in Seq(X) /\ k \in DOMAIN found
        BY <3>1, <1>1, <1>7
      <4> HIDE DEF X
      <4>2. found[k] \in X
        BY <4>1
      <4> QED BY <4>2 DEF X
    <3> HIDE DEF C
    <3> QED BY <3>1, <3>2, <2>1
  <2> QED BY <2>2, <2>3
<1>4. more \in Seq([path : Seq(Nat), content : C])
  <2> DEFINE X == [path : Seq(Nat), content : C]
  <2>1. \A k \in 1 .. n + 1 : more[k] \in X
    BY <1>3
  <2> HIDE DEF X
  <2>2. more \in [1 .. n + 1 -> X]
    BY <1>2, <2>1
  <2>3. n + 1 \in Nat
    BY <1>7
  <2>4. more \in Seq(X)
    BY <2>2, <2>3
  <2> QED BY <2>4 DEF X
<1>5. {more[k] : k \in DOMAIN more} = {found[k] : k \in DOMAIN found} \cup {file}
  <2>1. \A k \in DOMAIN more : k = n + 1 \/ k \in DOMAIN found
    BY <1>7, <1>8, <1>2
  <2>2. n + 1 \in DOMAIN more /\ \A k \in DOMAIN found : k \in DOMAIN more
    BY <1>7, <1>2
  <2>3. more[n + 1] = file /\ \A k \in DOMAIN found : more[k] = found[k]
    BY <1>7, <1>2
  <2> HIDE DEF n
  <2> QED BY <2>1, <2>2, <2>3
<1>6. Apart(t, v, more)
  <2>1. \A k \in DOMAIN more : more[k].path = path \/ (k \in DOMAIN found /\ more[k] = found[k])
    BY <1>7, <1>8, <1>2
  <2>2. ASSUME NEW i \in DOMAIN v, NEW e \in v[i].left, NEW k \in DOMAIN more
        PROVE  more[k].path \notin PathsOf(Ahead(t, v[i], e))
    BY <2>1 DEF Apart
  <2>3. ASSUME NEW k \in DOMAIN more, NEW l \in DOMAIN more, more[k].path = more[l].path PROVE k = l
    <3>1. \A i \in DOMAIN more : i = n + 1 \/ (i \in DOMAIN found /\ more[i] = found[i])
      BY <1>7, <1>8, <1>2
    <3>2. more[n + 1].path = path
      BY <1>2
    <3> QED BY <3>1, <3>2, <2>3 DEF Apart
  <2> QED BY <2>2, <2>3 DEF Apart
<1> QED BY <1>4, <1>5, <1>6 DEF more, file

(* What is ahead of an entry, by its kind.                                  *)
LEMMA AheadFile ==
  ASSUME NEW t \in Trees, t # NotADirectory, NEW d \in DOMAIN t, NEW e \in t[d],
         NEW frame, frame.path \in Seq(Nat), e.is \in {"toml", "unreadable"}
  PROVE  /\ frame.path \o <<Slash>> \o e.name \in Seq(Nat)
         /\ Ahead(t, frame, e) = {[path |-> frame.path \o <<Slash>> \o e.name, entry |-> e]}
<1>1. e.name \in Seq(Nat) /\ <<Slash>> \in Seq(Nat)
  BY TreesAssumption DEF Slash
<1> DEFINE p == frame.path
           s == <<Slash>>
           m == e.name
<1>2. p \in Seq(Nat) /\ s \in Seq(Nat) /\ m \in Seq(Nat)
  BY <1>1
<1>3. Reached(e, Below(t)[e.to]) = {[path |-> s \o m, entry |-> e]}
  BY DEF Reached
<1>4. Ahead(t, frame, e) = {[path |-> p \o (s \o m), entry |-> e]}
  <2> DEFINE r == [path |-> s \o m, entry |-> e]
  <2>1. r.path = s \o m /\ r.entry = e
    OBVIOUS
  <2>2. Ahead(t, frame, e) = Moved(p, {r})
    BY <1>3 DEF Ahead
  <2> HIDE DEF r, p, s, m
  <2>3. Moved(p, {r}) = {[path |-> p \o r.path, entry |-> r.entry]}
    BY DEF Moved
  <2> QED BY <2>1, <2>2, <2>3
<1> HIDE DEF p, s, m
<1>5. (p \o s) \o m = p \o (s \o m) /\ (p \o s) \o m \in Seq(Nat)
  BY <1>2, ConcatAssociates
<1> QED BY <1>4, <1>5 DEF p, s, m

(* What is ahead of a directory is inside the frame a step into it pushes.  *)
LEMMA AheadDirectory ==
  ASSUME NEW t \in Trees, t # NotADirectory, NEW d \in DOMAIN t, NEW e \in t[d], e.is = "dir",
         NEW frame, frame.path \in Seq(Nat), NEW inner, inner.path = frame.path \o <<Slash>> \o e.name,
         inner.left = t[e.to]
  PROVE  /\ inner.path \in Seq(Nat)
         /\ Ahead(t, frame, e) = Inside(t, inner)
<1>1. e.name \in Seq(Nat) /\ <<Slash>> \in Seq(Nat) /\ e.to \in DOMAIN t
  BY TreesAssumption DEF Slash
<1> DEFINE p == frame.path
           s == <<Slash>>
           m == e.name
           B == Below(t)[e.to]
<1>2. p \in Seq(Nat) /\ s \in Seq(Nat) /\ m \in Seq(Nat) /\ inner.path = (p \o s) \o m
  BY <1>1
<1>3. Reached(e, B) = {[path |-> (s \o m) \o f.path, entry |-> f.entry] : f \in B}
  BY DEF Reached
<1>4. \A f \in B : f.path \in Seq(Nat)
  BY <1>1, FilesAre
<1>5. B = UNION {Reached(g, Below(t)[g.to]) : g \in inner.left}
  BY <1>1, BelowEquation
<1>6. Ahead(t, frame, e) = Moved(p, Reached(e, B))
  BY DEF Ahead
<1> HIDE DEF p, s, m, B
<1>7. (p \o s) \o m \in Seq(Nat)
  BY <1>2
<1>8. ASSUME NEW u \in Seq(Nat) PROVE p \o ((s \o m) \o u) = ((p \o s) \o m) \o u
  <2>1. s \o m \in Seq(Nat)
    BY <1>2
  <2>2. (p \o s) \o m = p \o (s \o m)
    BY <1>2, ConcatAssociates
  <2>3. (p \o (s \o m)) \o u = p \o ((s \o m) \o u)
    <3> DEFINE v == s \o m
    <3> HIDE DEF v
    <3>1. v \in Seq(Nat) /\ p \in Seq(Nat)
      BY <1>2, <2>1 DEF v
    <3>2. (p \o v) \o u = p \o (v \o u)
      BY <3>1, ConcatAssociates
    <3> QED BY <3>2 DEF v
  <2> QED BY <2>2, <2>3
<1>9. Moved(p, Reached(e, B)) = Moved(inner.path, B)
  <2> DEFINE at(f) == [path |-> p \o ((s \o m) \o f.path), entry |-> f.entry]
  <2>1. Moved(p, Reached(e, B)) = {at(f) : f \in B}
    <3> DEFINE r(f) == [path |-> (s \o m) \o f.path, entry |-> f.entry]
    <3>1. \A f \in B : at(f) = [path |-> p \o r(f).path, entry |-> r(f).entry]
      OBVIOUS
    <3>2. Reached(e, B) = {r(f) : f \in B}
      BY <1>3
    <3> HIDE DEF r, at
    <3>3. Moved(p, {r(f) : f \in B}) = {[path |-> p \o r(f).path, entry |-> r(f).entry] : f \in B}
      BY DEF Moved
    <3> QED BY <3>1, <3>2, <3>3
  <2>2. \A f \in B : at(f) = [path |-> inner.path \o f.path, entry |-> f.entry]
    BY <1>2, <1>4, <1>8
  <2> HIDE DEF at
  <2> QED BY <2>1, <2>2 DEF Moved
<1>10. Moved(inner.path, B) = UNION {Ahead(t, inner, g) : g \in inner.left}
  <2> DEFINE R(g) == Reached(g, Below(t)[g.to])
             q == inner.path
             L == inner.left
  <2>1. B = UNION {R(g) : g \in L}
    BY <1>5
  <2>2. \A g : Ahead(t, inner, g) = Moved(q, R(g))
    BY DEF Ahead
  <2> HIDE DEF R, q, L
  <2>3. Moved(q, UNION {R(g) : g \in L}) = UNION {Moved(q, R(g)) : g \in L}
    <3> DEFINE at(f) == [path |-> q \o f.path, entry |-> f.entry]
    <3>1. \A F : Moved(q, F) = {at(f) : f \in F}
      BY DEF Moved
    <3> HIDE DEF at
    <3>2. {at(f) : f \in UNION {R(g) : g \in L}} = UNION {{at(f) : f \in R(g)} : g \in L}
      OBVIOUS
    <3> QED BY <3>1, <3>2
  <2>4. Moved(q, B) = UNION {Ahead(t, inner, g) : g \in L}
    BY <2>1, <2>2, <2>3
  <2> QED BY <2>4 DEF q, L
<1> QED BY <1>2, <1>6, <1>7, <1>9, <1>10 DEF Inside

(* A step into a directory: what was behind the entry is ahead of the new   *)
(* frame, and nothing else changes.                                         *)
LEMMA StepsIn ==
  ASSUME NEW t \in Trees, t # NotADirectory, NEW w, NEW found, Walking(t, w, found), w # << >>,
         NEW e \in w[Len(w)].left, e.is = "dir",
         NEW inner, inner.path = w[Len(w)].path \o <<Slash>> \o e.name, inner.left = t[e.to],
         inner \in [path : {inner.path}, left : {inner.left}]
  PROVE  Walking(t, Append(Without(w, e), inner), found)
<1> DEFINE n == Len(w)
           u == Without(w, e)
           v == Append(u, inner)
<1>1. w \in Seq(Frame(t)) /\ Covered(t, w, found) /\ Apart(t, w, found)
  BY DEF Walking
<1>2. n \in Nat /\ n \in DOMAIN w /\ DOMAIN w = 1 .. n /\ w[n] \in Frame(t)
  BY <1>1
<1>3. /\ u \in Seq(Frame(t)) /\ Len(u) = n
      /\ Rest(t, w) = Rest(t, u) \cup Ahead(t, w[n], e)
      /\ Apart(t, u, found)
      /\ ApartFrom(t, u, Ahead(t, w[n], e))
  BY <1>1, OneTaken
<1>4. w[n].path \in Seq(Nat) /\ \E d \in DOMAIN t : w[n].left \subseteq t[d]
  BY <1>2 DEF Frame
<1>5. PICK d \in DOMAIN t : e \in t[d]
  BY <1>4
<1>6. e.to \in DOMAIN t /\ inner.left = t[e.to] /\ inner.path = w[n].path \o <<Slash>> \o e.name
  BY <1>5, TreesAssumption
<1>7. /\ inner.path \in Seq(Nat)
      /\ Ahead(t, w[n], e) = Inside(t, inner)
  <2> DEFINE frame == w[n]
  <2>1. frame.path \in Seq(Nat) /\ inner.path = frame.path \o <<Slash>> \o e.name
    BY <1>4, <1>6
  <2> HIDE DEF frame
  <2>3. ASSUME NEW x, x.path = frame.path \o <<Slash>> \o e.name, x.left = t[e.to]
        PROVE  x.path \in Seq(Nat) /\ Ahead(t, frame, e) = Inside(t, x)
    <3>1. /\ t # NotADirectory /\ d \in DOMAIN t /\ e \in t[d] /\ e.is = "dir" /\ frame.path \in Seq(Nat)
          /\ x.path = frame.path \o <<Slash>> \o e.name /\ x.left = t[e.to]
      BY <2>1, <2>3, <1>5
    <3> QED BY <3>1, AheadDirectory
  <2>2. inner.path \in Seq(Nat) /\ Ahead(t, frame, e) = Inside(t, inner)
    BY <2>1, <2>3, <1>6
  <2> QED BY <2>2 DEF frame
<1>8. inner \in Frame(t)
  <2>1. inner \in [path : Seq(Nat), left : SUBSET UNION {t[c] : c \in DOMAIN t}]
    BY <1>6, <1>7
  <2> QED BY <2>1, <1>6 DEF Frame
<1> HIDE DEF n, u
<1>9. /\ v \in Seq(Frame(t)) /\ DOMAIN v = 1 .. n + 1 /\ v[n + 1] = inner
      /\ \A i \in 1 .. n : v[i] = u[i] /\ i \in DOMAIN u /\ i \in DOMAIN w
      /\ DOMAIN u = 1 .. n
  <2>1. u \in Seq(Frame(t)) /\ Len(u) = n
    BY <1>3
  <2>2. DOMAIN u = 1 .. n /\ v \in Seq(Frame(t)) /\ DOMAIN v = 1 .. n + 1
    BY <2>1, <1>8
  <2>3. v[n + 1] = inner
    BY <2>1, <1>8
  <2>4. ASSUME NEW i \in 1 .. n PROVE v[i] = u[i]
    BY <2>1, <1>8, <1>2
  <2> QED BY <2>2, <2>3, <2>4, <1>2
<1>10. \A i \in DOMAIN v : i = n + 1 \/ i \in 1 .. n
  BY <1>2, <1>9
<1>11. n + 1 \in DOMAIN v /\ (\A i \in 1 .. n : i \in DOMAIN v /\ i # n + 1)
  BY <1>2, <1>9
<1> HIDE DEF v
<1>12. Rest(t, v) = Rest(t, w)
  <2> DEFINE part(x, i) == Inside(t, x[i])
  <2>1. Rest(t, v) = UNION {part(v, i) : i \in DOMAIN v} /\ Rest(t, u) = UNION {part(u, i) : i \in 1 .. n}
    BY <1>9 DEF Rest
  <2>2. part(v, n + 1) = Ahead(t, w[n], e)
    BY <1>7, <1>9
  <2>3. \A i \in 1 .. n : part(v, i) = part(u, i)
    BY <1>9
  <2> HIDE DEF part
  <2>4. Rest(t, v) = (UNION {part(u, i) : i \in 1 .. n}) \cup part(v, n + 1)
    BY <2>1, <2>3, <1>10, <1>11
  <2> QED BY <2>1, <2>2, <2>4, <1>3
<1>13. Covered(t, v, found)
  BY <1>1, <1>12 DEF Covered
<1>14. \A g \in inner.left : PathsOf(Ahead(t, inner, g)) \subseteq PathsOf(Ahead(t, w[n], e))
  BY <1>7 DEF PathsOf, Inside
<1>15. Apart(t, v, found)
  <2>1. ASSUME NEW i \in DOMAIN v, NEW j \in DOMAIN v, NEW g \in v[i].left, NEW h \in v[j].left, i # j \/ g # h
        PROVE  PathsOf(Ahead(t, v[i], g)) \cap PathsOf(Ahead(t, v[j], h)) = {}
    <3>1. CASE i \in 1 .. n /\ j \in 1 .. n
      BY <2>1, <3>1, <1>3, <1>9 DEF Apart
    <3>2. CASE i \in 1 .. n /\ j = n + 1
      <4>1. PathsOf(Ahead(t, v[i], g)) \cap PathsOf(Ahead(t, w[n], e)) = {}
        BY <3>2, <1>3, <1>9 DEF ApartFrom
      <4> QED BY <4>1, <3>2, <1>9, <1>14
    <3>3. CASE j \in 1 .. n /\ i = n + 1
      <4>1. PathsOf(Ahead(t, v[j], h)) \cap PathsOf(Ahead(t, w[n], e)) = {}
        BY <3>3, <1>3, <1>9 DEF ApartFrom
      <4> QED BY <4>1, <3>3, <1>9, <1>14
    <3>4. CASE i = n + 1 /\ j = n + 1
      <4>1. g \in t[e.to] /\ h \in t[e.to] /\ g # h /\ v[i] = inner /\ v[j] = inner
        BY <2>1, <3>4, <1>6, <1>9
      <4> QED BY <4>1, <1>6, <1>7, Siblings
    <3> QED BY <3>1, <3>2, <3>3, <3>4, <1>10
  <2>2. ASSUME NEW i \in DOMAIN v, NEW g \in v[i].left, NEW k \in DOMAIN found
        PROVE  found[k].path \notin PathsOf(Ahead(t, v[i], g))
    <3>1. CASE i \in 1 .. n
      BY <3>1, <1>3, <1>9 DEF Apart
    <3>2. CASE i = n + 1
      <4>1. found[k].path \notin PathsOf(Ahead(t, w[n], e))
        BY <1>1, <1>2 DEF Apart, n
      <4> QED BY <4>1, <3>2, <1>9, <1>14
    <3> QED BY <3>1, <3>2, <1>10
  <2>3. \A k, l \in DOMAIN found : found[k].path = found[l].path => k = l
    BY <1>1 DEF Apart
  <2> QED BY <2>1, <2>2, <2>3 DEF Apart
<1> QED BY <1>9, <1>13, <1>15 DEF Walking, v, u

(* A file that is passed over.                                              *)
LEMMA PassesOver ==
  ASSUME NEW t \in Trees, t # NotADirectory, NEW w, NEW found, Walking(t, w, found), w # << >>,
         NEW e \in w[Len(w)].left, e.is = "other"
  PROVE  Walking(t, Without(w, e), found)
<1>1. w \in Seq(Frame(t)) /\ Covered(t, w, found) /\ Apart(t, w, found)
  BY DEF Walking
<1>2. /\ Without(w, e) \in Seq(Frame(t))
      /\ Rest(t, w) = Rest(t, Without(w, e)) \cup Ahead(t, w[Len(w)], e)
      /\ Apart(t, Without(w, e), found)
  BY <1>1, OneTaken
<1>3. Ahead(t, w[Len(w)], e) = {}
  BY DEF Ahead, Moved, Reached
<1>4. Covered(t, Without(w, e), found)
  BY <1>1, <1>2, <1>3 DEF Covered
<1> QED BY <1>2, <1>4 DEF Walking

(* A file that is read.                                                     *)
LEMMA ReadsOne ==
  ASSUME NEW t \in Trees, t # NotADirectory, NEW w, NEW found, Walking(t, w, found), w # << >>,
         NEW e \in w[Len(w)].left, e.is = "toml"
  PROVE  Walking(t, Without(w, e),
                 Append(found, [path |-> w[Len(w)].path \o <<Slash>> \o e.name, content |-> e.content]))
<1> DEFINE n == Len(w)
           v == Without(w, e)
           path == w[n].path \o <<Slash>> \o e.name
           more == Append(found, [path |-> path, content |-> e.content])
           file == [path |-> path, entry |-> e]
<1>1. w \in Seq(Frame(t)) /\ Covered(t, w, found) /\ Apart(t, w, found)
  BY DEF Walking
<1>2. n \in DOMAIN w /\ w[n] \in Frame(t)
  BY <1>1
<1>3. /\ v \in Seq(Frame(t)) /\ Len(v) = n
      /\ Rest(t, w) = Rest(t, v) \cup Ahead(t, w[n], e)
      /\ Apart(t, v, found)
      /\ ApartFrom(t, v, Ahead(t, w[n], e))
  BY <1>1, OneTaken
<1>4. DOMAIN v = DOMAIN w
  BY <1>1, <1>3
<1>5. w[n].path \in Seq(Nat) /\ \E d \in DOMAIN t : w[n].left \subseteq t[d]
  BY <1>2 DEF Frame
<1>6. path \in Seq(Nat) /\ Ahead(t, w[n], e) = {file}
  <2> DEFINE frame == w[n]
  <2>1. frame.path \in Seq(Nat) /\ \E d \in DOMAIN t : e \in t[d]
    BY <1>5
  <2> HIDE DEF frame
  <2>2. /\ frame.path \o <<Slash>> \o e.name \in Seq(Nat)
        /\ Ahead(t, frame, e) = {[path |-> frame.path \o <<Slash>> \o e.name, entry |-> e]}
    BY <2>1, AheadFile
  <2> QED BY <2>2 DEF frame
<1>7. file.path = path /\ file.entry = e
  OBVIOUS
<1> HIDE DEF file, path, v
<1>8. PathsOf(Ahead(t, w[n], e)) = {path}
  BY <1>6, <1>7 DEF PathsOf
<1>9. \A k \in DOMAIN found : found[k].path # path
  BY <1>1, <1>2, <1>8 DEF Apart
<1>10. \A i \in DOMAIN v : \A g \in v[i].left : path \notin PathsOf(Ahead(t, v[i], g))
  BY <1>3, <1>8 DEF ApartFrom
<1>11. /\ more \in Seq([path : Seq(Nat), content : {more[k].content : k \in DOMAIN more}])
       /\ {more[k] : k \in DOMAIN more} = {found[k] : k \in DOMAIN found} \cup {[path |-> path, content |-> e.content]}
       /\ Apart(t, v, more)
  BY <1>3, <1>6, <1>9, <1>10, OneMore
<1> HIDE DEF more
<1>12. Covered(t, v, more)
  <2>1. PICK done : /\ Below(t)["root"] = done \cup Rest(t, w)
                    /\ \A f \in done : f.entry.is # "unreadable"
                    /\ {found[k] : k \in DOMAIN found} = Read(done)
    BY <1>1 DEF Covered
  <2>2. Below(t)["root"] = (done \cup {file}) \cup Rest(t, v)
    BY <2>1, <1>3, <1>6
  <2>3. \A f \in done \cup {file} : f.entry.is # "unreadable"
    BY <2>1, <1>7
  <2>4. {more[k] : k \in DOMAIN more} = Read(done \cup {file})
    <3>1. Read(done \cup {file}) = Read(done) \cup {[path |-> file.path, content |-> file.entry.content]}
      BY DEF Read
    <3> QED BY <3>1, <2>1, <1>7, <1>11
  <2> QED BY <2>2, <2>3, <2>4 DEF Covered
<1> QED BY <1>3, <1>11, <1>12 DEF Walking, more, path, v

(* A directory that is left.                                                *)
LEMMA Leaves ==
  ASSUME NEW t, NEW w, NEW found, Walking(t, w, found), w # << >>, w[Len(w)].left = {}
  PROVE  Walking(t, Front(w), found)
<1> DEFINE n == Len(w)
           v == Front(w)
<1>1. w \in Seq(Frame(t)) /\ Covered(t, w, found) /\ Apart(t, w, found)
  BY DEF Walking
<1>2. n \in Nat \ {0} /\ DOMAIN w = 1 .. n
  BY <1>1
<1>3. v \in Seq(Frame(t)) /\ DOMAIN v = 1 .. n - 1 /\ \A i \in DOMAIN v : v[i] = w[i]
  BY <1>1, <1>2 DEF Front
<1> HIDE DEF v
<1>4. \A i \in DOMAIN w : i \in DOMAIN v \/ w[i].left = {}
  <2>1. \A i \in DOMAIN w : i = n \/ i \in 1 .. n - 1
    <3> HIDE DEF n
    <3> QED BY <1>2
  <2> QED BY <2>1, <1>3
<1>5. \A i \in DOMAIN v : i \in DOMAIN w
  <2> HIDE DEF n
  <2> QED BY <1>2, <1>3
<1>6. Rest(t, v) = Rest(t, w)
  <2> DEFINE part(x, i) == Inside(t, x[i])
  <2>1. \A i \in DOMAIN v : part(v, i) = part(w, i)
    BY <1>3
  <2>2. \A i \in DOMAIN w : i \in DOMAIN v \/ part(w, i) = {}
    BY <1>4 DEF Inside
  <2>3. Rest(t, v) = UNION {part(v, i) : i \in DOMAIN v} /\ Rest(t, w) = UNION {part(w, i) : i \in DOMAIN w}
    BY DEF Rest
  <2> HIDE DEF part
  <2> QED BY <2>1, <2>2, <2>3, <1>5
<1>7. Covered(t, v, found)
  BY <1>1, <1>6 DEF Covered
<1>8. Apart(t, v, found)
  <2>1. ASSUME NEW i \in DOMAIN v, NEW j \in DOMAIN v, NEW g \in v[i].left, NEW h \in v[j].left, i # j \/ g # h
        PROVE  PathsOf(Ahead(t, v[i], g)) \cap PathsOf(Ahead(t, v[j], h)) = {}
    BY <2>1, <1>1, <1>3, <1>5 DEF Apart
  <2>2. ASSUME NEW i \in DOMAIN v, NEW g \in v[i].left, NEW k \in DOMAIN found
        PROVE  found[k].path \notin PathsOf(Ahead(t, v[i], g))
    BY <1>1, <1>3, <1>5 DEF Apart
  <2>3. \A k, l \in DOMAIN found : found[k].path = found[l].path => k = l
    BY <1>1 DEF Apart
  <2> QED BY <2>1, <2>2, <2>3 DEF Apart
<1> QED BY <1>3, <1>7, <1>8, <1>1 DEF Walking, v

(* At the end of the walk the files found are the files there are, in the   *)
(* order of their paths once they are sorted.                               *)
LEMMA AllFound ==
  ASSUME tree \in Trees, tree # NotADirectory, Walking(tree, << >>, files)
  PROVE  /\ \A f \in Files : f.entry.is # "unreadable"
         /\ Sorted(files) = Sources
         /\ files = << >> <=> Sources = << >>
         /\ Filed(Read(Files))
<1> DEFINE found == {[path |-> f.path, content |-> f.entry.content] : f \in Files}
           X == [path : Seq(Nat), content : {files[k].content : k \in DOMAIN files}]
<1>1. Rest(tree, << >>) = {}
  BY DEF Rest
<1>2. PICK done : /\ Files = done
                  /\ \A f \in done : f.entry.is # "unreadable"
                  /\ {files[k] : k \in DOMAIN files} = Read(done)
  BY <1>1 DEF Walking, Covered, Files
<1>3. found = {files[k] : k \in DOMAIN files}
  BY <1>2 DEF Read
<1>4. files \in Seq(X) /\ \A i, j \in DOMAIN files : files[i].path = files[j].path => i = j
  BY DEF Walking, Apart
<1>5. \A k \in DOMAIN files : files[k].path \in Seq(Nat)
  <2>1. \A x \in X : x.path \in Seq(Nat)
    OBVIOUS
  <2> HIDE DEF X
  <2>2. \A k \in DOMAIN files : files[k] \in X
    BY <1>4
  <2> QED BY <2>1, <2>2
<1>6. Sources = ByPath(found)
  BY DEF Sources, ByPath, Preceding
<1> HIDE DEF found
<1>7. files \in Seq(found)
  <2> HIDE DEF X
  <2>1. Len(files) \in Nat /\ DOMAIN files = 1 .. Len(files) /\ files = [k \in 1 .. Len(files) |-> files[k]]
    BY <1>4
  <2>2. files \in [1 .. Len(files) -> found]
    BY <2>1, <1>3
  <2> QED BY <2>1, <2>2
<1>8. Sorted(files) = ByPath(found) /\ Cardinality(found) = Len(files) /\ Filed(found)
  <2>1. \A x \in found : \E i \in DOMAIN files : files[i] = x
    BY <1>3
  <2>2. \A x \in found : x.path \in Seq(Nat)
    BY <1>3, <1>5
  <2> QED BY <1>4, <1>7, <2>1, <2>2, SortedByPath
<1>9. DOMAIN Sorted(files) = DOMAIN files
  BY DEF Sorted
<1>10. files = << >> <=> Sorted(files) = << >>
  <2>1. ASSUME files = << >> PROVE Sorted(files) = << >>
    <3>1. Sorted(files) = [n \in DOMAIN files |-> Sorted(files)[n]]
      BY DEF Sorted
    <3> QED BY <3>1, <2>1
  <2>2. ASSUME Sorted(files) = << >> PROVE files = << >>
    <3>1. DOMAIN files = {}
      BY <1>9, <2>2
    <3>2. files \in Seq(found)
      BY <1>7
    <3> QED BY <3>1, <3>2
  <2> QED BY <2>1, <2>2
<1>11. found = Read(Files)
  BY DEF found, Read
<1> QED BY <1>2, <1>6, <1>8, <1>10, <1>11

(* An entry the walk cannot read is one of the files below the root.        *)
LEMMA UnreadableIsThere ==
  ASSUME NEW t \in Trees, t # NotADirectory, NEW w, NEW found, Walking(t, w, found), w # << >>,
         NEW e \in w[Len(w)].left, e.is = "unreadable"
  PROVE  \E f \in Below(t)["root"] : f.entry.is = "unreadable"
<1> DEFINE frame == w[Len(w)]
           file == [path |-> frame.path \o <<Slash>> \o e.name, entry |-> e]
<1>1. w \in Seq(Frame(t)) /\ Covered(t, w, found)
  BY DEF Walking
<1>2. Len(w) \in DOMAIN w /\ frame \in Frame(t) /\ e \in frame.left
  BY <1>1
<1>3. frame.path \in Seq(Nat) /\ \E d \in DOMAIN t : e \in t[d]
  BY <1>2 DEF Frame
<1>4. file.entry = e
  OBVIOUS
<1>5. Ahead(t, frame, e) = {file}
  <2> HIDE DEF frame
  <2> QED BY <1>3, AheadFile
<1> HIDE DEF file
<1>6. file \in Rest(t, w)
  <2>1. file \in Inside(t, frame)
    BY <1>2, <1>5 DEF Inside
  <2> QED BY <2>1, <1>2 DEF Rest
<1>7. file \in Below(t)["root"]
  BY <1>1, <1>6 DEF Covered
<1> QED BY <1>4, <1>7

-----------------------------------------------------------------------------
(* The steps of the walk, and what follows it.                              *)

(* A step that leaves the walk walking keeps the invariant if it keeps what *)
(* the walk has found and what is ahead of it.                              *)
LEMMA WalksOn ==
  ASSUME WalkInv, tree # NotADirectory, tree' = tree, verdict' = "walking", Walking(tree, walk', files')
  PROVE  WalkInv'
<1>1. TableIsDetermined'
  BY DEF TableIsDetermined, Ended, RiskDataError
<1> QED BY <1>1 DEF WalkInv

(* An entry is visited.                                                     *)
LEMMA VisitKeeps ==
  ASSUME WalkInv, walk # << >>, NEW entry \in Last(walk).left, Visit(entry)
  PROVE  WalkInv'
<1> DEFINE top == walk[Len(walk)]
           path == top.path \o <<Slash>> \o entry.name
           here == Without(walk, entry)
           inner == [path |-> path, left |-> tree[entry.to]]
<1>1. /\ tree \in Trees /\ tree # NotADirectory /\ verdict = "walking"
      /\ Walking(tree, walk, files) /\ tree' = tree
  BY DEF WalkInv, Visit
<1>2. entry \in walk[Len(walk)].left
  BY DEF Last
<1>3. CASE entry.is = "dir" /\ walk' = Append(here, inner) /\ files' = files /\ verdict' = verdict
  <2>1. /\ inner.path = walk[Len(walk)].path \o <<Slash>> \o entry.name
        /\ inner.left = tree[entry.to]
        /\ inner \in [path : {inner.path}, left : {inner.left}]
    OBVIOUS
  <2> HIDE DEF inner
  <2>2. Walking(tree, Append(here, inner), files)
    BY <1>1, <1>2, <1>3, <2>1, StepsIn
  <2> HIDE DEF here
  <2> QED BY <1>1, <1>3, <2>2, WalksOn
<1>4. CASE /\ entry.is = "toml" /\ walk' = here /\ verdict' = verdict
           /\ files' = Append(files, [path |-> path, content |-> entry.content])
  <2>1. Walking(tree, here, Append(files, [path |-> path, content |-> entry.content]))
    BY <1>1, <1>2, <1>4, ReadsOne
  <2> HIDE DEF here, path
  <2> QED BY <1>1, <1>4, <2>1, WalksOn
<1>5. CASE entry.is = "other" /\ walk' = here /\ files' = files /\ verdict' = verdict
  <2>1. Walking(tree, here, files)
    BY <1>1, <1>2, <1>5, PassesOver
  <2> HIDE DEF here
  <2> QED BY <1>1, <1>5, <2>1, WalksOn
<1>6. CASE entry.is = "unreadable" /\ verdict' = "Io" /\ walk' = walk /\ files' = files
  <2>1. \E f \in Files : f.entry.is = "unreadable"
    BY <1>1, <1>2, <1>6, UnreadableIsThere DEF Files
  <2>2. Files' = Files
    BY <1>1 DEF Files
  <2>3. TableIsDetermined'
    BY <1>1, <1>6, <2>1, <2>2 DEF TableIsDetermined
  <2> QED BY <1>1, <1>6, <2>3 DEF WalkInv
<1> QED BY <1>3, <1>4, <1>5, <1>6 DEF Visit, Last, Without

(* A directory is left.                                                     *)
LEMMA LeaveKeeps == WalkInv /\ LeaveDirectory => WalkInv'
<1> SUFFICES ASSUME WalkInv, LeaveDirectory PROVE WalkInv'
  OBVIOUS
<1>1. /\ tree # NotADirectory /\ verdict' = "walking" /\ tree' = tree /\ files' = files
      /\ Walking(tree, walk, files) /\ walk # << >> /\ walk[Len(walk)].left = {} /\ walk' = Front(walk)
  BY DEF WalkInv, LeaveDirectory, Last
<1>2. Walking(tree, Front(walk), files)
  BY <1>1, Leaves
<1> QED BY <1>1, <1>2, WalksOn

(* There is no root.                                                        *)
LEMMA RefuseKeeps == WalkInv /\ RefuseRoot => WalkInv'
<1> SUFFICES ASSUME WalkInv, RefuseRoot PROVE WalkInv'
  OBVIOUS
<1>1. TableIsDetermined'
  BY DEF RefuseRoot, TableIsDetermined
<1> QED BY <1>1 DEF WalkInv, RefuseRoot

(* The table is generated from the files found, which are those there are.  *)
LEMMA GenerateKeeps == WalkInv /\ Generate => WalkInv'
<1> SUFFICES ASSUME WalkInv, Generate PROVE WalkInv'
  OBVIOUS
<1>1. /\ tree \in Trees /\ tree # NotADirectory /\ walk = << >> /\ Walking(tree, << >>, files)
      /\ tree' = tree /\ walk' = walk /\ files' = files
  BY DEF WalkInv, Generate
<1>2. /\ \A f \in Files : f.entry.is # "unreadable"
      /\ Sorted(files) = Sources
      /\ files = << >> <=> Sources = << >>
  BY <1>1, AllFound
<1>3. Files' = Files /\ Sources' = Sources
  BY <1>1 DEF Files, Sources
<1>4. \/ Sources = << >> /\ verdict' = "NoTomlFiles"
      \/ Sources # << >> /\ Parsed(Sources) = "ok" /\ verdict' = "built" /\ table' = Grouped(Merged(Sources))
      \/ Sources # << >> /\ Parsed(Sources) # "ok" /\ verdict' = Parsed(Sources)
  BY <1>2 DEF Generate
<1>5. TableIsDetermined'
  BY <1>1, <1>2, <1>3, <1>4 DEF TableIsDetermined
<1> QED BY <1>1, <1>5 DEF WalkInv

(* Every step keeps the invariant.                                          *)
LEMMA WalkNext == WalkInv /\ [NextTable]_table_vars => WalkInv'
<1> SUFFICES ASSUME WalkInv, [NextTable]_table_vars PROVE WalkInv'
  OBVIOUS
<1>1. CASE RefuseRoot
  BY <1>1, RefuseKeeps
<1>2. CASE walk # << >> /\ \E entry \in Last(walk).left : Visit(entry)
  BY <1>2, VisitKeeps
<1>3. CASE LeaveDirectory
  BY <1>3, LeaveKeeps
<1>4. CASE Generate
  BY <1>4, GenerateKeeps
<1>5. CASE UNCHANGED table_vars
  BY <1>5 DEF WalkInv, table_vars, TableIsDetermined, Ended, Files, Sources
<1> QED BY <1>1, <1>2, <1>3, <1>4, <1>5 DEF NextTable

(* The table, or the error in its place, is the one the files give when     *)
(* they are taken in the order of their paths, for every set of finite      *)
(* trees, however deep, and whatever the files hold: the order the file     *)
(* system lists the entries in does not show (codegen/scanner.rs:58).       *)
THEOREM TableDetermined == SpecTable => []TableIsDetermined
<1>1. WalkInv => TableIsDetermined
  BY DEF WalkInv
<1> QED BY WalkInit, WalkNext, <1>1, PTL DEF SpecTable

-----------------------------------------------------------------------------
(* Sequences of sequences, and the sequence of all their elements.          *)

(* FlattenSeq, of the library, one layer more. *)
LEMMA FlattenIs ==
  ASSUME NEW S, NEW seqs \in Seq(Seq(S))
  PROVE  \E f : /\ \A i \in 1 .. Len(seqs) : f[i] = IF i = 1 THEN seqs[i] ELSE f[i - 1] \o seqs[i]
                /\ Len(seqs) # 0 => FlattenSeq(seqs) = f[Len(seqs)]
<1> DEFINE N == Len(seqs)
           F(i, r) == IF i = 1 THEN seqs[i] ELSE r[i - 1] \o seqs[i]
           Solved(n) == \E r : r = [i \in 1 .. N |-> r[i]] /\ \A i \in 1 .. N : i <= n => r[i] = F(i, r)
           T == {n \in Nat : n <= N => Solved(n)}
<1>0. N \in Nat
  OBVIOUS
<1> HIDE DEF N
<1>1. 0 \in T
  <2>1. \A i \in 1 .. N : ~(i <= 0)
    BY <1>0
  <2>2. Solved(0)
    <3> DEFINE r == [i \in 1 .. N |-> 0]
    <3>1. r = [i \in 1 .. N |-> r[i]]
      OBVIOUS
    <3> HIDE DEF r
    <3> QED BY <3>1, <2>1
  <2> HIDE DEF Solved
  <2> QED BY <2>2
<1>2. ASSUME NEW n \in T PROVE n + 1 \in T
  <2> SUFFICES ASSUME n + 1 <= N PROVE Solved(n + 1)
    <3> HIDE DEF Solved
    <3> QED OBVIOUS
  <2>0. Solved(n)
    <3> HIDE DEF Solved
    <3> QED BY <1>0
  <2>1. PICK r : r = [i \in 1 .. N |-> r[i]] /\ \A i \in 1 .. N : i <= n => r[i] = F(i, r)
    BY <2>0
  <2> DEFINE q == [i \in 1 .. N |-> IF i = n + 1 THEN F(i, r) ELSE r[i]]
  <2>2. n \in Nat /\ n + 1 \in 1 .. N
    BY <1>0
  <2>3. \A i \in 1 .. N : i # n + 1 => q[i] = r[i]
    OBVIOUS
  <2>4. q[n + 1] = F(n + 1, r)
    BY <2>2
  <2>5. q = [i \in 1 .. N |-> q[i]]
    OBVIOUS
  <2> HIDE DEF q
  <2>6. ASSUME NEW i \in 1 .. N, i <= n + 1 PROVE q[i] = F(i, r) /\ F(i, q) = F(i, r)
    <3>1. q[i] = F(i, r)
      <4>1. i = n + 1 \/ i <= n
        BY <2>2, <2>6
      <4> QED BY <4>1, <2>1, <2>2, <2>3, <2>4
    <3>2. CASE i = 1
      BY <3>1, <3>2
    <3>3. CASE i # 1
      <4>1. i - 1 \in 1 .. N /\ i - 1 # n + 1
        BY <3>3, <2>2, <2>6, <1>0
      <4> QED BY <3>1, <3>3, <4>1, <2>3
    <3> QED BY <3>2, <3>3
  <2> HIDE DEF F
  <2>7. \A i \in 1 .. N : i <= n + 1 => q[i] = F(i, q)
    BY <2>6
  <2> QED BY <2>5, <2>7
<1>3. N \in T
  <2> HIDE DEF T
  <2>1. T \in SUBSET Nat
    BY DEF T
  <2>2. T = Nat
    BY <1>1, <1>2, <2>1, Induct
  <2> QED BY <2>2, <1>0
<1>4. \E r : r = [i \in 1 .. N |-> F(i, r)]
  <2>1. Solved(N)
    <3> HIDE DEF Solved
    <3> QED BY <1>3, <1>0
  <2>2. PICK r : r = [i \in 1 .. N |-> r[i]] /\ \A i \in 1 .. N : i <= N => r[i] = F(i, r)
    BY <2>1
  <2>3. \A i \in 1 .. N : r[i] = F(i, r)
    <3>1. \A i \in 1 .. N : i <= N
      BY <1>0
    <3> HIDE DEF F
    <3> QED BY <2>2, <3>1
  <2> HIDE DEF F
  <2>4. [i \in 1 .. N |-> F(i, r)] = [i \in 1 .. N |-> r[i]]
    BY <2>3
  <2> QED BY <2>2, <2>4
<1> DEFINE f == CHOOSE r : r = [i \in 1 .. N |-> F(i, r)]
<1>5. Len(seqs) # 0 => FlattenSeq(seqs) = f[N]
  BY Zenon DEF FlattenSeq, N
<1>6. \A i \in 1 .. N : f[i] = F(i, f)
  <2> HIDE DEF F
  <2>1. f = [i \in 1 .. N |-> F(i, f)]
    BY <1>4
  <2> HIDE DEF f
  <2> QED BY <2>1
<1> HIDE DEF f
<1> QED BY <1>5, <1>6 DEF N

(* One sequence more is appended to the whole.                              *)
LEMMA FlattenAppend ==
  ASSUME NEW S, NEW seqs \in Seq(Seq(S)), NEW last \in Seq(S)
  PROVE  /\ FlattenSeq(seqs) \in Seq(S)
         /\ FlattenSeq(Append(seqs, last)) = FlattenSeq(seqs) \o last
<1> DEFINE more == Append(seqs, last)
           N == Len(seqs)
<1>0. /\ N \in Nat /\ more \in Seq(Seq(S)) /\ Len(more) = N + 1 /\ more[N + 1] = last
      /\ \A i \in 1 .. N : more[i] = seqs[i] /\ seqs[i] \in Seq(S)
  OBVIOUS
<1>1. PICK f : /\ \A i \in 1 .. Len(seqs) : f[i] = IF i = 1 THEN seqs[i] ELSE f[i - 1] \o seqs[i]
               /\ Len(seqs) # 0 => FlattenSeq(seqs) = f[Len(seqs)]
  BY FlattenIs
<1> HIDE DEF more
<1>2. PICK h : /\ \A i \in 1 .. Len(more) : h[i] = IF i = 1 THEN more[i] ELSE h[i - 1] \o more[i]
               /\ Len(more) # 0 => FlattenSeq(more) = h[Len(more)]
  BY <1>0, FlattenIs
<1>3. FlattenSeq(more) = h[N + 1]
  BY <1>0, <1>2
<1>4. CASE N = 0
  <2>1. seqs = << >> /\ FlattenSeq(seqs) = << >>
    BY <1>4 DEF FlattenSeq
  <2>2. h[1] = last
    BY <1>0, <1>2, <1>4
  <2>3. FlattenSeq(more) = last
    BY <2>2, <1>3, <1>4
  <2>4. << >> \in Seq(S) /\ << >> \o last = last
    OBVIOUS
  <2> QED BY <2>1, <2>3, <2>4 DEF more
<1>5. CASE N # 0
  <2> HIDE DEF N
  <2> DEFINE Same(n) == f[n + 1] = h[n + 1] /\ f[n + 1] \in Seq(S)
             T == {n \in Nat : n + 1 <= N => Same(n)}
  <2>0. /\ \A i \in 1 .. N : f[i] = IF i = 1 THEN seqs[i] ELSE f[i - 1] \o seqs[i]
        /\ \A i \in 1 .. N + 1 : h[i] = IF i = 1 THEN more[i] ELSE h[i - 1] \o more[i]
        /\ FlattenSeq(seqs) = f[N]
    BY <1>0, <1>1, <1>2, <1>5 DEF N
  <2>1. 0 \in T
    <3>1. 1 \in 1 .. N /\ 1 \in 1 .. N + 1 /\ 0 + 1 = 1
      BY <1>0, <1>5
    <3>2. Same(0)
      BY <3>1, <2>0, <1>0
    <3> HIDE DEF Same
    <3> QED BY <3>2
  <2>2. ASSUME NEW n \in T PROVE n + 1 \in T
    <3> SUFFICES ASSUME (n + 1) + 1 <= N PROVE Same(n + 1)
      <4> HIDE DEF Same
      <4> QED OBVIOUS
    <3>1. n + 1 <= N /\ (n + 1) + 1 \in 1 .. N /\ (n + 1) + 1 \in 1 .. N + 1 /\ (n + 1) + 1 # 1
          /\ ((n + 1) + 1) - 1 = n + 1
      BY <1>0
    <3>2. Same(n)
      <4> HIDE DEF Same
      <4> QED BY <3>1
    <3>3. f[(n + 1) + 1] = f[n + 1] \o seqs[(n + 1) + 1] /\ h[(n + 1) + 1] = h[n + 1] \o more[(n + 1) + 1]
      BY <3>1, <2>0
    <3>4. seqs[(n + 1) + 1] \in Seq(S) /\ more[(n + 1) + 1] = seqs[(n + 1) + 1]
      BY <3>1, <1>0
    <3> HIDE DEF T
    <3> QED BY <3>2, <3>3, <3>4
  <2>3. Same(N - 1)
    <3> HIDE DEF Same
    <3>1. N - 1 \in T
      <4> HIDE DEF T
      <4>1. T \in SUBSET Nat
        BY DEF T
      <4>2. T = Nat
        BY <2>1, <2>2, <4>1, Induct
      <4> QED BY <4>2, <1>0, <1>5
    <3>2. (N - 1) + 1 <= N
      BY <1>0
    <3> QED BY <3>1, <3>2
  <2>4. (N - 1) + 1 = N /\ (N + 1) - 1 = N /\ N + 1 \in 1 .. N + 1 /\ N + 1 # 1
    BY <1>0, <1>5
  <2>5. f[N] = h[N] /\ f[N] \in Seq(S)
    BY <2>3, <2>4
  <2>6. h[N + 1] = h[N] \o last
    BY <2>0, <2>4, <1>0
  <2> QED BY <2>0, <2>5, <2>6, <1>3 DEF more
<1> QED BY <1>4, <1>5

(* The places of the elements of a sequence of sequences, in order.         *)
Places(ss) == UNION {{f} \X DOMAIN ss[f] : f \in DOMAIN ss}
ValueAt(ss, p) == ss[p[1]][p[2]]
Earlier(p, q) == p[1] < q[1] \/ (p[1] = q[1] /\ p[2] < q[2])

(* Each element of the flattened sequence has a place of its own.           *)
PlacedBy(ss, flat, at) ==
  /\ \A i \in DOMAIN flat : at[i] \in Places(ss) /\ flat[i] = ValueAt(ss, at[i])
  /\ \A i, j \in DOMAIN flat : at[i] = at[j] => i = j
  /\ \A p \in Places(ss) : \E i \in DOMAIN flat : at[i] = p

(* A place is that of a sequence and of an element of it.                   *)
LEMMA PlacesAre ==
  ASSUME NEW S, NEW ss \in Seq(Seq(S)), NEW p \in Places(ss)
  PROVE  /\ p[1] \in DOMAIN ss /\ p[1] \in Nat /\ ss[p[1]] \in Seq(S)
         /\ p[2] \in DOMAIN ss[p[1]] /\ p[2] \in Nat /\ p = <<p[1], p[2]>> /\ ValueAt(ss, p) \in S
<1>1. PICK f \in DOMAIN ss : p \in {f} \X DOMAIN ss[f]
  BY DEF Places
<1>2. p[1] = f /\ p[2] \in DOMAIN ss[f] /\ p = <<p[1], p[2]>>
  BY <1>1
<1>3. f \in Nat /\ ss[f] \in Seq(S)
  OBVIOUS
<1>4. p[2] \in Nat /\ ss[f][p[2]] \in S
  BY <1>2, <1>3
<1> QED BY <1>2, <1>3, <1>4 DEF ValueAt

(* Each element of each sequence has its place.                             *)
LEMMA PlaceOf ==
  ASSUME NEW ss, NEW f \in DOMAIN ss, NEW s \in DOMAIN ss[f]
  PROVE  <<f, s>> \in Places(ss) /\ ValueAt(ss, <<f, s>>) = ss[f][s]
  BY DEF Places, ValueAt

(* One sequence more: its elements come last.                               *)
LEMMA PlacesAppend ==
  ASSUME NEW S, NEW ss \in Seq(Seq(S)), NEW last \in Seq(S), NEW flat \in Seq(S),
         NEW at, PlacedBy(ss, flat, at)
  PROVE  \E more : PlacedBy(Append(ss, last), flat \o last, more)
<1> DEFINE tt == Append(ss, last)
           N == Len(ss) + 1
           n == Len(flat)
           m == Len(last)
           all == flat \o last
           more == [i \in 1 .. n + m |-> IF i <= n THEN at[i] ELSE <<N, i - n>>]
<1>1. /\ n \in Nat /\ m \in Nat /\ N \in Nat /\ N >= 1 /\ Len(ss) \in Nat
      /\ DOMAIN flat = 1 .. n /\ DOMAIN last = 1 .. m /\ DOMAIN ss = 1 .. N - 1
  OBVIOUS
<1>2. DOMAIN tt = 1 .. N /\ tt[N] = last /\ \A f \in 1 .. N - 1 : tt[f] = ss[f]
  OBVIOUS
<1>3. /\ DOMAIN all = 1 .. n + m /\ \A i \in 1 .. n : all[i] = flat[i]
      /\ \A i \in 1 .. m : all[n + i] = last[i]
  OBVIOUS
<1> HIDE DEF tt, N, n, m, all
<1>4. /\ \A i \in 1 .. n : i \in 1 .. n + m /\ more[i] = at[i]
      /\ \A i \in 1 .. m : n + i \in 1 .. n + m /\ more[n + i] = <<N, i>>
  BY <1>1
<1>5. \A i \in 1 .. n + m : i \in 1 .. n \/ (i - n \in 1 .. m /\ n + (i - n) = i)
  BY <1>1
<1> HIDE DEF more
<1>6. \A p \in Places(ss) : p \in Places(tt) /\ ValueAt(tt, p) = ValueAt(ss, p) /\ p[1] \in 1 .. N - 1
  <2> SUFFICES ASSUME NEW p \in Places(ss)
               PROVE  p \in Places(tt) /\ ValueAt(tt, p) = ValueAt(ss, p) /\ p[1] \in 1 .. N - 1
    OBVIOUS
  <2>1. p[1] \in 1 .. N - 1 /\ p[2] \in DOMAIN ss[p[1]] /\ p = <<p[1], p[2]>>
    BY PlacesAre, <1>1
  <2>2. p[1] \in 1 .. N /\ tt[p[1]] = ss[p[1]]
    BY <2>1, <1>1, <1>2
  <2>3. p[1] \in DOMAIN tt /\ p[2] \in DOMAIN tt[p[1]]
    BY <2>1, <2>2, <1>2
  <2>4. <<p[1], p[2]>> \in Places(tt)
    BY <2>3, PlaceOf
  <2> QED BY <2>1, <2>2, <2>4 DEF ValueAt
<1>7. \A i \in 1 .. m : <<N, i>> \in Places(tt) /\ ValueAt(tt, <<N, i>>) = last[i]
  <2>1. N \in DOMAIN tt
    BY <1>1, <1>2
  <2> QED BY <2>1, <1>1, <1>2, PlaceOf
<1>8. \A p \in Places(tt) : p \in Places(ss) \/ \E i \in 1 .. m : p = <<N, i>>
  <2> SUFFICES ASSUME NEW p \in Places(tt) PROVE p \in Places(ss) \/ \E i \in 1 .. m : p = <<N, i>>
    OBVIOUS
  <2>1. p[1] \in 1 .. N /\ p[2] \in DOMAIN tt[p[1]] /\ p = <<p[1], p[2]>>
    <3>1. tt \in Seq(Seq(S))
      BY DEF tt
    <3> QED BY <3>1, <1>2, PlacesAre
  <2>2. CASE p[1] = N
    BY <2>1, <2>2, <1>1, <1>2
  <2>3. CASE p[1] # N
    <3>1. p[1] \in DOMAIN ss /\ tt[p[1]] = ss[p[1]]
      BY <2>1, <2>3, <1>1, <1>2
    <3>2. <<p[1], p[2]>> \in Places(ss)
      BY <2>1, <3>1, PlaceOf
    <3> QED BY <2>1, <3>2
  <2> QED BY <2>2, <2>3
<1>9. \A i \in 1 .. n + m : more[i] \in Places(tt) /\ all[i] = ValueAt(tt, more[i])
  <2> SUFFICES ASSUME NEW i \in 1 .. n + m PROVE more[i] \in Places(tt) /\ all[i] = ValueAt(tt, more[i])
    OBVIOUS
  <2>1. CASE i \in 1 .. n
    <3>1. at[i] \in Places(ss) /\ flat[i] = ValueAt(ss, at[i])
      BY <2>1, <1>1 DEF PlacedBy
    <3>2. more[i] = at[i] /\ all[i] = flat[i]
      BY <2>1, <1>3, <1>4
    <3> QED BY <3>1, <3>2, <1>6
  <2>2. CASE i - n \in 1 .. m /\ n + (i - n) = i
    <3>1. more[i] = <<N, i - n>> /\ all[i] = last[i - n]
      BY <2>2, <1>3, <1>4
    <3> QED BY <2>2, <3>1, <1>7
  <2> QED BY <2>1, <2>2, <1>5
<1>10. ASSUME NEW i \in 1 .. n + m, NEW j \in 1 .. n + m, more[i] = more[j] PROVE i = j
  <2>1. ASSUME NEW x \in 1 .. n, NEW y \in 1 .. m PROVE more[x] # more[n + y]
    <3>1. more[x] = at[x] /\ at[x] \in Places(ss)
      BY <1>1, <1>4 DEF PlacedBy
    <3>2. more[x][1] \in 1 .. N - 1 /\ more[n + y] = <<N, y>>
      BY <3>1, <1>4, <1>6
    <3> QED BY <3>2, <1>1
  <2>2. CASE i \in 1 .. n /\ j \in 1 .. n
    BY <2>2, <1>1, <1>4, <1>10 DEF PlacedBy
  <2>3. CASE i \in 1 .. n /\ (j - n \in 1 .. m /\ n + (j - n) = j)
    BY <2>1, <2>3, <1>10
  <2>4. CASE j \in 1 .. n /\ (i - n \in 1 .. m /\ n + (i - n) = i)
    BY <2>1, <2>4, <1>10
  <2>5. CASE (i - n \in 1 .. m /\ n + (i - n) = i) /\ (j - n \in 1 .. m /\ n + (j - n) = j)
    <3>1. more[i] = <<N, i - n>> /\ more[j] = <<N, j - n>>
      BY <2>5, <1>4
    <3>2. i - n = j - n
      BY <3>1, <1>10
    <3> QED BY <3>2, <1>1
  <2> QED BY <2>2, <2>3, <2>4, <2>5, <1>5
<1>11. ASSUME NEW p \in Places(tt) PROVE \E i \in 1 .. n + m : more[i] = p
  <2>1. CASE p \in Places(ss)
    <3>1. PICK i \in 1 .. n : at[i] = p
      BY <2>1, <1>1 DEF PlacedBy
    <3> QED BY <3>1, <1>4
  <2>2. CASE \E i \in 1 .. m : p = <<N, i>>
    BY <2>2, <1>4
  <2> QED BY <2>1, <2>2, <1>8
<1>12. PlacedBy(tt, all, more)
  BY <1>3, <1>9, <1>10, <1>11 DEF PlacedBy
<1> QED BY <1>12 DEF tt, all

(* So the flattened sequence has just the places there are.                 *)
LEMMA FlattenPlaces ==
  ASSUME NEW S, NEW ss \in Seq(Seq(S))
  PROVE  FlattenSeq(ss) \in Seq(S) /\ \E at : PlacedBy(ss, FlattenSeq(ss), at)
<1> DEFINE Good(n) == FlattenSeq(SubSeq(ss, 1, n)) \in Seq(S)
                      /\ \E at : PlacedBy(SubSeq(ss, 1, n), FlattenSeq(SubSeq(ss, 1, n)), at)
           T == {n \in Nat : n <= Len(ss) => Good(n)}
<1>0. Len(ss) \in Nat
  OBVIOUS
<1>1. Good(0)
  <2>1. SubSeq(ss, 1, 0) = << >>
    OBVIOUS
  <2>2. FlattenSeq(<< >>) = << >> /\ << >> \in Seq(S)
    BY DEF FlattenSeq
  <2>3. PlacedBy(<< >>, << >>, << >>)
    BY DEF PlacedBy, Places
  <2> QED BY <2>1, <2>2, <2>3
<1>2. ASSUME NEW n \in Nat, Good(n), n + 1 <= Len(ss) PROVE Good(n + 1)
  <2> DEFINE s == SubSeq(ss, 1, n)
             last == ss[n + 1]
  <2>1. s \in Seq(Seq(S)) /\ last \in Seq(S) /\ SubSeq(ss, 1, n + 1) = Append(s, last)
    BY <1>2
  <2>2. FlattenSeq(s) \in Seq(S)
    BY <1>2
  <2>3. PICK at : PlacedBy(s, FlattenSeq(s), at)
    BY <1>2
  <2> HIDE DEF s, last
  <2>4. FlattenSeq(Append(s, last)) = FlattenSeq(s) \o last
    BY <2>1, FlattenAppend
  <2>5. FlattenSeq(s) \o last \in Seq(S)
    BY <2>1, <2>2
  <2>6. \E more : PlacedBy(Append(s, last), FlattenSeq(s) \o last, more)
    BY <2>1, <2>2, <2>3, PlacesAppend
  <2> QED BY <2>1, <2>4, <2>5, <2>6
<1> HIDE DEF Good
<1>3. T = Nat
  <2>1. 0 \in T
    BY <1>1
  <2>2. ASSUME NEW n \in T PROVE n + 1 \in T
    <3>1. n \in Nat /\ (n <= Len(ss) => Good(n)) /\ n + 1 \in Nat
      OBVIOUS
    <3>2. n + 1 <= Len(ss) => n <= Len(ss)
      BY <3>1, <1>0
    <3> QED BY <3>1, <3>2, <1>2
  <2>3. T \in SUBSET Nat
    OBVIOUS
  <2> HIDE DEF T
  <2> QED BY <2>1, <2>2, <2>3, Induct
<1>4. Good(Len(ss))
  <2>1. Len(ss) \in T
    BY <1>0, <1>3
  <2> QED BY <2>1, <1>0
<1>5. SubSeq(ss, 1, Len(ss)) = ss
  OBVIOUS
<1> QED BY <1>4, <1>5 DEF Good

(* No two elements of the flattened sequence are related by R iff none is   *)
(* related to an earlier one.                                               *)
LEMMA NoTwo ==
  ASSUME NEW S, NEW ss \in Seq(Seq(S)), NEW R, \A x, y \in S : <<x, y>> \in R => <<y, x>> \in R
  PROVE  LET flat == FlattenSeq(ss)
         IN  (\A i, j \in DOMAIN flat : <<flat[i], flat[j]>> \in R => i = j)
               <=> \A p, q \in Places(ss) : Earlier(p, q) => <<ValueAt(ss, p), ValueAt(ss, q)>> \notin R
<1> DEFINE flat == FlattenSeq(ss)
<1>1. PICK at : PlacedBy(ss, flat, at)
  BY FlattenPlaces
<1>2. \A p, q \in Places(ss) : p = q \/ Earlier(p, q) \/ Earlier(q, p)
  <2> SUFFICES ASSUME NEW p \in Places(ss), NEW q \in Places(ss) PROVE p = q \/ Earlier(p, q) \/ Earlier(q, p)
    OBVIOUS
  <2>1. /\ p[1] \in Nat /\ p[2] \in Nat /\ p = <<p[1], p[2]>>
        /\ q[1] \in Nat /\ q[2] \in Nat /\ q = <<q[1], q[2]>>
    BY PlacesAre
  <2>2. p[1] = q[1] /\ p[2] = q[2] => p = q
    BY <2>1
  <2> QED BY <2>1, <2>2 DEF Earlier
<1>3. \A p \in Places(ss) : ValueAt(ss, p) \in S /\ ~ Earlier(p, p)
  <2> SUFFICES ASSUME NEW p \in Places(ss) PROVE ValueAt(ss, p) \in S /\ ~ Earlier(p, p)
    OBVIOUS
  <2>1. p[1] \in Nat /\ p[2] \in Nat /\ ValueAt(ss, p) \in S
    BY PlacesAre
  <2> QED BY <2>1 DEF Earlier
<1> HIDE DEF flat
<1>4. ASSUME \A i, j \in DOMAIN flat : <<flat[i], flat[j]>> \in R => i = j,
             NEW p \in Places(ss), NEW q \in Places(ss), Earlier(p, q)
      PROVE  <<ValueAt(ss, p), ValueAt(ss, q)>> \notin R
  <2>1. PICK i \in DOMAIN flat : at[i] = p
    BY <1>1 DEF PlacedBy
  <2>2. PICK j \in DOMAIN flat : at[j] = q
    BY <1>1 DEF PlacedBy
  <2>3. i # j
    BY <2>1, <2>2, <1>3, <1>4
  <2>4. flat[i] = ValueAt(ss, p) /\ flat[j] = ValueAt(ss, q)
    BY <2>1, <2>2, <1>1 DEF PlacedBy
  <2> QED BY <2>3, <2>4, <1>4
<1>5. ASSUME \A p, q \in Places(ss) : Earlier(p, q) => <<ValueAt(ss, p), ValueAt(ss, q)>> \notin R,
             NEW i \in DOMAIN flat, NEW j \in DOMAIN flat, <<flat[i], flat[j]>> \in R
      PROVE  i = j
  <2>1. /\ at[i] \in Places(ss) /\ flat[i] = ValueAt(ss, at[i])
        /\ at[j] \in Places(ss) /\ flat[j] = ValueAt(ss, at[j])
    BY <1>1 DEF PlacedBy
  <2>2. ~ Earlier(at[i], at[j])
    BY <2>1, <1>5
  <2>3. <<flat[j], flat[i]>> \in R
    BY <2>1, <1>3, <1>5
  <2>4. ~ Earlier(at[j], at[i])
    BY <2>1, <2>3, <1>5
  <2>5. at[i] = at[j]
    BY <2>1, <2>2, <2>4, <1>2
  <2> QED BY <2>5, <1>1 DEF PlacedBy
<1> QED BY <1>4, <1>5 DEF flat

(* The flattened sequence has the elements of the sequences.                *)
LEMMA FlattenHolds ==
  ASSUME NEW S, NEW ss \in Seq(Seq(S))
  PROVE  LET flat == FlattenSeq(ss)
         IN  /\ flat \in Seq(S)
             /\ \A i \in DOMAIN flat : \E f \in DOMAIN ss : \E s \in DOMAIN ss[f] : flat[i] = ss[f][s]
             /\ \A f \in DOMAIN ss : \A s \in DOMAIN ss[f] : \E i \in DOMAIN flat : flat[i] = ss[f][s]
<1> DEFINE flat == FlattenSeq(ss)
<1>1. flat \in Seq(S)
  BY FlattenPlaces
<1>2. PICK at : PlacedBy(ss, flat, at)
  BY FlattenPlaces
<1> HIDE DEF flat
<1>3. ASSUME NEW i \in DOMAIN flat PROVE \E f \in DOMAIN ss : \E s \in DOMAIN ss[f] : flat[i] = ss[f][s]
  <2>1. at[i] \in Places(ss) /\ flat[i] = ValueAt(ss, at[i])
    BY <1>2 DEF PlacedBy
  <2> QED BY <2>1, PlacesAre DEF ValueAt
<1>4. ASSUME NEW f \in DOMAIN ss, NEW s \in DOMAIN ss[f] PROVE \E i \in DOMAIN flat : flat[i] = ss[f][s]
  <2>1. <<f, s>> \in Places(ss) /\ ValueAt(ss, <<f, s>>) = ss[f][s]
    BY PlaceOf
  <2>2. PICK i \in DOMAIN flat : at[i] = <<f, s>>
    BY <2>1, <1>2 DEF PlacedBy
  <2> QED BY <2>1, <2>2, <1>2 DEF PlacedBy
<1> QED BY <1>1, <1>3, <1>4 DEF flat

-----------------------------------------------------------------------------
(* The checks.                                                              *)

Answer == RiskDataError \cup {"ok"}

AllOk(checks) == \A i \in DOMAIN checks : checks[i] = "ok"

(* A check passes iff what it checks holds.                                 *)
LEMMA CheckIs ==
  ASSUME NEW holds \in BOOLEAN, NEW error \in RiskDataError
  PROVE  Check(holds, error) \in Answer /\ (Check(holds, error) = "ok" <=> holds)
  BY DEF Check, Answer, RiskDataError

(* Nothing is reported iff every check passes; what is reported is an error.*)
LEMMA FirstErrorIs ==
  ASSUME NEW checks \in Seq(Answer)
  PROVE  FirstError(checks) \in Answer /\ (FirstError(checks) = "ok" <=> AllOk(checks))
<1> DEFINE bad == {i \in DOMAIN checks : checks[i] # "ok"}
<1>1. FirstError(checks) = IF bad = {} THEN "ok" ELSE checks[Min(bad)]
  BY DEF FirstError
<1>2. CASE bad = {}
  BY <1>1, <1>2 DEF AllOk, Answer
<1>3. CASE bad # {}
  <2>1. PICK x \in bad : \A y \in bad : ~(y < x)
    <3>1. bad \in SUBSET Nat
      OBVIOUS
    <3> HIDE DEF bad
    <3> QED BY <3>1, <1>3, Least
  <2>2. bad \subseteq Int
    OBVIOUS
  <2>3. Min(bad) \in bad
    <3> HIDE DEF bad
    <3>1. \A y \in bad : x <= y
      BY <2>1, <2>2
    <3>2. \E z \in bad : \A y \in bad : z <= y
      BY <3>1
    <3> QED BY <3>2 DEF Min
  <2>4. checks[Min(bad)] # "ok" /\ checks[Min(bad)] \in Answer
    BY <2>3
  <2>5. ~ AllOk(checks)
    BY <2>3 DEF AllOk
  <2> HIDE DEF bad
  <2> QED BY <1>1, <1>3, <2>4, <2>5
<1> QED BY <1>2, <1>3

(* Checks made one after the other pass iff both do.                        *)
LEMMA AllOkConcat ==
  ASSUME NEW a \in Seq(Answer), NEW b \in Seq(Answer)
  PROVE  a \o b \in Seq(Answer) /\ (AllOk(a \o b) <=> AllOk(a) /\ AllOk(b))
<1> DEFINE c == a \o b
<1>1. /\ c \in Seq(Answer) /\ Len(a) \in Nat /\ Len(b) \in Nat /\ DOMAIN c = 1 .. Len(a) + Len(b)
      /\ \A i \in 1 .. Len(a) : c[i] = a[i]
      /\ \A i \in 1 .. Len(b) : c[Len(a) + i] = b[i]
      /\ DOMAIN a = 1 .. Len(a) /\ DOMAIN b = 1 .. Len(b)
  OBVIOUS
<1> HIDE DEF c
<1>2. AllOk(c) => AllOk(a)
  BY <1>1 DEF AllOk
<1>3. AllOk(c) => AllOk(b)
  <2>1. \A i \in 1 .. Len(b) : Len(a) + i \in 1 .. Len(a) + Len(b)
    BY <1>1
  <2> QED BY <1>1, <2>1 DEF AllOk
<1>4. AllOk(a) /\ AllOk(b) => AllOk(c)
  <2>1. \A i \in 1 .. Len(a) + Len(b) : i \in 1 .. Len(a) \/ (i - Len(a) \in 1 .. Len(b) /\ Len(a) + (i - Len(a)) = i)
    BY <1>1
  <2> QED BY <1>1, <2>1 DEF AllOk
<1> QED BY <1>1, <1>2, <1>3, <1>4 DEF c

(* And so for any number of them.                                           *)
LEMMA AllOkFlatten ==
  ASSUME NEW ss \in Seq(Seq(Answer))
  PROVE  FlattenSeq(ss) \in Seq(Answer) /\ (AllOk(FlattenSeq(ss)) <=> \A f \in DOMAIN ss : AllOk(ss[f]))
<1> DEFINE flat == FlattenSeq(ss)
<1>1. /\ flat \in Seq(Answer)
      /\ \A i \in DOMAIN flat : \E f \in DOMAIN ss : \E s \in DOMAIN ss[f] : flat[i] = ss[f][s]
      /\ \A f \in DOMAIN ss : \A s \in DOMAIN ss[f] : \E i \in DOMAIN flat : flat[i] = ss[f][s]
  BY FlattenHolds
<1> HIDE DEF flat
<1>2. AllOk(flat) => \A f \in DOMAIN ss : AllOk(ss[f])
  BY <1>1 DEF AllOk
<1>3. (\A f \in DOMAIN ss : AllOk(ss[f])) => AllOk(flat)
  BY <1>1 DEF AllOk
<1> QED BY <1>1, <1>2, <1>3 DEF flat

(* Patterns pass iff each compiles.                                         *)
LEMMA PatternsOk ==
  ASSUME NEW rules \in Seq(Pattern)
  PROVE  /\ ValidPatterns(rules) \in Seq(Answer)
         /\ AllOk(ValidPatterns(rules)) <=> \A i \in DOMAIN rules : rules[i].pattern # "("
<1>1. \A i \in DOMAIN rules :
        /\ ValidPatterns(rules)[i] \in Answer
        /\ ValidPatterns(rules)[i] = "ok" <=> rules[i].pattern # "("
  <2> SUFFICES ASSUME NEW i \in DOMAIN rules
               PROVE  /\ ValidPatterns(rules)[i] \in Answer
                      /\ ValidPatterns(rules)[i] = "ok" <=> rules[i].pattern # "("
    OBVIOUS
  <2>1. (rules[i].pattern # "(") \in BOOLEAN /\ "InvalidPattern" \in RiskDataError
    BY DEF RiskDataError
  <2>2. ValidPatterns(rules)[i] = Check(rules[i].pattern # "(", "InvalidPattern")
    BY DEF ValidPatterns
  <2> QED BY <2>1, <2>2, CheckIs
<1>2. DOMAIN ValidPatterns(rules) = 1 .. Len(rules) /\ DOMAIN rules = 1 .. Len(rules) /\ Len(rules) \in Nat
  BY DEF ValidPatterns
<1>3. ValidPatterns(rules) \in Seq(Answer)
  <2>1. ValidPatterns(rules) = [i \in 1 .. Len(rules) |-> ValidPatterns(rules)[i]]
    BY <1>2 DEF ValidPatterns
  <2> QED BY <1>1, <1>2, <2>1
<1> QED BY <1>1, <1>2, <1>3 DEF AllOk

(* The parts of a flag.                                                     *)
LEMMA FlagIs ==
  ASSUME NEW flag \in Flag
  PROVE  /\ flag.spellings \in Seq(STRING) /\ flag.value_rule \in Seq(Pattern)
         /\ [flag EXCEPT !.spellings = <<>>] \in Flag
         /\ [flag EXCEPT !.spellings = <<>>].value_rule = flag.value_rule
<1>1. flag.spellings \in Seq(STRING) /\ flag.value_rule \in Seq(Pattern)
  BY DEF Flag
<1>2. <<>> \in Seq(STRING)
  OBVIOUS
<1>3. [flag EXCEPT !.spellings = <<>>] \in Flag
  BY <1>2 DEF Flag
<1>4. "value_rule" \in DOMAIN flag
  BY DEF Flag
<1> QED BY <1>1, <1>3, <1>4

(* The flags of a ruleset, each with its spellings, as they are rendered.   *)
Rendered(flags) == [f \in DOMAIN flags |-> RenderFlag(flags[f])]

Spelling == STRING \X Flag

(* A flag is rendered once for each of its spellings.                       *)
LEMMA RenderedIs ==
  ASSUME NEW flags \in Seq(Flag)
  PROVE  /\ Rendered(flags) \in Seq(Seq(Spelling)) /\ DOMAIN Rendered(flags) = DOMAIN flags
         /\ \A f \in DOMAIN flags :
              /\ DOMAIN Rendered(flags)[f] = DOMAIN flags[f].spellings
              /\ \A s \in DOMAIN flags[f].spellings :
                   /\ Rendered(flags)[f][s][1] = flags[f].spellings[s]
                   /\ Rendered(flags)[f][s][2].value_rule = flags[f].value_rule
<1>1. ASSUME NEW f \in DOMAIN flags
      PROVE  /\ RenderFlag(flags[f]) \in Seq(Spelling)
             /\ DOMAIN RenderFlag(flags[f]) = DOMAIN flags[f].spellings
             /\ \A s \in DOMAIN flags[f].spellings :
                  /\ RenderFlag(flags[f])[s][1] = flags[f].spellings[s]
                  /\ RenderFlag(flags[f])[s][2].value_rule = flags[f].value_rule
  <2> DEFINE flag == flags[f]
             bare == [flag EXCEPT !.spellings = <<>>]
  <2>0. flag \in Flag
    OBVIOUS
  <2>1. flag \in Flag /\ flag.spellings \in Seq(STRING)
    BY <2>0, FlagIs
  <2>2. bare \in Flag /\ bare.value_rule = flag.value_rule
    <3> HIDE DEF flag
    <3> QED BY <2>0, FlagIs
  <2> HIDE DEF bare
  <2>3. RenderFlag(flag) = [s \in 1 .. Len(flag.spellings) |-> <<flag.spellings[s], bare>>]
    BY <2>1 DEF RenderFlag, bare
  <2> HIDE DEF flag
  <2>4. /\ RenderFlag(flag) \in Seq(Spelling)
        /\ DOMAIN RenderFlag(flag) = DOMAIN flag.spellings
    BY <2>1, <2>2, <2>3 DEF Spelling
  <2>5. ASSUME NEW s \in DOMAIN flag.spellings PROVE RenderFlag(flag)[s] = <<flag.spellings[s], bare>>
    BY <2>1, <2>3
  <2> QED BY <2>2, <2>4, <2>5 DEF flag
<1>2. DOMAIN Rendered(flags) = 1 .. Len(flags) /\ Len(flags) \in Nat /\ DOMAIN flags = 1 .. Len(flags)
      /\ \A f \in DOMAIN flags : Rendered(flags)[f] = RenderFlag(flags[f])
  BY DEF Rendered
<1>3. Rendered(flags) = [f \in 1 .. Len(flags) |-> Rendered(flags)[f]]
  BY <1>2 DEF Rendered
<1>4. Rendered(flags) \in Seq(Seq(Spelling))
  BY <1>1, <1>2, <1>3
<1> QED BY <1>1, <1>2, <1>4

(* A spelling is found among those before it iff an earlier one is as it.   *)
LEMMA SpelledEarlier ==
  ASSUME NEW flags \in Seq(Flag), NEW f \in DOMAIN flags, NEW s \in DOMAIN flags[f].spellings,
         NEW sensitive \in BOOLEAN
  PROVE  ContainsSpelling(SpelledBefore(flags, f, s), flags[f].spellings[s], sensitive)
           <=> \E p \in Places(Rendered(flags)) :
                 /\ Earlier(p, <<f, s>>)
                 /\ SpellingEq(ValueAt(Rendered(flags), p)[1], flags[f].spellings[s], sensitive)
<1> DEFINE ss == Rendered(flags)
           needle == flags[f].spellings[s]
           before == UNION {ToSet(flags[g].spellings) : g \in 1 .. f - 1}
           here == {flags[f].spellings[r] : r \in 1 .. s - 1}
<1>0. /\ ss \in Seq(Seq(Spelling)) /\ DOMAIN ss = DOMAIN flags
      /\ \A g \in DOMAIN flags :
           /\ DOMAIN ss[g] = DOMAIN flags[g].spellings
           /\ \A r \in DOMAIN flags[g].spellings : ss[g][r][1] = flags[g].spellings[r]
  BY RenderedIs
<1>1. /\ DOMAIN flags = 1 .. Len(flags) /\ Len(flags) \in Nat
      /\ \A g \in DOMAIN flags :
           /\ flags[g].spellings \in Seq(STRING)
           /\ DOMAIN flags[g].spellings = 1 .. Len(flags[g].spellings) /\ Len(flags[g].spellings) \in Nat
  <2>1. \A g \in DOMAIN flags : flags[g] \in Flag
    OBVIOUS
  <2>2. \A g \in DOMAIN flags : flags[g].spellings \in Seq(STRING)
    BY <2>1, FlagIs
  <2> QED BY <2>2
<1>a. SpelledBefore(flags, f, s) = before \cup here
  BY DEF SpelledBefore
<1> HIDE DEF ss, needle, before, here
<1>2. ASSUME NEW x \in SpelledBefore(flags, f, s), SpellingEq(x, needle, sensitive)
      PROVE  \E p \in Places(ss) : Earlier(p, <<f, s>>) /\ SpellingEq(ValueAt(ss, p)[1], needle, sensitive)
  <2>1. CASE x \in before
    <3>1. PICK g \in 1 .. f - 1 : x \in ToSet(flags[g].spellings)
      BY <2>1 DEF before
    <3>2. g \in DOMAIN flags /\ g < f
      BY <1>1
    <3>3. PICK r \in DOMAIN flags[g].spellings : x = flags[g].spellings[r]
      BY <3>1 DEF ToSet
    <3>4. <<g, r>> \in Places(ss) /\ ValueAt(ss, <<g, r>>)[1] = x
      BY <3>2, <3>3, <1>0, PlaceOf
    <3>5. Earlier(<<g, r>>, <<f, s>>)
      BY <3>2 DEF Earlier
    <3> QED BY <3>4, <3>5, <1>2
  <2>2. CASE x \in here
    <3>1. PICK r \in 1 .. s - 1 : x = flags[f].spellings[r]
      BY <2>2 DEF here
    <3>2. r \in DOMAIN flags[f].spellings /\ r < s
      BY <1>1
    <3>4. <<f, r>> \in Places(ss) /\ ValueAt(ss, <<f, r>>)[1] = x
      BY <3>1, <3>2, <1>0, PlaceOf
    <3>5. Earlier(<<f, r>>, <<f, s>>)
      BY <3>2 DEF Earlier
    <3> QED BY <3>4, <3>5, <1>2
  <2> QED BY <2>1, <2>2, <1>2, <1>a
<1>3. ASSUME NEW p \in Places(ss), Earlier(p, <<f, s>>)
      PROVE  ValueAt(ss, p)[1] \in SpelledBefore(flags, f, s)
  <2>1. /\ p[1] \in DOMAIN ss /\ p[1] \in Nat /\ p[2] \in DOMAIN ss[p[1]] /\ p[2] \in Nat
    BY <1>0, PlacesAre
  <2>2. /\ p[1] \in DOMAIN flags /\ p[2] \in DOMAIN flags[p[1]].spellings
        /\ ValueAt(ss, p)[1] = flags[p[1]].spellings[p[2]]
    BY <2>1, <1>0 DEF ValueAt
  <2>3. p[1] < f \/ (p[1] = f /\ p[2] < s)
    BY <1>3 DEF Earlier
  <2>4. CASE p[1] < f
    <3>1. p[1] \in 1 .. f - 1
      <4> f \in Nat
        BY <1>1
      <4> QED BY <2>2, <2>4, <1>1
    <3>2. ValueAt(ss, p)[1] \in ToSet(flags[p[1]].spellings)
      BY <2>2 DEF ToSet
    <3> QED BY <3>1, <3>2, <1>a DEF before
  <2>5. CASE p[1] = f /\ p[2] < s
    <3>1. p[2] \in 1 .. s - 1
      BY <2>2, <2>5, <1>1
    <3>2. ValueAt(ss, p)[1] = flags[f].spellings[p[2]]
      BY <2>2, <2>5
    <3>3. ValueAt(ss, p)[1] \in {flags[f].spellings[r] : r \in 1 .. s - 1}
      BY <3>1, <3>2
    <3> QED BY <3>3, <1>a DEF here
  <2> QED BY <2>3, <2>4, <2>5
<1>4. (\E x \in SpelledBefore(flags, f, s) : SpellingEq(x, needle, sensitive))
        <=> \E p \in Places(ss) : Earlier(p, <<f, s>>) /\ SpellingEq(ValueAt(ss, p)[1], needle, sensitive)
  BY <1>2, <1>3
<1> QED BY <1>4 DEF ContainsSpelling, ss, needle

(* What is checked of one flag.                                             *)
LEMMA FlagOk ==
  ASSUME NEW flags \in Seq(Flag), NEW f \in DOMAIN flags, NEW sensitive \in BOOLEAN
  PROVE  /\ CheckFlag(flags, f, sensitive) \in Seq(Answer)
         /\ AllOk(CheckFlag(flags, f, sensitive))
              <=> /\ \A s \in DOMAIN flags[f].spellings :
                       ~ ContainsSpelling(SpelledBefore(flags, f, s), flags[f].spellings[s], sensitive)
                  /\ \A v \in DOMAIN flags[f].value_rule : flags[f].value_rule[v].pattern # "("
<1> DEFINE Fresh(s) == ~ ContainsSpelling(SpelledBefore(flags, f, s), flags[f].spellings[s], sensitive)
           c == [s \in DOMAIN flags[f].spellings |-> Check(Fresh(s), "DuplicateFlagSpelling")]
           d == ValidPatterns(flags[f].value_rule)
<1>1. flags[f].spellings \in Seq(STRING) /\ flags[f].value_rule \in Seq(Pattern)
  <2>1. flags[f] \in Flag
    OBVIOUS
  <2> QED BY <2>1, FlagIs
<1>2. \A s : Fresh(s) \in BOOLEAN
  BY DEF ContainsSpelling
<1> HIDE DEF Fresh
<1>3. \A s \in DOMAIN flags[f].spellings : c[s] \in Answer /\ (c[s] = "ok" <=> Fresh(s))
  <2> SUFFICES ASSUME NEW s \in DOMAIN flags[f].spellings PROVE c[s] \in Answer /\ (c[s] = "ok" <=> Fresh(s))
    OBVIOUS
  <2>1. "DuplicateFlagSpelling" \in RiskDataError
    BY DEF RiskDataError
  <2>2. c[s] = Check(Fresh(s), "DuplicateFlagSpelling")
    OBVIOUS
  <2> QED BY <2>1, <2>2, <1>2, CheckIs
<1>4. c = [s \in 1 .. Len(flags[f].spellings) |-> c[s]] /\ DOMAIN c = DOMAIN flags[f].spellings
  BY <1>1
<1> HIDE DEF c
<1>5. c \in Seq(Answer)
  <2> DEFINE n == Len(flags[f].spellings)
  <2>1. n \in Nat /\ DOMAIN flags[f].spellings = 1 .. n
    BY <1>1
  <2>2. c = [s \in 1 .. n |-> c[s]] /\ \A s \in 1 .. n : c[s] \in Answer
    BY <2>1, <1>3, <1>4
  <2> HIDE DEF n
  <2> QED BY <2>1, <2>2
<1>6. /\ d \in Seq(Answer)
      /\ AllOk(d) <=> \A v \in DOMAIN flags[f].value_rule : flags[f].value_rule[v].pattern # "("
  BY <1>1, PatternsOk
<1> HIDE DEF d
<1>7. AllOk(c) <=> \A s \in DOMAIN flags[f].spellings : Fresh(s)
  BY <1>3, <1>4 DEF AllOk
<1>8. CheckFlag(flags, f, sensitive) = c \o d
  BY DEF CheckFlag, c, d, Fresh
<1>9. c \o d \in Seq(Answer) /\ (AllOk(c \o d) <=> AllOk(c) /\ AllOk(d))
  BY <1>5, <1>6, AllOkConcat
<1> QED BY <1>6, <1>7, <1>8, <1>9 DEF Fresh

(* What is checked of one combination.                                      *)
LEMMA ComboOk ==
  ASSUME NEW requires \in Seq(STRING), NEW reachable, NEW sensitive \in BOOLEAN
  PROVE  /\ CheckCombo(requires, reachable, sensitive) \in Seq(Answer)
         /\ AllOk(CheckCombo(requires, reachable, sensitive))
              <=> \A r \in DOMAIN requires : ContainsSpelling(reachable, requires[r], sensitive)
<1> DEFINE c == CheckCombo(requires, reachable, sensitive)
           Given(r) == ContainsSpelling(reachable, requires[r], sensitive)
<1>1. \A r : Given(r) \in BOOLEAN
  BY DEF ContainsSpelling
<1>2. c = [r \in 1 .. Len(requires) |-> Check(Given(r), "UnknownComboFlag")]
  BY DEF CheckCombo
<1> HIDE DEF c, Given
<1>3. "UnknownComboFlag" \in RiskDataError
  BY DEF RiskDataError
<1>4. \A r \in 1 .. Len(requires) : c[r] \in Answer /\ (c[r] = "ok" <=> Given(r))
  <2> SUFFICES ASSUME NEW r \in 1 .. Len(requires) PROVE c[r] \in Answer /\ (c[r] = "ok" <=> Given(r))
    OBVIOUS
  <2>1. c[r] = Check(Given(r), "UnknownComboFlag")
    BY <1>2
  <2> QED BY <2>1, <1>1, <1>3, CheckIs
<1>5. c = [r \in 1 .. Len(requires) |-> c[r]] /\ DOMAIN c = 1 .. Len(requires)
  BY <1>2
<1>6. c \in Seq(Answer)
  BY <1>4, <1>5
<1>7. DOMAIN requires = 1 .. Len(requires)
  OBVIOUS
<1>8. AllOk(c) <=> \A r \in DOMAIN requires : Given(r)
  BY <1>4, <1>5, <1>7 DEF AllOk
<1> QED BY <1>6, <1>8 DEF c, Given

(* The parts of a ruleset, and what becomes of them.                        *)
LEMMA RulesAre ==
  ASSUME NEW rules \in Ruleset
  PROVE  /\ rules.flags \in Seq(Flag) /\ rules.combos \in Seq(Seq(STRING)) /\ rules.operands \in Seq(Pattern)
         /\ RenderRuleset(rules).flags = FlattenSeq(Rendered(rules.flags))
         /\ RenderRuleset(rules).combos = rules.combos
         /\ RenderRuleset(rules).operands = rules.operands
         /\ RenderRuleset(rules).combinable = rules.combinable
<1>1. /\ rules.flags \in Seq(Flag) /\ rules.combos \in Seq(Seq(STRING)) /\ rules.operands \in Seq(Pattern)
      /\ DOMAIN rules = {"combinable", "flags", "combos", "operands"}
  BY DEF Ruleset
<1> DEFINE rendered == FlattenSeq(Rendered(rules.flags))
<1>2. RenderRuleset(rules) = [rules EXCEPT !.flags = rendered]
  BY DEF RenderRuleset, Rendered
<1> HIDE DEF rendered
<1>3. /\ RenderRuleset(rules).flags = rendered
      /\ RenderRuleset(rules).combos = rules.combos
      /\ RenderRuleset(rules).operands = rules.operands
      /\ RenderRuleset(rules).combinable = rules.combinable
  BY <1>1, <1>2
<1> QED BY <1>1, <1>3 DEF rendered

(* The rendered flags: each of a spelling, each spelling of a flag.         *)
LEMMA RenderedFlags ==
  ASSUME NEW rules \in Ruleset
  PROVE  LET flat == RenderRuleset(rules).flags
             flags == rules.flags
         IN  /\ \A i \in DOMAIN flat : \E f \in DOMAIN flags : \E s \in DOMAIN flags[f].spellings :
                  flat[i][1] = flags[f].spellings[s] /\ flat[i][2].value_rule = flags[f].value_rule
             /\ \A f \in DOMAIN flags : \A s \in DOMAIN flags[f].spellings : \E i \in DOMAIN flat :
                  flat[i][1] = flags[f].spellings[s] /\ flat[i][2].value_rule = flags[f].value_rule
<1> DEFINE flags == rules.flags
           ss == Rendered(flags)
           flat == FlattenSeq(ss)
<1>1. flags \in Seq(Flag) /\ RenderRuleset(rules).flags = flat
  BY RulesAre
<1> HIDE DEF flags
<1>2. /\ ss \in Seq(Seq(Spelling)) /\ DOMAIN ss = DOMAIN flags
      /\ \A f \in DOMAIN flags :
           /\ DOMAIN ss[f] = DOMAIN flags[f].spellings
           /\ \A s \in DOMAIN flags[f].spellings :
                ss[f][s][1] = flags[f].spellings[s] /\ ss[f][s][2].value_rule = flags[f].value_rule
  BY <1>1, RenderedIs
<1> HIDE DEF ss
<1>3. /\ \A i \in DOMAIN flat : \E f \in DOMAIN ss : \E s \in DOMAIN ss[f] : flat[i] = ss[f][s]
      /\ \A f \in DOMAIN ss : \A s \in DOMAIN ss[f] : \E i \in DOMAIN flat : flat[i] = ss[f][s]
  BY <1>2, FlattenHolds
<1> HIDE DEF flat
<1>4. ASSUME NEW i \in DOMAIN flat
      PROVE  \E f \in DOMAIN flags : \E s \in DOMAIN flags[f].spellings :
               flat[i][1] = flags[f].spellings[s] /\ flat[i][2].value_rule = flags[f].value_rule
  <2>1. PICK f \in DOMAIN ss : \E s \in DOMAIN ss[f] : flat[i] = ss[f][s]
    BY <1>3
  <2>2. PICK s \in DOMAIN ss[f] : flat[i] = ss[f][s]
    BY <2>1
  <2>3. f \in DOMAIN flags /\ s \in DOMAIN flags[f].spellings
    BY <1>2
  <2>4. ss[f][s][1] = flags[f].spellings[s] /\ ss[f][s][2].value_rule = flags[f].value_rule
    BY <1>2, <2>3
  <2> QED BY <2>2, <2>3, <2>4
<1>5. ASSUME NEW f \in DOMAIN flags, NEW s \in DOMAIN flags[f].spellings
      PROVE  \E i \in DOMAIN flat :
               flat[i][1] = flags[f].spellings[s] /\ flat[i][2].value_rule = flags[f].value_rule
  <2>1. f \in DOMAIN ss /\ s \in DOMAIN ss[f]
    BY <1>2
  <2>2. PICK i \in DOMAIN flat : flat[i] = ss[f][s]
    BY <2>1, <1>3
  <2> QED BY <1>2, <2>2
<1> QED BY <1>1, <1>4, <1>5 DEF flags

(* The rendered flags are spelled as the declared ones are.                 *)
LEMMA FlagsAre ==
  ASSUME NEW rules \in Ruleset
  PROVE  Flags(RenderRuleset(rules)) = AllSpellings(rules.flags)
<1> DEFINE flat == RenderRuleset(rules).flags
           flags == rules.flags
<1>1. /\ \A i \in DOMAIN flat : \E f \in DOMAIN flags : \E s \in DOMAIN flags[f].spellings :
           flat[i][1] = flags[f].spellings[s]
      /\ \A f \in DOMAIN flags : \A s \in DOMAIN flags[f].spellings : \E i \in DOMAIN flat :
           flat[i][1] = flags[f].spellings[s]
  BY RenderedFlags
<1> HIDE DEF flat, flags
<1>2. {flat[i][1] : i \in DOMAIN flat} = UNION {ToSet(flags[f].spellings) : f \in DOMAIN flags}
  <2>1. ASSUME NEW i \in DOMAIN flat PROVE flat[i][1] \in UNION {ToSet(flags[f].spellings) : f \in DOMAIN flags}
    <3>1. PICK f \in DOMAIN flags : \E s \in DOMAIN flags[f].spellings : flat[i][1] = flags[f].spellings[s]
      BY <1>1
    <3>2. flat[i][1] \in ToSet(flags[f].spellings)
      BY <3>1 DEF ToSet
    <3> QED BY <3>2
  <2>2. ASSUME NEW f \in DOMAIN flags, NEW x \in ToSet(flags[f].spellings)
        PROVE  x \in {flat[i][1] : i \in DOMAIN flat}
    <3>1. PICK s \in DOMAIN flags[f].spellings : x = flags[f].spellings[s]
      BY DEF ToSet
    <3>2. PICK i \in DOMAIN flat : flat[i][1] = x
      BY <3>1, <1>1
    <3> QED BY <3>2
  <2> QED BY <2>1, <2>2
<1> QED BY <1>2 DEF Flags, AllSpellings, flat, flags

(* What validate_ruleset checks.                                            *)
LEMMA RulesetOk ==
  ASSUME NEW rules \in Ruleset, NEW sensitive \in BOOLEAN, NEW extra
  PROVE  /\ CheckRuleset(rules, sensitive, extra) \in Seq(Answer)
         /\ AllOk(CheckRuleset(rules, sensitive, extra))
              <=> /\ \A f \in DOMAIN rules.flags : AllOk(CheckFlag(rules.flags, f, sensitive))
                  /\ \A c \in DOMAIN rules.combos : \A r \in DOMAIN rules.combos[c] :
                       ContainsSpelling(AllSpellings(rules.flags) \cup extra, rules.combos[c][r], sensitive)
                  /\ \A i \in DOMAIN rules.operands : rules.operands[i].pattern # "("
<1> DEFINE all == AllSpellings(rules.flags) \cup extra
           a == [f \in DOMAIN rules.flags |-> CheckFlag(rules.flags, f, sensitive)]
           b == [c \in DOMAIN rules.combos |-> CheckCombo(rules.combos[c], all, sensitive)]
           d == ValidPatterns(rules.operands)
<1>1. /\ rules.flags \in Seq(Flag) /\ rules.combos \in Seq(Seq(STRING)) /\ rules.operands \in Seq(Pattern)
  BY RulesAre
<1>2. CheckRuleset(rules, sensitive, extra) = (FlattenSeq(a) \o FlattenSeq(b)) \o d
  BY DEF CheckRuleset
<1>3. /\ a \in Seq(Seq(Answer)) /\ DOMAIN a = DOMAIN rules.flags
      /\ \A f \in DOMAIN rules.flags : a[f] = CheckFlag(rules.flags, f, sensitive)
  <2>1. \A f \in DOMAIN rules.flags : CheckFlag(rules.flags, f, sensitive) \in Seq(Answer)
    BY <1>1, FlagOk
  <2> DEFINE n == Len(rules.flags)
  <2>2. n \in Nat /\ DOMAIN rules.flags = 1 .. n
    BY <1>1
  <2> HIDE DEF n
  <2>3. a = [f \in 1 .. n |-> CheckFlag(rules.flags, f, sensitive)]
    BY <2>2
  <2> QED BY <2>1, <2>2, <2>3
<1>4. /\ b \in Seq(Seq(Answer)) /\ DOMAIN b = DOMAIN rules.combos
      /\ \A c \in DOMAIN rules.combos : b[c] = CheckCombo(rules.combos[c], all, sensitive)
  <2>1. \A c \in DOMAIN rules.combos : rules.combos[c] \in Seq(STRING)
    BY <1>1
  <2> HIDE DEF all
  <2>2. \A c \in DOMAIN rules.combos : CheckCombo(rules.combos[c], all, sensitive) \in Seq(Answer)
    BY <2>1, ComboOk
  <2> DEFINE n == Len(rules.combos)
  <2>3. n \in Nat /\ DOMAIN rules.combos = 1 .. n
    BY <1>1
  <2> HIDE DEF n
  <2>4. b = [c \in 1 .. n |-> CheckCombo(rules.combos[c], all, sensitive)]
    BY <2>3
  <2> QED BY <2>2, <2>3, <2>4
<1>5. /\ d \in Seq(Answer)
      /\ AllOk(d) <=> \A i \in DOMAIN rules.operands : rules.operands[i].pattern # "("
  BY <1>1, PatternsOk
<1>6. \A c \in DOMAIN rules.combos :
        AllOk(CheckCombo(rules.combos[c], all, sensitive))
          <=> \A r \in DOMAIN rules.combos[c] : ContainsSpelling(all, rules.combos[c][r], sensitive)
  <2>1. \A c \in DOMAIN rules.combos : rules.combos[c] \in Seq(STRING)
    BY <1>1
  <2> HIDE DEF all
  <2> QED BY <2>1, ComboOk
<1> HIDE DEF a, b, d, all
<1>7. /\ FlattenSeq(a) \in Seq(Answer) /\ (AllOk(FlattenSeq(a)) <=> \A f \in DOMAIN a : AllOk(a[f]))
      /\ FlattenSeq(b) \in Seq(Answer) /\ (AllOk(FlattenSeq(b)) <=> \A c \in DOMAIN b : AllOk(b[c]))
  BY <1>3, <1>4, AllOkFlatten
<1>8. /\ FlattenSeq(a) \o FlattenSeq(b) \in Seq(Answer)
      /\ AllOk(FlattenSeq(a) \o FlattenSeq(b)) <=> AllOk(FlattenSeq(a)) /\ AllOk(FlattenSeq(b))
  BY <1>7, AllOkConcat
<1> DEFINE ab == FlattenSeq(a) \o FlattenSeq(b)
<1>9. ab \o d \in Seq(Answer) /\ (AllOk(ab \o d) <=> AllOk(ab) /\ AllOk(d))
  <2> HIDE DEF ab
  <2> QED BY <1>5, <1>8, AllOkConcat DEF ab
<1>10. AllOk(ab) <=> /\ \A f \in DOMAIN rules.flags : AllOk(CheckFlag(rules.flags, f, sensitive))
                     /\ \A c \in DOMAIN rules.combos : AllOk(CheckCombo(rules.combos[c], all, sensitive))
  BY <1>3, <1>4, <1>7, <1>8
<1> HIDE DEF ab
<1>11. CheckRuleset(rules, sensitive, extra) = ab \o d
  BY <1>2 DEF ab
<1> QED BY <1>5, <1>6, <1>9, <1>10, <1>11 DEF all

(* No spelling is two flags' iff none is among the earlier ones.            *)
LEMMA NoFlagTwice ==
  ASSUME NEW rules \in Ruleset, NEW sensitive \in BOOLEAN
  PROVE  LET flat == RenderRuleset(rules).flags
             flags == rules.flags
         IN  (\A i, j \in DOMAIN flat : SpellingEq(flat[i][1], flat[j][1], sensitive) => i = j)
               <=> \A f \in DOMAIN flags : \A s \in DOMAIN flags[f].spellings :
                     ~ ContainsSpelling(SpelledBefore(flags, f, s), flags[f].spellings[s], sensitive)
<1> DEFINE flat == RenderRuleset(rules).flags
           flags == rules.flags
           ss == Rendered(flags)
           R == {z \in Spelling \X Spelling : SpellingEq(z[1][1], z[2][1], sensitive)}
<1>1. flags \in Seq(Flag) /\ flat = FlattenSeq(ss)
  BY RulesAre
<1> HIDE DEF flags, flat
<1>2. /\ ss \in Seq(Seq(Spelling)) /\ DOMAIN ss = DOMAIN flags
      /\ \A f \in DOMAIN flags :
           /\ DOMAIN ss[f] = DOMAIN flags[f].spellings
           /\ \A s \in DOMAIN flags[f].spellings : ss[f][s][1] = flags[f].spellings[s]
  BY <1>1, RenderedIs
<1>3. \A f \in DOMAIN flags : \A s \in DOMAIN flags[f].spellings :
        ContainsSpelling(SpelledBefore(flags, f, s), flags[f].spellings[s], sensitive)
          <=> \E p \in Places(ss) :
                Earlier(p, <<f, s>>) /\ SpellingEq(ValueAt(ss, p)[1], flags[f].spellings[s], sensitive)
  BY <1>1, SpelledEarlier
<1> HIDE DEF ss
<1>4. \A x, y \in Spelling : <<x, y>> \in R <=> SpellingEq(x[1], y[1], sensitive)
  OBVIOUS
<1>5. \A x, y \in Spelling : <<x, y>> \in R => <<y, x>> \in R
  <2>1. \A x, y : SpellingEq(x, y, sensitive) => SpellingEq(y, x, sensitive)
    BY DEF SpellingEq
  <2> QED BY <1>4, <2>1
<1> HIDE DEF R
<1>6. (\A i, j \in DOMAIN flat : <<flat[i], flat[j]>> \in R => i = j)
        <=> \A p, q \in Places(ss) : Earlier(p, q) => <<ValueAt(ss, p), ValueAt(ss, q)>> \notin R
  BY <1>1, <1>2, <1>5, NoTwo
<1>7. flat \in Seq(Spelling)
  BY <1>1, <1>2, FlattenHolds
<1>8. \A i, j \in DOMAIN flat : <<flat[i], flat[j]>> \in R <=> SpellingEq(flat[i][1], flat[j][1], sensitive)
  <2>1. \A i \in DOMAIN flat : flat[i] \in Spelling
    BY <1>7
  <2> QED BY <2>1, <1>4
<1>9. \A p \in Places(ss) :
        /\ ValueAt(ss, p) \in Spelling
        /\ p[1] \in DOMAIN flags /\ p[2] \in DOMAIN flags[p[1]].spellings /\ p = <<p[1], p[2]>>
        /\ ValueAt(ss, p)[1] = flags[p[1]].spellings[p[2]]
  <2> SUFFICES ASSUME NEW p \in Places(ss)
               PROVE  /\ ValueAt(ss, p) \in Spelling
                      /\ p[1] \in DOMAIN flags /\ p[2] \in DOMAIN flags[p[1]].spellings /\ p = <<p[1], p[2]>>
                      /\ ValueAt(ss, p)[1] = flags[p[1]].spellings[p[2]]
    OBVIOUS
  <2>1. /\ p[1] \in DOMAIN ss /\ p[2] \in DOMAIN ss[p[1]] /\ p = <<p[1], p[2]>> /\ ValueAt(ss, p) \in Spelling
    BY <1>2, PlacesAre
  <2>2. p[1] \in DOMAIN flags /\ p[2] \in DOMAIN flags[p[1]].spellings
    BY <1>2, <2>1
  <2> QED BY <1>2, <2>1, <2>2 DEF ValueAt
<1>10. \A f \in DOMAIN flags : \A s \in DOMAIN flags[f].spellings :
         <<f, s>> \in Places(ss) /\ ValueAt(ss, <<f, s>>)[1] = flags[f].spellings[s]
  <2> SUFFICES ASSUME NEW f \in DOMAIN flags, NEW s \in DOMAIN flags[f].spellings
               PROVE  <<f, s>> \in Places(ss) /\ ValueAt(ss, <<f, s>>)[1] = flags[f].spellings[s]
    OBVIOUS
  <2>1. f \in DOMAIN ss /\ s \in DOMAIN ss[f] /\ ss[f][s][1] = flags[f].spellings[s]
    BY <1>2
  <2>2. <<f, s>> \in Places(ss) /\ ValueAt(ss, <<f, s>>) = ss[f][s]
    BY <2>1, PlaceOf
  <2> QED BY <2>1, <2>2
<1>11. (\A p, q \in Places(ss) : Earlier(p, q) => <<ValueAt(ss, p), ValueAt(ss, q)>> \notin R)
         <=> \A p, q \in Places(ss) :
               Earlier(p, q) => ~ SpellingEq(ValueAt(ss, p)[1], ValueAt(ss, q)[1], sensitive)
  BY <1>4, <1>9
<1>12. (\A p, q \in Places(ss) : Earlier(p, q) => ~ SpellingEq(ValueAt(ss, p)[1], ValueAt(ss, q)[1], sensitive))
         <=> \A f \in DOMAIN flags : \A s \in DOMAIN flags[f].spellings :
               ~ \E p \in Places(ss) :
                   Earlier(p, <<f, s>>) /\ SpellingEq(ValueAt(ss, p)[1], flags[f].spellings[s], sensitive)
  <2>1. ASSUME \A p, q \in Places(ss) :
                 Earlier(p, q) => ~ SpellingEq(ValueAt(ss, p)[1], ValueAt(ss, q)[1], sensitive),
               NEW f \in DOMAIN flags, NEW s \in DOMAIN flags[f].spellings,
               NEW p \in Places(ss), Earlier(p, <<f, s>>)
        PROVE  ~ SpellingEq(ValueAt(ss, p)[1], flags[f].spellings[s], sensitive)
    <3>1. <<f, s>> \in Places(ss) /\ ValueAt(ss, <<f, s>>)[1] = flags[f].spellings[s]
      BY <1>10
    <3>2. ~ SpellingEq(ValueAt(ss, p)[1], ValueAt(ss, <<f, s>>)[1], sensitive)
      BY <2>1, <3>1
    <3> QED BY <3>1, <3>2
  <2>2. ASSUME \A f \in DOMAIN flags : \A s \in DOMAIN flags[f].spellings :
                 ~ \E p \in Places(ss) :
                     Earlier(p, <<f, s>>) /\ SpellingEq(ValueAt(ss, p)[1], flags[f].spellings[s], sensitive),
               NEW p \in Places(ss), NEW q \in Places(ss), Earlier(p, q)
        PROVE  ~ SpellingEq(ValueAt(ss, p)[1], ValueAt(ss, q)[1], sensitive)
    <3>1. /\ q[1] \in DOMAIN flags /\ q[2] \in DOMAIN flags[q[1]].spellings /\ q = <<q[1], q[2]>>
          /\ ValueAt(ss, q)[1] = flags[q[1]].spellings[q[2]]
      BY <1>9
    <3>2. Earlier(p, <<q[1], q[2]>>)
      BY <2>2, <3>1
    <3>3. ~ SpellingEq(ValueAt(ss, p)[1], flags[q[1]].spellings[q[2]], sensitive)
      BY <2>2, <3>1, <3>2
    <3> QED BY <3>1, <3>3
  <2> QED BY <2>1, <2>2
<1> DEFINE Left == \A i, j \in DOMAIN flat : SpellingEq(flat[i][1], flat[j][1], sensitive) => i = j
           Right == \A f \in DOMAIN flags : \A s \in DOMAIN flags[f].spellings :
                      ~ ContainsSpelling(SpelledBefore(flags, f, s), flags[f].spellings[s], sensitive)
<1>13. Left <=> \A i, j \in DOMAIN flat : <<flat[i], flat[j]>> \in R => i = j
  BY <1>8
<1>14. Right <=> \A f \in DOMAIN flags : \A s \in DOMAIN flags[f].spellings :
         ~ \E p \in Places(ss) :
             Earlier(p, <<f, s>>) /\ SpellingEq(ValueAt(ss, p)[1], flags[f].spellings[s], sensitive)
  BY <1>3
<1> HIDE DEF Left, Right
<1>15. Left <=> Right
  BY <1>6, <1>11, <1>12, <1>13, <1>14
<1> QED BY <1>15 DEF Left, Right, flat, flags

(* A ruleset that passes leaves no lookup open; one that leaves none open   *)
(* passes, unless what is wrong is with a flag that has no spelling.        *)
LEMMA RulesClear ==
  ASSUME NEW rules \in Ruleset, NEW sensitive \in BOOLEAN, NEW extra
  PROVE  LET passes == AllOk(CheckRuleset(rules, sensitive, extra))
             clear == ClearRules(RenderRuleset(rules), Flags(RenderRuleset(rules)) \cup extra, sensitive)
         IN  (passes => clear) /\ (clear /\ Spelled(rules) => passes)
<1> DEFINE flags == rules.flags
           flat == RenderRuleset(rules).flags
           Once == \A i, j \in DOMAIN flat : SpellingEq(flat[i][1], flat[j][1], sensitive) => i = j
           Given == \A c \in DOMAIN rules.combos : \A r \in DOMAIN rules.combos[c] :
                      ContainsSpelling(AllSpellings(flags) \cup extra, rules.combos[c][r], sensitive)
           Valued == \A i \in DOMAIN flat : \A v \in DOMAIN flat[i][2].value_rule :
                       flat[i][2].value_rule[v].pattern # "("
           Matches == \A f \in DOMAIN flags : \A v \in DOMAIN flags[f].value_rule :
                        flags[f].value_rule[v].pattern # "("
           Operands == \A i \in DOMAIN rules.operands : rules.operands[i].pattern # "("
<1>1. /\ flags \in Seq(Flag)
      /\ RenderRuleset(rules).combos = rules.combos
      /\ RenderRuleset(rules).operands = rules.operands
  BY RulesAre
<1>2. /\ AllOk(CheckRuleset(rules, sensitive, extra))
           <=> (\A f \in DOMAIN flags : AllOk(CheckFlag(flags, f, sensitive))) /\ Given /\ Operands
  BY RulesetOk
<1>3. Flags(RenderRuleset(rules)) = AllSpellings(flags)
  BY FlagsAre
<1>4. Once <=> \A f \in DOMAIN flags : \A s \in DOMAIN flags[f].spellings :
                 ~ ContainsSpelling(SpelledBefore(flags, f, s), flags[f].spellings[s], sensitive)
  BY NoFlagTwice
<1>5. /\ \A i \in DOMAIN flat : \E f \in DOMAIN flags : \E s \in DOMAIN flags[f].spellings :
           flat[i][1] = flags[f].spellings[s] /\ flat[i][2].value_rule = flags[f].value_rule
      /\ \A f \in DOMAIN flags : \A s \in DOMAIN flags[f].spellings : \E i \in DOMAIN flat :
           flat[i][1] = flags[f].spellings[s] /\ flat[i][2].value_rule = flags[f].value_rule
  BY RenderedFlags
<1>6. Spelled(rules) <=> \A f \in DOMAIN flags : flags[f].spellings # <<>>
  BY DEF Spelled
<1>7. ClearRules(RenderRuleset(rules), Flags(RenderRuleset(rules)) \cup extra, sensitive)
        <=> Once /\ Given /\ Valued /\ Operands
  <2> DEFINE reachable == AllSpellings(flags) \cup extra
  <2>1. Given <=> \A c \in DOMAIN rules.combos : \A r \in DOMAIN rules.combos[c] :
                    \E flag \in reachable : SpellingEq(flag, rules.combos[c][r], sensitive)
    BY DEF ContainsSpelling
  <2> HIDE DEF reachable, Given, Once, Valued, Operands
  <2>2. Flags(RenderRuleset(rules)) \cup extra = reachable
    BY <1>3 DEF reachable
  <2>3. ClearRules(RenderRuleset(rules), reachable, sensitive)
          <=> /\ Once
              /\ \A c \in DOMAIN rules.combos : \A r \in DOMAIN rules.combos[c] :
                   \E flag \in reachable : SpellingEq(flag, rules.combos[c][r], sensitive)
              /\ Valued /\ Operands
    BY <1>1, Zenon DEF ClearRules, Once, Valued, Operands
  <2> QED BY <2>1, <2>2, <2>3
<1> HIDE DEF Given, Operands, flat
<1>8. (\A f \in DOMAIN flags : AllOk(CheckFlag(flags, f, sensitive))) <=> Once /\ Matches
  <2>1. \A f \in DOMAIN flags :
          AllOk(CheckFlag(flags, f, sensitive))
            <=> /\ \A s \in DOMAIN flags[f].spellings :
                     ~ ContainsSpelling(SpelledBefore(flags, f, s), flags[f].spellings[s], sensitive)
                /\ \A v \in DOMAIN flags[f].value_rule : flags[f].value_rule[v].pattern # "("
    BY <1>1, FlagOk
  <2> HIDE DEF flags, Once
  <2> QED BY <2>1, <1>4
<1>9. Matches => Valued
  <2> SUFFICES ASSUME Matches, NEW i \in DOMAIN flat, NEW v \in DOMAIN flat[i][2].value_rule
               PROVE  flat[i][2].value_rule[v].pattern # "("
    OBVIOUS
  <2>1. PICK f \in DOMAIN flags : flat[i][2].value_rule = flags[f].value_rule
    BY <1>5
  <2> HIDE DEF flags
  <2> QED BY <2>1
<1>10. Valued /\ Spelled(rules) => Matches
  <2> SUFFICES ASSUME Valued, Spelled(rules), NEW f \in DOMAIN flags, NEW v \in DOMAIN flags[f].value_rule
               PROVE  flags[f].value_rule[v].pattern # "("
    OBVIOUS
  <2>1. 1 \in DOMAIN flags[f].spellings
    <3>1. flags[f] \in Flag
      BY <1>1
    <3>2. flags[f].spellings \in Seq(STRING) /\ flags[f].spellings # <<>>
      BY <3>1, <1>6, FlagIs
    <3> QED BY <3>2
  <2> HIDE DEF flags
  <2>2. PICK i \in DOMAIN flat : flat[i][2].value_rule = flags[f].value_rule
    BY <2>1, <1>5
  <2> QED BY <2>2
<1> HIDE DEF Once, Valued, Matches
<1> QED BY <1>2, <1>7, <1>8, <1>9, <1>10

(* A declaration has a name at least.                                       *)
LEMMA NamesAre ==
  ASSUME NEW declared, declared.name \in STRING, declared.aliases \in Seq(STRING)
  PROVE  Names(declared) \in Seq(STRING) /\ Names(declared) # <<>>
<1>1. <<declared.name>> \in Seq(STRING) /\ Len(<<declared.name>>) = 1
  OBVIOUS
<1> DEFINE one == <<declared.name>>
<1> HIDE DEF one
<1>2. one \o declared.aliases \in Seq(STRING) /\ Len(one \o declared.aliases) = 1 + Len(declared.aliases)
  BY <1>1 DEF one
<1>3. Len(declared.aliases) \in Nat
  OBVIOUS
<1>4. one \o declared.aliases # <<>>
  BY <1>2, <1>3
<1> QED BY <1>2, <1>4 DEF Names, one

(* The parts of a subcommand.                                               *)
LEMMA SubcommandsAre ==
  ASSUME NEW subs \in Seq(Subcommand), NEW i \in DOMAIN subs
  PROVE  Names(subs[i]) \in Seq(STRING) /\ Names(subs[i]) # <<>> /\ subs[i].rules \in Ruleset
<1>1. subs[i] \in Subcommand
  OBVIOUS
<1>2. subs[i].name \in STRING /\ subs[i].aliases \in Seq(STRING) /\ subs[i].rules \in Ruleset
  BY <1>1 DEF Subcommand
<1> QED BY <1>2, NamesAre

(* The subcommands of a command, each with its names, as they are rendered. *)
RenderedSubs(subs) == [i \in DOMAIN subs |-> RenderSubcommand(subs[i])]

Named == STRING \X {RenderRuleset(rules) : rules \in Ruleset}

(* A subcommand is rendered once for each of its names.                     *)
LEMMA RenderedSubsAre ==
  ASSUME NEW subs \in Seq(Subcommand)
  PROVE  /\ RenderedSubs(subs) \in Seq(Seq(Named)) /\ DOMAIN RenderedSubs(subs) = DOMAIN subs
         /\ \A i \in DOMAIN subs :
              /\ DOMAIN RenderedSubs(subs)[i] = DOMAIN Names(subs[i])
              /\ \A n \in DOMAIN Names(subs[i]) :
                   RenderedSubs(subs)[i][n] = <<Names(subs[i])[n], RenderRuleset(subs[i].rules)>>
<1>1. ASSUME NEW i \in DOMAIN subs
      PROVE  /\ RenderSubcommand(subs[i]) \in Seq(Named)
             /\ DOMAIN RenderSubcommand(subs[i]) = DOMAIN Names(subs[i])
             /\ \A n \in DOMAIN Names(subs[i]) :
                  RenderSubcommand(subs[i])[n] = <<Names(subs[i])[n], RenderRuleset(subs[i].rules)>>
  <2> DEFINE names == Names(subs[i])
             render == RenderRuleset(subs[i].rules)
  <2>1. names \in Seq(STRING) /\ subs[i].rules \in Ruleset
    BY SubcommandsAre
  <2>2. RenderSubcommand(subs[i]) = [n \in DOMAIN names |-> <<names[n], render>>]
    BY DEF RenderSubcommand
  <2>3. render \in {RenderRuleset(rules) : rules \in Ruleset}
    BY <2>1
  <2> HIDE DEF names, render
  <2>4. RenderSubcommand(subs[i]) = [n \in 1 .. Len(names) |-> <<names[n], render>>] /\ Len(names) \in Nat
    BY <2>1, <2>2
  <2>5. \A n \in 1 .. Len(names) : <<names[n], render>> \in Named
    BY <2>1, <2>3 DEF Named
  <2>6. RenderSubcommand(subs[i]) \in Seq(Named)
    BY <2>4, <2>5
  <2> QED BY <2>2, <2>6 DEF names, render
<1>2. DOMAIN RenderedSubs(subs) = 1 .. Len(subs) /\ Len(subs) \in Nat /\ DOMAIN subs = 1 .. Len(subs)
      /\ \A i \in DOMAIN subs : RenderedSubs(subs)[i] = RenderSubcommand(subs[i])
  BY DEF RenderedSubs
<1>3. RenderedSubs(subs) = [i \in 1 .. Len(subs) |-> RenderedSubs(subs)[i]]
  BY <1>2 DEF RenderedSubs
<1>4. RenderedSubs(subs) \in Seq(Seq(Named))
  BY <1>1, <1>2, <1>3
<1> QED BY <1>1, <1>2, <1>4

(* A name is found among those before it iff an earlier one is the same.    *)
LEMMA NamedEarlier ==
  ASSUME NEW subs \in Seq(Subcommand), NEW i \in DOMAIN subs, NEW n \in DOMAIN Names(subs[i])
  PROVE  Names(subs[i])[n] \in NamedBefore(subs, i, n)
           <=> \E p \in Places(RenderedSubs(subs)) :
                 Earlier(p, <<i, n>>) /\ ValueAt(RenderedSubs(subs), p)[1] = Names(subs[i])[n]
<1> DEFINE ss == RenderedSubs(subs)
           names(j) == Names(subs[j])
           needle == names(i)[n]
           before == UNION {ToSet(names(j)) : j \in 1 .. i - 1}
           here == {names(i)[m] : m \in 1 .. n - 1}
<1>0. /\ ss \in Seq(Seq(Named)) /\ DOMAIN ss = DOMAIN subs
      /\ \A j \in DOMAIN subs :
           /\ DOMAIN ss[j] = DOMAIN names(j)
           /\ \A m \in DOMAIN names(j) : ss[j][m][1] = names(j)[m]
  BY RenderedSubsAre
<1>1. /\ DOMAIN subs = 1 .. Len(subs) /\ Len(subs) \in Nat
      /\ \A j \in DOMAIN subs : DOMAIN names(j) = 1 .. Len(names(j)) /\ Len(names(j)) \in Nat
  <2>1. \A j \in DOMAIN subs : names(j) \in Seq(STRING)
    BY SubcommandsAre
  <2> HIDE DEF names
  <2> QED BY <2>1
<1>2. NamedBefore(subs, i, n) = before \cup here
  BY DEF NamedBefore
<1> HIDE DEF ss, needle, before, here, names
<1>3. ASSUME needle \in before \cup here
      PROVE  \E p \in Places(ss) : Earlier(p, <<i, n>>) /\ ValueAt(ss, p)[1] = needle
  <2>1. CASE needle \in before
    <3>1. PICK j \in 1 .. i - 1 : needle \in ToSet(names(j))
      BY <2>1 DEF before
    <3>2. j \in DOMAIN subs /\ j < i
      BY <1>1
    <3>3. PICK m \in DOMAIN names(j) : needle = names(j)[m]
      BY <3>1 DEF ToSet
    <3>4. j \in DOMAIN ss /\ m \in DOMAIN ss[j] /\ ss[j][m][1] = needle
      BY <3>2, <3>3, <1>0
    <3>5. <<j, m>> \in Places(ss) /\ ValueAt(ss, <<j, m>>)[1] = needle
      BY <3>4, PlaceOf
    <3>6. Earlier(<<j, m>>, <<i, n>>)
      BY <3>2 DEF Earlier
    <3> QED BY <3>5, <3>6
  <2>2. CASE needle \in here
    <3>1. PICK m \in 1 .. n - 1 : needle = names(i)[m]
      BY <2>2 DEF here
    <3>2. m \in DOMAIN names(i) /\ m < n
      <4>1. n \in 1 .. Len(names(i)) /\ Len(names(i)) \in Nat /\ DOMAIN names(i) = 1 .. Len(names(i))
        BY <1>1 DEF names
      <4> QED BY <4>1
    <3>3. i \in DOMAIN ss /\ m \in DOMAIN ss[i] /\ ss[i][m][1] = needle
      BY <3>1, <3>2, <1>0
    <3>4. <<i, m>> \in Places(ss) /\ ValueAt(ss, <<i, m>>)[1] = needle
      BY <3>3, PlaceOf
    <3>5. Earlier(<<i, m>>, <<i, n>>)
      BY <3>2 DEF Earlier
    <3> QED BY <3>4, <3>5
  <2> QED BY <2>1, <2>2, <1>3
<1>4. ASSUME NEW p \in Places(ss), Earlier(p, <<i, n>>), ValueAt(ss, p)[1] = needle
      PROVE  needle \in before \cup here
  <2>1. p[1] \in DOMAIN ss /\ p[1] \in Nat /\ p[2] \in DOMAIN ss[p[1]] /\ p[2] \in Nat
    BY <1>0, PlacesAre
  <2>2. p[1] \in DOMAIN subs /\ p[2] \in DOMAIN names(p[1])
    BY <2>1, <1>0
  <2>3. ValueAt(ss, p)[1] = names(p[1])[p[2]]
    BY <2>2, <1>0 DEF ValueAt
  <2>4. p[1] < i \/ (p[1] = i /\ p[2] < n)
    BY <1>4 DEF Earlier
  <2>5. CASE p[1] < i
    <3>1. p[1] \in 1 .. i - 1
      <4> i \in Nat
        BY <1>1
      <4> QED BY <2>2, <2>5, <1>1
    <3>2. needle \in ToSet(names(p[1]))
      BY <2>2, <2>3, <1>4 DEF ToSet
    <3> QED BY <3>1, <3>2 DEF before
  <2>6. CASE p[1] = i /\ p[2] < n
    <3>1. p[2] \in 1 .. n - 1
      <4>1. n \in 1 .. Len(names(i)) /\ Len(names(i)) \in Nat /\ DOMAIN names(i) = 1 .. Len(names(i))
        BY <1>1 DEF names
      <4>2. p[2] \in 1 .. Len(names(i))
        BY <4>1, <2>2, <2>6
      <4> QED BY <4>1, <4>2, <2>6
    <3>2. needle = names(i)[p[2]]
      BY <2>3, <2>6, <1>4
    <3> QED BY <3>1, <3>2 DEF here
  <2> QED BY <2>4, <2>5, <2>6
<1> QED BY <1>2, <1>3, <1>4 DEF ss, needle, names

(* No name is two subcommands' iff each is not among the earlier ones.      *)
LEMMA NoNameTwice ==
  ASSUME NEW subs \in Seq(Subcommand)
  PROVE  LET flat == FlattenSeq(RenderedSubs(subs))
         IN  (\A i, j \in DOMAIN flat : flat[i][1] = flat[j][1] => i = j)
               <=> \A i \in DOMAIN subs : \A n \in DOMAIN Names(subs[i]) :
                     Names(subs[i])[n] \notin NamedBefore(subs, i, n)
<1> DEFINE ss == RenderedSubs(subs)
           flat == FlattenSeq(ss)
           names(i) == Names(subs[i])
           R == {z \in Named \X Named : z[1][1] = z[2][1]}
<1>1. /\ ss \in Seq(Seq(Named)) /\ DOMAIN ss = DOMAIN subs
      /\ \A i \in DOMAIN subs :
           /\ DOMAIN ss[i] = DOMAIN names(i)
           /\ \A n \in DOMAIN names(i) : ss[i][n][1] = names(i)[n]
  BY RenderedSubsAre
<1>2. \A i \in DOMAIN subs : \A n \in DOMAIN names(i) :
        names(i)[n] \in NamedBefore(subs, i, n)
          <=> \E p \in Places(ss) : Earlier(p, <<i, n>>) /\ ValueAt(ss, p)[1] = names(i)[n]
  BY NamedEarlier
<1> HIDE DEF ss, names
<1>3. \A x, y \in Named : <<x, y>> \in R <=> x[1] = y[1]
  OBVIOUS
<1> HIDE DEF R
<1>4. \A x, y \in Named : <<x, y>> \in R => <<y, x>> \in R
  BY <1>3
<1>5. (\A i, j \in DOMAIN flat : <<flat[i], flat[j]>> \in R => i = j)
        <=> \A p, q \in Places(ss) : Earlier(p, q) => <<ValueAt(ss, p), ValueAt(ss, q)>> \notin R
  BY <1>1, <1>4, NoTwo
<1>6. flat \in Seq(Named)
  BY <1>1, FlattenHolds
<1> HIDE DEF flat
<1>7. \A i, j \in DOMAIN flat : <<flat[i], flat[j]>> \in R <=> flat[i][1] = flat[j][1]
  <2>1. \A i \in DOMAIN flat : flat[i] \in Named
    BY <1>6
  <2> QED BY <2>1, <1>3
<1>8. \A p \in Places(ss) :
        /\ ValueAt(ss, p) \in Named
        /\ p[1] \in DOMAIN subs /\ p[2] \in DOMAIN names(p[1]) /\ p = <<p[1], p[2]>>
        /\ ValueAt(ss, p)[1] = names(p[1])[p[2]]
  <2> SUFFICES ASSUME NEW p \in Places(ss)
               PROVE  /\ ValueAt(ss, p) \in Named
                      /\ p[1] \in DOMAIN subs /\ p[2] \in DOMAIN names(p[1]) /\ p = <<p[1], p[2]>>
                      /\ ValueAt(ss, p)[1] = names(p[1])[p[2]]
    OBVIOUS
  <2>1. p[1] \in DOMAIN ss /\ p[2] \in DOMAIN ss[p[1]] /\ p = <<p[1], p[2]>> /\ ValueAt(ss, p) \in Named
    BY <1>1, PlacesAre
  <2>2. p[1] \in DOMAIN subs /\ p[2] \in DOMAIN names(p[1])
    BY <1>1, <2>1
  <2> QED BY <1>1, <2>1, <2>2 DEF ValueAt
<1>9. \A i \in DOMAIN subs : \A n \in DOMAIN names(i) :
        <<i, n>> \in Places(ss) /\ ValueAt(ss, <<i, n>>)[1] = names(i)[n]
  <2> SUFFICES ASSUME NEW i \in DOMAIN subs, NEW n \in DOMAIN names(i)
               PROVE  <<i, n>> \in Places(ss) /\ ValueAt(ss, <<i, n>>)[1] = names(i)[n]
    OBVIOUS
  <2>1. i \in DOMAIN ss /\ n \in DOMAIN ss[i] /\ ss[i][n][1] = names(i)[n]
    BY <1>1
  <2>2. <<i, n>> \in Places(ss) /\ ValueAt(ss, <<i, n>>) = ss[i][n]
    BY <2>1, PlaceOf
  <2> QED BY <2>1, <2>2
<1>10. (\A p, q \in Places(ss) : Earlier(p, q) => <<ValueAt(ss, p), ValueAt(ss, q)>> \notin R)
         <=> \A p, q \in Places(ss) : Earlier(p, q) => ValueAt(ss, p)[1] # ValueAt(ss, q)[1]
  <2>1. \A p \in Places(ss) : ValueAt(ss, p) \in Named
    BY <1>8
  <2>2. \A p, q \in Places(ss) :
          <<ValueAt(ss, p), ValueAt(ss, q)>> \in R <=> ValueAt(ss, p)[1] = ValueAt(ss, q)[1]
    BY <2>1, <1>3
  <2> QED BY <2>2
<1>11. (\A p, q \in Places(ss) : Earlier(p, q) => ValueAt(ss, p)[1] # ValueAt(ss, q)[1])
         <=> \A i \in DOMAIN subs : \A n \in DOMAIN names(i) :
               ~ \E p \in Places(ss) : Earlier(p, <<i, n>>) /\ ValueAt(ss, p)[1] = names(i)[n]
  <2>1. ASSUME \A p, q \in Places(ss) : Earlier(p, q) => ValueAt(ss, p)[1] # ValueAt(ss, q)[1],
               NEW i \in DOMAIN subs, NEW n \in DOMAIN names(i), NEW p \in Places(ss), Earlier(p, <<i, n>>)
        PROVE  ValueAt(ss, p)[1] # names(i)[n]
    <3>1. <<i, n>> \in Places(ss) /\ ValueAt(ss, <<i, n>>)[1] = names(i)[n]
      BY <1>9
    <3>2. ValueAt(ss, p)[1] # ValueAt(ss, <<i, n>>)[1]
      BY <2>1, <3>1
    <3> QED BY <3>1, <3>2
  <2>2. ASSUME \A i \in DOMAIN subs : \A n \in DOMAIN names(i) :
                 ~ \E p \in Places(ss) : Earlier(p, <<i, n>>) /\ ValueAt(ss, p)[1] = names(i)[n],
               NEW p \in Places(ss), NEW q \in Places(ss), Earlier(p, q)
        PROVE  ValueAt(ss, p)[1] # ValueAt(ss, q)[1]
    <3>1. /\ q[1] \in DOMAIN subs /\ q[2] \in DOMAIN names(q[1]) /\ q = <<q[1], q[2]>>
          /\ ValueAt(ss, q)[1] = names(q[1])[q[2]]
      BY <1>8
    <3>2. Earlier(p, <<q[1], q[2]>>)
      BY <2>2, <3>1
    <3>3. ValueAt(ss, p)[1] # names(q[1])[q[2]]
      BY <2>2, <3>1, <3>2
    <3> QED BY <3>1, <3>3
  <2> QED BY <2>1, <2>2
<1> DEFINE Left == \A i, j \in DOMAIN flat : flat[i][1] = flat[j][1] => i = j
           Right == \A i \in DOMAIN subs : \A n \in DOMAIN names(i) : names(i)[n] \notin NamedBefore(subs, i, n)
<1>12. Left <=> \A i, j \in DOMAIN flat : <<flat[i], flat[j]>> \in R => i = j
  BY <1>7
<1>13. Right <=> \A i \in DOMAIN subs : \A n \in DOMAIN names(i) :
         ~ \E p \in Places(ss) : Earlier(p, <<i, n>>) /\ ValueAt(ss, p)[1] = names(i)[n]
  BY <1>2
<1> HIDE DEF Left, Right
<1>14. Left <=> Right
  BY <1>5, <1>10, <1>11, <1>12, <1>13
<1> QED BY <1>14 DEF Left, Right, flat, names, ss

(* What is checked of one subcommand.                                       *)
LEMMA SubOk ==
  ASSUME NEW command \in Command, NEW i \in DOMAIN command.subcommands
  PROVE  LET subs == command.subcommands
             mine == CheckRuleset(subs[i].rules, command.case_sensitive, AllSpellings(command.rules.flags))
         IN  /\ CheckSub(command, i) \in Seq(Answer)
             /\ AllOk(CheckSub(command, i))
                  <=> /\ \A n \in DOMAIN Names(subs[i]) : Names(subs[i])[n] \notin NamedBefore(subs, i, n)
                      /\ AllOk(mine)
<1> DEFINE subs == command.subcommands
           names == Names(subs[i])
           Fresh(n) == names[n] \notin NamedBefore(subs, i, n)
           c == [n \in DOMAIN names |-> Check(Fresh(n), "DuplicateSubcommand")]
           d == CheckRuleset(subs[i].rules, command.case_sensitive, AllSpellings(command.rules.flags))
<1>1. command.subcommands \in Seq(Subcommand) /\ command.case_sensitive \in BOOLEAN
  BY DEF Command
<1>2. names \in Seq(STRING) /\ subs[i].rules \in Ruleset
  BY <1>1, SubcommandsAre
<1>3. CheckSub(command, i) = c \o d
  BY DEF CheckSub
<1>4. d \in Seq(Answer)
  BY <1>1, <1>2, RulesetOk
<1>5. \A n : Fresh(n) \in BOOLEAN
  OBVIOUS
<1> HIDE DEF d, Fresh, names
<1>6. \A n \in DOMAIN names : c[n] \in Answer /\ (c[n] = "ok" <=> Fresh(n))
  <2> SUFFICES ASSUME NEW n \in DOMAIN names PROVE c[n] \in Answer /\ (c[n] = "ok" <=> Fresh(n))
    OBVIOUS
  <2>1. "DuplicateSubcommand" \in RiskDataError
    BY DEF RiskDataError
  <2>2. c[n] = Check(Fresh(n), "DuplicateSubcommand")
    OBVIOUS
  <2> QED BY <2>1, <2>2, <1>5, CheckIs
<1>7. c \in Seq(Answer) /\ DOMAIN c = DOMAIN names
  <2> DEFINE n == Len(names)
  <2>1. n \in Nat /\ DOMAIN names = 1 .. n
    BY <1>2
  <2> HIDE DEF n
  <2>2. c = [k \in 1 .. n |-> c[k]] /\ \A k \in 1 .. n : c[k] \in Answer
    BY <2>1, <1>6
  <2> HIDE DEF c
  <2> QED BY <2>1, <2>2
<1> HIDE DEF c
<1>8. AllOk(c) <=> \A n \in DOMAIN names : Fresh(n)
  BY <1>6, <1>7 DEF AllOk
<1>9. c \o d \in Seq(Answer) /\ (AllOk(c \o d) <=> AllOk(c) /\ AllOk(d))
  BY <1>4, <1>7, AllOkConcat
<1> QED BY <1>3, <1>8, <1>9 DEF names, Fresh, d

(* What Command::validate checks.                                           *)
LEMMA CommandOk ==
  ASSUME NEW command \in Command
  PROVE  /\ CheckCommand(command) \in Seq(Answer)
         /\ AllOk(CheckCommand(command))
              <=> /\ ~(command.grammar = "Go" /\ command.rules.combinable)
                  /\ AllOk(CheckRuleset(command.rules, command.case_sensitive, {}))
                  /\ \A i \in DOMAIN command.subcommands : AllOk(CheckSub(command, i))
<1> DEFINE Combines == ~(command.grammar = "Go" /\ command.rules.combinable)
           a == <<Check(Combines, "CombinableUnderGoGrammar")>>
           b == CheckRuleset(command.rules, command.case_sensitive, {})
           ss == [i \in DOMAIN command.subcommands |-> CheckSub(command, i)]
<1>1. /\ command.subcommands \in Seq(Subcommand) /\ command.case_sensitive \in BOOLEAN
      /\ command.rules \in Ruleset /\ command.rules.combinable \in BOOLEAN
  BY DEF Command, Ruleset
<1>2. CheckCommand(command) = (a \o b) \o FlattenSeq(ss)
  BY DEF CheckCommand
<1>3. a \in Seq(Answer) /\ (AllOk(a) <=> Combines)
  <2>1. Combines \in BOOLEAN /\ "CombinableUnderGoGrammar" \in RiskDataError
    BY <1>1 DEF RiskDataError
  <2> DEFINE x == Check(Combines, "CombinableUnderGoGrammar")
  <2> HIDE DEF Combines
  <2>2. x \in Answer /\ (x = "ok" <=> Combines)
    BY <2>1, CheckIs
  <2> HIDE DEF x
  <2>3. <<x>> \in Seq(Answer) /\ (AllOk(<<x>>) <=> x = "ok")
    BY <2>2 DEF AllOk
  <2> QED BY <2>2, <2>3 DEF x
<1>4. b \in Seq(Answer)
  BY <1>1, RulesetOk
<1>5. ss \in Seq(Seq(Answer)) /\ DOMAIN ss = DOMAIN command.subcommands
      /\ \A i \in DOMAIN command.subcommands : ss[i] = CheckSub(command, i)
  <2>1. \A i \in DOMAIN command.subcommands : CheckSub(command, i) \in Seq(Answer)
    BY SubOk
  <2> DEFINE n == Len(command.subcommands)
  <2>2. n \in Nat /\ DOMAIN command.subcommands = 1 .. n
    BY <1>1
  <2> HIDE DEF n
  <2>3. ss = [i \in 1 .. n |-> CheckSub(command, i)]
    BY <2>2
  <2> QED BY <2>1, <2>2, <2>3
<1> HIDE DEF Combines, a, b, ss
<1>6. FlattenSeq(ss) \in Seq(Answer) /\ (AllOk(FlattenSeq(ss)) <=> \A i \in DOMAIN ss : AllOk(ss[i]))
  BY <1>5, AllOkFlatten
<1>7. a \o b \in Seq(Answer) /\ (AllOk(a \o b) <=> AllOk(a) /\ AllOk(b))
  BY <1>3, <1>4, AllOkConcat
<1>8. /\ (a \o b) \o FlattenSeq(ss) \in Seq(Answer)
      /\ AllOk((a \o b) \o FlattenSeq(ss)) <=> AllOk(a \o b) /\ AllOk(FlattenSeq(ss))
  BY <1>6, <1>7, AllOkConcat
<1>9. AllOk(FlattenSeq(ss)) <=> \A i \in DOMAIN command.subcommands : AllOk(CheckSub(command, i))
  BY <1>5, <1>6
<1> QED BY <1>2, <1>3, <1>7, <1>8, <1>9 DEF Combines, b

(* A command that passes has a clear entry, and the other way round.        *)
LEMMA CommandClear ==
  ASSUME NEW command \in Command
  PROVE  LET passes == AllOk(CheckCommand(command))
             clear == Clear(RenderCommand(command))
             spelled == /\ Spelled(command.rules)
                        /\ \A i \in DOMAIN command.subcommands : Spelled(command.subcommands[i].rules)
         IN  (passes => clear) /\ (clear /\ spelled => passes)
<1> DEFINE entry == RenderCommand(command)
           subs == command.subcommands
           ss == RenderedSubs(subs)
           flat == FlattenSeq(ss)
           cased == command.case_sensitive
           rules == RenderRuleset(command.rules)
           own == Flags(rules)
           render(i) == RenderRuleset(subs[i].rules)
           Open(i) == ClearRules(render(i), own \cup Flags(render(i)), cased)
           Here(i) == AllOk(CheckRuleset(subs[i].rules, cased, AllSpellings(command.rules.flags)))
           Combines == ~(command.grammar = "Go" /\ command.rules.combinable)
           OneEach == \A i \in DOMAIN subs : \A n \in DOMAIN Names(subs[i]) :
                        Names(subs[i])[n] \notin NamedBefore(subs, i, n)
           Own == AllOk(CheckRuleset(command.rules, cased, {}))
           OwnClear == ClearRules(rules, own, cased)
<1>1. /\ subs \in Seq(Subcommand) /\ cased \in BOOLEAN /\ command.rules \in Ruleset
  BY DEF Command
<1>2. \A i \in DOMAIN subs : subs[i].rules \in Ruleset
  BY <1>1, SubcommandsAre
<1>3. /\ entry.grammar = command.grammar /\ entry.case_sensitive = cased
      /\ entry.rules = rules /\ entry.subcommands = flat
  BY DEF RenderCommand, RenderedSubs
<1>4. rules.combinable = command.rules.combinable
  BY <1>1, RulesAre
<1>5. own = AllSpellings(command.rules.flags)
  BY <1>1, FlagsAre
<1>6. AllOk(CheckCommand(command)) <=> Combines /\ Own /\ \A i \in DOMAIN subs : AllOk(CheckSub(command, i))
  BY CommandOk
<1>7. (\A i \in DOMAIN subs : AllOk(CheckSub(command, i))) <=> OneEach /\ \A i \in DOMAIN subs : Here(i)
  <2>1. \A i \in DOMAIN subs :
          AllOk(CheckSub(command, i))
            <=> /\ \A n \in DOMAIN Names(subs[i]) : Names(subs[i])[n] \notin NamedBefore(subs, i, n)
                /\ Here(i)
    BY SubOk
  <2> HIDE DEF subs, Here
  <2> QED BY <2>1
<1>8. /\ Own => OwnClear
      /\ OwnClear /\ Spelled(command.rules) => Own
  <2>1. own \cup {} = own
    OBVIOUS
  <2> HIDE DEF cased
  <2> QED BY <2>1, <1>1, RulesClear
<1>9. \A i \in DOMAIN subs :
        /\ Here(i) => Open(i)
        /\ Open(i) /\ Spelled(subs[i].rules) => Here(i)
  <2> SUFFICES ASSUME NEW i \in DOMAIN subs
               PROVE  /\ Here(i) => Open(i)
                      /\ Open(i) /\ Spelled(subs[i].rules) => Here(i)
    OBVIOUS
  <2> DEFINE r == subs[i].rules
  <2>1. r \in Ruleset
    BY <1>2
  <2>2. Flags(RenderRuleset(r)) \cup own = own \cup Flags(RenderRuleset(r))
    OBVIOUS
  <2> HIDE DEF r, own, cased
  <2>3. /\ AllOk(CheckRuleset(r, cased, own))
             => ClearRules(RenderRuleset(r), Flags(RenderRuleset(r)) \cup own, cased)
        /\ ClearRules(RenderRuleset(r), Flags(RenderRuleset(r)) \cup own, cased) /\ Spelled(r)
             => AllOk(CheckRuleset(r, cased, own))
    BY <1>1, <2>1, RulesClear
  <2> QED BY <2>2, <2>3, <1>5 DEF r
<1>10. (\A i, j \in DOMAIN flat : flat[i][1] = flat[j][1] => i = j) <=> OneEach
  BY <1>1, NoNameTwice
<1>11. (\A i \in DOMAIN flat : ClearRules(flat[i][2], own \cup Flags(flat[i][2]), cased))
         <=> \A i \in DOMAIN subs : Open(i)
  <2>1. /\ ss \in Seq(Seq(Named)) /\ DOMAIN ss = DOMAIN subs
        /\ \A i \in DOMAIN subs :
             /\ DOMAIN ss[i] = DOMAIN Names(subs[i])
             /\ \A n \in DOMAIN Names(subs[i]) : ss[i][n] = <<Names(subs[i])[n], render(i)>>
    BY <1>1, RenderedSubsAre
  <2>2. /\ \A i \in DOMAIN flat : \E f \in DOMAIN ss : \E s \in DOMAIN ss[f] : flat[i] = ss[f][s]
        /\ \A f \in DOMAIN ss : \A s \in DOMAIN ss[f] : \E i \in DOMAIN flat : flat[i] = ss[f][s]
    BY <2>1, FlattenHolds
  <2>3. \A i \in DOMAIN subs : 1 \in DOMAIN Names(subs[i])
    <3> SUFFICES ASSUME NEW i \in DOMAIN subs PROVE 1 \in DOMAIN Names(subs[i])
      OBVIOUS
    <3> DEFINE names == Names(subs[i])
    <3>1. names \in Seq(STRING) /\ names # <<>>
      BY <1>1, SubcommandsAre
    <3> HIDE DEF names
    <3> QED BY <3>1 DEF names
  <2> HIDE DEF flat, ss, subs, render, own, cased
  <2>4. \A i \in DOMAIN flat : \E k \in DOMAIN subs : flat[i][2] = render(k)
    <3> SUFFICES ASSUME NEW i \in DOMAIN flat PROVE \E k \in DOMAIN subs : flat[i][2] = render(k)
      OBVIOUS
    <3>1. PICK k \in DOMAIN ss : \E n \in DOMAIN ss[k] : flat[i] = ss[k][n]
      BY <2>2
    <3>2. PICK n \in DOMAIN ss[k] : flat[i] = ss[k][n]
      BY <3>1
    <3>3. k \in DOMAIN subs /\ n \in DOMAIN Names(subs[k])
      BY <2>1
    <3>4. ss[k][n] = <<Names(subs[k])[n], render(k)>>
      BY <2>1, <3>3
    <3> QED BY <3>2, <3>3, <3>4
  <2>5. \A k \in DOMAIN subs : \E i \in DOMAIN flat : flat[i][2] = render(k)
    <3> SUFFICES ASSUME NEW k \in DOMAIN subs PROVE \E i \in DOMAIN flat : flat[i][2] = render(k)
      OBVIOUS
    <3>1. k \in DOMAIN ss /\ 1 \in DOMAIN ss[k] /\ ss[k][1] = <<Names(subs[k])[1], render(k)>>
      BY <2>1, <2>3
    <3>2. PICK i \in DOMAIN flat : flat[i] = ss[k][1]
      BY <2>2, <3>1
    <3> QED BY <3>1, <3>2
  <2>6. ASSUME \A i \in DOMAIN flat : ClearRules(flat[i][2], own \cup Flags(flat[i][2]), cased), NEW k \in DOMAIN subs
        PROVE  Open(k)
    <3>1. PICK i \in DOMAIN flat : flat[i][2] = render(k)
      BY <2>5
    <3>2. ClearRules(flat[i][2], own \cup Flags(flat[i][2]), cased)
      BY <2>6
    <3> QED BY <3>1, <3>2
  <2>7. ASSUME \A k \in DOMAIN subs : Open(k), NEW i \in DOMAIN flat
        PROVE  ClearRules(flat[i][2], own \cup Flags(flat[i][2]), cased)
    <3>1. PICK k \in DOMAIN subs : flat[i][2] = render(k)
      BY <2>4
    <3>2. Open(k)
      BY <2>7
    <3> QED BY <3>1, <3>2
  <2> HIDE DEF Open
  <2> QED BY <2>6, <2>7
<1> DEFINE AllOpen == \A i \in DOMAIN subs : Open(i)
           AllHere == \A i \in DOMAIN subs : Here(i)
           AllSpell == \A i \in DOMAIN subs : Spelled(subs[i].rules)
<1>12. Clear(entry) <=> Combines /\ OwnClear /\ OneEach /\ AllOpen
  <2> HIDE DEF entry, flat, rules, own, cased, Open
  <2>1. Clear(entry)
          <=> /\ command.grammar = "Go" => ~rules.combinable
              /\ ClearRules(rules, Flags(rules), cased)
              /\ \A i, j \in DOMAIN flat : flat[i][1] = flat[j][1] => i = j
              /\ \A i \in DOMAIN flat : ClearRules(flat[i][2], Flags(rules) \cup Flags(flat[i][2]), cased)
    BY <1>3 DEF Clear
  <2> QED BY <2>1, <1>4, <1>10, <1>11 DEF own
<1>13. AllHere => AllOpen
  <2> HIDE DEF Here, Open, subs
  <2> QED BY <1>9
<1>14. AllOpen /\ AllSpell => AllHere
  <2> HIDE DEF Here, Open, subs
  <2> QED BY <1>9
<1> DEFINE Subs == \A i \in DOMAIN subs : AllOk(CheckSub(command, i))
<1>15. Subs <=> OneEach /\ AllHere
  BY <1>7
<1>16. AllOk(CheckCommand(command)) <=> Combines /\ Own /\ Subs
  BY <1>6
<1> HIDE DEF Combines, Own, OwnClear, OneEach, AllOpen, AllHere, AllSpell, Subs, entry
<1>17. /\ AllOk(CheckCommand(command)) => Clear(entry)
       /\ Clear(entry) /\ Spelled(command.rules) /\ AllSpell => AllOk(CheckCommand(command))
  BY <1>8, <1>12, <1>13, <1>14, <1>15, <1>16
<1> QED BY <1>17 DEF entry, AllSpell

(* Dataset::validate passes what is sound.                                  *)
LEMMA DatasetSound ==
  ASSUME NEW commands \in Seq(Command)
  PROVE  LET failure == FirstError(CheckDataset(commands))
         IN  /\ failure \in Answer
             /\ failure = "ok" => Sound(commands)
             /\ Sound(commands) /\ AllSpelled(commands) => failure = "ok"
<1> DEFINE K == DOMAIN commands
           Distinct(k) == \A j \in 1 .. k - 1 : Claims(commands[j]) \cap Claims(commands[k]) = {}
           a(k) == <<CheckNames(commands, k)>>
           b(k) == CheckCommand(commands[k])
           ss == [k \in K |-> a(k) \o b(k)]
<1>1. \A k \in K : commands[k] \in Command
  OBVIOUS
<1>2. \A k \in K : CheckNames(commands, k) \in Answer /\ (CheckNames(commands, k) = "ok" <=> Distinct(k))
  <2> SUFFICES ASSUME NEW k \in K
               PROVE  CheckNames(commands, k) \in Answer /\ (CheckNames(commands, k) = "ok" <=> Distinct(k))
    OBVIOUS
  <2>1. Distinct(k) \in BOOLEAN /\ "DuplicateCommand" \in RiskDataError
    BY DEF RiskDataError
  <2>2. CheckNames(commands, k) = Check(Distinct(k), "DuplicateCommand")
    BY DEF CheckNames
  <2> HIDE DEF Distinct
  <2> QED BY <2>1, <2>2, CheckIs
<1>3. \A k \in K : a(k) \in Seq(Answer) /\ (AllOk(a(k)) <=> Distinct(k))
  <2> SUFFICES ASSUME NEW k \in K PROVE a(k) \in Seq(Answer) /\ (AllOk(a(k)) <=> Distinct(k))
    OBVIOUS
  <2> DEFINE x == CheckNames(commands, k)
  <2>1. x \in Answer /\ (x = "ok" <=> Distinct(k))
    BY <1>2
  <2> HIDE DEF x, Distinct
  <2>2. <<x>> \in Seq(Answer) /\ (AllOk(<<x>>) <=> x = "ok")
    BY <2>1 DEF AllOk
  <2> QED BY <2>1, <2>2 DEF x
<1>4. \A k \in K : b(k) \in Seq(Answer)
  BY <1>1, CommandOk
<1> HIDE DEF a, b, Distinct
<1>5. \A k \in K : a(k) \o b(k) \in Seq(Answer) /\ (AllOk(a(k) \o b(k)) <=> Distinct(k) /\ AllOk(b(k)))
  BY <1>3, <1>4, AllOkConcat
<1>6. ss \in Seq(Seq(Answer)) /\ DOMAIN ss = K /\ \A k \in K : ss[k] = a(k) \o b(k)
  <2> DEFINE n == Len(commands)
  <2>1. n \in Nat /\ K = 1 .. n
    OBVIOUS
  <2> HIDE DEF n, K
  <2>2. ss = [k \in 1 .. n |-> a(k) \o b(k)]
    BY <2>1
  <2> QED BY <2>1, <2>2, <1>5
<1>7. CheckDataset(commands) = FlattenSeq(ss)
  BY DEF CheckDataset, a, b
<1> HIDE DEF ss
<1>8. FlattenSeq(ss) \in Seq(Answer) /\ (AllOk(FlattenSeq(ss)) <=> \A k \in DOMAIN ss : AllOk(ss[k]))
  BY <1>6, AllOkFlatten
<1>9. /\ FirstError(CheckDataset(commands)) \in Answer
      /\ FirstError(CheckDataset(commands)) = "ok" <=> AllOk(FlattenSeq(ss))
  BY <1>7, <1>8, FirstErrorIs
<1>10. AllOk(FlattenSeq(ss)) <=> (\A k \in K : Distinct(k)) /\ (\A k \in K : AllOk(b(k)))
  BY <1>5, <1>6, <1>8
<1>11. (\A k \in K : Distinct(k)) <=> \A k, l \in K : k # l => Claims(commands[k]) \cap Claims(commands[l]) = {}
  <2>1. K = 1 .. Len(commands) /\ Len(commands) \in Nat
    OBVIOUS
  <2> HIDE DEF K
  <2>2. ASSUME \A k \in K : Distinct(k), NEW k \in K, NEW l \in K, k < l
        PROVE  Claims(commands[k]) \cap Claims(commands[l]) = {}
    <3>1. k \in 1 .. l - 1
      BY <2>1, <2>2
    <3> QED BY <2>2, <3>1 DEF Distinct
  <2>3. ASSUME \A k, l \in K : k # l => Claims(commands[k]) \cap Claims(commands[l]) = {}, NEW k \in K
        PROVE  Distinct(k)
    <3>1. \A j \in 1 .. k - 1 : j \in K /\ j # k
      BY <2>1
    <3> QED BY <2>3, <3>1 DEF Distinct
  <2>4. \A k, l \in K : k # l => k < l \/ l < k
    BY <2>1
  <2>5. \A k, l : Claims(commands[k]) \cap Claims(commands[l]) = Claims(commands[l]) \cap Claims(commands[k])
    OBVIOUS
  <2>6. ASSUME \A k \in K : Distinct(k), NEW k \in K, NEW l \in K, k # l
        PROVE  Claims(commands[k]) \cap Claims(commands[l]) = {}
    <3>1. CASE k < l
      BY <2>2, <2>6, <3>1
    <3>2. CASE l < k
      <4>1. Claims(commands[l]) \cap Claims(commands[k]) = {}
        BY <2>2, <2>6, <3>2
      <4> QED BY <4>1, <2>5
    <3> QED BY <2>4, <2>6, <3>1, <3>2
  <2> QED BY <2>3, <2>6
<1>12. \A k \in K :
         LET spelled == /\ Spelled(commands[k].rules)
                        /\ \A i \in DOMAIN commands[k].subcommands : Spelled(commands[k].subcommands[i].rules)
         IN  /\ AllOk(b(k)) => Clear(RenderCommand(commands[k]))
             /\ Clear(RenderCommand(commands[k])) /\ spelled => AllOk(b(k))
  BY <1>1, CommandClear DEF b
<1> DEFINE AllClear == \A k \in K : Clear(RenderCommand(commands[k]))
           AllPass == \A k \in K : AllOk(b(k))
           Disjoint == \A k, l \in K : k # l => Claims(commands[k]) \cap Claims(commands[l]) = {}
<1>13. AllPass => AllClear
  BY <1>12
<1>14. AllClear /\ AllSpelled(commands) => AllPass
  BY <1>12 DEF AllSpelled
<1>15. Sound(commands) <=> AllClear /\ Disjoint
  BY Zenon DEF Sound
<1>16. FirstError(CheckDataset(commands)) = "ok" <=> Disjoint /\ AllPass
  BY <1>9, <1>10, <1>11
<1> HIDE DEF AllClear, AllPass, Disjoint
<1> QED BY <1>9, <1>13, <1>14, <1>15, <1>16

(* The table after each push, by the equation of the recursion.             *)
Begun(pairs) == [name \in {pairs[j].name : j \in DOMAIN pairs} |-> <<>>]
Pushed(answer, pair) == [answer EXCEPT ![pair.name] = Append(@, pair.variant)]

OneByOne(pairs, g) ==
  g = [i \in 0 .. Len(pairs) |-> IF i = 0 THEN Begun(pairs) ELSE Pushed(g[i - 1], pairs[i])]

(* There is such a run of pushes.                                           *)
LEMMA PushesAre ==
  ASSUME NEW pairs, Len(pairs) \in Nat
  PROVE  \E g : OneByOne(pairs, g)
<1> DEFINE N == Len(pairs)
           F(i, r) == IF i = 0 THEN Begun(pairs) ELSE Pushed(r[i - 1], pairs[i])
           Solved(n) == \E r : r = [i \in 0 .. N |-> r[i]] /\ \A i \in 0 .. N : i <= n => r[i] = F(i, r)
           T == {n \in Nat : n <= N => Solved(n)}
<1>0. N \in Nat
  OBVIOUS
<1> HIDE DEF N
<1>1. 0 \in T
  <2>1. Solved(0)
    <3> DEFINE r == [i \in 0 .. N |-> Begun(pairs)]
    <3>1. r = [i \in 0 .. N |-> r[i]] /\ \A i \in 0 .. N : r[i] = Begun(pairs)
      OBVIOUS
    <3> HIDE DEF r
    <3>2. \A i \in 0 .. N : i <= 0 => i = 0
      BY <1>0
    <3> QED BY <3>1, <3>2
  <2> HIDE DEF Solved
  <2> QED BY <2>1
<1>2. ASSUME NEW n \in T PROVE n + 1 \in T
  <2> SUFFICES ASSUME n + 1 <= N PROVE Solved(n + 1)
    <3> HIDE DEF Solved
    <3> QED OBVIOUS
  <2>0. Solved(n)
    <3> HIDE DEF Solved
    <3> QED BY <1>0
  <2>1. PICK r : r = [i \in 0 .. N |-> r[i]] /\ \A i \in 0 .. N : i <= n => r[i] = F(i, r)
    BY <2>0
  <2> HIDE DEF F
  <2> DEFINE q == [i \in 0 .. N |-> IF i = n + 1 THEN F(i, r) ELSE r[i]]
  <2>2. n \in Nat /\ n + 1 \in 0 .. N
    BY <1>0
  <2>3. \A i \in 0 .. N : i # n + 1 => q[i] = r[i]
    OBVIOUS
  <2>4. q[n + 1] = F(n + 1, r)
    BY <2>2
  <2>5. q = [i \in 0 .. N |-> q[i]]
    OBVIOUS
  <2> HIDE DEF q
  <2>6. ASSUME NEW i \in 0 .. N, i <= n + 1 PROVE q[i] = F(i, r) /\ F(i, q) = F(i, r)
    <3>1. q[i] = F(i, r)
      <4>1. i = n + 1 \/ (i <= n /\ i # n + 1)
        BY <2>2, <2>6
      <4> QED BY <4>1, <2>1, <2>3, <2>4
    <3>2. i # 0 => i - 1 \in 0 .. N /\ i - 1 # n + 1
      BY <2>2, <2>6, <1>0
    <3>3. i # 0 => q[i - 1] = r[i - 1]
      BY <3>2, <2>3
    <3> QED BY <3>1, <3>3 DEF F
  <2>7. \A i \in 0 .. N : i <= n + 1 => q[i] = F(i, q)
    BY <2>6
  <2> QED BY <2>5, <2>7
<1>3. Solved(N)
  <2> HIDE DEF T, Solved
  <2>1. T \in SUBSET Nat
    BY DEF T
  <2>2. T = Nat
    BY <1>1, <1>2, <2>1, Induct
  <2> QED BY <2>2, <1>0 DEF T
<1>4. PICK r : r = [i \in 0 .. N |-> r[i]] /\ \A i \in 0 .. N : i <= N => r[i] = F(i, r)
  BY <1>3
<1> HIDE DEF F
<1>5. \A i \in 0 .. N : r[i] = F(i, r)
  <2>1. \A i \in 0 .. N : i <= N
    BY <1>0
  <2> QED BY <2>1, <1>4
<1>6. r = [i \in 0 .. N |-> F(i, r)]
  <2>1. [i \in 0 .. N |-> F(i, r)] = [i \in 0 .. N |-> r[i]]
    BY <1>5
  <2> QED BY <2>1, <1>4
<1>7. OneByOne(pairs, r)
  BY <1>6 DEF F, N, OneByOne
<1> QED BY <1>7

Under(pairs, name) == {pairs[j].variant : j \in {j \in DOMAIN pairs : pairs[j].name = name}}
Heads(pairs) == {pairs[j].name : j \in DOMAIN pairs}

(* What a name is given are the variants pushed under it.                   *)
LEMMA PushesGive ==
  ASSUME NEW P, NEW pairs \in Seq(P), NEW g, OneByOne(pairs, g)
  PROVE  LET answer == g[Len(pairs)]
         IN  /\ DOMAIN answer = Heads(pairs)
             /\ \A name \in DOMAIN answer :
                  ToSet(answer[name]) = Under(pairs, name)
<1> DEFINE N == Len(pairs)
           All == {pairs[j].name : j \in DOMAIN pairs}
           V == {pairs[j].variant : j \in DOMAIN pairs}
           Given(i, name) == {pairs[j].variant : j \in {j \in 1 .. i : pairs[j].name = name}}
           Good(i) == /\ g[i] \in [All -> Seq(V)]
                      /\ \A name \in All : ToSet(g[i][name]) = Given(i, name)
           T == {i \in Nat : i <= N => Good(i)}
<1>0. N \in Nat /\ DOMAIN pairs = 1 .. N
  OBVIOUS
<1>1. /\ \A i \in 0 .. N : g[i] = IF i = 0 THEN Begun(pairs) ELSE Pushed(g[i - 1], pairs[i])
  <2> DEFINE F(i) == IF i = 0 THEN Begun(pairs) ELSE Pushed(g[i - 1], pairs[i])
  <2>1. g = [i \in 0 .. N |-> F(i)]
    BY DEF OneByOne
  <2> HIDE DEF F, N
  <2>2. \A i \in 0 .. N : g[i] = F(i)
    BY <2>1
  <2> QED BY <2>2 DEF F
<1>2. Begun(pairs) = [name \in All |-> <<>>]
  BY DEF Begun
<1>3. \A j \in 1 .. N : pairs[j].name \in All /\ pairs[j].variant \in V
  BY <1>0
<1> HIDE DEF N, All, V
<1>4. Good(0)
  <2>1. g[0] = [name \in All |-> <<>>]
    BY <1>0, <1>1, <1>2
  <2>2. \A name \in All : Given(0, name) = {}
    OBVIOUS
  <2>3. ToSet(<<>>) = {}
    BY DEF ToSet
  <2>4. <<>> \in Seq(V)
    OBVIOUS
  <2>5. g[0] \in [All -> Seq(V)]
    BY <2>1, <2>4
  <2>6. \A name \in All : ToSet(g[0][name]) = {}
    BY <2>1, <2>3
  <2> HIDE DEF Given
  <2> QED BY <2>2, <2>5, <2>6
<1>5. ASSUME NEW i \in Nat, i + 1 <= N, Good(i) PROVE Good(i + 1)
  <2> DEFINE pair == pairs[i + 1]
             h == g[i]
  <2>1. i + 1 \in 1 .. N /\ i + 1 \in 0 .. N /\ i + 1 # 0 /\ (i + 1) - 1 = i
    BY <1>0, <1>5
  <2>2. g[i + 1] = Pushed(h, pair)
    BY <1>1, <2>1
  <2>3. pair.name \in All /\ pair.variant \in V
    BY <1>3, <2>1
  <2>4. \A name : Given(i + 1, name) = IF name = pair.name THEN Given(i, name) \cup {pair.variant} ELSE Given(i, name)
    <3>1. \A j : j \in 1 .. i + 1 <=> j \in 1 .. i \/ j = i + 1
      BY <2>1
    <3> QED BY <3>1
  <2>5. h \in [All -> Seq(V)] /\ \A name \in All : ToSet(h[name]) = Given(i, name)
    BY <1>5
  <2> HIDE DEF Given, pair, h
  <2>6. Pushed(h, pair) = [h EXCEPT ![pair.name] = Append(h[pair.name], pair.variant)]
    BY DEF Pushed
  <2>7. /\ Pushed(h, pair) \in [All -> Seq(V)]
        /\ Pushed(h, pair)[pair.name] = Append(h[pair.name], pair.variant)
        /\ \A name \in All : name # pair.name => Pushed(h, pair)[name] = h[name]
    <3>1. h[pair.name] \in Seq(V)
      BY <2>3, <2>5
    <3>2. Append(h[pair.name], pair.variant) \in Seq(V)
      BY <3>1, <2>3
    <3> QED BY <3>2, <2>3, <2>5, <2>6
  <2>8. ASSUME NEW s \in Seq(V), NEW v \in V PROVE ToSet(Append(s, v)) = ToSet(s) \cup {v}
    <3> DEFINE m == Len(s)
               w == Append(s, v)
    <3>1. m \in Nat /\ DOMAIN s = 1 .. m /\ DOMAIN w = 1 .. m + 1 /\ w[m + 1] = v /\ \A j \in 1 .. m : w[j] = s[j]
      OBVIOUS
    <3> HIDE DEF m, w
    <3>2. \A j : j \in 1 .. m + 1 <=> j \in 1 .. m \/ j = m + 1
      BY <3>1
    <3>3. ToSet(w) = ToSet(s) \cup {v}
      BY <3>1, <3>2 DEF ToSet
    <3> QED BY <3>3 DEF w
  <2>9. ASSUME NEW name \in All PROVE ToSet(g[i + 1][name]) = Given(i + 1, name)
    <3>1. CASE name = pair.name
      <4>1. h[name] \in Seq(V)
        BY <2>5
      <4>2. ToSet(Append(h[name], pair.variant)) = ToSet(h[name]) \cup {pair.variant}
        BY <4>1, <2>3, <2>8
      <4>3. g[i + 1][name] = Append(h[name], pair.variant)
        BY <3>1, <2>2, <2>7
      <4>4. Given(i + 1, name) = Given(i, name) \cup {pair.variant}
        BY <3>1, <2>4
      <4> QED BY <4>2, <4>3, <4>4, <2>5
    <3>2. CASE name # pair.name
      <4>1. g[i + 1][name] = h[name]
        BY <3>2, <2>2, <2>7
      <4>2. Given(i + 1, name) = Given(i, name)
        BY <3>2, <2>4
      <4> QED BY <4>1, <4>2, <2>5
    <3> QED BY <3>1, <3>2
  <2> QED BY <2>2, <2>7, <2>9
<1> HIDE DEF Good
<1>6. Good(N)
  <2>1. 0 \in T
    BY <1>4
  <2>2. ASSUME NEW i \in T PROVE i + 1 \in T
    <3>1. i \in Nat /\ i + 1 \in Nat /\ (i + 1 <= N => i <= N)
      BY <1>0
    <3> QED BY <3>1, <1>5
  <2>3. T \in SUBSET Nat
    OBVIOUS
  <2> HIDE DEF T
  <2>4. T = Nat
    BY <2>1, <2>2, <2>3, Induct
  <2> QED BY <2>4, <1>0 DEF T
<1>7. /\ DOMAIN g[N] = All
      /\ \A name \in All : ToSet(g[N][name]) = Given(N, name)
  BY <1>6 DEF Good
<1> QED BY <1>0, <1>7 DEF N, All, Heads, Under

Entered == [name : STRING, variant : [platform : {c.platform : c \in Command}, entry : {RenderCommand(c) : c \in Command}]]

(* A command is entered once for each of its names.                         *)
LEMMA RenderedNames ==
  ASSUME NEW command \in Command
  PROVE  /\ RenderNames(command) \in Seq(Entered)
         /\ DOMAIN RenderNames(command) = DOMAIN Names(command)
         /\ \A n \in DOMAIN Names(command) :
              /\ RenderNames(command)[n].name = Names(command)[n]
              /\ RenderNames(command)[n].variant = [platform |-> command.platform, entry |-> RenderCommand(command)]
<1> DEFINE names == Names(command)
           variant == [platform |-> command.platform, entry |-> RenderCommand(command)]
<1>1. names \in Seq(STRING)
  <2>1. command.name \in STRING /\ command.aliases \in Seq(STRING)
    BY DEF Command
  <2> QED BY <2>1, NamesAre
<1>2. variant \in [platform : {c.platform : c \in Command}, entry : {RenderCommand(c) : c \in Command}]
  <2>1. command.platform \in {c.platform : c \in Command}
    OBVIOUS
  <2>2. RenderCommand(command) \in {RenderCommand(c) : c \in Command}
    OBVIOUS
  <2> QED BY <2>1, <2>2
<1>3. RenderNames(command) = [n \in DOMAIN names |-> [name |-> names[n], variant |-> variant]]
  BY DEF RenderNames
<1> HIDE DEF names, variant
<1>4. RenderNames(command) = [n \in 1 .. Len(names) |-> [name |-> names[n], variant |-> variant]] /\ Len(names) \in Nat
  BY <1>1, <1>3
<1>5. \A n \in 1 .. Len(names) : [name |-> names[n], variant |-> variant] \in Entered
  BY <1>1, <1>2 DEF Entered
<1>6. RenderNames(command) \in Seq(Entered)
  BY <1>4, <1>5
<1> QED BY <1>3, <1>6 DEF names, variant

(* The table answers for the commands it is grouped of, when no two claim   *)
(* one name on one platform.                                                *)
LEMMA GroupedAnswers ==
  ASSUME NEW commands \in Seq(Command),
         \A k, l \in DOMAIN commands : k # l => Claims(commands[k]) \cap Claims(commands[l]) = {}
  PROVE  Answers(Grouped(commands), commands)
<1> DEFINE ss == [k \in DOMAIN commands |-> RenderNames(commands[k])]
           pairs == FlattenSeq(ss)
           g == CHOOSE g : g = [i \in 0 .. Len(pairs) |-> IF i = 0 THEN Begun(pairs) ELSE Pushed(g[i - 1], pairs[i])]
           answer == Grouped(commands)
           K == DOMAIN commands
           names(k) == Names(commands[k])
           variant(k) == [platform |-> commands[k].platform, entry |-> RenderCommand(commands[k])]
<1>1. \A k \in K : commands[k] \in Command
  OBVIOUS
<1>2. /\ ss \in Seq(Seq(Entered)) /\ DOMAIN ss = K /\ \A k \in K : ss[k] = RenderNames(commands[k])
  <2>1. \A k \in K : RenderNames(commands[k]) \in Seq(Entered)
    BY <1>1, RenderedNames
  <2> DEFINE n == Len(commands)
  <2>2. n \in Nat /\ K = 1 .. n
    OBVIOUS
  <2> HIDE DEF n, K
  <2>3. ss = [k \in 1 .. n |-> RenderNames(commands[k])]
    BY <2>2 DEF K
  <2> QED BY <2>1, <2>2, <2>3
<1>3. /\ pairs \in Seq(Entered)
      /\ \A j \in DOMAIN pairs : \E k \in DOMAIN ss : \E n \in DOMAIN ss[k] : pairs[j] = ss[k][n]
      /\ \A k \in DOMAIN ss : \A n \in DOMAIN ss[k] : \E j \in DOMAIN pairs : pairs[j] = ss[k][n]
  <2> HIDE DEF ss
  <2> QED BY <1>2, FlattenHolds
<1>4. answer = g[Len(pairs)]
  BY Zenon DEF Grouped, Begun, Pushed
<1>5. \A k \in K :
        /\ DOMAIN ss[k] = DOMAIN names(k)
        /\ \A n \in DOMAIN names(k) : ss[k][n].name = names(k)[n] /\ ss[k][n].variant = variant(k)
  <2> SUFFICES ASSUME NEW k \in K
               PROVE  /\ DOMAIN ss[k] = DOMAIN names(k)
                      /\ \A n \in DOMAIN names(k) : ss[k][n].name = names(k)[n] /\ ss[k][n].variant = variant(k)
    OBVIOUS
  <2>1. commands[k] \in Command /\ ss[k] = RenderNames(commands[k])
    BY <1>1, <1>2
  <2> HIDE DEF ss, K
  <2> QED BY <2>1, RenderedNames
<1> HIDE DEF answer, ss, pairs
<1>6. OneByOne(pairs, g)
  <2>1. Len(pairs) \in Nat
    BY <1>3
  <2>2. \E h : OneByOne(pairs, h)
    BY <2>1, PushesAre
  <2> QED BY <2>2 DEF OneByOne
<1> HIDE DEF g
<1>7. /\ DOMAIN answer = {pairs[j].name : j \in DOMAIN pairs}
      /\ \A name \in DOMAIN answer :
           ToSet(answer[name]) = {pairs[j].variant : j \in {j \in DOMAIN pairs : pairs[j].name = name}}
  <2>1. /\ DOMAIN g[Len(pairs)] = Heads(pairs)
        /\ \A name \in DOMAIN g[Len(pairs)] : ToSet(g[Len(pairs)][name]) = Under(pairs, name)
    BY <1>3, <1>6, PushesGive
  <2> QED BY <2>1, <1>4 DEF Heads, Under
<1> HIDE DEF K, names, variant
<1>8. ASSUME NEW j \in DOMAIN pairs
      PROVE  \E k \in K : \E n \in DOMAIN names(k) : pairs[j].name = names(k)[n] /\ pairs[j].variant = variant(k)
  <2>1. PICK k \in DOMAIN ss : \E n \in DOMAIN ss[k] : pairs[j] = ss[k][n]
    BY <1>3
  <2>2. PICK n \in DOMAIN ss[k] : pairs[j] = ss[k][n]
    BY <2>1
  <2>3. k \in K /\ n \in DOMAIN names(k)
    BY <1>2, <1>5
  <2>4. ss[k][n].name = names(k)[n] /\ ss[k][n].variant = variant(k)
    BY <1>5, <2>3
  <2> QED BY <2>2, <2>3, <2>4
<1>9. ASSUME NEW k \in K, NEW n \in DOMAIN names(k)
      PROVE  \E j \in DOMAIN pairs : pairs[j].name = names(k)[n] /\ pairs[j].variant = variant(k)
  <2>1. k \in DOMAIN ss /\ n \in DOMAIN ss[k] /\ ss[k][n].name = names(k)[n] /\ ss[k][n].variant = variant(k)
    BY <1>2, <1>5
  <2>2. PICK j \in DOMAIN pairs : pairs[j] = ss[k][n]
    BY <2>1, <1>3
  <2> QED BY <2>1, <2>2
<1>10. \A k \in K : /\ Claims(commands[k]) = ToSet(names(k)) \X {commands[k].platform}
                    /\ variant(k).platform = commands[k].platform
                    /\ variant(k).entry = RenderCommand(commands[k])
  BY DEF Claims, names, variant
<1>11. ASSUME NEW k \in K, NEW name \in ToSet(names(k))
       PROVE  name \in DOMAIN answer /\ variant(k) \in ToSet(answer[name])
  <2>1. PICK n \in DOMAIN names(k) : name = names(k)[n]
    BY DEF ToSet
  <2>2. PICK j \in DOMAIN pairs : pairs[j].name = name /\ pairs[j].variant = variant(k)
    BY <2>1, <1>9
  <2>3. name \in DOMAIN answer
    BY <2>2, <1>7
  <2>4. ToSet(answer[name]) = {pairs[i].variant : i \in {i \in DOMAIN pairs : pairs[i].name = name}}
    BY <2>3, <1>7
  <2> QED BY <2>2, <2>3, <2>4
<1>12. ASSUME NEW name \in DOMAIN answer, NEW v \in ToSet(answer[name])
       PROVE  \E k \in K : name \in ToSet(names(k)) /\ v = variant(k)
  <2>1. v \in {pairs[i].variant : i \in {i \in DOMAIN pairs : pairs[i].name = name}}
    BY <1>7
  <2>2. PICK j \in DOMAIN pairs : pairs[j].name = name /\ pairs[j].variant = v
    BY <2>1
  <2>3. PICK k \in K : \E n \in DOMAIN names(k) : pairs[j].name = names(k)[n] /\ pairs[j].variant = variant(k)
    BY <1>8
  <2> QED BY <2>2, <2>3 DEF ToSet
<1>13. ASSUME NEW k \in K, NEW name \in ToSet(names(k)), NEW v \in ToSet(answer[name]), v.platform = commands[k].platform
       PROVE  v = variant(k)
  <2>1. name \in DOMAIN answer
    BY <1>11
  <2>2. PICK l \in K : name \in ToSet(names(l)) /\ v = variant(l)
    BY <2>1, <1>12
  <2>3. commands[l].platform = commands[k].platform
    BY <2>2, <1>10, <1>13
  <2>4. <<name, commands[k].platform>> \in Claims(commands[k]) /\ <<name, commands[k].platform>> \in Claims(commands[l])
    BY <2>2, <2>3, <1>10
  <2>5. k = l
    BY <2>4 DEF K
  <2> QED BY <2>2, <2>5
<1>14. ASSUME NEW k \in K, NEW name \in ToSet(names(k))
       PROVE  {v.entry : v \in {v \in ToSet(answer[name]) : v.platform = commands[k].platform}}
                = {RenderCommand(commands[k])}
  <2>1. variant(k) \in {v \in ToSet(answer[name]) : v.platform = commands[k].platform}
    BY <1>10, <1>11
  <2>2. \A v \in {v \in ToSet(answer[name]) : v.platform = commands[k].platform} : v = variant(k)
    BY <1>13
  <2>3. {v \in ToSet(answer[name]) : v.platform = commands[k].platform} = {variant(k)}
    BY <2>1, <2>2
  <2> QED BY <2>3, <1>10
<1>15. ASSUME NEW name \in DOMAIN answer, NEW v \in ToSet(answer[name])
       PROVE  \E k \in K : <<name, v.platform>> \in Claims(commands[k])
  <2>1. PICK k \in K : name \in ToSet(names(k)) /\ v = variant(k)
    BY <1>12
  <2> QED BY <2>1, <1>10
<1> QED BY <1>14, <1>15 DEF Answers, answer, K, names

-----------------------------------------------------------------------------
(* The table answers.                                                       *)

(* A file below a directory is an entry of some directory, a .toml file or  *)
(* one that cannot be read.                                                 *)
LEMMA FilesAreEntries ==
  ASSUME NEW t \in Trees, t # NotADirectory, NEW d \in DOMAIN t, NEW f \in Below(t)[d]
  PROVE  f.entry.is \in {"toml", "unreadable"} /\ \E c \in DOMAIN t : f.entry \in t[c]
<1>1. PICK depth \in [DOMAIN t -> Nat], N \in Nat :
             /\ \A c \in DOMAIN t : depth[c] < N
             /\ \A c \in DOMAIN t : \A e \in t[c] : e.is = "dir" => e.to \in DOMAIN t /\ depth[e.to] < depth[c]
  BY Deepening
<1> DEFINE Entry(g) == g.entry.is \in {"toml", "unreadable"} /\ \E c \in DOMAIN t : g.entry \in t[c]
           T == {n \in Nat : \A c \in DOMAIN t : depth[c] < n => \A g \in Below(t)[c] : Entry(g)}
<1>2. 0 \in T
  BY <1>1
<1>3. ASSUME NEW n \in T PROVE n + 1 \in T
  <2> SUFFICES ASSUME NEW c \in DOMAIN t, depth[c] < n + 1, NEW g \in Below(t)[c] PROVE Entry(g)
    <3> HIDE DEF Entry
    <3> QED OBVIOUS
  <2>1. PICK e \in t[c] : g \in Reached(e, Below(t)[e.to])
    BY BelowEquation
  <2>2. CASE e.is = "dir"
    <3>1. PICK h \in Below(t)[e.to] : g = [path |-> <<Slash>> \o e.name \o h.path, entry |-> h.entry]
      BY <2>1, <2>2 DEF Reached
    <3>2. e.to \in DOMAIN t /\ depth[e.to] < n
      BY <1>1, <2>2
    <3>3. Entry(h)
      <4> HIDE DEF Entry
      <4> QED BY <3>1, <3>2
    <3>4. g.entry = h.entry
      BY <3>1
    <3> QED BY <3>3, <3>4
  <2>3. CASE e.is # "dir"
    <3>1. e.is # "other" /\ g = [path |-> <<Slash>> \o e.name, entry |-> e]
      BY <2>1, <2>3 DEF Reached
    <3>2. g.entry = e
      BY <3>1
    <3>3. e.is \in {"dir", "toml", "other", "unreadable"}
      BY TreesAssumption
    <3> QED BY <2>3, <3>1, <3>2, <3>3
  <2> QED BY <2>2, <2>3
<1>4. N \in T
  <2> HIDE DEF T
  <2>1. T \in SUBSET Nat
    BY DEF T
  <2> QED BY <1>1, <1>2, <1>3, <2>1, Induct
<1> HIDE DEF Entry
<1>5. Entry(f)
  BY <1>1, <1>4
<1> QED BY <1>5 DEF Entry

(* The files in the order of their paths are a list of them.                *)
LEMMA ListedByPath ==
  ASSUME NEW S, Filed(S)
  PROVE  ByPath(S) \in Seq(S)
<1> DEFINE N == Cardinality(S)
           At(n) == CHOOSE f \in S : Cardinality(Preceding(S, f)) = n - 1
<1>1. N \in Nat /\ \A n \in 1 .. N : \E x \in S : Cardinality(Preceding(S, x)) = n - 1
  BY Placed
<1>2. \A n \in 1 .. N : At(n) \in S
  BY <1>1
<1> HIDE DEF At, N
<1>3. ByPath(S) = [n \in 1 .. N |-> At(n)]
  BY DEF ByPath, At, N
<1> QED BY <1>1, <1>2, <1>3

(* At the end of the walk each source is a file that could be read.         *)
LEMMA SourcesHold ==
  ASSUME tree \in Trees, tree # NotADirectory, Walking(tree, << >>, files)
  PROVE  \A i \in DOMAIN Sources :
           Sources[i].content = Malformed \/ Sources[i].content \in [command : Seq(Command)]
<1> DEFINE found == Read(Files)
<1>1. Filed(found) /\ \A f \in Files : f.entry.is # "unreadable"
  BY AllFound
<1>2. Sources = ByPath(found)
  BY DEF Sources, ByPath, Preceding, Read
<1> HIDE DEF found
<1>3. Sources \in Seq(found)
  BY <1>1, <1>2, ListedByPath
<1>4. \A x \in found : \E f \in Files : x.content = f.entry.content
  BY DEF found, Read
<1>5. \A f \in Files : f.entry.content = Malformed \/ f.entry.content \in [command : Seq(Command)]
  <2> SUFFICES ASSUME NEW f \in Files
               PROVE  f.entry.content = Malformed \/ f.entry.content \in [command : Seq(Command)]
    OBVIOUS
  <2>1. "root" \in DOMAIN tree
    BY TreesAssumption
  <2>2. f.entry.is = "toml" /\ \E c \in DOMAIN tree : f.entry \in tree[c]
    BY <1>1, <2>1, FilesAreEntries DEF Files
  <2> QED BY <2>2, TreesAssumption
<1> QED BY <1>3, <1>4, <1>5

(* What the sources declare, one file after the other, are commands.        *)
LEMMA MergedAre ==
  ASSUME NEW S, NEW sources \in Seq(S),
         \A i \in DOMAIN sources : sources[i].content \in [command : Seq(Command)]
  PROVE  Merged(sources) \in Seq(Command)
<1> DEFINE n == Len(sources)
           ss == [i \in DOMAIN sources |-> sources[i].content.command]
<1>1. n \in Nat /\ DOMAIN sources = 1 .. n
  OBVIOUS
<1>2. \A i \in DOMAIN sources : sources[i].content.command \in Seq(Command)
  OBVIOUS
<1> HIDE DEF n
<1>3. ss \in Seq(Seq(Command))
  BY <1>1, <1>2
<1>4. Merged(sources) = FlattenSeq(ss)
  BY DEF Merged
<1> HIDE DEF ss
<1> QED BY <1>3, <1>4, FlattenPlaces

(* What the table says of the sources, once it is generated of them.        *)
LEMMA GeneratesAnswers ==
  ASSUME WalkInv, Generate
  PROVE  TableAnswersOnce'
<1>1. /\ tree \in Trees /\ tree # NotADirectory /\ Walking(tree, << >>, files) /\ tree' = tree
  BY DEF WalkInv, Generate
<1>2. Sorted(files) = Sources /\ (files = << >> <=> Sources = << >>)
  BY <1>1, AllFound
<1>3. Sources' = Sources
  BY <1>1 DEF Files, Sources
<1>4. \/ verdict' = "NoTomlFiles"
      \/ Parsed(Sources) = "ok" /\ verdict' = "built" /\ table' = Grouped(Merged(Sources))
      \/ Parsed(Sources) # "ok" /\ verdict' = Parsed(Sources)
  BY <1>2 DEF Generate
<1> SUFFICES ASSUME verdict' \notin {"MissingRoot", "Io", "NoTomlFiles", "Toml"}
             PROVE  LET commands == Merged(Sources)
                    IN  /\ verdict' = "built" => Sound(commands) /\ Answers(table', commands)
                        /\ Sound(commands) /\ AllSpelled(commands) => verdict' = "built"
  BY <1>3 DEF TableAnswersOnce
<1> DEFINE commands == Merged(Sources)
           failure == FirstError(CheckDataset(commands))
<1>5. ~ \E i \in DOMAIN Sources : Sources[i].content = Malformed
  BY <1>4 DEF Parsed
<1>6. Parsed(Sources) = failure
  BY <1>5 DEF Parsed
<1>7. commands \in Seq(Command)
  <2>1. \A i \in DOMAIN Sources : Sources[i].content \in [command : Seq(Command)]
    BY <1>1, <1>5, SourcesHold
  <2>2. Sources \in Seq(Read(Files))
    <3>1. Filed(Read(Files))
      BY <1>1, AllFound
    <3>2. Sources = ByPath(Read(Files))
      BY DEF Sources, ByPath, Preceding, Read
    <3> QED BY <3>1, <3>2, ListedByPath
  <2> QED BY <2>1, <2>2, MergedAre
<1> HIDE DEF commands
<1>8. /\ failure \in Answer
      /\ failure = "ok" => Sound(commands)
      /\ Sound(commands) /\ AllSpelled(commands) => failure = "ok"
  BY <1>7, DatasetSound
<1> HIDE DEF failure
<1>9. failure # "built"
  BY <1>8 DEF Answer, RiskDataError
<1>10. CASE failure = "ok"
  <2>1. verdict' = "built" /\ table' = Grouped(commands)
    BY <1>4, <1>6, <1>10 DEF commands
  <2>2. Sound(commands)
    BY <1>8, <1>10
  <2>3. \A k, l \in DOMAIN commands : k # l => Claims(commands[k]) \cap Claims(commands[l]) = {}
    BY <2>2 DEF Sound
  <2>4. Answers(table', commands)
    BY <2>1, <2>3, <1>7, GroupedAnswers
  <2> QED BY <2>1, <2>2, <2>4 DEF commands
<1>11. CASE failure # "ok"
  <2>1. verdict' = failure
    BY <1>4, <1>6, <1>11
  <2> QED BY <2>1, <1>8, <1>9, <1>11 DEF commands
<1> QED BY <1>10, <1>11

(* Of the other steps none says that a table was generated.                 *)
LEMMA AnswersNext ==
  ASSUME WalkInv, TableAnswersOnce, [NextTable]_table_vars
  PROVE  TableAnswersOnce'
<1>1. CASE RefuseRoot
  BY <1>1 DEF RefuseRoot, TableAnswersOnce
<1>2. CASE walk # << >> /\ \E entry \in Last(walk).left : Visit(entry)
  <2>1. verdict' \in {"walking", "Io"}
    BY <1>2 DEF Visit
  <2> QED BY <2>1 DEF TableAnswersOnce, Ended, RiskDataError
<1>3. CASE LeaveDirectory
  <2>1. verdict' = "walking"
    BY <1>3 DEF LeaveDirectory
  <2> QED BY <2>1 DEF TableAnswersOnce, Ended, RiskDataError
<1>4. CASE Generate
  BY <1>4, GeneratesAnswers
<1>5. CASE UNCHANGED table_vars
  BY <1>5 DEF table_vars, TableAnswersOnce, Ended, Files, Sources
<1> QED BY <1>1, <1>2, <1>3, <1>4, <1>5 DEF NextTable

(* The generator refuses data that leaves a lookup open, and no data but    *)
(* that and what is wrong with a flag nobody can spell; the table it writes *)
(* gives each name on each platform the one entry its command declares, for *)
(* every set of finite trees and whatever commands their files declare      *)
(* (types/dataset.rs:59, types/command.rs:140, codegen/table.rs:70).        *)
THEOREM TableAnswered == SpecTable => []TableAnswersOnce
<1>1. InitTable => TableAnswersOnce
  BY DEF InitTable, TableAnswersOnce, Ended, RiskDataError
<1>2. WalkInv /\ TableAnswersOnce /\ [NextTable]_table_vars => TableAnswersOnce'
  BY AnswersNext
<1> QED BY WalkInit, WalkNext, <1>1, <1>2, PTL DEF SpecTable

-----------------------------------------------------------------------------
(* The test generator: what a file is read as.                              *)

Listed(s) == s \in Seq(ToSet(s))

ParseErrors ==
  {"EmptyFile", "MalformedSuiteHeader", "MissingSuiteHeader", "EmptySuiteNumber", "InvalidSuiteNumber",
   "EmptySuiteName", "MalformedCaseHeader", "EmptyCaseDescription", "OrphanTestCase", "MissingInputSeparator",
   "MissingExpectedSeparator", "TruncatedGroupHeader", "MalformedGroupHeader", "EmptyGroupName", "NoGroups",
   "EmptyGroup", "TruncatedComment", "MalformedComment", "UnexpectedContent"}

(* A group has a name and a list of cases, each of one kind or the other.   *)
IsGroup(group) ==
  /\ group = [name |-> group.name, cases |-> group.cases]
  /\ Listed(group.cases)
  /\ \A c \in DOMAIN group.cases : group.cases[c].parses \in BOOLEAN

AreGroups(groups) == Listed(groups) /\ \A g \in DOMAIN groups : IsGroup(groups[g])

(* A sequence over any set is one over its elements.                        *)
LEMMA SequencesAreListed ==
  ASSUME NEW S, NEW s \in Seq(S)
  PROVE  Listed(s) /\ DOMAIN s = 1 .. Len(s) /\ Len(s) \in Nat /\ ToSet(s) \in SUBSET S
<1>1. DOMAIN s = 1 .. Len(s) /\ Len(s) \in Nat /\ \A i \in 1 .. Len(s) : s[i] \in S
  OBVIOUS
<1>2. ToSet(s) \in SUBSET S /\ \A i \in 1 .. Len(s) : s[i] \in ToSet(s)
  BY <1>1 DEF ToSet
<1>3. s \in Seq(ToSet(s))
  <2>1. s = [i \in 1 .. Len(s) |-> s[i]]
    OBVIOUS
  <2> HIDE <1>2
  <2>2. [i \in 1 .. Len(s) |-> s[i]] \in [1 .. Len(s) -> ToSet(s)]
    BY <1>2
  <2>3. s \in [1 .. Len(s) -> ToSet(s)]
    BY <2>1, <2>2
  <2> QED BY <2>3, <1>1
<1> QED BY <1>1, <1>2, <1>3 DEF Listed

(* One more element.                                                        *)
LEMMA Listing ==
  ASSUME NEW s, Listed(s), NEW x
  PROVE  /\ DOMAIN s = 1 .. Len(s) /\ Len(s) \in Nat
         /\ Listed(Append(s, x)) /\ Len(Append(s, x)) = Len(s) + 1
         /\ DOMAIN Append(s, x) = 1 .. Len(s) + 1
         /\ \A i \in DOMAIN s : Append(s, x)[i] = s[i]
         /\ Append(s, x)[Len(s) + 1] = x
<1> DEFINE S == ToSet(s) \cup {x}
<1>1. s \in Seq(S)
  <2>1. s \in Seq(ToSet(s)) /\ ToSet(s) \in SUBSET S
    BY DEF Listed
  <2> HIDE DEF S
  <2> QED BY <2>1
<1>2. x \in S
  OBVIOUS
<1> HIDE DEF S
<1>3. /\ Append(s, x) \in Seq(S) /\ Len(Append(s, x)) = Len(s) + 1
      /\ \A i \in 1 .. Len(s) : Append(s, x)[i] = s[i]
      /\ Append(s, x)[Len(s) + 1] = x
  BY <1>1, <1>2
<1>4. DOMAIN s = 1 .. Len(s) /\ Len(s) \in Nat
  BY <1>1, SequencesAreListed
<1>5. Listed(Append(s, x)) /\ DOMAIN Append(s, x) = 1 .. Len(Append(s, x))
  BY <1>3, SequencesAreListed
<1> QED BY <1>3, <1>4, <1>5

(* An error is no result, and says which error it is.                       *)
LEMMA RefusedIs ==
  ASSUME NEW kind
  PROVE  ~Accepted(Refused(kind)) /\ Refused(kind).error = kind
  BY DEF Accepted, Refused

(* A case is read, or one of the errors of parse_case is returned.          *)
LEMMA CaseRead ==
  ASSUME NEW lines, NEW grouped
  PROVE  LET read == ParseCase(lines, grouped)
         IN  IF Accepted(read) THEN read.test.parses \in BOOLEAN ELSE read.error \in ParseErrors
  BY RefusedIs DEF ParseCase, ParseErrors, Accepted

(* A group begins without cases, or its header is an error.                 *)
LEMMA GroupRead ==
  ASSUME NEW line, NEW truncated
  PROVE  LET group == ParseGroupHeader(line, truncated)
         IN  IF Accepted(group) THEN IsGroup(group) ELSE group.error \in ParseErrors
<1>1. Listed(<< >>) /\ DOMAIN << >> = {}
  <2>1. << >> \in Seq({}) /\ DOMAIN << >> = {}
    OBVIOUS
  <2> QED BY <2>1, SequencesAreListed
<1> DEFINE group == ParseGroupHeader(line, truncated)
<1>2. \/ group \in {Refused("TruncatedGroupHeader"), Refused("MalformedGroupHeader"), Refused("EmptyGroupName")}
      \/ group = [name |-> Trimmed(line.name), cases |-> << >>]
  BY DEF ParseGroupHeader
<1> HIDE DEF group
<1>3. IF Accepted(group) THEN IsGroup(group) ELSE group.error \in ParseErrors
  <2>1. CASE group \in {Refused("TruncatedGroupHeader"), Refused("MalformedGroupHeader"), Refused("EmptyGroupName")}
    BY <2>1, RefusedIs DEF ParseErrors
  <2>2. CASE group = [name |-> Trimmed(line.name), cases |-> << >>]
    BY <2>2, <1>1 DEF IsGroup, Accepted
  <2> QED BY <1>2, <2>1, <2>2
<1> QED BY <1>3 DEF group

(* Where the loop of parse_groups may stand.                                *)
Underway(done) ==
  IF Accepted(done)
  THEN done = [remaining |-> done.remaining, groups |-> done.groups] /\ AreGroups(done.groups)
  ELSE done.error \in ParseErrors

WithCase(groups, last, test) == [groups EXCEPT ![last].cases = Append(@, test)]

(* A case is pushed onto the last group.                                    *)
LEMMA CasePushed ==
  ASSUME NEW groups, AreGroups(groups), NEW test, test.parses \in BOOLEAN, NEW last
  PROVE  AreGroups(WithCase(groups, last, test))
<1> DEFINE new == [groups EXCEPT ![last].cases = Append(@, test)]
           group == [name |-> groups[last].name, cases |-> Append(groups[last].cases, test)]
<1>1. DOMAIN groups = 1 .. Len(groups) /\ Len(groups) \in Nat
      /\ groups = [g \in 1 .. Len(groups) |-> groups[g]]
  BY SequencesAreListed DEF AreGroups, Listed
<1>2. new = [g \in 1 .. Len(groups) |-> new[g]]
  BY <1>1
<1>3. \A g \in 1 .. Len(groups) : g # last => new[g] = groups[g]
  BY <1>1
<1>4. ASSUME last \in 1 .. Len(groups) PROVE new[last] = group /\ IsGroup(group)
  <2>1. IsGroup(groups[last])
    BY <1>1, <1>4 DEF AreGroups
  <2>2. groups[last] = [name |-> groups[last].name, cases |-> groups[last].cases]
        /\ Listed(groups[last].cases)
        /\ \A c \in DOMAIN groups[last].cases : groups[last].cases[c].parses \in BOOLEAN
    BY <2>1 DEF IsGroup
  <2>3. new[last] = [groups[last] EXCEPT !.cases = Append(@, test)]
    BY <1>1, <1>4
  <2>4. new[last] = group
    BY <2>2, <2>3
  <2>5. \A c \in DOMAIN Append(groups[last].cases, test) : Append(groups[last].cases, test)[c].parses \in BOOLEAN
    BY <2>2, Listing
  <2>6. Listed(Append(groups[last].cases, test))
    BY <2>2, Listing
  <2> QED BY <2>4, <2>5, <2>6 DEF IsGroup
<1> HIDE DEF new, group
<1>5. \A g \in 1 .. Len(groups) : IsGroup(new[g])
  <2>1. \A g \in 1 .. Len(groups) : IsGroup(groups[g])
    BY <1>1 DEF AreGroups
  <2> QED BY <2>1, <1>3, <1>4
<1>6. Listed(new)
  <2> DEFINE S == {new[g] : g \in 1 .. Len(groups)}
  <2>1. \A g \in 1 .. Len(groups) : new[g] \in S
    OBVIOUS
  <2> HIDE DEF S
  <2>2. [g \in 1 .. Len(groups) |-> new[g]] \in [1 .. Len(groups) -> S]
    BY <2>1
  <2>3. new \in Seq(S)
    BY <2>2, <1>1, <1>2
  <2> QED BY <2>3, SequencesAreListed
<1>7. DOMAIN new = 1 .. Len(groups)
  BY <1>2
<1>8. AreGroups(new)
  BY <1>5, <1>6, <1>7 DEF AreGroups
<1> QED BY <1>8 DEF new, WithCase

(* A state of the loop with one of its two parts replaced.                  *)
LEMMA Amended ==
  ASSUME NEW done, done = [remaining |-> done.remaining, groups |-> done.groups], NEW part
  PROVE  /\ [done EXCEPT !.remaining = part] = [remaining |-> part, groups |-> done.groups]
         /\ [done EXCEPT !.groups = part] = [remaining |-> done.remaining, groups |-> part]
<1>1. DOMAIN done = {"remaining", "groups"}
  OBVIOUS
<1> DEFINE left == [done EXCEPT !.remaining = part]
           right == [done EXCEPT !.groups = part]
<1>2. left = [f \in {"remaining", "groups"} |-> left[f]] /\ left["remaining"] = part /\ left["groups"] = done["groups"]
  BY <1>1
<1>3. /\ right = [f \in {"remaining", "groups"} |-> right[f]]
      /\ right["remaining"] = done["remaining"] /\ right["groups"] = part
  BY <1>1
<1> HIDE DEF left, right
<1>4. left = [remaining |-> part, groups |-> done.groups]
  BY <1>2
<1>5. right = [remaining |-> done.remaining, groups |-> part]
  BY <1>3
<1> QED BY <1>4, <1>5 DEF left, right

(* One round of the loop.                                                   *)
LEMMA ReadOnKeeps ==
  ASSUME NEW done, Underway(done)
  PROVE  Underway(ReadOn(done))
<1> SUFFICES ASSUME Accepted(done) PROVE Underway(ReadNext(done))
  BY DEF ReadOn
<1> DEFINE lines == done.remaining
           line == Head(lines)
           last == Len(lines) = 1
           passed == [done EXCEPT !.remaining = Tail(lines)]
           group == ParseGroupHeader(line, last)
           read == ParseCase(lines, done.groups # << >>)
           opened == [passed EXCEPT !.groups = Append(@, group)]
           pushed == [remaining |-> read.rest,
                      groups    |-> WithCase(done.groups, Len(done.groups), read.test)]
<1>1. done = [remaining |-> lines, groups |-> done.groups] /\ AreGroups(done.groups)
  BY DEF Underway
<1>2. \/ ReadNext(done) \in {passed, Refused("TruncatedComment"), Refused("MalformedComment"),
                             Refused("UnexpectedContent")}
      \/ ReadNext(done) = (IF Accepted(group) THEN opened ELSE group)
      \/ ReadNext(done) = (IF Accepted(read) THEN pushed ELSE read)
  BY DEF ReadNext, WithCase
<1>3. Underway(passed)
  <2>1. passed = [remaining |-> Tail(lines), groups |-> done.groups]
    BY <1>1, Amended
  <2> HIDE DEF passed
  <2> QED BY <2>1, <1>1 DEF Underway, Accepted
<1>4. Underway(IF Accepted(group) THEN opened ELSE group)
  <2>1. IF Accepted(group) THEN IsGroup(group) ELSE group.error \in ParseErrors
    BY GroupRead
  <2>2. opened = [remaining |-> Tail(lines), groups |-> Append(done.groups, group)]
    <3>1. passed = [remaining |-> Tail(lines), groups |-> done.groups]
      BY <1>1, Amended
    <3> HIDE DEF group, passed
    <3>2. passed = [remaining |-> passed.remaining, groups |-> passed.groups]
          /\ passed.remaining = Tail(lines) /\ passed.groups = done.groups
      BY <3>1
    <3>3. [passed EXCEPT !.groups = Append(done.groups, group)]
            = [remaining |-> passed.remaining, groups |-> Append(done.groups, group)]
      BY <3>2, Amended
    <3> QED BY <3>2, <3>3
  <2> HIDE DEF group, opened
  <2>3. CASE ~Accepted(group)
    BY <2>1, <2>3 DEF Underway
  <2>4. CASE Accepted(group)
    <3>1. Listed(done.groups) /\ \A g \in DOMAIN done.groups : IsGroup(done.groups[g])
      BY <1>1 DEF AreGroups
    <3>2. AreGroups(Append(done.groups, group))
      BY <3>1, <2>1, <2>4, Listing DEF AreGroups
    <3> QED BY <3>2, <2>2, <2>4 DEF Underway, Accepted
  <2> QED BY <2>3, <2>4
<1>5. Underway(IF Accepted(read) THEN pushed ELSE read)
  <2>1. IF Accepted(read) THEN read.test.parses \in BOOLEAN ELSE read.error \in ParseErrors
    BY CaseRead
  <2> HIDE DEF read
  <2>2. CASE ~Accepted(read)
    BY <2>1, <2>2 DEF Underway
  <2>3. CASE Accepted(read)
    <3>1. AreGroups(WithCase(done.groups, Len(done.groups), read.test))
      BY <2>1, <2>3, <1>1, CasePushed
    <3> QED BY <3>1, <2>3 DEF Underway, Accepted
  <2> QED BY <2>2, <2>3
<1>6. \A kind \in ParseErrors : Underway(Refused(kind))
  BY RefusedIs DEF Underway
<1> HIDE DEF passed, group, opened, read, pushed
<1> QED BY <1>2, <1>3, <1>4, <1>5, <1>6 DEF ParseErrors

(* The states the loop goes through. *)
InRounds(lines, rounds) ==
  rounds = [n \in 0 .. Len(lines) |->
              IF n = 0 THEN [remaining |-> lines, groups |-> << >>] ELSE ReadOn(rounds[n - 1])]

(* Each round goes on from what the one before it left.                     *)
LEMMA RoundsAre ==
  ASSUME NEW lines, Len(lines) \in Nat
  PROVE  \E rounds : InRounds(lines, rounds)
<1> DEFINE N == Len(lines)
           F(i, r) == IF i = 0 THEN [remaining |-> lines, groups |-> << >>] ELSE ReadOn(r[i - 1])
           Solved(n) == \E r : r = [i \in 0 .. N |-> r[i]] /\ \A i \in 0 .. N : i <= n => r[i] = F(i, r)
           T == {n \in Nat : n <= N => Solved(n)}
<1>0. N \in Nat
  OBVIOUS
<1> HIDE DEF N
<1>1. 0 \in T
  <2>1. Solved(0)
    <3> DEFINE r == [i \in 0 .. N |-> [remaining |-> lines, groups |-> << >>]]
    <3>1. r = [i \in 0 .. N |-> r[i]] /\ \A i \in 0 .. N : r[i] = [remaining |-> lines, groups |-> << >>]
      OBVIOUS
    <3> HIDE DEF r
    <3>2. \A i \in 0 .. N : i <= 0 => i = 0
      BY <1>0
    <3> QED BY <3>1, <3>2
  <2> HIDE DEF Solved
  <2> QED BY <2>1
<1>2. ASSUME NEW n \in T PROVE n + 1 \in T
  <2> SUFFICES ASSUME n + 1 <= N PROVE Solved(n + 1)
    <3> HIDE DEF Solved
    <3> QED OBVIOUS
  <2>0. Solved(n)
    <3> HIDE DEF Solved
    <3> QED BY <1>0
  <2>1. PICK r : r = [i \in 0 .. N |-> r[i]] /\ \A i \in 0 .. N : i <= n => r[i] = F(i, r)
    BY <2>0
  <2> HIDE DEF F
  <2> DEFINE q == [i \in 0 .. N |-> IF i = n + 1 THEN F(i, r) ELSE r[i]]
  <2>2. n \in Nat /\ n + 1 \in 0 .. N
    BY <1>0
  <2>3. \A i \in 0 .. N : i # n + 1 => q[i] = r[i]
    OBVIOUS
  <2>4. q[n + 1] = F(n + 1, r)
    BY <2>2
  <2>5. q = [i \in 0 .. N |-> q[i]]
    OBVIOUS
  <2> HIDE DEF q
  <2>6. ASSUME NEW i \in 0 .. N, i <= n + 1 PROVE q[i] = F(i, r) /\ F(i, q) = F(i, r)
    <3>1. q[i] = F(i, r)
      <4>1. i = n + 1 \/ (i <= n /\ i # n + 1)
        BY <2>2, <2>6
      <4> QED BY <4>1, <2>1, <2>3, <2>4
    <3>2. i # 0 => i - 1 \in 0 .. N /\ i - 1 # n + 1
      BY <2>2, <2>6, <1>0
    <3>3. i # 0 => q[i - 1] = r[i - 1]
      BY <3>2, <2>3
    <3> QED BY <3>1, <3>3 DEF F
  <2>7. \A i \in 0 .. N : i <= n + 1 => q[i] = F(i, q)
    BY <2>6
  <2> QED BY <2>5, <2>7
<1>3. Solved(N)
  <2> HIDE DEF T, Solved
  <2>1. T \in SUBSET Nat
    BY DEF T
  <2>2. T = Nat
    BY <1>1, <1>2, <2>1, Induct
  <2> QED BY <2>2, <1>0 DEF T
<1>4. PICK r : r = [i \in 0 .. N |-> r[i]] /\ \A i \in 0 .. N : i <= N => r[i] = F(i, r)
  BY <1>3
<1> HIDE DEF F
<1>5. \A i \in 0 .. N : r[i] = F(i, r)
  <2>1. \A i \in 0 .. N : i <= N
    BY <1>0
  <2> QED BY <2>1, <1>4
<1>6. r = [i \in 0 .. N |-> F(i, r)]
  <2>1. [i \in 0 .. N |-> F(i, r)] = [i \in 0 .. N |-> r[i]]
    BY <1>5
  <2> QED BY <2>1, <1>4
<1>7. InRounds(lines, r)
  BY <1>6 DEF F, N, InRounds
<1> QED BY <1>7

(* The groups of a file, or the error that was met.                         *)
LEMMA GroupsRead ==
  ASSUME NEW S, NEW lines \in Seq(S)
  PROVE  LET body == ParseGroups(lines)
         IN  IF Accepted(body) THEN AreGroups(body.groups) ELSE body.error \in ParseErrors
<1> DEFINE rounds == CHOOSE r : InRounds(lines, r)
           N == Len(lines)
           end == rounds[N]
           start == [remaining |-> lines, groups |-> << >>]
           body == IF Accepted(end) THEN Validated(end.groups) ELSE end
<1>1. N \in Nat
  OBVIOUS
<1>2. InRounds(lines, rounds)
  BY <1>1, RoundsAre
<1>3. ParseGroups(lines) = body
  BY DEF ParseGroups, InRounds
<1> HIDE DEF rounds, N
<1>4. /\ rounds[0] = start
      /\ \A n \in 0 .. N : n # 0 => rounds[n] = ReadOn(rounds[n - 1])
  BY <1>1, <1>2 DEF InRounds, N
<1>5. Underway(start)
  <2>1. << >> \in Seq({}) /\ DOMAIN << >> = {}
    OBVIOUS
  <2>2. AreGroups(<< >>)
    BY <2>1, SequencesAreListed DEF AreGroups
  <2> QED BY <2>2 DEF Underway, Accepted
<1> HIDE DEF start
<1>6. Underway(rounds[N])
  <2> DEFINE T == {n \in Nat : n <= N => Underway(rounds[n])}
  <2>1. 0 \in T
    BY <1>4, <1>5
  <2>2. ASSUME NEW n \in T PROVE n + 1 \in T
    <3> SUFFICES ASSUME n + 1 <= N PROVE Underway(rounds[n + 1])
      OBVIOUS
    <3>1. n \in Nat /\ n <= N /\ n + 1 \in 0 .. N /\ n + 1 # 0 /\ (n + 1) - 1 = n
      BY <1>1
    <3>2. Underway(rounds[n])
      BY <3>1
    <3>3. rounds[n + 1] = ReadOn(rounds[n])
      BY <3>1, <1>4
    <3> QED BY <3>2, <3>3, ReadOnKeeps
  <2>3. T \in SUBSET Nat
    OBVIOUS
  <2> HIDE DEF T
  <2>4. T = Nat
    BY <2>1, <2>2, <2>3, Induct
  <2> QED BY <2>4, <1>1 DEF T
<1> HIDE DEF end
<1>7. IF Accepted(body) THEN AreGroups(body.groups) ELSE body.error \in ParseErrors
  <2>1. IF Accepted(end) THEN AreGroups(end.groups) ELSE end.error \in ParseErrors
    BY <1>6 DEF Underway, end
  <2>2. CASE ~Accepted(end)
    BY <2>1, <2>2
  <2>3. CASE Accepted(end)
    <3>1. body \in {Refused("NoGroups"), Refused("EmptyGroup"), [groups |-> end.groups]}
      BY <2>3 DEF Validated
    <3> HIDE DEF body
    <3>2. CASE body \in {Refused("NoGroups"), Refused("EmptyGroup")}
      BY <3>2, RefusedIs DEF ParseErrors
    <3>3. CASE body = [groups |-> end.groups]
      BY <3>3, <2>1, <2>3 DEF Accepted
    <3> QED BY <3>1, <3>2, <3>3
  <2> QED BY <2>2, <2>3
<1> QED BY <1>3, <1>7

(* A suite, or an error.                                                    *)
LEMMA SuiteRead ==
  ASSUME NEW S, NEW lines \in Seq(S), lines # << >>
  PROVE  LET suite == Parse(lines)
         IN  IF Accepted(suite) THEN AreGroups(suite.groups) ELSE suite.error \in ParseErrors
<1> DEFINE header == ParseHeader(lines)
           body == ParseGroups(Tail(lines))
           suite == [number |-> header.number, name |-> header.name, groups |-> body.groups]
<1>1. ~Accepted(header) => header.error \in ParseErrors
  <2> DEFINE errors == {"EmptyFile", "MalformedSuiteHeader", "MissingSuiteHeader", "EmptySuiteNumber",
                        "InvalidSuiteNumber", "EmptySuiteName"}
             read == [number |-> NumberOf[Head(lines).number], name |-> Trimmed(Head(lines).name)]
  <2>1. header = read \/ \E kind \in errors : header = Refused(kind)
    BY DEF ParseHeader
  <2>2. Accepted(read)
    BY DEF Accepted
  <2> HIDE DEF header, read
  <2>3. errors \in SUBSET ParseErrors
    BY DEF ParseErrors
  <2> QED BY <2>1, <2>2, <2>3, RefusedIs
<1>2. IF Accepted(body) THEN AreGroups(body.groups) ELSE body.error \in ParseErrors
  <2>1. Tail(lines) \in Seq(S)
    OBVIOUS
  <2> QED BY <2>1, GroupsRead
<1>3. \/ ~Accepted(header) /\ Parse(lines) = header
      \/ ~Accepted(body) /\ Parse(lines) = body
      \/ Accepted(header) /\ Accepted(body) /\ Parse(lines) = suite
  BY DEF Parse
<1>4. Accepted(suite) /\ suite.groups = body.groups
  BY DEF Accepted
<1> HIDE DEF header, body, suite
<1> QED BY <1>1, <1>2, <1>3, <1>4

-----------------------------------------------------------------------------
(* The test generator: what is made of a group.                             *)

OfKind(cases, parses) == {t \in ToSet(cases) : t.parses = parses}

(* Each case is in one half of the partition, and neither half has others.  *)
LEMMA PartitionIs ==
  ASSUME NEW cases, Listed(cases), NEW parses
  PROVE  LET part == Partition(cases, parses)
         IN  /\ part \in Seq(ToSet(cases)) /\ DOMAIN part = 1 .. Len(part) /\ Len(part) \in Nat
             /\ ToSet(part) = OfKind(cases, parses)
             /\ part = << >> <=> OfKind(cases, parses) = {}
<1> DEFINE S == ToSet(cases)
           ss == [c \in DOMAIN cases |-> IF cases[c].parses = parses THEN <<cases[c]>> ELSE << >>]
           part == Partition(cases, parses)
<1>1. cases \in Seq(S) /\ DOMAIN cases = 1 .. Len(cases) /\ Len(cases) \in Nat
      /\ \A c \in DOMAIN cases : cases[c] \in S
  BY SequencesAreListed DEF Listed, ToSet
<1>2. S = {cases[c] : c \in DOMAIN cases}
  BY DEF ToSet
<1> HIDE DEF S
<1>3. /\ ss \in Seq(Seq(S)) /\ DOMAIN ss = DOMAIN cases
      /\ \A c \in DOMAIN cases :
           /\ cases[c].parses = parses => DOMAIN ss[c] = {1} /\ ss[c][1] = cases[c]
           /\ cases[c].parses # parses => DOMAIN ss[c] = {}
  <2>1. \A c \in DOMAIN cases : (IF cases[c].parses = parses THEN <<cases[c]>> ELSE << >>) \in Seq(S)
    BY <1>1
  <2>2. ss \in [1 .. Len(cases) -> Seq(S)]
    BY <2>1, <1>1
  <2>3. ss \in Seq(Seq(S))
    BY <2>2, <1>1
  <2>4. DOMAIN ss = DOMAIN cases
    OBVIOUS
  <2>5. ASSUME NEW c \in DOMAIN cases, cases[c].parses = parses PROVE DOMAIN ss[c] = {1} /\ ss[c][1] = cases[c]
    <3>1. ss[c] = <<cases[c]>>
      BY <2>5
    <3> HIDE DEF ss
    <3> QED BY <3>1
  <2>6. ASSUME NEW c \in DOMAIN cases, cases[c].parses # parses PROVE DOMAIN ss[c] = {}
    <3>1. ss[c] = << >>
      BY <2>6
    <3> HIDE DEF ss
    <3> QED BY <3>1
  <2> HIDE DEF ss
  <2> QED BY <2>3, <2>4, <2>5, <2>6
<1>4. part = FlattenSeq(ss)
  BY DEF Partition
<1> HIDE DEF ss, part
<1>5. /\ part \in Seq(S)
      /\ \A i \in DOMAIN part : \E f \in DOMAIN ss : \E s \in DOMAIN ss[f] : part[i] = ss[f][s]
      /\ \A f \in DOMAIN ss : \A s \in DOMAIN ss[f] : \E i \in DOMAIN part : part[i] = ss[f][s]
  BY <1>3, <1>4, FlattenHolds
<1>6. DOMAIN part = 1 .. Len(part) /\ Len(part) \in Nat
  BY <1>5
<1>7. \A i \in DOMAIN part : part[i] \in OfKind(cases, parses)
  <2> TAKE i \in DOMAIN part
  <2>1. PICK f \in DOMAIN ss : \E s \in DOMAIN ss[f] : part[i] = ss[f][s]
    BY <1>5
  <2>2. cases[f].parses = parses /\ part[i] = cases[f] /\ cases[f] \in S
    BY <2>1, <1>1, <1>3
  <2> QED BY <2>2 DEF OfKind, S
<1>8. \A t \in OfKind(cases, parses) : \E i \in DOMAIN part : part[i] = t
  <2> TAKE t \in OfKind(cases, parses)
  <2>1. t \in S /\ t.parses = parses
    BY DEF OfKind, S
  <2>2. PICK c \in DOMAIN cases : t = cases[c]
    BY <2>1, <1>2
  <2>3. 1 \in DOMAIN ss[c] /\ ss[c][1] = t /\ c \in DOMAIN ss
    BY <2>1, <2>2, <1>3
  <2> QED BY <2>3, <1>5
<1>9. ToSet(part) = OfKind(cases, parses)
  BY <1>7, <1>8 DEF ToSet
<1>10. part = << >> <=> OfKind(cases, parses) = {}
  <2>1. part = << >> <=> DOMAIN part = {}
    BY <1>5
  <2> QED BY <2>1, <1>7, <1>8
<1> QED BY <1>5, <1>6, <1>9, <1>10 DEF part, S

(* What the functions of one name are given.                                *)
GivenIn(made, name) ==
  UNION {{Tail(c) : c \in ToSet(f.cases)} : f \in {f \in ToSet(made.functions) : f.fn = name}}

RunsAll(made, cases) ==
  /\ made.name # << >>
  /\ GivenIn(made, "parses") = {<<c.input, c.expected>> : c \in {c \in cases : c.parses}}
  /\ GivenIn(made, "roundtrips") = {<<c.input>> : c \in {c \in cases : c.parses}}
  /\ GivenIn(made, "fails_to_parse") = {<<c.input, c.expected>> : c \in {c \in cases : ~c.parses}}
  /\ GivenIn(made, "bash_verifies") = {<<c.input, ~c.parses>> : c \in cases}

(* Two sequences, one after the other, have the elements of both.           *)
LEMMA ElementsOfBoth ==
  ASSUME NEW S, NEW s \in Seq(S), NEW t \in Seq(S)
  PROVE  s \o t \in Seq(S) /\ ToSet(s \o t) = ToSet(s) \cup ToSet(t)
<1>1. /\ DOMAIN s = 1 .. Len(s) /\ Len(s) \in Nat /\ DOMAIN t = 1 .. Len(t) /\ Len(t) \in Nat
      /\ s \o t \in Seq(S) /\ DOMAIN (s \o t) = 1 .. Len(s) + Len(t)
      /\ \A i \in 1 .. Len(s) : (s \o t)[i] = s[i]
      /\ \A i \in 1 .. Len(t) : (s \o t)[Len(s) + i] = t[i]
  OBVIOUS
<1> DEFINE u == s \o t
<1> HIDE DEF u
<1>2. \A i \in DOMAIN u : i \in 1 .. Len(s) \/ (i - Len(s) \in 1 .. Len(t) /\ i = Len(s) + (i - Len(s)))
  BY <1>1 DEF u
<1>3. \A i \in DOMAIN u : u[i] \in ToSet(s) \cup ToSet(t)
  <2> TAKE i \in DOMAIN u
  <2>1. CASE i \in 1 .. Len(s)
    BY <2>1, <1>1 DEF u, ToSet
  <2>2. CASE i - Len(s) \in 1 .. Len(t) /\ i = Len(s) + (i - Len(s))
    <3>1. u[i] = t[i - Len(s)]
      BY <2>2, <1>1 DEF u
    <3> QED BY <3>1, <2>2, <1>1 DEF ToSet
  <2> QED BY <1>2, <2>1, <2>2
<1>4. \A i \in DOMAIN s : s[i] \in ToSet(u)
  <2> TAKE i \in DOMAIN s
  <2>1. i \in DOMAIN u /\ u[i] = s[i]
    BY <1>1 DEF u
  <2> QED BY <2>1 DEF ToSet
<1>5. \A i \in DOMAIN t : t[i] \in ToSet(u)
  <2> TAKE i \in DOMAIN t
  <2>1. Len(s) + i \in DOMAIN u /\ u[Len(s) + i] = t[i]
    BY <1>1 DEF u
  <2> QED BY <2>1 DEF ToSet
<1>6. ToSet(u) = ToSet(s) \cup ToSet(t)
  BY <1>3, <1>4, <1>5 DEF ToSet
<1> QED BY <1>1, <1>6 DEF u

(* Sequences of one and of two elements.                                    *)
LEMMA OneOrTwo ==
  ASSUME NEW S, NEW x \in S, NEW y \in S
  PROVE  /\ <<x>> \in Seq(S) /\ ToSet(<<x>>) = {x}
         /\ <<x>> \o <<y>> \in Seq(S) /\ ToSet(<<x>> \o <<y>>) = {x, y}
<1> DEFINE s == <<x>>
           t == <<y>>
<1>1. s \in Seq(S) /\ t \in Seq(S) /\ DOMAIN s = {1} /\ DOMAIN t = {1} /\ s[1] = x /\ t[1] = y
  OBVIOUS
<1> HIDE DEF s, t
<1>2. ToSet(s) = {x} /\ ToSet(t) = {y}
  BY <1>1 DEF ToSet
<1>3. s \o t \in Seq(S) /\ ToSet(s \o t) = ToSet(s) \cup ToSet(t)
  BY <1>1, ElementsOfBoth
<1>4. ToSet(s \o t) = {x, y}
  BY <1>2, <1>3
<1> QED BY <1>1, <1>2, <1>3, <1>4 DEF s, t

(* The only function of a name is given what it was made of.                *)
LEMMA GivenIs ==
  ASSUME NEW made, NEW name, NEW rec, NEW handed,
         {f \in ToSet(made.functions) : f.fn = name} = IF handed = {} THEN {} ELSE {rec},
         {Tail(c) : c \in ToSet(rec.cases)} = handed
  PROVE  GivenIn(made, name) = handed
<1>1. CASE handed = {}
  BY <1>1 DEF GivenIn
<1>2. CASE handed # {}
  BY <1>2 DEF GivenIn
<1> QED BY <1>1, <1>2

(* What is left of a case without its name.                                 *)
LEMMA Nameless ==
  ASSUME NEW a, NEW b, NEW c
  PROVE  Tail(<<a, b, c>>) = <<b, c>> /\ Tail(<<a, b>>) = <<b>>
<1>1. <<a, b, c>> \in Seq({a, b, c}) /\ <<a, b>> \in Seq({a, b, c})
  OBVIOUS
<1>2. Tail(<<a, b, c>>) = [i \in 1 .. 2 |-> <<a, b, c>>[i + 1]]
  BY <1>1
<1>3. Tail(<<a, b>>) = [i \in 1 .. 1 |-> <<a, b>>[i + 1]]
  BY <1>1
<1>4. [i \in 1 .. 2 |-> <<a, b, c>>[i + 1]] = <<b, c>>
  OBVIOUS
<1>5. [i \in 1 .. 1 |-> <<a, b>>[i + 1]] = <<b>>
  OBVIOUS
<1> QED BY <1>2, <1>3, <1>4, <1>5

(* A list of cases, each written as a tuple that begins with its name.      *)
HandsOver(list, written, handed) ==
  /\ DOMAIN written = DOMAIN list
  /\ \A i \in DOMAIN list : Tail(written[i]) \in handed
  /\ \A x \in handed : \E i \in DOMAIN list : Tail(written[i]) = x

(* What is left without the names is what is handed over.                   *)
LEMMA TailsOf ==
  ASSUME NEW list, NEW written, NEW handed, HandsOver(list, written, handed)
  PROVE  {Tail(c) : c \in ToSet(written)} = handed
<1>1. ASSUME NEW x \in {Tail(c) : c \in ToSet(written)} PROVE x \in handed
  <2>1. PICK c \in ToSet(written) : x = Tail(c)
    OBVIOUS
  <2>2. PICK i \in DOMAIN written : c = written[i]
    BY DEF ToSet
  <2> QED BY <2>1, <2>2 DEF HandsOver
<1>2. ASSUME NEW x \in handed PROVE x \in {Tail(c) : c \in ToSet(written)}
  <2>1. PICK i \in DOMAIN list : Tail(written[i]) = x
    BY DEF HandsOver
  <2>2. written[i] \in ToSet(written)
    BY DEF ToSet, HandsOver
  <2> QED BY <2>1, <2>2
<1> QED BY <1>1, <1>2

(* The functions of a group run its cases.                                  *)
LEMMA GroupTested ==
  ASSUME NEW group, IsGroup(group), NEW name, name # << >>
  PROVE  RunsAll([name |-> name, functions |-> TestFunctions(group)], ToSet(group.cases))
<1> DEFINE cases == group.cases
           pos == Partition(cases, TRUE)
           neg == Partition(cases, FALSE)
           good == {c \in ToSet(cases) : c.parses}
           bad == {c \in ToSet(cases) : ~c.parses}
           P == [fn |-> "parses",
                 cases |-> [c \in DOMAIN pos |-> <<ToIdentFragment(pos[c].name), pos[c].input, pos[c].expected>>]]
           R == [fn |-> "roundtrips",
                 cases |-> [c \in DOMAIN pos |-> <<ToIdentFragment(pos[c].name), pos[c].input>>]]
           E == [fn |-> "fails_to_parse",
                 cases |-> [c \in DOMAIN neg |-> <<ToIdentFragment(neg[c].name), neg[c].input, neg[c].expected>>]]
           B == [fn |-> "bash_verifies",
                 cases |-> [c \in DOMAIN cases |-> <<ToIdentFragment(cases[c].name), cases[c].input, ~cases[c].parses>>]]
           X == IF pos = << >> THEN << >> ELSE <<P>> \o <<R>>
           Y == IF neg = << >> THEN << >> ELSE <<E>>
           Z == IF cases = << >> THEN << >> ELSE <<B>>
           made == [name |-> name, functions |-> TestFunctions(group)]
<1>1. TestFunctions(group) = X \o Y \o Z
  BY DEF TestFunctions, GenerateTestFn, GenerateRoundtripTestFn, GenerateErrorTestFn, GenerateBashVerifyTestFn, Tested
<1>2. /\ P.fn = "parses" /\ R.fn = "roundtrips" /\ E.fn = "fails_to_parse" /\ B.fn = "bash_verifies"
      /\ DOMAIN P.cases = DOMAIN pos /\ DOMAIN R.cases = DOMAIN pos
      /\ DOMAIN E.cases = DOMAIN neg /\ DOMAIN B.cases = DOMAIN cases
  OBVIOUS
<1>3. /\ \A c \in DOMAIN pos : Tail(P.cases[c]) = <<pos[c].input, pos[c].expected>> /\ Tail(R.cases[c]) = <<pos[c].input>>
      /\ \A c \in DOMAIN neg : Tail(E.cases[c]) = <<neg[c].input, neg[c].expected>>
      /\ \A c \in DOMAIN cases : Tail(B.cases[c]) = <<cases[c].input, ~cases[c].parses>>
  <2> HIDE DEF cases, pos, neg
  <2>1. ASSUME NEW c \in DOMAIN pos
        PROVE  Tail(P.cases[c]) = <<pos[c].input, pos[c].expected>> /\ Tail(R.cases[c]) = <<pos[c].input>>
    BY Nameless
  <2>2. ASSUME NEW c \in DOMAIN neg PROVE Tail(E.cases[c]) = <<neg[c].input, neg[c].expected>>
    BY Nameless
  <2>3. ASSUME NEW c \in DOMAIN cases PROVE Tail(B.cases[c]) = <<cases[c].input, ~cases[c].parses>>
    BY Nameless
  <2> HIDE DEF P, R, E, B
  <2> QED BY <2>1, <2>2, <2>3
<1>4. Listed(cases) /\ DOMAIN cases = 1 .. Len(cases) /\ \A c \in ToSet(cases) : c.parses \in BOOLEAN
  BY SequencesAreListed DEF IsGroup, Listed, ToSet
<1>5. /\ ToSet(pos) = good /\ (pos = << >> <=> good = {})
      /\ ToSet(neg) = bad /\ (neg = << >> <=> bad = {})
      /\ (cases = << >> <=> ToSet(cases) = {})
  <2>1. good = OfKind(cases, TRUE) /\ bad = OfKind(cases, FALSE)
    <3> HIDE DEF cases
    <3> QED BY <1>4 DEF OfKind
  <2>2. cases = << >> <=> ToSet(cases) = {}
    <3> HIDE DEF cases
    <3>1. cases \in Seq(ToSet(cases))
      BY <1>4 DEF Listed
    <3>2. cases = << >> <=> DOMAIN cases = {}
      BY <3>1
    <3> QED BY <3>2 DEF ToSet
  <2> HIDE DEF good, bad, cases
  <2> QED BY <2>1, <2>2, <1>4, PartitionIs
<1> HIDE DEF P, R, E, B
<1>6. ToSet(made.functions)
        = (IF good = {} THEN {} ELSE {P, R}) \cup (IF bad = {} THEN {} ELSE {E}) \cup (IF ToSet(cases) = {} THEN {} ELSE {B})
  <2> DEFINE Q == {P, R, E, B}
  <2>1. X \in Seq(Q) /\ ToSet(X) = IF good = {} THEN {} ELSE {P, R}
    <3>1. << >> \in Seq(Q) /\ ToSet(<< >>) = {}
      BY DEF ToSet
    <3>2. P \in Q /\ R \in Q
      OBVIOUS
    <3>3. <<P>> \o <<R>> \in Seq(Q) /\ ToSet(<<P>> \o <<R>>) = {P, R}
      <4> HIDE DEF Q
      <4> QED BY <3>2, OneOrTwo
    <3> HIDE DEF pos, good, Q
    <3> QED BY <3>1, <3>3, <1>5
  <2>2. Y \in Seq(Q) /\ ToSet(Y) = IF bad = {} THEN {} ELSE {E}
    <3>1. << >> \in Seq(Q) /\ ToSet(<< >>) = {} /\ <<E>> \in Seq(Q) /\ ToSet(<<E>>) = {E}
      BY DEF ToSet
    <3> HIDE DEF neg, bad, Q
    <3> QED BY <3>1, <1>5
  <2>3. Z \in Seq(Q) /\ ToSet(Z) = IF ToSet(cases) = {} THEN {} ELSE {B}
    <3>1. << >> \in Seq(Q) /\ ToSet(<< >>) = {} /\ <<B>> \in Seq(Q) /\ ToSet(<<B>>) = {B}
      BY DEF ToSet
    <3> HIDE DEF cases, Q
    <3> QED BY <3>1, <1>5
  <2>4. made.functions = X \o Y \o Z
    BY <1>1
  <2> HIDE DEF X, Y, Z, Q, made
  <2>5. X \o Y \in Seq(Q) /\ ToSet(X \o Y) = ToSet(X) \cup ToSet(Y)
    BY <2>1, <2>2, ElementsOfBoth
  <2>6. ToSet((X \o Y) \o Z) = ToSet(X \o Y) \cup ToSet(Z)
    <3> DEFINE front == X \o Y
    <3>1. front \in Seq(Q)
      BY <2>5
    <3> HIDE DEF front
    <3>2. ToSet(front \o Z) = ToSet(front) \cup ToSet(Z)
      BY <3>1, <2>3, ElementsOfBoth
    <3> QED BY <3>2 DEF front
  <2> QED BY <2>1, <2>2, <2>3, <2>4, <2>5, <2>6
<1>7. good # {} => ToSet(cases) # {}
  OBVIOUS
<1> HIDE DEF pos, neg, cases
<1>8. GivenIn(made, "parses") = {<<c.input, c.expected>> : c \in good}
  <2> DEFINE handed == {<<c.input, c.expected>> : c \in good}
  <2>1. {Tail(c) : c \in ToSet(P.cases)} = handed
    <3>1. \A i \in DOMAIN pos : Tail(P.cases[i]) \in handed
      BY <1>3, <1>5 DEF ToSet
    <3>2. \A x \in handed : \E i \in DOMAIN pos : Tail(P.cases[i]) = x
      <4> TAKE x \in handed
      <4>1. PICK c \in good : x = <<c.input, c.expected>>
        OBVIOUS
      <4>2. PICK i \in DOMAIN pos : c = pos[i]
        BY <1>5 DEF ToSet
      <4> QED BY <4>1, <4>2, <1>3
    <3>3. HandsOver(pos, P.cases, handed)
      BY <3>1, <3>2, <1>2 DEF HandsOver
    <3> HIDE DEF handed, good, bad
    <3> QED BY <3>3, TailsOf
  <2>2. handed = {} <=> good = {}
    OBVIOUS
  <2> HIDE DEF handed, made, good, bad
  <2>3. {f \in ToSet(made.functions) : f.fn = "parses"} = IF handed = {} THEN {} ELSE {P}
    BY <1>2, <1>6, <2>2
  <2>4. GivenIn(made, "parses") = handed
    BY <2>1, <2>3, GivenIs
  <2> QED BY <2>4 DEF handed
<1>9. GivenIn(made, "roundtrips") = {<<c.input>> : c \in good}
  <2> DEFINE handed == {<<c.input>> : c \in good}
  <2>1. {Tail(c) : c \in ToSet(R.cases)} = handed
    <3>1. \A i \in DOMAIN pos : Tail(R.cases[i]) \in handed
      BY <1>3, <1>5 DEF ToSet
    <3>2. \A x \in handed : \E i \in DOMAIN pos : Tail(R.cases[i]) = x
      <4> TAKE x \in handed
      <4>1. PICK c \in good : x = <<c.input>>
        OBVIOUS
      <4>2. PICK i \in DOMAIN pos : c = pos[i]
        BY <1>5 DEF ToSet
      <4> QED BY <4>1, <4>2, <1>3
    <3>3. HandsOver(pos, R.cases, handed)
      BY <3>1, <3>2, <1>2 DEF HandsOver
    <3> HIDE DEF handed, good, bad
    <3> QED BY <3>3, TailsOf
  <2>2. handed = {} <=> good = {}
    OBVIOUS
  <2> HIDE DEF handed, made, good, bad
  <2>3. {f \in ToSet(made.functions) : f.fn = "roundtrips"} = IF handed = {} THEN {} ELSE {R}
    BY <1>2, <1>6, <2>2
  <2>4. GivenIn(made, "roundtrips") = handed
    BY <2>1, <2>3, GivenIs
  <2> QED BY <2>4 DEF handed
<1>10. GivenIn(made, "fails_to_parse") = {<<c.input, c.expected>> : c \in bad}
  <2> DEFINE handed == {<<c.input, c.expected>> : c \in bad}
  <2>1. {Tail(c) : c \in ToSet(E.cases)} = handed
    <3>1. \A i \in DOMAIN neg : Tail(E.cases[i]) \in handed
      BY <1>3, <1>5 DEF ToSet
    <3>2. \A x \in handed : \E i \in DOMAIN neg : Tail(E.cases[i]) = x
      <4> TAKE x \in handed
      <4>1. PICK c \in bad : x = <<c.input, c.expected>>
        OBVIOUS
      <4>2. PICK i \in DOMAIN neg : c = neg[i]
        BY <1>5 DEF ToSet
      <4> QED BY <4>1, <4>2, <1>3
    <3>3. HandsOver(neg, E.cases, handed)
      BY <3>1, <3>2, <1>2 DEF HandsOver
    <3> HIDE DEF handed, good, bad
    <3> QED BY <3>3, TailsOf
  <2>2. handed = {} <=> bad = {}
    OBVIOUS
  <2> HIDE DEF handed, made, good, bad
  <2>3. {f \in ToSet(made.functions) : f.fn = "fails_to_parse"} = IF handed = {} THEN {} ELSE {E}
    BY <1>2, <1>6, <2>2
  <2>4. GivenIn(made, "fails_to_parse") = handed
    BY <2>1, <2>3, GivenIs
  <2> QED BY <2>4 DEF handed
<1>11. GivenIn(made, "bash_verifies") = {<<c.input, ~c.parses>> : c \in ToSet(cases)}
  <2> DEFINE handed == {<<c.input, ~c.parses>> : c \in ToSet(cases)}
  <2>1. {Tail(c) : c \in ToSet(B.cases)} = handed
    <3>1. \A i \in DOMAIN cases : Tail(B.cases[i]) \in handed
      BY <1>3 DEF ToSet
    <3>2. \A x \in handed : \E i \in DOMAIN cases : Tail(B.cases[i]) = x
      <4> TAKE x \in handed
      <4>1. PICK c \in ToSet(cases) : x = <<c.input, ~c.parses>>
        OBVIOUS
      <4>2. PICK i \in DOMAIN cases : c = cases[i]
        BY <1>5 DEF ToSet
      <4> QED BY <4>1, <4>2, <1>3
    <3>3. HandsOver(cases, B.cases, handed)
      BY <3>1, <3>2, <1>2 DEF HandsOver
    <3> HIDE DEF handed, good, bad
    <3> QED BY <3>3, TailsOf
  <2>2. handed = {} <=> ToSet(cases) = {}
    OBVIOUS
  <2> HIDE DEF handed, made, good, bad
  <2>3. {f \in ToSet(made.functions) : f.fn = "bash_verifies"} = IF handed = {} THEN {} ELSE {B}
    BY <1>2, <1>6, <2>2
  <2>4. GivenIn(made, "bash_verifies") = handed
    BY <2>1, <2>3, GivenIs
  <2> QED BY <2>4 DEF handed
<1>12. made.name = name
  OBVIOUS
<1>13. RunsAll(made, ToSet(cases))
  <2> HIDE DEF made
  <2> QED BY <1>8, <1>9, <1>10, <1>11, <1>12 DEF RunsAll
<1> QED BY <1>13 DEF made, cases

-----------------------------------------------------------------------------
(* The test generator: the loop over the directory.                         *)

AllEntries == IF corpus = NoDirectory THEN {} ELSE DOMAIN corpus

SuiteOf(e) == Parse(corpus[e].lines)

Visited == {e \in AllEntries \ unread : corpus[e].is = "tests"}

(* The entries visited so far are no obstacle, and each file among them is  *)
(* read.                                                                    *)
CleanSoFar ==
  /\ unread \in SUBSET AllEntries
  /\ \A e \in AllEntries \ unread : corpus[e].is \in {"tests", "other"}
  /\ \A e \in Visited : Accepted(SuiteOf(e)) /\ HasIdents(SuiteOf(e))

(* The modules are those of the files read, one for each, and no two of     *)
(* them have one number.                                                    *)
OneModuleEach ==
  /\ Listed(modules)
  /\ \A e \in Visited : \E m \in DOMAIN modules : modules[m] = SuiteModule(SuiteOf(e))
  /\ numbers = {modules[m].name[1] : m \in DOMAIN modules}
  /\ \A m, n \in DOMAIN modules : modules[m].name[1] = modules[n].name[1] => m = n
  /\ Len(modules) = Cardinality(Visited)

GenInv ==
  /\ corpus \in Corpora
  /\ outcome \in {"running", "written"} => CleanSoFar /\ OneModuleEach
  /\ outcome = "written" => unread = {}

(* What is in a directory.                                                  *)
LEMMA EntriesAre ==
  ASSUME corpus \in Corpora
  PROVE  /\ IsFiniteSet(AllEntries)
         /\ \A e \in AllEntries :
              /\ corpus[e].is \in {"tests", "other", "bad_stem", "unreadable"}
              /\ corpus[e].is = "tests" =>
                   IF Accepted(SuiteOf(e)) THEN AreGroups(SuiteOf(e).groups) ELSE SuiteOf(e).error \in ParseErrors
<1>1. CASE corpus = NoDirectory
  BY <1>1, FS_EmptySet DEF AllEntries
<1>2. CASE corpus # NoDirectory
  <2>1. IsFiniteSet(DOMAIN corpus) /\ AllEntries = DOMAIN corpus
    BY <1>2, CorporaAssumption DEF AllEntries
  <2>2. ASSUME NEW e \in DOMAIN corpus
        PROVE  /\ corpus[e].is \in {"tests", "other", "bad_stem", "unreadable"}
               /\ corpus[e].is = "tests" => corpus[e].lines \in Seq(ToSet(corpus[e].lines)) /\ corpus[e].lines # << >>
    BY <1>2, CorporaAssumption
  <2>3. ASSUME NEW e \in DOMAIN corpus, corpus[e].is = "tests"
        PROVE  IF Accepted(SuiteOf(e)) THEN AreGroups(SuiteOf(e).groups) ELSE SuiteOf(e).error \in ParseErrors
    BY <2>2, <2>3, SuiteRead DEF SuiteOf
  <2> QED BY <2>1, <2>2, <2>3
<1> QED BY <1>1, <1>2

(* No error is called like the end of the script or its course.             *)
LEMMA ErrorsAreErrors ==
  ASSUME NEW error \in ParseErrors
  PROVE  error \notin {"running", "written"}
  BY DEF ParseErrors

(* Nothing has been visited in the beginning.                               *)
LEMMA GenInit == InitTests => GenInv
<1> SUFFICES ASSUME InitTests PROVE GenInv
  OBVIOUS
<1>1. corpus \in Corpora /\ unread = AllEntries /\ numbers = {} /\ modules = << >> /\ outcome = "running"
  BY DEF InitTests, AllEntries
<1>2. Visited = {} /\ AllEntries \ unread = {}
  BY <1>1 DEF Visited
<1>3. Listed(<< >>) /\ DOMAIN << >> = {} /\ Len(<< >>) = 0
  <2>1. << >> \in Seq({}) /\ DOMAIN << >> = {} /\ Len(<< >>) = 0
    OBVIOUS
  <2> QED BY <2>1, SequencesAreListed
<1>4. Cardinality({}) = 0
  BY FS_EmptySet
<1>5. CleanSoFar
  BY <1>1, <1>2 DEF CleanSoFar
<1>6. OneModuleEach
  <2>1. numbers = {modules[m].name[1] : m \in DOMAIN modules}
    BY <1>1, <1>3
  <2> QED BY <1>1, <1>2, <1>3, <1>4, <2>1 DEF OneModuleEach
<1> QED BY <1>1, <1>5, <1>6 DEF GenInv

(* One entry visited.                                                       *)
LEMMA VisitedNext ==
  ASSUME corpus' = corpus, NEW e \in unread, unread \in SUBSET AllEntries, unread' = unread \ {e}
  PROVE  /\ AllEntries' = AllEntries /\ unread' \in SUBSET AllEntries
         /\ \A f : SuiteOf(f)' = SuiteOf(f)
         /\ AllEntries \ unread' = (AllEntries \ unread) \cup {e}
         /\ Visited' = IF corpus[e].is = "tests" THEN Visited \cup {e} ELSE Visited
         /\ e \notin Visited
  BY DEF AllEntries, SuiteOf, Visited

(* One suite more.                                                          *)
LEMMA ReadNextSuite ==
  ASSUME GenInv, NEW e \in unread, outcome = "running", corpus[e].is = "tests",
         Accepted(SuiteOf(e)), SuiteOf(e).number \notin numbers, HasIdents(SuiteOf(e)),
         unread' = unread \ {e}, corpus' = corpus, outcome' = outcome,
         numbers' = numbers \cup {SuiteOf(e).number},
         modules' = Append(modules, SuiteModule(SuiteOf(e)))
  PROVE  GenInv'
<1> DEFINE new == SuiteModule(SuiteOf(e))
           N == Len(modules)
<1>1. corpus \in Corpora /\ CleanSoFar /\ OneModuleEach
  BY DEF GenInv
<1>2. /\ AllEntries' = AllEntries /\ unread' \in SUBSET AllEntries
      /\ \A f : SuiteOf(f)' = SuiteOf(f)
      /\ AllEntries \ unread' = (AllEntries \ unread) \cup {e}
      /\ Visited' = Visited \cup {e} /\ e \notin Visited
  BY <1>1, VisitedNext DEF CleanSoFar
<1>3. /\ DOMAIN modules = 1 .. N /\ N \in Nat
      /\ Listed(modules') /\ Len(modules') = N + 1 /\ DOMAIN modules' = 1 .. N + 1
      /\ \A m \in 1 .. N : modules'[m] = modules[m]
      /\ modules'[N + 1] = new
  BY <1>1, Listing DEF OneModuleEach
<1>4. new.name[1] = SuiteOf(e).number
  BY DEF SuiteModule
<1> HIDE DEF new, N
<1>5. CleanSoFar'
  <2>1. \A f \in AllEntries \ unread' : corpus[f].is \in {"tests", "other"}
    BY <1>1, <1>2 DEF CleanSoFar
  <2>2. \A f \in Visited' : Accepted(SuiteOf(f)) /\ HasIdents(SuiteOf(f))
    BY <1>1, <1>2 DEF CleanSoFar
  <2> QED BY <1>2, <2>1, <2>2 DEF CleanSoFar
<1>6. OneModuleEach'
  <2>1. \A f \in Visited' : \E m \in DOMAIN modules' : modules'[m] = SuiteModule(SuiteOf(f))
    <3> TAKE f \in Visited'
    <3>1. CASE f \in Visited
      <4>1. PICK m \in DOMAIN modules : modules[m] = SuiteModule(SuiteOf(f))
        BY <3>1, <1>1 DEF OneModuleEach
      <4>2. m \in DOMAIN modules' /\ modules'[m] = modules[m]
        BY <4>1, <1>3
      <4> QED BY <4>1, <4>2
    <3>2. CASE f = e
      <4>1. N + 1 \in DOMAIN modules'
        BY <1>3
      <4> QED BY <3>2, <4>1, <1>3 DEF new
    <3> QED BY <3>1, <3>2, <1>2
  <2>2. \A m \in DOMAIN modules' : m \in 1 .. N \/ m = N + 1
    BY <1>3
  <2>3. /\ \A m \in 1 .. N :
             m \in DOMAIN modules' /\ modules'[m].name[1] = modules[m].name[1] /\ modules[m].name[1] \in numbers
        /\ N + 1 \in DOMAIN modules' /\ modules'[N + 1].name[1] = SuiteOf(e).number
    BY <1>1, <1>3, <1>4 DEF OneModuleEach
  <2>4. numbers' = {modules'[m].name[1] : m \in DOMAIN modules'}
    <3>1. ASSUME NEW x \in numbers' PROVE \E m \in DOMAIN modules' : x = modules'[m].name[1]
      <4>1. CASE x \in numbers
        <5>1. PICK m \in DOMAIN modules : x = modules[m].name[1]
          BY <4>1, <1>1 DEF OneModuleEach
        <5> QED BY <5>1, <2>3, <1>3
      <4>2. CASE x = SuiteOf(e).number
        BY <4>2, <2>3
      <4> QED BY <4>1, <4>2
    <3>2. ASSUME NEW m \in DOMAIN modules' PROVE modules'[m].name[1] \in numbers'
      BY <2>2, <2>3
    <3> QED BY <3>1, <3>2
  <2>5. \A m, n \in DOMAIN modules' : modules'[m].name[1] = modules'[n].name[1] => m = n
    <3>1. \A m, n \in 1 .. N : modules[m].name[1] = modules[n].name[1] => m = n
      BY <1>1, <1>3 DEF OneModuleEach
    <3> QED BY <3>1, <2>2, <2>3
  <2>6. Len(modules') = Cardinality(Visited')
    <3>1. IsFiniteSet(Visited)
      <4>1. IsFiniteSet(AllEntries) /\ Visited \in SUBSET AllEntries
        BY <1>1, EntriesAre DEF Visited
      <4> QED BY <4>1, FS_Subset
    <3>2. Cardinality(Visited \cup {e}) = Cardinality(Visited) + 1
      BY <3>1, <1>2, FS_AddElement
    <3>3. N = Cardinality(Visited)
      BY <1>1 DEF OneModuleEach, N
    <3> QED BY <3>2, <3>3, <1>2, <1>3
  <2>7. \A f \in Visited' : \E m \in DOMAIN modules' : modules'[m] = SuiteModule(SuiteOf(f)')
    BY <2>1, <1>2
  <2> QED BY <1>3, <2>4, <2>5, <2>6, <2>7 DEF OneModuleEach
<1> QED BY <1>1, <1>5, <1>6 DEF GenInv

(* The script goes on, stops for good, or writes its file.                  *)
LEMMA GenNext == GenInv /\ [NextTests]_gen_vars => GenInv'
<1> SUFFICES ASSUME GenInv, [NextTests]_gen_vars PROVE GenInv'
  OBVIOUS
<1>1. ASSUME NEW e \in unread, ReadEntry(e) PROVE GenInv'
  <2>1. /\ outcome = "running" /\ unread' = unread \ {e} /\ corpus' = corpus
        /\ corpus \in Corpora /\ CleanSoFar /\ OneModuleEach
    BY <1>1 DEF ReadEntry, Stop, GenInv
  <2>2. e \in AllEntries
    BY <2>1 DEF CleanSoFar
  <2>3. CASE outcome' \notin {"running", "written"}
    BY <2>1, <2>3 DEF GenInv
  <2>4. CASE corpus[e].is = "other" /\ UNCHANGED <<corpus, numbers, modules, outcome>>
    <3>1. /\ AllEntries' = AllEntries /\ unread' \in SUBSET AllEntries
          /\ \A f : SuiteOf(f)' = SuiteOf(f)
          /\ AllEntries \ unread' = (AllEntries \ unread) \cup {e}
          /\ Visited' = Visited
      BY <2>1, <2>4, VisitedNext DEF CleanSoFar
    <3>2. CleanSoFar'
      <4>1. \A f \in AllEntries \ unread' : corpus[f].is \in {"tests", "other"}
        BY <2>1, <2>4, <3>1 DEF CleanSoFar
      <4> QED BY <2>1, <3>1, <4>1 DEF CleanSoFar
    <3>3. OneModuleEach'
      BY <2>1, <2>4, <3>1 DEF OneModuleEach
    <3> QED BY <2>1, <2>4, <3>2, <3>3 DEF GenInv
  <2>5. CASE /\ corpus[e].is = "tests" /\ Accepted(SuiteOf(e)) /\ SuiteOf(e).number \notin numbers
             /\ HasIdents(SuiteOf(e))
             /\ numbers' = numbers \cup {SuiteOf(e).number}
             /\ modules' = Append(modules, SuiteModule(SuiteOf(e)))
             /\ UNCHANGED <<corpus, outcome>>
    BY <2>1, <2>5, ReadNextSuite
  <2>6. ASSUME corpus[e].is = "tests", ~Accepted(SuiteOf(e)) PROVE SuiteOf(e).error \notin {"running", "written"}
    BY <2>1, <2>2, <2>6, EntriesAre, ErrorsAreErrors
  <2>7. \/ corpus[e].is = "other" /\ UNCHANGED <<corpus, numbers, modules, outcome>>
        \/ outcome' \in {"InvalidFileStem", "Io", "DuplicateSuiteNumber", "panicked"}
        \/ corpus[e].is = "tests" /\ ~Accepted(SuiteOf(e)) /\ outcome' = SuiteOf(e).error
        \/ /\ corpus[e].is = "tests" /\ Accepted(SuiteOf(e)) /\ SuiteOf(e).number \notin numbers
           /\ HasIdents(SuiteOf(e))
           /\ numbers' = numbers \cup {SuiteOf(e).number}
           /\ modules' = Append(modules, SuiteModule(SuiteOf(e)))
           /\ UNCHANGED <<corpus, outcome>>
    BY <1>1 DEF ReadEntry, Stop, SuiteOf
  <2> QED BY <2>3, <2>4, <2>5, <2>6, <2>7
<1>2. CASE WriteGenerated
  <2>1. /\ CleanSoFar /\ OneModuleEach /\ corpus \in Corpora /\ unread = {}
        /\ UNCHANGED <<corpus, unread, numbers, modules>>
    BY <1>2 DEF GenInv, WriteGenerated
  <2>2. CleanSoFar' /\ OneModuleEach'
    BY <2>1 DEF CleanSoFar, OneModuleEach, Visited, AllEntries, SuiteOf
  <2> QED BY <2>1, <2>2 DEF GenInv
<1>3. CASE UNCHANGED gen_vars
  BY <1>3 DEF GenInv, gen_vars, CleanSoFar, OneModuleEach, Visited, AllEntries, SuiteOf
<1> QED BY <1>1, <1>2, <1>3 DEF NextTests

(* At the end everything was visited.                                       *)
LEMMA AllTested == GenInv => EveryCaseTested
<1> SUFFICES ASSUME GenInv, outcome = "written" PROVE EveryCaseTested
  BY DEF EveryCaseTested
<1>1. corpus \in Corpora /\ CleanSoFar /\ OneModuleEach /\ unread = {}
  BY DEF GenInv
<1>2. Visited = TestsFiles /\ AllEntries \ unread = AllEntries
  BY <1>1 DEF Visited, TestsFiles, AllEntries
<1>3. corpus = NoDirectory \/ \A e \in DOMAIN corpus : corpus[e].is \in {"tests", "other"}
  BY <1>1, <1>2 DEF CleanSoFar, AllEntries
<1>4. Len(modules) = Cardinality(TestsFiles)
  BY <1>1, <1>2 DEF OneModuleEach
<1>5. ASSUME NEW e \in TestsFiles
      PROVE  /\ Accepted(SuiteOf(e))
             /\ \E m \in DOMAIN modules :
                  /\ \A n \in DOMAIN modules : modules[n].name[1] = SuiteOf(e).number <=> n = m
                  /\ \A g \in DOMAIN SuiteOf(e).groups :
                       RunsAll(modules[m].groups[g], ToSet(SuiteOf(e).groups[g].cases))
  <2> DEFINE suite == SuiteOf(e)
  <2>1. Accepted(suite) /\ HasIdents(suite)
    BY <1>1, <1>2 DEF CleanSoFar
  <2>2. PICK m \in DOMAIN modules : modules[m] = SuiteModule(suite)
    BY <1>1, <1>2 DEF OneModuleEach
  <2>3. modules[m].name[1] = suite.number
    BY <2>2 DEF SuiteModule
  <2>4. \A n \in DOMAIN modules : modules[n].name[1] = suite.number <=> n = m
    BY <1>1, <2>3 DEF OneModuleEach
  <2>5. AreGroups(suite.groups)
    <3>1. e \in AllEntries /\ corpus[e].is = "tests"
      BY <1>2 DEF Visited
    <3> QED BY <1>1, <2>1, <3>1, EntriesAre
  <2> HIDE DEF suite
  <2>6. ASSUME NEW g \in DOMAIN suite.groups PROVE RunsAll(modules[m].groups[g], ToSet(suite.groups[g].cases))
    <3>1. IsGroup(suite.groups[g])
      BY <2>5 DEF AreGroups
    <3>2. ToIdentFragment(suite.groups[g].name) # << >>
      BY <2>1 DEF HasIdents
    <3>3. modules[m].groups[g]
            = [name |-> ToIdentFragment(suite.groups[g].name), functions |-> TestFunctions(suite.groups[g])]
      BY <2>2 DEF SuiteModule
    <3> QED BY <3>1, <3>2, <3>3, GroupTested
  <2> QED BY <2>1, <2>4, <2>6 DEF suite
<1>6. \A s \in {Parse(corpus[e].lines) : e \in TestsFiles} : Accepted(s) /\ \E m \in DOMAIN modules :
        /\ \A n \in DOMAIN modules : modules[n].name[1] = s.number <=> n = m
        /\ \A g \in DOMAIN s.groups : RunsAll(modules[m].groups[g], ToSet(s.groups[g].cases))
  BY <1>5 DEF SuiteOf
<1> QED BY <1>1, <1>3, <1>4, <1>6 DEF EveryCaseTested, RunsAll, GivenIn

(* The generated file tests the whole corpus, each case in the way it says  *)
(* it must be, whatever is in the directory and in whatever order it is     *)
(* listed (build.rs:279).                                                   *)
THEOREM CasesTested == SpecTests => []EveryCaseTested
<1> QED BY GenInit, GenNext, AllTested, PTL DEF SpecTests
=============================================================================
