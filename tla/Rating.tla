-------------------------------- MODULE Rating --------------------------------
(***************************************************************************)
(* The risk axes of crates/risk-data/src/types/rating.rs and the fold they *)
(* are made for: a command's rating is its baseline, worsened by every     *)
(* escalating rule that applies and then capped by every mitigating one.   *)
(* Each axis is the sequence of its three levels, lowest first; escalate   *)
(* and mitigate are the same two matches on every one of them.             *)
(***************************************************************************)

TrustImpact   == <<"None", "DelegatesExecution", "ArbitraryExecution">>
Reversibility == <<"Reversible", "Recoverable", "Irreversible">>
BlastRadius   == <<"Narrow", "Moderate", "Broad">>
Disclosure    == <<"None", "DisclosesData", "DisclosesCredentials">>
Persistence   == <<"Ephemeral", "SessionScoped", "Persistent">>
Privilege     == <<"None", "Delegated", "Elevated">>
Auditability  == <<"Intact", "Reduced", "Tampered">>
Exposure      == <<"Contained", "PeerReachable", "NetworkReachable">>
Verification  == <<"Checked", "Weakened", "Bypassed">>

(* The fields of a ProfilePatch. *)
AxisOf ==
  [trust |-> TrustImpact, reversibility |-> Reversibility, blast_radius |-> BlastRadius,
   disclosure |-> Disclosure, persistence |-> Persistence, privilege |-> Privilege,
   auditability |-> Auditability, exposure |-> Exposure, verification |-> Verification]

CONSTANTS Axes,    \* the axes the rules at hand have an opinion about
          Unset,   \* a field a patch leaves out
          Cases    \* pairs of a baseline and the rules that apply to an invocation

Levels(a) == {AxisOf[a][1], AxisOf[a][2], AxisOf[a][3]}

Patches == {p \in [Axes -> (UNION {Levels(a) : a \in Axes}) \cup {Unset}] :
              \A a \in Axes : p[a] \in Levels(a) \cup {Unset}}

Rules == [effect : {"Escalate", "Mitigate"}, patch : Patches]

ASSUME RatingAssumption ==
  /\ Axes \subseteq DOMAIN AxisOf
  /\ Unset \notin UNION {Levels(a) : a \in Axes}
  /\ Cases \subseteq Patches \X SUBSET Rules

(* escalate and mitigate: the arms of their match, in order. *)
Escalate(a, x, y) ==
  IF AxisOf[a][3] \in {x, y} THEN AxisOf[a][3]
  ELSE IF AxisOf[a][2] \in {x, y} THEN AxisOf[a][2] ELSE AxisOf[a][1]

(* Fault: a middle cap does not lower the highest level. *)
Mitigate_MissingArm(a, x, cap) ==
  IF AxisOf[a][1] \in {x, cap} THEN AxisOf[a][1]
  ELSE IF x = AxisOf[a][2] THEN AxisOf[a][2] ELSE AxisOf[a][3]

Mitigate(a, x, cap) ==
  IF AxisOf[a][1] \in {x, cap} THEN AxisOf[a][1]
  ELSE IF AxisOf[a][2] \in {x, cap} THEN AxisOf[a][2] ELSE AxisOf[a][3]

Lowest(a) == AxisOf[a][1]

VARIABLES
  given,     \* the baseline and the rules of the invocation
  applied,   \* the rules folded in so far
  profile    \* the running profile, a level for each axis

rating_vars == <<given, applied, profile>>

Baseline == [a \in Axes |-> IF given[1][a] = Unset THEN Lowest(a) ELSE given[1][a]]

InitRating ==
  /\ given \in Cases
  /\ applied = {}
  /\ profile = Baseline

Escalations == {r \in given[2] : r.effect = "Escalate"}

FoldEscalation(r) ==
  /\ r \in Escalations \ applied
  /\ applied' = applied \cup {r}
  /\ profile' = [a \in Axes |->
       IF r.patch[a] = Unset THEN profile[a] ELSE Escalate(a, profile[a], r.patch[a])]
  /\ UNCHANGED given

FoldMitigation(r) ==
  /\ Escalations \subseteq applied
  /\ r \in given[2] \ (Escalations \cup applied)
  /\ applied' = applied \cup {r}
  /\ profile' = [a \in Axes |->
       IF r.patch[a] = Unset THEN profile[a] ELSE Mitigate(a, profile[a], r.patch[a])]
  /\ UNCHANGED given

NextRating == \E r \in given[2] : FoldEscalation(r) \/ FoldMitigation(r)

SpecRating == InitRating /\ [][NextRating]_rating_vars

-----------------------------------------------------------------------------
Said(rules, a) == {r.patch[a] : r \in rules} \ {Unset}

WorstOf(a, levels) ==
  IF AxisOf[a][3] \in levels THEN AxisOf[a][3]
  ELSE IF AxisOf[a][2] \in levels THEN AxisOf[a][2] ELSE AxisOf[a][1]

BestOf(a, levels) ==
  IF AxisOf[a][1] \in levels THEN AxisOf[a][1]
  ELSE IF AxisOf[a][2] \in levels THEN AxisOf[a][2] ELSE AxisOf[a][3]

(* Whatever order the rules are folded in, escalations before mitigations, *)
(* on every axis the rating ends as the worst level of the baseline and    *)
(* the escalations, unless a mitigation caps it lower; and a rule that     *)
(* leaves the axis out changes nothing.  That escalations come first is    *)
(* the README's of risk-data and imposed here, since the fold itself is    *)
(* not in the repository; what rating.rs has to hold up are the matches.   *)
RatingIsOrderFree ==
  applied = given[2] =>
    \A a \in Axes :
      profile[a] = BestOf(a, Said(given[2] \ Escalations, a)
                              \cup {WorstOf(a, Said(Escalations, a) \cup {Baseline[a]})})
=============================================================================
