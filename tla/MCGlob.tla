------------------------------- MODULE MCGlob -------------------------------
(***************************************************************************)
(* Every pattern of up to MaxPattern symbols against every path of up to   *)
(* MaxPath, each grown one symbol at a time.                               *)
(***************************************************************************)
EXTENDS Glob

CONSTANTS MaxPattern, MaxPath

VARIABLES pattern, target

MCGlobAlphabet == <<"a", "b">>

InitGlob == pattern = << >> /\ target = << >>

GrowPattern ==
  /\ target = << >> /\ Len(pattern) < MaxPattern
  /\ \E c \in Letters \cup Wildcards \cup {"/"} : pattern' = Append(pattern, c)
  /\ UNCHANGED target

GrowPath ==
  /\ Len(target) < MaxPath
  /\ \E c \in Letters \cup {"/"} : target' = Append(target, c)
  /\ UNCHANGED pattern

NextGlob == GrowPattern \/ GrowPath

SpecGlob == InitGlob /\ [][NextGlob]_<<pattern, target>>

(* The pre-filter of RuleSet::get rejects no path the pattern matches: every *)
(* match contains the pattern's required literal, whatever leading or inner  *)
(* components of two stars match nothing at all.                             *)
PrefilterLosesNothing ==
  Compiles(pattern) /\ Matches(pattern, target) => ContainsRun(target, RequiredLiteral(pattern))

(* A pattern that is not a glob matches itself alone, so looking it up as a  *)
(* map key and matching it as a pattern are the same.                        *)
ExactIsLiteral == ~IsGlobPattern(pattern) => (Matches(pattern, target) <=> pattern = target)
=============================================================================
