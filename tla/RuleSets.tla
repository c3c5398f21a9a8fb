------------------------------ MODULE RuleSets ------------------------------
(***************************************************************************)
(* crates/stages/src/read_write_guard: the index of guarded-file rules and *)
(* what the guard answers from it (rule.rs, rule_set.rs, denial.rs).       *)
(*                                                                         *)
(* A rule is [filename, access]; a rule set is [exact, globs], the exact   *)
(* rules as a set (their map is keyed by filename) and the glob rules in   *)
(* the order they are tried.  hint and note are part of the access value.  *)
(***************************************************************************)
EXTENDS Glob, SequencesExt

Access == {"DenyAll", "DenyAllWithDiff", "DenyWrite", "DenyRead"}

GuardRule == [filename : Seq(Symbol), access : Access]

NoRule == [filename |-> << >>, access |-> "none"]

(* Rule::subsumes *)
Subsumes(r, e) ==
  \/ r.filename = e.filename
  \/ /\ IsGlobPattern(r.filename) /\ ~IsGlobPattern(e.filename)
     /\ Compiles(r.filename) /\ Matches(r.filename, e.filename)

(* Fault: only a rule of the same pattern is replaced. *)
Override_SamePattern(kept, r) == {e \in kept : r.filename # e.filename} \cup {r}

(* One round of the fold of from_iter.  No two rules it keeps have the same  *)
(* pattern and both indexes have an order of their own, so the order in      *)
(* which it keeps them says nothing.                                         *)
Override(kept, r) == {e \in kept : ~Subsumes(r, e)} \cup {r}

(* The elements of S in the order Less, a strict total order of S. *)
Sorted(S, Less(_, _)) ==
  [i \in 1 .. Cardinality(S) |->
     CHOOSE x \in S : Cardinality({y \in S : Less(y, x)}) = i - 1]

(* RuleSet::from_iter: a glob that does not compile is dropped here, not     *)
(* before it has taken part in the fold.                                     *)
FromIter(rules) ==
  LET resolved == FoldLeft(Override, {}, rules)
  IN  [exact |-> {r \in resolved : ~IsGlobPattern(r.filename)},
       globs |-> Sorted({r \in resolved : IsGlobPattern(r.filename) /\ Compiles(r.filename)},
                        LAMBDA r, q : MoreSpecific(r.filename, q.filename))]

(* Fault: the exact rules come first. *)
IntoIter_ExactFirst(rs) ==
  Sorted(rs.exact, LAMBDA r, q : LexLess(r.filename, q.filename)) \o Reverse(rs.globs)

(* RuleSet::iter and RuleSet::into_iter: globs from the widest to the        *)
(* narrowest, then the exact rules, so that a glob meets no exact rule of    *)
(* its own set when the set is folded again.                                 *)
IntoIter(rs) ==
  Reverse(rs.globs) \o Sorted(rs.exact, LAMBDA r, q : LexLess(r.filename, q.filename))

(* What a glob pattern is matched against: the path if it has a separator,   *)
(* else the basename.                                                        *)
Candidate(p, path) == IF Occurs("/", p) THEN path ELSE Basename(path)

(* A glob rule of the set applies to the path: the pre-filter, then the match. *)
Applies(r, path) ==
  LET literal == RequiredLiteral(r.filename)
      name    == Candidate(r.filename, path)
  IN  (literal = << >> \/ ContainsRun(name, literal)) /\ Matches(r.filename, name)

(* Fault: the globs are tried before the exact rules. *)
Get_GlobsFirst(rs, path) ==
  LET glob == SelectInSeq(rs.globs, LAMBDA r : Applies(r, path))
      same == {r \in rs.exact : r.filename = Basename(path)}
  IN  IF glob # 0 THEN rs.globs[glob]
      ELSE IF same # {} THEN CHOOSE r \in same : TRUE
      ELSE NoRule

(* RuleSet::get *)
Get(rs, path) ==
  LET glob == SelectInSeq(rs.globs, LAMBDA r : Applies(r, path))
      same == {r \in rs.exact : r.filename = Basename(path)}
  IN  IF same # {} THEN CHOOSE r \in same : TRUE
      ELSE IF glob # 0 THEN rs.globs[glob]
      ELSE NoRule

(* dispatch: whether the access policy refuses a read or a write. *)
Dispatch(access, isRead) ==
  ~(access = "DenyWrite" /\ isRead) /\ ~(access = "DenyRead" /\ ~isRead)
=============================================================================
