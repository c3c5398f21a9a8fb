---------------------------- MODULE GuardConfig ----------------------------
(***************************************************************************)
(* src/config: the layers of inceptool.toml merged into one Config, and    *)
(* the read-write guard (crates/stages/src/read_write_guard/stage.rs) that *)
(* answers one PreToolUse event from it.                                   *)
(*                                                                         *)
(* Every invocation of the program loads the configuration anew: the       *)
(* embedded base layer, then the user's, then that of the repository root, *)
(* then that of the working directory.                                     *)
(***************************************************************************)
EXTENDS RuleSets

CONSTANTS
  BaseLayer,  \* the embedded base.toml
  Layers,     \* what an inceptool.toml may hold
  Places,     \* where the process may be started: see Place
  RootPath,   \* the working directory of the repository
  Paths,      \* the files, as paths below it
  StageNames  \* the stages a layer may switch

(* A file that is not there, and one that cannot be read or parsed. *)
Missing   == [tag |-> "missing"]
Malformed == [tag |-> "malformed"]

IsLayer(f) == f.tag = "layer"

(* root: in a repository, at the path git reports for it; alias: the same    *)
(* directory under another name; below: in a repository, elsewhere.          *)
Place == {"no_cwd", "no_repo", "root", "alias", "below"}

HasRoot(at) == at \in {"root", "alias", "below"}

(* ReadWriteGuardStage::name *)
Guard == "read-write-guard"

ASSUME LayersAssumption ==
  \A l \in Layers \cup {BaseLayer} :
    /\ IsLayer(l)
    /\ DOMAIN l.hooks \subseteq StageNames /\ l.hooks \in [DOMAIN l.hooks -> BOOLEAN]
    /\ l.rules \in Seq(GuardRule)

ASSUME PlacesAssumption == Places \subseteq Place

ASSUME PathsAssumption ==
  /\ Paths \subseteq Seq(Letters \cup {"/"}) /\ \A path \in Paths : path # << >> /\ path[1] # "/"
  /\ RootPath \in Seq(Letters \cup {"/"}) /\ RootPath # << >> /\ RootPath[1] = "/"

VARIABLES
  disk,   \* the inceptool.toml of the user, of the root and of the cwd
  place,  \* where the process was started
  pc,     \* the next layer to load, then "ready" and "served"
  hooks,  \* Config::hooks
  rules,  \* Config::read_write_guard_rules
  root,   \* Config::repo_root is known
  answer, \* what the run gave: the guard stage's output, or the printed layer
  merged  \* history: the layers merged so far

vars == <<disk, place, pc, hooks, rules, root, answer, merged>>

-----------------------------------------------------------------------------
(* The entries of both maps, those of the second where they share a key. *)
Overlay(old, new) ==
  [n \in DOMAIN old \cup DOMAIN new |-> IF n \in DOMAIN new THEN new[n] ELSE old[n]]

(* Fault: the layers are chained the wrong way round. *)
Merge_OldLast(old, new) == FromIter(IntoIter(FromIter(new)) \o IntoIter(old))

(* Fault: each rule of the layer is added to the set as it stands. *)
Merge_NoFold(old, new) ==
  [exact |-> old.exact \cup FromIter(new).exact, globs |-> old.globs \o FromIter(new).globs]

(* Config::merge, of the rules: both sets are folded again, the later layer  *)
(* resolved by itself first (TryFrom<RawConfig>).                            *)
Merge(old, new) == FromIter(IntoIter(old) \o IntoIter(FromIter(new)))

(* merge_layer_at: a layer that is missing or malformed changes nothing. *)
MergeLayerAt(file) ==
  IF IsLayer(file)
  THEN /\ hooks' = Overlay(hooks, file.hooks)
       /\ rules' = Merge(rules, file.rules)
       /\ merged' = Append(merged, file)
  ELSE UNCHANGED <<hooks, rules, merged>>

(* Fault: the root is cut off as a string, and a separator if one follows. *)
RepoRelative_StringPrefix(path) ==
  IF root /\ IsPrefix(RootPath, path)
  THEN LET rest == SubSeq(path, Len(RootPath) + 1, Len(path))
       IN  IF rest # << >> /\ rest[1] = "/" THEN Tail(rest) ELSE rest
  ELSE path

(* repo_relative: the root is cut off by components. *)
RepoRelative(path) ==
  IF /\ root /\ IsPrefix(RootPath, path)
     /\ Len(path) = Len(RootPath) \/ path[Len(RootPath) + 1] = "/"
  THEN SubSeq(path, Len(RootPath) + 2, Len(path))
  ELSE path

(* is_hook_enabled *)
IsHookEnabled(name) == name \in DOMAIN hooks => hooks[name]

(* ReadWriteGuardStage::run, of an event that names a file; the stage is     *)
(* registered only if it is enabled.                                         *)
Respond(path, isRead) ==
  LET rule == Get(rules, RepoRelative(path))
  IN  IF IsHookEnabled(Guard) /\ rule # NoRule /\ Dispatch(rule.access, isRead)
      THEN "Deny" ELSE "nothing"

-----------------------------------------------------------------------------
Unasked == [result |-> "none"]

(* Where there is no directory there is no file; root and alias read one     *)
(* file by both names.                                                       *)
Readable(files, at) ==
  /\ ~HasRoot(at) => files["root"] = Missing
  /\ at = "no_cwd" => files["cwd"] = Missing
  /\ at \in {"root", "alias"} => files["cwd"] = files["root"]

Init ==
  /\ place \in Places
  /\ disk \in [{"user", "root", "cwd"} -> Layers \cup {Missing, Malformed}]
  /\ Readable(disk, place)
  /\ pc = "base"
  /\ hooks = << >>
  /\ rules = FromIter(<< >>)
  /\ root = FALSE
  /\ answer = Unasked
  /\ merged = << >>

LoadBase ==
  /\ pc = "base" /\ pc' = "user"
  /\ MergeLayerAt(BaseLayer)
  /\ UNCHANGED <<disk, place, root, answer>>

LoadUser ==
  /\ pc = "user" /\ pc' = "root"
  /\ MergeLayerAt(disk["user"])
  /\ UNCHANGED <<disk, place, root, answer>>

(* The repository is discovered; its root's layer is merged if there is one. *)
LoadRoot ==
  /\ pc = "root" /\ pc' = "cwd"
  /\ root' = HasRoot(place)
  /\ IF root' THEN MergeLayerAt(disk["root"]) ELSE UNCHANGED <<hooks, rules, merged>>
  /\ UNCHANGED <<disk, place, answer>>

(* The working directory's layer, unless its path equals the root's. *)
LoadCwd ==
  /\ pc = "cwd" /\ pc' = "ready"
  /\ IF place \in {"no_repo", "alias", "below"} THEN MergeLayerAt(disk["cwd"])
     ELSE UNCHANGED <<hooks, rules, merged>>
  /\ UNCHANGED <<disk, place, root, answer>>

(* The guard stage is run on a PreToolUse event. *)
Serve ==
  /\ pc = "ready" /\ pc' = "served"
  /\ \E path \in Paths, isRead \in BOOLEAN :
       answer' = [path |-> path, isRead |-> isRead, result |-> Respond(path, isRead)]
  /\ UNCHANGED <<disk, place, hooks, rules, root, merged>>

(* The event names no file, or its tool input does not parse. *)
ServeOther ==
  /\ pc = "ready" /\ pc' = "served"
  /\ \E r \in {"nothing"} \cup (IF IsHookEnabled(Guard) THEN {"error"} ELSE {}) :
       answer' = [result |-> r]
  /\ UNCHANGED <<disk, place, hooks, rules, root, merged>>

(* inceptool config: the configuration is printed as a layer. *)
ShowConfig ==
  /\ pc = "ready" /\ pc' = "shown"
  /\ answer' = [result |-> "shown", hooks |-> hooks, rules |-> IntoIter(rules)]
  /\ UNCHANGED <<disk, place, hooks, rules, root, merged>>

Next == LoadBase \/ LoadUser \/ LoadRoot \/ LoadCwd \/ Serve \/ ServeOther \/ ShowConfig

Spec == Init /\ [][Next]_vars

-----------------------------------------------------------------------------
(* The rules of several layers, as they are written, one after the other. *)
Written(layers) == FlattenSeq([i \in DOMAIN layers |-> layers[i].rules])

(* Merging resolved layers one by one gives what one fold over all the       *)
(* rules, as written from the base layer to the last, gives: layering order  *)
(* is preserved end to end although every merge takes the set apart and      *)
(* hands the rules over in another order than they were written in.          *)
MergeIsOneFold == rules = FromIter(Written(merged))

(* What `inceptool config` prints, saved as the one layer over the embedded  *)
(* base, gives the configuration it was printed from: no rule of the base    *)
(* that a layer replaced or covered comes back.                              *)
ShownConfigReloads ==
  pc = "shown" =>
    /\ Merge(FromIter(BaseLayer.rules), answer.rules) = rules
    /\ Overlay(BaseLayer.hooks, answer.hooks) = hooks

(* A working directory that is the repository root under another name has    *)
(* its layer merged twice, which gives what merging it once gives.           *)
RereadHarmless ==
  place = "alias" /\ pc = "ready" /\ IsLayer(disk["cwd"]) =>
    rules = FromIter(Written(SubSeq(merged, 1, Len(merged) - 1)))

LastLayer == merged[Len(merged)]

(* The layer loaded last has the last word on a file it names.  If it        *)
(* switches the guard off nothing is refused; otherwise its exact rule for   *)
(* the file's basename is the one the answer follows, and its glob for that  *)
(* basename leaves no exact rule of an earlier layer in force.               *)
LastLayerDecides ==
  pc = "served" /\ "path" \in DOMAIN answer =>
    LET name == Basename(answer.path)
        last == FromIter(LastLayer.rules)
    IN  IF Guard \in DOMAIN LastLayer.hooks /\ ~LastLayer.hooks[Guard]
        THEN answer.result = "nothing"
        ELSE /\ \A r \in last.exact : r.filename = name /\ IsHookEnabled(Guard) =>
                  answer.result = IF Dispatch(r.access, answer.isRead) THEN "Deny" ELSE "nothing"
             /\ (\E i \in DOMAIN last.globs : Matches(last.globs[i].filename, name)) =>
                  \A r \in rules.exact : r.filename = name => r \in last.exact

(* A rule with a path means the same file however the tool reports it: the   *)
(* answer for a file of the repository is the same for its absolute path and *)
(* for its path below the root, and the rule that answers for a file of a    *)
(* sibling directory whose name only begins like the root's is none that is  *)
(* anchored below the root.                                                  *)
AnchoredAtRoot ==
  pc = "ready" /\ root =>
    \A path \in Paths :
      /\ Get(rules, RepoRelative(RootPath \o <<"/">> \o path)) = Get(rules, path)
      /\ LET r == Get(rules, RepoRelative(RootPath \o path))
         IN  Occurs("/", r.filename) => r.filename[1] \notin Letters

-----------------------------------------------------------------------------
(* p matches fewer of the files than q. *)
Narrower(p, q) ==
  LET matched(r) == {path \in Paths : Matches(r, Candidate(r, path))}
  IN  matched(p) \subseteq matched(q) /\ matched(p) # matched(q)

(* Documented for RuleSet::get: when more than one pattern matches the same  *)
(* file, the narrowest one wins.  Stated of the glob rules.                  *)
NarrowestGlobWins ==
  pc = "ready" => \A path \in Paths : \A i \in DOMAIN rules.globs :
    Applies(rules.globs[i], path) /\ Get(rules, path) \notin rules.exact =>
      ~Narrower(rules.globs[i].filename, Get(rules, path).filename)
=============================================================================
