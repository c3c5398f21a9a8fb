------------------------- MODULE MCPreCommitRunner -------------------------
(***************************************************************************)
(* Three texts: what the agent writes (raw), and two a hook can make of it *)
(* (half, clean).  The hooks between them skip, cannot be spawned, format, *)
(* undo one another, fail with and without touching the file, and make it  *)
(* unreadable.  Ids name the behaviour.                                    *)
(***************************************************************************)
EXTENDS PreCommitRunner

MCTexts == {"raw", "half", "clean"}

H(id, entry, always, files, exclude) ==
  [id |-> id, entry |-> entry, always_run |-> always, files |-> files, exclude |-> exclude]

P(id) == H(id, "present", FALSE, "absent", "absent")

(* Hook lists with every kind of skip, a pair that reverts, hooks that fail, *)
(* and one that destroys the file.                                           *)
Restless ==
  { <<H("format", "present", FALSE, "match", "fails"), H("undo", "present", TRUE, "miss", "match"),
      H("lint", "missing", FALSE, "absent", "miss")>>,
    <<H("lint", "absent", FALSE, "match", "absent"), P("fixOrFail"), P("lint")>>,
    <<H("undo", "present", FALSE, "invalid", "absent"), P("wreck"), P("wreck")>>,
    <<H("wreck", "present", FALSE, "match", "invalid"), P("format"),
      H("wreck", "present", FALSE, "fails", "absent")>> }

(* Hook lists whose programs only move raw -> half -> clean. *)
Settling ==
  { <<P("format"), P("polish"), P("lint")>>,
    <<P("polish"), P("fixOrFail"), H("lint", "missing", TRUE, "miss", "absent")>> }

MCConfigs == Restless \cup Settling

Does(text, ok) == [text |-> text, ok |-> ok]

MCEffect ==
  [id \in HookIds |-> [t \in MCTexts |->
     CASE id = "format"    -> {Does(IF t = "raw" THEN "half" ELSE t, TRUE)}
       [] id = "polish"    -> {Does(IF t = "half" THEN "clean" ELSE t, TRUE)}
       [] id = "undo"      -> {Does(IF t = "half" THEN "raw" ELSE t, TRUE)}
       [] id = "lint"      -> {Does(t, t = "clean")}
       [] id = "fixOrFail" -> {Does("clean", t = "clean"), Does(t, t = "clean")}
       [] OTHER            -> {Does(Unreadable, TRUE), Does(Unreadable, FALSE), Does(t, FALSE)}]]
=============================================================================
