------------------------------ MODULE Verdict -------------------------------
(***************************************************************************)
(* What a hook pipeline promises whoever invoked it, with no word about    *)
(* stages: while it is open its verdict may only become more severe, and   *)
(* the verdict it holds when it closes is the one the caller sees.  It     *)
(* always closes, and a closed pipeline never speaks again.                *)
(*                                                                         *)
(* Severities:  0  no decision      1  allow      2  ask the user          *)
(*              3  final - deny, block, halt, or a permission behavior     *)
(* A pipeline may instead fail, and then gives no verdict at all.          *)
(***************************************************************************)
EXTENDS Integers

VARIABLES verdict, status

vars == <<verdict, status>>

Severity == 0 .. 3
Status   == {"idle", "open", "closed", "failed"}

Init == verdict = 0 /\ status = "idle"

Open == status = "idle" /\ status' = "open" /\ verdict' = verdict

(* A stage spoke; a final verdict closes the pipeline on the spot. *)
Raise(s) ==
  /\ status = "open"
  /\ s >= verdict
  /\ verdict' = s
  /\ status' = IF s = 3 THEN "closed" ELSE "open"

Close == status = "open" /\ verdict < 3 /\ status' = "closed" /\ verdict' = verdict

Fail == status = "open" /\ status' = "failed" /\ verdict' = 0

Next == Open \/ (\E s \in Severity : Raise(s)) \/ Close \/ Fail

Spec == Init /\ [][Next]_vars /\ (status = "open" ~> status # "open")
=============================================================================
