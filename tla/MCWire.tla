------------------------------- MODULE MCWire -------------------------------
(***************************************************************************)
(* Every output of every kind a driver can receive, filled one field at a  *)
(* time, against the answer it becomes.                                    *)
(***************************************************************************)
EXTENDS Wire

VARIABLES driver, output, content

Init ==
  /\ driver \in Driver
  /\ output \in {[kind |-> k, decision |-> None, halt |-> None, behavior |-> None] :
                   k \in Receivable(driver)}
  /\ content = {}

Decide ==
  /\ output.kind \in Carrying("decision")
  /\ \E d \in Decision : output' = [output EXCEPT !.decision = d]
  /\ UNCHANGED <<driver, content>>

Halt ==
  /\ output.kind \in Carrying("halt")
  /\ \E h \in {"true", "false"} : output' = [output EXCEPT !.halt = h]
  /\ UNCHANGED <<driver, content>>

Permit ==
  /\ output.kind \in Carrying("behavior")
  /\ \E b \in PermissionBehavior : output' = [output EXCEPT !.behavior = b]
  /\ UNCHANGED <<driver, content>>

Fill ==
  /\ \E f \in OutputFields[output.kind] \ {"decision", "halt", "behavior", "exit_code"} :
       content' = content \cup {f}
  /\ UNCHANGED <<driver, output>>

Next == Decide \/ Halt \/ Permit \/ Fill

Spec == Init /\ [][Next]_<<driver, output, content>>

wire == ToWire(driver, output, content)

(* A refusal survives the driver, and only a refusal reads as one: for every *)
(* event a driver can receive, the host holds the action back exactly when   *)
(* the output denies, blocks or halts, although Claude's answer has no word  *)
(* for Deny outside PreToolUse and Gemini's none for a permission behavior   *)
(* (map_output of both drivers).                                             *)
RefusalSurvives == Refuses(wire) <=> IsRefusal(output)

(* What a stage gives Claude's model to read or use in place of the original *)
(* - context, rewritten input, replaced output - is in the answer for every  *)
(* kind of event whose output can hold it (ClaudeHookSpecificOutput has a    *)
(* variant for each of them); a PermissionRequest needs a behavior for it.   *)
ContentReachesClaude ==
  driver = "claude" /\ (output.kind = "PermissionRequest" => output.behavior # None) =>
    content \cap {"additional_context", "updated_input", "updated_tool_output",
                  "replacement_text", "worktree_path", "response", "reason",
                  "system_message"}
      \subseteq wire.carried
=============================================================================
