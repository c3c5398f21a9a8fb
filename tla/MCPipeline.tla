----------------------------- MODULE MCPipeline -----------------------------
(***************************************************************************)
(* Three stages that share the PreToolUse bucket (one for every tool, one  *)
(* for Bash, one for Bash and Read), two permission stages, and a stage    *)
(* for an event that carries no tool name.                                 *)
(***************************************************************************)
EXTENDS Pipeline

MCStages == {"rewrite", "guard", "audit", "grant", "revoke", "greet"}

MCHook ==
  [s \in MCStages |-> CASE s \in {"grant", "revoke"} -> "PermissionRequest"
                        [] s = "greet"               -> "SessionStart"
                        [] OTHER                     -> "PreToolUse"]

MCToolNames ==
  [s \in MCStages |-> CASE s = "rewrite" -> {"Bash"}
                        [] s = "guard"   -> {"Bash", "Read"}
                        [] OTHER         -> {"*"}]

Out(s, d, h, b) ==
  [tag |-> "output", kind |-> MCHook[s], decision |-> d, halt |-> h, behavior |-> b,
   by |-> s]

MCReplies ==
  [s \in MCStages |-> {Nothing, Error} \cup
     CASE MCHook[s] = "PermissionRequest" ->
            {Out(s, None, None, b) : b \in PermissionBehavior \cup {None}}
       [] MCHook[s] = "SessionStart" -> {Out(s, None, None, None)}
       [] OTHER ->
            {Out(s, d, h, None) : d \in Decision \cup {None}, h \in {None, "true"}}
            \cup {Out(s, "Allow", "false", None)}]
=============================================================================
