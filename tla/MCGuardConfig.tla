--------------------------- MODULE MCGuardConfig ---------------------------
(***************************************************************************)
(* File names over two letters, and layers of up to two rules that overlap *)
(* in every way the guard tells apart: the same name, a glob over an exact *)
(* name (after it and before it), globs of one file, a path, a pattern     *)
(* that does not compile, and the guard switched off and on.               *)
(***************************************************************************)
EXTENDS GuardConfig

MCAlphabet == <<"a", "b">>

Rule(filename, access) == [filename |-> filename, access |-> access]

Layer(switches, ruleSeq) == [tag |-> "layer", hooks |-> switches, rules |-> ruleSeq]

NoSwitch == << >>
Switch(on) == [n \in {Guard} |-> on]

MCBaseLayer ==
  Layer(NoSwitch, <<Rule(<<"a">>, "DenyAll"), Rule(<<"*", "b">>, "DenyAll")>>)

MCLayers == {
  Layer(NoSwitch, <<Rule(<<"a">>, "DenyRead"), Rule(<<"a", "/", "b">>, "DenyWrite")>>),
  Layer(Switch(FALSE), <<Rule(<<"b">>, "DenyWrite"), Rule(<<"*">>, "DenyRead")>>),
  Layer(Switch(TRUE), <<Rule(<<"*">>, "DenyWrite"), Rule(<<"b">>, "DenyAll")>>),
  Layer(NoSwitch, <<Rule(<<"[", "b">>, "DenyRead"), Rule(<<"a", "/", "*", "*">>, "DenyAll")>>),
  Layer(NoSwitch, <<Rule(<<"*", "b">>, "DenyWrite"), Rule(<<"a", "b">>, "DenyRead")>>),
  Layer(NoSwitch, <<Rule(<<"a", "*", "*">>, "DenyAll"),
                    Rule(<<"*", "*", "/", "b">>, "DenyWrite")>>)}

MCPaths == {<<"a">>, <<"b">>, <<"a", "b">>, <<"b", "b">>, <<"a", "/", "a">>, <<"a", "/", "b">>,
            <<"b", "/", "a", "b">>}

MCRootPath == <<"/", "a">>
=============================================================================
