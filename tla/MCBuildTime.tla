----------------------------- MODULE MCBuildTime -----------------------------
(***************************************************************************)
(* The programs that run when the workspace is built, each on its own: the *)
(* test generator on small corpora, the risk-table generator on small      *)
(* directories, and the fold of a rating on the rules of two axes.         *)
(***************************************************************************)
EXTENDS TestGenerator, RiskTable, Rating

A == <<"a">>

(* One case in one group, with anything between its header and its end. *)
Pieces == {Text("t"), Empty, Dashes, ErrorDashes, EscapedDashes, CaseLine(A)}

OneCase ==
  {<<SuiteLine("1", A), GroupLine(<<" ", "a">>), CaseLine(A)>> \o input \o <<separator>> \o expected
     \o <<Dashes, Empty, Empty, last>> :
     input \in SeqOf(Pieces, 2), separator \in {Dashes, ErrorDashes},
     expected \in SeqOf(Pieces \cup {EscapedEquals}, 2), last \in {Empty, Hash}}

(* Two cases, the first with or without the lines that end it. *)
TwoCases ==
  {<<SuiteLine("2", A), GroupLine(A), CaseLine(A), Text("t"), first>> \o between
     \o <<CaseLine(<<"b">>), Text("u"), second, Text("m"), Dashes, Empty, Empty, Empty>> :
     first, second \in {Dashes, ErrorDashes, Equals},
     between \in {<<>>, <<Text("m"), Dashes, Empty>>, <<Dashes, Empty, Empty>>,
                  <<Empty, Dashes, Empty, Empty, Comment, GroupLine(<<"b">>)>>}}

Headers ==
  {SuiteLine("1", A), SuiteLine("", A), SuiteLine("x", A), SuiteLine("01", <<" ">>), [is |-> "suite_no_colon"], Empty}

Loose ==
  {<<h>> \o body : h \in Headers,
     body \in SeqOf({GroupLine(A), GroupLine(<<" ">>), GroupOpen, CaseLine(A), CaseLine(<<>>), Dashes, Text("t"),
                     Empty, Hash, HashTight, Comment}, 2)}

File(lines) == [is |-> "tests", lines |-> lines]

Suite(number, name, group, test) ==
  File(<<SuiteLine(number, name), GroupLine(group), CaseLine(test), Text("t"), Dashes, Dashes, Empty, Empty,
         CaseLine(test), Text("t"), ErrorDashes, Text("m"), Dashes, Empty, Empty, Empty>>)

Entries ==
  {Suite("1", A, A, A), Suite("01", <<"b">>, A, <<"1">>), Suite("2", <<"?">>, <<"A", "-", "b">>, <<"a", "?">>),
   Suite("2", A, <<"?">>, A), File(<<SuiteLine("2", A), Comment, Empty>>),
   [is |-> "other"], [is |-> "bad_stem"], [is |-> "unreadable"]}

MCCorpora ==
  {NoDirectory} \cup {[e1 |-> File(lines)] : lines \in OneCase \cup TwoCases \cup Loose} \cup [{"e1", "e2", "e3"} -> Entries]

-----------------------------------------------------------------------------
MCFold(spelling) == IF spelling = "-F" THEN "-f" ELSE spelling

Plain(spellings) == [spellings |-> spellings, value_rule |-> <<>>]
Unspelled == [spellings |-> <<>>, value_rule |-> <<[pattern |-> "("]>>]
Valued(pattern) == [spellings |-> <<"-v">>, value_rule |-> <<[pattern |-> pattern]>>]

Rule(flags, combos, operands) ==
  [combinable |-> FALSE, flags |-> flags, combos |-> combos, operands |-> operands]

NoRules == Rule(<<>>, <<>>, <<>>)

Rulesets ==
  {NoRules, Rule(<<Plain(<<"-f", "-g">>)>>, <<<<"-f">>>>, <<>>), Rule(<<Plain(<<"-f">>), Plain(<<"-F">>)>>, <<>>, <<>>),
   Rule(<<Valued("(")>>, <<>>, <<>>), Rule(<<Unspelled>>, <<>>, <<>>), Rule(<<Valued("^x$")>>, <<<<"-v", "-F">>>>, <<>>),
   Rule(<<Plain(<<"-v">>), Plain(<<"-v">>)>>, <<>>, <<[pattern |-> "("]>>)}

Sub(name, aliases, rules) == [name |-> name, aliases |-> aliases, rules |-> rules]

Declared(name, aliases, platform, grammar, sensitive, rules, subs) ==
  [name |-> name, aliases |-> aliases, platform |-> platform, grammar |-> grammar,
   case_sensitive |-> sensitive, rules |-> rules, subcommands |-> subs]

Simple(name, aliases, platform) == Declared(name, aliases, platform, "Gnu", TRUE, NoRules, <<>>)

Rich ==
  {Declared("git", <<>>, "GnuLinux", "Gnu", sensitive, rules, subs) :
     sensitive \in BOOLEAN, rules \in Rulesets,
     subs \in {<<>>} \cup {<<Sub("push", <<>>, r)>> : r \in Rulesets}
                \cup {<<Sub("push", <<"p">>, NoRules), Sub(n, <<>>, NoRules)>> : n \in {"p", "pull"}}}
  \cup {Declared("git", <<>>, "GnuLinux", "Go", TRUE, [NoRules EXCEPT !.combinable = TRUE],
                <<Sub("push", <<"push">>, NoRules)>>)}

Contents ==
  {Malformed} \cup
  {Dataset(commands) : commands \in
     {<<>>, <<Simple("ls", <<"dir">>, "GnuLinux")>>, <<Simple("dir", <<>>, "GnuLinux")>>,
      <<Simple("dir", <<"ls">>, "Bsd"), Simple("rm", <<"rm">>, "GnuLinux")>>,
      <<Declared("rm", <<>>, "Bsd", "Go", TRUE, [NoRules EXCEPT !.combinable = TRUE], <<>>)>>}}

Toml(name, content) == [name |-> name, is |-> "toml", content |-> content]
Other(name)         == [name |-> name, is |-> "other"]
Unreadable(name)    == [name |-> name, is |-> "unreadable"]
Dir(name, to)       == [name |-> name, is |-> "dir", to |-> to]

(* a, b, a-b, a.toml, b.toml and c.toml: "-" and "." sort before a slash. *)
Sub_a == <<4>>
Sub_b == <<5>>
Sub_ab == <<4, 1, 5>>
File_a == <<4, 2>>
File_b == <<5, 2>>
File_c == <<6, 2>>

MCTrees ==
  {NotADirectory, [root |-> {}], [root |-> {Dir(Sub_a, "root2"), Other(Sub_b)}, root2 |-> {}]}
  \cup {[root |-> {Toml(File_a, Dataset(<<c>>))}] : c \in Rich}
  \cup {[root |-> {Toml(File_a, c), Dir(Sub_a, "sub"), Other(Sub_b)}, sub |-> {Toml(File_a, d), Toml(File_b, e)}] :
           c, d, e \in Contents}
  \cup {[root |-> {Toml(File_c, c), Dir(Sub_a, "sub"), Dir(Sub_ab, "sub")}, sub |-> {Toml(File_a, d)}] :
           c, d \in Contents}
  \cup {[root |-> {Toml(File_a, c), Dir(Sub_b, "sub")}, sub |-> {Unreadable(File_a), Toml(File_b, c)}] : c \in Contents}

-----------------------------------------------------------------------------
Full == {r \in Rules : Unset \notin {r.patch[a] : a \in Axes}}

MCCases ==
  Patches \X ({{}} \cup {{q, r} : q, r \in Rules})
    \cup {[a \in Axes |-> Unset]} \X {{q, r, s} : q, r, s \in Full}

-----------------------------------------------------------------------------
NoTests  == corpus = NoDirectory /\ unread = {} /\ numbers = {} /\ modules = <<>> /\ outcome = "unused"
NoTable  == tree = NotADirectory /\ walk = <<>> /\ files = <<>> /\ table = <<>> /\ verdict = "unused"
NoRating == given = <<[a \in Axes |-> Unset], {}>> /\ applied = {} /\ profile = Baseline

Init ==
  \/ InitTests /\ NoTable /\ NoRating
  \/ NoTests /\ InitTable /\ NoRating
  \/ NoTests /\ NoTable /\ InitRating

Next ==
  \/ NextTests /\ UNCHANGED <<table_vars, rating_vars>>
  \/ NextTable /\ UNCHANGED <<gen_vars, rating_vars>>
  \/ NextRating /\ UNCHANGED <<gen_vars, table_vars>>

vars == <<gen_vars, table_vars, rating_vars>>

Spec == Init /\ [][Next]_vars
=============================================================================
