----------------------------- MODULE MCStartup ------------------------------
(* Startup with two definitions, a profile, an executable and authz.json: in *)
(* a tree with at most one node that is not root's alone, or in a sound tree *)
(* with any template of up to three parts.                                   *)
EXTENDS Startup

X == <<"x">>
Y == <<"y">>

MCAbove == [n \in {"/", "etc", "consumers", "bin", "a.json", "b.json", "c.json", "p.json", "exe", "authz.json"} |->
              CASE n = "/" -> {}
                [] n \in {"etc", "bin"} -> {"/"}
                [] n \in {"consumers", "p.json", "authz.json"} -> {"/", "etc"}
                [] n \in {"a.json", "b.json", "c.json"} -> {"/", "etc", "consumers"}
                [] n = "exe" -> {"/", "bin"}]
MCNodes == DOMAIN MCAbove

MCDefPath == [d \in {"a", "b", "c"} |-> CASE d = "a" -> "a.json" [] d = "b" -> "b.json" [] d = "c" -> "c.json"]
MCProfilePath == [p \in {"p"} |-> "p.json"]
MCKeys == [k \in {<<"a", "o">>, <<"b", "o">>} |-> IF k[1] = "a" THEN {"origin"} ELSE {}]

MCValues == {<<>>, <<"a">>, <<"-">>, <<"$", "{", "y", "}">>, <<"nul">>}
MCInput(name) == [pattern |-> MCValues, maxLength |-> IF name = X THEN 0 ELSE 3,
                  optional |-> name = X, allowLeadingDash |-> name = Y]

\* x may be left out, y may begin with a dash.
Operation(parts, config) ==
    [argv |-> <<Spelling(parts)>>, meant |-> <<parts>>,
     inputs |-> [n \in placeholders(Spelling(parts)) |-> MCInput(n)],
     config |-> config, valuesOK |-> TRUE]

Definition(author, name, parts, config) ==
    [author |-> author, loads |-> TRUE, name |-> name, executable |-> "exe", profile |-> "p",
     operations |-> [o \in {"o"} |-> Operation(parts, config)]]
Plain(author, name) == Definition(author, name, <<Placeholder(X)>>, IF name = "a" THEN {"origin"} ELSE {})

Profile(author, reserved) == [author |-> author, loads |-> TRUE, reserved |-> reserved]
Granting(author, grants)  == [author |-> author, loads |-> TRUE, grants |-> grants]
Unparsable == [author |-> "root", loads |-> FALSE]
Binary(author) == [author |-> author, loads |-> FALSE]

Tree(a, b) ==
    [n \in MCNodes \ {"c.json"} |->
       Node(CASE n = "a.json" -> a [] n = "b.json" -> b
              [] n = "p.json" -> Profile("root", FALSE)
              [] n = "authz.json" -> Granting("root", {<<"alice", "a", "o">>})
              [] OTHER -> Binary("root"),
            "root", FALSE)]

\* File names and declared names: the same, swapped, one twice, one astray.
Namings == {<<"a", "b">>, <<"b", "a">>, <<"a", "a">>, <<"a", "c">>}
Sound   == {Tree(Plain("root", n[1]), Plain("root", n[2])) : n \in Namings}
Unsound == UNION {{[t EXCEPT ![n].owner = "other"], [t EXCEPT ![n].loose = TRUE]} :
                    t \in Sound, n \in MCNodes \ {"c.json"}}

Parts     == {Literal(c) : c \in {"a", "-", "$", "}"}} \cup {Placeholder(X), Placeholder(Y)}
Templates == UNION {[1 .. n -> Parts] : n \in 0 .. 3}
MCTrees   == Sound \cup Unsound
             \cup {Tree(Definition("root", "a", parts, {"origin"}), Plain("root", "b")) : parts \in Templates}

MCEdits == {<<"a.json", Definition("root", "a", <<>>, {})>>, <<"p.json", Profile("root", TRUE)>>,
            <<"authz.json", Granting("root", {<<"alice", "a", "ghost">>})>>,
            <<"authz.json", Unparsable>>}

MCForgeries == {<<"exe", Binary("other")>>, <<"exe", Binary("root")>>,
                <<"a.json", Plain("other", "a")>>, <<"a.json", Plain("root", "a")>>,
                <<"a.json", Plain("other", "b")>>, <<"b.json", Plain("other", "b")>>,
                <<"b.json", Plain("root", "b")>>,  <<"c.json", Plain("other", "c")>>,
                <<"p.json", Profile("other", FALSE)>>, <<"p.json", Profile("root", FALSE)>>,
                <<"authz.json", Granting("other", {<<"mallory", "a", "o">>})>>,
                <<"authz.json", Granting("root", {<<"alice", "a", "o">>})>>}

MCCalls == UNION {[names -> MCValues] : names \in SUBSET {X, Y}}
=============================================================================
