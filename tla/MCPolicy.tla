------------------------------ MODULE MCPolicy ------------------------------
(* Policy over small vocabularies: two references below one prefix and one   *)
(* beside it, three labels, every mode, agents, and two instants.            *)
EXTENDS Policy, FiniteSets

Matcher == INSTANCE Match WITH Star <- "*", Question <- "?"

MCStar == <<"*">>
MCEmpty == <<>>
MCGet == <<"g">>
MCExec == <<"e">>
MCMount == <<"m">>

a1 == <<"a", "1">>
a2 == <<"a", "2">>
as == <<"a", "*">>
b == <<"b">>
x == <<"x">>
y == <<"y">>

MCRefs == {a1, a2, b}
MCLabels == {MCEmpty, x, y}
MCPatterns == {a1, as, b, x, y, MCStar}

Strings == MCRefs \cup MCLabels \cup MCPatterns \cup {MCGet, MCExec, MCMount}
Table == [pair \in Strings \X Strings |-> Matcher!WildcardMatch(pair[1], pair[2])]
MCGlob(p, s) == Table[<<p, s>>]

\* Monday the 1st at noon and Tuesday the 15th at midnight.
At(w, m, t) == [weekday |-> w, monthday |-> m, minute |-> t]
MCDays == {"mon", "tue"}
MCTimes == {At("mon", 1, 720), At("tue", 15, 0)}

Of(allow, agents, secrets, ids, modes) ==
    [allow |-> allow, denyAgents |-> agents, secrets |-> secrets, identities |-> ids,
     modes |-> modes, weekdays |-> <<>>, monthdays |-> <<>>, hours |-> <<>>]

Denials == {Of(FALSE, FALSE, s, i, {}) : s \in {{a1}, {as}}, i \in {{x}, {}}}
           \cup {Of(FALSE, FALSE, s, {x}, DefaultModes) : s \in {{a1}, {b}}}
Grantings == {Of(TRUE, FALSE, {as}, {MCStar}, m) : m \in {{MCGet}, DefaultModes}}
             \cup {Of(TRUE, FALSE, s, {x}, DefaultModes) : s \in {{a1}, {as}}}
             \cup {Of(TRUE, FALSE, {a1}, {x, y}, {MCGet})}
AgentDenials == {Of(TRUE, TRUE, {a1}, {x}, {}), Of(TRUE, TRUE, {as}, {}, {})}
Timed == {[Of(FALSE, FALSE, {a1}, {x}, {}) EXCEPT !.weekdays = <<"mon">>],
          [Of(TRUE, TRUE, {as}, {x}, {}) EXCEPT !.monthdays = <<2, 15>>],
          [Of(FALSE, TRUE, {as}, {x}, {}) EXCEPT !.hours = <<1380, 360>>],
          [Of(TRUE, FALSE, {a1}, {}, {MCGet}) EXCEPT !.hours = <<540, 1020>>]}
MCRules == Denials \cup Grantings \cup AgentDenials \cup Timed

\* Every policy of up to two rules; a grant makes a third.
MCWritten == UNION {[1 .. n -> MCRules] : n \in 0 .. 2}
MCCandidates == {<<r>> : r \in MCRules}

Asked(s, i, m, d) ==
    [secrets |-> s, identities |-> i, modes |-> m, weekdays |-> d, monthdays |-> <<>>, hours |-> <<>>]
MCGrants == {Asked({a1}, {x}, m, <<>>) : m \in {{}, {MCGet}}}
            \cup {Asked({as}, i, {}, <<>>) : i \in {{x}, {MCStar}}}
            \cup {Asked({as}, {MCStar}, {MCGet}, <<>>), Asked({a1, b}, {x}, {}, <<>>)}
            \cup {Asked({a1}, {x}, {}, <<"mon">>), Asked({}, {x}, {}, <<>>)}

\* The vocabulary is one for which coverage and overlap by text are exact.
ASSUME VocabularyNested == TextTransitive /\ TextReflexive /\ OverlapNested /\ StarMatchesLabels
=============================================================================
