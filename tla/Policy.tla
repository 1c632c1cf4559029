------------------------------- MODULE Policy -------------------------------
(***************************************************************************)
(* The rules of policy.json (internal/policy): which rule decides a        *)
(* request, what the analyses say of a rule list, where a grant is placed, *)
(* what the authorization delta reports, and the commands that change the  *)
(* list when none of that objects (cmd/parzival/grant.go).                 *)
(*                                                                         *)
(* The commands are one step each: PolicyEdit has their interleavings and  *)
(* their files.  A pattern list is a set, {} standing for "no condition";  *)
(* the lists the code compares element by element are sequences.  A        *)
(* weekday has one spelling.  Indices are from 1, and 0 is no rule.        *)
(***************************************************************************)
EXTENDS Integers, Sequences

CONSTANTS
  Glob(_, _),            \* wildcardMatch: whether a pattern matches a string (module Match)
  Patterns,              \* what secrets and identities conditions may hold
  Refs, Labels, Times,   \* what requests carry; a label may be Empty
  Star, Empty,           \* the pattern "*" and the empty string
  ModeGet, ModeExec, ModeMount,
  Days,                  \* weekdays
  Written,               \* the policies an editor may have left in the file
  Candidates,            \* the files `policy apply` is given
  Grants,                \* the GrantRequests of `policy grant`
  MaxRules               \* bound: rules in a policy

Modes == {ModeGet, ModeExec, ModeMount}
DefaultModes == {ModeExec, ModeMount}
Minutes == 0 .. 1439

Rule == [allow      : BOOLEAN,
         denyAgents : BOOLEAN,
         secrets    : SUBSET Patterns,
         identities : SUBSET Patterns,
         modes      : SUBSET Modes,
         weekdays   : Seq(Days),
         monthdays  : Seq(1 .. 31),
         hours      : {<<>>} \cup (Minutes \X Minutes)]

GrantRequest == [secrets : SUBSET Patterns, identities : SUBSET Patterns, modes : SUBSET Modes,
                 weekdays : Seq(Days), monthdays : Seq(1 .. 31),
                 hours : {<<>>} \cup (Minutes \X Minutes)]

\* Parse and validate refuse every other file.
Loads(p) == p \in Seq(Rule)

ASSUME MatcherDecides ==
    \A p \in Patterns \cup Modes, s \in Patterns \cup Refs \cup Labels \cup Modes :
        Glob(p, s) \in BOOLEAN
ASSUME PoliciesLoad   == \A p \in Written \cup Candidates : Loads(p)
ASSUME GrantsTyped    == Grants \subseteq GrantRequest
ASSUME TimesTyped     == Times \subseteq [weekday : Days, monthday : 1 .. 31, minute : Minutes]
ASSUME MaxRulesValid  == MaxRules \in Nat

\* What may be asked of a policy.
Requests == [ref : Refs, identity : Labels, mode : Modes, agent : BOOLEAN, time : Times]

(***************************************************************************)
(* Evaluation.                                                             *)
(***************************************************************************)
AnyWildcard(patterns, s) == \E p \in patterns : Glob(p, s)
InList(list, x) == \E i \in DOMAIN list : list[i] = x

\* Both ends are included, and a window that starts later than it ends wraps
\* past midnight.
HoursMatch(hours, minute) ==
    IF hours[1] <= hours[2] THEN hours[1] <= minute /\ minute <= hours[2]
    ELSE hours[1] <= minute \/ minute <= hours[2]

Matches(rule, r) ==
    /\ rule.secrets # {} => AnyWildcard(rule.secrets, r.ref)
    /\ rule.identities # {} => AnyWildcard(rule.identities, r.identity)
    /\ rule.modes # {} => AnyWildcard(rule.modes, r.mode)
    /\ rule.weekdays # <<>> => InList(rule.weekdays, r.time.weekday)
    /\ rule.monthdays # <<>> => InList(rule.monthdays, r.time.monthday)
    /\ rule.hours # <<>> => HoursMatch(rule.hours, r.time.minute)

Outcome(rule, agent) == rule.allow /\ ~(agent /\ rule.denyAgents)

\* The first matching rule decides.
Decides(p, r, i) ==
    /\ i \in DOMAIN p
    /\ Matches(p[i], r)
    /\ \A j \in 1 .. i - 1 : ~Matches(p[j], r)

\* decide, which the delta and the what-if commands call.
Allowed(p, r) == \E i \in DOMAIN p : Decides(p, r, i) /\ Outcome(p[i], r.agent)

\* Evaluate, which authorizes: a loop of its own, with two ways to refuse.
Evaluate(p, r) ==
    LET refuses(i) == p[i].allow /\ ~Outcome(p[i], r.agent)
    IN  [allow |-> \E i \in DOMAIN p : Decides(p, r, i) /\ ~refuses(i) /\ p[i].allow,
         agentDenied |-> \E i \in DOMAIN p : Decides(p, r, i) /\ refuses(i)]

(***************************************************************************)
(* Near misses.                                                            *)
(***************************************************************************)
NearMisses(p, r) ==
    {i \in DOMAIN p : (p[i].secrets = {} \/ AnyWildcard(p[i].secrets, r.ref)) /\ ~Matches(p[i], r)}

If(condition, why) == IF condition THEN {why} ELSE {}

\* NearMissReasons, without the day of the month.
NearMissReasonsFewer(rule, r) ==
    If(rule.identities # {} /\ ~AnyWildcard(rule.identities, r.identity), "identity")
    \cup If(rule.modes # {} /\ ~AnyWildcard(rule.modes, r.mode), "mode")
    \cup If(rule.weekdays # <<>> /\ ~InList(rule.weekdays, r.time.weekday), "weekday")
    \cup If(rule.hours # <<>> /\ ~HoursMatch(rule.hours, r.time.minute), "hours")

NearMissReasons(rule, r) ==
    If(rule.identities # {} /\ ~AnyWildcard(rule.identities, r.identity), "identity")
    \cup If(rule.modes # {} /\ ~AnyWildcard(rule.modes, r.mode), "mode")
    \cup If(rule.weekdays # <<>> /\ ~InList(rule.weekdays, r.time.weekday), "weekday")
    \cup If(rule.monthdays # <<>> /\ ~InList(rule.monthdays, r.time.monthday), "monthday")
    \cup If(rule.hours # <<>> /\ ~HoursMatch(rule.hours, r.time.minute), "hours")

(***************************************************************************)
(* Coverage and overlap, decided by matching patterns with patterns.       *)
(***************************************************************************)
\* PatternsCover, satisfied with one inner pattern.
PatternsCoverSome(outer, inner) ==
    outer = {} \/ \E p \in inner : AnyWildcard(outer, p)

PatternsCover(outer, inner) ==
    outer = {} \/ (inner # {} /\ \A p \in inner : AnyWildcard(outer, p))

Scheduled(rule) == rule.weekdays # <<>> \/ rule.monthdays # <<>> \/ rule.hours # <<>>
TimeCovers(outer, inner) ==
    ~Scheduled(outer) \/ /\ outer.weekdays = inner.weekdays
                         /\ outer.monthdays = inner.monthdays
                         /\ outer.hours = inner.hours

RuleCovers(outer, inner) ==
    /\ PatternsCover(outer.secrets, inner.secrets)
    /\ PatternsCover(outer.identities, inner.identities)
    /\ PatternsCover(outer.modes, inner.modes)
    /\ TimeCovers(outer, inner)

\* SecretsOverlap, with the patterns of a matched with those of b only.
SecretsOverlapOneWay(a, b) ==
    a = {} \/ b = {} \/ \E x \in a, y \in b : Glob(x, y)

SecretsOverlap(a, b) ==
    a = {} \/ b = {} \/ \E x \in a, y \in b : Glob(x, y) \/ Glob(y, x)

ListsMeet(a, b) == a = <<>> \/ b = <<>> \/ \E i \in DOMAIN a : InList(b, a[i])
SchedulesMayOverlap(a, b) == ListsMeet(a.weekdays, b.weekdays) /\ ListsMeet(a.monthdays, b.monthdays)

RulesIntersect(a, b) ==
    /\ SecretsOverlap(a.secrets, b.secrets)
    /\ SecretsOverlap(a.identities, b.identities)
    /\ SecretsOverlap(a.modes, b.modes)
    /\ SchedulesMayOverlap(a, b)

(***************************************************************************)
(* Analyze and Check: each finding is the set of rules, or of pairs of     *)
(* rules, it is about.                                                     *)
(***************************************************************************)
\* compareOutcomes, without the agent's context.
OutcomesDifferPlain(a, b) == Outcome(a, FALSE) # Outcome(b, FALSE)

\* compareOutcomes: in either context.
OutcomesDiffer(a, b) == \E agent \in BOOLEAN : Outcome(a, agent) # Outcome(b, agent)

\* The first rule before i that covers it is j.
CoveredBefore(p, i, j) ==
    /\ j \in 1 .. i - 1 /\ RuleCovers(p[j], p[i])
    /\ \A k \in 1 .. j - 1 : ~RuleCovers(p[k], p[i])

Covered(p) == {c \in (DOMAIN p) \X (DOMAIN p) : CoveredBefore(p, c[1], c[2])}
Redundant(p) == {c \in Covered(p) : ~OutcomesDiffer(p[c[2]], p[c[1]])}
Unreachable(p) == {c \in Covered(p) : OutcomesDiffer(p[c[2]], p[c[1]])}

Shadows(p) ==
    {c \in (DOMAIN p) \X (DOMAIN p) :
        /\ c[1] < c[2]
        /\ OutcomesDiffer(p[c[1]], p[c[2]])
        /\ ~RuleCovers(p[c[1]], p[c[2]])
        /\ RulesIntersect(p[c[1]], p[c[2]])}

\* Rules that refuse agents, but only under the labels they name.
IdentityScoped(p) ==
    {i \in DOMAIN p : /\ p[i].denyAgents /\ p[i].allow
                      /\ p[i].identities # {} /\ Star \notin p[i].identities}

PermitsGet(rule) == rule.modes = {} \/ AnyWildcard(rule.modes, ModeGet)
GetOpen(p) == {i \in DOMAIN p : p[i].allow /\ PermitsGet(p[i])}

\* The labels that reach a raw get somewhere.
GetLabels(p) ==
    UNION {IF p[i].identities = {} THEN {Star} ELSE p[i].identities : i \in GetOpen(p)}

\* IdentitiesSubsumed, for an open rule that shares a label.
IdentitiesMeet(open, restricted) ==
    open # {} /\ restricted # {} /\ \E o \in open : AnyWildcard(restricted, o)

IdentitiesSubsumed(open, restricted) ==
    open # {} /\ restricted # {} /\ \A o \in open : AnyWildcard(restricted, o)

RestrictsGet(rule) == rule.allow /\ rule.modes # {} /\ ~PermitsGet(rule)
Weakened(p) ==
    {c \in (DOMAIN p) \X GetOpen(p) :
        /\ RestrictsGet(p[c[1]])
        /\ c[1] # c[2]
        /\ SecretsOverlap(p[c[1]].secrets, p[c[2]].secrets)
        /\ ~IdentitiesSubsumed(p[c[2]].identities, p[c[1]].identities)}

\* Analysis.Errors: what refuses a candidate.
NoErrors(p) == Unreachable(p) = {} /\ Weakened(p) = {}

(***************************************************************************)
(* Building a grant and placing it.                                        *)
(***************************************************************************)
\* A grant names secrets and identities, and never means get by default.
Buildable(g) == g.secrets # {} /\ g.identities # {}
BuildGrantRule(g) ==
    [allow |-> TRUE, denyAgents |-> FALSE,
     secrets |-> g.secrets, identities |-> g.identities,
     modes |-> IF g.modes = {} THEN DefaultModes ELSE g.modes,
     weekdays |-> g.weekdays, monthdays |-> g.monthdays, hours |-> g.hours]

\* The existing rules that overlap the proposal and decide the other way.
Opposed(p, rule) == {i \in DOMAIN p : p[i].allow # rule.allow /\ RulesIntersect(p[i], rule)}
BlockedBy(p, rule) == {i \in Opposed(p, rule) : RuleCovers(p[i], rule)}
WouldBlock(p, rule) == {i \in Opposed(p, rule) \ BlockedBy(p, rule) : RuleCovers(rule, p[i])}
Ambiguous(p, rule) == Opposed(p, rule) \ (BlockedBy(p, rule) \cup WouldBlock(p, rule))

\* Placement, that lets the proposal stand above what it overlaps in part.
PlacementAnyway(p, rule, at) ==
    /\ at = 1 \/ at - 1 \in WouldBlock(p, rule)
    /\ \A i \in WouldBlock(p, rule) : i < at
    /\ \A i \in BlockedBy(p, rule) : at <= i

\* AnalyzeRuleInsertion without an error: the lowest index is at, right below the
\* last rule the proposal would leave dead, and not below one that covers it.
Placement(p, rule, at) ==
    /\ Ambiguous(p, rule) = {}
    /\ at = 1 \/ at - 1 \in WouldBlock(p, rule)
    /\ \A i \in WouldBlock(p, rule) : i < at
    /\ \A i \in BlockedBy(p, rule) : at <= i

\* InsertRule, over the rule that is there.
InsertRuleOver(p, rule, at) ==
    [i \in 1 .. (IF at > Len(p) THEN at ELSE Len(p)) |-> IF i = at THEN rule ELSE p[i]]

InsertRule(p, rule, at) ==
    [i \in 1 .. Len(p) + 1 |->
        IF i < at THEN p[i] ELSE IF i = at THEN rule ELSE p[i - 1]]

(***************************************************************************)
(* The authorization delta.                                                *)
(***************************************************************************)
RulesOf(p) == {p[i] : i \in DOMAIN p}
RuleProbes(rule) ==
    [ref : IF rule.secrets = {} THEN {Star} ELSE rule.secrets,
     identity : IF rule.identities = {} THEN {Empty} ELSE rule.identities,
     mode : IF rule.modes = {} THEN Modes ELSE rule.modes,
     agent : {FALSE}]

\* Every reference, identity and mode the rules name, and the extra probes', in
\* an agent's context too where that can matter.
ProbeSet(rules, extra) ==
    LET refs == UNION {rule.secrets : rule \in rules} \cup {e.ref : e \in extra}
        ids  == {Empty} \cup UNION {rule.identities : rule \in rules} \cup {e.identity : e \in extra}
    IN  [ref : IF refs = {} THEN {Star} ELSE refs, identity : ids, mode : Modes,
         agent : IF \E rule \in rules : rule.denyAgents THEN BOOLEAN ELSE {FALSE}] \cup extra

RequestAt(probe, now) ==
    [ref |-> probe.ref, identity |-> probe.identity, mode |-> probe.mode,
     agent |-> probe.agent, time |-> now]

Moved(old, new, r) == Allowed(old, r) # Allowed(new, r)
Changes(old, new, probes, now) == {c \in probes : Moved(old, new, RequestAt(c, now))}

\* Unexpected, that lets an agent's context go with the plain one.
UnexpectedPlain(old, new, probes, want, now) ==
    {c \in Changes(old, new, probes, now) : [c EXCEPT !.agent = FALSE] \notin want}

\* What moved and was not asked for.  An agent's probe that moved the way its
\* plain counterpart did, which was asked for, is part of it.
Unexpected(old, new, probes, want, now) ==
    LET changes == Changes(old, new, probes, now)
        Was(c) == Allowed(old, RequestAt(c, now))
        plain(c) == [c EXCEPT !.agent = FALSE]
        MovedSameWay(c) == plain(c) \in changes /\ Was(plain(c)) = Was(c)
    IN  {c \in changes : c \notin want /\ ~(c.agent /\ plain(c) \in want /\ MovedSameWay(c))}

(***************************************************************************)
(* The policy file, and the commands that replace it.                      *)
(***************************************************************************)
VARIABLES policy,   \* the rules in force; no file is no rules
          origin,   \* who left them: "written" by hand, "applied" or "granted"
          last      \* history: <<the grant that led to them>>, or nothing

vars == <<policy, origin, last>>

Init == policy \in Written /\ origin = "written" /\ last = <<>>

\* The rest of `policy grant`, once it is known where the rule goes: the candidate
\* has no errors, and nothing moves that was not asked for.
Install(rule, at, auto, now) ==
    LET candidate == InsertRule(policy, rule, at)
        probes    == ProbeSet(RulesOf(candidate), RuleProbes(rule))
    IN  /\ Len(policy) < MaxRules
        /\ NoErrors(candidate)
        /\ Unexpected(policy, candidate, probes, RuleProbes(rule), now) = {}
        /\ policy' = candidate
        /\ origin' = "granted"
        /\ last' = <<[rule |-> rule, at |-> at, auto |-> auto, now |-> now]>>

\* policy grant, at the index it computes.
Grant ==
    \E g \in Grants, at \in 1 .. Len(policy) + 1, now \in Times :
        /\ Buildable(g)
        /\ Placement(policy, BuildGrantRule(g), at)
        /\ Install(BuildGrantRule(g), at, TRUE, now)

\* policy grant --at, wherever the operator says.
GrantAt ==
    \E g \in Grants, at \in 1 .. Len(policy) + 1, now \in Times :
        /\ Buildable(g)
        /\ Install(BuildGrantRule(g), at, FALSE, now)

\* policy apply: a whole file, in which every change is the operator's to judge.
Apply ==
    \E c \in Candidates :
        /\ NoErrors(c)
        /\ policy' = c
        /\ origin' = "applied"
        /\ last' = <<>>

Next == Grant \/ GrantAt \/ Apply

Spec == Init /\ [][Next]_vars

(***************************************************************************)
(* Properties.                                                             *)
(***************************************************************************)
\* Types; the granted rule stands at the index the operator was told.
TypeOK ==
    /\ policy \in Seq(Rule)
    /\ origin \in {"written", "applied", "granted"}
    /\ last = <<>> \/ /\ Len(last) = 1
                      /\ last[1].rule \in Rule
                      /\ last[1].auto \in BOOLEAN /\ last[1].now \in Times
                      /\ last[1].at \in DOMAIN policy
                      /\ policy[last[1].at] = last[1].rule

\* A grant revokes nothing, and grants nothing its rule does not match: at any
\* index and at any time (edit.go:8-19).
Confined ==
    [][last' # <<>> =>
        \A r \in Requests :
            Moved(policy, policy', r) => Allowed(policy', r) /\ Matches(last'[1].rule, r)]_vars

\* At the computed index a grant takes nothing from a rule that decided it,
\* unless that rule covers all of the grant, or is an allow-rule that refused an
\* agent, whose outcome counts as the same (edit.go:196-227).
DisturbsNothing ==
    [][last' # <<>> /\ last'[1].auto =>
        \A r \in Requests, i \in DOMAIN policy :
            Decides(policy, r, i) /\ Moved(policy, policy', r) =>
                policy[i].allow \/ RuleCovers(policy[i], last'[1].rule)]_vars

\* At any index, --at included: what a grant overrules, at the time it is given,
\* is a deny-rule that matches one of the very requests asked for.  A narrower
\* exception keeps deciding, and an agent gets nothing a rule was keeping from
\* agents (delta.go:127-158).
OverrulesOnlyWider ==
    [][last' # <<>> =>
        \A r \in Requests, i \in DOMAIN policy :
            r.time = last'[1].now /\ Decides(policy, r, i) /\ Moved(policy, policy', r) =>
                /\ ~policy[i].allow
                /\ \E probe \in RuleProbes(last'[1].rule) :
                      Matches(policy[i], RequestAt(probe, r.time))]_vars

\* A policy the commands installed keeps raw values in: where a rule restricts a
\* reference to exec and mount, no label it does not name itself reaches get
\* (check.go:5-15, 43-52).
NoBypass ==
    origin # "written" =>
        \A r \in Requests, i \in DOMAIN policy :
            /\ r.mode = ModeGet /\ Allowed(policy, r)
            /\ RestrictsGet(policy[i])
            /\ policy[i].secrets = {} \/ AnyWildcard(policy[i].secrets, r.ref)
            => AnyWildcard(policy[i].identities, r.identity)

\* A rule reported as redundant or unreachable decides nothing, whatever is asked
\* and whenever (analyze.go:312-315).
DeadIsDead == \A c \in Covered(policy), r \in Requests : ~Decides(policy, r, c[1])

\* Two rules that pull a request opposite ways do not go unreported
\* (analyze.go:392-398).
OverlapsReported ==
    \A i, j \in DOMAIN policy, r \in Requests :
        /\ i < j /\ Matches(policy[i], r) /\ Matches(policy[j], r)
        /\ Outcome(policy[i], r.agent) # Outcome(policy[j], r.agent)
        => <<i, j>> \in Shadows(policy) \/ \E k \in DOMAIN policy : <<j, k>> \in Covered(policy)

\* Where a rule keeps agents from a reference at all times and in every mode, and
\* no finding says that it is scoped to labels, covered or shadowed, no agent gets
\* the reference, whatever label it asserts (policy.go:70-79, analyze.go:222-246).
AgentsKeptOut ==
    \A i \in DOMAIN policy, r \in Requests :
        /\ r.agent
        /\ policy[i].allow /\ policy[i].denyAgents /\ i \notin IdentityScoped(policy)
        /\ policy[i].modes = {} /\ ~Scheduled(policy[i])
        /\ policy[i].secrets = {} \/ AnyWildcard(policy[i].secrets, r.ref)
        /\ \A j \in DOMAIN policy :
               <<i, j>> \notin Covered(policy) /\ <<j, i>> \notin Shadows(policy)
        => ~Allowed(policy, r)

\* Every label that reaches a raw get is one the report names (analyze.go:284-290).
GetLabelsComplete ==
    \A r \in Requests :
        r.mode = ModeGet /\ Allowed(policy, r) =>
            \E l \in GetLabels(policy) : l = Star \/ Glob(l, r.identity)

\* What authorizes and what analyses and what-ifs ask decide alike; a refusal is
\* blamed on the agent's context only when without it the same rule allows
\* (policy.go:82-87, delta.go:215-218).
DecisionsAgree ==
    \A r \in Requests :
        /\ Evaluate(policy, r).allow = Allowed(policy, r)
        /\ Evaluate(policy, r).agentDenied =>
             ~Allowed(policy, r) /\ Allowed(policy, [r EXCEPT !.agent = FALSE])

\* No near miss goes without a reason: the conditions are tested in two places
\* (nearmiss.go:18-22).
NearMissesExplain ==
    \A r \in Requests, i \in DOMAIN policy :
        i \in NearMisses(policy, r) => NearMissReasons(policy[i], r) # {}

\* A grant placed where it was computed to be "both fires and disturbs nothing"
\* (edit.go:15-16): some request asked for is allowed, if its time has come.
GrantTakesEffect ==
    [][last' # <<>> /\ last'[1].auto =>
        LET asked == {RequestAt(probe, last'[1].now) : probe \in RuleProbes(last'[1].rule)}
        IN  (\E r \in asked : Matches(last'[1].rule, r)) => \E r \in asked : Allowed(policy', r)]_vars

(***************************************************************************)
(* Vocabularies for which matching a pattern as a text is exact.           *)
(***************************************************************************)
\* A pattern that matches another's text matches what the other does.
TextTransitive ==
    \A o, p \in Patterns \cup Modes, s \in Refs \cup Labels \cup Patterns \cup Modes :
        Glob(o, p) /\ Glob(p, s) => Glob(o, s)

\* Every pattern matches its own text.
TextReflexive == \A p \in Patterns : Glob(p, p)

\* The pattern "*" matches every label.
StarMatchesLabels == \A l \in Labels : Glob(Star, l)

\* Of two patterns that match a string, one matches the other's text.
OverlapNested ==
    \A v, w \in Patterns \cup Modes, s \in Refs \cup Labels \cup Modes :
        Glob(v, s) /\ Glob(w, s) => Glob(v, w) \/ Glob(w, v)
=============================================================================
