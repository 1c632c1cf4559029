---------------------------- MODULE PolicyProofs ----------------------------
(***************************************************************************)
(* For every matcher, every set of rules, grants, requests and times, and  *)
(* policies of any length.  The facts about coverage and overlap are       *)
(* proved from the conditions under which matching a pattern as a text is  *)
(* exact (TextTransitive, OverlapNested); where they fail, so does the     *)
(* analysis (check.go:106-111).                                            *)
(***************************************************************************)
EXTENDS Policy, WellFoundedInduction, TLAPS

(***************************************************************************)
(* Types.                                                                  *)
(***************************************************************************)
\* What BuildGrantRule returns is a rule that allows, to agents as well.
LEMMA GrantRuleType ==
    ASSUME NEW g \in Grants
    PROVE  /\ BuildGrantRule(g) \in Rule
           /\ BuildGrantRule(g).allow /\ ~BuildGrantRule(g).denyAgents
    BY GrantsTyped DEF BuildGrantRule, GrantRequest, Rule, DefaultModes, Modes

\* InsertRule lengthens the list by one, and keeps the other rules and their order.
LEMMA InsertType ==
    ASSUME NEW p \in Seq(Rule), NEW rule \in Rule, NEW at \in 1 .. Len(p) + 1
    PROVE  /\ InsertRule(p, rule, at) \in Seq(Rule)
           /\ Len(InsertRule(p, rule, at)) = Len(p) + 1
           /\ DOMAIN InsertRule(p, rule, at) = 1 .. Len(p) + 1
           /\ \A i \in 1 .. at - 1 : InsertRule(p, rule, at)[i] = p[i]
           /\ InsertRule(p, rule, at)[at] = rule
           /\ \A i \in at + 1 .. Len(p) + 1 : InsertRule(p, rule, at)[i] = p[i - 1]
<1> DEFINE c == InsertRule(p, rule, at)
<1>1. /\ c = [i \in 1 .. Len(p) + 1 |-> IF i < at THEN p[i] ELSE IF i = at THEN rule ELSE p[i - 1]]
      /\ Len(p) \in Nat /\ DOMAIN p = 1 .. Len(p)
    BY DEF InsertRule
<1>2. \A i \in 1 .. Len(p) + 1 : c[i] \in Rule
  <2> SUFFICES ASSUME NEW i \in 1 .. Len(p) + 1
               PROVE  c[i] \in Rule
      OBVIOUS
  <2>1. CASE i < at
      BY <1>1, <2>1
  <2>2. CASE i = at
      BY <1>1, <2>2
  <2>3. CASE i > at
      BY <1>1, <2>3
  <2> QED
      BY <2>1, <2>2, <2>3
<1>3. c \in [1 .. Len(p) + 1 -> Rule] /\ Len(p) + 1 \in Nat
    BY <1>1, <1>2
<1>4. c \in Seq(Rule) /\ Len(c) = Len(p) + 1
    BY <1>3
<1> HIDE DEF c
<1>5. /\ \A i \in 1 .. at - 1 : c[i] = p[i]
      /\ c[at] = rule
      /\ \A i \in at + 1 .. Len(p) + 1 : c[i] = p[i - 1]
    BY <1>1
<1> QED
    BY <1>1, <1>4, <1>5 DEF c

\* What both grants do with the rule they have built.
GrantStep(g, at, auto, now) ==
    /\ g \in Grants /\ at \in 1 .. Len(policy) + 1 /\ now \in Times /\ auto \in BOOLEAN
    /\ Buildable(g)
    /\ auto => Placement(policy, BuildGrantRule(g), at)
    /\ Install(BuildGrantRule(g), at, auto, now)

\* Every step is an applied file or a grant at some index.
LEMMA NextIsGrantOrApply ==
    ASSUME Next
    PROVE  Apply \/ \E g, at, auto, now : GrantStep(g, at, auto, now)
    BY DEF Next, Grant, GrantAt, GrantStep

\* Each command keeps the types.
LEMMA TypeStep == ASSUME TypeOK, [Next]_vars PROVE TypeOK'
<1>1. ASSUME NEW g, NEW at, NEW auto, NEW now, GrantStep(g, at, auto, now)
      PROVE  TypeOK'
  <2> DEFINE rule == BuildGrantRule(g)
  <2>1. /\ policy \in Seq(Rule) /\ at \in 1 .. Len(policy) + 1 /\ g \in Grants
        /\ policy' = InsertRule(policy, rule, at) /\ origin' = "granted"
        /\ last' = <<[rule |-> rule, at |-> at, auto |-> auto, now |-> now]>>
      BY <1>1 DEF GrantStep, Install, TypeOK
  <2>2. rule \in Rule
      BY <2>1, GrantRuleType
  <2> HIDE DEF rule
  <2>3. policy' \in Seq(Rule) /\ at \in DOMAIN policy' /\ policy'[at] = rule
      BY <2>1, <2>2, InsertType
  <2> QED
      BY <1>1, <2>1, <2>2, <2>3 DEF TypeOK, GrantStep
<1>2. CASE Apply
    BY <1>2, PoliciesLoad DEF Loads, Apply, TypeOK
<1>3. CASE UNCHANGED vars
    BY <1>3 DEF vars, TypeOK
<1> QED
    BY <1>1, <1>2, <1>3, NextIsGrantOrApply

\* Types are kept, and a granted rule stands at the index the operator was told,
\* whatever the policy it is granted into.
THEOREM TypeCorrect == Spec => []TypeOK
<1>1. Init => TypeOK
    BY PoliciesLoad DEF Loads, Init, TypeOK
<1> QED
    BY <1>1, TypeStep, PTL DEF Spec

(***************************************************************************)
(* What an insertion does to decisions.                                    *)
(***************************************************************************)
\* Only one rule decides a request.
LEMMA DecidesOnce ==
    ASSUME NEW p \in Seq(Rule), NEW r, NEW i, NEW j, Decides(p, r, i), Decides(p, r, j)
    PROVE  i = j
    BY DEF Decides

\* Rules above the new one keep deciding what they decided.
LEMMA DecidesAbove ==
    ASSUME NEW p \in Seq(Rule), NEW rule \in Rule, NEW at \in 1 .. Len(p) + 1, NEW r,
           NEW i \in 1 .. at - 1
    PROVE  Decides(InsertRule(p, rule, at), r, i) <=> Decides(p, r, i)
<1> DEFINE c == InsertRule(p, rule, at)
<1>1. /\ DOMAIN c = 1 .. Len(p) + 1 /\ DOMAIN p = 1 .. Len(p) /\ Len(p) \in Nat
      /\ \A j \in 1 .. at - 1 : c[j] = p[j]
    BY InsertType
<1> HIDE DEF c
<1>2. /\ i \in DOMAIN c /\ i \in DOMAIN p /\ c[i] = p[i]
      /\ \A j \in 1 .. i - 1 : c[j] = p[j]
    BY <1>1
<1> QED
    BY <1>2 DEF Decides, c

\* The new rule takes over what it matches of what was decided below.
LEMMA DecidesTaken ==
    ASSUME NEW p \in Seq(Rule), NEW rule \in Rule, NEW at \in 1 .. Len(p) + 1, NEW r,
           NEW i \in at .. Len(p), Decides(p, r, i), Matches(rule, r)
    PROVE  Decides(InsertRule(p, rule, at), r, at)
<1> DEFINE c == InsertRule(p, rule, at)
<1>1. /\ at \in DOMAIN c /\ c[at] = rule
      /\ \A j \in 1 .. at - 1 : c[j] = p[j]
    BY InsertType
<1> HIDE DEF c
<1>2. \A j \in 1 .. at - 1 : j \in 1 .. i - 1
    OBVIOUS
<1> QED
    BY <1>1, <1>2 DEF Decides, c

\* What the new rule does not match goes on as it did, one place lower.
LEMMA DecidesBelow ==
    ASSUME NEW p \in Seq(Rule), NEW rule \in Rule, NEW at \in 1 .. Len(p) + 1, NEW r,
           NEW i \in at .. Len(p)
    PROVE  Decides(InsertRule(p, rule, at), r, i + 1) <=> Decides(p, r, i) /\ ~Matches(rule, r)
<1> DEFINE c == InsertRule(p, rule, at)
<1>1. /\ DOMAIN c = 1 .. Len(p) + 1 /\ DOMAIN p = 1 .. Len(p) /\ Len(p) \in Nat
      /\ c[at] = rule
      /\ \A j \in 1 .. at - 1 : c[j] = p[j]
      /\ \A j \in at + 1 .. Len(p) + 1 : c[j] = p[j - 1]
    BY InsertType
<1> HIDE DEF c
<1>2. i + 1 \in DOMAIN c /\ i \in DOMAIN p /\ c[i + 1] = p[i]
    BY <1>1
<1>3. ASSUME Decides(c, r, i + 1)
      PROVE  Decides(p, r, i) /\ ~Matches(rule, r)
  <2>1. Matches(p[i], r) /\ ~Matches(rule, r)
      BY <1>1, <1>2, <1>3 DEF Decides
  <2>2. ASSUME NEW j \in 1 .. i - 1
        PROVE  ~Matches(p[j], r)
    <3>1. CASE j < at
        BY <1>1, <1>3, <3>1 DEF Decides
    <3>2. CASE j >= at
      <4>1. j + 1 \in 1 .. i /\ c[j + 1] = p[j]
          BY <1>1, <3>2
      <4> QED
          BY <1>3, <4>1 DEF Decides
    <3> QED
        BY <3>1, <3>2
  <2> QED
      BY <1>2, <2>1, <2>2 DEF Decides
<1>4. ASSUME Decides(p, r, i), ~Matches(rule, r)
      PROVE  Decides(c, r, i + 1)
  <2>1. ASSUME NEW j \in 1 .. i
        PROVE  ~Matches(c[j], r)
    <3>1. CASE j < at
        BY <1>1, <1>4, <3>1 DEF Decides
    <3>2. CASE j = at
        BY <1>1, <1>4, <3>2
    <3>3. CASE j > at
      <4>1. j - 1 \in 1 .. i - 1 /\ c[j] = p[j - 1]
          BY <1>1, <3>3
      <4> QED
          BY <1>4, <4>1 DEF Decides
    <3> QED
        BY <3>1, <3>2, <3>3
  <2> QED
      BY <1>2, <1>4, <2>1 DEF Decides
<1> QED
    BY <1>3, <1>4 DEF c

\* The whole effect of an insertion of a rule that allows.
LEMMA InsertAllows ==
    ASSUME NEW p \in Seq(Rule), NEW rule \in Rule, NEW at \in 1 .. Len(p) + 1, NEW r,
           rule.allow, ~rule.denyAgents
    PROVE  Moved(p, InsertRule(p, rule, at), r) =>
              /\ Allowed(InsertRule(p, rule, at), r) /\ Matches(rule, r)
              /\ \A i \in 1 .. at - 1 : ~Decides(p, r, i)
<1> DEFINE c == InsertRule(p, rule, at)
<1>1. /\ DOMAIN c = 1 .. Len(p) + 1 /\ DOMAIN p = 1 .. Len(p) /\ Len(p) \in Nat
      /\ c[at] = rule
      /\ \A j \in 1 .. at - 1 : c[j] = p[j]
      /\ \A j \in at + 1 .. Len(p) + 1 : c[j] = p[j - 1]
    BY InsertType
<1>2. /\ \A i \in 1 .. at - 1 : Decides(c, r, i) <=> Decides(p, r, i)
      /\ \A i \in at .. Len(p) : Decides(c, r, i + 1) <=> Decides(p, r, i) /\ ~Matches(rule, r)
      /\ \A i \in at .. Len(p) : Decides(p, r, i) /\ Matches(rule, r) => Decides(c, r, at)
    BY DecidesAbove, DecidesBelow, DecidesTaken
<1> HIDE DEF c
<1>3. Outcome(rule, r.agent)
    BY DEF Outcome
<1>4. ASSUME NEW i, Decides(p, r, i), Outcome(p[i], r.agent)
      PROVE  Allowed(c, r)
  <2>1. i \in 1 .. Len(p)
      BY <1>1, <1>4 DEF Decides
  <2>2. CASE i < at
      BY <1>1, <1>2, <1>4, <2>1, <2>2 DEF Allowed
  <2>3. CASE i >= at /\ Matches(rule, r)
      BY <1>1, <1>2, <1>3, <1>4, <2>1, <2>3 DEF Allowed
  <2>4. CASE i >= at /\ ~Matches(rule, r)
    <3>1. i + 1 \in DOMAIN c /\ c[i + 1] = p[i] /\ Decides(c, r, i + 1)
        BY <1>1, <1>2, <1>4, <2>1, <2>4
    <3> QED
        BY <1>4, <3>1 DEF Allowed
  <2> QED
      BY <2>1, <2>2, <2>3, <2>4
<1>5. ASSUME NEW k, Decides(c, r, k), Outcome(c[k], r.agent), ~Allowed(p, r)
      PROVE  k = at
  <2>1. k \in 1 .. Len(p) + 1
      BY <1>1, <1>5 DEF Decides
  <2>2. CASE k < at
      BY <1>1, <1>2, <1>5, <2>1, <2>2 DEF Allowed, Decides
  <2>3. CASE k > at
    <3>1. k - 1 \in at .. Len(p) /\ (k - 1) + 1 = k /\ c[k] = p[k - 1]
        BY <1>1, <2>1, <2>3
    <3>2. Decides(p, r, k - 1)
        BY <1>2, <1>5, <3>1
    <3> QED
        BY <1>5, <3>1, <3>2 DEF Allowed, Decides
  <2> QED
      BY <2>1, <2>2, <2>3
<1>6. ASSUME Moved(p, c, r)
      PROVE  Allowed(c, r) /\ Matches(rule, r) /\ \A i \in 1 .. at - 1 : ~Decides(p, r, i)
  <2>1. Allowed(c, r) /\ ~Allowed(p, r)
      BY <1>4, <1>6 DEF Moved, Allowed
  <2>2. Decides(c, r, at)
      BY <1>5, <2>1 DEF Allowed
  <2>3. Matches(rule, r)
      BY <1>1, <2>2 DEF Decides
  <2>4. \A i \in 1 .. at - 1 : ~Decides(c, r, i)
      BY <2>2 DEF Decides
  <2> QED
      BY <1>2, <2>1, <2>3, <2>4
<1> QED
    BY <1>6 DEF c

\* A grant's step, in the terms of the lemmas above.
LEMMA GrantedStep ==
    ASSUME TypeOK, Next, last' # <<>>
    PROVE  \E at \in 1 .. Len(policy) + 1 :
              /\ last'[1].rule \in Rule /\ last'[1].rule.allow /\ ~last'[1].rule.denyAgents
              /\ policy' = InsertRule(policy, last'[1].rule, at)
              /\ last'[1].auto => Placement(policy, last'[1].rule, at)
<1>1. ~Apply
    BY DEF Apply
<1>2. PICK g, at, auto, now : GrantStep(g, at, auto, now)
    BY <1>1, NextIsGrantOrApply
<1> DEFINE rule == BuildGrantRule(g)
<1>3. /\ at \in 1 .. Len(policy) + 1 /\ g \in Grants
      /\ auto => Placement(policy, rule, at)
      /\ policy' = InsertRule(policy, rule, at)
      /\ last' = <<[rule |-> rule, at |-> at, auto |-> auto, now |-> now]>>
    BY <1>2 DEF GrantStep, Install
<1>4. rule \in Rule /\ rule.allow /\ ~rule.denyAgents
    BY <1>3, GrantRuleType
<1> HIDE DEF rule
<1>5. last'[1].rule = rule /\ last'[1].auto = auto
    BY <1>3
<1> QED
    BY <1>3, <1>4, <1>5

\* A grant revokes nothing and grants nothing its rule does not match, whatever
\* the matcher, the policy and the index (edit.go:8-19).
THEOREM GrantsAreConfined == Spec => Confined
<1>1. ASSUME TypeOK, Next, last' # <<>>, NEW r \in Requests, Moved(policy, policy', r)
      PROVE  Allowed(policy', r) /\ Matches(last'[1].rule, r)
    BY <1>1, GrantedStep, InsertAllows DEF TypeOK
<1>2. TypeOK /\ [Next]_vars =>
          [last' # <<>> =>
              \A r \in Requests :
                  Moved(policy, policy', r) => Allowed(policy', r) /\ Matches(last'[1].rule, r)]_vars
    BY <1>1
<1> QED
    BY <1>2, TypeCorrect, PTL DEF Spec, Confined

(***************************************************************************)
(* Coverage and overlap, where texts tell them.                            *)
(***************************************************************************)
\* The fields of a rule the analyses look at.
LEMMA RuleFields ==
    ASSUME NEW rule \in Rule
    PROVE  /\ rule.secrets \subseteq Patterns /\ rule.identities \subseteq Patterns
           /\ rule.modes \subseteq Modes
           /\ rule.allow \in BOOLEAN /\ rule.denyAgents \in BOOLEAN
    BY DEF Rule

\* The fields of a request the conditions look at.
LEMMA RequestFields ==
    ASSUME NEW r \in Requests
    PROVE  r.ref \in Refs /\ r.identity \in Labels /\ r.mode \in Modes /\ r.agent \in BOOLEAN
    BY DEF Requests

\* patternsCover is sound: what the inner list accepts, the outer does.
LEMMA PatternsCoverMatch ==
    ASSUME TextTransitive,
           NEW outer, outer \subseteq Patterns \cup Modes,
           NEW inner, inner \subseteq Patterns \cup Modes,
           NEW s \in Refs \cup Labels \cup Patterns \cup Modes,
           PatternsCover(outer, inner), inner # {} => AnyWildcard(inner, s), outer # {}
    PROVE  AnyWildcard(outer, s)
<1>1. inner # {} /\ \A p \in inner : AnyWildcard(outer, p)
    BY DEF PatternsCover
<1>2. PICK p \in inner : Glob(p, s)
    BY <1>1 DEF AnyWildcard
<1>3. PICK o \in outer : Glob(o, p)
    BY <1>1, <1>2 DEF AnyWildcard
<1>4. Glob(o, s)
    BY <1>2, <1>3 DEF TextTransitive
<1> QED
    BY <1>4 DEF AnyWildcard

\* A rule matches what a rule it covers matches.
LEMMA CoverMatches ==
    ASSUME TextTransitive, NEW outer \in Rule, NEW inner \in Rule, NEW r \in Requests,
           RuleCovers(outer, inner), Matches(inner, r)
    PROVE  Matches(outer, r)
<1>1. outer.secrets # {} => AnyWildcard(outer.secrets, r.ref)
    BY RuleFields, RequestFields, PatternsCoverMatch DEF RuleCovers, Matches
<1>2. outer.identities # {} => AnyWildcard(outer.identities, r.identity)
    BY RuleFields, RequestFields, PatternsCoverMatch DEF RuleCovers, Matches
<1>3. outer.modes # {} => AnyWildcard(outer.modes, r.mode)
    BY RuleFields, RequestFields, PatternsCoverMatch DEF RuleCovers, Matches
<1>4. /\ outer.weekdays # <<>> => InList(outer.weekdays, r.time.weekday)
      /\ outer.monthdays # <<>> => InList(outer.monthdays, r.time.monthday)
      /\ outer.hours # <<>> => HoursMatch(outer.hours, r.time.minute)
    BY DEF RuleCovers, TimeCovers, Scheduled, Matches
<1> QED
    BY <1>1, <1>2, <1>3, <1>4 DEF Matches

\* secretsOverlap misses no pair of lists that accept one string.
LEMMA PatternsOverlap ==
    ASSUME OverlapNested,
           NEW a, a \subseteq Patterns \cup Modes, NEW b, b \subseteq Patterns \cup Modes,
           NEW s \in Refs \cup Labels \cup Modes,
           a # {} => AnyWildcard(a, s), b # {} => AnyWildcard(b, s)
    PROVE  SecretsOverlap(a, b)
<1>1. CASE a = {} \/ b = {}
    BY <1>1 DEF SecretsOverlap
<1>2. CASE a # {} /\ b # {}
  <2>1. PICK v \in a, w \in b : Glob(v, s) /\ Glob(w, s)
      BY <1>2 DEF AnyWildcard
  <2>2. Glob(v, w) \/ Glob(w, v)
      BY <2>1 DEF OverlapNested
  <2> QED
      BY <2>2 DEF SecretsOverlap
<1> QED
    BY <1>1, <1>2

\* Rules that match one request are found to intersect.
LEMMA OverlapIntersects ==
    ASSUME OverlapNested, NEW a \in Rule, NEW b \in Rule, NEW r \in Requests,
           Matches(a, r), Matches(b, r)
    PROVE  RulesIntersect(a, b)
<1>1. SecretsOverlap(a.secrets, b.secrets)
    BY RuleFields, RequestFields, PatternsOverlap DEF Matches
<1>2. SecretsOverlap(a.identities, b.identities)
    BY RuleFields, RequestFields, PatternsOverlap DEF Matches
<1>3. SecretsOverlap(a.modes, b.modes)
    BY RuleFields, RequestFields, PatternsOverlap DEF Matches
<1>4. SchedulesMayOverlap(a, b)
    BY DEF Matches, SchedulesMayOverlap, ListsMeet, InList
<1> QED
    BY <1>1, <1>2, <1>3, <1>4 DEF RulesIntersect

\* A rule that is covered is covered first by some rule: the least of them.
LEMMA CoveredByFirst ==
    ASSUME NEW p, NEW j \in DOMAIN p, NEW k \in 1 .. j - 1, DOMAIN p \subseteq Nat,
           \A i \in DOMAIN p : 1 .. i - 1 \subseteq DOMAIN p,
           RuleCovers(p[k], p[j])
    PROVE  \E i \in DOMAIN p : <<j, i>> \in Covered(p)
<1> DEFINE Covering == {i \in 1 .. j - 1 : RuleCovers(p[i], p[j])}
<1>1. Covering \subseteq Nat /\ Covering # {}
    OBVIOUS
<1>2. PICK i \in Covering : \A x \in Covering : ~(<<x, i>> \in OpToRel(<, Nat))
    BY <1>1, WFMin, NatLessThanWellFounded
<1>3. \A x \in Covering : ~(x < i)
    BY <1>1, <1>2 DEF OpToRel
<1>4. i \in DOMAIN p /\ j \in DOMAIN p /\ i \in 1 .. j - 1 /\ j \in Nat
    OBVIOUS
<1>5. \A x \in 1 .. i - 1 : ~RuleCovers(p[x], p[j])
    BY <1>3, <1>4
<1>6. CoveredBefore(p, j, i)
    BY <1>4, <1>5 DEF CoveredBefore
<1> QED
    BY <1>4, <1>6 DEF Covered

\* A rule reported as redundant or unreachable never decides (analyze.go:312-315).
THEOREM DeadRulesAreDead == ASSUME TextTransitive PROVE Spec => []DeadIsDead
<1>1. ASSUME TypeOK, NEW c \in Covered(policy), NEW r \in Requests, Decides(policy, r, c[1])
      PROVE  FALSE
  <2>1. /\ c[1] \in DOMAIN policy /\ c[2] \in DOMAIN policy /\ c[2] \in 1 .. c[1] - 1
        /\ RuleCovers(policy[c[2]], policy[c[1]])
      BY DEF Covered, CoveredBefore
  <2>2. policy[c[1]] \in Rule /\ policy[c[2]] \in Rule
      BY <1>1, <2>1 DEF TypeOK
  <2>3. Matches(policy[c[2]], r)
      BY <1>1, <2>1, <2>2, CoverMatches DEF Decides
  <2> QED
      BY <1>1, <2>1, <2>3 DEF Decides
<1>2. TypeOK => DeadIsDead
    BY <1>1 DEF DeadIsDead
<1> QED
    BY <1>2, TypeCorrect, PTL

\* Two rules that pull one request opposite ways are reported, whatever the list
\* (analyze.go:392-398).
LEMMA OppositesReported ==
    ASSUME OverlapNested, TypeOK,
           NEW i \in DOMAIN policy, NEW j \in DOMAIN policy, NEW r \in Requests, i < j,
           Matches(policy[i], r), Matches(policy[j], r),
           Outcome(policy[i], r.agent) # Outcome(policy[j], r.agent)
    PROVE  <<i, j>> \in Shadows(policy) \/ \E k \in DOMAIN policy : <<j, k>> \in Covered(policy)
<1>1. /\ policy[i] \in Rule /\ policy[j] \in Rule /\ DOMAIN policy = 1 .. Len(policy)
      /\ Len(policy) \in Nat
    BY DEF TypeOK
<1>2. OutcomesDiffer(policy[i], policy[j])
    BY RequestFields DEF OutcomesDiffer
<1>3. CASE RuleCovers(policy[i], policy[j])
  <2>1. i \in 1 .. j - 1 /\ DOMAIN policy \subseteq Nat
        /\ \A x \in DOMAIN policy : 1 .. x - 1 \subseteq DOMAIN policy
      BY <1>1
  <2> QED
      BY <1>3, <2>1, CoveredByFirst
<1>4. CASE ~RuleCovers(policy[i], policy[j])
  <2>1. RulesIntersect(policy[i], policy[j])
      BY <1>1, OverlapIntersects
  <2> QED
      BY <1>2, <1>4, <2>1 DEF Shadows
<1> QED
    BY <1>3, <1>4

\* The same of every reachable policy.
THEOREM OverlapsAreReported == ASSUME OverlapNested PROVE Spec => []OverlapsReported
<1>1. TypeOK => OverlapsReported
    BY OppositesReported DEF OverlapsReported
<1> QED
    BY <1>1, TypeCorrect, PTL

\* A rule that refuses agents, and about which no finding was made, keeps every
\* agent out, whatever label it asserts (policy.go:70-79, analyze.go:222-246).
THEOREM AgentsAreKeptOut ==
    ASSUME OverlapNested, StarMatchesLabels PROVE Spec => []AgentsKeptOut
<1>1. ASSUME TypeOK, NEW i \in DOMAIN policy, NEW r \in Requests,
             r.agent, policy[i].allow, policy[i].denyAgents, i \notin IdentityScoped(policy),
             policy[i].modes = {}, ~Scheduled(policy[i]),
             policy[i].secrets = {} \/ AnyWildcard(policy[i].secrets, r.ref),
             \A j \in DOMAIN policy :
                 <<i, j>> \notin Covered(policy) /\ <<j, i>> \notin Shadows(policy),
             Allowed(policy, r)
      PROVE  FALSE
  <2>1. policy[i].identities # {} => AnyWildcard(policy[i].identities, r.identity)
      BY <1>1, RequestFields DEF IdentityScoped, StarMatchesLabels, AnyWildcard
  <2>2. Matches(policy[i], r)
      BY <1>1, <2>1 DEF Matches, Scheduled
  <2>3. PICK k \in DOMAIN policy : Decides(policy, r, k) /\ Outcome(policy[k], r.agent)
      BY <1>1 DEF Allowed
  <2>4. ~Outcome(policy[i], r.agent) /\ i # k
      BY <1>1, <2>3 DEF Outcome
  <2>5. k < i /\ Matches(policy[k], r)
      BY <1>1, <2>2, <2>3, <2>4 DEF Decides, TypeOK
  <2> QED
      BY <1>1, <2>2, <2>3, <2>4, <2>5, OppositesReported
<1>2. TypeOK => AgentsKeptOut
    BY <1>1 DEF AgentsKeptOut
<1> QED
    BY <1>2, TypeCorrect, PTL

\* Every label that reaches a raw get is one the report names, with any matcher
\* (analyze.go:284-290).
THEOREM GetLabelsAreComplete == Spec => []GetLabelsComplete
<1>1. ASSUME NEW r \in Requests, r.mode = ModeGet, Allowed(policy, r)
      PROVE  \E l \in GetLabels(policy) : l = Star \/ Glob(l, r.identity)
  <2>1. PICK i \in DOMAIN policy : Matches(policy[i], r) /\ Outcome(policy[i], r.agent)
      BY <1>1 DEF Allowed, Decides
  <2>2. i \in GetOpen(policy)
      BY <1>1, <2>1 DEF GetOpen, PermitsGet, Matches, Outcome
  <2>3. CASE policy[i].identities = {}
    <3>1. Star \in GetLabels(policy)
        BY <2>2, <2>3 DEF GetLabels
    <3> QED
        BY <3>1
  <2>4. CASE policy[i].identities # {}
    <3>1. PICK l \in policy[i].identities : Glob(l, r.identity)
        BY <2>1, <2>4 DEF Matches, AnyWildcard
    <3>2. l \in GetLabels(policy)
        BY <2>2, <2>4 DEF GetLabels
    <3> QED
        BY <3>1, <3>2
  <2> QED
      BY <2>3, <2>4
<1>2. GetLabelsComplete
    BY <1>1 DEF GetLabelsComplete
<1> QED
    BY <1>2, PTL

\* Evaluate and decide, two loops over the same rules, decide alike; and an agent's
\* refusal is blamed on its context only where the rule would allow a person
\* (policy.go:82-87, delta.go:215-218).
THEOREM EvaluatorsAgree == Spec => []DecisionsAgree
<1>1. ASSUME TypeOK, NEW r \in Requests
      PROVE  Evaluate(policy, r).allow = Allowed(policy, r)
  <2>1. \A i \in DOMAIN policy : policy[i] \in Rule
      BY <1>1 DEF TypeOK
  <2> QED
      BY <2>1, RuleFields DEF Evaluate, Allowed, Outcome
<1>2. ASSUME TypeOK, NEW r \in Requests, Evaluate(policy, r).agentDenied
      PROVE  ~Allowed(policy, r) /\ Allowed(policy, [r EXCEPT !.agent = FALSE])
  <2> DEFINE s == [r EXCEPT !.agent = FALSE]
  <2>1. PICK i \in DOMAIN policy :
          Decides(policy, r, i) /\ policy[i].allow /\ ~Outcome(policy[i], r.agent)
      BY <1>2 DEF Evaluate
  <2>2. ~Allowed(policy, r)
      BY <1>2, <2>1, DecidesOnce DEF Allowed, TypeOK
  <2>3. /\ s.ref = r.ref /\ s.identity = r.identity /\ s.mode = r.mode /\ s.time = r.time
        /\ s.agent = FALSE
      BY DEF Requests
  <2> HIDE DEF s
  <2>4. \A rl : Matches(rl, s) <=> Matches(rl, r)
      BY <2>3 DEF Matches
  <2>5. Decides(policy, s, i) /\ Outcome(policy[i], s.agent)
      BY <2>1, <2>3, <2>4 DEF Decides, Outcome
  <2> QED
      BY <2>2, <2>5 DEF Allowed, s
<1>3. TypeOK => DecisionsAgree
    BY <1>1, <1>2 DEF DecisionsAgree
<1> QED
    BY <1>3, TypeCorrect, PTL

(***************************************************************************)
(* The get restriction, and the computed placement.                        *)
(***************************************************************************)
\* What the commands install had no errors.
InstalledClean == origin # "written" => NoErrors(policy)

\* Neither command installs a candidate with errors.
LEMMA CleanStep == ASSUME InstalledClean, [Next]_vars PROVE InstalledClean'
<1>1. ASSUME NEW g, NEW at, NEW auto, NEW now, GrantStep(g, at, auto, now)
      PROVE  NoErrors(policy)'
  <2>1. policy' = InsertRule(policy, BuildGrantRule(g), at)
        /\ NoErrors(InsertRule(policy, BuildGrantRule(g), at))
      BY <1>1 DEF GrantStep, Install
  <2> QED
      BY <2>1 DEF NoErrors, Unreachable, Weakened, Covered, CoveredBefore, GetOpen
<1>2. CASE Apply
  <2>1. PICK c \in Candidates : policy' = c /\ NoErrors(c)
      BY <1>2 DEF Apply
  <2> QED
      BY <2>1 DEF InstalledClean, NoErrors, Unreachable, Weakened, Covered, CoveredBefore, GetOpen
<1>3. CASE UNCHANGED vars
    BY <1>3 DEF vars, InstalledClean, NoErrors, Unreachable, Weakened, Covered, CoveredBefore, GetOpen
<1> QED
    BY <1>1, <1>2, <1>3, NextIsGrantOrApply DEF InstalledClean

\* In a policy the commands installed, a label that reaches the raw value of a
\* reference is one that every rule restricting that reference names itself
\* (check.go:5-15).
THEOREM RestrictionsHold ==
    ASSUME TextTransitive, OverlapNested PROVE Spec => []NoBypass
<1>1. ASSUME TypeOK, InstalledClean, origin # "written", NEW r \in Requests, NEW i \in DOMAIN policy,
             r.mode = ModeGet, Allowed(policy, r), RestrictsGet(policy[i]),
             policy[i].secrets = {} \/ AnyWildcard(policy[i].secrets, r.ref)
      PROVE  AnyWildcard(policy[i].identities, r.identity)
  <2>1. PICK k \in DOMAIN policy : Matches(policy[k], r) /\ Outcome(policy[k], r.agent)
      BY <1>1 DEF Allowed, Decides
  <2>2. policy[i] \in Rule /\ policy[k] \in Rule
      BY <1>1 DEF TypeOK
  <2>3. k \in GetOpen(policy) /\ i # k
      BY <1>1, <2>1 DEF GetOpen, PermitsGet, RestrictsGet, Matches, Outcome
  <2>4. SecretsOverlap(policy[i].secrets, policy[k].secrets)
      BY <1>1, <2>1, <2>2, RuleFields, RequestFields, PatternsOverlap DEF Matches
  <2>5. Weakened(policy) = {}
      BY <1>1 DEF InstalledClean, NoErrors
  <2>6. IdentitiesSubsumed(policy[k].identities, policy[i].identities)
    <3> SUFFICES ASSUME ~IdentitiesSubsumed(policy[k].identities, policy[i].identities)
                 PROVE  <<i, k>> \in Weakened(policy)
        BY <2>5
    <3> DEFINE c == <<i, k>>
    <3>1. c \in (DOMAIN policy) \X GetOpen(policy) /\ c[1] = i /\ c[2] = k
        BY <2>3
    <3> HIDE DEF c
    <3>2. c \in Weakened(policy)
        BY <1>1, <2>3, <2>4, <3>1 DEF Weakened
    <3> QED
        BY <3>2 DEF c
  <2>7. /\ policy[k].identities # {} /\ policy[i].identities # {}
        /\ PatternsCover(policy[i].identities, policy[k].identities)
      BY <2>6 DEF IdentitiesSubsumed, PatternsCover
  <2> QED
      BY <2>1, <2>2, <2>7, RuleFields, RequestFields, PatternsCoverMatch DEF Matches
<1>2. TypeOK /\ InstalledClean => NoBypass
    BY <1>1 DEF NoBypass
<1>3. Init => InstalledClean
    BY DEF Init, InstalledClean
<1> QED
    BY <1>2, <1>3, CleanStep, TypeCorrect, PTL DEF Spec

\* At the computed index a grant takes no request from a deny-rule that does not
\* cover all of the grant (edit.go:196-227).
THEOREM GrantsDisturbNothing == ASSUME OverlapNested PROVE Spec => DisturbsNothing
<1>1. ASSUME TypeOK, Next, last' # <<>>, last'[1].auto, NEW r \in Requests, NEW i \in DOMAIN policy,
             Decides(policy, r, i), Moved(policy, policy', r), ~policy[i].allow
      PROVE  RuleCovers(policy[i], last'[1].rule)
  <2> DEFINE rule == last'[1].rule
  <2>1. PICK at \in 1 .. Len(policy) + 1 :
          /\ rule \in Rule /\ rule.allow /\ ~rule.denyAgents
          /\ policy' = InsertRule(policy, rule, at) /\ Placement(policy, rule, at)
      BY <1>1, GrantedStep
  <2>2. Matches(rule, r) /\ \A x \in 1 .. at - 1 : ~Decides(policy, r, x)
      BY <1>1, <2>1, InsertAllows DEF TypeOK
  <2>3. policy[i] \in Rule /\ Matches(policy[i], r) /\ ~(i < at) /\ DOMAIN policy = 1 .. Len(policy)
      BY <1>1, <2>2 DEF Decides, TypeOK
  <2> HIDE DEF rule
  <2>4. i \in Opposed(policy, rule)
      BY <1>1, <2>1, <2>2, <2>3, OverlapIntersects DEF Opposed
  <2>5. i \notin WouldBlock(policy, rule) /\ i \notin Ambiguous(policy, rule)
      BY <2>1, <2>3 DEF Placement
  <2>6. i \in BlockedBy(policy, rule)
      BY <2>4, <2>5 DEF Ambiguous
  <2> QED
      BY <2>6 DEF BlockedBy, rule
<1>2. TypeOK /\ [Next]_vars =>
          [last' # <<>> /\ last'[1].auto =>
              \A r \in Requests, i \in DOMAIN policy :
                  Decides(policy, r, i) /\ Moved(policy, policy', r) =>
                      policy[i].allow \/ RuleCovers(policy[i], last'[1].rule)]_vars
    BY <1>1
<1> QED
    BY <1>2, TypeCorrect, PTL DEF Spec, DisturbsNothing

(***************************************************************************)
(* What the delta catches: any request a grant takes from a rule that was  *)
(* not written wider than the grant.                                       *)
(***************************************************************************)
\* A string that two pattern lists match is matched by a text of theirs that both
\* match: what the delta probes instead of the string.
LEMMA NarrowerText ==
    ASSUME OverlapNested, TextReflexive,
           NEW a, a \subseteq Patterns, a # {}, NEW b, b \subseteq Patterns,
           NEW s \in Refs \cup Labels, AnyWildcard(a, s), b # {} => AnyWildcard(b, s)
    PROVE  \E t \in a \cup b :
              Glob(t, s) /\ AnyWildcard(a, t) /\ (b # {} => AnyWildcard(b, t))
<1>1. PICK v \in a : Glob(v, s)
    BY DEF AnyWildcard
<1>2. v \in Patterns /\ AnyWildcard(a, v)
    BY <1>1 DEF TextReflexive, AnyWildcard
<1>3. CASE b = {}
    BY <1>1, <1>2, <1>3
<1>4. CASE b # {}
  <2>1. PICK w \in b : Glob(w, s)
      BY <1>4 DEF AnyWildcard
  <2>2. w \in Patterns /\ AnyWildcard(b, w)
      BY <2>1 DEF TextReflexive, AnyWildcard
  <2>3. Glob(v, w) \/ Glob(w, v)
      BY <1>1, <1>2, <2>1, <2>2 DEF OverlapNested
  <2>4. CASE Glob(v, w)
      BY <2>1, <2>2, <2>4 DEF AnyWildcard
  <2>5. CASE Glob(w, v)
      BY <1>1, <1>2, <2>5 DEF AnyWildcard
  <2> QED
      BY <2>3, <2>4, <2>5
<1> QED
    BY <1>3, <1>4

\* A rule that matches a narrower request matches the wider one.
LEMMA NarrowerMatches ==
    ASSUME TextTransitive, NEW rule \in Rule, NEW r \in Requests, NEW q,
           q.ref \in Patterns, q.identity \in Patterns, q.mode = r.mode, q.time = r.time,
           Glob(q.ref, r.ref), Glob(q.identity, r.identity),
           Matches(rule, q)
    PROVE  Matches(rule, r)
<1>1. rule.secrets # {} => AnyWildcard(rule.secrets, r.ref)
    BY RuleFields, RequestFields DEF Matches, AnyWildcard, TextTransitive
<1>2. rule.identities # {} => AnyWildcard(rule.identities, r.identity)
    BY RuleFields, RequestFields DEF Matches, AnyWildcard, TextTransitive
<1> QED
    BY <1>1, <1>2 DEF Matches

\* A request that a grant takes from rule i stands for a probe that it takes from
\* rule i too.
LEMMA ProbeForRequest ==
    ASSUME TextTransitive, TextReflexive, OverlapNested,
           NEW p \in Seq(Rule), NEW rule \in Rule, NEW at \in 1 .. Len(p) + 1,
           rule.allow, ~rule.denyAgents, rule.secrets # {}, rule.identities # {},
           NEW r \in Requests, NEW i \in DOMAIN p,
           Decides(p, r, i), Moved(p, InsertRule(p, rule, at), r)
    PROVE  \E q \in ProbeSet(RulesOf(InsertRule(p, rule, at)), RuleProbes(rule)) :
              /\ ~Outcome(p[i], q.agent)
              /\ Decides(p, RequestAt(q, r.time), i)
              /\ Moved(p, InsertRule(p, rule, at), RequestAt(q, r.time))
<1> DEFINE c == InsertRule(p, rule, at)
           rules == RulesOf(c)
           agentMatters == \E x \in rules : x.denyAgents
<1>1. /\ DOMAIN c = 1 .. Len(p) + 1 /\ DOMAIN p = 1 .. Len(p) /\ Len(p) \in Nat
      /\ c[at] = rule
      /\ \A j \in 1 .. at - 1 : c[j] = p[j]
      /\ \A j \in at + 1 .. Len(p) + 1 : c[j] = p[j - 1]
    BY InsertType
<1>2. Allowed(c, r) /\ ~Allowed(p, r) /\ Matches(rule, r) /\ at <= i
  <2>1. /\ Allowed(c, r) /\ Matches(rule, r)
        /\ \A j \in 1 .. at - 1 : ~Decides(p, r, j)
      BY InsertAllows
  <2>2. ~Allowed(p, r)
      BY <2>1 DEF Moved, Allowed
  <2>3. ~(i \in 1 .. at - 1)
      BY <2>1
  <2> QED
      BY <1>1, <2>1, <2>2, <2>3
<1>3. Matches(p[i], r) /\ ~Outcome(p[i], r.agent) /\ p[i] \in Rule
    BY <1>1, <1>2 DEF Allowed, Decides
<1> HIDE DEF c
<1>4. rule \in rules /\ p[i] \in rules
  <2>1. i + 1 \in DOMAIN c /\ c[i + 1] = p[i] /\ at \in DOMAIN c
      BY <1>1, <1>2
  <2> QED
      BY <1>1, <2>1 DEF RulesOf
<1> HIDE DEF rules
<1>5. PICK ref \in rule.secrets \cup p[i].secrets :
          /\ Glob(ref, r.ref) /\ AnyWildcard(rule.secrets, ref)
          /\ p[i].secrets # {} => AnyWildcard(p[i].secrets, ref)
    BY <1>2, <1>3, RuleFields, RequestFields, NarrowerText DEF Matches
<1>6. PICK id \in rule.identities \cup p[i].identities :
          /\ Glob(id, r.identity) /\ AnyWildcard(rule.identities, id)
          /\ p[i].identities # {} => AnyWildcard(p[i].identities, id)
    BY <1>2, <1>3, RuleFields, RequestFields, NarrowerText DEF Matches
<1> DEFINE q == [ref |-> ref, identity |-> id, mode |-> r.mode,
                 agent |-> IF agentMatters THEN r.agent ELSE FALSE]
           s == RequestAt(q, r.time)
<1>7. q \in ProbeSet(rules, RuleProbes(rule))
    BY <1>4, <1>5, <1>6, RequestFields DEF ProbeSet
<1>8. ~Outcome(p[i], q.agent)
    BY <1>3, <1>4 DEF Outcome
<1>9. /\ s.ref = ref /\ s.identity = id /\ s.mode = r.mode /\ s.time = r.time /\ s.agent = q.agent
      /\ ref \in Patterns /\ id \in Patterns
    BY <1>3, <1>5, <1>6, RuleFields DEF RequestAt
<1> HIDE DEF q, s, agentMatters
<1>10. Matches(p[i], s) /\ Matches(rule, s)
    BY <1>2, <1>3, <1>5, <1>6, <1>9 DEF Matches
<1>11. Decides(p, s, i)
  <2>1. ASSUME NEW j \in 1 .. i - 1, Matches(p[j], s)
        PROVE  FALSE
    <3>1. p[j] \in Rule
        BY <1>1
    <3>2. Matches(p[j], r)
        BY <1>5, <1>6, <1>9, <2>1, <3>1, NarrowerMatches
    <3> QED
        BY <3>2 DEF Decides
  <2> QED
      BY <1>10, <2>1 DEF Decides
<1>12. ~Allowed(p, s)
    BY <1>8, <1>9, <1>11, DecidesOnce DEF Allowed
<1>13. Decides(c, s, at)
    BY <1>1, <1>2, <1>10, <1>11, DecidesTaken DEF c
<1>14. Allowed(c, s)
    BY <1>1, <1>13 DEF Allowed, Outcome
<1>15. Moved(p, c, s)
    BY <1>12, <1>14 DEF Moved
<1> QED
    BY <1>7, <1>8, <1>11, <1>15 DEF c, s, rules

\* At any index, what a grant overrules when it is given is a deny-rule that
\* matches one of the requests asked for: the delta catches every other loss,
\* an agent's included (delta.go:127-158).
THEOREM GrantsOverruleOnlyWider ==
    ASSUME TextTransitive, TextReflexive, OverlapNested PROVE Spec => OverrulesOnlyWider
<1>1. ASSUME TypeOK, Next, last' # <<>>, NEW r \in Requests, NEW i \in DOMAIN policy,
             r.time = last'[1].now, Decides(policy, r, i), Moved(policy, policy', r)
      PROVE  /\ ~policy[i].allow
             /\ \E probe \in RuleProbes(last'[1].rule) : Matches(policy[i], RequestAt(probe, r.time))
  <2>1. ~Apply
      BY <1>1 DEF Apply
  <2>2. PICK g, at, auto, now : GrantStep(g, at, auto, now)
      BY <1>1, <2>1, NextIsGrantOrApply
  <2> DEFINE rule == BuildGrantRule(g)
             want == RuleProbes(rule)
             c == InsertRule(policy, rule, at)
             probes == ProbeSet(RulesOf(c), want)
             changes == Changes(policy, c, probes, now)
             plain(x) == [x EXCEPT !.agent = FALSE]
  <2>3. /\ at \in 1 .. Len(policy) + 1 /\ g \in Grants /\ policy \in Seq(Rule)
        /\ policy' = c /\ Unexpected(policy, c, probes, want, now) = {}
        /\ last' = <<[rule |-> rule, at |-> at, auto |-> auto, now |-> now]>>
      BY <1>1, <2>2 DEF GrantStep, Install, TypeOK
  <2>4. rule \in Rule /\ rule.allow /\ ~rule.denyAgents
      BY <2>3, GrantRuleType
  <2>5. rule.secrets # {} /\ rule.identities # {}
      BY <2>2 DEF GrantStep, Buildable, BuildGrantRule
  <2> HIDE DEF rule
  <2>6. last'[1].rule = rule /\ last'[1].now = now /\ now = r.time
      BY <1>1, <2>3
  <2>7. PICK q \in probes :
          /\ ~Outcome(policy[i], q.agent) /\ Decides(policy, RequestAt(q, r.time), i)
          /\ Moved(policy, c, RequestAt(q, r.time))
      BY <1>1, <2>3, <2>4, <2>5, ProbeForRequest
  <2>8. q \in want \/ /\ plain(q) \in want /\ plain(q) \in changes /\ q.agent
                      /\ Allowed(policy, RequestAt(plain(q), now)) = Allowed(policy, RequestAt(q, now))
    <3>1. q \in Changes(policy, c, probes, now)
        BY <2>6, <2>7 DEF Changes
    <3> QED
        BY <2>3, <2>6, <3>1 DEF Unexpected
  <2> HIDE DEF want, c, probes, changes
  <2>9. Matches(policy[i], RequestAt(q, r.time))
      BY <2>7 DEF Decides
  <2>10. CASE q \in want
    <3>1. q.agent = FALSE
        BY <2>10 DEF want, RuleProbes
    <3> QED
        BY <2>6, <2>7, <2>9, <2>10, <3>1 DEF Outcome, want
  <2>11. CASE q \notin want
    <3> DEFINE s == RequestAt(q, now)
               t == RequestAt(plain(q), now)
    <3>1. plain(q) \in want /\ Allowed(policy, t) = Allowed(policy, s)
        BY <2>8, <2>11
    <3>2. /\ t.ref = s.ref /\ t.identity = s.identity /\ t.mode = s.mode /\ t.time = s.time
          /\ t.agent = FALSE /\ s.agent = q.agent
        BY <2>7 DEF RequestAt, probes, ProbeSet, RuleProbes
    <3> HIDE DEF s, t
    <3>3. \A rl : Matches(rl, t) <=> Matches(rl, s)
        BY <3>2 DEF Matches
    <3>4. Decides(policy, s, i) /\ Decides(policy, t, i)
        BY <2>6, <2>7, <3>3 DEF Decides, s
    <3>5. ~Allowed(policy, s)
        BY <2>3, <2>7, <3>2, <3>4, DecidesOnce DEF Allowed
    <3>6. ~Outcome(policy[i], FALSE)
        BY <1>1, <3>1, <3>2, <3>4, <3>5 DEF Allowed
    <3>7. Matches(policy[i], t)
        BY <3>4 DEF Decides
    <3> QED
        BY <2>6, <3>1, <3>6, <3>7 DEF Outcome, want, t
  <2> QED
      BY <2>10, <2>11
<1>2. TypeOK /\ [Next]_vars =>
          [last' # <<>> =>
              \A r \in Requests, i \in DOMAIN policy :
                  r.time = last'[1].now /\ Decides(policy, r, i) /\ Moved(policy, policy', r) =>
                      /\ ~policy[i].allow
                      /\ \E probe \in RuleProbes(last'[1].rule) :
                            Matches(policy[i], RequestAt(probe, r.time))]_vars
    BY <1>1
<1> QED
    BY <1>2, TypeCorrect, PTL DEF Spec, OverrulesOnlyWider

(***************************************************************************)
(* Near misses.                                                            *)
(***************************************************************************)

\* explain never calls a rule a near miss without saying what it missed: the two
\* functions test the same conditions (nearmiss.go:18-22).
THEOREM NearMissesAreExplained == Spec => []NearMissesExplain
<1>1. ASSUME NEW rule, NEW r, NearMissReasons(rule, r) = {},
             rule.secrets = {} \/ AnyWildcard(rule.secrets, r.ref)
      PROVE  Matches(rule, r)
  <2>1. \A condition, why : If(condition, why) = {} => ~condition
      BY DEF If
  <2> QED
      BY <1>1, <2>1, Zenon DEF NearMissReasons, Matches
<1>2. NearMissesExplain
    BY <1>1 DEF NearMissesExplain, NearMisses
<1> QED
    BY <1>2, PTL
=============================================================================
