--------------------------- MODULE WildcardProofs ---------------------------
(***************************************************************************)
(* wildcardMatch is right for all patterns and all subjects free of '*',   *)
(* and never matches what the pattern does not mean, whatever the subject. *)
(*                                                                         *)
(* Two invariants carry it.  Consumed: what the loop has passed over, the  *)
(* pattern accounts for.  StillAhead: if the pattern means the subject, a  *)
(* way of cutting the subject is still ahead; the cut never changes, only  *)
(* what is known of it grows, and a byte that does not fit shows that the  *)
(* last '*' has at least one byte more.                                    *)
(***************************************************************************)
EXTENDS Wildcard, TLAPS

\* Init establishes, and every action keeps, the types (policy.go:383-405).
LEMMA InitTypeOK == Init => TypeOK
  BY StringsValid DEF Init, TypeOK

\* Indexes stay within the strings: no branch of the loop reads past an end.
LEMMA StepTypeOK == TypeOK /\ [Next]_vars => TypeOK'
<1> SUFFICES ASSUME TypeOK, [Next]_vars PROVE TypeOK'
  OBVIOUS
<1> /\ Len(pattern) \in Nat
    /\ Len(s) \in Nat
  BY StringsValid DEF TypeOK
<1> USE DEF TypeOK, args, InLoop, HasPattern, AtStar
<1>1. CASE TakeByte
  BY <1>1 DEF TakeByte, Literal
<1>2. CASE TakeStar
  BY <1>2 DEF TakeStar
<1>3. CASE Backtrack
  BY <1>3 DEF Backtrack
<1>4. CASE GiveUp
  BY <1>4 DEF GiveUp
<1>5. CASE LeaveLoop
  BY <1>5 DEF LeaveLoop
<1>6. CASE SkipStar
  BY <1>6 DEF SkipStar
<1>7. CASE Finish
  BY <1>7 DEF Finish
<1>8. CASE UNCHANGED vars
  BY <1>8 DEF vars
<1> QED
  BY <1>1, <1>2, <1>3, <1>4, <1>5, <1>6, <1>7, <1>8 DEF Next

\* Nothing of a pattern accounts for nothing of a subject.
LEMMA EmptyAccounts ==
  ASSUME NEW p, NEW t PROVE Accounts(p, t, 0, 0)
<1> DEFINE cut == [i \in 0 .. 0 |-> 0]
<1>1. cut \in [0 .. 0 -> 0 .. 0] /\ Cuts(p, t, 0, 0, cut)
  BY DEF Cuts
<1> QED
  BY <1>1 DEF Accounts

\* What n bytes of a pattern account for, n + 1 account for with one piece more.
LEMMA Extend ==
  ASSUME NEW p, NEW t, NEW n \in Nat, NEW m \in Nat, NEW to \in Nat,
         Accounts(p, t, n, m), m <= to, Piece(p, t, n + 1, m, to)
  PROVE  Accounts(p, t, n + 1, to)
<1>1. PICK cut \in [0 .. n -> 0 .. m] : Cuts(p, t, n, m, cut)
  BY DEF Accounts
<1> DEFINE longer == [i \in 0 .. n + 1 |-> IF i <= n THEN cut[i] ELSE to]
<1>2. longer \in [0 .. n + 1 -> 0 .. to]
  <2> SUFFICES ASSUME NEW i \in 0 .. n + 1
               PROVE  (IF i <= n THEN cut[i] ELSE to) \in 0 .. to
    OBVIOUS
  <2>1. CASE i <= n
    <3> cut[i] \in 0 .. m
      BY <2>1
    <3> QED
      BY <2>1
  <2> QED
    BY <2>1
<1>3. longer[0] = 0 /\ longer[n] = m /\ longer[n + 1] = to
  BY <1>1 DEF Cuts
<1>4. ASSUME NEW i \in 1 .. n + 1 PROVE Piece(p, t, i, longer[i - 1], longer[i])
  <2>1. CASE i = n + 1
    BY <2>1, <1>3
  <2>2. CASE i <= n
    <3>1. longer[i - 1] = cut[i - 1] /\ longer[i] = cut[i]
      BY <2>2
    <3>2. Piece(p, t, i, cut[i - 1], cut[i])
      BY <1>1, <2>2 DEF Cuts
    <3> QED
      BY <3>1, <3>2
  <2> QED
    BY <2>1, <2>2
<1>5. Cuts(p, t, n + 1, to, longer)
  BY <1>3, <1>4 DEF Cuts
<1> HIDE DEF longer
<1> QED
  BY <1>2, <1>5 DEF Accounts

\* What has been consumed is accounted for, whichever branch consumed it.
LEMMA StepConsumed == TypeOK /\ Consumed /\ [Next]_vars => Consumed'
<1> SUFFICES ASSUME TypeOK, Consumed, [Next]_vars PROVE Consumed'
  OBVIOUS
<1> /\ Len(pattern) \in Nat /\ Len(s) \in Nat
    /\ px \in Nat /\ sx \in Nat /\ mark \in Nat /\ star \in Int
  BY StringsValid DEF TypeOK
<1>1. CASE TakeByte
  <2> USE <1>1 DEF TakeByte, InLoop, Literal, HasPattern, args
  <2>1. Accounts(pattern, s, px, sx)
    BY DEF Consumed
  <2>2. Piece(pattern, s, px + 1, sx, sx + 1)
    BY DEF Piece
  <2>3. Accounts(pattern, s, px + 1, sx + 1)
    BY <2>1, <2>2, Extend
  <2> QED
    BY <2>3 DEF Consumed
<1>2. CASE TakeStar
  <2> USE <1>2 DEF TakeStar, InLoop, AtStar, HasPattern, args
  <2>1. Accounts(pattern, s, px, sx)
    BY DEF Consumed
  <2>2. Piece(pattern, s, px + 1, sx, sx)
    BY DEF Piece
  <2>3. Accounts(pattern, s, px + 1, sx)
    BY <2>1, <2>2, Extend
  <2>4. sx \in 0 .. mark'
    OBVIOUS
  <2> QED
    BY <2>1, <2>3, <2>4 DEF Consumed
<1>3. CASE Backtrack
  <2> USE <1>3 DEF Backtrack, InLoop, args
  <2>1. PICK k \in 0 .. mark : Accounts(pattern, s, star, k)
    BY DEF Consumed
  <2>2. star \in Nat /\ k \in Nat /\ k <= mark + 1
    BY DEF TypeOK
  <2>3. Piece(pattern, s, star + 1, k, mark + 1)
    BY <2>2 DEF Piece, TypeOK
  <2>4. Accounts(pattern, s, star + 1, mark + 1)
    BY <2>1, <2>2, <2>3, Extend
  <2>5. k \in 0 .. mark'
    BY <2>2
  <2> QED
    BY <2>1, <2>4, <2>5 DEF Consumed
<1>4. CASE GiveUp
  BY <1>4 DEF GiveUp, Consumed, args
<1>5. CASE LeaveLoop
  BY <1>5 DEF LeaveLoop, Consumed, args
<1>6. CASE SkipStar
  <2> USE <1>6 DEF SkipStar, AtStar, HasPattern, args
  <2>1. Accounts(pattern, s, px, sx)
    BY DEF Consumed
  <2>2. Piece(pattern, s, px + 1, sx, sx)
    BY DEF Piece
  <2>3. Accounts(pattern, s, px + 1, sx)
    BY <2>1, <2>2, Extend
  <2> QED
    BY <2>3 DEF Consumed
<1>7. CASE Finish
  BY <1>7 DEF Finish, Consumed, args
<1>8. CASE UNCHANGED vars
  BY <1>8 DEF vars, Consumed
<1> QED
  BY <1>1, <1>2, <1>3, <1>4, <1>5, <1>6, <1>7, <1>8 DEF Next

\* The answer "yes" is given only where all of both strings is consumed.
LEMMA StepSound == TypeOK /\ Consumed /\ Sound /\ [Next]_vars => Sound'
<1> SUFFICES ASSUME TypeOK, Consumed, Sound, [Next]_vars PROVE Sound'
  OBVIOUS
<1>1. CASE Finish
  BY <1>1 DEF Finish, TypeOK, Consumed, Sound, Matches, args
<1>2. CASE ~Finish
  BY <1>2 DEF Next, TakeByte, TakeStar, Backtrack, GiveUp, LeaveLoop, SkipStar,
              InLoop, Sound, vars, args
<1> QED
  BY <1>1, <1>2

\* A byte that does not fit shows that every way of cutting the subject that is
\* still ahead gives the last '*' more than it has; without a '*' there is none.
LEMMA MisfitMovesStar ==
  ASSUME TypeOK, InLoop, ~Literal, ~AtStar,
         NEW cut \in [0 .. Len(pattern) -> 0 .. Len(s)], Ahead(cut)
  PROVE  star # -1 /\ cut[star + 1] >= mark + 1
<1> /\ Len(pattern) \in Nat /\ Len(s) \in Nat
    /\ px \in 0 .. Len(pattern) /\ sx \in 0 .. Len(s) /\ mark \in Nat
    /\ star \in Int /\ star + 1 \in 0 .. px
  BY StringsValid DEF TypeOK
<1>1. cut[star + 1] \in Nat /\ cut[px] \in Nat
  OBVIOUS
<1>2. /\ cut[star + 1] >= mark
      /\ cut[px] - cut[star + 1] = sx - mark
  BY <1>1 DEF Ahead, InLoop
<1>3. cut[px] # sx
  <2> SUFFICES ASSUME cut[px] = sx PROVE FALSE
    OBVIOUS
  <2>1. CASE px = Len(pattern)
    BY <2>1 DEF Ahead, Cuts, InLoop
  <2>2. CASE px < Len(pattern)
    <3>1. px + 1 \in 1 .. Len(pattern) /\ px + 1 - 1 = px
      BY <2>2
    <3>2. Piece(pattern, s, px + 1, sx, cut[px + 1])
      BY <3>1 DEF Ahead, Cuts
    <3>3. pattern[px + 1] # Star
      BY <2>2 DEF AtStar, HasPattern
    <3> QED
      BY <2>2, <3>2, <3>3 DEF Piece, Literal, HasPattern
  <2> QED
    BY <2>1, <2>2
<1>4. cut[star + 1] >= mark + 1
  BY <1>1, <1>2, <1>3
<1>5. star # -1
  <2> SUFFICES ASSUME star = -1 PROVE FALSE
    OBVIOUS
  <2>1. cut[star + 1] = 0
    BY DEF Ahead, Cuts
  <2> QED
    BY <1>4, <2>1
<1> QED
  BY <1>4, <1>5

\* Each action leaves a way ahead where there was one.
LEMMA StepAhead ==
  ASSUME TypeOK, StarFree, Next, result # "no", result # "yes",
         NEW cut \in [0 .. Len(pattern) -> 0 .. Len(s)], Ahead(cut)
  PROVE  result' # "no" /\ (result' # "yes" => Ahead(cut)')
<1> /\ Len(pattern) \in Nat /\ Len(s) \in Nat
    /\ px \in 0 .. Len(pattern) /\ sx \in 0 .. Len(s) /\ mark \in Nat
    /\ star \in Int /\ star + 1 \in 0 .. px
  BY StringsValid DEF TypeOK
<1>1. cut[star + 1] \in Nat /\ cut[px] \in Nat
  OBVIOUS
<1>2. /\ cut[px] >= sx
      /\ Cuts(pattern, s, Len(pattern), Len(s), cut)
  BY DEF Ahead
<1>3. ASSUME HasPattern
      PROVE  /\ px + 1 \in 0 .. Len(pattern)
             /\ cut[px + 1] \in 0 .. Len(s)
             /\ Piece(pattern, s, px + 1, cut[px], cut[px + 1])
  <2>1. px + 1 \in 1 .. Len(pattern) /\ px + 1 - 1 = px
    BY <1>3 DEF HasPattern
  <2> QED
    BY <1>2, <2>1 DEF Cuts
<1>4. CASE TakeByte
  <2> USE <1>4 DEF TakeByte, InLoop, args
  <2>1. HasPattern /\ pattern[px + 1] # Star
    BY WildcardsValid DEF StarFree, Literal
  <2>2. cut[px + 1] = cut[px] + 1
    BY <1>3, <2>1 DEF Piece
  <2>3. /\ cut[px + 1] >= sx + 1
        /\ cut[px + 1] - cut[star + 1] = px + 1 - star - 1
        /\ sx + 1 - mark = px + 1 - star - 1
    BY <1>1, <1>2, <2>2 DEF Ahead
  <2> QED
    BY <1>2, <2>3 DEF Ahead
<1>5. CASE TakeStar
  <2> USE <1>5 DEF TakeStar, InLoop, AtStar, args
  <2>1. cut[px] <= cut[px + 1]
    BY <1>3 DEF Piece
  <2> QED
    BY <1>1, <1>2, <1>3, <2>1 DEF Ahead
<1>6. CASE Backtrack
  <2>1. cut[star + 1] >= mark + 1
    BY <1>6, MisfitMovesStar DEF Backtrack
  <2> QED
    BY <1>1, <1>2, <1>6, <2>1 DEF Backtrack, InLoop, Ahead, args
<1>7. CASE GiveUp
  BY <1>7, MisfitMovesStar DEF GiveUp
<1>8. CASE LeaveLoop
  BY <1>8 DEF LeaveLoop, Ahead, args
<1>9. CASE SkipStar
  <2>1. cut[px] <= cut[px + 1]
    BY <1>3, <1>9 DEF SkipStar, AtStar, Piece
  <2> QED
    BY <1>1, <1>2, <1>3, <1>9, <2>1 DEF SkipStar, AtStar, Ahead, args
<1>10. CASE Finish
  <2> USE <1>10 DEF Finish, AtStar
  <2> SUFFICES ASSUME px # Len(pattern) PROVE FALSE
    BY DEF HasPattern
  <2>1. HasPattern /\ sx = Len(s)
    BY DEF HasPattern, TypeOK
  <2>2. cut[px + 1] = cut[px] + 1
    BY <1>3, <2>1 DEF Piece
  <2> QED
    BY <1>1, <1>2, <1>3, <2>1, <2>2
<1> QED
  BY <1>4, <1>5, <1>6, <1>7, <1>8, <1>9, <1>10 DEF Next

\* No branch of the loop passes the last way of cutting the subject.
LEMMA StepStillAhead == TypeOK /\ StillAhead /\ [Next]_vars => StillAhead'
<1> SUFFICES ASSUME TypeOK, StillAhead, [Next]_vars PROVE StillAhead'
  OBVIOUS
<1>1. CASE UNCHANGED vars
  BY <1>1 DEF vars, StillAhead, Ahead, StarFree
<1>2. CASE Next
  <2>1. /\ pattern' = pattern /\ s' = s
        /\ result \in {"looping", "trailing"}
    BY <1>2 DEF Next, TakeByte, TakeStar, Backtrack, GiveUp, LeaveLoop, SkipStar,
                Finish, InLoop, args
  <2> SUFFICES ASSUME StarFree, Matches(pattern, s)
               PROVE  /\ result' # "no"
                      /\ result' # "yes" =>
                           \E cut \in [0 .. Len(pattern) -> 0 .. Len(s)] : Ahead(cut)'
    BY <2>1 DEF StillAhead, StarFree
  <2>2. PICK cut \in [0 .. Len(pattern) -> 0 .. Len(s)] : Ahead(cut)
    BY <2>1 DEF StillAhead
  <2>3. result' # "no" /\ (result' # "yes" => Ahead(cut)')
    BY <1>2, <2>1, <2>2, StepAhead
  <2> QED
    BY <2>3
<1> QED
  BY <1>1, <1>2

\* With nothing consumed, every cut is still ahead.
LEMMA InitInductive == Init => Inductive
<1> SUFFICES ASSUME Init PROVE Inductive
  OBVIOUS
<1>1. TypeOK
  BY InitTypeOK
<1>2. Consumed /\ Sound
  BY EmptyAccounts DEF Init, Consumed, Sound
<1>3. StillAhead
  <2> SUFFICES ASSUME NEW cut \in [0 .. Len(pattern) -> 0 .. Len(s)],
                      Cuts(pattern, s, Len(pattern), Len(s), cut)
               PROVE  Ahead(cut)
    BY DEF Init, StillAhead, Matches, Accounts
  <2> cut[0] = 0
    BY DEF Cuts
  <2> QED
    BY DEF Init, Ahead
<1> QED
  BY <1>1, <1>2, <1>3 DEF Inductive

\* The strengthened invariant holds in every state of every call of
\* wildcardMatch (policy.go:383-405).
THEOREM InductiveHolds == Spec => []Inductive
<1>1. Inductive /\ [Next]_vars => Inductive'
  BY StepTypeOK, StepConsumed, StepSound, StepStillAhead DEF Inductive
<1> QED
  BY InitInductive, <1>1, PTL DEF Spec

\* A match is a match: no rule applies to a request its pattern does not mean
\* (policy.go:380-405).
THEOREM MatchesAreRight == Spec => []Sound
<1>1. Inductive => Sound
  BY DEF Inductive
<1> QED
  BY <1>1, InductiveHolds, PTL

\* No rule is missed for a subject free of '*' that its pattern means
\* (policy.go:380-405).
THEOREM MissesNothing == Spec => []Complete
<1>1. Inductive => Complete
  BY DEF Inductive, StillAhead, Complete
<1> QED
  BY <1>1, InductiveHolds, PTL

\* Both: for subjects free of '*' the loop computes what the pattern means
\* (policy.go:380-405).
THEOREM MatcherIsExact == Spec => []Exact
  BY MatchesAreRight, MissesNothing, PTL DEF Exact

(***************************************************************************)
(* The matcher as a function.                                              *)
(***************************************************************************)
Stars == Nat \cup {-1}
Entries == Nat \X Nat \X Stars \X Nat

\* What WildcardMatch(p, t) says of its loop: that it is some F with F = Loops(p, t, F).
Fitting(p, t, x, y) == x < Len(p) /\ (p[x + 1] = Question \/ p[x + 1] = t[y + 1])
Loops(p, t, F) ==
    [c \in Entries |->
       IF c[2] >= Len(t) THEN OnlyStars(p, c[1])
       ELSE IF Fitting(p, t, c[1], c[2]) THEN F[<<c[1] + 1, c[2] + 1, c[3], c[4]>>]
       ELSE IF c[1] < Len(p) /\ p[c[1] + 1] = Star THEN F[<<c[1] + 1, c[2], c[1], c[2]>>]
       ELSE IF c[3] # -1 THEN F[<<c[3] + 1, c[4] + 1, c[3], c[4] + 1>>]
       ELSE FALSE]
TheLoop(p, t) == CHOOSE F : F = Loops(p, t, F)

\* The function is the loop, entered at the start.
LEMMA Entered == ASSUME NEW p, NEW t PROVE WildcardMatch(p, t) = TheLoop(p, t)[<<0, 0, -1, 0>>]
  BY DEF WildcardMatch, TheLoop, Loops, Fitting, Entries, Stars

\* One turn of the loop, and a finite run of it that ends with nothing but '*' left.
Turns(p, t, c) ==
    /\ c[2] < Len(t)
    /\ Fitting(p, t, c[1], c[2]) \/ (c[1] < Len(p) /\ p[c[1] + 1] = Star) \/ c[3] # -1
Turn(p, t, c) ==
    IF Fitting(p, t, c[1], c[2]) THEN <<c[1] + 1, c[2] + 1, c[3], c[4]>>
    ELSE IF c[1] < Len(p) /\ p[c[1] + 1] = Star THEN <<c[1] + 1, c[2], c[1], c[2]>>
    ELSE <<c[3] + 1, c[4] + 1, c[3], c[4] + 1>>
Run(p, t, c, n, run) ==
    /\ run[0] = c
    /\ \A i \in 0 .. n - 1 : Turns(p, t, run[i]) /\ run[i + 1] = Turn(p, t, run[i])
    /\ run[n][2] >= Len(t) /\ OnlyStars(p, run[n][1])
Succeeds(p, t, c) == \E n \in Nat : \E run \in [0 .. n -> Entries] : Run(p, t, c, n, run)

\* A turn goes from entry to entry.
LEMMA TurnEnters ==
  ASSUME NEW p, NEW t, Len(p) \in Nat, Len(t) \in Nat, NEW c \in Entries, Turns(p, t, c)
  PROVE  Turn(p, t, c) \in Entries
  BY DEF Turns, Turn, Entries, Stars, Fitting

\* A run past the end of the subject is over.
LEMMA EndOfRun ==
  ASSUME NEW p, NEW t, Len(t) \in Nat, NEW c \in Entries, ~Turns(p, t, c)
  PROVE  Succeeds(p, t, c) <=> c[2] >= Len(t) /\ OnlyStars(p, c[1])
<1>1. ASSUME c[2] >= Len(t) /\ OnlyStars(p, c[1]) PROVE Succeeds(p, t, c)
  <2> DEFINE run == [i \in 0 .. 0 |-> c]
  <2>1. run \in [0 .. 0 -> Entries] /\ Run(p, t, c, 0, run)
    BY <1>1 DEF Run
  <2> QED
    BY <2>1 DEF Succeeds
<1>2. ASSUME NEW n \in Nat, NEW run \in [0 .. n -> Entries], Run(p, t, c, n, run)
      PROVE  c[2] >= Len(t) /\ OnlyStars(p, c[1])
  <2>1. n = 0
    BY <1>2 DEF Run
  <2> QED
    BY <1>2, <2>1 DEF Run
<1> QED
  BY <1>1, <1>2 DEF Succeeds

\* A run that is not over succeeds when what is left of it after a turn does.
LEMMA TurnOfRun ==
  ASSUME NEW p, NEW t, Len(p) \in Nat, Len(t) \in Nat, NEW c \in Entries, Turns(p, t, c)
  PROVE  Succeeds(p, t, c) <=> Succeeds(p, t, Turn(p, t, c))
<1> DEFINE d == Turn(p, t, c)
<1>1. ASSUME NEW n \in Nat, NEW run \in [0 .. n -> Entries], Run(p, t, d, n, run)
      PROVE  Succeeds(p, t, c)
  <2> DEFINE longer == [i \in 0 .. n + 1 |-> IF i = 0 THEN c ELSE run[i - 1]]
  <2>1. longer \in [0 .. n + 1 -> Entries] /\ n + 1 \in Nat
    OBVIOUS
  <2>2. longer[0] = c /\ longer[n + 1] = run[n] /\ \A i \in 0 .. n : longer[i + 1] = run[i]
    OBVIOUS
  <2> HIDE DEF longer
  <2>3. ASSUME NEW i \in 0 .. (n + 1) - 1
        PROVE  Turns(p, t, longer[i]) /\ longer[i + 1] = Turn(p, t, longer[i])
    <3>1. CASE i = 0
      BY <1>1, <2>2, <3>1 DEF Run
    <3>2. CASE i # 0
      <4>1. i - 1 \in 0 .. n - 1 /\ longer[i] = run[i - 1] /\ longer[i + 1] = run[(i - 1) + 1]
        BY <2>2, <2>3, <3>2
      <4> QED
        BY <1>1, <4>1 DEF Run
    <3> QED
      BY <3>1, <3>2
  <2>4. Run(p, t, c, n + 1, longer)
    BY <1>1, <2>2, <2>3 DEF Run
  <2> QED
    BY <2>1, <2>4 DEF Succeeds
<1>2. ASSUME NEW n \in Nat, NEW run \in [0 .. n -> Entries], Run(p, t, c, n, run)
      PROVE  Succeeds(p, t, d)
  <2>1. n # 0
    BY <1>2 DEF Run, Turns, Entries
  <2> DEFINE rest == [i \in 0 .. n - 1 |-> run[i + 1]]
  <2>2. n - 1 \in Nat /\ rest \in [0 .. n - 1 -> Entries]
    BY <2>1
  <2>3. rest[0] = d /\ rest[n - 1] = run[n]
    BY <1>2, <2>1 DEF Run
  <2>4. \A i \in 0 .. (n - 1) - 1 : rest[i] = run[i + 1] /\ rest[i + 1] = run[(i + 1) + 1] /\ i + 1 \in 0 .. n - 1
    BY <2>1
  <2> HIDE DEF rest
  <2>5. Run(p, t, d, n - 1, rest)
    BY <1>2, <2>3, <2>4 DEF Run
  <2> QED
    BY <2>2, <2>5 DEF Succeeds
<1> QED
  BY <1>1, <1>2 DEF Succeeds

\* So there is such a function, and the loop of WildcardMatch is one.
LEMMA LoopUnfolds ==
  ASSUME NEW p, NEW t, Len(p) \in Nat, Len(t) \in Nat
  PROVE  TheLoop(p, t) = Loops(p, t, TheLoop(p, t))
<1> DEFINE F == [c \in Entries |-> Succeeds(p, t, c)]
<1>1. ASSUME NEW c \in Entries
      PROVE  Succeeds(p, t, c) = Loops(p, t, F)[c]
  <2>1. CASE c[2] >= Len(t)
    <3>1. Succeeds(p, t, c) <=> OnlyStars(p, c[1])
      BY <2>1, EndOfRun DEF Turns, Entries
    <3>2. Succeeds(p, t, c) = OnlyStars(p, c[1])
      BY <3>1 DEF Succeeds, OnlyStars
    <3> QED
      BY <2>1, <3>2 DEF Loops
  <2>2. CASE ~(c[2] >= Len(t)) /\ ~Turns(p, t, c)
    <3>1. Succeeds(p, t, c) = FALSE
      BY <2>2, EndOfRun
    <3>2. /\ ~(c[2] >= Len(t)) /\ ~Fitting(p, t, c[1], c[2]) /\ c[3] = -1
          /\ ~(c[1] < Len(p) /\ p[c[1] + 1] = Star)
      BY <2>2 DEF Turns, Entries
    <3> HIDE DEF F
    <3>3. Loops(p, t, F)[c] = FALSE
      BY <3>2 DEF Loops
    <3> QED
      BY <3>1, <3>3
  <2>3. CASE Turns(p, t, c)
    <3>1. Succeeds(p, t, c) <=> Succeeds(p, t, Turn(p, t, c))
      BY <2>3, TurnOfRun
    <3>2. Succeeds(p, t, c) = Succeeds(p, t, Turn(p, t, c))
      BY <3>1 DEF Succeeds
    <3>3. Turn(p, t, c) \in Entries
      BY <2>3, TurnEnters
    <3>4. F[Turn(p, t, c)] = Succeeds(p, t, Turn(p, t, c))
      BY <3>3
    <3>5. ~(c[2] >= Len(t))
      BY <2>3 DEF Turns, Entries
    <3> HIDE DEF F
    <3>6. Loops(p, t, F)[c] = F[Turn(p, t, c)]
      BY <2>3, <3>5 DEF Loops, Turns, Turn
    <3> QED
      BY <3>2, <3>4, <3>6
  <2> QED
    BY <2>1, <2>2, <2>3
<1>2. F = Loops(p, t, F)
  <2>1. F = [c \in Entries |-> Loops(p, t, F)[c]]
    BY <1>1
  <2>2. Loops(p, t, F) = [c \in Entries |-> Loops(p, t, F)[c]]
    BY DEF Loops
  <2> QED
    BY <2>1, <2>2
<1> HIDE DEF F
<1> QED
  BY <1>2 DEF TheLoop

(***************************************************************************)
(* The function along the machine.                                         *)
(***************************************************************************)

\* What is still to be answered: the loop from where it is, then whether only
\* '*' is left, then the result.
StillToAnswer ==
    CASE result = "looping" -> TheLoop(pattern, s)[<<px, sx, star, mark>>]
      [] result = "trailing" -> OnlyStars(pattern, px)
      [] OTHER -> result = "yes"
Agrees == WildcardMatch(pattern, s) = StillToAnswer

\* Each step of the machine is a turn of the function, or leaves what is left to
\* it the same.
LEMMA StepAgrees == Inductive /\ Agrees /\ [Next]_vars => Agrees'
<1> SUFFICES ASSUME Inductive, Agrees, [Next]_vars PROVE Agrees'
  OBVIOUS
<1>0. /\ TypeOK /\ Len(pattern) \in Nat /\ Len(s) \in Nat
      /\ pattern \in Seq(Bytes) /\ s \in Seq(Bytes)
  BY StringsValid DEF Inductive, TypeOK
<1> DEFINE c == <<px, sx, star, mark>>
           L == TheLoop(pattern, s)
<1>1. c \in Entries
  BY <1>0 DEF TypeOK, Entries, Stars
<1>2. L[c] = IF sx >= Len(s) THEN OnlyStars(pattern, px)
             ELSE IF Fitting(pattern, s, px, sx) THEN L[<<px + 1, sx + 1, star, mark>>]
             ELSE IF px < Len(pattern) /\ pattern[px + 1] = Star THEN L[<<px + 1, sx, px, sx>>]
             ELSE IF star # -1 THEN L[<<star + 1, mark + 1, star, mark + 1>>]
             ELSE FALSE
  <2>1. L = Loops(pattern, s, L)
    BY <1>0, LoopUnfolds
  <2> HIDE DEF L
  <2>2. L[c] = Loops(pattern, s, L)[c]
    BY <2>1
  <2> QED
    BY <1>1, <2>2 DEF Loops
<1>3. (Literal <=> Fitting(pattern, s, px, sx)) /\ (AtStar <=> px < Len(pattern) /\ pattern[px + 1] = Star)
  BY DEF Literal, AtStar, HasPattern, Fitting
<1>4. InLoop => ~(sx >= Len(s))
  BY <1>0 DEF InLoop, TypeOK
<1>5. ASSUME pattern' = pattern, s' = s, StillToAnswer' = StillToAnswer PROVE Agrees'
  <2>1. WildcardMatch(pattern, s)' = WildcardMatch(pattern, s)
    BY <1>5
  <2> QED
    BY <1>5, <2>1 DEF Agrees
<1>6. InLoop => StillToAnswer = L[c]
  BY DEF InLoop, StillToAnswer
<1> HIDE DEF L
<1>7. CASE TakeByte
  <2>1. StillToAnswer' = L[<<px + 1, sx + 1, star, mark>>]
    BY <1>7 DEF TakeByte, InLoop, StillToAnswer, args, L
  <2> QED
    BY <1>2, <1>3, <1>4, <1>5, <1>6, <1>7, <2>1 DEF TakeByte, args
<1>8. CASE TakeStar
  <2>1. StillToAnswer' = L[<<px + 1, sx, px, sx>>]
    BY <1>8 DEF TakeStar, InLoop, StillToAnswer, args, L
  <2> QED
    BY <1>2, <1>3, <1>4, <1>5, <1>6, <1>8, <2>1 DEF TakeStar, args
<1>9. CASE Backtrack
  <2>1. StillToAnswer' = L[<<star + 1, mark + 1, star, mark + 1>>]
    BY <1>9 DEF Backtrack, InLoop, StillToAnswer, args, L
  <2> QED
    BY <1>2, <1>3, <1>4, <1>5, <1>6, <1>9, <2>1 DEF Backtrack, args
<1>10. CASE GiveUp
  <2>1. StillToAnswer' = FALSE
    BY <1>10 DEF GiveUp, StillToAnswer
  <2> QED
    BY <1>2, <1>3, <1>4, <1>5, <1>6, <1>10, <2>1 DEF GiveUp, args
<1>11. CASE LeaveLoop
  <2>1. StillToAnswer' = OnlyStars(pattern, px)
    BY <1>11 DEF LeaveLoop, StillToAnswer, args
  <2>2. StillToAnswer = L[c] /\ sx >= Len(s)
    BY <1>0, <1>11 DEF LeaveLoop, StillToAnswer, L
  <2> QED
    BY <1>2, <1>5, <1>11, <2>1, <2>2 DEF LeaveLoop, args
<1>12. CASE SkipStar
  <2>1. StillToAnswer' = OnlyStars(pattern, px + 1) /\ StillToAnswer = OnlyStars(pattern, px)
    BY <1>12 DEF SkipStar, StillToAnswer, args
  <2>2. OnlyStars(pattern, px + 1) = OnlyStars(pattern, px)
    BY <1>0, <1>12 DEF SkipStar, AtStar, HasPattern, OnlyStars, TypeOK
  <2> QED
    BY <1>5, <1>12, <2>1, <2>2 DEF SkipStar, args
<1>13. CASE Finish
  <2>1. (StillToAnswer' = (px = Len(pattern))) /\ StillToAnswer = OnlyStars(pattern, px)
    BY <1>13 DEF Finish, StillToAnswer
  <2>2. (px = Len(pattern)) = OnlyStars(pattern, px)
    <3>1. CASE px = Len(pattern)
      <4>1. \A i \in px + 1 .. Len(pattern) : FALSE
        BY <1>0, <3>1
      <4>2. OnlyStars(pattern, px) = TRUE
        BY <4>1 DEF OnlyStars
      <4> QED
        BY <3>1, <4>2
    <3>2. CASE px # Len(pattern)
      <4>1. px + 1 \in px + 1 .. Len(pattern) /\ pattern[px + 1] # Star
        BY <1>0, <1>13, <3>2 DEF Finish, AtStar, HasPattern, TypeOK
      <4>2. OnlyStars(pattern, px) = FALSE
        BY <4>1 DEF OnlyStars
      <4> QED
        BY <3>2, <4>2
    <3> QED
      BY <3>1, <3>2
  <2> QED
    BY <1>5, <1>13, <2>1, <2>2 DEF Finish, args
<1>14. CASE UNCHANGED vars
  BY <1>5, <1>14 DEF vars, StillToAnswer
<1> QED
  BY <1>7, <1>8, <1>9, <1>10, <1>11, <1>12, <1>13, <1>14 DEF Next

\* The function the policy models match with is what the loop computes, of any
\* pattern and any subject (policy.go:383-405).
THEOREM TheFunctionIsTheLoop == Spec => []FunctionAgrees
<1>1. Init => Agrees
  BY Entered DEF Init, Agrees, StillToAnswer
<1>2. Agrees => FunctionAgrees
  BY DEF Agrees, StillToAnswer, FunctionAgrees
<1> QED
  BY <1>1, <1>2, StepAgrees, InductiveHolds, PTL DEF Spec
=============================================================================
