------------------------------ MODULE Wildcard ------------------------------
(***************************************************************************)
(* wildcardMatch (internal/policy/policy.go), the matcher under every      *)
(* condition of every policy rule: the loop as a state machine, one action *)
(* per branch, against what a pattern means.                               *)
(***************************************************************************)
EXTENDS Match

CONSTANTS Bytes,       \* the bytes of patterns and subjects
          Patterns,    \* the patterns it is called with
          Subjects     \* the references, identities and modes they are matched with

ASSUME StringsValid == Patterns \subseteq Seq(Bytes) /\ Subjects \subseteq Seq(Bytes)

VARIABLES pattern, s,  \* the arguments
          px, sx,      \* how much of each has been consumed
          star, mark,  \* the last '*' met and how much of s it has been given; star = -1: none
          result       \* "looping", "trailing", and the answer: "yes" or "no"

vars == <<pattern, s, px, sx, star, mark, result>>
args == <<pattern, s>>

(***************************************************************************)
(* What a pattern means: there are cuts of the subject, one before each    *)
(* byte of the pattern and one at its end, such that a '*' has any run     *)
(* between its cuts, a '?' any one byte and any other byte itself.         *)
(***************************************************************************)
Piece(p, t, i, from, to) ==
    IF p[i] = Star THEN from <= to
    ELSE to = from + 1 /\ (p[i] = Question \/ p[i] = t[to])

\* The first n bytes of p account for the first m of t.
Cuts(p, t, n, m, cut) ==
    /\ cut[0] = 0 /\ cut[n] = m
    /\ \A i \in 1 .. n : Piece(p, t, i, cut[i - 1], cut[i])
Accounts(p, t, n, m) == \E cut \in [0 .. n -> 0 .. m] : Cuts(p, t, n, m, cut)

Matches(p, t) == Accounts(p, t, Len(p), Len(t))

Init ==
    /\ pattern \in Patterns
    /\ s \in Subjects
    /\ px = 0 /\ sx = 0
    /\ star = -1 /\ mark = 0
    /\ result = "looping"

InLoop == result = "looping" /\ sx < Len(s)
HasPattern == px < Len(pattern)

\* The next byte of the pattern is '?' or the next byte of the subject.
Literal == HasPattern /\ (pattern[px + 1] = Question \/ pattern[px + 1] = s[sx + 1])
AtStar == HasPattern /\ pattern[px + 1] = Star

TakeByte ==
    /\ InLoop /\ Literal
    /\ px' = px + 1
    /\ sx' = sx + 1
    /\ UNCHANGED <<args, star, mark, result>>

\* TakeStar, with a '*' that stands for at least one byte.
TakeStarPlus ==
    /\ InLoop /\ ~Literal /\ AtStar
    /\ star' = px
    /\ mark' = sx + 1
    /\ px' = px + 1
    /\ UNCHANGED <<args, sx, result>>

TakeStar ==
    /\ InLoop /\ ~Literal /\ AtStar
    /\ star' = px
    /\ mark' = sx
    /\ px' = px + 1
    /\ UNCHANGED <<args, sx, result>>

\* Backtrack, forgetting how far it got.
BacktrackOnce ==
    /\ InLoop /\ ~Literal /\ ~AtStar /\ star # -1
    /\ px' = star + 1
    /\ sx' = mark + 1
    /\ UNCHANGED <<args, star, mark, result>>

\* Give the last '*' one byte more and try again behind it.
Backtrack ==
    /\ InLoop /\ ~Literal /\ ~AtStar /\ star # -1
    /\ px' = star + 1
    /\ mark' = mark + 1
    /\ sx' = mark + 1
    /\ UNCHANGED <<args, star, result>>

GiveUp ==
    /\ InLoop /\ ~Literal /\ ~AtStar /\ star = -1
    /\ result' = "no"
    /\ UNCHANGED <<args, px, sx, star, mark>>

LeaveLoop ==
    /\ result = "looping" /\ sx = Len(s)
    /\ result' = "trailing"
    /\ UNCHANGED <<args, px, sx, star, mark>>

\* SkipStar, skipping '?' as well.
SkipWild ==
    /\ result = "trailing" /\ HasPattern /\ pattern[px + 1] \in {Star, Question}
    /\ px' = px + 1
    /\ UNCHANGED <<args, sx, star, mark, result>>

SkipStar ==
    /\ result = "trailing" /\ AtStar
    /\ px' = px + 1
    /\ UNCHANGED <<args, sx, star, mark, result>>

Finish ==
    /\ result = "trailing" /\ ~AtStar
    /\ result' = IF px = Len(pattern) THEN "yes" ELSE "no"
    /\ UNCHANGED <<args, px, sx, star, mark>>

Next == TakeByte \/ TakeStar \/ Backtrack \/ GiveUp \/ LeaveLoop \/ SkipStar \/ Finish

Spec == Init /\ [][Next]_vars

\* The goroutine that called it runs.
FairSpec == Spec /\ WF_vars(Next)

(***************************************************************************)
(* Properties.                                                             *)
(***************************************************************************)
\* Both indexes and the backtracking state stay within the strings.
TypeOK ==
    /\ pattern \in Patterns /\ s \in Subjects
    /\ px \in 0 .. Len(pattern) /\ sx \in 0 .. Len(s)
    /\ star \in -1 .. px - 1 /\ mark \in 0 .. sx
    /\ IF star = -1 THEN mark = 0 ELSE pattern[star + 1] = Star
    /\ result \in {"looping", "trailing", "yes", "no"}
    /\ result \in {"trailing", "yes"} => sx = Len(s)

\* A rule never applies to a request its pattern does not mean: whatever the
\* strings, a match is a match (policy.go:380-382).
Sound == result = "yes" => Matches(pattern, s)

\* A subject a caller can write, free of '*', is matched by every pattern that
\* means it (policy.go:380-382).
StarFree == \A i \in 1 .. Len(s) : s[i] # Star
Complete == result = "no" /\ StarFree => ~Matches(pattern, s)

\* The answer is the pattern's meaning: nothing matched that should not be, and
\* nothing missed that a caller can write (policy.go:380-405, with all it goes
\* back over).
Exact == Sound /\ Complete

\* What the loop has consumed, and what it could still go back to.
Consumed ==
    /\ result \in {"looping", "trailing"} => Accounts(pattern, s, px, sx)
    /\ star # -1 => \E k \in 0 .. mark : Accounts(pattern, s, star, k)

\* If the pattern means the subject, some way of cutting it is still ahead: it
\* gives the last '*' no less than mark, and each byte since is one byte.
Ahead(cut) ==
    /\ Cuts(pattern, s, Len(pattern), Len(s), cut)
    /\ cut[star + 1] >= mark
    /\ cut[px] >= sx
    /\ result = "looping" => cut[px] - cut[star + 1] = px - star - 1
                             /\ sx - mark = px - star - 1
StillAhead ==
    StarFree /\ result # "yes" /\ Matches(pattern, s) =>
        /\ result # "no"
        /\ \E cut \in [0 .. Len(pattern) -> 0 .. Len(s)] : Ahead(cut)

Inductive == TypeOK /\ Consumed /\ Sound /\ StillAhead

\* Every match is decided, however the pattern makes the loop go back.
Terminates == <>(result \in {"yes", "no"})

\* The function the policy models use is what the loop computes, on every
\* subject, those with a '*' included (policy.go:383-405).
FunctionAgrees == result \in {"yes", "no"} => (result = "yes") = WildcardMatch(pattern, s)
=============================================================================
