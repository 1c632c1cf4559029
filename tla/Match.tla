------------------------------- MODULE Match --------------------------------
(***************************************************************************)
(* wildcardMatch (internal/policy/policy.go) as a function of its two      *)
(* strings.  Wildcard has the loop step by step, and shows that this is    *)
(* what it computes; the policy instances take their matcher from here.    *)
(***************************************************************************)
EXTENDS Integers, Sequences

CONSTANTS Star,        \* '*'
          Question     \* '?'

ASSUME WildcardsValid == Star # Question

\* Whether nothing but '*' is left of p after its first px bytes.
OnlyStars(p, px) == \A i \in px + 1 .. Len(p) : p[i] = Star

\* loop[<<px, sx, star, mark>>] is the answer of the loop entered with these values.
WildcardMatch(p, s) ==
    LET Fits(px, sx) == px < Len(p) /\ (p[px + 1] = Question \/ p[px + 1] = s[sx + 1])
        loop[c \in Nat \X Nat \X (Nat \cup {-1}) \X Nat] ==
            LET px == c[1]
                sx == c[2]
                star == c[3]
                mark == c[4]
            IN  IF sx >= Len(s) THEN OnlyStars(p, px)
                ELSE IF Fits(px, sx) THEN loop[<<px + 1, sx + 1, star, mark>>]
                ELSE IF px < Len(p) /\ p[px + 1] = Star THEN loop[<<px + 1, sx, px, sx>>]
                ELSE IF star # -1 THEN loop[<<star + 1, mark + 1, star, mark + 1>>]
                ELSE FALSE
    IN  loop[<<0, 0, -1, 0>>]
=============================================================================
