----------------------------- MODULE MCWildcard -----------------------------
(* Wildcard over every short pattern and every short subject.               *)
EXTENDS Wildcard

CONSTANTS a, b

UpTo(n, set) == UNION {[1 .. k -> set] : k \in 0 .. n}

MCBytes == {a, b, Star, Question}
MCPatterns == UpTo(3, MCBytes) \cup UpTo(4, {a, Star})
MCSubjects == UpTo(4, {a, b}) \cup UpTo(3, MCBytes)
=============================================================================
