----------------------------- MODULE MCDelivery -----------------------------
(* Delivery with two opens of one file, or any two commands that matter to   *)
(* each other no further than by what they do alone.                         *)
EXTENDS Delivery

CONSTANTS q1, q2

MCRefs == {1, 2}

\* Everything; each secret without the other, one of them for brokered use only.
MCPolicies == {MCRefs \X Modes, {1} \X Modes, {2} \X {"exec", "mount"}}

MCProfiles == {{}, MCRefs}

Pair(a, b) == [q \in {q1, q2} |-> IF q = q1 THEN a ELSE b]
MCAssignments == {Pair("mount", "mount"), Pair("exec", "probe"), Pair("get", "get")}
=============================================================================
