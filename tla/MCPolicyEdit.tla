---------------------------- MODULE MCPolicyEdit ----------------------------
(* Small instances of PolicyEdit: one operator and several commands, or two  *)
(* operators at once.                                                        *)
EXTENDS PolicyEdit

MCSlots == 1 .. 3
=============================================================================
