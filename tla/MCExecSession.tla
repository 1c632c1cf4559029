---------------------------- MODULE MCExecSession ---------------------------
(* ExecSession with two secrets: one refused, or one fetched, after another. *)
EXTENDS ExecSession
=============================================================================
