--------------------------- MODULE BrokerPromise ---------------------------
(***************************************************************************)
(* What the broker promises about each request, and nothing of how it is   *)
(* served: no goroutines, no order of steps, no failures to handle.        *)
(***************************************************************************)
EXTENDS Naturals

CONSTANTS Conns, Authz, BadRef, Codes, None

VARIABLES
  call,     \* who asks for what
  using,    \* requests whose credential exists somewhere outside the store
  exposed,  \* those of them that have it outside the broker's memory
  ledger,   \* the durable audit records
  told      \* what each client was told

vars == <<call, using, exposed, ledger, told>>

WellFormed(r) == r.frame = "decodes" /\ r.protocol = 1 /\ r.operation # BadRef
Authorized(c) == <<call[c].uid, call[c].req.operation>> \in Authz
Permitted(c)  == WellFormed(call[c].req) /\ Authorized(c) /\ call[c].req.inputsOK

\* The answers a request may get.  DENIED does not depend on what exists.
Admissible(c, code) ==
  \/ ~WellFormed(call[c].req) /\ code \in {"malformed_request", "unsupported_protocol"}
  \/ WellFormed(call[c].req) /\ ~Authorized(c) /\ code = "not_authorized"
  \/ /\ WellFormed(call[c].req) /\ Authorized(c) /\ ~call[c].req.inputsOK
     /\ code = "invalid_input"
  \/ /\ Permitted(c)
     /\ code \in {"OK", "consumer_failed", "result_too_large", "timeout",
                  "broker_unavailable"}

\* A record may say OK where the client was told less, never the reverse.
Agree(recorded, answer) ==
  \/ recorded = answer
  \/ recorded = "OK" /\ answer = "broker_unavailable"

Init == using = {} /\ exposed = {} /\ ledger = {} /\ told = [c \in Conns |-> None]

Take(c) ==
  /\ Permitted(c) /\ told[c] = None
  /\ using' = using \cup {c}
  /\ exposed' \in {exposed, exposed \cup {c}}
  /\ UNCHANGED <<call, ledger, told>>

Withdraw ==
  /\ using' \subseteq using /\ exposed' \subseteq exposed
  /\ UNCHANGED <<call, ledger, told>>

Commit ==
  /\ ledger \subseteq ledger'
  /\ \A r \in ledger' \ ledger :
       /\ Admissible(r.conn, r.code)
       /\ told[r.conn] # None => Agree(r.code, told[r.conn])
  /\ UNCHANGED <<call, using, exposed, told>>

Tell(c, code) ==
  /\ told[c] = None /\ Admissible(c, code) /\ c \notin exposed
  /\ code = "OK" => \E r \in ledger : r.conn = c /\ r.code = "OK"
  /\ \A r \in ledger : r.conn = c => Agree(r.code, code)
  /\ told' = [told EXCEPT ![c] = code]
  /\ UNCHANGED <<call, using, exposed, ledger>>

Next == \/ Withdraw \/ Commit
        \/ \E c \in Conns : Take(c) \/ \E code \in Codes : Tell(c, code)

Spec == Init /\ [][Next]_vars
=============================================================================
