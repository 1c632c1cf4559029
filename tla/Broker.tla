------------------------------- MODULE Broker -------------------------------
(***************************************************************************)
(* parzival-broker: one Serve loop, one handler goroutine per accepted     *)
(* connection, a shared audit file, and the consumers the handlers launch. *)
(*                                                                         *)
(* Each connection carries exactly one request, so a connection, its       *)
(* handler and its request share one name c \in Conns.  What a client asks *)
(* for is abstracted to what the handler tells apart: the uid the kernel   *)
(* reports, whether the frame arrives and decodes, the protocol number,    *)
(* the operation reference and whether BuildArgv accepts the inputs.       *)
(***************************************************************************)
EXTENDS Integers, FiniteSets

CONSTANTS
  Conns,      \* connections, one request each
  Uids,       \* peer uids
  Refs,       \* syntactically valid <consumer>.<operation> references
  Declared,   \* those a loaded consumer definition declares
  Secrets,    \* names of the secrets profiles declare
  SecretsOf,  \* what the profile of a declared operation needs
  Authz,      \* the <<uid, reference>> pairs of authz.json
  Requests,   \* the requests clients may send
  ForkOps,    \* operations whose consumer may leave a child holding stdout
  BigOps      \* operations whose result may exceed the socket's send buffer

BadRef == "bad reference"      \* "", or a string operationRE does not match

RequestType == [frame     : {"decodes", "garbage", "oversized"},
                protocol  : Int,
                operation : Refs \cup {BadRef},
                inputsOK  : BOOLEAN]

ASSUME ConnsFinite    == IsFiniteSet(Conns)
ASSUME RequestsTyped  == Requests \subseteq RequestType
ASSUME BadRefIsBad    == BadRef \notin Refs
\* What Parse and Validate let through: entries that grant declared operations.
Resolves(entries) == \A e \in entries : e \in Uids \X Declared
\* newServer refuses to start with an authorization file that does not.
ASSUME AuthzValidated == Declared \subseteq Refs /\ Resolves(Authz)
ASSUME ProfilesLoaded == SecretsOf \in [Declared -> SUBSET Secrets]

(***************************************************************************)
(* A response is its error code; OK is the code of a success.              *)
(***************************************************************************)
Codes == {"OK", "malformed_request", "unsupported_protocol", "not_authorized",
          "invalid_input", "consumer_failed", "result_too_large", "timeout",
          "broker_unavailable"}
None == "none"

AuditRecord == [conn : Conns, code : Codes]

\* What a consumer leaves behind: an exit error, and its captured stdout.
LaunchResult == [exitErr : BOOLEAN, output : {"valid", "invalid", "truncated"}]
Unlaunched   == [exitErr |-> TRUE, output |-> "invalid"]

VARIABLES
  host,       \* "running", "dead" (the process is gone) or "off" (no power)
  cancelled,  \* the context of main's NotifyContext is done
  serve,      \* where Serve is
  listener,   \* the listening socket
  closer,     \* the goroutine that closes the listener on ctx.Done
  wg,         \* Serve's WaitGroup
  result,     \* what Serve returned
  call,       \* who connects as c, and the request c carries
  client,     \* the far end of c
  got,        \* the code delivered to the client of c
  pc,         \* where the handler of c is
  ctx,        \* the operation context of c
  resp,       \* the response the handler of c holds
  held,       \* secrets of c in the broker's memory
  rendered,   \* the rendered profile of c is in the broker's memory
  dir,        \* the runtime directory of c
  proc,       \* the consumer process of c
  launch,     \* what that process left
  orphan,     \* a descendant of it still holds its stdout
  page,       \* audit lines written
  disk,       \* audit lines synced
  auditErr    \* connections whose audit.Write returned an error

serveVars  == <<serve, listener, closer, wg, result>>
clientVars == <<client, got>>
credVars   == <<held, rendered, dir>>
procVars   == <<proc, launch, orphan>>
auditVars  == <<page, disk, auditErr>>
vars == <<host, cancelled, serveVars, call, clientVars, pc, ctx, resp,
          credVars, procVars, auditVars>>

Operation(c) == call[c].req.operation
Needed(c)    == SecretsOf[Operation(c)]

\* Handler positions, in program order.  "backlog" is a connection the kernel
\* holds for Accept; "dropped" one that died there.
InOperation == {"fetch", "mkdir", "write", "launch", "run"}
Handling    == InOperation \cup {"peer", "read", "decide", "cleanup", "audit",
                                 "sync", "respond", "unwind"}
Positions   == Handling \cup {"none", "backlog", "dropped", "done"}

TypeOK ==
  /\ host \in {"running", "dead", "off"}
  /\ cancelled \in BOOLEAN
  /\ serve \in {"start", "accepting", "draining", "returned"}
  /\ listener \in {"unbound", "open", "closed"}
  /\ closer \in {"off", "waiting", "done"}
  /\ wg \in Nat
  /\ result \in {"none", "nil", "error"}
  /\ call \in [Conns -> [uid : Uids, req : Requests]]
  /\ client \in [Conns -> {"away", "connected", "sent", "stalled", "left"}]
  /\ got \in [Conns -> Codes \cup {None}]
  /\ pc \in [Conns -> Positions]
  /\ ctx \in [Conns -> {"none", "live", "deadline", "canceled"}]
  /\ resp \in [Conns -> Codes \cup {None}]
  /\ held \in [Conns -> SUBSET Secrets]
  /\ rendered \in [Conns -> BOOLEAN]
  /\ dir \in [Conns -> {"none", "empty", "file"}]
  /\ proc \in [Conns -> {"none", "running", "exited"}]
  /\ launch \in [Conns -> LaunchResult]
  /\ orphan \in [Conns -> BOOLEAN]
  /\ page \subseteq AuditRecord
  /\ disk \subseteq AuditRecord
  /\ auditErr \subseteq Conns

Init ==
  /\ host = "running" /\ cancelled = FALSE
  /\ serve = "start" /\ listener = "unbound" /\ closer = "off"
  /\ wg = 0 /\ result = "none"
  /\ call \in [Conns -> [uid : Uids, req : Requests]]
  /\ client = [c \in Conns |-> "away"]
  /\ got = [c \in Conns |-> None]
  /\ pc = [c \in Conns |-> "none"]
  /\ ctx = [c \in Conns |-> "none"]
  /\ resp = [c \in Conns |-> None]
  /\ held = [c \in Conns |-> {}]
  /\ rendered = [c \in Conns |-> FALSE]
  /\ dir = [c \in Conns |-> "none"]
  /\ proc = [c \in Conns |-> "none"]
  /\ launch = [c \in Conns |-> Unlaunched]
  /\ orphan = [c \in Conns |-> FALSE]
  /\ page = {} /\ disk = {} /\ auditErr = {}

(***************************************************************************)
(* Serve, its listener, and the signal.                                    *)
(***************************************************************************)

Listen ==
  /\ host = "running" /\ serve = "start"
  /\ serve' = "accepting" /\ listener' = "open" /\ closer' = "waiting"
  /\ UNCHANGED <<host, cancelled, wg, result, call, clientVars, pc, ctx, resp,
                 credVars, procVars, auditVars>>

\* net.Listen or setSocketGroupAndMode failed: nothing is ever accepted.
ListenFails ==
  /\ host = "running" /\ serve = "start"
  /\ serve' = "returned" /\ listener' = "closed" /\ result' = "error"
  /\ UNCHANGED <<host, cancelled, closer, wg, call, clientVars, pc, ctx, resp,
                 credVars, procVars, auditVars>>

\* SIGTERM or SIGINT.  Cancelling the parent cancels every operation context
\* derived from it that is not already done.
Cancel ==
  /\ host = "running" /\ ~cancelled
  /\ cancelled' = TRUE
  /\ ctx' = [c \in Conns |-> IF ctx[c] = "live" THEN "canceled" ELSE ctx[c]]
  /\ UNCHANGED <<host, serveVars, call, clientVars, pc, resp, credVars,
                 procVars, auditVars>>

DropBacklog ==
  pc' = [c \in Conns |-> IF pc[c] = "backlog" THEN "dropped" ELSE pc[c]]

\* Variant with a bug: nothing closes the listener when ctx is done.
CloseListenerNever ==
  /\ host = "running" /\ closer = "waiting" /\ cancelled
  /\ closer' = "done"
  /\ UNCHANGED <<host, cancelled, serve, listener, wg, result, call, clientVars,
                 pc, ctx, resp, credVars, procVars, auditVars>>

CloseListener ==
  /\ host = "running" /\ closer = "waiting" /\ cancelled
  /\ closer' = "done" /\ listener' = "closed" /\ DropBacklog
  /\ UNCHANGED <<host, cancelled, serve, wg, result, call, clientVars, ctx,
                 resp, credVars, procVars, auditVars>>

\* The shutdown channel is closed: the goroutine ends, the listener stays.
CloserEnds ==
  /\ host = "running" /\ closer = "waiting" /\ serve \in {"draining", "returned"}
  /\ closer' = "done"
  /\ UNCHANGED <<host, cancelled, serve, listener, wg, result, call, clientVars,
                 pc, ctx, resp, credVars, procVars, auditVars>>

Accept(c) ==
  /\ host = "running" /\ serve = "accepting" /\ listener = "open"
  /\ pc[c] = "backlog"
  /\ wg' = wg + 1
  /\ pc' = [pc EXCEPT ![c] = "peer"]
  /\ UNCHANGED <<host, cancelled, serve, listener, closer, result, call,
                 clientVars, ctx, resp, credVars, procVars, auditVars>>

\* Accept returns an error, because the listener is closed or on its own
\* (descriptors exhausted, say); either way the loop is left for good.
AcceptFails ==
  /\ host = "running" /\ serve = "accepting"
  /\ serve' = "draining"
  /\ UNCHANGED <<host, cancelled, listener, closer, wg, result, call,
                 clientVars, pc, ctx, resp, credVars, procVars, auditVars>>

\* Variant with a bug: Serve returns without wg.Wait.
DrainedAlways == TRUE

Drained == wg = 0

ServeReturns ==
  /\ host = "running" /\ serve = "draining" /\ Drained
  /\ serve' = "returned"
  /\ result' = IF cancelled THEN "nil" ELSE "error"
  /\ UNCHANGED <<host, cancelled, listener, closer, wg, call, clientVars, pc,
                 ctx, resp, credVars, procVars, auditVars>>

\* main returns Serve's result and the process exits.
Exit ==
  /\ host = "running" /\ serve = "returned"
  /\ host' = "dead" /\ listener' = "closed" /\ DropBacklog
  /\ UNCHANGED <<cancelled, serve, closer, wg, result, call, clientVars, ctx,
                 resp, credVars, procVars, auditVars>>

(***************************************************************************)
(* The environment: clients, consumers, and the machine.                   *)
(***************************************************************************)

Connect(c) ==
  /\ client[c] = "away" /\ listener = "open" /\ host = "running"
  /\ client' = [client EXCEPT ![c] = "connected"]
  /\ pc' = [pc EXCEPT ![c] = "backlog"]
  /\ UNCHANGED <<host, cancelled, serveVars, call, got, ctx, resp, credVars,
                 procVars, auditVars>>

Send(c) ==
  /\ client[c] = "connected" /\ pc[c] \in {"backlog", "peer", "read"}
  /\ client' = [client EXCEPT ![c] = "sent"]
  /\ UNCHANGED <<host, cancelled, serveVars, call, got, pc, ctx, resp, credVars,
                 procVars, auditVars>>

\* The client stays connected and does not read, which only a result larger
\* than the send buffer can tell.
Stall(c) ==
  /\ client[c] = "sent" /\ pc[c] \in Handling /\ Operation(c) \in BigOps
  /\ client' = [client EXCEPT ![c] = "stalled"]
  /\ UNCHANGED <<host, cancelled, serveVars, call, got, pc, ctx, resp, credVars,
                 procVars, auditVars>>

\* The client disconnects; what it already sent can still be read.
Leave(c) ==
  /\ client[c] \in {"connected", "sent", "stalled"}
  /\ client' = [client EXCEPT ![c] = "left"]
  /\ UNCHANGED <<host, cancelled, serveVars, call, got, pc, ctx, resp, credVars,
                 procVars, auditVars>>

LeavesChild(c) ==
  \/ UNCHANGED orphan
  \/ Operation(c) \in ForkOps /\ orphan' = [orphan EXCEPT ![c] = TRUE]

\* The consumer ends by itself, well or badly, possibly leaving a descendant
\* with its stdout.  It outlives a broker that died.
ConsumerExits(c) ==
  /\ host # "off" /\ proc[c] = "running"
  /\ \E r \in LaunchResult : launch' = [launch EXCEPT ![c] = r]
  /\ LeavesChild(c)
  /\ proc' = [proc EXCEPT ![c] = "exited"]
  /\ UNCHANGED <<host, cancelled, serveVars, call, clientVars, pc, ctx, resp,
                 credVars, auditVars>>

OrphanEnds(c) ==
  /\ host # "off" /\ orphan[c]
  /\ orphan' = [orphan EXCEPT ![c] = FALSE]
  /\ UNCHANGED <<host, cancelled, serveVars, call, clientVars, pc, ctx, resp,
                 credVars, proc, launch, auditVars>>

\* The broker process is killed (or a handler panics): its memory is gone,
\* its files and its consumers are not.
Kill ==
  /\ host = "running"
  /\ host' = "dead" /\ listener' = "closed" /\ DropBacklog
  /\ held' = [c \in Conns |-> {}]
  /\ rendered' = [c \in Conns |-> FALSE]
  /\ UNCHANGED <<cancelled, serve, closer, wg, result, call, clientVars, ctx,
                 resp, dir, procVars, auditVars>>

\* The machine loses power: tmpfs, processes and unsynced writes are gone.
PowerLoss ==
  /\ host # "off"
  /\ host' = "off" /\ listener' = "closed" /\ DropBacklog
  /\ held' = [c \in Conns |-> {}]
  /\ rendered' = [c \in Conns |-> FALSE]
  /\ dir' = [c \in Conns |-> "none"]
  /\ proc' = [c \in Conns |-> IF proc[c] = "running" THEN "none" ELSE proc[c]]
  /\ orphan' = [c \in Conns |-> FALSE]
  /\ page' = disk
  /\ UNCHANGED <<cancelled, serve, closer, wg, result, call, clientVars, ctx,
                 resp, launch, disk, auditErr>>

(***************************************************************************)
(* handleConn.                                                             *)
(***************************************************************************)

\* One step of the handler of c: it stands at "from" and goes on at "to".
Step(c, from, to) ==
  /\ host = "running" /\ pc[c] = from
  /\ pc' = [pc EXCEPT ![c] = to]
  /\ UNCHANGED <<host, cancelled, serve, listener, closer, result, call, client>>

\* The handler settles on a response and goes on at "to".
Settle(c, from, to, code) ==
  /\ Step(c, from, to)
  /\ resp' = [resp EXCEPT ![c] = code]

PeerCredentials(c) ==
  /\ Step(c, "peer", "read")
  /\ UNCHANGED <<wg, got, ctx, resp, credVars, procVars, auditVars>>

\* No verified uid: close, without a response and without an audit record.
PeerCredentialsFail(c) ==
  /\ Step(c, "peer", "unwind")
  /\ UNCHANGED <<wg, got, ctx, resp, credVars, procVars, auditVars>>

\* The frame was sent before the client left, if it left: it is still there.
ReadFrame(c) ==
  /\ Step(c, "read", "decide")
  /\ client[c] \in {"sent", "stalled", "left"}
  /\ call[c].req.frame # "oversized"
  /\ UNCHANGED <<wg, got, ctx, resp, credVars, procVars, auditVars>>

\* Oversized, gone, or the read deadline passed.
ReadFrameFails(c) ==
  /\ Step(c, "read", "unwind")
  /\ UNCHANGED <<wg, got, ctx, resp, credVars, procVars, auditVars>>

Decide(uid, operation) == <<uid, operation>> \in Authz

\* Variant with a bug: the reference is resolved before the peer is authorized.
VerdictResolvesFirst(uid, req) ==
  IF req.frame = "garbage" \/ req.protocol <= 0 THEN "malformed_request"
  ELSE IF req.protocol # 1                  THEN "unsupported_protocol"
  ELSE IF req.operation = BadRef            THEN "malformed_request"
  ELSE IF req.operation \notin Declared     THEN "broker_unavailable"
  ELSE IF ~Decide(uid, req.operation)       THEN "not_authorized"
  ELSE IF ~req.inputsOK                     THEN "invalid_input"
  ELSE None

\* Steps 3 to 7, in their order: they read nothing another goroutine writes.
\* None is the verdict that lets the operation start.
Verdict(uid, req) ==
  IF req.frame = "garbage" \/ req.protocol <= 0 THEN "malformed_request"
  ELSE IF req.protocol # 1                  THEN "unsupported_protocol"
  ELSE IF req.operation = BadRef            THEN "malformed_request"
  ELSE IF ~Decide(uid, req.operation)       THEN "not_authorized"
  ELSE IF req.operation \notin Declared     THEN "broker_unavailable"
  ELSE IF ~req.inputsOK                     THEN "invalid_input"
  ELSE None

Refuse(c) ==
  LET v == Verdict(call[c].uid, call[c].req) IN
  /\ v # None
  /\ Settle(c, "decide", "audit", v)
  /\ UNCHANGED <<wg, got, ctx, credVars, procVars, auditVars>>

\* Variant with a bug: inputs are left for the consumer to reject.
StartAnyway(c) ==
  /\ Verdict(call[c].uid, call[c].req) \in {None, "invalid_input"}
  /\ Step(c, "decide", "fetch")
  /\ ctx' = [ctx EXCEPT ![c] = IF cancelled THEN "canceled" ELSE "live"]
  /\ UNCHANGED <<wg, got, resp, credVars, procVars, auditVars>>

\* The operation context is derived from Serve's: born cancelled if that is.
StartOperation(c) ==
  /\ Verdict(call[c].uid, call[c].req) = None
  /\ Step(c, "decide", "fetch")
  /\ ctx' = [ctx EXCEPT ![c] = IF cancelled THEN "canceled" ELSE "live"]
  /\ UNCHANGED <<wg, got, resp, credVars, procVars, auditVars>>

\* Variant with a bug: the operation context has no deadline.
DeadlineNever(c) == FALSE /\ UNCHANGED vars

\* The deadline passes while something may still look at the context.
Deadline(c) ==
  /\ host = "running" /\ pc[c] \in InOperation /\ ctx[c] = "live"
  /\ ctx' = [ctx EXCEPT ![c] = "deadline"]
  /\ UNCHANGED <<host, cancelled, serveVars, call, clientVars, pc, resp,
                 credVars, procVars, auditVars>>

\* One turn of fetchSecrets' loop, over a map: in any order.
FetchSecret(c) ==
  /\ Step(c, "fetch", "fetch") /\ ctx[c] = "live"
  /\ \E s \in Needed(c) \ held[c] : held' = [held EXCEPT ![c] = @ \cup {s}]
  /\ UNCHANGED <<wg, got, ctx, resp, rendered, dir, procVars, auditVars>>

\* ParseRef, resolve or Get failed: zero whatever was already fetched.
FetchFails(c) ==
  /\ Settle(c, "fetch", "audit", "broker_unavailable") /\ held[c] # Needed(c)
  /\ held' = [held EXCEPT ![c] = {}]
  /\ UNCHANGED <<wg, got, ctx, rendered, dir, procVars, auditVars>>

Render(c) ==
  /\ Step(c, "fetch", "mkdir") /\ held[c] = Needed(c)
  /\ rendered' = [rendered EXCEPT ![c] = TRUE]
  /\ UNCHANGED <<wg, got, ctx, resp, held, dir, procVars, auditVars>>

RenderFails(c) ==
  /\ Settle(c, "fetch", "audit", "broker_unavailable") /\ held[c] = Needed(c)
  /\ UNCHANGED <<wg, got, ctx, credVars, procVars, auditVars>>

MakeDir(c) ==
  /\ Step(c, "mkdir", "write")
  /\ dir' = [dir EXCEPT ![c] = "empty"]
  /\ UNCHANGED <<wg, got, ctx, resp, held, rendered, procVars, auditVars>>

MakeDirFails(c) ==
  /\ Settle(c, "mkdir", "audit", "broker_unavailable")
  /\ UNCHANGED <<wg, got, ctx, credVars, procVars, auditVars>>

WriteFile(c) ==
  /\ Step(c, "write", "launch")
  /\ dir' = [dir EXCEPT ![c] = "file"]
  /\ UNCHANGED <<wg, got, ctx, resp, held, rendered, procVars, auditVars>>

\* A failed write may have left part of the file.
WriteFileFails(c) ==
  /\ Settle(c, "write", "cleanup", "broker_unavailable")
  /\ \E d \in {"empty", "file"} : dir' = [dir EXCEPT ![c] = d]
  /\ UNCHANGED <<wg, got, ctx, held, rendered, procVars, auditVars>>

\* cmd.Start: refused when the context is already done.
Launch(c) ==
  /\ Step(c, "launch", "run") /\ ctx[c] = "live"
  /\ proc' = [proc EXCEPT ![c] = "running"]
  /\ UNCHANGED <<wg, got, ctx, resp, credVars, launch, orphan, auditVars>>

LaunchFails(c) ==
  /\ Step(c, "launch", "run")
  /\ proc' = [proc EXCEPT ![c] = "exited"]
  /\ launch' = [launch EXCEPT ![c] = Unlaunched]
  /\ UNCHANGED <<wg, got, ctx, resp, credVars, orphan, auditVars>>

\* exec.CommandContext kills the consumer, and only it, once ctx is done.
KillConsumer(c) ==
  /\ host = "running" /\ pc[c] = "run" /\ proc[c] = "running"
  /\ ctx[c] \in {"deadline", "canceled"}
  /\ proc' = [proc EXCEPT ![c] = "exited"]
  /\ launch' = [launch EXCEPT ![c] = Unlaunched]
  /\ LeavesChild(c)
  /\ UNCHANGED <<host, cancelled, serveVars, call, clientVars, pc, ctx, resp,
                 credVars, auditVars>>

\* Variant with a bug: the output decides, whatever the exit status was.
ClassifyOutputFirst(timedOut, res) ==
  IF timedOut                       THEN "timeout"
  ELSE IF res.output = "truncated"  THEN "result_too_large"
  ELSE IF res.output = "invalid"    THEN "consumer_failed"
  ELSE "OK"

Classify(timedOut, res) ==
  IF timedOut                       THEN "timeout"
  ELSE IF res.exitErr               THEN "consumer_failed"
  ELSE IF res.output = "truncated"  THEN "result_too_large"
  ELSE IF res.output = "invalid"    THEN "consumer_failed"
  ELSE "OK"

\* cmd.Run returns once the process is reaped and its stdout is closed; only
\* then is ctx.Err() looked at.
RunReturns(c) ==
  /\ proc[c] = "exited" /\ ~orphan[c]
  /\ Settle(c, "run", "cleanup", Classify(ctx[c] = "deadline", launch[c]))
  /\ UNCHANGED <<wg, got, ctx, credVars, procVars, auditVars>>

Cleanup(c) ==
  /\ Step(c, "cleanup", "audit")
  /\ dir' = [dir EXCEPT ![c] = "none"]
  /\ UNCHANGED <<wg, got, ctx, resp, held, rendered, procVars, auditVars>>

(***************************************************************************)
(* finish: audit, then respond.                                            *)
(***************************************************************************)

Record(c) == [conn |-> c, code |-> resp[c]]

AuditLine(c) ==
  /\ Step(c, "audit", "sync")
  /\ page' = page \cup {Record(c)}
  /\ UNCHANGED <<wg, got, ctx, resp, credVars, procVars, disk, auditErr>>

\* Variant with a bug: a failed audit write is only logged.
DowngradeNot(c) == UNCHANGED resp /\ auditErr' = auditErr \cup {c}

\* Variant with a bug: any answer is downgraded, so the log says another one.
DowngradeAll(c) ==
  /\ resp' = [resp EXCEPT ![c] = "broker_unavailable"]
  /\ auditErr' = auditErr \cup {c}

\* An OK whose record could not be written is not reported.
Downgrade(c) ==
  /\ resp' = [resp EXCEPT ![c] = IF @ = "OK" THEN "broker_unavailable" ELSE @]
  /\ auditErr' = auditErr \cup {c}

\* Variant with a bug: a failed write goes unnoticed.
AuditLineSkipped(c) ==
  /\ Step(c, "audit", "respond")
  /\ UNCHANGED <<wg, got, ctx, resp, credVars, procVars, auditVars>>

\* The file cannot be opened or written.
AuditLineFails(c) ==
  /\ Step(c, "audit", "respond") /\ Downgrade(c)
  /\ UNCHANGED <<wg, got, ctx, credVars, procVars, page, disk>>

\* Variant with a bug: the file is not synced.
AuditSyncSkipped(c) ==
  /\ Step(c, "sync", "respond")
  /\ UNCHANGED <<wg, got, ctx, resp, credVars, procVars, auditVars>>

\* fsync covers the file, so other handlers' lines as well.
AuditSync(c) ==
  /\ Step(c, "sync", "respond")
  /\ disk' = disk \cup page
  /\ UNCHANGED <<wg, got, ctx, resp, credVars, procVars, page, auditErr>>

\* fsync fails: the line is in the file, and may yet reach the disk.
AuditSyncFails(c) ==
  /\ Step(c, "sync", "respond") /\ Downgrade(c)
  /\ UNCHANGED <<wg, got, ctx, credVars, procVars, page, disk>>

\* The write has no deadline: a large result waits for a client that reads.
Blocked(c) == resp[c] = "OK" /\ Operation(c) \in BigOps /\ client[c] = "stalled"

Respond(c) ==
  /\ Step(c, "respond", "unwind")
  /\ client[c] \in {"sent", "stalled"} /\ ~Blocked(c)
  /\ got' = [got EXCEPT ![c] = resp[c]]
  /\ UNCHANGED <<wg, ctx, resp, credVars, procVars, auditVars>>

RespondFails(c) ==
  /\ Step(c, "respond", "unwind") /\ client[c] = "left"
  /\ UNCHANGED <<wg, got, ctx, resp, credVars, procVars, auditVars>>

\* The deferred calls: dir.Cleanup, Zero(rendered), zeroAll(secrets), cancel,
\* conn.Close, and the goroutine's own wg.Done.
Unwind(c) ==
  /\ Step(c, "unwind", "done")
  /\ dir' = [dir EXCEPT ![c] = "none"]
  /\ rendered' = [rendered EXCEPT ![c] = FALSE]
  /\ held' = [held EXCEPT ![c] = {}]
  /\ wg' = wg - 1
  /\ UNCHANGED <<got, ctx, resp, procVars, auditVars>>

(***************************************************************************)
(* The specification.                                                      *)
(***************************************************************************)

ServeStep == Listen \/ ListenFails \/ CloseListener \/ CloserEnds \/ AcceptFails
             \/ ServeReturns \/ Exit

Environment(c) == Connect(c) \/ Send(c) \/ Stall(c) \/ Leave(c)
                  \/ ConsumerExits(c) \/ OrphanEnds(c)

\* Steps the handler of c takes without waiting for anybody.
Receives(c)  == PeerCredentials(c) \/ PeerCredentialsFail(c) \/ ReadFrame(c)
                \/ ReadFrameFails(c) \/ Refuse(c) \/ StartOperation(c)
Prepares(c)  == Render(c) \/ RenderFails(c) \/ MakeDir(c) \/ MakeDirFails(c)
                \/ WriteFile(c) \/ WriteFileFails(c) \/ Launch(c) \/ LaunchFails(c)
Concludes(c) == KillConsumer(c) \/ RunReturns(c) \/ Cleanup(c)
Finishes(c)  == AuditLine(c) \/ AuditLineFails(c) \/ AuditSync(c)
                \/ AuditSyncFails(c) \/ Respond(c) \/ RespondFails(c) \/ Unwind(c)

\* A store whose context is done does not keep the handler any longer.
FetchAborts(c) == ctx[c] # "live" /\ FetchFails(c)

Handler(c) == Receives(c) \/ Prepares(c) \/ Concludes(c) \/ Finishes(c)
              \/ FetchSecret(c) \/ FetchFails(c) \/ Deadline(c)

Next ==
  \/ ServeStep \/ Cancel \/ Kill \/ PowerLoss
  \/ \E c \in Conns : Accept(c) \/ Environment(c) \/ Handler(c)

(***************************************************************************)
(* Goroutines run, timers fire and a done context ends what waits for it.  *)
(* Clients, stores, consumers and their descendants owe nothing.           *)
(***************************************************************************)
Fairness ==
  /\ WF_vars(Listen \/ ListenFails)
  /\ WF_vars(CloseListener)
  /\ WF_vars(listener = "closed" /\ AcceptFails)
  /\ WF_vars(ServeReturns)
  /\ WF_vars(Exit)
  /\ \A c \in Conns :
       /\ WF_vars(Accept(c))
       /\ WF_vars(Deadline(c))
       /\ WF_vars(Receives(c) \/ Prepares(c) \/ Concludes(c) \/ Finishes(c)
                  \/ FetchAborts(c))

Spec == Init /\ [][Next]_vars
FairSpec == Spec /\ Fairness

(***************************************************************************)
(* Safety.                                                                 *)
(***************************************************************************)

Entitled(c) ==
  LET r == call[c].req IN
  /\ r.frame = "decodes" /\ r.protocol = 1 /\ r.inputsOK
  /\ <<call[c].uid, r.operation>> \in Authz

\* The credential of c is somewhere: in memory, in a file, or with a process.
Exposed(c)      == dir[c] # "none" \/ proc[c] = "running"
Credentialed(c) == held[c] # {} \/ rendered[c] \/ Exposed(c)

\* handleConn steps 3-8: nothing is fetched, rendered, written or executed for
\* a request that is not well-formed, authorized and valid.
CredentialOnlyIfEntitled == \A c \in Conns : Credentialed(c) => Entitled(c)

\* Enumeration safety (session.go:78-85): a well-formed request the uid is not
\* authorized for gets one answer, whichever of the operations exist and
\* whatever inputs it has.
Probe(c) == LET r == call[c].req IN
  /\ r.frame = "decodes" /\ r.protocol = 1 /\ r.operation # BadRef
  /\ <<call[c].uid, r.operation>> \notin Authz
NoExistenceOracle ==
  \A c \in Conns : Probe(c) /\ got[c] # None => got[c] = "not_authorized"

\* Audit before respond (session.go:178-203): once a client has seen OK, the
\* record of it survives the process being killed and the machine losing power.
OKHasDurableRecord ==
  \A c \in Conns : got[c] = "OK" => [conn |-> c, code |-> "OK"] \in disk

\* The log never contradicts a client: the two agree, except that an OK whose
\* write or fsync failed is told as broker_unavailable.
LogAgreesWithAnswer ==
  \A r \in page \cup disk :
    \/ got[r.conn] \in {None, r.code}
    \/ r.code = "OK" /\ got[r.conn] = "broker_unavailable"

\* Every request that reached a decision is in the log when the client can
\* learn of it, unless audit.Write said that it is not (SERVICE-PROTOCOL, Audit).
DecidedIsAudited ==
  host # "off" =>
    \A c \in Conns : pc[c] \in {"respond", "unwind", "done"} /\ resp[c] # None =>
      (\E r \in page : r.conn = c) \/ c \in auditErr

\* "removed before the response is written" (SERVICE-PROTOCOL, steps 12-13): an
\* answer leaves no credential file behind it and no consumer running.
CleanBeforeAnswer ==
  \A c \in Conns : got[c] # None => ~Exposed(c) /\ ~orphan[c]

\* What has happened to the consumer of c when its request is answered by code.
Happened(c, code) ==
  /\ code = "OK" => /\ proc[c] = "exited"
                    /\ launch[c] = [exitErr |-> FALSE, output |-> "valid"]
  /\ code = "result_too_large" => ~launch[c].exitErr /\ ctx[c] # "deadline"
  /\ code = "timeout" => ctx[c] = "deadline" /\ proc[c] = "exited"
  /\ code \in {"not_authorized", "invalid_input"} => proc[c] = "none"
  /\ code = "broker_unavailable" => proc[c] = "none" \/ c \in auditErr

\* What the client is told is what happened to the consumer (classify): a timeout
\* is the consumer's, and a deadline that passed before is broker_unavailable,
\* which says that nothing was run unless it was not recorded (session.go:119-191).
AnswerIsTrue == \A c \in Conns : Happened(c, got[c])

\* Serve's WaitGroup: when Serve has returned, no handler is left, no secret is
\* in memory, no credential file on tmpfs and no consumer running.
NothingSurvivesServe ==
  serve = "returned" =>
    \A c \in Conns : pc[c] \notin Handling /\ ~Credentialed(c)

(***************************************************************************)
(* Why they hold: what is true between any two steps.                      *)
(***************************************************************************)

Active == {c \in Conns : pc[c] \in Handling}

\* An operation context, and so a credential, only follows a verdict of None.
OnlyEntitled ==
  \A c \in Conns :
    /\ pc[c] = "decide" => call[c].req.frame # "oversized"
    /\ pc[c] \in InOperation \/ Credentialed(c) => Entitled(c)

\* A handler that goes on to finish holds a response.
ResponseHeld ==
  \A c \in Conns : pc[c] \in {"cleanup", "audit", "sync", "respond"} => resp[c] \in Codes

\* Files, consumers, secrets and answers exist only at these positions.
InPlace ==
  \A c \in Conns :
    /\ client[c] = "away" => pc[c] = "none"
    /\ dir[c] # "none" => pc[c] \in {"write", "launch", "run", "cleanup"}
    /\ proc[c] = "running" => pc[c] = "run"
    /\ orphan[c] => pc[c] = "run" /\ proc[c] = "exited"
    /\ held[c] # {} \/ rendered[c] => pc[c] \in Handling
    /\ got[c] # None => pc[c] \in {"unwind", "done"}

\* The record of an OK reaches the file, then the disk, then the client.
RecordedFirst ==
  \A c \in Conns :
    /\ pc[c] = "sync" /\ host = "running" => Record(c) \in page
    /\ pc[c] = "respond" /\ resp[c] = "OK" => Record(c) \in disk
    /\ got[c] = "OK" => [conn |-> c, code |-> "OK"] \in disk

\* The WaitGroup counts the handlers, and Serve is only done without any.
Counted ==
  /\ wg = Cardinality(Active)
  /\ serve \in {"start", "returned"} => Active = {}

\* The inductive invariant.
Inductive == /\ TypeOK /\ OnlyEntitled /\ ResponseHeld /\ InPlace
             /\ RecordedFirst /\ Counted

(***************************************************************************)
(* The abstract specification this one implements.                         *)
(***************************************************************************)

Promise == INSTANCE BrokerPromise WITH
  using   <- {c \in Conns : Credentialed(c)},
  exposed <- {c \in Conns : Exposed(c)},
  ledger  <- disk,
  told    <- got

\* Every behaviour of the broker is one BrokerPromise allows: the contract of
\* SERVICE-PROTOCOL.md, kept by handleConn under every interleaving and crash.
KeepsPromise == Promise!Spec

(***************************************************************************)
(* Why the answers and the log are right, and the promise is kept: what is *)
(* true of responses and records between any two steps.                    *)
(***************************************************************************)

\* Until an operation settles on a response it holds none, and until it launches
\* its consumer there is none.
Undecided ==
  \A c \in Conns :
    /\ pc[c] \notin {"cleanup", "audit", "sync", "respond", "unwind", "done"}
         => resp[c] = None
    /\ pc[c] \in Positions \ {"run", "cleanup", "audit", "sync", "respond", "unwind", "done"}
         => proc[c] = "none"

\* A response is one the request may get, and says what happened.
Earned ==
  \A c \in Conns : resp[c] # None => Promise!Admissible(c, resp[c]) /\ Happened(c, resp[c])

\* A record is of a request past its audit, and agrees with the response it has.
Logged ==
  \A r \in page \cup disk :
    /\ pc[r.conn] \in {"sync", "respond", "unwind", "done"}
    /\ Promise!Admissible(r.conn, r.code) /\ Promise!Agree(r.code, resp[r.conn])

\* What a client was told is the response, which does not change any more.
Told == \A c \in Conns : got[c] # None => got[c] = resp[c]

\* A request that is being synced is in the file, one past it is too unless
\* audit.Write said that it is not.
Audited ==
  host # "off" =>
    \A c \in Conns :
      pc[c] \in {"sync", "respond", "unwind", "done"} /\ resp[c] # None =>
        (\E r \in page : r.conn = c) \/ c \in auditErr

\* Inductive relative to Inductive.
Answers == Undecided /\ Earned /\ Logged /\ Told /\ Audited

(***************************************************************************)
(* Liveness.                                                               *)
(***************************************************************************)

\* Two things hold a handler for longer than its deadlines: a descendant of the
\* consumer that keeps its stdout, and a client that does not read.
HeldUp(c) == orphan[c] \/ client[c] = "stalled"

\* Every connection the kernel accepts is eventually closed by its handler or
\* dropped with the listener, whatever is sent and however the store and the
\* consumer behave: read deadline and operation deadline.
ConnectionsEnd ==
  \A c \in Conns :
    pc[c] \in Handling \cup {"backlog"} ~>
      pc[c] \in {"done", "dropped"} \/ host # "running" \/ HeldUp(c)

\* A signal eventually makes Serve return, with every handler finished.
ShutdownEnds ==
  cancelled ~> serve = "returned" \/ host # "running" \/ \E c \in Conns : HeldUp(c)

(***************************************************************************)
(* What comments say of shutdown, and the code does not do.                *)
(***************************************************************************)

\* broker.go:262-264 and main.go:112-119: cancelling the context lets in-flight
\* handlers finish; their operations are not cut off.
ShutdownSparesOperations == \A c \in Conns : ctx[c] # "canceled" \/ resp[c] # "consumer_failed"
=============================================================================
