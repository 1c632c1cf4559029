---------------------------- MODULE BrokerProofs ----------------------------
(***************************************************************************)
(* Proofs about Broker, for every set of connections, peers, operations    *)
(* and requests.                                                           *)
(***************************************************************************)
EXTENDS Broker, FiniteSetTheorems, TLAPS

(***************************************************************************)
(* The operators of the handler.                                           *)
(***************************************************************************)

\* Verdict is None or a code (session.go:47-114), and Classify always a code.
LEMMA VerdictType ==
  \A u, r : Verdict(u, r) \in Codes \cup {None}
BY DEF Verdict, Codes, None

\* Every outcome of a consumer is told as one of the codes.
LEMMA ClassifyType ==
  \A t \in BOOLEAN, r \in LaunchResult : Classify(t, r) \in Codes
BY DEF Classify, Codes, LaunchResult

\* A consumer that was killed or never started left a result all the same.
LEMMA UnlaunchedType == Unlaunched \in LaunchResult
BY DEF Unlaunched, LaunchResult

\* A request that may start an operation is entitled to it: decoded, of the
\* implemented protocol, authorized and with valid inputs.
LEMMA VerdictEntitles ==
  ASSUME NEW u, NEW r \in Requests, Verdict(u, r) = None
  PROVE  /\ r.frame \in {"decodes", "oversized"} /\ r.protocol = 1 /\ r.inputsOK
         /\ <<u, r.operation>> \in Authz /\ r.operation \in Declared
<1>1. r \in RequestType
  BY RequestsTyped
<1> QED
  BY <1>1 DEF Verdict, None, Decide, RequestType

\* StartOperation is only possible for an entitled request: ReadFrame has
\* already sorted out the frames that are too large to be decoded.
LEMMA StartIsEntitled ==
  ASSUME TypeOK, OnlyEntitled, NEW c \in Conns, StartOperation(c)
  PROVE  Entitled(c)
<1>1. call[c].req \in Requests /\ Verdict(call[c].uid, call[c].req) = None
  BY DEF TypeOK, StartOperation
<1>2. call[c].req.frame # "oversized"
  BY DEF OnlyEntitled, StartOperation, Step
<1> QED
  BY <1>1, <1>2, VerdictEntitles DEF Entitled

\* The profile of an operation that runs was loaded by newServer.
LEMMA NeededType ==
  ASSUME OnlyEntitled, NEW c \in Conns, pc[c] = "fetch"
  PROVE  Needed(c) \subseteq Secrets
<1>1. Operation(c) \in Declared
  BY AuthzValidated DEF Resolves, OnlyEntitled, InOperation, Entitled, Operation
<1> QED
  BY <1>1, ProfilesLoaded DEF Needed

(***************************************************************************)
(* The WaitGroup.                                                          *)
(***************************************************************************)

\* There are finitely many handlers, so the WaitGroup can count them.
LEMMA ActiveFinite == IsFiniteSet(Active) /\ Cardinality(Active) \in Nat
<1>1. Active \subseteq Conns
  BY DEF Active
<1> QED
  BY <1>1, ConnsFinite, FS_Subset, FS_CardinalityType

\* wg.Done never brings the counter of Serve's WaitGroup below zero.
LEMMA BusyCounts ==
  ASSUME Counted, NEW c \in Conns, pc[c] \in Handling
  PROVE  wg - 1 \in Nat
<1>1. Active # {}
  BY DEF Active
<1>2. Cardinality(Active) # 0
  BY <1>1, ActiveFinite, FS_EmptySet
<1> QED
  BY <1>2, ActiveFinite DEF Counted

(***************************************************************************)
(* Each part of Inductive is preserved by every step of Next.              *)
(***************************************************************************)

\* Who asks for what never changes (peer credentials and request are read once).
LEMMA CallFixed ==
  ASSUME Next
  PROVE  call' = call
<1>1. CASE ServeStep
  BY <1>1 DEF ServeStep, Listen, clientVars, credVars, procVars, auditVars,
       ListenFails, CloseListener, DropBacklog, CloserEnds, AcceptFails,
       ServeReturns, Drained, Exit
<1>2. CASE Cancel
  BY <1>2 DEF Cancel, serveVars, clientVars, credVars, procVars, auditVars
<1>3. CASE Kill
  BY <1>3 DEF Kill, DropBacklog, clientVars, procVars, auditVars
<1>4. CASE PowerLoss
  BY <1>4 DEF PowerLoss, DropBacklog, clientVars
<1>5. ASSUME NEW c \in Conns, Accept(c) PROVE call' = call
  BY <1>5 DEF Accept, clientVars, credVars, procVars, auditVars
<1>6. ASSUME NEW c \in Conns, Environment(c) PROVE call' = call
  BY <1>6 DEF Environment, Connect, serveVars, credVars, procVars, auditVars,
       Send, Stall, Operation, Leave, ConsumerExits, LeavesChild, clientVars,
       OrphanEnds
<1>7. ASSUME NEW c \in Conns, Receives(c) PROVE call' = call
  BY <1>7 DEF Receives, PeerCredentials, Step, credVars, procVars, auditVars,
       PeerCredentialsFail, ReadFrame, ReadFrameFails, Refuse, Settle,
       StartOperation
<1>8. ASSUME NEW c \in Conns, Prepares(c) PROVE call' = call
  BY <1>8 DEF Prepares, Render, Step, Needed, procVars, auditVars, RenderFails,
       Settle, credVars, MakeDir, MakeDirFails, WriteFile, WriteFileFails, Launch,
       LaunchFails
<1>9. ASSUME NEW c \in Conns, Concludes(c) PROVE call' = call
  BY <1>9 DEF Concludes, KillConsumer, LeavesChild, serveVars, clientVars,
       credVars, auditVars, RunReturns, Settle, Step, procVars, Cleanup
<1>10. ASSUME NEW c \in Conns, Finishes(c) PROVE call' = call
  BY <1>10 DEF Finishes, AuditLine, Step, Record, credVars, procVars,
       AuditLineFails, Downgrade, AuditSync, AuditSyncFails, Respond, Blocked,
       auditVars, RespondFails, Unwind
<1>11. ASSUME NEW c \in Conns, FetchSecret(c) PROVE call' = call
  BY <1>11 DEF FetchSecret, Step, Needed, procVars, auditVars
<1>12. ASSUME NEW c \in Conns, FetchFails(c) PROVE call' = call
  BY <1>12 DEF FetchFails, Settle, Step, Needed, procVars, auditVars
<1>13. ASSUME NEW c \in Conns, Deadline(c) PROVE call' = call
  BY <1>13 DEF Deadline, serveVars, clientVars, credVars, procVars, auditVars
<1> QED
  BY <1>1, <1>2, <1>3, <1>4, <1>5, <1>6, <1>7, <1>8, <1>9, <1>10, <1>11, <1>12,
       <1>13 DEF Next, Handler

\* Types are preserved; wg stays a natural number because of Counted.
LEMMA TypeStep ==
  ASSUME TypeOK, OnlyEntitled, ResponseHeld, Counted, Next
  PROVE  TypeOK'
<1>1. CASE ServeStep
  BY <1>1 DEF ServeStep, Listen, clientVars, credVars, procVars, auditVars,
       ListenFails, CloseListener, DropBacklog, CloserEnds, AcceptFails,
       ServeReturns, Drained, Exit, TypeOK, Positions, Handling, InOperation,
       AuditRecord, None, Codes
<1>2. CASE Cancel
  BY <1>2 DEF Cancel, serveVars, clientVars, credVars, procVars, auditVars,
       TypeOK, Positions, Handling, InOperation, AuditRecord, None, Codes
<1>3. CASE Kill
  BY <1>3 DEF Kill, DropBacklog, clientVars, procVars, auditVars, TypeOK,
       Positions, Handling, InOperation, AuditRecord, None, Codes
<1>4. CASE PowerLoss
  BY <1>4 DEF PowerLoss, DropBacklog, clientVars, TypeOK, Positions, Handling,
       InOperation, AuditRecord, None, Codes
<1>5. ASSUME NEW c \in Conns, Accept(c) PROVE TypeOK'
  BY <1>5 DEF Accept, clientVars, credVars, procVars, auditVars, TypeOK,
       Positions, Handling, InOperation, AuditRecord, None, Codes
<1>6. ASSUME NEW c \in Conns, Environment(c) PROVE TypeOK'
  <2>1. CASE Connect(c)
    BY <2>1 DEF Connect, serveVars, credVars, procVars, auditVars, TypeOK,
         Positions, Handling, InOperation, AuditRecord, None, Codes
  <2>2. CASE Send(c)
    BY <2>2 DEF Send, serveVars, credVars, procVars, auditVars, TypeOK,
         Positions, Handling, InOperation, AuditRecord, None, Codes
  <2>3. CASE Stall(c)
    BY <2>3 DEF Stall, Operation, serveVars, credVars, procVars, auditVars,
         TypeOK, Positions, Handling, InOperation, AuditRecord, None, Codes
  <2>4. CASE Leave(c)
    BY <2>4 DEF Leave, serveVars, credVars, procVars, auditVars, TypeOK,
         Positions, Handling, InOperation, AuditRecord, None, Codes
  <2>5. CASE ConsumerExits(c)
    <3>1. PICK r \in LaunchResult : launch' = [launch EXCEPT ![c] = r]
      BY <2>5 DEF ConsumerExits
    <3>2. launch' \in [Conns -> LaunchResult]
      BY <3>1 DEF TypeOK
    <3>3. orphan' \in [Conns -> BOOLEAN]
      BY <2>5 DEF TypeOK, ConsumerExits, LeavesChild
    <3> QED
      BY <2>5, <3>2, <3>3 DEF ConsumerExits, serveVars, clientVars, credVars,
           auditVars, TypeOK
  <2>6. CASE OrphanEnds(c)
    BY <2>6 DEF OrphanEnds, serveVars, clientVars, credVars, auditVars, TypeOK,
         Positions, Handling, InOperation, AuditRecord, None, Codes
  <2> QED
    BY <1>6, <2>1, <2>2, <2>3, <2>4, <2>5, <2>6 DEF Environment
<1>7. ASSUME NEW c \in Conns, Receives(c) PROVE TypeOK'
  <2>1. CASE PeerCredentials(c)
    BY <2>1, VerdictType DEF PeerCredentials, Step, credVars, procVars,
         auditVars, TypeOK, Positions, Handling, InOperation, AuditRecord, None,
         Codes
  <2>2. CASE PeerCredentialsFail(c)
    BY <2>2, VerdictType DEF PeerCredentialsFail, Step, credVars, procVars,
         auditVars, TypeOK, Positions, Handling, InOperation, AuditRecord, None,
         Codes
  <2>3. CASE ReadFrame(c)
    BY <2>3, VerdictType DEF ReadFrame, Step, credVars, procVars, auditVars,
         TypeOK, Positions, Handling, InOperation, AuditRecord, None, Codes
  <2>4. CASE ReadFrameFails(c)
    BY <2>4, VerdictType DEF ReadFrameFails, Step, credVars, procVars,
         auditVars, TypeOK, Positions, Handling, InOperation, AuditRecord, None,
         Codes
  <2>5. CASE Refuse(c)
    BY <2>5, VerdictType DEF Refuse, Settle, Step, credVars, procVars,
         auditVars, TypeOK, Positions, Handling, InOperation, AuditRecord, None,
         Codes
  <2>6. CASE StartOperation(c)
    BY <2>6, VerdictType DEF StartOperation, Step, credVars, procVars,
         auditVars, TypeOK, Positions, Handling, InOperation, AuditRecord, None,
         Codes
  <2> QED
    BY <1>7, <2>1, <2>2, <2>3, <2>4, <2>5, <2>6 DEF Receives
<1>8. ASSUME NEW c \in Conns, Prepares(c) PROVE TypeOK'
  <2>1. CASE Render(c)
    BY <2>1, UnlaunchedType DEF Render, Step, Needed, procVars, auditVars,
         TypeOK, Positions, Handling, InOperation, AuditRecord, None, Codes
  <2>2. CASE RenderFails(c)
    BY <2>2, UnlaunchedType DEF RenderFails, Settle, Step, Needed, credVars,
         procVars, auditVars, TypeOK, Positions, Handling, InOperation,
         AuditRecord, None, Codes
  <2>3. CASE MakeDir(c)
    BY <2>3, UnlaunchedType DEF MakeDir, Step, procVars, auditVars, TypeOK,
         Positions, Handling, InOperation, AuditRecord, None, Codes
  <2>4. CASE MakeDirFails(c)
    BY <2>4, UnlaunchedType DEF MakeDirFails, Settle, Step, credVars, procVars,
         auditVars, TypeOK, Positions, Handling, InOperation, AuditRecord, None,
         Codes
  <2>5. CASE WriteFile(c)
    BY <2>5, UnlaunchedType DEF WriteFile, Step, procVars, auditVars, TypeOK,
         Positions, Handling, InOperation, AuditRecord, None, Codes
  <2>6. CASE WriteFileFails(c)
    BY <2>6, UnlaunchedType DEF WriteFileFails, Settle, Step, procVars,
         auditVars, TypeOK, Positions, Handling, InOperation, AuditRecord, None,
         Codes
  <2>7. CASE Launch(c)
    BY <2>7, UnlaunchedType DEF Launch, Step, credVars, auditVars, TypeOK,
         Positions, Handling, InOperation, AuditRecord, None, Codes
  <2>8. CASE LaunchFails(c)
    BY <2>8, UnlaunchedType DEF LaunchFails, Step, credVars, auditVars, TypeOK,
         Positions, Handling, InOperation, AuditRecord, None, Codes
  <2> QED
    BY <1>8, <2>1, <2>2, <2>3, <2>4, <2>5, <2>6, <2>7, <2>8 DEF Prepares
<1>9. ASSUME NEW c \in Conns, Concludes(c) PROVE TypeOK'
  <2>1. CASE KillConsumer(c)
    BY <2>1, ClassifyType, UnlaunchedType DEF KillConsumer, LeavesChild,
         serveVars, clientVars, credVars, auditVars, TypeOK, Positions,
         Handling, InOperation, AuditRecord, None, Codes
  <2>2. CASE RunReturns(c)
    BY <2>2, ClassifyType, UnlaunchedType DEF RunReturns, Settle, Step,
         credVars, procVars, auditVars, TypeOK, Positions, Handling,
         InOperation, AuditRecord, None, Codes
  <2>3. CASE Cleanup(c)
    BY <2>3, ClassifyType, UnlaunchedType DEF Cleanup, Step, procVars,
         auditVars, TypeOK, Positions, Handling, InOperation, AuditRecord, None,
         Codes
  <2> QED
    BY <1>9, <2>1, <2>2, <2>3 DEF Concludes
<1>10. ASSUME NEW c \in Conns, Finishes(c) PROVE TypeOK'
  <2>1. CASE AuditLine(c)
    BY <2>1, BusyCounts DEF AuditLine, Step, Record, credVars, procVars, TypeOK,
         Positions, Handling, InOperation, AuditRecord, None, Codes,
         ResponseHeld
  <2>2. CASE AuditLineFails(c)
    BY <2>2, BusyCounts DEF AuditLineFails, Step, Downgrade, credVars, procVars,
         TypeOK, Positions, Handling, InOperation, AuditRecord, None, Codes,
         ResponseHeld
  <2>3. CASE AuditSync(c)
    BY <2>3, BusyCounts DEF AuditSync, Step, credVars, procVars, TypeOK,
         Positions, Handling, InOperation, AuditRecord, None, Codes,
         ResponseHeld
  <2>4. CASE AuditSyncFails(c)
    BY <2>4, BusyCounts DEF AuditSyncFails, Step, Downgrade, credVars, procVars,
         TypeOK, Positions, Handling, InOperation, AuditRecord, None, Codes,
         ResponseHeld
  <2>5. CASE Respond(c)
    BY <2>5, BusyCounts DEF Respond, Step, Blocked, credVars, procVars,
         auditVars, TypeOK, Positions, Handling, InOperation, AuditRecord, None,
         Codes, ResponseHeld
  <2>6. CASE RespondFails(c)
    BY <2>6, BusyCounts DEF RespondFails, Step, credVars, procVars, auditVars,
         TypeOK, Positions, Handling, InOperation, AuditRecord, None, Codes,
         ResponseHeld
  <2>7. CASE Unwind(c)
    BY <2>7, BusyCounts DEF Unwind, Step, procVars, auditVars, TypeOK,
         Positions, Handling, InOperation, AuditRecord, None, Codes,
         ResponseHeld
  <2> QED
    BY <1>10, <2>1, <2>2, <2>3, <2>4, <2>5, <2>6, <2>7 DEF Finishes
<1>11. ASSUME NEW c \in Conns, FetchSecret(c) PROVE TypeOK'
  BY <1>11, NeededType DEF FetchSecret, Step, Needed, procVars, auditVars, TypeOK,
       Positions, Handling, InOperation, AuditRecord, None, Codes
<1>12. ASSUME NEW c \in Conns, FetchFails(c) PROVE TypeOK'
  BY <1>12 DEF FetchFails, Settle, Step, Needed, procVars, auditVars, TypeOK,
       Positions, Handling, InOperation, AuditRecord, None, Codes
<1>13. ASSUME NEW c \in Conns, Deadline(c) PROVE TypeOK'
  BY <1>13 DEF Deadline, serveVars, clientVars, credVars, procVars, auditVars,
       TypeOK, Positions, Handling, InOperation, AuditRecord, None, Codes
<1> QED
  BY <1>1, <1>2, <1>3, <1>4, <1>5, <1>6, <1>7, <1>8, <1>9, <1>10, <1>11, <1>12,
       <1>13 DEF Next, Handler

\* A credential only appears behind a verdict of None.
LEMMA EntitledStep ==
  ASSUME TypeOK, OnlyEntitled, Next
  PROVE  OnlyEntitled'
<1>a. call' = call
  BY CallFixed
<1>b. \A d \in Conns : Entitled(d)' <=> Entitled(d)
  BY <1>a DEF Entitled
<1>1. CASE ServeStep
  BY <1>1, <1>b DEF ServeStep, Listen, clientVars, credVars, procVars, auditVars,
       ListenFails, CloseListener, DropBacklog, CloserEnds, AcceptFails,
       ServeReturns, Drained, Exit, TypeOK, OnlyEntitled, Credentialed, Exposed,
       InOperation
<1>2. CASE Cancel
  BY <1>2, <1>b DEF Cancel, serveVars, clientVars, credVars, procVars, auditVars,
       TypeOK, OnlyEntitled, Credentialed, Exposed, InOperation
<1>3. CASE Kill
  BY <1>3, <1>b DEF Kill, DropBacklog, clientVars, procVars, auditVars, TypeOK,
       OnlyEntitled, Credentialed, Exposed, InOperation
<1>4. CASE PowerLoss
  BY <1>4, <1>b DEF PowerLoss, DropBacklog, clientVars, TypeOK, OnlyEntitled,
       Credentialed, Exposed, InOperation
<1>5. ASSUME NEW c \in Conns, Accept(c) PROVE OnlyEntitled'
  BY <1>5, <1>b DEF Accept, clientVars, credVars, procVars, auditVars, TypeOK,
       OnlyEntitled, Credentialed, Exposed, InOperation
<1>6. ASSUME NEW c \in Conns, Environment(c) PROVE OnlyEntitled'
  <2>1. CASE Connect(c)
    BY <2>1, <1>b DEF Connect, serveVars, credVars, procVars, auditVars, TypeOK,
         OnlyEntitled, Credentialed, Exposed, InOperation
  <2>2. CASE Send(c)
    BY <2>2, <1>b DEF Send, serveVars, credVars, procVars, auditVars, TypeOK,
         OnlyEntitled, Credentialed, Exposed, InOperation
  <2>3. CASE Stall(c)
    BY <2>3, <1>b DEF Stall, Operation, serveVars, credVars, procVars,
         auditVars, TypeOK, OnlyEntitled, Credentialed, Exposed, InOperation
  <2>4. CASE Leave(c)
    BY <2>4, <1>b DEF Leave, serveVars, credVars, procVars, auditVars, TypeOK,
         OnlyEntitled, Credentialed, Exposed, InOperation
  <2>5. CASE ConsumerExits(c)
    BY <2>5, <1>b DEF ConsumerExits, LeavesChild, serveVars, clientVars,
         credVars, auditVars, TypeOK, OnlyEntitled, Credentialed, Exposed,
         InOperation
  <2>6. CASE OrphanEnds(c)
    BY <2>6, <1>b DEF OrphanEnds, serveVars, clientVars, credVars, auditVars,
         TypeOK, OnlyEntitled, Credentialed, Exposed, InOperation
  <2> QED
    BY <1>6, <2>1, <2>2, <2>3, <2>4, <2>5, <2>6 DEF Environment
<1>7. ASSUME NEW c \in Conns, Receives(c) PROVE OnlyEntitled'
  <2>1. CASE PeerCredentials(c)
    BY <2>1, StartIsEntitled, <1>b DEF PeerCredentials, Step, credVars,
         procVars, auditVars, TypeOK, OnlyEntitled, Credentialed, Exposed,
         InOperation
  <2>2. CASE PeerCredentialsFail(c)
    BY <2>2, StartIsEntitled, <1>b DEF PeerCredentialsFail, Step, credVars,
         procVars, auditVars, TypeOK, OnlyEntitled, Credentialed, Exposed,
         InOperation
  <2>3. CASE ReadFrame(c)
    BY <2>3, StartIsEntitled, <1>b DEF ReadFrame, Step, credVars, procVars,
         auditVars, TypeOK, OnlyEntitled, Credentialed, Exposed, InOperation
  <2>4. CASE ReadFrameFails(c)
    BY <2>4, StartIsEntitled, <1>b DEF ReadFrameFails, Step, credVars, procVars,
         auditVars, TypeOK, OnlyEntitled, Credentialed, Exposed, InOperation
  <2>5. CASE Refuse(c)
    BY <2>5, StartIsEntitled, <1>b DEF Refuse, Settle, Step, credVars, procVars,
         auditVars, TypeOK, OnlyEntitled, Credentialed, Exposed, InOperation
  <2>6. CASE StartOperation(c)
    BY <2>6, StartIsEntitled, <1>b DEF StartOperation, Step, credVars, procVars,
         auditVars, TypeOK, OnlyEntitled, Credentialed, Exposed, InOperation
  <2> QED
    BY <1>7, <2>1, <2>2, <2>3, <2>4, <2>5, <2>6 DEF Receives
<1>8. ASSUME NEW c \in Conns, Prepares(c) PROVE OnlyEntitled'
  BY <1>8, <1>b DEF Prepares, Render, Step, Needed, procVars, auditVars,
       RenderFails, Settle, credVars, MakeDir, MakeDirFails, WriteFile,
       WriteFileFails, Launch, LaunchFails, TypeOK, OnlyEntitled, Credentialed,
       Exposed, InOperation
<1>9. ASSUME NEW c \in Conns, Concludes(c) PROVE OnlyEntitled'
  <2>1. CASE KillConsumer(c)
    BY <2>1, <1>b DEF KillConsumer, LeavesChild, serveVars, clientVars,
         credVars, auditVars, TypeOK, OnlyEntitled, Credentialed, Exposed,
         InOperation
  <2>2. CASE RunReturns(c)
    BY <2>2, <1>b DEF RunReturns, Settle, Step, credVars, procVars, auditVars,
         TypeOK, OnlyEntitled, Credentialed, Exposed, InOperation
  <2>3. CASE Cleanup(c)
    BY <2>3, <1>b DEF Cleanup, Step, procVars, auditVars, TypeOK, OnlyEntitled,
         Credentialed, Exposed, InOperation
  <2> QED
    BY <1>9, <2>1, <2>2, <2>3 DEF Concludes
<1>10. ASSUME NEW c \in Conns, Finishes(c) PROVE OnlyEntitled'
  BY <1>10, <1>b DEF Finishes, AuditLine, Step, Record, credVars, procVars,
       AuditLineFails, Downgrade, AuditSync, AuditSyncFails, Respond, Blocked,
       auditVars, RespondFails, Unwind, TypeOK, OnlyEntitled, Credentialed,
       Exposed, InOperation
<1>11. ASSUME NEW c \in Conns, FetchSecret(c) PROVE OnlyEntitled'
  BY <1>11, <1>b DEF FetchSecret, Step, Needed, procVars, auditVars, TypeOK,
       OnlyEntitled, Credentialed, Exposed, InOperation
<1>12. ASSUME NEW c \in Conns, FetchFails(c) PROVE OnlyEntitled'
  BY <1>12, <1>b DEF FetchFails, Settle, Step, Needed, procVars, auditVars,
       TypeOK, OnlyEntitled, Credentialed, Exposed, InOperation
<1>13. ASSUME NEW c \in Conns, Deadline(c) PROVE OnlyEntitled'
  BY <1>13, <1>b DEF Deadline, serveVars, clientVars, credVars, procVars,
       auditVars, TypeOK, OnlyEntitled, Credentialed, Exposed, InOperation
<1> QED
  BY <1>1, <1>2, <1>3, <1>4, <1>5, <1>6, <1>7, <1>8, <1>9, <1>10, <1>11, <1>12,
       <1>13 DEF Next, Handler

\* Whatever leads to finish has settled a response.
LEMMA ResponseStep ==
  ASSUME TypeOK, ResponseHeld, Next
  PROVE  ResponseHeld'
<1>1. CASE ServeStep
  BY <1>1 DEF ServeStep, Listen, clientVars, credVars, procVars, auditVars,
       ListenFails, CloseListener, DropBacklog, CloserEnds, AcceptFails,
       ServeReturns, Drained, Exit, TypeOK, ResponseHeld, Codes, None
<1>2. CASE Cancel
  BY <1>2 DEF Cancel, serveVars, clientVars, credVars, procVars, auditVars,
       TypeOK, ResponseHeld, Codes, None
<1>3. CASE Kill
  BY <1>3 DEF Kill, DropBacklog, clientVars, procVars, auditVars, TypeOK,
       ResponseHeld, Codes, None
<1>4. CASE PowerLoss
  BY <1>4 DEF PowerLoss, DropBacklog, clientVars, TypeOK, ResponseHeld, Codes, None
<1>5. ASSUME NEW c \in Conns, Accept(c) PROVE ResponseHeld'
  BY <1>5 DEF Accept, clientVars, credVars, procVars, auditVars, TypeOK,
       ResponseHeld, Codes, None
<1>6. ASSUME NEW c \in Conns, Environment(c) PROVE ResponseHeld'
  BY <1>6 DEF Environment, Connect, serveVars, credVars, procVars, auditVars,
       Send, Stall, Operation, Leave, ConsumerExits, LeavesChild, clientVars,
       OrphanEnds, TypeOK, ResponseHeld, Codes, None
<1>7. ASSUME NEW c \in Conns, Receives(c) PROVE ResponseHeld'
  BY <1>7, VerdictType DEF Receives, PeerCredentials, Step, credVars, procVars,
       auditVars, PeerCredentialsFail, ReadFrame, ReadFrameFails, Refuse, Settle,
       StartOperation, TypeOK, ResponseHeld, Codes, None
<1>8. ASSUME NEW c \in Conns, Prepares(c) PROVE ResponseHeld'
  BY <1>8 DEF Prepares, Render, Step, Needed, procVars, auditVars, RenderFails,
       Settle, credVars, MakeDir, MakeDirFails, WriteFile, WriteFileFails, Launch,
       LaunchFails, TypeOK, ResponseHeld, Codes, None
<1>9. ASSUME NEW c \in Conns, Concludes(c) PROVE ResponseHeld'
  <2>1. CASE KillConsumer(c)
    BY <2>1, ClassifyType DEF KillConsumer, LeavesChild, serveVars, clientVars,
         credVars, auditVars, TypeOK, ResponseHeld, Codes, None
  <2>2. CASE RunReturns(c)
    BY <2>2, ClassifyType DEF RunReturns, Settle, Step, credVars, procVars,
         auditVars, TypeOK, ResponseHeld, Codes, None
  <2>3. CASE Cleanup(c)
    BY <2>3, ClassifyType DEF Cleanup, Step, procVars, auditVars, TypeOK,
         ResponseHeld, Codes, None
  <2> QED
    BY <1>9, <2>1, <2>2, <2>3 DEF Concludes
<1>10. ASSUME NEW c \in Conns, Finishes(c) PROVE ResponseHeld'
  BY <1>10 DEF Finishes, AuditLine, Step, Record, credVars, procVars,
       AuditLineFails, Downgrade, AuditSync, AuditSyncFails, Respond, Blocked,
       auditVars, RespondFails, Unwind, TypeOK, ResponseHeld, Codes, None
<1>11. ASSUME NEW c \in Conns, FetchSecret(c) PROVE ResponseHeld'
  BY <1>11 DEF FetchSecret, Step, Needed, procVars, auditVars, TypeOK,
       ResponseHeld, Codes, None
<1>12. ASSUME NEW c \in Conns, FetchFails(c) PROVE ResponseHeld'
  BY <1>12 DEF FetchFails, Settle, Step, Needed, procVars, auditVars, TypeOK,
       ResponseHeld, Codes, None
<1>13. ASSUME NEW c \in Conns, Deadline(c) PROVE ResponseHeld'
  BY <1>13 DEF Deadline, serveVars, clientVars, credVars, procVars, auditVars,
       TypeOK, ResponseHeld, Codes, None
<1> QED
  BY <1>1, <1>2, <1>3, <1>4, <1>5, <1>6, <1>7, <1>8, <1>9, <1>10, <1>11, <1>12,
       <1>13 DEF Next, Handler

\* Every early return and every failure leaves files, processes and secrets
\* where the positions say.
LEMMA PlaceStep ==
  ASSUME TypeOK, InPlace, Next
  PROVE  InPlace'
<1>1. CASE ServeStep
  BY <1>1 DEF ServeStep, Listen, clientVars, credVars, procVars, auditVars,
       ListenFails, CloseListener, DropBacklog, CloserEnds, AcceptFails,
       ServeReturns, Drained, Exit, TypeOK, InPlace, Handling, InOperation
<1>2. CASE Cancel
  BY <1>2 DEF Cancel, serveVars, clientVars, credVars, procVars, auditVars,
       TypeOK, InPlace, Handling, InOperation
<1>3. CASE Kill
  BY <1>3 DEF Kill, DropBacklog, clientVars, procVars, auditVars, TypeOK, InPlace,
       Handling, InOperation
<1>4. CASE PowerLoss
  BY <1>4 DEF PowerLoss, DropBacklog, clientVars, TypeOK, InPlace, Handling,
       InOperation
<1>5. ASSUME NEW c \in Conns, Accept(c) PROVE InPlace'
  BY <1>5 DEF Accept, clientVars, credVars, procVars, auditVars, TypeOK, InPlace,
       Handling, InOperation
<1>6. ASSUME NEW c \in Conns, Environment(c) PROVE InPlace'
  <2>1. CASE Connect(c)
    BY <2>1 DEF Connect, serveVars, credVars, procVars, auditVars, TypeOK,
         InPlace, Handling, InOperation
  <2>2. CASE Send(c)
    BY <2>2 DEF Send, serveVars, credVars, procVars, auditVars, TypeOK, InPlace,
         Handling, InOperation
  <2>3. CASE Stall(c)
    BY <2>3 DEF Stall, Operation, serveVars, credVars, procVars, auditVars,
         TypeOK, InPlace, Handling, InOperation
  <2>4. CASE Leave(c)
    BY <2>4 DEF Leave, serveVars, credVars, procVars, auditVars, TypeOK,
         InPlace, Handling, InOperation
  <2>5. CASE ConsumerExits(c)
    BY <2>5 DEF ConsumerExits, LeavesChild, serveVars, clientVars, credVars,
         auditVars, TypeOK, InPlace, Handling, InOperation
  <2>6. CASE OrphanEnds(c)
    BY <2>6 DEF OrphanEnds, serveVars, clientVars, credVars, auditVars, TypeOK,
         InPlace, Handling, InOperation
  <2> QED
    BY <1>6, <2>1, <2>2, <2>3, <2>4, <2>5, <2>6 DEF Environment
<1>7. ASSUME NEW c \in Conns, Receives(c) PROVE InPlace'
  BY <1>7 DEF Receives, PeerCredentials, Step, credVars, procVars, auditVars,
       PeerCredentialsFail, ReadFrame, ReadFrameFails, Refuse, Settle,
       StartOperation, TypeOK, InPlace, Handling, InOperation
<1>8. ASSUME NEW c \in Conns, Prepares(c) PROVE InPlace'
  BY <1>8 DEF Prepares, Render, Step, Needed, procVars, auditVars, RenderFails,
       Settle, credVars, MakeDir, MakeDirFails, WriteFile, WriteFileFails, Launch,
       LaunchFails, TypeOK, InPlace, Handling, InOperation
<1>9. ASSUME NEW c \in Conns, Concludes(c) PROVE InPlace'
  <2>1. CASE KillConsumer(c)
    BY <2>1 DEF KillConsumer, LeavesChild, serveVars, clientVars, credVars,
         auditVars, TypeOK, InPlace, Handling, InOperation
  <2>2. CASE RunReturns(c)
    BY <2>2 DEF RunReturns, Settle, Step, credVars, procVars, auditVars, TypeOK,
         InPlace, Handling, InOperation
  <2>3. CASE Cleanup(c)
    BY <2>3 DEF Cleanup, Step, procVars, auditVars, TypeOK, InPlace, Handling,
         InOperation
  <2> QED
    BY <1>9, <2>1, <2>2, <2>3 DEF Concludes
<1>10. ASSUME NEW c \in Conns, Finishes(c) PROVE InPlace'
  BY <1>10 DEF Finishes, AuditLine, Step, Record, credVars, procVars,
       AuditLineFails, Downgrade, AuditSync, AuditSyncFails, Respond, Blocked,
       auditVars, RespondFails, Unwind, TypeOK, InPlace, Handling, InOperation
<1>11. ASSUME NEW c \in Conns, FetchSecret(c) PROVE InPlace'
  BY <1>11 DEF FetchSecret, Step, Needed, procVars, auditVars, TypeOK, InPlace,
       Handling, InOperation
<1>12. ASSUME NEW c \in Conns, FetchFails(c) PROVE InPlace'
  BY <1>12 DEF FetchFails, Settle, Step, Needed, procVars, auditVars, TypeOK,
       InPlace, Handling, InOperation
<1>13. ASSUME NEW c \in Conns, Deadline(c) PROVE InPlace'
  BY <1>13 DEF Deadline, serveVars, clientVars, credVars, procVars, auditVars,
       TypeOK, InPlace, Handling, InOperation
<1> QED
  BY <1>1, <1>2, <1>3, <1>4, <1>5, <1>6, <1>7, <1>8, <1>9, <1>10, <1>11, <1>12,
       <1>13 DEF Next, Handler

\* Audit before respond: the record moves to the disk ahead of the answer.
LEMMA RecordStep ==
  ASSUME TypeOK, InPlace, RecordedFirst, Next
  PROVE  RecordedFirst'
<1>1. CASE ServeStep
  <2>1. CASE Listen
    BY <2>1 DEF Listen, clientVars, credVars, procVars, auditVars, TypeOK,
         InPlace, RecordedFirst, Record
  <2>2. CASE ListenFails
    BY <2>2 DEF ListenFails, clientVars, credVars, procVars, auditVars, TypeOK,
         InPlace, RecordedFirst, Record
  <2>3. CASE CloseListener
    BY <2>3 DEF CloseListener, DropBacklog, clientVars, credVars, procVars,
         auditVars, TypeOK, InPlace, RecordedFirst, Record
  <2>4. CASE CloserEnds
    BY <2>4 DEF CloserEnds, clientVars, credVars, procVars, auditVars, TypeOK,
         InPlace, RecordedFirst, Record
  <2>5. CASE AcceptFails
    BY <2>5 DEF AcceptFails, clientVars, credVars, procVars, auditVars, TypeOK,
         InPlace, RecordedFirst, Record
  <2>6. CASE ServeReturns
    BY <2>6 DEF ServeReturns, Drained, clientVars, credVars, procVars,
         auditVars, TypeOK, InPlace, RecordedFirst, Record
  <2>7. CASE Exit
    BY <2>7 DEF Exit, DropBacklog, clientVars, credVars, procVars, auditVars,
         TypeOK, InPlace, RecordedFirst, Record
  <2> QED
    BY <1>1, <2>1, <2>2, <2>3, <2>4, <2>5, <2>6, <2>7 DEF ServeStep
<1>2. CASE Cancel
  BY <1>2 DEF Cancel, serveVars, clientVars, credVars, procVars, auditVars,
       TypeOK, InPlace, RecordedFirst, Record
<1>3. CASE Kill
  BY <1>3 DEF Kill, DropBacklog, clientVars, procVars, auditVars, TypeOK, InPlace,
       RecordedFirst, Record
<1>4. CASE PowerLoss
  BY <1>4 DEF PowerLoss, DropBacklog, clientVars, TypeOK, InPlace, RecordedFirst,
       Record
<1>5. ASSUME NEW c \in Conns, Accept(c) PROVE RecordedFirst'
  BY <1>5 DEF Accept, clientVars, credVars, procVars, auditVars, TypeOK, InPlace,
       RecordedFirst, Record
<1>6. ASSUME NEW c \in Conns, Environment(c) PROVE RecordedFirst'
  BY <1>6 DEF Environment, Connect, serveVars, credVars, procVars, auditVars,
       Send, Stall, Operation, Leave, ConsumerExits, LeavesChild, clientVars,
       OrphanEnds, TypeOK, InPlace, RecordedFirst, Record
<1>7. ASSUME NEW c \in Conns, Receives(c) PROVE RecordedFirst'
  <2>1. CASE PeerCredentials(c)
    BY <2>1 DEF PeerCredentials, Step, credVars, procVars, auditVars, TypeOK,
         InPlace, RecordedFirst, Record
  <2>2. CASE PeerCredentialsFail(c)
    BY <2>2 DEF PeerCredentialsFail, Step, credVars, procVars, auditVars,
         TypeOK, InPlace, RecordedFirst, Record
  <2>3. CASE ReadFrame(c)
    BY <2>3 DEF ReadFrame, Step, credVars, procVars, auditVars, TypeOK, InPlace,
         RecordedFirst, Record
  <2>4. CASE ReadFrameFails(c)
    BY <2>4 DEF ReadFrameFails, Step, credVars, procVars, auditVars, TypeOK,
         InPlace, RecordedFirst, Record
  <2>5. CASE Refuse(c)
    BY <2>5 DEF Refuse, Settle, Step, credVars, procVars, auditVars, TypeOK,
         InPlace, RecordedFirst, Record
  <2>6. CASE StartOperation(c)
    BY <2>6 DEF StartOperation, Step, credVars, procVars, auditVars, TypeOK,
         InPlace, RecordedFirst, Record
  <2> QED
    BY <1>7, <2>1, <2>2, <2>3, <2>4, <2>5, <2>6 DEF Receives
<1>8. ASSUME NEW c \in Conns, Prepares(c) PROVE RecordedFirst'
  <2>1. CASE Render(c)
    BY <2>1 DEF Render, Step, Needed, procVars, auditVars, TypeOK, InPlace,
         RecordedFirst, Record
  <2>2. CASE RenderFails(c)
    BY <2>2 DEF RenderFails, Settle, Step, Needed, credVars, procVars,
         auditVars, TypeOK, InPlace, RecordedFirst, Record
  <2>3. CASE MakeDir(c)
    BY <2>3 DEF MakeDir, Step, procVars, auditVars, TypeOK, InPlace,
         RecordedFirst, Record
  <2>4. CASE MakeDirFails(c)
    BY <2>4 DEF MakeDirFails, Settle, Step, credVars, procVars, auditVars,
         TypeOK, InPlace, RecordedFirst, Record
  <2>5. CASE WriteFile(c)
    BY <2>5 DEF WriteFile, Step, procVars, auditVars, TypeOK, InPlace,
         RecordedFirst, Record
  <2>6. CASE WriteFileFails(c)
    BY <2>6 DEF WriteFileFails, Settle, Step, procVars, auditVars, TypeOK,
         InPlace, RecordedFirst, Record
  <2>7. CASE Launch(c)
    BY <2>7 DEF Launch, Step, credVars, auditVars, TypeOK, InPlace,
         RecordedFirst, Record
  <2>8. CASE LaunchFails(c)
    BY <2>8 DEF LaunchFails, Step, credVars, auditVars, TypeOK, InPlace,
         RecordedFirst, Record
  <2> QED
    BY <1>8, <2>1, <2>2, <2>3, <2>4, <2>5, <2>6, <2>7, <2>8 DEF Prepares
<1>9. ASSUME NEW c \in Conns, Concludes(c) PROVE RecordedFirst'
  <2>1. CASE KillConsumer(c)
    BY <2>1 DEF KillConsumer, LeavesChild, serveVars, clientVars, credVars,
         auditVars, TypeOK, InPlace, RecordedFirst, Record
  <2>2. CASE RunReturns(c)
    BY <2>2 DEF RunReturns, Settle, Step, credVars, procVars, auditVars, TypeOK,
         InPlace, RecordedFirst, Record
  <2>3. CASE Cleanup(c)
    BY <2>3 DEF Cleanup, Step, procVars, auditVars, TypeOK, InPlace,
         RecordedFirst, Record
  <2> QED
    BY <1>9, <2>1, <2>2, <2>3 DEF Concludes
<1>10. ASSUME NEW c \in Conns, Finishes(c) PROVE RecordedFirst'
  <2>1. CASE AuditLine(c)
    BY <2>1 DEF AuditLine, Step, Record, credVars, procVars, TypeOK, InPlace,
         RecordedFirst
  <2>2. CASE AuditLineFails(c)
    BY <2>2 DEF AuditLineFails, Step, Downgrade, credVars, procVars, TypeOK,
         InPlace, RecordedFirst, Record
  <2>3. CASE AuditSync(c)
    BY <2>3 DEF AuditSync, Step, credVars, procVars, TypeOK, InPlace,
         RecordedFirst, Record
  <2>4. CASE AuditSyncFails(c)
    BY <2>4 DEF AuditSyncFails, Step, Downgrade, credVars, procVars, TypeOK,
         InPlace, RecordedFirst, Record
  <2>5. CASE Respond(c)
    BY <2>5 DEF Respond, Step, Blocked, credVars, procVars, auditVars, TypeOK,
         InPlace, RecordedFirst, Record
  <2>6. CASE RespondFails(c)
    BY <2>6 DEF RespondFails, Step, credVars, procVars, auditVars, TypeOK,
         InPlace, RecordedFirst, Record
  <2>7. CASE Unwind(c)
    BY <2>7 DEF Unwind, Step, procVars, auditVars, TypeOK, InPlace,
         RecordedFirst, Record
  <2> QED
    BY <1>10, <2>1, <2>2, <2>3, <2>4, <2>5, <2>6, <2>7 DEF Finishes
<1>11. ASSUME NEW c \in Conns, FetchSecret(c) PROVE RecordedFirst'
  BY <1>11 DEF FetchSecret, Step, Needed, procVars, auditVars, TypeOK, InPlace,
       RecordedFirst, Record
<1>12. ASSUME NEW c \in Conns, FetchFails(c) PROVE RecordedFirst'
  BY <1>12 DEF FetchFails, Settle, Step, Needed, procVars, auditVars, TypeOK,
       InPlace, RecordedFirst, Record
<1>13. ASSUME NEW c \in Conns, Deadline(c) PROVE RecordedFirst'
  BY <1>13 DEF Deadline, serveVars, clientVars, credVars, procVars, auditVars,
       TypeOK, InPlace, RecordedFirst, Record
<1> QED
  BY <1>1, <1>2, <1>3, <1>4, <1>5, <1>6, <1>7, <1>8, <1>9, <1>10, <1>11, <1>12,
       <1>13 DEF Next, Handler

\* wg.Add and wg.Done keep the counter equal to the number of handlers.
LEMMA CountStep ==
  ASSUME TypeOK, InPlace, Counted, Next
  PROVE  Counted'
<1>1. CASE ServeStep
  <2>1. CASE Listen
    BY <2>1, ActiveFinite, FS_EmptySet DEF Listen, clientVars, credVars,
         procVars, auditVars, TypeOK, Counted, Active, Handling, InOperation
  <2>2. CASE ListenFails
    BY <2>2, ActiveFinite, FS_EmptySet DEF ListenFails, clientVars, credVars,
         procVars, auditVars, TypeOK, Counted, Active, Handling, InOperation
  <2>3. CASE CloseListener
    BY <2>3, ActiveFinite, FS_EmptySet DEF CloseListener, DropBacklog,
         clientVars, credVars, procVars, auditVars, TypeOK, Counted, Active,
         Handling, InOperation
  <2>4. CASE CloserEnds
    BY <2>4, ActiveFinite, FS_EmptySet DEF CloserEnds, clientVars, credVars,
         procVars, auditVars, TypeOK, Counted, Active, Handling, InOperation
  <2>5. CASE AcceptFails
    BY <2>5, ActiveFinite, FS_EmptySet DEF AcceptFails, clientVars, credVars,
         procVars, auditVars, TypeOK, Counted, Active, Handling, InOperation
  <2>6. CASE ServeReturns
    BY <2>6, ActiveFinite, FS_EmptySet DEF ServeReturns, Drained, clientVars,
         credVars, procVars, auditVars, TypeOK, Counted, Active, Handling,
         InOperation
  <2>7. CASE Exit
    BY <2>7, ActiveFinite, FS_EmptySet DEF Exit, DropBacklog, clientVars,
         credVars, procVars, auditVars, TypeOK, Counted, Active, Handling,
         InOperation
  <2> QED
    BY <1>1, <2>1, <2>2, <2>3, <2>4, <2>5, <2>6, <2>7 DEF ServeStep
<1>2. CASE Cancel
  BY <1>2 DEF Cancel, serveVars, clientVars, credVars, procVars, auditVars,
       TypeOK, Counted, Active, Handling, InOperation
<1>3. CASE Kill
  BY <1>3 DEF Kill, DropBacklog, clientVars, procVars, auditVars, TypeOK, Counted,
       Active, Handling, InOperation
<1>4. CASE PowerLoss
  BY <1>4 DEF PowerLoss, DropBacklog, clientVars, TypeOK, Counted, Active,
       Handling, InOperation
<1>5. ASSUME NEW c \in Conns, Accept(c) PROVE Counted'
  <2>1. Active' = Active \cup {c} /\ c \notin Active
    BY <1>5 DEF Accept, TypeOK, Active, Handling, InOperation
  <2>2. Cardinality(Active') = Cardinality(Active) + 1
    BY <2>1, ActiveFinite, FS_AddElement
  <2> QED
    BY <1>5, <2>2 DEF Accept, Counted
<1>6. ASSUME NEW c \in Conns, Environment(c) PROVE Counted'
  <2>1. wg' = wg /\ serve' = serve
    BY <1>6 DEF Environment, Connect, serveVars, credVars, procVars, auditVars,
         Send, Stall, Operation, Leave, ConsumerExits, LeavesChild, clientVars,
         OrphanEnds
  <2>2. \A d \in Conns : pc'[d] \in Handling <=> pc[d] \in Handling
    BY <1>6 DEF Environment, Connect, serveVars, credVars, procVars, auditVars,
         Send, Stall, Operation, Leave, ConsumerExits, LeavesChild, clientVars,
         OrphanEnds, TypeOK, InPlace, Handling, InOperation
  <2>3. Active' = Active
    BY <2>2 DEF Active
  <2> QED
    BY <2>1, <2>3 DEF Counted
<1>7. ASSUME NEW c \in Conns, Receives(c) PROVE Counted'
  <2>1. wg' = wg /\ serve' = serve
    BY <1>7 DEF Receives, PeerCredentials, Step, credVars, procVars, auditVars,
         PeerCredentialsFail, ReadFrame, ReadFrameFails, Refuse, Settle,
         StartOperation
  <2>2. \A d \in Conns : pc'[d] \in Handling <=> pc[d] \in Handling
    BY <1>7 DEF Receives, PeerCredentials, Step, credVars, procVars, auditVars,
         PeerCredentialsFail, ReadFrame, ReadFrameFails, Refuse, Settle,
         StartOperation, TypeOK, InPlace, Handling, InOperation
  <2>3. Active' = Active
    BY <2>2 DEF Active
  <2> QED
    BY <2>1, <2>3 DEF Counted
<1>8. ASSUME NEW c \in Conns, Prepares(c) PROVE Counted'
  <2>1. wg' = wg /\ serve' = serve
    BY <1>8 DEF Prepares, Render, Step, Needed, procVars, auditVars,
         RenderFails, Settle, credVars, MakeDir, MakeDirFails, WriteFile,
         WriteFileFails, Launch, LaunchFails
  <2>2. \A d \in Conns : pc'[d] \in Handling <=> pc[d] \in Handling
    BY <1>8 DEF Prepares, Render, Step, Needed, procVars, auditVars,
         RenderFails, Settle, credVars, MakeDir, MakeDirFails, WriteFile,
         WriteFileFails, Launch, LaunchFails, TypeOK, InPlace, Handling,
         InOperation
  <2>3. Active' = Active
    BY <2>2 DEF Active
  <2> QED
    BY <2>1, <2>3 DEF Counted
<1>9. ASSUME NEW c \in Conns, Concludes(c) PROVE Counted'
  <2>1. wg' = wg /\ serve' = serve
    BY <1>9 DEF Concludes, KillConsumer, LeavesChild, serveVars, clientVars,
         credVars, auditVars, RunReturns, Settle, Step, procVars, Cleanup
  <2>2. \A d \in Conns : pc'[d] \in Handling <=> pc[d] \in Handling
    BY <1>9 DEF Concludes, KillConsumer, LeavesChild, serveVars, clientVars,
         credVars, auditVars, RunReturns, Settle, Step, procVars, Cleanup,
         TypeOK, InPlace, Handling, InOperation
  <2>3. Active' = Active
    BY <2>2 DEF Active
  <2> QED
    BY <2>1, <2>3 DEF Counted
<1>10. ASSUME NEW c \in Conns, Finishes(c) PROVE Counted'
  <2>1. CASE AuditLine(c)
    BY <2>1 DEF AuditLine, Step, Record, credVars, procVars, TypeOK, Counted,
         Active, Handling, InOperation
  <2>2. CASE AuditLineFails(c)
    BY <2>2 DEF AuditLineFails, Step, Downgrade, credVars, procVars, TypeOK,
         Counted, Active, Handling, InOperation
  <2>3. CASE AuditSync(c)
    BY <2>3 DEF AuditSync, Step, credVars, procVars, TypeOK, Counted, Active,
         Handling, InOperation
  <2>4. CASE AuditSyncFails(c)
    BY <2>4 DEF AuditSyncFails, Step, Downgrade, credVars, procVars, TypeOK,
         Counted, Active, Handling, InOperation
  <2>5. CASE Respond(c)
    BY <2>5 DEF Respond, Step, Blocked, credVars, procVars, auditVars, TypeOK,
         Counted, Active, Handling, InOperation
  <2>6. CASE RespondFails(c)
    BY <2>6 DEF RespondFails, Step, credVars, procVars, auditVars, TypeOK,
         Counted, Active, Handling, InOperation
  <2>7. CASE Unwind(c)
    <3>1. Active' = Active \ {c} /\ c \in Active
      BY <2>7 DEF Unwind, Step, TypeOK, Active, Handling, InOperation
    <3>2. Cardinality(Active') = Cardinality(Active) - 1
      BY <3>1, ActiveFinite, FS_RemoveElement
    <3> QED
      BY <2>7, <3>1, <3>2 DEF Unwind, Step, Counted
  <2> QED
    BY <1>10, <2>1, <2>2, <2>3, <2>4, <2>5, <2>6, <2>7 DEF Finishes
<1>11. ASSUME NEW c \in Conns, FetchSecret(c) PROVE Counted'
  <2>1. wg' = wg /\ serve' = serve
    BY <1>11 DEF FetchSecret, Step, Needed, procVars, auditVars
  <2>2. \A d \in Conns : pc'[d] \in Handling <=> pc[d] \in Handling
    BY <1>11 DEF FetchSecret, Step, Needed, procVars, auditVars, TypeOK,
         InPlace, Handling, InOperation
  <2>3. Active' = Active
    BY <2>2 DEF Active
  <2> QED
    BY <2>1, <2>3 DEF Counted
<1>12. ASSUME NEW c \in Conns, FetchFails(c) PROVE Counted'
  <2>1. wg' = wg /\ serve' = serve
    BY <1>12 DEF FetchFails, Settle, Step, Needed, procVars, auditVars
  <2>2. \A d \in Conns : pc'[d] \in Handling <=> pc[d] \in Handling
    BY <1>12 DEF FetchFails, Settle, Step, Needed, procVars, auditVars, TypeOK,
         InPlace, Handling, InOperation
  <2>3. Active' = Active
    BY <2>2 DEF Active
  <2> QED
    BY <2>1, <2>3 DEF Counted
<1>13. ASSUME NEW c \in Conns, Deadline(c) PROVE Counted'
  <2>1. wg' = wg /\ serve' = serve
    BY <1>13 DEF Deadline, serveVars, clientVars, credVars, procVars, auditVars
  <2>2. \A d \in Conns : pc'[d] \in Handling <=> pc[d] \in Handling
    BY <1>13 DEF Deadline, serveVars, clientVars, credVars, procVars, auditVars,
         TypeOK, InPlace, Handling, InOperation
  <2>3. Active' = Active
    BY <2>2 DEF Active
  <2> QED
    BY <2>1, <2>3 DEF Counted
<1> QED
  BY <1>1, <1>2, <1>3, <1>4, <1>5, <1>6, <1>7, <1>8, <1>9, <1>10, <1>11, <1>12,
       <1>13 DEF Next, Handler

(***************************************************************************)
(* The theorems.                                                           *)
(***************************************************************************)

\* Before Listen there are no handlers, no secrets and no records.
LEMMA InitInductive == Init => Inductive
<1> SUFFICES ASSUME Init PROVE Inductive
  OBVIOUS
<1>1. TypeOK
  BY UnlaunchedType DEF Init, TypeOK, Positions
<1>2. OnlyEntitled /\ ResponseHeld /\ InPlace /\ RecordedFirst
  BY DEF Init, OnlyEntitled, ResponseHeld, InPlace, RecordedFirst, Credentialed,
         Exposed, InOperation, None
<1>3. Active = {}
  BY DEF Init, Active, Handling, InOperation
<1>4. Counted
  BY <1>3, FS_EmptySet DEF Init, Counted
<1> QED
  BY <1>1, <1>2, <1>4 DEF Inductive

\* Nothing the invariant speaks of changes in a stuttering step.
LEMMA StutterInductive == Inductive /\ UNCHANGED vars => Inductive'
BY DEF Inductive, TypeOK, OnlyEntitled, ResponseHeld, InPlace, RecordedFirst, Counted,
       Active, Entitled, Credentialed, Exposed, Record, vars, serveVars, clientVars,
       credVars, procVars, auditVars

\* Each part is preserved by every step, given all of them before it.
LEMMA NextInductive == Inductive /\ Next => Inductive'
BY TypeStep, EntitledStep, ResponseStep, PlaceStep, RecordStep, CountStep DEF Inductive

\* Everything below follows from this: the strengthened invariant of the broker,
\* over the whole of Serve, handleConn, finish and the crashes.
THEOREM InductiveHolds == Spec => []Inductive
BY InitInductive, NextInductive, StutterInductive, PTL DEF Spec

\* Every variable keeps its type; in particular Serve's WaitGroup never goes
\* below zero, which would panic the broker.
THEOREM TypeCorrect == Spec => []TypeOK
<1>1. Inductive => TypeOK
  BY DEF Inductive
<1> QED
  BY <1>1, InductiveHolds, PTL

\* handleConn steps 3 to 8: no credential without authorization and valid inputs.
THEOREM OnlyEntitledCredentials == Spec => []CredentialOnlyIfEntitled
<1>1. Inductive => CredentialOnlyIfEntitled
  BY DEF Inductive, OnlyEntitled, CredentialOnlyIfEntitled
<1> QED
  BY <1>1, InductiveHolds, PTL

\* session.go:178-203: an OK that was delivered has a record that survives crashes.
THEOREM DurableBeforeOK == Spec => []OKHasDurableRecord
<1>1. Inductive => OKHasDurableRecord
  BY DEF Inductive, RecordedFirst, OKHasDurableRecord
<1> QED
  BY <1>1, InductiveHolds, PTL

\* SERVICE-PROTOCOL.md steps 12 and 13: cleanup precedes every answer.
THEOREM AnswersLeaveNothing == Spec => []CleanBeforeAnswer
<1>1. Inductive => CleanBeforeAnswer
  BY DEF Inductive, InPlace, CleanBeforeAnswer, Exposed
<1> QED
  BY <1>1, InductiveHolds, PTL

\* broker.go:325-332: Serve returns only behind its last handler, and leaves no
\* secret in memory, no file and no consumer.
THEOREM ServeLeavesNothing == Spec => []NothingSurvivesServe
<1>1. Inductive => NothingSurvivesServe
  BY DEF Inductive, InPlace, Counted, Active, NothingSurvivesServe, Credentialed,
         Exposed, Handling, InOperation
<1> QED
  BY <1>1, InductiveHolds, PTL
=============================================================================
