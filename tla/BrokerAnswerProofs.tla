------------------------- MODULE BrokerAnswerProofs -------------------------
(***************************************************************************)
(* For every set of connections, peers, operations and requests: what a    *)
(* client is told and what the log says are right, and the broker          *)
(* implements BrokerPromise.  These proofs rest on Inductive (BrokerProofs) *)
(* and on Answers, which is inductive relative to it.                      *)
(***************************************************************************)
EXTENDS BrokerProofs

\* Where a handler is once its consumer is over, or will never be; and where it
\* is from the moment its record is in the file, or could not be written.
Settled   == {"cleanup", "audit", "sync", "respond", "unwind", "done"}
Finishing == {"sync", "respond", "unwind", "done"}

(***************************************************************************)
(* What the steps leave alone.                                             *)
(***************************************************************************)

\* Once a request is settled, nothing that happened to its consumer changes:
\* consumers, deadlines and cancellations come too late for it.
LEMMA SettledFrame ==
  ASSUME TypeOK, InPlace, Next, NEW d \in Conns, pc[d] \in Settled
  PROVE  /\ pc'[d] \in Settled /\ (pc[d] \in Finishing => pc'[d] \in Finishing)
         /\ proc'[d] = proc[d] /\ launch'[d] = launch[d]
         /\ ctx'[d] = "deadline" <=> ctx[d] = "deadline"
<1> DEFINE Goal == /\ pc'[d] \in Settled /\ (pc[d] \in Finishing => pc'[d] \in Finishing)
                   /\ proc'[d] = proc[d] /\ launch'[d] = launch[d]
                   /\ ctx'[d] = "deadline" <=> ctx[d] = "deadline"
<1>1. CASE ServeStep
  BY <1>1 DEF ServeStep, Listen, clientVars, credVars, procVars, auditVars,
       ListenFails, CloseListener, DropBacklog, CloserEnds, AcceptFails, ServeReturns,
       Drained, Exit, TypeOK, InPlace, Settled, Finishing, InOperation
<1>2. CASE Cancel
  BY <1>2 DEF Cancel, serveVars, clientVars, credVars, procVars, auditVars, TypeOK,
       InPlace, Settled, Finishing, InOperation
<1>3. CASE Kill
  BY <1>3 DEF Kill, DropBacklog, clientVars, procVars, auditVars, TypeOK, InPlace,
       Settled, Finishing, InOperation
<1>4. CASE PowerLoss
  BY <1>4 DEF PowerLoss, DropBacklog, clientVars, TypeOK, InPlace, Settled,
       Finishing, InOperation
<1>5. ASSUME NEW c \in Conns, Accept(c) PROVE Goal
  BY <1>5 DEF Accept, clientVars, credVars, procVars, auditVars, TypeOK, InPlace,
       Settled, Finishing, InOperation
<1>6. ASSUME NEW c \in Conns, Environment(c) PROVE Goal
  BY <1>6 DEF Environment, Connect, serveVars, credVars, procVars, auditVars, Send,
       Stall, Leave, ConsumerExits, LeavesChild, clientVars, OrphanEnds, TypeOK, InPlace,
       Settled, Finishing, InOperation
<1>7. ASSUME NEW c \in Conns, Receives(c) PROVE Goal
  BY <1>7 DEF Receives, PeerCredentials, Step, credVars, procVars, auditVars,
       PeerCredentialsFail, ReadFrame, ReadFrameFails, Refuse, Settle, StartOperation,
       TypeOK, InPlace, Settled, Finishing, InOperation
<1>8. ASSUME NEW c \in Conns, Prepares(c) PROVE Goal
  BY <1>8 DEF Prepares, Render, Step, procVars, auditVars, RenderFails, Settle,
       credVars, MakeDir, MakeDirFails, WriteFile, WriteFileFails, Launch, LaunchFails,
       TypeOK, InPlace, Settled, Finishing, InOperation
<1>9. ASSUME NEW c \in Conns, Concludes(c) PROVE Goal
  BY <1>9 DEF Concludes, KillConsumer, LeavesChild, serveVars, clientVars, credVars,
       auditVars, RunReturns, Settle, Step, procVars, Cleanup, TypeOK, InPlace, Settled,
       Finishing, InOperation
<1>10. ASSUME NEW c \in Conns, Finishes(c) PROVE Goal
  BY <1>10 DEF Finishes, AuditLine, Step, credVars, procVars, AuditLineFails,
       Downgrade, AuditSync, AuditSyncFails, Respond, auditVars, RespondFails, Unwind,
       TypeOK, InPlace, Settled, Finishing, InOperation
<1>11. ASSUME NEW c \in Conns, FetchSecret(c) PROVE Goal
  BY <1>11 DEF FetchSecret, Step, procVars, auditVars, TypeOK, InPlace, Settled,
       Finishing, InOperation
<1>12. ASSUME NEW c \in Conns, FetchFails(c) PROVE Goal
  BY <1>12 DEF FetchFails, Settle, Step, procVars, auditVars, TypeOK, InPlace,
       Settled, Finishing, InOperation
<1>13. ASSUME NEW c \in Conns, Deadline(c) PROVE Goal
  BY <1>13 DEF Deadline, serveVars, clientVars, credVars, procVars, auditVars,
       TypeOK, InPlace, Settled, Finishing, InOperation
<1> QED
  BY <1>1, <1>2, <1>3, <1>4, <1>5, <1>6, <1>7, <1>8, <1>9, <1>10, <1>11, <1>12,
       <1>13 DEF Next, Handler

\* The steps that give a request its response, or take an OK back.
Answering(c) == \/ Refuse(c) \/ FetchFails(c) \/ RenderFails(c) \/ MakeDirFails(c)
                \/ WriteFileFails(c) \/ RunReturns(c) \/ AuditLineFails(c) \/ AuditSyncFails(c)

\* No other step touches a response, and none that of another request.
LEMMA ResponseFrame ==
  ASSUME TypeOK, Next, NEW d \in Conns
  PROVE  resp'[d] = resp[d] \/ Answering(d)
<1> DEFINE Goal == resp'[d] = resp[d] \/ Answering(d)
<1>1. CASE ServeStep
  BY <1>1 DEF ServeStep, Listen, clientVars, credVars, procVars, auditVars,
       ListenFails, CloseListener, DropBacklog, CloserEnds, AcceptFails, ServeReturns,
       Drained, Exit, TypeOK, Answering
<1>2. CASE Cancel
  BY <1>2 DEF Cancel, serveVars, clientVars, credVars, procVars, auditVars, TypeOK,
       Answering
<1>3. CASE Kill
  BY <1>3 DEF Kill, DropBacklog, clientVars, procVars, auditVars, TypeOK, Answering
<1>4. CASE PowerLoss
  BY <1>4 DEF PowerLoss, DropBacklog, clientVars, TypeOK, Answering
<1>5. ASSUME NEW c \in Conns, Accept(c) PROVE resp'[d] = resp[d] \/ Answering(d)
  BY <1>5 DEF Accept, clientVars, credVars, procVars, auditVars, TypeOK, Answering
<1>6. ASSUME NEW c \in Conns, Environment(c) PROVE resp'[d] = resp[d] \/ Answering(d)
  BY <1>6 DEF Environment, Connect, serveVars, credVars, procVars, auditVars, Send,
       Stall, Leave, ConsumerExits, LeavesChild, clientVars, OrphanEnds, TypeOK,
       Answering
<1>7. ASSUME NEW c \in Conns, Receives(c) PROVE resp'[d] = resp[d] \/ Answering(d)
  BY <1>7 DEF Receives, PeerCredentials, Step, credVars, procVars, auditVars,
       PeerCredentialsFail, ReadFrame, ReadFrameFails, Refuse, Settle, StartOperation,
       TypeOK, Answering
<1>8. ASSUME NEW c \in Conns, Prepares(c) PROVE resp'[d] = resp[d] \/ Answering(d)
  BY <1>8 DEF Prepares, Render, Step, procVars, auditVars, RenderFails, Settle,
       credVars, MakeDir, MakeDirFails, WriteFile, WriteFileFails, Launch, LaunchFails,
       TypeOK, Answering
<1>9. ASSUME NEW c \in Conns, Concludes(c) PROVE resp'[d] = resp[d] \/ Answering(d)
  BY <1>9 DEF Concludes, KillConsumer, LeavesChild, serveVars, clientVars, credVars,
       auditVars, RunReturns, Settle, Step, procVars, Cleanup, TypeOK, Answering
<1>10. ASSUME NEW c \in Conns, Finishes(c) PROVE resp'[d] = resp[d] \/ Answering(d)
  BY <1>10 DEF Finishes, AuditLine, Step, credVars, procVars, AuditLineFails,
       Downgrade, AuditSync, AuditSyncFails, Respond, auditVars, RespondFails, Unwind,
       TypeOK, Answering
<1>11. ASSUME NEW c \in Conns, FetchSecret(c) PROVE resp'[d] = resp[d] \/ Answering(d)
  BY <1>11 DEF FetchSecret, Step, procVars, auditVars, TypeOK, Answering
<1>12. ASSUME NEW c \in Conns, FetchFails(c) PROVE resp'[d] = resp[d] \/ Answering(d)
  BY <1>12 DEF FetchFails, Settle, Step, procVars, auditVars, TypeOK, Answering
<1>13. ASSUME NEW c \in Conns, Deadline(c) PROVE resp'[d] = resp[d] \/ Answering(d)
  BY <1>13 DEF Deadline, serveVars, clientVars, credVars, procVars, auditVars,
       TypeOK, Answering
<1> QED
  BY <1>1, <1>2, <1>3, <1>4, <1>5, <1>6, <1>7, <1>8, <1>9, <1>10, <1>11, <1>12,
       <1>13 DEF Next, Handler

\* A client is told something by Respond alone.
LEMMA GotFrame ==
  ASSUME TypeOK, Next, NEW d \in Conns
  PROVE  got'[d] = got[d] \/ Respond(d)
<1>1. CASE ServeStep
  BY <1>1 DEF ServeStep, Listen, clientVars, credVars, procVars, auditVars,
       ListenFails, CloseListener, DropBacklog, CloserEnds, AcceptFails, ServeReturns,
       Drained, Exit, TypeOK
<1>2. CASE Cancel
  BY <1>2 DEF Cancel, serveVars, clientVars, credVars, procVars, auditVars, TypeOK
<1>3. CASE Kill
  BY <1>3 DEF Kill, DropBacklog, clientVars, procVars, auditVars, TypeOK
<1>4. CASE PowerLoss
  BY <1>4 DEF PowerLoss, DropBacklog, clientVars, TypeOK
<1>5. ASSUME NEW c \in Conns, Accept(c) PROVE got'[d] = got[d] \/ Respond(d)
  BY <1>5 DEF Accept, clientVars, credVars, procVars, auditVars, TypeOK
<1>6. ASSUME NEW c \in Conns, Environment(c) PROVE got'[d] = got[d] \/ Respond(d)
  BY <1>6 DEF Environment, Connect, serveVars, credVars, procVars, auditVars, Send,
       Stall, Leave, ConsumerExits, LeavesChild, clientVars, OrphanEnds, TypeOK
<1>7. ASSUME NEW c \in Conns, Receives(c) PROVE got'[d] = got[d] \/ Respond(d)
  BY <1>7 DEF Receives, PeerCredentials, Step, credVars, procVars, auditVars,
       PeerCredentialsFail, ReadFrame, ReadFrameFails, Refuse, Settle, StartOperation,
       TypeOK
<1>8. ASSUME NEW c \in Conns, Prepares(c) PROVE got'[d] = got[d] \/ Respond(d)
  BY <1>8 DEF Prepares, Render, Step, procVars, auditVars, RenderFails, Settle,
       credVars, MakeDir, MakeDirFails, WriteFile, WriteFileFails, Launch, LaunchFails,
       TypeOK
<1>9. ASSUME NEW c \in Conns, Concludes(c) PROVE got'[d] = got[d] \/ Respond(d)
  BY <1>9 DEF Concludes, KillConsumer, LeavesChild, serveVars, clientVars, credVars,
       auditVars, RunReturns, Settle, Step, procVars, Cleanup, TypeOK
<1>10. ASSUME NEW c \in Conns, Finishes(c) PROVE got'[d] = got[d] \/ Respond(d)
  BY <1>10 DEF Finishes, AuditLine, Step, credVars, procVars, AuditLineFails,
       Downgrade, AuditSync, AuditSyncFails, Respond, auditVars, RespondFails, Unwind,
       TypeOK
<1>11. ASSUME NEW c \in Conns, FetchSecret(c) PROVE got'[d] = got[d] \/ Respond(d)
  BY <1>11 DEF FetchSecret, Step, procVars, auditVars, TypeOK
<1>12. ASSUME NEW c \in Conns, FetchFails(c) PROVE got'[d] = got[d] \/ Respond(d)
  BY <1>12 DEF FetchFails, Settle, Step, procVars, auditVars, TypeOK
<1>13. ASSUME NEW c \in Conns, Deadline(c) PROVE got'[d] = got[d] \/ Respond(d)
  BY <1>13 DEF Deadline, serveVars, clientVars, credVars, procVars, auditVars,
       TypeOK
<1> QED
  BY <1>1, <1>2, <1>3, <1>4, <1>5, <1>6, <1>7, <1>8, <1>9, <1>10, <1>11, <1>12,
       <1>13 DEF Next, Handler

\* The steps by which a request enters Finishing.
Entering(c) == AuditLine(c) \/ AuditLineFails(c) \/ PeerCredentialsFail(c) \/ ReadFrameFails(c)

\* Past its audit a request only gets through AuditLine, or without a record.
LEMMA FinishingFrame ==
  ASSUME TypeOK, InPlace, Next, NEW d \in Conns
  PROVE  pc'[d] \in Finishing => pc[d] \in Finishing \/ Entering(d)
<1> DEFINE Goal == pc'[d] \in Finishing => pc[d] \in Finishing \/ Entering(d)
<1>1. CASE ServeStep
  BY <1>1 DEF ServeStep, Listen, clientVars, credVars, procVars, auditVars,
       ListenFails, CloseListener, DropBacklog, CloserEnds, AcceptFails, ServeReturns,
       Drained, Exit, TypeOK, InPlace, Finishing, Entering
<1>2. CASE Cancel
  BY <1>2 DEF Cancel, serveVars, clientVars, credVars, procVars, auditVars, TypeOK,
       InPlace, Finishing, Entering
<1>3. CASE Kill
  BY <1>3 DEF Kill, DropBacklog, clientVars, procVars, auditVars, TypeOK, InPlace,
       Finishing, Entering
<1>4. CASE PowerLoss
  BY <1>4 DEF PowerLoss, DropBacklog, clientVars, TypeOK, InPlace, Finishing,
       Entering
<1>5. ASSUME NEW c \in Conns, Accept(c) PROVE Goal
  BY <1>5 DEF Accept, clientVars, credVars, procVars, auditVars, TypeOK, InPlace,
       Finishing, Entering
<1>6. ASSUME NEW c \in Conns, Environment(c) PROVE Goal
  BY <1>6 DEF Environment, Connect, serveVars, credVars, procVars, auditVars, Send,
       Stall, Leave, ConsumerExits, LeavesChild, clientVars, OrphanEnds, TypeOK, InPlace,
       Finishing, Entering
<1>7. ASSUME NEW c \in Conns, Receives(c) PROVE Goal
  BY <1>7 DEF Receives, PeerCredentials, Step, credVars, procVars, auditVars,
       PeerCredentialsFail, ReadFrame, ReadFrameFails, Refuse, Settle, StartOperation,
       TypeOK, InPlace, Finishing, Entering
<1>8. ASSUME NEW c \in Conns, Prepares(c) PROVE Goal
  BY <1>8 DEF Prepares, Render, Step, procVars, auditVars, RenderFails, Settle,
       credVars, MakeDir, MakeDirFails, WriteFile, WriteFileFails, Launch, LaunchFails,
       TypeOK, InPlace, Finishing, Entering
<1>9. ASSUME NEW c \in Conns, Concludes(c) PROVE Goal
  BY <1>9 DEF Concludes, KillConsumer, LeavesChild, serveVars, clientVars, credVars,
       auditVars, RunReturns, Settle, Step, procVars, Cleanup, TypeOK, InPlace,
       Finishing, Entering
<1>10. ASSUME NEW c \in Conns, Finishes(c) PROVE Goal
  BY <1>10 DEF Finishes, AuditLine, Step, credVars, procVars, AuditLineFails,
       Downgrade, AuditSync, AuditSyncFails, Respond, auditVars, RespondFails, Unwind,
       TypeOK, InPlace, Finishing, Entering
<1>11. ASSUME NEW c \in Conns, FetchSecret(c) PROVE Goal
  BY <1>11 DEF FetchSecret, Step, procVars, auditVars, TypeOK, InPlace, Finishing,
       Entering
<1>12. ASSUME NEW c \in Conns, FetchFails(c) PROVE Goal
  BY <1>12 DEF FetchFails, Settle, Step, procVars, auditVars, TypeOK, InPlace,
       Finishing, Entering
<1>13. ASSUME NEW c \in Conns, Deadline(c) PROVE Goal
  BY <1>13 DEF Deadline, serveVars, clientVars, credVars, procVars, auditVars,
       TypeOK, InPlace, Finishing, Entering
<1> QED
  BY <1>1, <1>2, <1>3, <1>4, <1>5, <1>6, <1>7, <1>8, <1>9, <1>10, <1>11, <1>12,
       <1>13 DEF Next, Handler

\* The log only grows, but for what a power loss takes of the file, and only by
\* the records of AuditLine.
LEMMA LogFrame ==
  ASSUME TypeOK, Next
  PROVE  /\ host' # "off" => host # "off" /\ page \subseteq page'
         /\ disk \subseteq disk' /\ auditErr \subseteq auditErr'
         /\ \A r \in page' \cup disk' :
              r \in page \cup disk \/ \E c \in Conns : AuditLine(c) /\ r = Record(c)
<1> DEFINE Goal == /\ host' # "off" => host # "off" /\ page \subseteq page'
                   /\ disk \subseteq disk' /\ auditErr \subseteq auditErr'
                   /\ \A r \in page' \cup disk' :
                        r \in page \cup disk \/ \E c \in Conns : AuditLine(c) /\ r = Record(c)
<1>1. CASE ServeStep
  BY <1>1 DEF ServeStep, Listen, clientVars, credVars, procVars, auditVars,
       ListenFails, CloseListener, DropBacklog, CloserEnds, AcceptFails, ServeReturns,
       Drained, Exit, TypeOK
<1>2. CASE Cancel
  BY <1>2 DEF Cancel, serveVars, clientVars, credVars, procVars, auditVars, TypeOK
<1>3. CASE Kill
  BY <1>3 DEF Kill, DropBacklog, clientVars, procVars, auditVars, TypeOK
<1>4. CASE PowerLoss
  BY <1>4 DEF PowerLoss, DropBacklog, clientVars, TypeOK
<1>5. ASSUME NEW c \in Conns, Accept(c) PROVE Goal
  BY <1>5 DEF Accept, clientVars, credVars, procVars, auditVars, TypeOK
<1>6. ASSUME NEW c \in Conns, Environment(c) PROVE Goal
  BY <1>6 DEF Environment, Connect, serveVars, credVars, procVars, auditVars, Send,
       Stall, Leave, ConsumerExits, LeavesChild, clientVars, OrphanEnds, TypeOK
<1>7. ASSUME NEW c \in Conns, Receives(c) PROVE Goal
  BY <1>7 DEF Receives, PeerCredentials, Step, credVars, procVars, auditVars,
       PeerCredentialsFail, ReadFrame, ReadFrameFails, Refuse, Settle, StartOperation,
       TypeOK
<1>8. ASSUME NEW c \in Conns, Prepares(c) PROVE Goal
  BY <1>8 DEF Prepares, Render, Step, procVars, auditVars, RenderFails, Settle,
       credVars, MakeDir, MakeDirFails, WriteFile, WriteFileFails, Launch, LaunchFails,
       TypeOK
<1>9. ASSUME NEW c \in Conns, Concludes(c) PROVE Goal
  BY <1>9 DEF Concludes, KillConsumer, LeavesChild, serveVars, clientVars, credVars,
       auditVars, RunReturns, Settle, Step, procVars, Cleanup, TypeOK
<1>10. ASSUME NEW c \in Conns, Finishes(c) PROVE Goal
  BY <1>10 DEF Finishes, AuditLine, Step, credVars, procVars, AuditLineFails,
       Downgrade, AuditSync, AuditSyncFails, Respond, auditVars, RespondFails, Unwind,
       TypeOK
<1>11. ASSUME NEW c \in Conns, FetchSecret(c) PROVE Goal
  BY <1>11 DEF FetchSecret, Step, procVars, auditVars, TypeOK
<1>12. ASSUME NEW c \in Conns, FetchFails(c) PROVE Goal
  BY <1>12 DEF FetchFails, Settle, Step, procVars, auditVars, TypeOK
<1>13. ASSUME NEW c \in Conns, Deadline(c) PROVE Goal
  BY <1>13 DEF Deadline, serveVars, clientVars, credVars, procVars, auditVars,
       TypeOK
<1> QED
  BY <1>1, <1>2, <1>3, <1>4, <1>5, <1>6, <1>7, <1>8, <1>9, <1>10, <1>11, <1>12,
       <1>13 DEF Next, Handler

(***************************************************************************)
(* The verdict and the answers BrokerPromise admits.                       *)
(***************************************************************************)

\* A refusal is the one answer BrokerPromise admits for such a request; that an
\* authorized operation is not declared, newServer has ruled out.
LEMMA VerdictAdmissible ==
  ASSUME TypeOK, NEW c \in Conns, call[c].req.frame # "oversized",
         Verdict(call[c].uid, call[c].req) # None
  PROVE  Promise!Admissible(c, Verdict(call[c].uid, call[c].req))
<1> DEFINE r == call[c].req
<1>1. r \in RequestType
  BY RequestsTyped DEF TypeOK
<1>2. <<call[c].uid, r.operation>> \in Authz => r.operation \in Declared
  BY AuthzValidated DEF Resolves
<1> QED
  BY <1>1, <1>2 DEF Verdict, Decide, None, RequestType, Promise!Admissible,
       Promise!Permitted, Promise!WellFormed, Promise!Authorized

\* What runs is permitted: BadRef is granted to nobody.
LEMMA EntitledPermitted ==
  ASSUME NEW c \in Conns, Entitled(c)
  PROVE  Promise!Permitted(c)
<1>1. call[c].req.operation \in Refs
  BY AuthzValidated DEF Resolves, Entitled
<1> QED
  BY <1>1, BadRefIsBad DEF Entitled, Promise!Permitted, Promise!WellFormed,
       Promise!Authorized

(***************************************************************************)
(* Each part of Answers is preserved by every step.                        *)
(***************************************************************************)

\* A response comes with leaving the operation, a consumer with Launch.
LEMMA UndecidedStep ==
  ASSUME TypeOK, InPlace, Undecided, Next
  PROVE  Undecided'
<1>1. CASE ServeStep
  BY <1>1 DEF ServeStep, Listen, clientVars, credVars, procVars, auditVars,
       ListenFails, CloseListener, DropBacklog, CloserEnds, AcceptFails, ServeReturns,
       Drained, Exit, TypeOK, InPlace, Undecided, Positions, Handling, InOperation
<1>2. CASE Cancel
  BY <1>2 DEF Cancel, serveVars, clientVars, credVars, procVars, auditVars, TypeOK,
       InPlace, Undecided, Positions, Handling, InOperation
<1>3. CASE Kill
  BY <1>3 DEF Kill, DropBacklog, clientVars, procVars, auditVars, TypeOK, InPlace,
       Undecided, Positions, Handling, InOperation
<1>4. CASE PowerLoss
  BY <1>4 DEF PowerLoss, DropBacklog, clientVars, TypeOK, InPlace, Undecided,
       Positions, Handling, InOperation
<1>5. ASSUME NEW c \in Conns, Accept(c) PROVE Undecided'
  BY <1>5 DEF Accept, clientVars, credVars, procVars, auditVars, TypeOK, InPlace,
       Undecided, Positions, Handling, InOperation
<1>6. ASSUME NEW c \in Conns, Environment(c) PROVE Undecided'
  BY <1>6 DEF Environment, Connect, serveVars, credVars, procVars, auditVars, Send,
       Stall, Leave, ConsumerExits, LeavesChild, clientVars, OrphanEnds, TypeOK, InPlace,
       Undecided, Positions, Handling, InOperation
<1>7. ASSUME NEW c \in Conns, Receives(c) PROVE Undecided'
  BY <1>7 DEF Receives, PeerCredentials, Step, credVars, procVars, auditVars,
       PeerCredentialsFail, ReadFrame, ReadFrameFails, Refuse, Settle, StartOperation,
       TypeOK, InPlace, Undecided, Positions, Handling, InOperation
<1>8. ASSUME NEW c \in Conns, Prepares(c) PROVE Undecided'
  BY <1>8 DEF Prepares, Render, Step, procVars, auditVars, RenderFails, Settle,
       credVars, MakeDir, MakeDirFails, WriteFile, WriteFileFails, Launch, LaunchFails,
       TypeOK, InPlace, Undecided, Positions, Handling, InOperation
<1>9. ASSUME NEW c \in Conns, Concludes(c) PROVE Undecided'
  BY <1>9 DEF Concludes, KillConsumer, LeavesChild, serveVars, clientVars, credVars,
       auditVars, RunReturns, Settle, Step, procVars, Cleanup, TypeOK, InPlace,
       Undecided, Positions, Handling, InOperation
<1>10. ASSUME NEW c \in Conns, Finishes(c) PROVE Undecided'
  BY <1>10 DEF Finishes, AuditLine, Step, credVars, procVars, AuditLineFails,
       Downgrade, AuditSync, AuditSyncFails, Respond, auditVars, RespondFails, Unwind,
       TypeOK, InPlace, Undecided, Positions, Handling, InOperation
<1>11. ASSUME NEW c \in Conns, FetchSecret(c) PROVE Undecided'
  BY <1>11 DEF FetchSecret, Step, procVars, auditVars, TypeOK, InPlace, Undecided,
       Positions, Handling, InOperation
<1>12. ASSUME NEW c \in Conns, FetchFails(c) PROVE Undecided'
  BY <1>12 DEF FetchFails, Settle, Step, procVars, auditVars, TypeOK, InPlace,
       Undecided, Positions, Handling, InOperation
<1>13. ASSUME NEW c \in Conns, Deadline(c) PROVE Undecided'
  BY <1>13 DEF Deadline, serveVars, clientVars, credVars, procVars, auditVars,
       TypeOK, InPlace, Undecided, Positions, Handling, InOperation
<1> QED
  BY <1>1, <1>2, <1>3, <1>4, <1>5, <1>6, <1>7, <1>8, <1>9, <1>10, <1>11, <1>12,
       <1>13 DEF Next, Handler

\* A response is earned when it is given, and stays so: nothing that happens
\* later to the consumer, the context or the audit file makes it false.
LEMMA EarnedStep ==
  ASSUME TypeOK, OnlyEntitled, InPlace, Undecided, Earned, Next
  PROVE  Earned'
<1> SUFFICES ASSUME NEW d \in Conns, resp'[d] # None
             PROVE  Promise!Admissible(d, resp[d])' /\ Happened(d, resp[d])'
  BY DEF Earned
<1>a. call' = call
  BY CallFixed
<1>b. Promise!Admissible(d, resp'[d]) => Promise!Admissible(d, resp[d])'
  BY <1>a DEF Promise!Admissible, Promise!Permitted, Promise!WellFormed,
       Promise!Authorized
<1>1. CASE resp'[d] = resp[d]
  <2>1. pc[d] \in Settled /\ auditErr \subseteq auditErr'
    BY <1>1, LogFrame DEF Undecided, Settled
  <2>2. Promise!Admissible(d, resp[d]) /\ Happened(d, resp[d])
    BY <1>1 DEF Earned
  <2> QED
    BY <1>1, <1>b, <2>1, <2>2, SettledFrame DEF Happened
<1>2. CASE Refuse(d)
  <2>1. /\ resp'[d] = Verdict(call[d].uid, call[d].req) /\ resp'[d] # None
        /\ pc[d] = "decide" /\ proc' = proc
    BY <1>2 DEF Refuse, Settle, Step, procVars, TypeOK
  <2>2. call[d].req.frame # "oversized" /\ proc[d] = "none"
    BY <2>1 DEF OnlyEntitled, Undecided, Positions, Handling, InOperation
  <2>3. Promise!Admissible(d, resp'[d])
    BY <2>1, <2>2, VerdictAdmissible
  <2>4. resp'[d] \notin {"OK", "result_too_large", "timeout"}
    BY <2>1 DEF Verdict
  <2> QED
    BY <1>b, <2>1, <2>2, <2>3, <2>4 DEF Happened
<1>3. CASE FetchFails(d) \/ RenderFails(d) \/ MakeDirFails(d) \/ WriteFileFails(d)
  <2>1. /\ resp'[d] = "broker_unavailable" /\ proc' = proc
        /\ pc[d] \in {"fetch", "mkdir", "write"}
    BY <1>3 DEF FetchFails, RenderFails, MakeDirFails, WriteFileFails, Settle, Step,
         procVars, TypeOK
  <2>2. Entitled(d) /\ proc[d] = "none"
    BY <2>1 DEF OnlyEntitled, Undecided, Positions, Handling, InOperation
  <2>3. Promise!Admissible(d, resp'[d])
    BY <2>1, <2>2, EntitledPermitted DEF Promise!Admissible
  <2> QED
    BY <1>b, <2>1, <2>2, <2>3 DEF Happened
<1>4. CASE RunReturns(d)
  <2>1. /\ resp'[d] = Classify(ctx[d] = "deadline", launch[d]) /\ pc[d] = "run"
        /\ proc[d] = "exited" /\ proc' = proc /\ launch' = launch /\ ctx' = ctx
    BY <1>4 DEF RunReturns, Settle, Step, procVars, TypeOK
  <2>2. Entitled(d) /\ launch[d] \in LaunchResult
    BY <2>1 DEF OnlyEntitled, InOperation, TypeOK
  <2>3. Promise!Admissible(d, resp'[d])
    BY <2>1, <2>2, EntitledPermitted DEF Promise!Admissible, Classify
  <2> QED
    BY <1>b, <2>1, <2>2, <2>3 DEF Happened, Classify, LaunchResult
<1>5. CASE AuditLineFails(d) \/ AuditSyncFails(d)
  <2>1. /\ resp'[d] = (IF resp[d] = "OK" THEN "broker_unavailable" ELSE resp[d])
        /\ auditErr' = auditErr \cup {d}
        /\ proc' = proc /\ launch' = launch /\ ctx' = ctx
    BY <1>5 DEF AuditLineFails, AuditSyncFails, Downgrade, Step, procVars, TypeOK
  <2>2. resp[d] # None /\ Promise!Admissible(d, resp[d]) /\ Happened(d, resp[d])
    BY <2>1 DEF Earned, None
  <2>3. Promise!Admissible(d, resp'[d])
    BY <2>1, <2>2 DEF Promise!Admissible
  <2> QED
    BY <1>b, <2>1, <2>2, <2>3 DEF Happened
<1> QED
  BY <1>1, <1>2, <1>3, <1>4, <1>5, ResponseFrame DEF Answering

\* A record keeps agreeing with the response: once it is written, only a failed
\* fsync changes that, and takes back no more than an OK.
LEMMA LoggedStep ==
  ASSUME TypeOK, ResponseHeld, InPlace, Earned, Logged, Next
  PROVE  Logged'
<1> SUFFICES ASSUME NEW r \in page' \cup disk'
             PROVE  /\ pc'[r.conn] \in Finishing
                    /\ Promise!Admissible(r.conn, r.code)'
                    /\ Promise!Agree(r.code, resp'[r.conn])
  BY DEF Logged, Finishing, Promise!Agree
<1>a. call' = call
  BY CallFixed
<1>b. Promise!Admissible(r.conn, r.code) => Promise!Admissible(r.conn, r.code)'
  BY <1>a DEF Promise!Admissible, Promise!Permitted, Promise!WellFormed,
       Promise!Authorized
<1>1. CASE r \in page \cup disk
  <2>1. r.conn \in Conns
    BY <1>1 DEF TypeOK, AuditRecord
  <2>2. /\ pc[r.conn] \in Finishing
        /\ Promise!Admissible(r.conn, r.code) /\ Promise!Agree(r.code, resp[r.conn])
    BY <1>1 DEF Logged, Finishing
  <2>3. pc'[r.conn] \in Finishing
    BY <2>1, <2>2, SettledFrame DEF Settled, Finishing
  <2>4. CASE resp'[r.conn] = resp[r.conn]
    BY <1>b, <2>2, <2>3, <2>4
  <2>5. CASE AuditSyncFails(r.conn)
    <3>1. resp'[r.conn] = IF resp[r.conn] = "OK" THEN "broker_unavailable" ELSE resp[r.conn]
      BY <2>1, <2>5 DEF AuditSyncFails, Downgrade, TypeOK
    <3> QED
      BY <1>b, <2>2, <2>3, <3>1 DEF Promise!Agree
  <2>6. Answering(r.conn) => AuditSyncFails(r.conn)
    BY <2>2 DEF Answering, Finishing, Refuse, FetchFails, RenderFails, MakeDirFails,
         WriteFileFails, RunReturns, AuditLineFails, Settle, Step
  <2> QED
    BY <2>1, <2>4, <2>5, <2>6, ResponseFrame
<1>2. ASSUME NEW c \in Conns, AuditLine(c), r = Record(c)
      PROVE  /\ pc'[r.conn] \in Finishing
             /\ Promise!Admissible(r.conn, r.code)'
             /\ Promise!Agree(r.code, resp'[r.conn])
  <2>1. r.conn = c /\ r.code = resp[c]
    BY <1>2 DEF Record
  <2>2. pc[c] = "audit" /\ pc'[c] = "sync" /\ resp' = resp
    BY <1>2 DEF AuditLine, Step, TypeOK
  <2>3. resp[c] \in Codes
    BY <2>2 DEF ResponseHeld
  <2>4. Promise!Admissible(c, resp[c])
    BY <2>3 DEF Earned, Codes, None
  <2> QED
    BY <1>b, <2>1, <2>2, <2>4 DEF Promise!Agree, Finishing
<1> QED
  BY <1>1, <1>2, LogFrame

\* Behind the answer no response changes any more.
LEMMA ToldStep ==
  ASSUME TypeOK, InPlace, Told, Next
  PROVE  Told'
<1> SUFFICES ASSUME NEW d \in Conns, got'[d] # None PROVE got'[d] = resp'[d]
  BY DEF Told
<1>1. CASE Respond(d)
  BY <1>1 DEF Respond, TypeOK
<1>2. CASE got'[d] = got[d]
  <2>1. got[d] = resp[d] /\ pc[d] \in {"unwind", "done"}
    BY <1>2 DEF Told, InPlace
  <2>2. ~Answering(d)
    BY <2>1 DEF Answering, Refuse, FetchFails, RenderFails, MakeDirFails,
         WriteFileFails, RunReturns, AuditLineFails, AuditSyncFails, Settle, Step
  <2> QED
    BY <1>2, <2>1, <2>2, ResponseFrame
<1> QED
  BY <1>1, <1>2, GotFrame

\* A request gets past its audit with a record, with an error, or undecided.
LEMMA AuditedStep ==
  ASSUME TypeOK, InPlace, Undecided, Audited, Next
  PROVE  Audited'
<1> SUFFICES ASSUME host' # "off", NEW d \in Conns, pc'[d] \in Finishing, resp'[d] # None
             PROVE  (\E r \in page' : r.conn = d) \/ d \in auditErr'
  BY DEF Audited, Finishing
<1>a. host # "off" /\ page \subseteq page' /\ auditErr \subseteq auditErr'
  BY LogFrame
<1>1. CASE pc[d] \in Finishing /\ resp[d] # None
  BY <1>1, <1>a DEF Audited, Finishing
<1>2. CASE pc[d] \in Finishing /\ resp[d] = None
  <2>1. AuditSyncFails(d)
    BY <1>2, ResponseFrame DEF Answering, Finishing, Refuse, FetchFails, RenderFails,
         MakeDirFails, WriteFileFails, RunReturns, AuditLineFails, Settle, Step
  <2> QED
    BY <2>1 DEF AuditSyncFails, Downgrade
<1>3. CASE AuditLine(d)
  <2>1. Record(d) \in page' /\ Record(d).conn = d
    BY <1>3 DEF AuditLine, Record
  <2> QED
    BY <2>1
<1>4. CASE AuditLineFails(d)
  BY <1>4 DEF AuditLineFails, Downgrade
<1>5. CASE PeerCredentialsFail(d) \/ ReadFrameFails(d)
  BY <1>5 DEF PeerCredentialsFail, ReadFrameFails, Step, Undecided
<1> QED
  BY <1>1, <1>2, <1>3, <1>4, <1>5, FinishingFrame DEF Entering

(***************************************************************************)
(* The theorems.                                                           *)
(***************************************************************************)

\* Before Listen nothing is answered, recorded or launched.
LEMMA InitAnswers == Init => Answers
BY DEF Init, Answers, Undecided, Earned, Logged, Told, Audited

\* Nothing Answers speaks of changes in a stuttering step.
LEMMA StutterAnswers == Answers /\ UNCHANGED vars => Answers'
BY DEF Answers, Undecided, Earned, Logged, Told, Audited, Happened, Promise!Admissible,
       Promise!Permitted, Promise!WellFormed, Promise!Authorized, Promise!Agree, vars,
       serveVars, clientVars, credVars, procVars, auditVars

\* Every step preserves the parts of Answers, given those of Inductive.
LEMMA NextAnswers == Inductive /\ Answers /\ Next => Answers'
BY UndecidedStep, EarnedStep, LoggedStep, ToldStep, AuditedStep DEF Inductive, Answers

\* What responses, records and answers say of each other and of the consumer, at
\* every instant: the invariant behind the four theorems that follow.
THEOREM AnswersHold == Spec => []Answers
BY InitAnswers, NextAnswers, StutterAnswers, InductiveHolds, PTL DEF Spec

\* session.go:178-203: no record ever contradicts what a client was told, but for
\* an OK that is told as broker_unavailable because it was not recorded for sure.
THEOREM LogNeverContradicts == Spec => []LogAgreesWithAnswer
<1>1. Inductive /\ Answers => LogAgreesWithAnswer
  BY DEF Inductive, TypeOK, AuditRecord, Answers, Logged, Told, LogAgreesWithAnswer,
         Promise!Agree
<1> QED
  BY <1>1, InductiveHolds, AnswersHold, PTL

\* SERVICE-PROTOCOL.md, Audit: every decision is in the log when its client can
\* learn of it, unless audit.Write returned an error.
THEOREM DecisionsAreAudited == Spec => []DecidedIsAudited
<1>1. Answers => DecidedIsAudited
  BY DEF Answers, Audited, DecidedIsAudited
<1> QED
  BY <1>1, AnswersHold, PTL

\* session.go:119-191: each code means what it says of the consumer; in
\* particular a refused request ran nothing, and broker_unavailable means that
\* nothing ran or that it could not be recorded.
THEOREM AnswersAreTrue == Spec => []AnswerIsTrue
<1>1. Answers => AnswerIsTrue
  <2> SUFFICES ASSUME Answers, NEW c \in Conns PROVE Happened(c, got[c])
    BY DEF AnswerIsTrue
  <2>1. CASE got[c] = None
    BY <2>1 DEF Happened, None
  <2>2. CASE got[c] # None
    BY <2>2 DEF Answers, Told, Earned
  <2> QED
    BY <2>1, <2>2
<1> QED
  BY <1>1, AnswersHold, PTL

\* session.go:78-85: a peer that is not authorized for an operation cannot tell
\* whether it exists, nor whether its inputs would do.
THEOREM StrangersLearnNothing == Spec => []NoExistenceOracle
<1>1. Answers => NoExistenceOracle
  <2> SUFFICES ASSUME Answers, NEW c \in Conns, Probe(c), got[c] # None
               PROVE  got[c] = "not_authorized"
    BY DEF NoExistenceOracle
  <2>1. Promise!Admissible(c, got[c])
    BY DEF Answers, Told, Earned
  <2> QED
    BY <2>1 DEF Probe, Promise!Admissible, Promise!Permitted, Promise!WellFormed,
         Promise!Authorized
<1> QED
  BY <1>1, AnswersHold, PTL

(***************************************************************************)
(* The refinement: under the mapping of Promise, a step of Broker takes a  *)
(* credential, withdraws some, commits records, tells an answer, or is     *)
(* nothing to BrokerPromise.                                               *)
(***************************************************************************)

\* The steps that may extend where the credential of c is.
Taking(c) == \/ FetchSecret(c) \/ Render(c) \/ MakeDir(c) \/ WriteFile(c)
             \/ WriteFileFails(c) \/ Launch(c)

\* Any other step only withdraws credentials, those of other requests included.
LEMMA CredentialFrame ==
  ASSUME TypeOK, Next, NEW d \in Conns
  PROVE  /\ Credentialed(d)' => Credentialed(d) \/ Taking(d)
         /\ Exposed(d)' => Exposed(d) \/ Taking(d)
<1> DEFINE Goal == /\ Credentialed(d)' => Credentialed(d) \/ Taking(d)
                   /\ Exposed(d)' => Exposed(d) \/ Taking(d)
<1>1. CASE ServeStep
  BY <1>1 DEF ServeStep, Listen, clientVars, credVars, procVars, auditVars,
       ListenFails, CloseListener, DropBacklog, CloserEnds, AcceptFails, ServeReturns,
       Drained, Exit, TypeOK, Credentialed, Exposed, Taking
<1>2. CASE Cancel
  BY <1>2 DEF Cancel, serveVars, clientVars, credVars, procVars, auditVars, TypeOK,
       Credentialed, Exposed, Taking
<1>3. CASE Kill
  BY <1>3 DEF Kill, DropBacklog, clientVars, procVars, auditVars, TypeOK,
       Credentialed, Exposed, Taking
<1>4. CASE PowerLoss
  BY <1>4 DEF PowerLoss, DropBacklog, clientVars, TypeOK, Credentialed, Exposed,
       Taking
<1>5. ASSUME NEW c \in Conns, Accept(c) PROVE Goal
  BY <1>5 DEF Accept, clientVars, credVars, procVars, auditVars, TypeOK,
       Credentialed, Exposed, Taking
<1>6. ASSUME NEW c \in Conns, Environment(c) PROVE Goal
  BY <1>6 DEF Environment, Connect, serveVars, credVars, procVars, auditVars, Send,
       Stall, Leave, ConsumerExits, LeavesChild, clientVars, OrphanEnds, TypeOK,
       Credentialed, Exposed, Taking
<1>7. ASSUME NEW c \in Conns, Receives(c) PROVE Goal
  BY <1>7 DEF Receives, PeerCredentials, Step, credVars, procVars, auditVars,
       PeerCredentialsFail, ReadFrame, ReadFrameFails, Refuse, Settle, StartOperation,
       TypeOK, Credentialed, Exposed, Taking
<1>8. ASSUME NEW c \in Conns, Prepares(c) PROVE Goal
  BY <1>8 DEF Prepares, Render, Step, procVars, auditVars, RenderFails, Settle,
       credVars, MakeDir, MakeDirFails, WriteFile, WriteFileFails, Launch, LaunchFails,
       TypeOK, Credentialed, Exposed, Taking
<1>9. ASSUME NEW c \in Conns, Concludes(c) PROVE Goal
  BY <1>9 DEF Concludes, KillConsumer, LeavesChild, serveVars, clientVars, credVars,
       auditVars, RunReturns, Settle, Step, procVars, Cleanup, TypeOK, Credentialed,
       Exposed, Taking
<1>10. ASSUME NEW c \in Conns, Finishes(c) PROVE Goal
  BY <1>10 DEF Finishes, AuditLine, Step, credVars, procVars, AuditLineFails,
       Downgrade, AuditSync, AuditSyncFails, Respond, auditVars, RespondFails, Unwind,
       TypeOK, Credentialed, Exposed, Taking
<1>11. ASSUME NEW c \in Conns, FetchSecret(c) PROVE Goal
  BY <1>11 DEF FetchSecret, Step, procVars, auditVars, TypeOK, Credentialed,
       Exposed, Taking
<1>12. ASSUME NEW c \in Conns, FetchFails(c) PROVE Goal
  BY <1>12 DEF FetchFails, Settle, Step, procVars, auditVars, TypeOK, Credentialed,
       Exposed, Taking
<1>13. ASSUME NEW c \in Conns, Deadline(c) PROVE Goal
  BY <1>13 DEF Deadline, serveVars, clientVars, credVars, procVars, auditVars,
       TypeOK, Credentialed, Exposed, Taking
<1> QED
  BY <1>1, <1>2, <1>3, <1>4, <1>5, <1>6, <1>7, <1>8, <1>9, <1>10, <1>11, <1>12,
       <1>13 DEF Next, Handler

\* The disk grows by fsync alone, and answers are told one at a time.
LEMMA LedgerFrame ==
  ASSUME TypeOK, Next
  PROVE  /\ disk' = disk \/ \E c \in Conns : AuditSync(c)
         /\ got' = got \/ \E c \in Conns : Respond(c)
<1> DEFINE Goal == /\ disk' = disk \/ \E c \in Conns : AuditSync(c)
                   /\ got' = got \/ \E c \in Conns : Respond(c)
<1>1. CASE ServeStep
  BY <1>1 DEF ServeStep, Listen, clientVars, credVars, procVars, auditVars,
       ListenFails, CloseListener, DropBacklog, CloserEnds, AcceptFails, ServeReturns,
       Drained, Exit, TypeOK
<1>2. CASE Cancel
  BY <1>2 DEF Cancel, serveVars, clientVars, credVars, procVars, auditVars, TypeOK
<1>3. CASE Kill
  BY <1>3 DEF Kill, DropBacklog, clientVars, procVars, auditVars, TypeOK
<1>4. CASE PowerLoss
  BY <1>4 DEF PowerLoss, DropBacklog, clientVars, TypeOK
<1>5. ASSUME NEW c \in Conns, Accept(c) PROVE Goal
  BY <1>5 DEF Accept, clientVars, credVars, procVars, auditVars, TypeOK
<1>6. ASSUME NEW c \in Conns, Environment(c) PROVE Goal
  BY <1>6 DEF Environment, Connect, serveVars, credVars, procVars, auditVars, Send,
       Stall, Leave, ConsumerExits, LeavesChild, clientVars, OrphanEnds, TypeOK
<1>7. ASSUME NEW c \in Conns, Receives(c) PROVE Goal
  BY <1>7 DEF Receives, PeerCredentials, Step, credVars, procVars, auditVars,
       PeerCredentialsFail, ReadFrame, ReadFrameFails, Refuse, Settle, StartOperation,
       TypeOK
<1>8. ASSUME NEW c \in Conns, Prepares(c) PROVE Goal
  BY <1>8 DEF Prepares, Render, Step, procVars, auditVars, RenderFails, Settle,
       credVars, MakeDir, MakeDirFails, WriteFile, WriteFileFails, Launch, LaunchFails,
       TypeOK
<1>9. ASSUME NEW c \in Conns, Concludes(c) PROVE Goal
  BY <1>9 DEF Concludes, KillConsumer, LeavesChild, serveVars, clientVars, credVars,
       auditVars, RunReturns, Settle, Step, procVars, Cleanup, TypeOK
<1>10. ASSUME NEW c \in Conns, Finishes(c) PROVE Goal
  BY <1>10 DEF Finishes, AuditLine, Step, credVars, procVars, AuditLineFails,
       Downgrade, AuditSync, AuditSyncFails, Respond, auditVars, RespondFails, Unwind,
       TypeOK
<1>11. ASSUME NEW c \in Conns, FetchSecret(c) PROVE Goal
  BY <1>11 DEF FetchSecret, Step, procVars, auditVars, TypeOK
<1>12. ASSUME NEW c \in Conns, FetchFails(c) PROVE Goal
  BY <1>12 DEF FetchFails, Settle, Step, procVars, auditVars, TypeOK
<1>13. ASSUME NEW c \in Conns, Deadline(c) PROVE Goal
  BY <1>13 DEF Deadline, serveVars, clientVars, credVars, procVars, auditVars,
       TypeOK
<1> QED
  BY <1>1, <1>2, <1>3, <1>4, <1>5, <1>6, <1>7, <1>8, <1>9, <1>10, <1>11, <1>12,
       <1>13 DEF Next, Handler

\* A step that fetches, renders, writes or launches takes a credential for a
\* request that is permitted and not yet answered.
LEMMA TakingTakes ==
  ASSUME TypeOK, OnlyEntitled, InPlace, NEW c \in Conns, Taking(c)
  PROVE  Promise!Take(c)
<1>1. /\ pc[c] \in InOperation /\ call' = call /\ disk' = disk /\ got' = got
  BY DEF Taking, FetchSecret, Render, MakeDir, WriteFile, WriteFileFails, Launch, Settle,
         Step, auditVars, InOperation
<1>2. Entitled(c) /\ got[c] = None
  BY <1>1 DEF OnlyEntitled, InPlace, InOperation
<1>3. \A d \in Conns \ {c} :
        (Credentialed(d)' <=> Credentialed(d)) /\ (Exposed(d)' <=> Exposed(d))
  BY DEF Taking, FetchSecret, Render, MakeDir, WriteFile, WriteFileFails, Launch, Settle,
         Step, credVars, procVars, TypeOK, Credentialed, Exposed
<1>4. Credentialed(c)' /\ (Exposed(c) => Exposed(c)')
  <2>1. CASE FetchSecret(c)
    BY <2>1 DEF FetchSecret, procVars, TypeOK, Credentialed, Exposed
  <2>2. CASE Render(c)
    BY <2>2 DEF Render, procVars, TypeOK, Credentialed, Exposed
  <2>3. CASE MakeDir(c) \/ WriteFile(c) \/ WriteFileFails(c)
    BY <2>3 DEF MakeDir, WriteFile, WriteFileFails, TypeOK, Credentialed, Exposed
  <2>4. CASE Launch(c)
    BY <2>4 DEF Launch, credVars, TypeOK, Credentialed, Exposed
  <2> QED
    BY <2>1, <2>2, <2>3, <2>4 DEF Taking
<1>5. {d \in Conns : Credentialed(d)}' = {d \in Conns : Credentialed(d)} \cup {c}
  BY <1>3, <1>4
<1>6. {d \in Conns : Exposed(d)}' \in {{d \in Conns : Exposed(d)},
                                       {d \in Conns : Exposed(d)} \cup {c}}
  BY <1>3, <1>4
<1> QED
  BY <1>1, <1>2, <1>5, <1>6, EntitledPermitted DEF Promise!Take

\* fsync commits records of requests past their audit, each of which agrees with
\* what its client was told.
LEMMA SyncCommits ==
  ASSUME TypeOK, Logged, Told, NEW c \in Conns, AuditSync(c)
  PROVE  Promise!Commit
<1>1. /\ disk' = disk \cup page /\ call' = call /\ got' = got
      /\ UNCHANGED <<credVars, procVars>>
  BY DEF AuditSync, Step
<1>2. disk \subseteq disk'
  BY <1>1
<1>3. ASSUME NEW r \in disk' \ disk
      PROVE  /\ Promise!Admissible(r.conn, r.code)
             /\ got[r.conn] # None => Promise!Agree(r.code, got[r.conn])
  BY <1>1 DEF Logged, Told, TypeOK, AuditRecord
<1>4. {d \in Conns : Credentialed(d)}' = {d \in Conns : Credentialed(d)}
  BY <1>1 DEF Credentialed, Exposed, credVars, procVars
<1>5. {d \in Conns : Exposed(d)}' = {d \in Conns : Exposed(d)}
  BY <1>1 DEF Exposed, credVars, procVars
<1>6. UNCHANGED <<call, {d \in Conns : Credentialed(d)}, {d \in Conns : Exposed(d)}, got>>
  BY <1>1, <1>4, <1>5
<1> QED
  BY <1>2, <1>3, <1>6, Zenon DEF Promise!Commit

\* An answer is admissible, agrees with the log, and comes behind the cleanup and,
\* if it is OK, behind its durable record.
LEMMA RespondTells ==
  ASSUME Inductive, Answers, NEW c \in Conns, Respond(c)
  PROVE  Promise!Tell(c, resp[c]) /\ resp[c] \in Codes
<1>1. /\ pc[c] = "respond" /\ got' = [got EXCEPT ![c] = resp[c]]
      /\ call' = call /\ disk' = disk /\ UNCHANGED <<credVars, procVars>>
  BY DEF Respond, Step, auditVars
<1>2. resp[c] \in Codes /\ resp[c] # None
  BY <1>1 DEF Inductive, ResponseHeld, Codes, None
<1>3. got[c] = None /\ ~Exposed(c)
  BY <1>1 DEF Inductive, InPlace, Exposed
<1>4. Promise!Admissible(c, resp[c])
  BY <1>2 DEF Answers, Earned
<1>5. resp[c] = "OK" => \E r \in disk : r.conn = c /\ r.code = "OK"
  <2> SUFFICES ASSUME resp[c] = "OK" PROVE \E r \in disk : r.conn = c /\ r.code = "OK"
    OBVIOUS
  <2>1. Record(c) \in disk /\ Record(c).conn = c /\ Record(c).code = "OK"
    BY <1>1 DEF Inductive, RecordedFirst, Record
  <2> QED
    BY <2>1
<1>6. \A r \in disk : r.conn = c => Promise!Agree(r.code, resp[c])
  BY DEF Answers, Logged
<1>7. {d \in Conns : Credentialed(d)}' = {d \in Conns : Credentialed(d)}
  BY <1>1 DEF Credentialed, Exposed, credVars, procVars
<1>8. {d \in Conns : Exposed(d)}' = {d \in Conns : Exposed(d)}
  BY <1>1 DEF Exposed, credVars, procVars
<1> QED
  BY <1>1, <1>2, <1>3, <1>4, <1>5, <1>6, <1>7, <1>8 DEF Promise!Tell

\* A step that does none of this takes nothing, and may withdraw.
LEMMA OthersWithdraw ==
  ASSUME TypeOK, Next, \A c \in Conns : ~Taking(c), disk' = disk, got' = got
  PROVE  Promise!Withdraw
<1>1. {d \in Conns : Credentialed(d)}' \subseteq {d \in Conns : Credentialed(d)}
  BY CredentialFrame
<1>2. {d \in Conns : Exposed(d)}' \subseteq {d \in Conns : Exposed(d)}
  BY CredentialFrame
<1> QED
  BY <1>1, <1>2, CallFixed DEF Promise!Withdraw

\* At first no credential is anywhere and nobody was told anything.
LEMMA InitPromise == Init => Promise!Init
BY DEF Init, Promise!Init, Credentialed, Exposed

\* Every step of the broker is one of the promise, or nothing to it.
LEMMA NextPromise ==
  ASSUME Inductive, Answers, [Next]_vars
  PROVE  [Promise!Next]_(Promise!vars)
<1>1. CASE UNCHANGED vars
  BY <1>1 DEF vars, serveVars, clientVars, credVars, procVars, auditVars, Promise!vars,
       Credentialed, Exposed
<1>2. CASE Next /\ \E c \in Conns : Taking(c)
  BY <1>2, TakingTakes DEF Inductive, Promise!Next
<1>3. CASE Next /\ \E c \in Conns : AuditSync(c)
  BY <1>3, SyncCommits DEF Inductive, Answers, Promise!Next
<1>4. CASE Next /\ \E c \in Conns : Respond(c)
  BY <1>4, RespondTells DEF Promise!Next
<1>5. CASE /\ Next /\ \A c \in Conns : ~Taking(c)
           /\ disk' = disk /\ got' = got
  BY <1>5, OthersWithdraw DEF Inductive, Promise!Next
<1> QED
  BY <1>1, <1>2, <1>3, <1>4, <1>5, LedgerFrame DEF Inductive

\* The broker keeps its promise: seen from its peers and its log, Serve with all
\* its handlers, failures and crashes does nothing that BrokerPromise does not.
THEOREM BrokerKeepsPromise == Spec => KeepsPromise
BY InitPromise, NextPromise, InductiveHolds, AnswersHold, PTL
   DEF Spec, KeepsPromise, Promise!Spec
=============================================================================
