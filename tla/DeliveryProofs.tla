---------------------------- MODULE DeliveryProofs ---------------------------
(***************************************************************************)
(* For every set of requests, references, policies and profiles: nothing   *)
(* is handed out that was not authorized since it was asked for, what is   *)
(* handed out is fresh and whole, nothing stays behind, and the log says   *)
(* so.  The inductive invariant is Inductive of Delivery: of each request  *)
(* on its own, for no request's step touches another.                      *)
(***************************************************************************)
EXTENDS Delivery, FiniteSetTheorems, TLAPS

(***************************************************************************)
(* Requests as records.                                                    *)
(***************************************************************************)

\* A request stays one when the fields its steps assign get values of theirs.
LEMMA Retyped ==
  /\ \A x \in Request, p \in Places : [x EXCEPT !.pc = p] \in Request
  /\ \A x \in Request, p \in Places, a \in Answers : [x EXCEPT !.pc = p, !.answer = a] \in Request
  /\ \A x \in Request, p \in Places, w \in SUBSET Refs : [x EXCEPT !.pc = p, !.wants = w] \in Request
  /\ \A x \in Request, p \in Places, w \in SUBSET Refs, m \in Modes :
       [x EXCEPT !.pc = p, !.wants = w, !.mode = m] \in Request
  /\ \A x \in Request, p \in Places, b \in Content : [x EXCEPT !.pc = p, !.buf = b] \in Request
  /\ \A x \in Request, p \in Places, h \in Content, a \in Answers :
       [x EXCEPT !.pc = p, !.held = h, !.answer = a] \in Request
  /\ \A x \in Request, p \in Places, h \in Content, b \in Content, a \in Answers :
       [x EXCEPT !.pc = p, !.held = h, !.buf = b, !.answer = a] \in Request
  BY DEF Request

\* The same of what a request begins with, pulls, is granted and logs.
LEMMA RetypedHistory ==
  /\ \A x \in Request, p \in Places, g \in SUBSET (Refs \X Modes), t \in [Refs -> 0 .. MaxEdits] :
       [x EXCEPT !.pc = p, !.granted = g, !.asof = t] \in Request
  /\ \A x \in Request, h \in Content, w \in SUBSET Refs : [x EXCEPT !.held = h, !.pulled = w] \in Request
  /\ \A x \in Request, g \in SUBSET (Refs \X Modes) : [x EXCEPT !.granted = g] \in Request
  /\ \A x \in Request, w \in SUBSET Refs : [x EXCEPT !.authorized = w] \in Request
  /\ \A x \in Request, w \in SUBSET Refs : [x EXCEPT !.lost = w] \in Request
  /\ \A x \in Request, l \in Seq(Record) : [x EXCEPT !.log = l] \in Request
  BY DEF Request

\* The values the steps assign.
LEMMA Values ==
  /\ "idle" \in Places /\ "load" \in Places /\ "authorize" \in Places /\ "fetch" \in Places
  /\ "ready" \in Places /\ "open" \in Places /\ "refusal" \in Places /\ "ended" \in Places
  /\ "delivered" \in Answers /\ "denied" \in Answers /\ "failed" \in Answers
  /\ "ok" \in Answers /\ "error" \in Answers
  /\ {} \in Content /\ "get" \in Modes /\ "exec" \in Modes /\ "mount" \in Modes
  BY DEF Places, Answers, Content, Modes

\* What the files authorize is of references and modes.
LEMMA FilesTyped ==
  ASSUME TypeOK
  PROVE  Permits(policy) \in SUBSET (Refs \X Modes) /\ profile \in SUBSET Refs
  BY DeliveryConstants DEF TypeOK, Permits

\* The references a log allows are those of its ALLOW lines.
LEMMA SameLog ==
  ASSUME NEW x, NEW y, x.log = y.log
  PROVE  Allowed(x) = Allowed(y)
  BY DEF Allowed

(***************************************************************************)
(* One lemma per step of a request: what it assigns, and that the request  *)
(* is as it should be after it.                                            *)
(***************************************************************************)
\* A request begins with the policy and the secrets as they are.
LEMMA BeginFine ==
  ASSUME TypeOK, NEW q \in Requests, Fine(req[q]), Begin(q)
  PROVE  /\ TypeOK' /\ Fine(req[q])' /\ UNCHANGED files
         /\ \A p \in Requests \ {q} : req'[p] = req[p]
<1>1. /\ UNCHANGED <<files, server>> /\ \A p \in Requests \ {q} : req'[p] = req[p]
      /\ req[q].pc = "idle"
      /\ req'[q].pc = "load"
      /\ req'[q].granted = Permits(policy)
      /\ req'[q].asof = store
      /\ req'[q].command = req[q].command /\ req'[q].wants = req[q].wants
      /\ req'[q].mode = req[q].mode /\ req'[q].authorized = req[q].authorized
      /\ req'[q].held = req[q].held /\ req'[q].buf = req[q].buf
      /\ req'[q].answer = req[q].answer /\ req'[q].log = req[q].log
      /\ req'[q].lost = req[q].lost /\ req'[q].pulled = req[q].pulled
  BY DEF Begin, At, TypeOK, Request
<1>2. TypeOK'
  <2>1. req' \in [Requests -> Request]
    BY RetypedHistory, Values, FilesTyped DEF Begin, TypeOK
  <2> QED
    BY <1>1, <2>1 DEF TypeOK, files
<1>3. Admission(req[q])'
  BY <1>1 DEF Fine, Admission, Admitted, Judging
<1>4. Holding(req[q])'
  BY <1>1 DEF Fine, Holding, TypeOK, Request, Missing
<1>5. Recorded(req[q])'
  BY <1>1, SameLog DEF Fine, Recorded, Admission, Judging
<1>6. Probing(req[q])'
  BY <1>1 DEF Fine, Probing, Recorded, Judging
<1>7. Current(req[q])'
  BY <1>1 DEF Fine, Current, files, Permits, TypeOK
<1> QED
  BY <1>1, <1>2, <1>3, <1>4, <1>5, <1>6, <1>7 DEF Fine

\* What the profile names is what is wanted; nothing is authorized yet.
LEMMA LoadProfileFine ==
  ASSUME TypeOK, NEW q \in Requests, Fine(req[q]), LoadProfile(q)
  PROVE  /\ TypeOK' /\ Fine(req[q])' /\ UNCHANGED files
         /\ \A p \in Requests \ {q} : req'[p] = req[p]
<1>1. /\ UNCHANGED <<files, server>> /\ \A p \in Requests \ {q} : req'[p] = req[p]
      /\ req[q].pc = "load" /\ req[q].command \in {"exec", "mount"}
      /\ \/ req'[q].pc = "ended" /\ req'[q].answer = "failed" /\ req'[q].wants = req[q].wants
         \/ req'[q].pc = "authorize" /\ req'[q].answer = req[q].answer /\ req'[q].wants = profile
      /\ req'[q].command = req[q].command /\ req'[q].mode = req[q].mode
      /\ req'[q].authorized = req[q].authorized /\ req'[q].held = req[q].held
      /\ req'[q].buf = req[q].buf /\ req'[q].log = req[q].log
      /\ req'[q].lost = req[q].lost /\ req'[q].pulled = req[q].pulled
      /\ req'[q].granted = req[q].granted /\ req'[q].asof = req[q].asof
  BY DEF LoadProfile, At, TypeOK, Request
<1>2. TypeOK'
  <2>1. req' \in [Requests -> Request]
    BY Retyped, Values, FilesTyped DEF LoadProfile, TypeOK
  <2> QED
    BY <1>1, <2>1 DEF TypeOK, files
<1>3. Admission(req[q])'
  BY <1>1 DEF Fine, Admission, Admitted, Judging
<1>4. Holding(req[q])'
  BY <1>1 DEF Fine, Holding, TypeOK, Request, Missing
<1>5. Recorded(req[q])'
  BY <1>1, SameLog DEF Fine, Recorded, Admission, Judging
<1>6. Probing(req[q])'
  BY <1>1 DEF Fine, Probing, Recorded, Judging
<1>7. Current(req[q])'
  BY <1>1 DEF Fine, Current, files, Permits, TypeOK
<1> QED
  BY <1>1, <1>2, <1>3, <1>4, <1>5, <1>6, <1>7 DEF Fine

\* get wants the one reference it was given.
LEMMA TakeReferenceFine ==
  ASSUME TypeOK, NEW q \in Requests, Fine(req[q]), TakeReference(q)
  PROVE  /\ TypeOK' /\ Fine(req[q])' /\ UNCHANGED files
         /\ \A p \in Requests \ {q} : req'[p] = req[p]
<1>1. /\ UNCHANGED <<files, server>> /\ \A p \in Requests \ {q} : req'[p] = req[p]
      /\ req[q].pc = "load" /\ req[q].command = "get"
      /\ \/ req'[q].pc = "ended" /\ req'[q].answer = "denied" /\ req'[q].wants = req[q].wants
         \/ /\ req'[q].pc = "authorize" /\ req'[q].answer = req[q].answer
            /\ \E r \in Refs : req'[q].wants = {r}
      /\ req'[q].command = req[q].command /\ req'[q].mode = req[q].mode
      /\ req'[q].authorized = req[q].authorized /\ req'[q].held = req[q].held
      /\ req'[q].buf = req[q].buf /\ req'[q].log = req[q].log
      /\ req'[q].lost = req[q].lost /\ req'[q].pulled = req[q].pulled
      /\ req'[q].granted = req[q].granted /\ req'[q].asof = req[q].asof
  <2>1. CASE req' = [req EXCEPT ![q].pc = "ended", ![q].answer = "denied"]
    BY <2>1 DEF TakeReference, At, TypeOK, Request
  <2>2. ASSUME NEW r \in Refs, req' = [req EXCEPT ![q].pc = "authorize", ![q].wants = {r}]
        PROVE  /\ req'[q].pc = "authorize" /\ req'[q].wants = {r}
               /\ \A p \in Requests \ {q} : req'[p] = req[p]
               /\ req'[q].command = req[q].command
               /\ req'[q].mode = req[q].mode
               /\ req'[q].authorized = req[q].authorized
               /\ req'[q].held = req[q].held
               /\ req'[q].buf = req[q].buf
               /\ req'[q].answer = req[q].answer
               /\ req'[q].log = req[q].log
               /\ req'[q].lost = req[q].lost
               /\ req'[q].pulled = req[q].pulled
               /\ req'[q].granted = req[q].granted
               /\ req'[q].asof = req[q].asof
    BY <2>2 DEF TypeOK, Request
  <2> QED
    BY <2>1, <2>2 DEF TakeReference, At
<1>2. TypeOK'
  <2>1. ASSUME req' = [req EXCEPT ![q].pc = "ended", ![q].answer = "denied"]
        PROVE  req' \in [Requests -> Request]
    BY <2>1, Retyped, Values DEF TypeOK
  <2>2. ASSUME NEW r \in Refs, req' = [req EXCEPT ![q].pc = "authorize", ![q].wants = {r}]
        PROVE  req' \in [Requests -> Request]
    <3>1. {r} \in SUBSET Refs
      OBVIOUS
    <3> QED
      BY <2>2, <3>1, Retyped, Values DEF TypeOK
  <2>3. req' \in [Requests -> Request]
    BY <2>1, <2>2 DEF TakeReference, TypeOK
  <2> QED
    BY <1>1, <2>1, <2>2, <2>3 DEF TypeOK, files
<1>3. Admission(req[q])'
  BY <1>1 DEF Fine, Admission, Admitted, Judging
<1>4. Holding(req[q])'
  BY <1>1 DEF Fine, Holding, TypeOK, Request, Missing
<1>5. Recorded(req[q])'
  BY <1>1, SameLog DEF Fine, Recorded, Admission, Judging
<1>6. Probing(req[q])'
  BY <1>1 DEF Fine, Probing, Recorded, Judging
<1>7. Current(req[q])'
  BY <1>1 DEF Fine, Current, files, Permits, TypeOK
<1> QED
  BY <1>1, <1>2, <1>3, <1>4, <1>5, <1>6, <1>7 DEF Fine

\* probe wants one reference, in the first mode that is open to it.
LEMMA ProbeEvaluateFine ==
  ASSUME TypeOK, NEW q \in Requests, Fine(req[q]), ProbeEvaluate(q)
  PROVE  /\ TypeOK' /\ Fine(req[q])' /\ UNCHANGED files
         /\ \A p \in Requests \ {q} : req'[p] = req[p]
<1>a. \A s : FirstMode(s) \in Modes
  BY DEF FirstMode, Modes
<1>0. PICK chosen \in Refs :
        \/ \E a \in {"failed", "denied"} : req' = [req EXCEPT ![q].pc = "ended", ![q].answer = a]
        \/ req' = [req EXCEPT ![q].pc = "refusal", ![q].wants = {chosen}]
        \/ \E m \in Modes :
             req' = [req EXCEPT ![q].pc = "authorize", ![q].wants = {chosen}, ![q].mode = m]
  BY <1>a, Zenon DEF ProbeEvaluate
<1>1. /\ UNCHANGED <<files, server>> /\ \A p \in Requests \ {q} : req'[p] = req[p]
      /\ req[q].pc = "load" /\ req[q].command = "probe"
      /\ \/ /\ req'[q].pc = "ended" /\ req'[q].answer \in {"failed", "denied"}
            /\ req'[q].wants = req[q].wants /\ req'[q].mode = req[q].mode
         \/ /\ req'[q].pc \in {"refusal", "authorize"} /\ req'[q].answer = req[q].answer
            /\ (\E r \in Refs : req'[q].wants = {r}) /\ req'[q].mode \in Modes
      /\ req'[q].command = req[q].command /\ req'[q].authorized = req[q].authorized
      /\ req'[q].held = req[q].held /\ req'[q].buf = req[q].buf
      /\ req'[q].log = req[q].log /\ req'[q].lost = req[q].lost
      /\ req'[q].pulled = req[q].pulled /\ req'[q].granted = req[q].granted
      /\ req'[q].asof = req[q].asof
  <2>1. ASSUME NEW a \in {"failed", "denied"}, req' = [req EXCEPT ![q].pc = "ended", ![q].answer = a]
        PROVE  /\ req'[q].pc = "ended" /\ req'[q].answer = a
               /\ \A p \in Requests \ {q} : req'[p] = req[p]
               /\ req'[q].command = req[q].command
               /\ req'[q].wants = req[q].wants
               /\ req'[q].mode = req[q].mode
               /\ req'[q].authorized = req[q].authorized
               /\ req'[q].held = req[q].held
               /\ req'[q].buf = req[q].buf
               /\ req'[q].log = req[q].log
               /\ req'[q].lost = req[q].lost
               /\ req'[q].pulled = req[q].pulled
               /\ req'[q].granted = req[q].granted
               /\ req'[q].asof = req[q].asof
    BY <2>1 DEF TypeOK, Request
  <2>2. ASSUME NEW r \in Refs, req' = [req EXCEPT ![q].pc = "refusal", ![q].wants = {r}]
        PROVE  /\ req'[q].pc = "refusal" /\ req'[q].wants = {r}
               /\ \A p \in Requests \ {q} : req'[p] = req[p]
               /\ req'[q].command = req[q].command
               /\ req'[q].mode = req[q].mode
               /\ req'[q].authorized = req[q].authorized
               /\ req'[q].held = req[q].held
               /\ req'[q].buf = req[q].buf
               /\ req'[q].answer = req[q].answer
               /\ req'[q].log = req[q].log
               /\ req'[q].lost = req[q].lost
               /\ req'[q].pulled = req[q].pulled
               /\ req'[q].granted = req[q].granted
               /\ req'[q].asof = req[q].asof
    BY <2>2 DEF TypeOK, Request
  <2>3. ASSUME NEW r \in Refs, NEW m \in Modes,
               req' = [req EXCEPT ![q].pc = "authorize", ![q].wants = {r}, ![q].mode = m]
        PROVE  /\ req'[q].pc = "authorize" /\ req'[q].wants = {r} /\ req'[q].mode = m
               /\ \A p \in Requests \ {q} : req'[p] = req[p]
               /\ req'[q].command = req[q].command
               /\ req'[q].authorized = req[q].authorized
               /\ req'[q].held = req[q].held
               /\ req'[q].buf = req[q].buf
               /\ req'[q].answer = req[q].answer
               /\ req'[q].log = req[q].log
               /\ req'[q].lost = req[q].lost
               /\ req'[q].pulled = req[q].pulled
               /\ req'[q].granted = req[q].granted
               /\ req'[q].asof = req[q].asof
    BY <2>3 DEF TypeOK, Request
  <2>4. req[q].mode \in Modes
    BY DEF TypeOK, Request
  <2>5. At(q, "load") /\ req[q].command = "probe" /\ UNCHANGED <<files, server>>
    BY DEF ProbeEvaluate
  <2> QED
    BY <2>1, <2>2, <2>3, <2>4, <1>0, <2>5 DEF At
<1>2. TypeOK'
  <2>1. ASSUME NEW a \in {"failed", "denied"}, req' = [req EXCEPT ![q].pc = "ended", ![q].answer = a]
        PROVE  req' \in [Requests -> Request]
    BY <2>1, Retyped, Values DEF TypeOK
  <2>2. {chosen} \in SUBSET Refs
    OBVIOUS
  <2>3. ASSUME req' = [req EXCEPT ![q].pc = "refusal", ![q].wants = {chosen}]
        PROVE  req' \in [Requests -> Request]
    BY <2>2, <2>3, Retyped, Values DEF TypeOK
  <2>4. ASSUME NEW m \in Modes,
               req' = [req EXCEPT ![q].pc = "authorize", ![q].wants = {chosen}, ![q].mode = m]
        PROVE  req' \in [Requests -> Request]
    BY <2>2, <2>4, Retyped, Values DEF TypeOK
  <2>5. req' \in [Requests -> Request]
    BY <1>0, <2>1, <2>3, <2>4 DEF TypeOK
  <2> QED
    BY <1>1, <2>5 DEF TypeOK, files
<1>3. Admission(req[q])'
  BY <1>1 DEF Fine, Admission, Admitted, Judging
<1>4. Holding(req[q])'
  BY <1>1 DEF Fine, Holding, TypeOK, Request, Missing
<1>5. Recorded(req[q])'
  BY <1>1, SameLog DEF Fine, Recorded, Admission, Judging
<1>6. Probing(req[q])'
  BY <1>1 DEF Fine, Probing, Recorded, Judging
<1>7. Current(req[q])'
  BY <1>1 DEF Fine, Current, files, Permits, TypeOK
<1> QED
  BY <1>1, <1>2, <1>3, <1>4, <1>5, <1>6, <1>7 DEF Fine

\* A request ends unanswered, with what it has authorized in the log.
LEMMA ParseFailsFine ==
  ASSUME TypeOK, NEW q \in Requests, Fine(req[q]), ParseFails(q)
  PROVE  /\ TypeOK' /\ Fine(req[q])' /\ UNCHANGED files
         /\ \A p \in Requests \ {q} : req'[p] = req[p]
<1>1. /\ UNCHANGED <<files, server>> /\ \A p \in Requests \ {q} : req'[p] = req[p]
      /\ req[q].pc = "authorize"
      /\ req'[q].pc = "ended" /\ req'[q].answer = "failed"
      /\ req'[q].command = req[q].command /\ req'[q].wants = req[q].wants
      /\ req'[q].mode = req[q].mode /\ req'[q].authorized = req[q].authorized
      /\ req'[q].held = req[q].held /\ req'[q].buf = req[q].buf
      /\ req'[q].log = req[q].log /\ req'[q].lost = req[q].lost
      /\ req'[q].pulled = req[q].pulled /\ req'[q].granted = req[q].granted
      /\ req'[q].asof = req[q].asof
  BY DEF ParseFails, At, TypeOK, Request
<1>2. TypeOK'
  <2>1. req' \in [Requests -> Request]
    BY Retyped, Values DEF ParseFails, TypeOK
  <2> QED
    BY <1>1, <2>1 DEF TypeOK, files
<1>3. Admission(req[q])'
  BY <1>1 DEF Fine, Admission, Admitted, Judging
<1>4. Holding(req[q])'
  BY <1>1 DEF Fine, Holding, TypeOK, Request, Missing
<1>5. Recorded(req[q])'
  BY <1>1, SameLog DEF Fine, Recorded, Admission, Judging
<1>6. Probing(req[q])'
  BY <1>1 DEF Fine, Probing, Recorded, Judging
<1>7. Current(req[q])'
  BY <1>1 DEF Fine, Current, files, Permits, TypeOK
<1> QED
  BY <1>1, <1>2, <1>3, <1>4, <1>5, <1>6, <1>7 DEF Fine

\* Only when the last reference is authorized is any fetched.
LEMMA AuthorizedFine ==
  ASSUME TypeOK, NEW q \in Requests, Fine(req[q]), Authorized(q)
  PROVE  /\ TypeOK' /\ Fine(req[q])' /\ UNCHANGED files
         /\ \A p \in Requests \ {q} : req'[p] = req[p]
<1>1. /\ UNCHANGED <<files, server>> /\ \A p \in Requests \ {q} : req'[p] = req[p]
      /\ req[q].pc = "authorize" /\ req[q].authorized = req[q].wants
      /\ req'[q].pc = "fetch"
      /\ req'[q].command = req[q].command /\ req'[q].wants = req[q].wants
      /\ req'[q].mode = req[q].mode /\ req'[q].authorized = req[q].authorized
      /\ req'[q].held = req[q].held /\ req'[q].buf = req[q].buf
      /\ req'[q].answer = req[q].answer /\ req'[q].log = req[q].log
      /\ req'[q].lost = req[q].lost /\ req'[q].pulled = req[q].pulled
      /\ req'[q].granted = req[q].granted /\ req'[q].asof = req[q].asof
  BY DEF Authorized, At, TypeOK, Request
<1>2. TypeOK'
  <2>1. req' \in [Requests -> Request]
    BY Retyped, Values DEF Authorized, TypeOK
  <2> QED
    BY <1>1, <2>1 DEF TypeOK, files
<1>3. Admission(req[q])'
  BY <1>1 DEF Fine, Admission, Admitted, Judging
<1>4. Holding(req[q])'
  BY <1>1 DEF Fine, Holding, TypeOK, Request, Missing
<1>5. Recorded(req[q])'
  BY <1>1, SameLog DEF Fine, Recorded, Admission, Judging
<1>6. Probing(req[q])'
  BY <1>1 DEF Fine, Probing, Recorded, Judging
<1>7. Current(req[q])'
  BY <1>1 DEF Fine, Current, files, Permits, TypeOK
<1> QED
  BY <1>1, <1>2, <1>3, <1>4, <1>5, <1>6, <1>7 DEF Fine

\* Whatever fails after a fetch, the values go.
LEMMA FetchFailsFine ==
  ASSUME TypeOK, NEW q \in Requests, Fine(req[q]), FetchFails(q)
  PROVE  /\ TypeOK' /\ Fine(req[q])' /\ UNCHANGED files
         /\ \A p \in Requests \ {q} : req'[p] = req[p]
<1>1. /\ UNCHANGED <<files, server>> /\ \A p \in Requests \ {q} : req'[p] = req[p]
      /\ req[q].pc = "fetch"
      /\ req'[q].pc = "ended" /\ req'[q].held = {} /\ req'[q].answer \in {"failed", "error"}
      /\ req'[q].command = req[q].command /\ req'[q].wants = req[q].wants
      /\ req'[q].mode = req[q].mode /\ req'[q].authorized = req[q].authorized
      /\ req'[q].buf = req[q].buf /\ req'[q].log = req[q].log
      /\ req'[q].lost = req[q].lost /\ req'[q].pulled = req[q].pulled
      /\ req'[q].granted = req[q].granted /\ req'[q].asof = req[q].asof
  BY DEF FetchFails, At, TypeOK, Request
<1>2. TypeOK'
  <2>1. req' \in [Requests -> Request]
    BY Retyped, Values DEF FetchFails, TypeOK
  <2> QED
    BY <1>1, <2>1 DEF TypeOK, files
<1>3. Admission(req[q])'
  BY <1>1 DEF Fine, Admission, Admitted, Judging
<1>4. Holding(req[q])'
  BY <1>1 DEF Fine, Holding, TypeOK, Request, Missing
<1>5. Recorded(req[q])'
  BY <1>1, SameLog DEF Fine, Recorded, Admission, Judging
<1>6. Probing(req[q])'
  BY <1>1 DEF Fine, Probing, Recorded, Judging
<1>7. Current(req[q])'
  BY <1>1 DEF Fine, Current, files, Permits, TypeOK
<1> QED
  BY <1>1, <1>2, <1>3, <1>4, <1>5, <1>6, <1>7 DEF Fine

\* get and probe keep nothing.
LEMMA ReportFine ==
  ASSUME TypeOK, NEW q \in Requests, Fine(req[q]), Report(q)
  PROVE  /\ TypeOK' /\ Fine(req[q])' /\ UNCHANGED files
         /\ \A p \in Requests \ {q} : req'[p] = req[p]
<1>1. /\ UNCHANGED <<files, server>> /\ \A p \in Requests \ {q} : req'[p] = req[p]
      /\ req[q].pc = "fetch"
      /\ req'[q].pc = "ended" /\ req'[q].held = {} /\ req'[q].answer \in {"delivered", "ok"}
      /\ req'[q].command = req[q].command /\ req'[q].wants = req[q].wants
      /\ req'[q].mode = req[q].mode /\ req'[q].authorized = req[q].authorized
      /\ req'[q].buf = req[q].buf /\ req'[q].log = req[q].log
      /\ req'[q].lost = req[q].lost /\ req'[q].pulled = req[q].pulled
      /\ req'[q].granted = req[q].granted /\ req'[q].asof = req[q].asof
  BY DEF Report, At, TypeOK, Request
<1>2. TypeOK'
  <2>1. req' \in [Requests -> Request]
    BY Retyped, Values DEF Report, TypeOK
  <2> QED
    BY <1>1, <2>1 DEF TypeOK, files
<1>3. Admission(req[q])'
  BY <1>1 DEF Fine, Admission, Admitted, Judging
<1>4. Holding(req[q])'
  BY <1>1 DEF Fine, Holding, TypeOK, Request, Missing
<1>5. Recorded(req[q])'
  BY <1>1, SameLog DEF Fine, Recorded, Admission, Judging
<1>6. Probing(req[q])'
  BY <1>1 DEF Fine, Probing, Recorded, Judging
<1>7. Current(req[q])'
  BY <1>1 DEF Fine, Current, files, Permits, TypeOK
<1> QED
  BY <1>1, <1>2, <1>3, <1>4, <1>5, <1>6, <1>7 DEF Fine

\* exec holds its values and their rendering.
LEMMA RenderForExecFine ==
  ASSUME TypeOK, NEW q \in Requests, Fine(req[q]), RenderForExec(q)
  PROVE  /\ TypeOK' /\ Fine(req[q])' /\ UNCHANGED files
         /\ \A p \in Requests \ {q} : req'[p] = req[p]
<1>1. /\ UNCHANGED <<files, server>> /\ \A p \in Requests \ {q} : req'[p] = req[p]
      /\ req[q].pc = "fetch" /\ Missing(q) = {}
      /\ req'[q].pc = "ready" /\ req'[q].buf = req[q].held
      /\ req'[q].command = req[q].command /\ req'[q].wants = req[q].wants
      /\ req'[q].mode = req[q].mode /\ req'[q].authorized = req[q].authorized
      /\ req'[q].held = req[q].held /\ req'[q].answer = req[q].answer
      /\ req'[q].log = req[q].log /\ req'[q].lost = req[q].lost
      /\ req'[q].pulled = req[q].pulled /\ req'[q].granted = req[q].granted
      /\ req'[q].asof = req[q].asof
  BY DEF RenderForExec, At, TypeOK, Request
<1>2. TypeOK'
  <2>0. req[q].held \in Content
    BY DEF TypeOK, Request
  <2>1. req' \in [Requests -> Request]
    BY <2>0, Retyped, Values DEF RenderForExec, TypeOK
  <2> QED
    BY <1>1, <2>1 DEF TypeOK, files
<1>3. Admission(req[q])'
  BY <1>1 DEF Fine, Admission, Admitted, Judging
<1>4. Holding(req[q])'
  BY <1>1 DEF Fine, Holding, TypeOK, Request, Missing
<1>5. Recorded(req[q])'
  BY <1>1, SameLog DEF Fine, Recorded, Admission, Judging
<1>6. Probing(req[q])'
  BY <1>1 DEF Fine, Probing, Recorded, Judging
<1>7. Current(req[q])'
  BY <1>1 DEF Fine, Current, files, Permits, TypeOK
<1> QED
  BY <1>1, <1>2, <1>3, <1>4, <1>5, <1>6, <1>7 DEF Fine

\* exec lets go of both.
LEMMA ExecReturnsFine ==
  ASSUME TypeOK, NEW q \in Requests, Fine(req[q]), ExecReturns(q)
  PROVE  /\ TypeOK' /\ Fine(req[q])' /\ UNCHANGED files
         /\ \A p \in Requests \ {q} : req'[p] = req[p]
<1>1. /\ UNCHANGED <<files, server>> /\ \A p \in Requests \ {q} : req'[p] = req[p]
      /\ req[q].pc = "ready"
      /\ req'[q].pc = "ended" /\ req'[q].held = {} /\ req'[q].buf = {} /\ req'[q].answer = "delivered"
      /\ req'[q].command = req[q].command /\ req'[q].wants = req[q].wants
      /\ req'[q].mode = req[q].mode /\ req'[q].authorized = req[q].authorized
      /\ req'[q].log = req[q].log /\ req'[q].lost = req[q].lost
      /\ req'[q].pulled = req[q].pulled /\ req'[q].granted = req[q].granted
      /\ req'[q].asof = req[q].asof
  BY DEF ExecReturns, At, TypeOK, Request
<1>2. TypeOK'
  <2>1. req' \in [Requests -> Request]
    BY Retyped, Values DEF ExecReturns, TypeOK
  <2> QED
    BY <1>1, <2>1 DEF TypeOK, files
<1>3. Admission(req[q])'
  BY <1>1 DEF Fine, Admission, Admitted, Judging
<1>4. Holding(req[q])'
  BY <1>1 DEF Fine, Holding, TypeOK, Request, Missing
<1>5. Recorded(req[q])'
  BY <1>1, SameLog DEF Fine, Recorded, Admission, Judging
<1>6. Probing(req[q])'
  BY <1>1 DEF Fine, Probing, Recorded, Judging
<1>7. Current(req[q])'
  BY <1>1 DEF Fine, Current, files, Permits, TypeOK
<1> QED
  BY <1>1, <1>2, <1>3, <1>4, <1>5, <1>6, <1>7 DEF Fine

\* A handle has the rendering, and its values are gone.
LEMMA RenderForMountFine ==
  ASSUME TypeOK, NEW q \in Requests, Fine(req[q]), RenderForMount(q)
  PROVE  /\ TypeOK' /\ Fine(req[q])' /\ UNCHANGED files
         /\ \A p \in Requests \ {q} : req'[p] = req[p]
<1>1. /\ UNCHANGED <<files, server>> /\ \A p \in Requests \ {q} : req'[p] = req[p]
      /\ req[q].pc = "fetch" /\ Missing(q) = {}
      /\ req'[q].pc = "open" /\ req'[q].held = {} /\ req'[q].buf = req[q].held
      /\ req'[q].answer = "delivered"
      /\ req'[q].command = req[q].command /\ req'[q].wants = req[q].wants
      /\ req'[q].mode = req[q].mode /\ req'[q].authorized = req[q].authorized
      /\ req'[q].log = req[q].log /\ req'[q].lost = req[q].lost
      /\ req'[q].pulled = req[q].pulled /\ req'[q].granted = req[q].granted
      /\ req'[q].asof = req[q].asof
  BY DEF RenderForMount, At, TypeOK, Request
<1>2. TypeOK'
  <2>0. req[q].held \in Content
    BY DEF TypeOK, Request
  <2>1. req' \in [Requests -> Request]
    BY <2>0, Retyped, Values DEF RenderForMount, TypeOK
  <2> QED
    BY <1>1, <2>1 DEF TypeOK, files
<1>3. Admission(req[q])'
  BY <1>1 DEF Fine, Admission, Admitted, Judging
<1>4. Holding(req[q])'
  BY <1>1 DEF Fine, Holding, TypeOK, Request, Missing
<1>5. Recorded(req[q])'
  BY <1>1, SameLog DEF Fine, Recorded, Admission, Judging
<1>6. Probing(req[q])'
  BY <1>1 DEF Fine, Probing, Recorded, Judging
<1>7. Current(req[q])'
  BY <1>1 DEF Fine, Current, files, Permits, TypeOK
<1> QED
  BY <1>1, <1>2, <1>3, <1>4, <1>5, <1>6, <1>7 DEF Fine

\* A handle is closed and its rendering is gone.
LEMMA ReleaseFine ==
  ASSUME TypeOK, NEW q \in Requests, Fine(req[q]), Release(q)
  PROVE  /\ TypeOK' /\ Fine(req[q])' /\ UNCHANGED files
         /\ \A p \in Requests \ {q} : req'[p] = req[p]
<1>1. /\ UNCHANGED <<files, server>> /\ \A p \in Requests \ {q} : req'[p] = req[p]
      /\ req[q].pc = "open"
      /\ req'[q].pc = "ended" /\ req'[q].buf = {}
      /\ req'[q].command = req[q].command /\ req'[q].wants = req[q].wants
      /\ req'[q].mode = req[q].mode /\ req'[q].authorized = req[q].authorized
      /\ req'[q].held = req[q].held /\ req'[q].answer = req[q].answer
      /\ req'[q].log = req[q].log /\ req'[q].lost = req[q].lost
      /\ req'[q].pulled = req[q].pulled /\ req'[q].granted = req[q].granted
      /\ req'[q].asof = req[q].asof
  BY DEF Release, At, TypeOK, Request
<1>2. TypeOK'
  <2>1. req' \in [Requests -> Request]
    BY Retyped, Values DEF Release, TypeOK
  <2> QED
    BY <1>1, <2>1 DEF TypeOK, files
<1>3. Admission(req[q])'
  BY <1>1 DEF Fine, Admission, Admitted, Judging
<1>4. Holding(req[q])'
  BY <1>1 DEF Fine, Holding, TypeOK, Request, Missing
<1>5. Recorded(req[q])'
  BY <1>1, SameLog DEF Fine, Recorded, Admission, Judging
<1>6. Probing(req[q])'
  BY <1>1 DEF Fine, Probing, Recorded, Judging
<1>7. Current(req[q])'
  BY <1>1 DEF Fine, Current, files, Permits, TypeOK
<1> QED
  BY <1>1, <1>2, <1>3, <1>4, <1>5, <1>6, <1>7 DEF Fine

\* A set of numbers that is not empty has a least one.
LEMMA MinIsLeast ==
  ASSUME NEW S \in SUBSET Nat, S # {}
  PROVE  Min(S) \in S /\ \A s \in S : Min(S) <= s
<1> DEFINE T == {0 .. s : s \in S}
<1>1. T \subseteq FiniteSubsetsOf(Nat) /\ T # {}
  <2>1. ASSUME NEW s \in S PROVE IsFiniteSet(0 .. s) /\ 0 .. s \in SUBSET Nat
    BY FS_Interval
  <2> QED
    BY <2>1 DEF FiniteSubsetsOf
<1>2. PICK t \in T : \A u \in T : <<u, t>> \notin StrictSubsetOrdering(Nat)
  BY <1>1, FS_StrictSubsetOrderingWellFounded, WFMin
<1>3. PICK m \in S : t = 0 .. m
  BY <1>2
<1>4. ASSUME NEW s \in S PROVE m <= s
  <2>1. 0 .. s \in T /\ (s < m => 0 .. s \subseteq 0 .. m /\ m \notin 0 .. s /\ m \in 0 .. m)
    OBVIOUS
  <2> QED
    <3> SUFFICES ASSUME s < m PROVE FALSE
      OBVIOUS
    <3>1. 0 .. s \subseteq Nat /\ 0 .. m \subseteq Nat /\ 0 .. s # 0 .. m
      BY <2>1
    <3>2. <<0 .. s, 0 .. m>> \in StrictSubsetOrdering(Nat)
      BY <2>1, <3>1 DEF StrictSubsetOrdering
    <3> QED
      BY <1>2, <1>3, <2>1, <3>2
<1> QED
  BY <1>4 DEF Min

\* Decisions, and what an ALLOW rests on.
LEMMA Decisions ==
  ASSUME NEW p, NEW r, NEW m
  PROVE  /\ Decision(p, r, m) \in {"ALLOW", "DENY", "ERROR"}
         /\ Decision(p, r, m) = "ALLOW" => <<r, m>> \in Permits(p)
  BY DEF Decision

\* A line more.
LEMMA LineAppended ==
  ASSUME NEW log \in Seq(Record), NEW line \in Record
  PROVE  /\ Append(log, line) \in Seq(Record)
         /\ Len(log) \in Nat /\ DOMAIN log = 1 .. Len(log)
         /\ Len(Append(log, line)) = Len(log) + 1
         /\ DOMAIN Append(log, line) = 1 .. Len(log) + 1
         /\ \A i \in 1 .. Len(log) : Append(log, line)[i] = log[i]
         /\ Append(log, line)[Len(log) + 1] = line
  OBVIOUS

\* The line of the least reference left keeps the log in order, written or lost,
\* whatever it says of that reference.
LEMMA LineRecorded ==
  ASSUME NEW x \in Request, Admission(x), Recorded(x), x.pc = "authorize",
         NEW r \in x.wants \ x.authorized, \A s \in x.wants \ x.authorized : r <= s,
         NEW d \in {"ALLOW", "DENY", "ERROR"},
         NEW y \in Request, y.wants = x.wants, y.pulled = x.pulled,
         \/ y.log = Append(x.log, [ref |-> r, decision |-> d]) /\ y.lost = x.lost
         \/ y.log = x.log /\ y.lost = x.lost \cup {r},
         IF d = "ALLOW" THEN y.authorized = x.authorized \cup {r} /\ y.pc = x.pc
                        ELSE y.authorized = x.authorized /\ y.pc = "ended"
  PROVE  Recorded(y)
<1> DEFINE line == [ref |-> r, decision |-> d]
<1>1. /\ x.log \in Seq(Record) /\ y.log \in Seq(Record) /\ line \in Record
      /\ x.wants \subseteq Nat /\ x.pulled = {}
  BY DeliveryConstants DEF Request, Record, Admission, Judging
<1>2. DOMAIN x.log = 1 .. Len(x.log) /\ Len(x.log) \in Nat
  BY <1>1
<1>3. \A i \in DOMAIN x.log : x.log[i].decision = "ALLOW" /\ x.log[i].ref \in x.authorized
                              /\ x.log[i].ref < r
  BY <1>1 DEF Recorded, Admission
<1>4. CASE y.log = x.log /\ y.lost = x.lost \cup {r}
  <2>1. Allowed(y) = Allowed(x)
    BY <1>4, SameLog
  <2>2. y.authorized \subseteq Allowed(y) \cup y.lost
    BY <1>4, <2>1 DEF Recorded
  <2>3. \A a \in y.authorized, s \in y.wants \ y.authorized : a < s
    BY <1>1 DEF Recorded
  <2> QED
    BY <1>1, <1>2, <1>3, <1>4, <2>2, <2>3 DEF Recorded, Judging
<1>5. CASE y.log = Append(x.log, line) /\ y.lost = x.lost
  <2>1. /\ Len(y.log) = Len(x.log) + 1 /\ DOMAIN y.log = 1 .. Len(x.log) + 1
        /\ \A i \in 1 .. Len(x.log) : y.log[i] = x.log[i]
        /\ y.log[Len(x.log) + 1].ref = r /\ y.log[Len(x.log) + 1].decision = d
    BY <1>1, <1>5, LineAppended
  <2>2. Allowed(x) \subseteq Allowed(y) /\ (d = "ALLOW" => r \in Allowed(y))
    BY <1>2, <2>1 DEF Allowed
  <2>3. y.authorized \subseteq Allowed(y) \cup y.lost
    BY <1>5, <2>2 DEF Recorded
  <2>4. \A a \in y.authorized, s \in y.wants \ y.authorized : a < s
    BY <1>1 DEF Recorded
  <2>5. y.pc # "ended" => \A i \in DOMAIN y.log :
          y.log[i].decision = "ALLOW" /\ y.log[i].ref \in y.authorized
    BY <1>2, <1>3, <2>1
  <2>6. \A i \in DOMAIN y.log : i < Len(y.log) => y.log[i].ref < y.log[i + 1].ref
    <3> SUFFICES ASSUME NEW i \in 1 .. Len(x.log) PROVE y.log[i].ref < y.log[i + 1].ref
      BY <1>2, <2>1
    <3>1. CASE i = Len(x.log)
      BY <1>2, <1>3, <2>1, <3>1
    <3>2. CASE i # Len(x.log)
      <4>1. i < Len(x.log) /\ i \in DOMAIN x.log /\ i + 1 \in 1 .. Len(x.log)
        BY <1>2, <3>2
      <4> QED
        BY <2>1, <4>1 DEF Recorded
    <3> QED
      BY <3>1, <3>2
  <2>7. \A i \in DOMAIN y.log : y.log[i].decision # "ALLOW" => i = Len(y.log) /\ y.pulled = {}
    BY <1>1, <1>2, <1>3, <2>1
  <2> QED
    BY <2>3, <2>4, <2>5, <2>6, <2>7 DEF Recorded, Judging
<1> QED
  BY <1>4, <1>5

\* A probe's one line.
LEMMA ProbeLogsOnce ==
  ASSUME NEW x \in Request, Probing(x), x.pc \in {"authorize", "refusal"},
         x.log = <<>> \/ x.pc = "authorize", x.authorized \subseteq x.wants,
         NEW r \in x.wants \ x.authorized, NEW d \in {"ALLOW", "DENY", "ERROR"},
         NEW y \in Request, y.command = x.command, y.wants = x.wants,
         \/ y.log = Append(x.log, [ref |-> r, decision |-> d])
         \/ y.log = x.log,
         y.pc = "authorize" => y.authorized # {}
  PROVE  Probing(y)
<1> SUFFICES ASSUME x.command = "probe" PROVE Probing(y)
  BY DEF Probing
<1>1. (\A s, t \in x.wants : s = t) /\ x.log = <<>>
  BY DEF Probing
<1>2. x.log \in Seq(Record) /\ Len(x.log) = 0 /\ [ref |-> r, decision |-> d] \in Record
  BY <1>1 DEF Request, Record
<1>3. Len(y.log) <= 1
  <2>1. CASE y.log = x.log
    BY <1>2, <2>1
  <2>2. CASE y.log = Append(x.log, [ref |-> r, decision |-> d])
    <3> DEFINE line == [ref |-> r, decision |-> d]
    <3>1. Len(Append(x.log, line)) = Len(x.log) + 1
      BY <1>2, LineAppended
    <3> QED
      BY <1>2, <2>2, <3>1
  <2> QED
    BY <2>1, <2>2
<1> QED
  BY <1>1, <1>3 DEF Probing

(***************************************************************************)
(* The steps that write to the log or pull from a store.                   *)
(***************************************************************************)

\* What a line written, or lost, does to the request.
LEMMA LineWritten ==
  ASSUME NEW q \in Requests, req[q] \in Request, NEW r \in Refs,
         NEW d \in {"ALLOW", "DENY", "ERROR"}, NEW next \in Written(q, r, d)
  PROVE  /\ next \in Request
         /\ \/ next.log = Append(req[q].log, [ref |-> r, decision |-> d]) /\ next.lost = req[q].lost
            \/ next.log = req[q].log /\ next.lost = req[q].lost \cup {r}
         /\ next.command = req[q].command /\ next.pc = req[q].pc /\ next.wants = req[q].wants
         /\ next.mode = req[q].mode /\ next.authorized = req[q].authorized /\ next.held = req[q].held
         /\ next.buf = req[q].buf /\ next.answer = req[q].answer /\ next.pulled = req[q].pulled
         /\ next.granted = req[q].granted /\ next.asof = req[q].asof
<1> DEFINE x == req[q]
           line == [ref |-> r, decision |-> d]
<1>1. line \in Record /\ x.log \in Seq(Record)
  BY DEF Request, Record
<1>2. Append(x.log, line) \in Seq(Record)
  BY <1>1, LineAppended
<1>3. x.lost \cup {r} \in SUBSET Refs
  BY DEF Request
<1>4. ASSUME next = [x EXCEPT !.log = Append(x.log, line)]
      PROVE  /\ next \in Request /\ next.log = Append(x.log, line) /\ next.lost = x.lost
             /\ next.command = x.command /\ next.pc = x.pc /\ next.wants = x.wants
             /\ next.mode = x.mode /\ next.authorized = x.authorized /\ next.held = x.held
             /\ next.buf = x.buf /\ next.answer = x.answer /\ next.pulled = x.pulled
             /\ next.granted = x.granted /\ next.asof = x.asof
  <2>1. next \in Request
    BY <1>2, <1>4, RetypedHistory
  <2> HIDE DEF line
  <2> QED
    BY <1>4, <2>1 DEF Request
<1>5. ASSUME next = [x EXCEPT !.lost = x.lost \cup {r}]
      PROVE  /\ next \in Request /\ next.log = x.log /\ next.lost = x.lost \cup {r}
             /\ next.command = x.command /\ next.pc = x.pc /\ next.wants = x.wants
             /\ next.mode = x.mode /\ next.authorized = x.authorized /\ next.held = x.held
             /\ next.buf = x.buf /\ next.answer = x.answer /\ next.pulled = x.pulled
             /\ next.granted = x.granted /\ next.asof = x.asof
  <2>1. next \in Request
    BY <1>3, <1>5, RetypedHistory
  <2> QED
    BY <1>5, <2>1 DEF Request
<1>6. next = [x EXCEPT !.log = Append(x.log, line)] \/ next = [x EXCEPT !.lost = x.lost \cup {r}]
  BY DEF Written
<1> QED
  BY <1>4, <1>5, <1>6

\* Authorize takes the least reference left, judges it by the policy that is
\* live, and either goes on or ends.
LEMMA AuthorizeFine ==
  ASSUME TypeOK, NEW q \in Requests, Fine(req[q]), Authorize(q)
  PROVE  /\ TypeOK' /\ Fine(req[q])' /\ UNCHANGED files
         /\ \A p \in Requests \ {q} : req'[p] = req[p]
<1> DEFINE x == req[q]
           r == Min(x.wants \ x.authorized)
           d == Decision(policy, r, x.mode)
<1>1. x \in Request /\ x.pc = "authorize" /\ UNCHANGED <<files, server>>
  BY DEF Authorize, At, TypeOK
<1>2. x.wants \subseteq Refs /\ x.authorized \subseteq x.wants /\ x.authorized # x.wants
  BY <1>1 DEF Authorize, Fine, Admission, Request
<1>3. r \in x.wants \ x.authorized /\ \A s \in x.wants \ x.authorized : r <= s
  <2>1. x.wants \ x.authorized \in SUBSET Nat /\ x.wants \ x.authorized # {}
    BY <1>2, DeliveryConstants
  <2> QED
    BY <2>1, MinIsLeast
<1>4. d \in {"ALLOW", "DENY", "ERROR"} /\ (d = "ALLOW" => <<r, x.mode>> \in Permits(policy))
  BY Decisions
<1>5. PICK next \in Written(q, r, d) :
        req' = [req EXCEPT ![q] = IF d = "ALLOW" THEN [next EXCEPT !.authorized = @ \cup {r}]
                                  ELSE [next EXCEPT !.pc = "ended", !.answer = "denied"]]
  BY DEF Authorize
<1> HIDE DEF r, d
<1>6. /\ next \in Request
      /\ \/ next.log = Append(x.log, [ref |-> r, decision |-> d]) /\ next.lost = x.lost
         \/ next.log = x.log /\ next.lost = x.lost \cup {r}
      /\ next.command = x.command /\ next.pc = x.pc /\ next.wants = x.wants
      /\ next.mode = x.mode /\ next.authorized = x.authorized /\ next.held = x.held
      /\ next.buf = x.buf /\ next.answer = x.answer /\ next.pulled = x.pulled
      /\ next.granted = x.granted /\ next.asof = x.asof
  <2>1. r \in Refs /\ next \in Written(q, r, d)
    BY <1>2, <1>3, <1>5
  <2> QED
    BY <1>1, <1>4, <2>1, LineWritten
<1> DEFINE y == req'[q]
<1>7. /\ y \in Request /\ req' \in [Requests -> Request] /\ \A p \in Requests \ {q} : req'[p] = req[p]
      /\ y.log = next.log /\ y.lost = next.lost
      /\ y.command = x.command /\ y.wants = x.wants /\ y.mode = x.mode /\ y.held = x.held
      /\ y.buf = x.buf /\ y.pulled = x.pulled /\ y.granted = x.granted /\ y.asof = x.asof
      /\ IF d = "ALLOW" THEN y.authorized = x.authorized \cup {r} /\ y.pc = x.pc /\ y.answer = x.answer
         ELSE y.authorized = x.authorized /\ y.pc = "ended" /\ y.answer = "denied"
  <2>1. CASE d = "ALLOW"
    <3>1. x.authorized \cup {r} \in SUBSET Refs
      BY <1>2, <1>3
    <3>2. [next EXCEPT !.authorized = @ \cup {r}] \in Request
      BY <1>6, <3>1, RetypedHistory
    <3>3. y = [next EXCEPT !.authorized = @ \cup {r}]
      BY <1>5, <2>1 DEF TypeOK
    <3>4. req' \in [Requests -> Request] /\ \A p \in Requests \ {q} : req'[p] = req[p]
      BY <1>5, <2>1, <3>2 DEF TypeOK
    <3> QED
      BY <1>6, <2>1, <3>2, <3>3, <3>4 DEF Request
  <2>2. CASE d # "ALLOW"
    <3>1. [next EXCEPT !.pc = "ended", !.answer = "denied"] \in Request
      BY <1>6, Values, Retyped
    <3>2. y = [next EXCEPT !.pc = "ended", !.answer = "denied"]
      BY <1>5, <2>2 DEF TypeOK
    <3>3. req' \in [Requests -> Request] /\ \A p \in Requests \ {q} : req'[p] = req[p]
      BY <1>5, <2>2, <3>1 DEF TypeOK
    <3> QED
      BY <1>6, <2>2, <3>1, <3>2, <3>3 DEF Request
  <2> QED
    BY <2>1, <2>2
<1>8. Fine(x) /\ (Permits(policy) \subseteq x.granted)
  BY <1>1 DEF Fine, Current
<1>9. Current(req[q])'
  BY <1>1, <1>7, <1>8 DEF Fine, Current, files, Permits
<1>10. TypeOK'
  BY <1>1, <1>7 DEF TypeOK, files
<1> HIDE DEF x, y
<1>11. Admission(y)
  BY <1>1, <1>2, <1>3, <1>4, <1>7, <1>8 DEF Fine, Admission, Admitted, Judging
<1>12. Holding(y)
  BY <1>1, <1>7, <1>8 DEF Fine, Holding
<1>13. Recorded(y)
  BY <1>1, <1>3, <1>4, <1>6, <1>7, <1>8, LineRecorded DEF Fine
<1>14. Probing(y)
  BY <1>1, <1>2, <1>3, <1>4, <1>6, <1>7, <1>8, ProbeLogsOnce DEF Fine
<1>15. Fine(req[q])'
  <2> USE DEF y
  <2>1. Admission(req[q])' /\ Holding(req[q])' /\ Recorded(req[q])' /\ Probing(req[q])'
    BY <1>11, <1>12, <1>13, <1>14
  <2> QED
    BY <1>9, <2>1 DEF Fine
<1> QED
  BY <1>1, <1>7, <1>10, <1>15


\* ProbeLogsRefusal writes a line and ends, whatever the policy says by then.
LEMMA ProbeLogsRefusalFine ==
  ASSUME TypeOK, NEW q \in Requests, Fine(req[q]), ProbeLogsRefusal(q)
  PROVE  /\ TypeOK' /\ Fine(req[q])' /\ UNCHANGED files
         /\ \A p \in Requests \ {q} : req'[p] = req[p]
<1> DEFINE x == req[q]
<1>1. x \in Request /\ x.pc = "refusal" /\ UNCHANGED <<files, server>>
  BY DEF ProbeLogsRefusal, At, TypeOK
<1>2. PICK r \in x.wants : \E next \in Written(q, r, Decision(policy, r, "get")) :
        req' = [req EXCEPT ![q] = [next EXCEPT !.pc = "ended", !.answer = "denied"]]
  BY DEF ProbeLogsRefusal
<1> DEFINE d == Decision(policy, r, "get")
<1>3. PICK next \in Written(q, r, d) :
        req' = [req EXCEPT ![q] = [next EXCEPT !.pc = "ended", !.answer = "denied"]]
  BY <1>2
<1>4. d \in {"ALLOW", "DENY", "ERROR"} /\ r \in Refs
  BY <1>1, Decisions DEF Request
<1> HIDE DEF d
<1>5. /\ next \in Request
      /\ \/ next.log = Append(x.log, [ref |-> r, decision |-> d]) /\ next.lost = x.lost
         \/ next.log = x.log /\ next.lost = x.lost \cup {r}
      /\ next.command = x.command /\ next.pc = x.pc /\ next.wants = x.wants
      /\ next.mode = x.mode /\ next.authorized = x.authorized /\ next.held = x.held
      /\ next.buf = x.buf /\ next.answer = x.answer /\ next.pulled = x.pulled
      /\ next.granted = x.granted /\ next.asof = x.asof
  BY <1>1, <1>3, <1>4, LineWritten
<1> DEFINE y == req'[q]
<1>6. /\ y \in Request /\ req' \in [Requests -> Request] /\ \A p \in Requests \ {q} : req'[p] = req[p]
      /\ y.log = next.log /\ y.lost = next.lost /\ y.pc = "ended" /\ y.answer = "denied"
      /\ y.command = x.command /\ y.wants = x.wants /\ y.mode = x.mode /\ y.held = x.held
      /\ y.buf = x.buf /\ y.pulled = x.pulled /\ y.granted = x.granted /\ y.asof = x.asof
      /\ y.authorized = x.authorized
  <2>1. [next EXCEPT !.pc = "ended", !.answer = "denied"] \in Request
    BY <1>5, Values, Retyped
  <2>2. y = [next EXCEPT !.pc = "ended", !.answer = "denied"]
    BY <1>3 DEF TypeOK
  <2>3. req' \in [Requests -> Request] /\ \A p \in Requests \ {q} : req'[p] = req[p]
    BY <1>3, <2>1 DEF TypeOK
  <2> QED
    BY <1>5, <2>1, <2>2, <2>3 DEF Request
<1>7. Fine(x)
  OBVIOUS
<1>8. Current(req[q])'
  BY <1>1, <1>6, <1>7 DEF Fine, Current, files
<1>9. TypeOK'
  BY <1>1, <1>6 DEF TypeOK, files
<1> HIDE DEF x, y
<1>10. x.authorized = {} /\ x.pulled = {} /\ x.log = <<>> /\ x.authorized \subseteq x.wants
  BY <1>1, <1>7 DEF Fine, Admission, Recorded, Judging
<1>11. Admission(y)
  BY <1>6, <1>10 DEF Admission, Admitted, Judging
<1>12. Holding(y)
  BY <1>1, <1>6, <1>7 DEF Fine, Holding
<1>13. Recorded(y)
  <2>1. \A i \in DOMAIN y.log : i = Len(y.log) /\ ~(i < Len(y.log))
    <3>1. CASE y.log = x.log
      BY <1>10, <3>1
    <3>2. CASE y.log = Append(x.log, [ref |-> r, decision |-> d])
      <4>1. [ref |-> r, decision |-> d] \in Record /\ x.log \in Seq(Record) /\ Len(x.log) = 0
        BY <1>1, <1>4, <1>10 DEF Record, Request
      <4> QED
        BY <3>2, <4>1, LineAppended
    <3> QED
      BY <1>5, <1>6, <3>1, <3>2
  <2> QED
    BY <1>6, <1>10, <2>1 DEF Recorded, Judging
<1>14. Probing(y)
  BY <1>1, <1>4, <1>5, <1>6, <1>7, <1>10, ProbeLogsOnce DEF Fine
<1>15. Fine(req[q])'
  <2> USE DEF y
  <2>1. Admission(req[q])' /\ Holding(req[q])' /\ Recorded(req[q])' /\ Probing(req[q])'
    BY <1>11, <1>12, <1>13, <1>14
  <2> QED
    BY <1>8, <2>1 DEF Fine
<1> QED
  BY <1>1, <1>6, <1>9, <1>15

\* Fetch pulls the least reference missing, as the store has it now.
LEMMA FetchFine ==
  ASSUME TypeOK, NEW q \in Requests, Fine(req[q]), Fetch(q)
  PROVE  /\ TypeOK' /\ Fine(req[q])' /\ UNCHANGED files
         /\ \A p \in Requests \ {q} : req'[p] = req[p]
<1> DEFINE x == req[q]
           y == req'[q]
           r == Min(Missing(q))
<1>1. /\ x \in Request /\ x.pc = "fetch" /\ UNCHANGED <<files, server>>
      /\ req' = [req EXCEPT ![q].held = @ \cup {<<r, store[r]>>}, ![q].pulled = @ \cup {r}]
  BY DEF Fetch, At, TypeOK
<1>2. r \in x.wants /\ x.wants \subseteq Refs
  <2>1. Missing(q) \in SUBSET Nat /\ Missing(q) # {} /\ Missing(q) \subseteq x.wants
    BY <1>1, DeliveryConstants DEF Fetch, Missing, Request
  <2> QED
    BY <1>1, <2>1, MinIsLeast DEF Request
<1> HIDE DEF r
<1>3. /\ y \in Request /\ req' \in [Requests -> Request] /\ \A p \in Requests \ {q} : req'[p] = req[p]
      /\ y.held = x.held \cup {<<r, store[r]>>} /\ y.pulled = x.pulled \cup {r}
      /\ y.command = x.command /\ y.pc = x.pc /\ y.wants = x.wants /\ y.mode = x.mode
      /\ y.authorized = x.authorized /\ y.buf = x.buf /\ y.answer = x.answer /\ y.log = x.log
      /\ y.lost = x.lost /\ y.granted = x.granted /\ y.asof = x.asof
  <2>1. x.held \cup {<<r, store[r]>>} \in Content /\ x.pulled \cup {r} \in SUBSET Refs
    BY <1>1, <1>2 DEF Request, Content, TypeOK
  <2>2. [x EXCEPT !.held = x.held \cup {<<r, store[r]>>}, !.pulled = x.pulled \cup {r}] \in Request
    BY <1>1, <2>1, RetypedHistory
  <2>3. y = [x EXCEPT !.held = x.held \cup {<<r, store[r]>>}, !.pulled = x.pulled \cup {r}]
    BY <1>1 DEF TypeOK
  <2>4. req' \in [Requests -> Request] /\ \A p \in Requests \ {q} : req'[p] = req[p]
    BY <1>1, <2>2, <2>3 DEF TypeOK
  <2> QED
    BY <1>1, <2>2, <2>3, <2>4 DEF Request
<1>4. Fine(x) /\ store[r] >= x.asof[r]
  BY <1>1, <1>2 DEF Fine, Current, TypeOK, Request
<1>5. Current(req[q])'
  BY <1>1, <1>3, <1>4 DEF Fine, Current, files, Permits
<1>6. TypeOK'
  BY <1>1, <1>3 DEF TypeOK, files
<1> HIDE DEF x, y
<1>7. Admission(y)
  BY <1>1, <1>2, <1>3, <1>4 DEF Fine, Admission, Admitted, Judging
<1>8. Holding(y)
  <2>1. \A v \in y.held \cup y.buf : v[2] >= y.asof[v[1]]
    BY <1>3, <1>4 DEF Fine, Holding
  <2> QED
    BY <1>1, <1>2, <1>3, <1>4, <2>1 DEF Fine, Holding
<1>9. Recorded(y)
  <2>1. \A i \in DOMAIN x.log : x.log[i].decision = "ALLOW"
    BY <1>1, <1>4 DEF Fine, Recorded
  <2> QED
    BY <1>1, <1>3, <1>4, <2>1, SameLog DEF Fine, Recorded, Judging
<1>10. Probing(y)
  BY <1>3, <1>4 DEF Fine, Probing
<1>11. Fine(req[q])'
  <2> USE DEF y
  <2>1. Admission(req[q])' /\ Holding(req[q])' /\ Recorded(req[q])' /\ Probing(req[q])'
    BY <1>7, <1>8, <1>9, <1>10
  <2> QED
    BY <1>5, <2>1 DEF Fine
<1> QED
  BY <1>1, <1>3, <1>6, <1>11

(***************************************************************************)
(* The steps of the environment, and the theorems.                         *)
(***************************************************************************)

\* A request that no step touches stays as it should be, while the policy is
\* the same and secrets get no older.
LEMMA Unaffected ==
  ASSUME NEW p \in Requests, Fine(req[p]), req'[p] = req[p], policy' = policy,
         \A r \in Refs : store[r] <= store'[r], TypeOK, TypeOK'
  PROVE  Fine(req[p])'
<1>1. /\ Admission(req[p])' /\ Holding(req[p])' /\ Probing(req[p])'
  BY DEF Fine, Admission, Holding, Probing
<1>2. Recorded(req[p])'
  BY SameLog DEF Fine, Recorded
<1>3. Current(req[p])'
  <2>1. ASSUME NEW r \in Refs, req[p].asof[r] <= store[r] PROVE req'[p].asof[r] <= store'[r]
    <3>1. store[r] \in Nat /\ store'[r] \in Nat /\ req[p].asof[r] \in Nat
      BY DEF TypeOK, Request
    <3> QED
      BY <2>1, <3>1
  <2> QED
    BY <2>1 DEF Fine, Current, Permits
<1> QED
  BY <1>1, <1>2, <1>3 DEF Fine

\* Another policy widens what the requests in progress are granted.
LEMMA EditPolicyTyped ==
  ASSUME TypeOK, EditPolicy
  PROVE  TypeOK'
<1>1. /\ edits \in 0 .. MaxEdits /\ edits < MaxEdits /\ edits' = edits + 1 /\ policy' \in Files
      /\ UNCHANGED <<profile, store, server>>
  BY DEF EditPolicy, TypeOK
<1> DEFINE wider(q) == [req[q] EXCEPT !.granted = @ \cup Permits(policy')]
<1>2. Permits(policy') \in SUBSET (Refs \X Modes)
  BY <1>1, DeliveryConstants DEF Files, Permits
<1>3. \A q \in Requests : req[q] \in Request /\ wider(q) \in Request
  <2> SUFFICES ASSUME NEW q \in Requests PROVE req[q] \in Request /\ wider(q) \in Request
    OBVIOUS
  <2>1. req[q] \in Request
    BY DEF TypeOK
  <2>2. req[q].granted \cup Permits(policy') \in SUBSET (Refs \X Modes)
    BY <1>2, <2>1 DEF Request
  <2> QED
    BY <2>1, <2>2, RetypedHistory
<1>4. req' = [q \in Requests |-> IF InProgress(q) THEN wider(q) ELSE req[q]]
  BY DEF EditPolicy
<1>5. req' \in [Requests -> Request]
  <2> HIDE DEF wider
  <2> QED
    BY <1>3, <1>4
<1>6. edits' \in 0 .. MaxEdits
  BY <1>1, DeliveryConstants
<1> QED
  BY <1>1, <1>5, <1>6 DEF TypeOK

\* It is granted to whatever is in progress.
LEMMA EditPolicyFine ==
  ASSUME TypeOK, NEW p \in Requests, Fine(req[p]), EditPolicy
  PROVE  Fine(req[p])'
<1> DEFINE x == req[p]
           y == req'[p]
           wider == [req[p] EXCEPT !.granted = @ \cup Permits(policy')]
<1>1. UNCHANGED store /\ x \in Request /\ y = IF InProgress(p) THEN wider ELSE x
  BY DEF EditPolicy, TypeOK
<1>2. /\ y.command = x.command /\ y.pc = x.pc /\ y.wants = x.wants /\ y.mode = x.mode
      /\ y.authorized = x.authorized /\ y.held = x.held /\ y.buf = x.buf
      /\ y.answer = x.answer /\ y.log = x.log /\ y.lost = x.lost /\ y.pulled = x.pulled
      /\ y.asof = x.asof /\ x.granted \subseteq y.granted
      /\ x.pc \notin {"idle", "ended"} => Permits(policy') \subseteq y.granted
  <2>1. CASE InProgress(p)
    <3>1. y = wider
      BY <1>1, <2>1
    <3> QED
      BY <1>1, <3>1 DEF Request
  <2>2. CASE ~InProgress(p)
    <3>1. y = x
      BY <1>1, <2>2
    <3> QED
      BY <2>2, <3>1 DEF InProgress
  <2> QED
    BY <2>1, <2>2
<1>3. /\ Admission(req[p])' /\ Holding(req[p])' /\ Probing(req[p])'
  BY <1>2 DEF Fine, Admission, Holding, Probing
<1>4. Recorded(req[p])'
  BY <1>2, SameLog DEF Fine, Recorded
<1>5. Current(req[p])'
  <2>1. \A r \in Refs : x.asof[r] <= store[r]
    BY DEF Fine, Current
  <2>2. Permits(policy)' = Permits(policy')
    BY DEF Permits
  <2> QED
    BY <1>1, <1>2, <2>1, <2>2 DEF Current
<1> QED
  BY <1>3, <1>4, <1>5 DEF Fine

\* A rotation makes one secret newer, and there are no more of them than edits.
LEMMA RotateFine ==
  ASSUME Inductive, NEW s \in Refs, Rotate(s)
  PROVE  TypeOK' /\ (\A r \in Refs : store[r] <= store'[r] /\ store'[r] <= edits')
<1>1. /\ edits \in 0 .. MaxEdits /\ edits < MaxEdits /\ edits' = edits + 1
      /\ store' = [store EXCEPT ![s] = @ + 1] /\ UNCHANGED <<policy, profile, req, server>>
      /\ store \in [Refs -> 0 .. MaxEdits] /\ MaxEdits \in Nat
      /\ \A r \in Refs : store[r] <= edits
  BY DeliveryConstants DEF Rotate, Inductive, TypeOK
<1>2. ASSUME NEW r \in Refs
      PROVE  store'[r] \in 0 .. MaxEdits /\ store[r] <= store'[r] /\ store'[r] <= edits'
  <2>1. store[r] \in 0 .. MaxEdits /\ store[r] <= edits
    BY <1>1
  <2>2. store'[r] = IF r = s THEN store[r] + 1 ELSE store[r]
    BY <1>1
  <2> QED
    BY <1>1, <2>1, <2>2
<1>3. store' \in [Refs -> 0 .. MaxEdits]
  BY <1>1, <1>2
<1> QED
  BY <1>1, <1>2, <1>3 DEF TypeOK, Inductive

\* At first no request has begun, and no secret was rotated.
LEMMA InitInductive == Init => Inductive
<1> SUFFICES ASSUME Init PROVE Inductive
  OBVIOUS
<1>1. PICK command \in Assignments : req = [q \in Requests |-> Waiting(command[q])]
  BY DEF Init
<1>2. command \in [Requests -> Commands] /\ MaxEdits \in Nat /\ store = [r \in Refs |-> 0] /\ edits = 0
  BY DeliveryConstants DEF Init
<1>3. ASSUME NEW q \in Requests PROVE req[q] \in Request /\ Fine(req[q])
  <2>1. req[q] = Waiting(command[q]) /\ command[q] \in Commands
    BY <1>1, <1>2
  <2>2. /\ req[q].command = command[q] /\ req[q].pc = "idle" /\ req[q].wants = {}
        /\ req[q].authorized = {} /\ req[q].held = {} /\ req[q].buf = {}
        /\ req[q].answer = "none" /\ req[q].log = <<>> /\ req[q].lost = {}
        /\ req[q].pulled = {} /\ req[q].granted = {} /\ req[q].asof = [r \in Refs |-> 0]
    BY <2>1 DEF Waiting
  <2>3. req[q] \in Request
    <3>1. "idle" \in Places /\ "none" \in Answers /\ {} \in Content /\ <<>> \in Seq(Record)
      BY Values DEF Answers
    <3>2. [r \in Refs |-> 0] \in [Refs -> 0 .. MaxEdits]
      BY <1>2
    <3>3. (IF command[q] = "probe" THEN "get" ELSE command[q]) \in Modes
      BY <2>1, Values DEF Commands
    <3> QED
      BY <2>1, <3>1, <3>2, <3>3 DEF Waiting, Request
  <2>4. Admission(req[q]) /\ Holding(req[q]) /\ Probing(req[q])
    BY <2>2 DEF Admission, Holding, Probing, Admitted, Judging
  <2>5. Recorded(req[q])
    BY <2>2 DEF Recorded, Judging
  <2>6. Current(req[q])
    BY <1>2, <2>2 DEF Current
  <2> QED
    BY <2>3, <2>4, <2>5, <2>6 DEF Fine
<1>4. TypeOK
  <2>1. req \in [Requests -> Request]
    BY <1>1, <1>3
  <2> QED
    BY <1>2, <2>1 DEF Init, TypeOK
<1> QED
  BY <1>2, <1>3, <1>4 DEF Inductive

\* One step of one request leaves it, and every other, as it should be.
LEMMA RequestStep ==
  ASSUME Inductive, NEW q \in Requests, TypeOK', Fine(req[q])', UNCHANGED files,
         \A p \in Requests \ {q} : req'[p] = req[p]
  PROVE  Inductive'
<1>1. policy' = policy /\ store' = store /\ edits' = edits
  BY DEF files
<1>2. ASSUME NEW p \in Requests PROVE Fine(req[p])'
  <2>1. CASE p = q
    BY <2>1
  <2>2. CASE p # q
    <3>1. \A r \in Refs : store[r] <= store'[r]
      BY <1>1 DEF Inductive, TypeOK
    <3> QED
      BY <1>1, <2>2, <3>1, Unaffected DEF Inductive
  <2> QED
    BY <2>1, <2>2
<1> QED
  BY <1>1, <1>2 DEF Inductive

\* The inductive step.
LEMMA NextInductive == Inductive /\ [Next]_vars => Inductive'
<1> SUFFICES ASSUME Inductive, [Next]_vars PROVE Inductive'
  OBVIOUS
<1>0. TypeOK /\ (\A p \in Requests : Fine(req[p])) /\ \A r \in Refs : store[r] <= edits
  BY DEF Inductive
<1>1. ASSUME NEW q \in Requests, Begin(q) PROVE Inductive'
  BY <1>0, <1>1, BeginFine, RequestStep
<1>2. ASSUME NEW q \in Requests, Asks(q) PROVE Inductive'
  BY <1>0, <1>2, LoadProfileFine, TakeReferenceFine, ProbeEvaluateFine, RequestStep DEF Asks
<1>3. ASSUME NEW q \in Requests, Judged(q) PROVE Inductive'
  BY <1>0, <1>3, AuthorizeFine, ParseFailsFine, ProbeLogsRefusalFine, AuthorizedFine, RequestStep
     DEF Judged
<1>4. ASSUME NEW q \in Requests, Delivered(q) PROVE Inductive'
  BY <1>0, <1>4, FetchFine, FetchFailsFine, ReportFine, RenderForExecFine, RenderForMountFine,
     RequestStep DEF Delivered
<1>5. ASSUME NEW q \in Requests, Closed(q) PROVE Inductive'
  BY <1>0, <1>5, ExecReturnsFine, ReleaseFine, RequestStep DEF Closed
<1>6. CASE EditPolicy
  <2>1. TypeOK' /\ \A p \in Requests : Fine(req[p])'
    <3>1. TypeOK'
      BY <1>0, <1>6, EditPolicyTyped
    <3> QED
      BY <1>0, <1>6, <3>1, EditPolicyFine
  <2>2. store' = store /\ edits' = edits + 1 /\ \A r \in Refs : store[r] \in Nat /\ edits \in Nat
    BY <1>0, <1>6 DEF EditPolicy, TypeOK
  <2>3. \A r \in Refs : store'[r] <= edits'
    BY <1>0, <2>2
  <2> QED
    BY <2>1, <2>3 DEF Inductive
<1>7. CASE EditProfile
  <2>1. policy' = policy /\ store' = store /\ req' = req /\ edits' = edits + 1
        /\ \A r \in Refs : store[r] \in Nat /\ edits \in Nat
    BY <1>0, <1>7 DEF EditProfile, TypeOK
  <2>2. TypeOK'
    BY <1>0, <1>7, DeliveryConstants DEF EditProfile, TypeOK
  <2>3. \A r \in Refs : store[r] <= store'[r] /\ store'[r] <= edits'
    BY <1>0, <2>1
  <2>4. \A p \in Requests : Fine(req[p])'
    BY <1>0, <2>1, <2>2, <2>3, Unaffected
  <2> QED
    BY <2>2, <2>3, <2>4 DEF Inductive
<1>8. ASSUME NEW r \in Refs, Rotate(r) PROVE Inductive'
  <2>1. TypeOK' /\ \A s \in Refs : store[s] <= store'[s] /\ store'[s] <= edits'
    BY <1>8, RotateFine
  <2>2. policy' = policy /\ req' = req
    BY <1>8 DEF Rotate
  <2>3. \A p \in Requests : Fine(req[p])'
    BY <1>0, <2>1, <2>2, Unaffected
  <2> QED
    BY <2>1, <2>3 DEF Inductive
<1>9. CASE UNCHANGED <<files, req>> /\ server' \in {"serving", "signalled", "deaf", "unmounted"}
  <2>1. TypeOK' /\ policy' = policy /\ store' = store /\ req' = req /\ edits' = edits
    BY <1>0, <1>9 DEF TypeOK, files
  <2>2. \A r \in Refs : store[r] <= store'[r] /\ store'[r] <= edits'
    BY <1>0, <2>1 DEF TypeOK
  <2>3. \A p \in Requests : Fine(req[p])'
    BY <1>0, <2>1, <2>2, Unaffected
  <2> QED
    BY <2>1, <2>2, <2>3 DEF Inductive
<1>10. SendSignal \/ Unmount \/ UnmountedByHand \/ UNCHANGED vars =>
         UNCHANGED <<files, req>> /\ server' \in {"serving", "signalled", "deaf", "unmounted"}
  BY <1>0 DEF SendSignal, Unmount, UnmountedByHand, vars, TypeOK
<1> QED
  BY <1>1, <1>2, <1>3, <1>4, <1>5, <1>6, <1>7, <1>8, <1>9, <1>10 DEF Next, Environment

\* The inductive invariant of Delivery: every request is as it should be between
\* any two steps, of its own, of the others and of the operators.
THEOREM InductiveHolds == Spec => []Inductive
<1> QED
  BY InitInductive, NextInductive, PTL DEF Spec

\* Every variable keeps its type.
THEOREM Typed == Spec => []TypeOK
<1>1. Inductive => TypeOK
  BY DEF Inductive
<1> QED
  BY <1>1, InductiveHolds, PTL

\* However the policy is edited while a request runs, nothing is pulled from a
\* store before every reference of the profile was authorized by a policy in
\* force since the request began (main.go:589-594, mount_linux.go:176-178).
THEOREM NothingUnauthorizedIsPulled == Spec => []AdmittedFirst
<1>1. Inductive => AdmittedFirst
  <2> SUFFICES ASSUME Inductive, NEW q \in Requests, req[q].pulled # {}, NEW r \in req[q].wants
               PROVE  <<r, req[q].mode>> \in req[q].granted
    BY DEF AdmittedFirst
  <2>1. Admission(req[q])
    BY DEF Inductive, Fine
  <2> QED
    BY <2>1 DEF Admission
<1> QED
  BY <1>1, InductiveHolds, PTL

\* Values and renderings are no older than the request, and a rendering has all
\* of the profile for as long as it can be read (mount_linux.go:123-125).
THEOREM HandlesAreFreshAndWhole == Spec => []FreshAndWhole
<1>1. Inductive => FreshAndWhole
  BY DEF Inductive, Fine, Holding, FreshAndWhole
<1> QED
  BY <1>1, InductiveHolds, PTL

\* Every way a request ends leaves none of its values in memory.
THEOREM NothingStays == Spec => []NothingLingers
<1>1. Inductive => NothingLingers
  BY DEF Inductive, Fine, Holding, NothingLingers, At
<1> QED
  BY <1>1, InductiveHolds, PTL

\* What audit.log has of a request: a line for all that was authorized, unless
\* it was lost, in order, at most the last one refused, and of a refused
\* request nothing was pulled (README, "every decision").
THEOREM LogTellsWhatWasPulled == Spec => []AuditTrail
<1>1. Inductive => AuditTrail
  <2> SUFFICES ASSUME Inductive, NEW q \in Requests
               PROVE  /\ Recorded(req[q]) /\ Probing(req[q])
                      /\ req[q].pulled \subseteq Allowed(req[q]) \cup req[q].lost
                      /\ req[q].answer \in {"ok", "error"} =>
                           req[q].wants \subseteq Allowed(req[q]) \cup req[q].lost
    BY DEF AuditTrail, Recorded, Probing
  <2>1. Admission(req[q]) /\ Recorded(req[q]) /\ Probing(req[q])
    BY DEF Inductive, Fine
  <2> QED
    BY <2>1 DEF Admission, Recorded
<1> QED
  BY <1>1, InductiveHolds, PTL
=============================================================================
