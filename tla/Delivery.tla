------------------------------ MODULE Delivery ------------------------------
(***************************************************************************)
(* How the CLI hands out a credential: get, exec, probe, and every open of *)
(* a file that `parzival mount` serves (cmd/parzival/main.go, probe.go,    *)
(* internal/mount/mount_linux.go), while operators edit the policy and the *)
(* profile, and secrets are rotated.                                       *)
(*                                                                         *)
(* Nothing is cached between requests, and little within one: every        *)
(* policy.Authorize loads the policy file again, so one request may be     *)
(* judged by several policies.  The opens are goroutines of one server,    *)
(* the others processes of their own; all of them run at once.             *)
(*                                                                         *)
(* A policy is what it authorizes for the identity, the agent context and  *)
(* the time of day at hand: an hours window that closes is an edit.  What  *)
(* exec does with the rendered credential is in ExecSession.               *)
(***************************************************************************)
EXTENDS Naturals, Sequences, FiniteSetsExt

CONSTANTS Requests,     \* the requests for a credential
          Refs,         \* references, numbered in the order of their names
          Policies,     \* what policy.json may authorize
          Profiles,     \* what the profile may name; nothing: it does not load
          Absent,       \* no policy file
          Unreadable,   \* one that does not parse
          Assignments,  \* which command each request may be
          MaxEdits      \* bound: edits of policy and profile, and rotations

Modes    == {"get", "exec", "mount"}
Commands == Modes \cup {"probe"}
Files    == Policies \cup {Absent, Unreadable}

ASSUME DeliveryConstants ==
    /\ Refs \subseteq Nat /\ IsFiniteSet(Refs) /\ Refs # {}
    /\ Policies \subseteq SUBSET (Refs \X Modes) /\ Profiles \subseteq SUBSET Refs
    /\ Absent \notin Policies /\ Unreadable \notin Policies /\ Absent # Unreadable
    /\ Assignments \subseteq [Requests -> Commands] /\ MaxEdits \in Nat

VARIABLES policy,     \* the live policy file
          profile,    \* the references the profile names
          store,      \* the version of every secret
          edits,      \* edits and rotations so far
          req,        \* the requests: see Request
          server      \* the mount: serving, signalled, deaf, unmounted

files == <<policy, profile, store, edits>>
vars  == <<files, req, server>>

Places == {"idle", "load", "authorize", "fetch", "ready", "open", "refusal", "ended"}

Answers == {"none", "delivered", "denied", "failed", "ok", "error"}

\* A secret value, or a rendering of several, is a set of versions by reference.
Content == SUBSET (Refs \X (0 .. MaxEdits))

Record == [ref : Refs, decision : {"ALLOW", "DENY", "ERROR"}]

Request ==
    [command    : Commands,
     pc         : Places,
     wants      : SUBSET Refs,     \* what it needs: the profile's references, or one
     mode       : Modes,           \* the delivery mode it is judged under
     authorized : SUBSET Refs,
     held       : Content,         \* values fetched and not zeroed
     buf        : Content,         \* the rendering: a handle's data, exec's credential
     answer     : Answers,
     log        : Seq(Record),     \* its lines of audit.log
     lost       : SUBSET Refs,     \* history: references whose line was not written
     pulled     : SUBSET Refs,     \* history: references fetched from the store
     granted    : SUBSET (Refs \X Modes),  \* history: authorized by a policy since it began
     asof       : [Refs -> 0 .. MaxEdits]]  \* history: the store when it began

TypeOK ==
    /\ policy \in Files /\ profile \in Profiles
    /\ store \in [Refs -> 0 .. MaxEdits] /\ edits \in 0 .. MaxEdits
    /\ req \in [Requests -> Request]
    /\ server \in {"serving", "signalled", "deaf", "unmounted"}

Waiting(command) ==
    [command |-> command, pc |-> "idle", wants |-> {},
     mode |-> IF command = "probe" THEN "get" ELSE command,
     authorized |-> {}, held |-> {}, buf |-> {}, answer |-> "none", log |-> <<>>,
     lost |-> {}, pulled |-> {}, granted |-> {}, asof |-> [r \in Refs |-> 0]]

Init ==
    /\ policy \in Files
    /\ profile \in Profiles
    /\ store = [r \in Refs |-> 0]
    /\ edits = 0
    /\ \E command \in Assignments : req = [q \in Requests |-> Waiting(command[q])]
    /\ server = "serving"

\* What policy file p authorizes.
Permits(p) == IF p \in Policies THEN p ELSE {}

\* Authorize's outcome for a reference in a mode.
Decision(p, r, m) ==
    IF p = Unreadable THEN "ERROR" ELSE IF <<r, m>> \in Permits(p) THEN "ALLOW" ELSE "DENY"

At(q, place) == req[q].pc = place
InProgress(q) == req[q].pc \notin {"idle", "ended"}
OnMount(q) == req[q].command = "mount" /\ InProgress(q)
Missing(q) == req[q].wants \ {v[1] : v \in req[q].held}

(***************************************************************************)
(* The environment: operators, the store, whoever opens and reads files.   *)
(***************************************************************************)
\* Another policy is installed, by a rename: every load sees the one or the other.
EditPolicy ==
    /\ edits < MaxEdits
    /\ edits' = edits + 1
    /\ policy' \in Files \ {policy}
    /\ req' = [q \in Requests |->
                 IF InProgress(q) THEN [req[q] EXCEPT !.granted = @ \cup Permits(policy')] ELSE req[q]]
    /\ UNCHANGED <<profile, store, server>>

EditProfile ==
    /\ edits < MaxEdits
    /\ edits' = edits + 1
    /\ profile' \in Profiles \ {profile}
    /\ UNCHANGED <<policy, store, req, server>>

Rotate(r) ==
    /\ edits < MaxEdits
    /\ edits' = edits + 1
    /\ store' = [store EXCEPT ![r] = @ + 1]
    /\ UNCHANGED <<policy, profile, req, server>>

\* A command is run, or the kernel passes on an open (a read-only one: others
\* are EACCES at once) of a name that Lookup found.
Begin(q) ==
    /\ At(q, "idle")
    /\ req[q].command = "mount" => server # "unmounted" /\ profile # {}
    /\ req' = [req EXCEPT ![q].pc = "load", ![q].granted = Permits(policy), ![q].asof = store]
    /\ UNCHANGED <<files, server>>

(***************************************************************************)
(* What is asked for.                                                      *)
(***************************************************************************)
\* profile.Load, for exec and mount.
LoadProfile(q) ==
    /\ At(q, "load") /\ req[q].command \in {"exec", "mount"}
    /\ req' = IF profile = {}
              THEN [req EXCEPT ![q].pc = "ended", ![q].answer = "failed"]
              ELSE [req EXCEPT ![q].pc = "authorize", ![q].wants = profile]
    /\ UNCHANGED <<files, server>>

\* get names its reference; nothing is asked of the policy when the process
\* runs under an agent harness, or its output is a regular file.
TakeReference(q) ==
    /\ At(q, "load") /\ req[q].command = "get"
    /\ \/ req' = [req EXCEPT ![q].pc = "ended", ![q].answer = "denied"]
       \/ \E r \in Refs : req' = [req EXCEPT ![q].pc = "authorize", ![q].wants = {r}]
    /\ UNCHANGED <<files, server>>

\* The first mode, in probe's order, that p permits r.
Reachable(p, r) == {m \in Modes : <<r, m>> \in Permits(p)}
FirstMode(s) == IF "get" \in s THEN "get" ELSE IF "exec" \in s THEN "exec" ELSE "mount"

\* ProbeEvaluate, which lets Authorize try the modes and log every try.
ProbeAuthorizesEach(q) ==
    /\ At(q, "load") /\ req[q].command = "probe"
    /\ \E r \in Refs :
         LET reach == Reachable(policy, r)
             tried == <<[ref |-> r, decision |-> Decision(policy, r, "get")]>> IN
           req' = IF policy = Unreadable \/ policy = Absent \/ reach = {}
                  THEN [req EXCEPT ![q].pc = "refusal", ![q].wants = {r}, ![q].log = tried]
                  ELSE [req EXCEPT ![q].pc = "authorize", ![q].wants = {r}, ![q].log = tried,
                                   ![q].mode = FirstMode(reach)]
    /\ UNCHANGED <<files, server>>

\* probe evaluates the policy it loads; without a file it answers at once, and
\* with no mode allowed it still owes the log a line.
ProbeEvaluate(q) ==
    /\ At(q, "load") /\ req[q].command = "probe"
    /\ \E r \in Refs :
         LET reach == Reachable(policy, r) IN
           req' = IF policy = Unreadable THEN [req EXCEPT ![q].pc = "ended", ![q].answer = "failed"]
                  ELSE IF policy = Absent THEN [req EXCEPT ![q].pc = "ended", ![q].answer = "denied"]
                  ELSE IF reach = {} THEN [req EXCEPT ![q].pc = "refusal", ![q].wants = {r}]
                  ELSE [req EXCEPT ![q].pc = "authorize", ![q].wants = {r}, ![q].mode = FirstMode(reach)]
    /\ UNCHANGED <<files, server>>

(***************************************************************************)
(* policy.Authorize: load, evaluate, write a line, answer.                 *)
(***************************************************************************)
\* The line is written or, with no error to anybody, it is not.
Written(q, r, decision) ==
    {[req[q] EXCEPT !.log = Append(@, [ref |-> r, decision |-> decision])],
     [req[q] EXCEPT !.lost = @ \cup {r}]}

Authorize(q) ==
    /\ At(q, "authorize") /\ req[q].authorized # req[q].wants
    /\ LET r == Min(req[q].wants \ req[q].authorized)
           d == Decision(policy, r, req[q].mode) IN
         \E next \in Written(q, r, d) :
           req' = [req EXCEPT ![q] =
             IF d = "ALLOW" THEN [next EXCEPT !.authorized = @ \cup {r}]
             ELSE [next EXCEPT !.pc = "ended", !.answer = "denied"]]
    /\ UNCHANGED <<files, server>>

\* A reference of the profile that does not parse ends the loop.
ParseFails(q) ==
    /\ At(q, "authorize") /\ req[q].authorized # req[q].wants
    /\ req[q].command \in {"exec", "mount"}
    /\ req' = [req EXCEPT ![q].pc = "ended", ![q].answer = "failed"]
    /\ UNCHANGED <<files, server>>

\* probe found no mode: one line, under get, whatever the policy says by now.
ProbeLogsRefusal(q) ==
    /\ At(q, "refusal")
    /\ \E r \in req[q].wants :
         \E next \in Written(q, r, Decision(policy, r, "get")) :
           req' = [req EXCEPT ![q] = [next EXCEPT !.pc = "ended", !.answer = "denied"]]
    /\ UNCHANGED <<files, server>>

\* Authorized, with each secret fetched as soon as it is authorized.
AuthorizedSoFar(q) ==
    /\ At(q, "authorize") /\ req[q].authorized # {}
    /\ req' = [req EXCEPT ![q].pc = "fetch"]
    /\ UNCHANGED <<files, server>>

Authorized(q) ==
    /\ At(q, "authorize") /\ req[q].authorized = req[q].wants
    /\ req' = [req EXCEPT ![q].pc = "fetch"]
    /\ UNCHANGED <<files, server>>

(***************************************************************************)
(* Fetching and rendering.                                                 *)
(***************************************************************************)
Fetch(q) ==
    /\ At(q, "fetch") /\ Missing(q) # {}
    /\ LET r == Min(Missing(q)) IN
         req' = [req EXCEPT ![q].held = @ \cup {<<r, store[r]>>}, ![q].pulled = @ \cup {r}]
    /\ UNCHANGED <<files, server>>

\* FetchFails, with nothing deferred.
FetchFailsUnzeroed(q) ==
    /\ At(q, "fetch")
    /\ req' = [req EXCEPT ![q].pc = "ended",
                          ![q].answer = IF req[q].command = "probe" THEN "error" ELSE "failed"]
    /\ UNCHANGED <<files, server>>

\* A store cannot be resolved or refuses, the template does, or get cannot write
\* the value out: whatever was fetched is zeroed on the way out.
FetchFails(q) ==
    /\ At(q, "fetch") /\ (req[q].command = "probe" => Missing(q) # {})
    /\ req' = [req EXCEPT ![q].pc = "ended", ![q].held = {},
                          ![q].answer = IF req[q].command = "probe" THEN "error" ELSE "failed"]
    /\ UNCHANGED <<files, server>>

\* The value is written out by get, and by probe only looked at; then zeroed.
Report(q) ==
    /\ At(q, "fetch") /\ Missing(q) = {} /\ req[q].command \in {"get", "probe"}
    /\ req' = [req EXCEPT ![q].pc = "ended", ![q].held = {},
                          ![q].answer = IF req[q].command = "probe" THEN "ok" ELSE "delivered"]
    /\ UNCHANGED <<files, server>>

\* exec keeps the values until it returns.
RenderForExec(q) ==
    /\ At(q, "fetch") /\ Missing(q) = {} /\ req[q].command = "exec"
    /\ req' = [req EXCEPT ![q].pc = "ready", ![q].buf = req[q].held]
    /\ UNCHANGED <<files, server>>

ExecReturns(q) ==
    /\ At(q, "ready")
    /\ req' = [req EXCEPT ![q].pc = "ended", ![q].held = {}, ![q].buf = {},
                          ![q].answer = "delivered"]
    /\ UNCHANGED <<files, server>>

\* materialize returns, zeroing the values; the rendering becomes the handle's.
RenderForMount(q) ==
    /\ At(q, "fetch") /\ Missing(q) = {} /\ req[q].command = "mount"
    /\ req' = [req EXCEPT ![q].pc = "open", ![q].held = {}, ![q].buf = req[q].held,
                          ![q].answer = "delivered"]
    /\ UNCHANGED <<files, server>>

\* Release, when the buffer belongs to the file and not to the handle.
ReleaseFile(q) ==
    /\ At(q, "open")
    /\ req' = [p \in Requests |->
                 IF p = q THEN [req[q] EXCEPT !.pc = "ended", !.buf = {}]
                 ELSE IF At(p, "open") THEN [req[p] EXCEPT !.buf = {}] ELSE req[p]]
    /\ UNCHANGED <<files, server>>

\* The kernel sends the release once the last descriptor is closed and no read
\* of the handle is under way.
Release(q) ==
    /\ At(q, "open")
    /\ req' = [req EXCEPT ![q].pc = "ended", ![q].buf = {}]
    /\ UNCHANGED <<files, server>>

(***************************************************************************)
(* The server.                                                             *)
(***************************************************************************)
SendSignal ==
    /\ server = "serving"
    /\ server' = "signalled"
    /\ UNCHANGED <<files, req>>

Busy == \E q \in Requests : OnMount(q)

\* The goroutine takes one signal and tries to unmount; while a file is open
\* that fails, nobody hears of it, and no later signal is taken.
Unmount ==
    /\ server = "signalled"
    /\ server' = IF Busy THEN "deaf" ELSE "unmounted"
    /\ UNCHANGED <<files, req>>

\* Somebody else unmounts: Wait returns, and the process ends.
UnmountedByHand ==
    /\ server # "unmounted" /\ ~Busy
    /\ server' = "unmounted"
    /\ UNCHANGED <<files, req>>

(***************************************************************************)
(* The specification.                                                      *)
(***************************************************************************)
Asks(q)      == LoadProfile(q) \/ TakeReference(q) \/ ProbeEvaluate(q)
Judged(q)    == Authorize(q) \/ ParseFails(q) \/ ProbeLogsRefusal(q) \/ Authorized(q)
Delivered(q) == Fetch(q) \/ FetchFails(q) \/ Report(q) \/ RenderForExec(q) \/ RenderForMount(q)
Closed(q)    == ExecReturns(q) \/ Release(q)

Environment == EditPolicy \/ EditProfile \/ (\E r \in Refs : Rotate(r)) \/ SendSignal \/ UnmountedByHand

Next ==
    \/ Environment \/ Unmount
    \/ \E q \in Requests : Begin(q) \/ Asks(q) \/ Judged(q) \/ Delivered(q) \/ Closed(q)

Spec == Init /\ [][Next]_vars

(***************************************************************************)
(* Safety.                                                                 *)
(***************************************************************************)
\* Nothing is pulled from a store before every reference of the profile was
\* authorized by a policy that was in force after the request began: what was
\* revoked before it is not served, however the policy moves in between
\* (main.go:589-594, mount_linux.go:176-178, "re-runs policy on every open()").
AdmittedFirst ==
    \A q \in Requests :
      req[q].pulled # {} => \A r \in req[q].wants : <<r, req[q].mode>> \in req[q].granted

\* The references that the log of request x allows.
Allowed(x) == {x.log[i].ref : i \in {i \in DOMAIN x.log : x.log[i].decision = "ALLOW"}}

\* What audit.log says of a request (README, "every decision"): its references
\* in the order of their names, at most the last one refused, and then nothing
\* was pulled; an ALLOW for all that was, unless the line was lost.  A probe has
\* one line, and says "reached" of nothing else (probe.go:110-118, logProbeDecision).
AuditTrail ==
    \A q \in Requests :
      LET log == req[q].log
          accounted == Allowed(req[q]) \cup req[q].lost IN
        /\ \A i \in DOMAIN log : i < Len(log) => log[i].ref < log[i + 1].ref
        /\ \A i \in DOMAIN log : log[i].decision # "ALLOW" => i = Len(log) /\ req[q].pulled = {}
        /\ req[q].pulled \subseteq accounted
        /\ req[q].command = "probe" => Len(log) <= 1
        /\ req[q].answer \in {"ok", "error"} => req[q].wants \subseteq accounted

\* Every open fetches for itself (FOPEN_DIRECT_IO, mount_linux.go:123-125): a
\* file opened after a rotation has the new value; and what a handle serves is
\* whole for as long as it is open, whatever other opens and releases do.
FreshAndWhole ==
    \A q \in Requests :
      /\ \A v \in req[q].held \cup req[q].buf : v[2] >= req[q].asof[v[1]]
      /\ req[q].pc \in {"ready", "open"} => {v[1] : v \in req[q].buf} = req[q].wants

\* However a request ends, none of its values or renderings is left in memory.
NothingLingers ==
    \A q \in Requests : At(q, "ended") => req[q].held = {} /\ req[q].buf = {}

(***************************************************************************)
(* Why they hold: what is true of a request x between any two steps.       *)
(***************************************************************************)
Judging  == {"idle", "load", "refusal", "authorize"}
Admitted == {"fetch", "ready", "open"}

\* Every reference authorized was so by a policy since x began, and nothing is
\* pulled, let alone found to be there, until all of them are.
Admission(x) ==
    /\ x.authorized \subseteq x.wants /\ x.pulled \subseteq x.authorized
    /\ \A r \in x.authorized : <<r, x.mode>> \in x.granted
    /\ x.pulled # {} \/ x.pc \in Admitted \/ x.answer \in {"ok", "error"} => x.authorized = x.wants
    /\ x.pc \in Judging \ {"authorize"} => x.authorized = {}
    /\ x.pc \in Judging => x.pulled = {} /\ x.answer = "none"

\* What x holds it wanted, and fetched after it began; only while it needs it.
Holding(x) ==
    /\ x.pc \notin {"fetch", "ready"} => x.held = {}
    /\ x.pc \notin {"ready", "open"} => x.buf = {}
    /\ \A v \in x.held : v[1] \in x.wants
    /\ x.pc \in {"ready", "open"} => {v[1] : v \in x.buf} = x.wants
    /\ \A v \in x.held \cup x.buf : v[2] >= x.asof[v[1]]

\* The lines of what is authorized so far, less those lost, in order; then at
\* most one of what was not.
Recorded(x) ==
    /\ x.pc \in Judging \ {"authorize"} => x.log = <<>>
    /\ x.pc # "ended" => \A i \in DOMAIN x.log :
         x.log[i].decision = "ALLOW" /\ x.log[i].ref \in x.authorized
    /\ x.authorized \subseteq Allowed(x) \cup x.lost
    /\ \A r \in x.authorized, s \in x.wants \ x.authorized : r < s
    /\ \A i \in DOMAIN x.log : i < Len(x.log) => x.log[i].ref < x.log[i + 1].ref
    /\ \A i \in DOMAIN x.log : x.log[i].decision # "ALLOW" => i = Len(x.log) /\ x.pulled = {}

\* A probe is of one reference, and logs it once.
Probing(x) ==
    x.command = "probe" =>
      /\ \A r, s \in x.wants : r = s
      /\ x.pc = "authorize" /\ x.authorized = {} => x.log = <<>>
      /\ Len(x.log) <= 1

\* Policies since x began are those it may be judged by; secrets only get newer.
Current(x) ==
    /\ x.pc \notin {"idle", "ended"} => Permits(policy) \subseteq x.granted
    /\ \A r \in Refs : x.asof[r] <= store[r]

Fine(x) == Admission(x) /\ Holding(x) /\ Recorded(x) /\ Probing(x) /\ Current(x)

\* The inductive invariant.
Inductive ==
    /\ TypeOK /\ \A r \in Refs : store[r] <= edits
    /\ \A q \in Requests : Fine(req[q])
=============================================================================
