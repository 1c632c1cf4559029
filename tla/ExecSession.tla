----------------------------- MODULE ExecSession ----------------------------
(***************************************************************************)
(* One `parzival exec` (cmd/parzival/main.go runExec): authorize every     *)
(* secret, fetch, render, stage the credential in a RAM-backed directory   *)
(* (internal/ephemeral), run the child, wipe.  Two goroutines share the    *)
(* directory object without a lock: the main one, and the one of           *)
(* cleanupOnSignal, which wipes and exits when SIGINT or SIGTERM arrives.  *)
(*                                                                         *)
(* Each unsynchronised access to Dir.path is a step of its own, and so are *)
(* the file operations of WriteFile and Cleanup.  A torn read of the path  *)
(* string, which ends the process, is one of the ways Die happens.         *)
(***************************************************************************)
EXTENDS Naturals

CONSTANT NSecrets    \* secrets the profile names, authorized in sorted order

ASSUME SecretsValid == NSecrets \in Nat

Main == "main"
Handler == "handler"
Goroutines == {Main, Handler}

NoPath == "no path"    \* Dir.path before New and after Cleanup: the empty string

VARIABLES nested,      \* the profile's inject.filename names a subdirectory
          pc,          \* where the two goroutines are
          after,       \* where main goes when Cleanup returns
          authorized,  \* secrets authorized so far
          held,        \* secret values in memory
          rendered,    \* whether the rendered credential is in memory
          path,        \* Dir.path: the RAM-backed directory's, or empty
          there,       \* whether the directory the file goes in exists
          target,      \* the directory part of the path WriteFile computed
          file,        \* the credential file, in the RAM dir or in the working dir
          listening,   \* SIGINT and SIGTERM go to the handler
          done,        \* stop() has closed the handler's channel
          signal,      \* a SIGINT or SIGTERM: not yet, waiting, taken
          sigAt,       \* history: where main was when it arrived
          childSaw,    \* history: what the child found when it started
          ended        \* how the process ended

memory == <<authorized, held, rendered>>
disk == <<there, file>>
dir == <<path, target, disk>>
sigs == <<listening, done, signal, sigAt>>
vars == <<nested, pc, after, memory, dir, sigs, childSaw, ended>>

Places == {"ram", "cwd"}
FileStates == {"none", "empty", "full", "zeroed"}

Init ==
    /\ nested \in BOOLEAN
    /\ pc = [g \in Goroutines |-> IF g = Main THEN "authorize" ELSE "off"]
    /\ after = "stop"
    /\ authorized = 0
    /\ held = 0
    /\ rendered = FALSE
    /\ path = NoPath
    /\ there = FALSE
    /\ target = "ram"
    /\ file = [p \in Places |-> "none"]
    /\ listening = FALSE
    /\ done = FALSE
    /\ signal = "none"
    /\ sigAt = "nowhere"
    /\ childSaw = "nothing"
    /\ ended = "no"

\* Goroutine g, of a process still there, moves on.
Goto(g, from, to) ==
    /\ ended = "no"
    /\ pc[g] = from
    /\ pc' = [pc EXCEPT ![g] = to]

(***************************************************************************)
(* The main goroutine, up to the RAM-backed directory.                     *)
(***************************************************************************)
\* Every secret is authorized before any is fetched.
Authorize ==
    /\ authorized < NSecrets
    /\ Goto(Main, "authorize", "authorize")
    /\ authorized' = authorized + 1
    /\ UNCHANGED <<nested, after, held, rendered, dir, sigs, childSaw, ended>>

\* A reference that does not parse, or that the policy does not allow.
Refused ==
    /\ authorized < NSecrets
    /\ Goto(Main, "authorize", "exit")
    /\ UNCHANGED <<nested, after, memory, dir, sigs, childSaw, ended>>

Authorized ==
    /\ authorized = NSecrets
    /\ Goto(Main, "authorize", "fetch")
    /\ UNCHANGED <<nested, after, memory, dir, sigs, childSaw, ended>>

Fetch ==
    /\ held < NSecrets
    /\ Goto(Main, "fetch", "fetch")
    /\ held' = held + 1
    /\ UNCHANGED <<nested, after, authorized, rendered, dir, sigs, childSaw, ended>>

Render ==
    /\ held = NSecrets
    /\ Goto(Main, "fetch", "mkdir")
    /\ rendered' = TRUE
    /\ UNCHANGED <<nested, after, authorized, held, dir, sigs, childSaw, ended>>

MakeDir ==
    /\ Goto(Main, "mkdir", "notify")
    /\ path' = "ram"
    /\ there' = ~nested
    /\ UNCHANGED <<nested, after, memory, target, file, sigs, childSaw, ended>>

\* FailsEarly, with nothing deferred.
FailsUnzeroed ==
    /\ \E from \in {"fetch", "mkdir"} : Goto(Main, from, "exit")
    /\ UNCHANGED <<nested, after, memory, dir, sigs, childSaw, ended>>

\* A store, the template or the directory failed: only the deferred zeroing runs.
FailsEarly ==
    /\ \E from \in {"fetch", "mkdir"} : Goto(Main, from, "zero")
    /\ UNCHANGED <<nested, after, memory, dir, sigs, childSaw, ended>>

\* cleanupOnSignal.
Notify ==
    /\ ended = "no" /\ pc[Main] = "notify"
    /\ pc' = [g \in Goroutines |-> IF g = Main THEN "join" ELSE "waiting"]
    /\ listening' = TRUE
    /\ UNCHANGED <<nested, after, memory, dir, done, signal, sigAt, childSaw, ended>>

(***************************************************************************)
(* Dir.WriteFile, which reads Dir.path three times.                        *)
(***************************************************************************)
\* filepath.Join: an empty path leaves a name relative to the working directory.
Join ==
    /\ Goto(Main, "join", "contains")
    /\ target' = IF path = NoPath THEN "cwd" ELSE "ram"
    /\ UNCHANGED <<nested, after, memory, path, disk, sigs, childSaw, ended>>

\* Nothing is inside "" but what is relative to it.
Contains ==
    /\ path = NoPath => target = "cwd"
    /\ Goto(Main, "contains", "parent")
    /\ UNCHANGED <<nested, after, memory, dir, sigs, childSaw, ended>>

\* The parent is made unless it is the directory itself.
Parent ==
    /\ Goto(Main, "parent", IF ~nested /\ path = target THEN "open" ELSE "make_parent")
    /\ UNCHANGED <<nested, after, memory, dir, sigs, childSaw, ended>>

MakeParent ==
    /\ Goto(Main, "make_parent", "open")
    /\ there' = IF target = "ram" THEN TRUE ELSE there
    /\ UNCHANGED <<nested, after, memory, path, target, file, sigs, childSaw, ended>>

Open ==
    /\ target = "ram" => there
    /\ Goto(Main, "open", "write")
    /\ file' = [file EXCEPT ![target] = "empty"]
    /\ UNCHANGED <<nested, after, memory, path, target, there, sigs, childSaw, ended>>

\* A file unlinked meanwhile takes the bytes with it.
Write ==
    /\ Goto(Main, "write", "start")
    /\ file' = IF file[target] = "none" THEN file ELSE [file EXCEPT ![target] = "full"]
    /\ UNCHANGED <<nested, after, memory, path, target, there, sigs, childSaw, ended>>

\* WriteFileFails, with the error of writing ignored.
WriteErrorIgnored ==
    /\ \/ \E from \in {"contains", "make_parent", "open"} : Goto(Main, from, "stop")
       \/ Goto(Main, "write", "start")
    /\ UNCHANGED <<nested, after, memory, dir, sigs, childSaw, ended>>

\* Any part of WriteFile fails (the file may have been written in part): the
\* deferred calls run, stop() before Cleanup.
WriteFileFails ==
    /\ \/ \E from \in {"contains", "make_parent", "open"} : Goto(Main, from, "stop") /\ UNCHANGED file
       \/ /\ Goto(Main, "write", "stop")
          /\ \/ UNCHANGED file
             \/ file[target] # "none" /\ file' = [file EXCEPT ![target] = "full"]
    /\ UNCHANGED <<nested, after, memory, path, target, there, sigs, childSaw, ended>>

(***************************************************************************)
(* The child, and what follows it.                                         *)
(***************************************************************************)
Start ==
    /\ Goto(Main, "start", "wait")
    /\ childSaw' = file["ram"]
    /\ UNCHANGED <<nested, after, memory, dir, sigs, ended>>

StartFails ==
    /\ Goto(Main, "start", "check")
    /\ UNCHANGED <<nested, after, memory, dir, sigs, childSaw, ended>>

\* The child ends when it ends; Run returns.
ChildExits ==
    /\ Goto(Main, "wait", "check")
    /\ UNCHANGED <<nested, after, memory, dir, sigs, childSaw, ended>>

\* Stop, with no deferred Cleanup.
StopOnly ==
    /\ Goto(Main, "stop", "zero")
    /\ listening' = FALSE
    /\ done' = TRUE
    /\ UNCHANGED <<nested, after, memory, dir, signal, sigAt, childSaw, ended>>

\* stop(), then the deferred Cleanup.
Stop ==
    /\ Goto(Main, "stop", "check")
    /\ after' = "zero"
    /\ listening' = FALSE
    /\ done' = TRUE
    /\ UNCHANGED <<nested, memory, dir, signal, sigAt, childSaw, ended>>

Zero ==
    /\ Goto(Main, "zero", "exit")
    /\ held' = 0
    /\ rendered' = FALSE
    /\ UNCHANGED <<nested, after, authorized, dir, sigs, childSaw, ended>>

Return ==
    /\ Goto(Main, "exit", "gone")
    /\ ended' = "returned"
    /\ UNCHANGED <<nested, after, memory, dir, sigs, childSaw>>

(***************************************************************************)
(* Dir.Cleanup, run by either goroutine.                                   *)
(***************************************************************************)
Cleaned(g) == IF g = Main THEN after ELSE "exit"

\* Check, with RemoveAll alone.
CheckUnzeroed(g) ==
    /\ Goto(g, "check", IF path = NoPath THEN Cleaned(g) ELSE "unlink")
    /\ UNCHANGED <<nested, after, memory, dir, sigs, childSaw, ended>>

Check(g) ==
    /\ Goto(g, "check", IF path = NoPath THEN Cleaned(g) ELSE "walk")
    /\ UNCHANGED <<nested, after, memory, dir, sigs, childSaw, ended>>

\* WalkDir reads the path again; zeroFile overwrites what it finds.
Walk(g) ==
    /\ Goto(g, "walk", "unlink")
    /\ file' = IF path = "ram" /\ file["ram"] = "full"
               THEN [file EXCEPT !["ram"] = "zeroed"] ELSE file
    /\ UNCHANGED <<nested, after, memory, path, target, there, sigs, childSaw, ended>>

\* RemoveAll of the directory teardown captured: what it lists, then the
\* directory, which stays if a file has appeared in it.
Unlink(g) ==
    /\ Goto(g, "unlink", "rmdir")
    /\ file' = [file EXCEPT !["ram"] = "none"]
    /\ UNCHANGED <<nested, after, memory, path, target, there, sigs, childSaw, ended>>

Rmdir(g) ==
    /\ Goto(g, "rmdir", "clear")
    /\ there' = (there /\ file["ram"] # "none")
    /\ UNCHANGED <<nested, after, memory, path, target, file, sigs, childSaw, ended>>

Clear(g) ==
    /\ Goto(g, "clear", Cleaned(g))
    /\ path' = NoPath
    /\ UNCHANGED <<nested, after, memory, target, disk, sigs, childSaw, ended>>

Cleanup(g) == Check(g) \/ Walk(g) \/ Unlink(g) \/ Rmdir(g) \/ Clear(g)

(***************************************************************************)
(* The signal handler's goroutine.                                         *)
(***************************************************************************)
TakeSignal ==
    /\ signal = "waiting"
    /\ Goto(Handler, "waiting", "check")
    /\ signal' = "taken"
    /\ UNCHANGED <<nested, after, memory, dir, listening, done, sigAt, childSaw, ended>>

Dismissed ==
    /\ done
    /\ Goto(Handler, "waiting", "gone")
    /\ UNCHANGED <<nested, after, memory, dir, sigs, childSaw, ended>>

\* Exit, leaving main to run.
ExitNot ==
    /\ Goto(Handler, "exit", "gone")
    /\ UNCHANGED <<nested, after, memory, dir, sigs, childSaw, ended>>

\* os.Exit: main stops wherever it is.
Exit ==
    /\ Goto(Handler, "exit", "gone")
    /\ ended' = "signalled"
    /\ UNCHANGED <<nested, after, memory, dir, sigs, childSaw>>

(***************************************************************************)
(* The environment.                                                        *)
(***************************************************************************)
\* SIGINT or SIGTERM, to the handler when there is one.
Signal ==
    /\ ended = "no"
    /\ listening /\ signal = "none"
    /\ signal' = "waiting"
    /\ sigAt' = pc[Main]
    /\ UNCHANGED <<nested, pc, after, memory, dir, listening, done, childSaw, ended>>

\* The same with nobody listening, any other fatal signal, or a crash.
Die ==
    /\ ended = "no"
    /\ ended' = "killed"
    /\ UNCHANGED <<nested, pc, after, memory, dir, sigs, childSaw>>

MainStep ==
    \/ Authorize \/ Refused \/ Authorized \/ Fetch \/ Render \/ MakeDir \/ FailsEarly \/ Notify
    \/ Join \/ Contains \/ Parent \/ MakeParent \/ Open \/ Write \/ WriteFileFails
    \/ Start \/ StartFails \/ Stop \/ Zero \/ Return \/ Cleanup(Main)
HandlerStep == TakeSignal \/ Dismissed \/ Exit \/ Cleanup(Handler)

Next == MainStep \/ HandlerStep \/ ChildExits \/ Signal \/ Die

Spec == Init /\ [][Next]_vars

\* Both goroutines run; children, signals and crashes come when they come.
FairSpec == Spec /\ WF_vars(MainStep) /\ WF_vars(HandlerStep)

(***************************************************************************)
(* Properties.                                                             *)
(***************************************************************************)
MainPCs == {"authorize", "fetch", "mkdir", "notify", "join", "contains", "parent", "make_parent",
            "open", "write", "start", "wait", "check", "walk", "unlink", "rmdir", "clear",
            "stop", "zero", "exit", "gone"}
HandlerPCs == {"off", "waiting", "check", "walk", "unlink", "rmdir", "clear", "exit", "gone"}

\* Types, with the counters within what the profile names.
TypeOK ==
    /\ nested \in BOOLEAN
    /\ pc \in [Goroutines -> MainPCs \cup HandlerPCs]
    /\ pc[Main] \in MainPCs /\ pc[Handler] \in HandlerPCs
    /\ after \in {"stop", "zero"}
    /\ authorized \in 0 .. NSecrets /\ held \in 0 .. NSecrets
    /\ rendered \in BOOLEAN
    /\ path \in {"ram", NoPath}
    /\ there \in BOOLEAN
    /\ target \in Places
    /\ file \in [Places -> FileStates]
    /\ listening \in BOOLEAN /\ done \in BOOLEAN
    /\ signal \in {"none", "waiting", "taken"}
    /\ sigAt \in MainPCs \cup {"nowhere"}
    /\ childSaw \in FileStates \cup {"nothing"}
    /\ ended \in {"no", "returned", "signalled", "killed"}

\* A value is in memory only after the last secret is authorized, so a refusal
\* leaves nothing fetched, and no longer than runExec runs, whichever of its
\* returns it takes (main.go:589-594, 614-618, 631).
HeldOnlyWhileNeeded ==
    held > 0 \/ rendered => authorized = NSecrets /\ ended # "returned"

Leftover == \E p \in Places : file[p] # "none"
Creating == {"join", "contains", "parent", "make_parent", "open"}
Staging == Creating \cup {"write"}

\* Unless a signal arrived while the file was being created, no exit of the
\* process but a crash or an unhandled signal leaves the credential behind:
\* whichever step failed, and with both goroutines wiping at once
\* (main.go:633-640, 664).
WipedAtExit ==
    ended \in {"returned", "signalled"} /\ sigAt \notin Creating => ~Leftover

\* The child never opens a credential that is not complete; it may find none
\* only if a signal is taking everything down (main.go:642-645).
ChildSeesWhole ==
    /\ childSaw \notin {"empty"}
    /\ signal = "none" => childSaw \in {"nothing", "full"}

\* The credential's bytes are overwritten before its name goes, unless a signal
\* caught it being written (ephemeral.go:69-72).
ZeroedFirst ==
    [][file["ram"] = "full" /\ file'["ram"] = "none" => sigAt \in Staging]_vars

(***************************************************************************)
(* Why they hold: what is true between any two steps of the goroutines.    *)
(***************************************************************************)
Before == {"authorize", "fetch", "mkdir", "notify"} \cup Creating
Wiping == {"check", "walk", "unlink", "rmdir", "clear"}

\* Values come after the last authorization and go before main's return.
Needed ==
    /\ IF pc[Main] \in {"authorize", "exit", "gone"}
       THEN held = 0 /\ ~rendered ELSE authorized = NSecrets
    /\ ended = "returned" => pc[Main] = "gone"

\* The handler acts on a signal alone, and main has not gone back since.
Handled ==
    /\ listening => pc[Main] \notin Before \ Creating
    /\ signal = "none" => sigAt = "nowhere"
    /\ pc[Handler] \in Wiping \cup {"exit"} => signal = "taken"
    /\ signal # "none" =>
         /\ sigAt \notin Creating => pc[Main] \notin Before
         /\ sigAt \notin Staging => pc[Main] # "write"

\* The file, as long as no signal interferes with creating it.
Staged ==
    /\ pc[Main] \in Before => \A p \in Places : file[p] = "none"
    /\ pc[Main] \in Creating \cup {"notify"} /\ signal = "none" => path = "ram"
    /\ pc[Main] = "write" /\ signal = "none" => file["ram"] # "none"
    /\ pc[Main] = "start" => file["ram"] # "empty"
    /\ pc[Main] = "start" /\ signal = "none" => file["ram"] = "full"
    /\ target = "cwd" => file["ram"] = "none"
    /\ sigAt \notin Creating => target = "ram" /\ file["cwd"] = "none"

\* Whoever has unlinked, emptied the path or left has nothing behind it.
Wiped ==
    sigAt \notin Creating =>
      /\ \/ path = NoPath /\ pc[Main] \notin Before
         \/ \E g \in Goroutines : pc[g] \in {"rmdir", "clear"}
         \/ pc[Handler] = "exit" \/ ended = "signalled"
         \/ pc[Main] \in {"zero", "exit", "gone"}
         => file["ram"] = "none"
      /\ \A g \in Goroutines : pc[g] = "unlink" /\ file["ram"] = "full" => sigAt = "write"

\* The inductive invariant.
Inductive == TypeOK /\ Needed /\ Handled /\ Staged /\ Wiped /\ ChildSeesWhole

\* A SIGINT or SIGTERM ends the process (main.go:707-723).
SignalEnds == (signal # "none") ~> (ended # "no")

\* "a rendered secret must never land somewhere Cleanup does not wipe"
\* (ephemeral.go:33-34): what a comment says, and a run refutes.
NeverOutside == file["cwd"] # "full"
=============================================================================
