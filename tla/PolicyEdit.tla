----------------------------- MODULE PolicyEdit -----------------------------
(***************************************************************************)
(* The transaction by which `parzival policy grant` and `parzival policy   *)
(* apply` change the live policy (cmd/parzival/grant.go runTransaction,    *)
(* internal/policy/write.go), run by any number of operators at once, with *)
(* failing file operations, killed processes and power losses.             *)
(*                                                                         *)
(* A policy is what it authorizes: a set of Grants.  The rule order, the   *)
(* analyses and the probe set that compute that effect are abstracted to   *)
(* the set difference they report (Changed).  A file has the data a reader *)
(* sees and the data a power loss leaves of it; the names in the directory *)
(* reach the disk in the order they were changed, whenever the kernel      *)
(* writes them back.                                                       *)
(***************************************************************************)
EXTENDS Naturals, FiniteSets, FiniteSetsExt

CONSTANTS Editors,   \* processes running a policy-changing command
          Grants,    \* what a policy can authorize
          Slots,     \* the timestamps a backup can be named after, 1..n
          Attempts,  \* names Backup tries before it gives up (60 in the code)
          MaxRuns,   \* bound: commands started per operator
          Absent,    \* no file under that name
          Torn,      \* a file that is empty, cut short or does not parse
          WholeFile  \* `policy apply`: a file is given, not one grant

ASSUME SlotsValid == Slots = 1 .. Cardinality(Slots) /\ IsFiniteSet(Slots)
ASSUME AttemptsValid == Attempts \in 1 .. Cardinality(Slots)
ASSUME RunsValid == MaxRuns \in Nat
ASSUME ContentsDistinct ==
    /\ Absent # Torn
    /\ \A p \in SUBSET Grants : p # Absent /\ p # Torn
    /\ WholeFile \notin Grants

VARIABLES live,     \* the file policy.json
          bak,      \* policy.json.bak.<timestamp>
          tmp,      \* each process's temporary file, .policy-*.json.tmp
          disk,     \* the names as a power loss would find them
          pc,       \* where each command is
          want,     \* the grant asked for, or WholeFile
          base,     \* the live policy as it was loaded for analysis
          cand,     \* the candidate, as re-read, analysed, shown and approved
          saved,    \* the bytes Backup read
          slot,     \* the backup's name, 0 when there was nothing to back up
          phase,    \* whether WriteAtomic is installing or restoring
          outcome,  \* what the command last told its operator
          runs,     \* commands started, at most MaxRuns
          renamed   \* history: the commands that have replaced policy.json

files == <<live, bak, tmp, disk>>
local == <<want, base, cand, saved, slot, phase>>
vars == <<files, pc, local, outcome, runs, renamed>>

Policies == SUBSET Grants
Contents == {Absent, Torn} \cup Policies
File == [data : Contents, durable : Contents]

NoFile == [data |-> Absent, durable |-> Absent]
Written(c) == [data |-> c, durable |-> Torn]   \* not yet flushed
Synced(c) == [data |-> c, durable |-> c]

\* What a power loss leaves of a file whose name is on the disk.
Recovered(f) == Synced(f.durable)

\* The policy a nil or absent one stands for: nothing is allowed.
Effect(p) == IF p = Absent THEN {} ELSE p

\* Delta.Changes: the requests two policies decide differently.
Changed(old, new) == SymDiff(Effect(old), Effect(new))

\* Unexpected, with revoked access overlooked.
UnexpectedGrantsOnly(old, new, w) ==
    IF w = WholeFile THEN {} ELSE (Effect(new) \ Effect(old)) \ {w}

\* Delta.Unexpected: what moved beyond the grant asked for.  A whole file
\* states no intent, so nothing in it is unexpected.
Unexpected(old, new, w) == IF w = WholeFile THEN {} ELSE Changed(old, new) \ {w}

Init ==
    /\ \E p \in {Absent} \cup Policies : live = IF p = Absent THEN NoFile ELSE Synced(p)
    /\ bak = [s \in Slots |-> NoFile]
    /\ tmp = [e \in Editors |-> NoFile]
    /\ disk = [live |-> live, bak |-> bak]
    /\ pc = [e \in Editors |-> "idle"]
    /\ want = [e \in Editors |-> WholeFile]
    /\ base = [e \in Editors |-> Absent]
    /\ cand = [e \in Editors |-> {}]
    /\ saved = [e \in Editors |-> Absent]
    /\ slot = [e \in Editors |-> 0]
    /\ phase = [e \in Editors |-> "install"]
    /\ outcome = [e \in Editors |-> "none"]
    /\ runs = [e \in Editors |-> 0]
    /\ renamed = {}

Goto(e, from, to) == pc[e] = from /\ pc' = [pc EXCEPT ![e] = to]

\* The command returns and its operator reads what happened.
Report(e, from, o) == Goto(e, from, "idle") /\ outcome' = [outcome EXCEPT ![e] = o]

(***************************************************************************)
(* The candidate: load, place, analyse, show, ask.                         *)
(***************************************************************************)
Start(e) ==
    /\ runs[e] < MaxRuns
    /\ Goto(e, "idle", "load")
    /\ \E w \in Grants \cup {WholeFile} : want' = [want EXCEPT ![e] = w]
    /\ outcome' = [outcome EXCEPT ![e] = "none"]
    /\ runs' = [runs EXCEPT ![e] = @ + 1]
    /\ tmp' = [tmp EXCEPT ![e] = NoFile]   \* a fresh name; a leftover is nobody's
    /\ renamed' = renamed \ {e}
    /\ UNCHANGED <<live, bak, disk, base, cand, saved, slot, phase>>

\* loadPolicyFile: an absent policy is an empty one, one that does not parse
\* ends the command.
Load(e) ==
    /\ live.data # Torn
    /\ Goto(e, "load", "propose")
    /\ base' = [base EXCEPT ![e] = live.data]
    /\ UNCHANGED <<files, want, cand, saved, slot, phase, outcome, runs, renamed>>

LoadFails(e) ==
    /\ Report(e, "load", "refused")
    /\ UNCHANGED <<files, local, runs, renamed>>

\* The candidate loads, has no errors and moves nothing unexpected, so the
\* delta is shown.
Propose(e) ==
    /\ Goto(e, "propose", "confirm")
    /\ \E c \in Policies :
        /\ Unexpected(base[e], c, want[e]) = {}
        /\ cand' = [cand EXCEPT ![e] = c]
    /\ UNCHANGED <<files, want, base, saved, slot, phase, outcome, runs, renamed>>

\* Placement ambiguous, errors in the candidate, unexpected changes, or a
\* candidate file that could not be written.
Refuse(e) ==
    /\ Report(e, "propose", "refused")
    /\ UNCHANGED <<files, local, runs, renamed>>

\* No --apply, or the operator did not say yes.
Decline(e) ==
    /\ Report(e, "confirm", "declined")
    /\ UNCHANGED <<files, local, runs, renamed>>

Confirm(e) ==
    /\ Goto(e, "confirm", "backup")
    /\ UNCHANGED <<files, local, outcome, runs, renamed>>

(***************************************************************************)
(* Backup.                                                                 *)
(***************************************************************************)
ReadForBackup(e) ==
    /\ saved' = [saved EXCEPT ![e] = live.data]
    /\ slot' = [slot EXCEPT ![e] = 0]
    /\ phase' = [phase EXCEPT ![e] = "install"]
    /\ Goto(e, "backup", IF live.data = Absent THEN "write" ELSE "name_backup")
    /\ UNCHANGED <<files, want, base, cand, outcome, runs, renamed>>

\* FreeFrom, without O_EXCL.
AnyFrom(when) == when .. when + Attempts - 1

\* The names from this second on that no backup has.
FreeFrom(when) == {s \in when .. when + Attempts - 1 : bak[s] = NoFile}

\* O_EXCL: creating and finding the name free are one step.
CreateBackup(e) ==
    /\ Goto(e, "name_backup", "fill_backup")
    /\ \E when \in 1 .. Cardinality(Slots) - Attempts + 1 :
        \E s \in FreeFrom(when) :
            /\ \A t \in FreeFrom(when) : s <= t
            /\ slot' = [slot EXCEPT ![e] = s]
            /\ bak' = [bak EXCEPT ![s] = Written(Torn)]
    /\ UNCHANGED <<live, tmp, disk, want, base, cand, saved, phase, outcome, runs, renamed>>

\* FillBackup, not flushed.
FillBackupUnflushed(e) ==
    /\ Goto(e, "fill_backup", "write")
    /\ bak' = [bak EXCEPT ![slot[e]] = Written(saved[e])]
    /\ UNCHANGED <<live, tmp, disk, local, outcome, runs, renamed>>

FillBackup(e) ==
    /\ Goto(e, "fill_backup", "write")
    /\ bak' = [bak EXCEPT ![slot[e]] = Synced(saved[e])]
    /\ disk' = IF disk.bak[slot[e]] = NoFile THEN disk
               ELSE [disk EXCEPT !.bak[slot[e]] = Synced(saved[e])]
    /\ UNCHANGED <<live, tmp, local, outcome, runs, renamed>>

\* Unreadable policy, no unused name left, or a write or flush that failed
\* (the unfinished backup stays).
BackupFails(e) ==
    /\ \E from \in {"backup", "name_backup", "fill_backup"} : Report(e, from, "install_failed")
    /\ UNCHANGED <<files, local, runs, renamed>>

(***************************************************************************)
(* WriteAtomic, for the candidate and, when verification fails, for the    *)
(* backup (Restore).                                                       *)
(***************************************************************************)
WriteTemp(e) ==
    /\ Goto(e, "write", "flush")
    /\ tmp' = [tmp EXCEPT ![e] =
                 Written(IF phase[e] = "install" THEN cand[e] ELSE bak[slot[e]].data)]
    /\ UNCHANGED <<live, bak, disk, local, outcome, runs, renamed>>

\* FlushTemp, renaming before the data is on the disk.
FlushTempNot(e) ==
    /\ Goto(e, "flush", "rename")
    /\ UNCHANGED <<files, local, outcome, runs, renamed>>

FlushTemp(e) ==
    /\ Goto(e, "flush", "rename")
    /\ tmp' = [tmp EXCEPT ![e] = Synced(@.data)]
    /\ UNCHANGED <<live, bak, disk, local, outcome, runs, renamed>>

\* Install, with a step after the rename that can fail.
InstallThenChmod(e) ==
    /\ phase[e] = "install"
    /\ \/ Goto(e, "rename", "verify") /\ UNCHANGED outcome
       \/ Report(e, "rename", "install_failed")
    /\ live' = tmp[e]
    /\ tmp' = [tmp EXCEPT ![e] = NoFile]
    /\ renamed' = renamed \cup {e}
    /\ UNCHANGED <<bak, disk, local, runs>>

Install(e) ==
    /\ phase[e] = "install"
    /\ Goto(e, "rename", "verify")
    /\ live' = tmp[e]
    /\ tmp' = [tmp EXCEPT ![e] = NoFile]
    /\ renamed' = renamed \cup {e}
    /\ UNCHANGED <<bak, disk, local, outcome, runs>>

RollBack(e) ==
    /\ phase[e] = "restore"
    /\ Report(e, "rename", "rolled_back")
    /\ live' = tmp[e]
    /\ tmp' = [tmp EXCEPT ![e] = NoFile]
    /\ UNCHANGED <<bak, disk, local, runs, renamed>>

\* WriteFails, with no deferred removal.
WriteFailsLeaving(e) ==
    /\ \E from \in {"write", "flush", "rename"} :
        Report(e, from, IF phase[e] = "install" THEN "install_failed" ELSE "not_rolled_back")
    /\ UNCHANGED <<files, local, runs, renamed>>

\* Creating, writing, flushing or renaming failed: the deferred removal runs.
WriteFails(e) ==
    /\ \E from \in {"write", "flush", "rename"} :
        Report(e, from, IF phase[e] = "install" THEN "install_failed" ELSE "not_rolled_back")
    /\ tmp' = [tmp EXCEPT ![e] = NoFile]
    /\ UNCHANGED <<live, bak, disk, local, runs, renamed>>

(***************************************************************************)
(* VerifyInstalled and what follows it.                                    *)
(***************************************************************************)
Verified(e) ==
    /\ live.data = cand[e]
    /\ Report(e, "verify", "installed")
    /\ UNCHANGED <<files, local, runs, renamed>>

\* The file differs, or could not be read: go back to the backup.
Mismatch(e) ==
    /\ slot[e] # 0
    /\ bak[slot[e]].data # Torn
    /\ Goto(e, "verify", "write")
    /\ phase' = [phase EXCEPT ![e] = "restore"]
    /\ UNCHANGED <<files, want, base, cand, saved, slot, outcome, runs, renamed>>

\* There is no backup, or it does not parse.
CannotRestore(e) ==
    /\ slot[e] # 0 => bak[slot[e]].data = Torn
    /\ Report(e, "verify", "not_rolled_back")
    /\ UNCHANGED <<files, local, runs, renamed>>

(***************************************************************************)
(* The environment.                                                        *)
(***************************************************************************)
\* SIGINT or SIGKILL: no handler is installed, nothing deferred runs.
Kill(e) ==
    /\ pc[e] # "idle"
    /\ pc' = [pc EXCEPT ![e] = "idle"]
    /\ outcome' = [outcome EXCEPT ![e] = "killed"]
    /\ UNCHANGED <<files, local, runs, renamed>>

WriteBack ==
    /\ disk' = [live |-> live, bak |-> bak]
    /\ UNCHANGED <<live, bak, tmp, pc, local, outcome, runs, renamed>>

PowerLoss ==
    /\ live' = Recovered(disk.live)
    /\ bak' = [s \in Slots |-> Recovered(disk.bak[s])]
    /\ disk' = [live |-> live', bak |-> bak']
    /\ tmp' = [e \in Editors |-> NoFile]
    /\ pc' = [e \in Editors |-> "idle"]
    /\ outcome' = [e \in Editors |-> "killed"]
    /\ UNCHANGED <<local, runs, renamed>>

Step(e) ==
    \/ Start(e) \/ Load(e) \/ LoadFails(e)
    \/ Propose(e) \/ Refuse(e) \/ Decline(e) \/ Confirm(e)
    \/ ReadForBackup(e) \/ CreateBackup(e) \/ FillBackup(e) \/ BackupFails(e)
    \/ WriteTemp(e) \/ FlushTemp(e) \/ Install(e) \/ RollBack(e) \/ WriteFails(e)
    \/ Verified(e) \/ Mismatch(e) \/ CannotRestore(e)
    \/ Kill(e)

Next == (\E e \in Editors : Step(e)) \/ WriteBack \/ PowerLoss

Spec == Init /\ [][Next]_vars

(***************************************************************************)
(* Properties.                                                             *)
(***************************************************************************)
PCs == {"idle", "load", "propose", "confirm", "backup", "name_backup", "fill_backup",
        "write", "flush", "rename", "verify"}
Outcomes == {"none", "refused", "declined", "install_failed", "installed",
             "rolled_back", "not_rolled_back", "killed"}

\* Types, and the bounds on names and runs.
TypeOK ==
    /\ live \in File
    /\ bak \in [Slots -> File]
    /\ tmp \in [Editors -> File]
    /\ disk \in [live : File, bak : [Slots -> File]]
    /\ pc \in [Editors -> PCs]
    /\ want \in [Editors -> Grants \cup {WholeFile}]
    /\ base \in [Editors -> {Absent} \cup Policies]
    /\ cand \in [Editors -> Policies]
    /\ saved \in [Editors -> Contents]
    /\ slot \in [Editors -> Slots \cup {0}]
    /\ phase \in [Editors -> {"install", "restore"}]
    /\ outcome \in [Editors -> Outcomes]
    /\ runs \in [Editors -> 0 .. MaxRuns]
    /\ renamed \subseteq Editors

\* A reader at any instant, and one after a power loss at any instant, finds a
\* whole policy or none: never half of one (write.go:3-16, MANUAL.md:283-285).
LiveIsWhole == live.data # Torn /\ disk.live.durable # Torn

\* Why: everything on its way to the name policy.json is whole and, once it is
\* about to be renamed, flushed; a backup being filled is nobody's source yet.
Whole(f) == f.data # Torn /\ f = Synced(f.data)
OnItsWay(e) ==
    /\ pc[e] = "flush" => tmp[e].data # Torn
    /\ pc[e] = "rename" => Whole(tmp[e])
    /\ pc[e] \in {"name_backup", "fill_backup"} => saved[e] # Absent /\ phase[e] = "install"
    /\ pc[e] = "fill_backup" => slot[e] \in Slots /\ bak[slot[e]] = Written(Torn)
    /\ pc[e] \in {"write", "flush", "rename", "verify"} /\ slot[e] # 0 => bak[slot[e]].data # Absent
    /\ pc[e] = "write" /\ phase[e] = "restore" => slot[e] # 0 /\ bak[slot[e]].data # Torn
OwnBackups ==
    \A e, f \in Editors :
        pc[e] = "fill_backup" /\ pc[f] = "fill_backup" /\ e # f => slot[e] # slot[f]
Inductive ==
    /\ TypeOK
    /\ Whole(live) /\ Whole(disk.live)
    /\ \A e \in Editors : OnItsWay(e)
    /\ OwnBackups

\* No step but a power loss changes a backup once it is complete, whoever takes
\* a backup in the same second (write.go:110-114).
Rebooted == \A e \in Editors : pc'[e] = "idle" /\ outcome'[e] = "killed"
BackupsNeverChange ==
    [][\A s \in Slots : bak[s].data \notin {Absent, Torn} => bak'[s] = bak[s] \/ Rebooted]_vars

\* What a command tells its operator about policy.json is what it did to it:
\* "untouched", "not installed" and "install failed, live policy unchanged" mean
\* it replaced nothing, "installed" and "rolled back" that it did
\* (grant.go:269, 327, 380, 397, 429, 414).
ReportsAreTrue ==
    \A e \in Editors :
        /\ outcome[e] \in {"refused", "declined", "install_failed"} => e \notin renamed
        /\ outcome[e] \in {"installed", "rolled_back"} => e \in renamed

\* No temporary copy of a policy outlives a command that ended by itself
\* (write.go:80-82).
TempsRemoved ==
    \A e \in Editors :
        tmp[e] # NoFile => pc[e] \in {"flush", "rename"} \/ outcome[e] = "killed"

\* The step by which e's candidate, or e's backup, becomes the live policy.
Replaces(e) == pc[e] = "rename" /\ pc'[e] = "verify"
RollsBack(e) == pc[e] = "rename" /\ outcome'[e] = "rolled_back"

\* What an installation does to the authorizations in force is what the operator
\* was shown and asked for, and rolling back is undoing just that
\* (grant.go:24-28, MANUAL.md:243-244).
OnlyApprovedChanges ==
    [][\A e \in Editors :
        /\ Replaces(e) =>
             Changed(live.data, live'.data) \subseteq
                 IF want[e] = WholeFile THEN Changed(base[e], cand[e]) ELSE {want[e]}
        /\ RollsBack(e) => live'.data = base[e]]_vars

\* The policy an installation replaces is in a complete, flushed backup
\* (MANUAL.md:281-282, grant.go:388-391).
ReplacedIsKept ==
    [][\A e \in Editors :
        Replaces(e) /\ live.data # Absent => \E s \in Slots : bak[s] = Synced(live.data)]_vars

(***************************************************************************)
(* Why the reports are true and, with one operator, why the live policy    *)
(* becomes what was approved.                                              *)
(***************************************************************************)
Writing == {"write", "flush", "rename"}

\* A command has told nothing before it ends, has replaced nothing before its
\* rename, and goes back only from what it has replaced.
Candid(e) ==
    /\ pc[e] # "idle" => outcome[e] = "none"
    /\ pc[e] \in PCs \ ({"idle", "verify"} \cup Writing) => e \notin renamed
    /\ pc[e] \in Writing => (e \in renamed <=> phase[e] = "restore")
    /\ pc[e] = "verify" => e \in renamed

\* What holds of command e between any two steps: it is candid, what it told is
\* true, and its temporary file is there only while it is needed.
Told(e) ==
    /\ Candid(e)
    /\ outcome[e] \in {"refused", "declined", "install_failed"} => e \notin renamed
    /\ outcome[e] \in {"installed", "rolled_back"} => e \in renamed
    /\ tmp[e] # NoFile => pc[e] \in {"flush", "rename"} \/ outcome[e] = "killed"

\* While nobody else edits, what was loaded stays live until it is replaced, is
\* what the backup has, and differs from the candidate as was approved.
OneOperator == \A e, f \in Editors : e = f
Undisturbed(e) ==
    /\ pc[e] \in {"propose", "confirm", "backup", "name_backup", "fill_backup"} => live.data = base[e]
    /\ pc[e] \in Writing /\ phase[e] = "install" => live.data = base[e]
    /\ pc[e] \notin {"idle", "load", "propose"} => Unexpected(base[e], cand[e], want[e]) = {}
    /\ pc[e] \in {"name_backup", "fill_backup"} => saved[e] = base[e]
    /\ pc[e] \in Writing \cup {"verify"} =>
         IF slot[e] = 0 THEN base[e] = Absent ELSE bak[slot[e]] = Synced(base[e])
    /\ pc[e] \in {"flush", "rename"} =>
         tmp[e].data = IF phase[e] = "install" THEN cand[e] ELSE base[e]
=============================================================================
