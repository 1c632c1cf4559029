-------------------------- MODULE PolicyEditProofs --------------------------
(***************************************************************************)
(* For any number of operators, grants, backup names and commands: the     *)
(* live policy is whole at every instant, before and after a power loss,   *)
(* a complete backup is never written to again, and every operator is told *)
(* the truth.  For one operator at a time: what is installed is what was   *)
(* approved, and what it replaced is kept.                                 *)
(***************************************************************************)
EXTENDS PolicyEdit, FiniteSetTheorems, TLAPS

\* A backup name Backup tries is one of the names there are.
LEMMA NamesTried ==
    ASSUME NEW when \in 1 .. Cardinality(Slots) - Attempts + 1, NEW s \in FreeFrom(when)
    PROVE  s \in Slots
<1>1. Cardinality(Slots) \in Nat
    BY FS_CardinalityType, SlotsValid
<1> QED
    BY <1>1, SlotsValid, AttemptsValid DEF FreeFrom

\* 0 is no name.
LEMMA ZeroNoName == 0 \notin Slots
<1>1. Cardinality(Slots) \in Nat
    BY FS_CardinalityType, SlotsValid
<1> QED
    BY <1>1, SlotsValid

\* Creating a backup takes a name nobody has.
LEMMA CreateTakesFreeName ==
    ASSUME NEW e \in Editors, CreateBackup(e)
    PROVE  \E s \in Slots :
              /\ bak[s] = NoFile
              /\ slot' = [slot EXCEPT ![e] = s]
              /\ bak' = [bak EXCEPT ![s] = Written(Torn)]
<1>1. PICK when \in 1 .. Cardinality(Slots) - Attempts + 1 : \E s \in FreeFrom(when) :
          slot' = [slot EXCEPT ![e] = s] /\ bak' = [bak EXCEPT ![s] = Written(Torn)]
    BY DEF CreateBackup
<1>2. PICK s \in FreeFrom(when) :
          slot' = [slot EXCEPT ![e] = s] /\ bak' = [bak EXCEPT ![s] = Written(Torn)]
    BY <1>1
<1>3. s \in Slots
    BY NamesTried
<1>4. bak[s] = NoFile
    BY DEF FreeFrom
<1> QED
    BY <1>2, <1>3, <1>4

\* What the constructors make of a content is a file.
LEMMA FileType ==
    /\ \A c \in Contents : Written(c) \in File /\ Synced(c) \in File
    /\ NoFile \in File /\ NoFile = Synced(Absent)
    /\ \A f \in File : Recovered(f) \in File /\ f.data \in Contents /\ f.durable \in Contents
    BY DEF File, Written, Synced, NoFile, Recovered, Contents

\* Where a content may come from.
LEMMA ContentType ==
    /\ Absent \in Contents /\ Torn \in Contents /\ Policies \subseteq Contents
    /\ \A c \in Contents : c # Torn => c \in {Absent} \cup Policies
    /\ {} \in Policies /\ Absent # Torn
    /\ \A p \in Policies : p # Absent /\ p # Torn
    BY ContentsDistinct DEF Contents, Policies

\* A policy file found at the start is whole and on the disk, or absent.
LEMMA InitInductive == Init => Inductive
<1> SUFFICES ASSUME Init PROVE Inductive
    OBVIOUS
<1>1. PICK p \in {Absent} \cup Policies : live = Synced(p)
    BY FileType DEF Init
<1>2. live \in File /\ Whole(live)
    BY <1>1, FileType, ContentType DEF Whole, Synced
<1>3. disk \in [live : File, bak : [Slots -> File]] /\ disk.live = live
    BY <1>2, FileType DEF Init
<1>4. TypeOK
    BY <1>2, <1>3, FileType, ContentType, RunsValid DEF Init, TypeOK, PCs, Outcomes
<1> QED
    BY <1>2, <1>3, <1>4 DEF Init, Inductive, OnItsWay, OwnBackups

\* Flushing a file whose name is on the disk changes that one file there.
LEMMA FlushOnDisk ==
    ASSUME disk \in [live : File, bak : [Slots -> File]], NEW s \in Slots, NEW f \in File,
           NEW d, d = [disk EXCEPT !.bak[s] = f]
    PROVE  /\ d \in [live : File, bak : [Slots -> File]]
           /\ d.live = disk.live
<1>1. d = [disk EXCEPT !.bak = [disk.bak EXCEPT ![s] = f]]
    OBVIOUS
<1>2. [disk.bak EXCEPT ![s] = f] \in [Slots -> File]
    OBVIOUS
<1> QED
    BY <1>1, <1>2

\* Types survive every step.
LEMMA StepType ==
    ASSUME Inductive, Next
    PROVE  TypeOK'
<1> USE FileType, ContentType DEF TypeOK, Goto, Report, PCs, Outcomes, files, local
<1>1. TypeOK
    BY DEF Inductive
<1>2. ASSUME NEW e \in Editors, Step(e) PROVE TypeOK'
  <2>1. CASE Start(e)
    <3>1. runs' \in [Editors -> 0 .. MaxRuns]
        BY <1>1, <2>1, RunsValid DEF Start
    <3> QED
        BY <1>1, <2>1, <3>1 DEF Start
  <2>2. CASE Load(e)
    BY <1>1, <2>2 DEF Load
  <2>3. CASE LoadFails(e)
    BY <1>1, <2>3 DEF LoadFails
  <2>4. CASE Propose(e)
    BY <1>1, <2>4 DEF Propose
  <2>5. CASE Refuse(e)
    BY <1>1, <2>5 DEF Refuse
  <2>6. CASE Decline(e)
    BY <1>1, <2>6 DEF Decline
  <2>7. CASE Confirm(e)
    BY <1>1, <2>7 DEF Confirm
  <2>8. CASE ReadForBackup(e)
    BY <1>1, <2>8 DEF ReadForBackup
  <2>9. CASE CreateBackup(e)
    <3>1. PICK s \in Slots :
              slot' = [slot EXCEPT ![e] = s] /\ bak' = [bak EXCEPT ![s] = Written(Torn)]
        BY <2>9, CreateTakesFreeName
    <3> QED
        BY <1>1, <2>9, <3>1 DEF CreateBackup
  <2>10. CASE FillBackup(e)
    <3>1. slot[e] \in Slots
        BY <2>10 DEF FillBackup, Inductive, OnItsWay
    <3>2. disk' \in [live : File, bak : [Slots -> File]]
        BY <1>1, <2>10, <3>1, FlushOnDisk DEF FillBackup
    <3> QED
        BY <1>1, <2>10, <3>2 DEF FillBackup
  <2>11. CASE BackupFails(e)
    BY <1>1, <2>11 DEF BackupFails
  <2>12. CASE WriteTemp(e)
    <3>1. (IF phase[e] = "install" THEN cand[e] ELSE bak[slot[e]].data) \in Contents
        BY <1>1, <2>12 DEF WriteTemp, Inductive, OnItsWay
    <3> QED
        BY <1>1, <2>12, <3>1 DEF WriteTemp
  <2>13. CASE FlushTemp(e)
    BY <1>1, <2>13 DEF FlushTemp
  <2>14. CASE Install(e)
    BY <1>1, <2>14 DEF Install
  <2>15. CASE RollBack(e)
    BY <1>1, <2>15 DEF RollBack
  <2>16. CASE WriteFails(e)
    BY <1>1, <2>16 DEF WriteFails
  <2>17. CASE Verified(e)
    BY <1>1, <2>17 DEF Verified
  <2>18. CASE Mismatch(e)
    BY <1>1, <2>18 DEF Mismatch
  <2>19. CASE CannotRestore(e)
    BY <1>1, <2>19 DEF CannotRestore
  <2>20. CASE Kill(e)
    BY <1>1, <2>20 DEF Kill
  <2> QED
    BY <1>2, <2>1, <2>2, <2>3, <2>4, <2>5, <2>6, <2>7, <2>8, <2>9, <2>10, <2>11, <2>12, <2>13, <2>14, <2>15, <2>16, <2>17, <2>18, <2>19, <2>20 DEF Step
<1>3. CASE WriteBack
    BY <1>1, <1>3 DEF WriteBack
<1>4. CASE PowerLoss
    BY <1>1, <1>4 DEF PowerLoss
<1> QED
    BY <1>2, <1>3, <1>4 DEF Next

\* The two steps of a command that change what policy.json names, the one that
\* changes the disk, and the two that change a backup.
LEMMA LiveFrame ==
    ASSUME NEW e \in Editors, Step(e), ~Install(e), ~RollBack(e)
    PROVE  live' = live
    BY DEF Step, files, local, Start, Load, LoadFails, Propose, Refuse, Decline, Confirm, ReadForBackup, CreateBackup, FillBackup, BackupFails, WriteTemp, FlushTemp, WriteFails, Verified, Mismatch, CannotRestore, Kill

\* Of the steps of a command only the flush of its backup reaches the disk.
LEMMA DiskFrame ==
    ASSUME NEW e \in Editors, Step(e), ~FillBackup(e)
    PROVE  disk' = disk
    BY DEF Step, files, local, Start, Load, LoadFails, Propose, Refuse, Decline, Confirm, ReadForBackup, CreateBackup, BackupFails, WriteTemp, FlushTemp, Install, RollBack, WriteFails, Verified, Mismatch, CannotRestore, Kill

\* Only creating and filling a backup touches any backup.
LEMMA BackupFrame ==
    ASSUME NEW e \in Editors, Step(e), ~CreateBackup(e), ~FillBackup(e)
    PROVE  bak' = bak
    BY DEF Step, files, local, Start, Load, LoadFails, Propose, Refuse, Decline, Confirm, ReadForBackup, BackupFails, WriteTemp, FlushTemp, Install, RollBack, WriteFails, Verified, Mismatch, CannotRestore, Kill

\* The name policy.json, in memory and on the disk, keeps naming a whole file.
LEMMA StepLive ==
    ASSUME Inductive, Next
    PROVE  Whole(live)' /\ Whole(disk.live)'
<1> USE DEF Goto, Report, files, local
<1>1. TypeOK /\ Whole(live) /\ Whole(disk.live) /\ \A e \in Editors : OnItsWay(e)
    BY DEF Inductive
<1>2. ASSUME NEW e \in Editors, Step(e) PROVE Whole(live)' /\ Whole(disk.live)'
  <2>1. \/ live' = live
        \/ live' = tmp[e] /\ pc[e] = "rename"
    <3>1. CASE Install(e) \/ RollBack(e)
        BY <3>1 DEF Install, RollBack
    <3>2. CASE ~Install(e) /\ ~RollBack(e)
        BY <1>2, <3>2, LiveFrame
    <3> QED
        BY <3>1, <3>2
  <2>2. disk'.live = disk.live
    <3>1. CASE FillBackup(e)
        <4>1. slot[e] \in Slots /\ Synced(saved[e]) \in File
            BY <1>1, <3>1, FileType DEF FillBackup, TypeOK, OnItsWay
        <4> QED
            BY <1>1, <3>1, <4>1, FlushOnDisk DEF FillBackup, TypeOK
    <3>2. CASE ~FillBackup(e)
        BY <1>2, <3>2, DiskFrame
    <3> QED
        BY <3>1, <3>2
  <2> QED
    BY <1>1, <2>1, <2>2 DEF OnItsWay, Whole
<1>3. CASE WriteBack
    BY <1>1, <1>3 DEF WriteBack, Whole
<1>4. CASE PowerLoss
    BY <1>1, <1>4 DEF PowerLoss, Whole, Recovered, Synced
<1> QED
    BY <1>2, <1>3, <1>4 DEF Next

\* A step of e leaves every other command where it was.
LEMMA OthersFrame ==
    ASSUME TypeOK, NEW e \in Editors, Step(e), NEW f \in Editors, f # e
    PROVE  /\ pc'[f] = pc[f] /\ phase'[f] = phase[f] /\ slot'[f] = slot[f]
           /\ saved'[f] = saved[f] /\ tmp'[f] = tmp[f]
<1> USE DEF TypeOK, Goto, Report, files, local
<1>1. CASE Start(e)
    BY <1>1 DEF Start
<1>2. CASE Load(e)
    BY <1>2 DEF Load
<1>3. CASE LoadFails(e)
    BY <1>3 DEF LoadFails
<1>4. CASE Propose(e)
    BY <1>4 DEF Propose
<1>5. CASE Refuse(e)
    BY <1>5 DEF Refuse
<1>6. CASE Decline(e)
    BY <1>6 DEF Decline
<1>7. CASE Confirm(e)
    BY <1>7 DEF Confirm
<1>8. CASE ReadForBackup(e)
    BY <1>8 DEF ReadForBackup
<1>9. CASE CreateBackup(e)
    BY <1>9 DEF CreateBackup
<1>10. CASE FillBackup(e)
    BY <1>10 DEF FillBackup
<1>11. CASE BackupFails(e)
    BY <1>11 DEF BackupFails
<1>12. CASE WriteTemp(e)
    BY <1>12 DEF WriteTemp
<1>13. CASE FlushTemp(e)
    BY <1>13 DEF FlushTemp
<1>14. CASE Install(e)
    BY <1>14 DEF Install
<1>15. CASE RollBack(e)
    BY <1>15 DEF RollBack
<1>16. CASE WriteFails(e)
    BY <1>16 DEF WriteFails
<1>17. CASE Verified(e)
    BY <1>17 DEF Verified
<1>18. CASE Mismatch(e)
    BY <1>18 DEF Mismatch
<1>19. CASE CannotRestore(e)
    BY <1>19 DEF CannotRestore
<1>20. CASE Kill(e)
    BY <1>20 DEF Kill
<1> QED
    BY <1>1, <1>2, <1>3, <1>4, <1>5, <1>6, <1>7, <1>8, <1>9, <1>10, <1>11, <1>12, <1>13, <1>14, <1>15, <1>16, <1>17, <1>18, <1>19, <1>20 DEF Step

\* What a step does to one backup: nothing, or it takes a name nobody has, or it
\* fills the file its own command created.
LEMMA BackupStep ==
    ASSUME TypeOK, NEW e \in Editors, Step(e), NEW s \in Slots
    PROVE  \/ bak'[s] = bak[s]
           \/ CreateBackup(e) /\ bak[s] = NoFile /\ bak'[s] = Written(Torn) /\ slot'[e] = s
           \/ FillBackup(e) /\ s = slot[e] /\ bak'[s] = Synced(saved[e])
<1>1. CASE CreateBackup(e)
    BY <1>1, CreateTakesFreeName DEF TypeOK
<1>2. CASE FillBackup(e)
    BY <1>2 DEF FillBackup, TypeOK
<1>3. CASE ~CreateBackup(e) /\ ~FillBackup(e)
    <2>1. bak' = bak
        BY <1>3, BackupFrame
    <2> QED
        BY <2>1
<1> QED
    BY <1>1, <1>2, <1>3

\* Whatever a command, or another operator, does leaves each file on its way whole.
LEMMA StepOnItsWay ==
    ASSUME Inductive, Next
    PROVE  \A f \in Editors : OnItsWay(f)'
<1>1. TypeOK /\ Whole(live) /\ OwnBackups /\ \A f \in Editors : OnItsWay(f)
    BY DEF Inductive
<1>2. ASSUME NEW e \in Editors, Step(e), NEW f \in Editors, f # e PROVE OnItsWay(f)'
  <2>1. /\ pc'[f] = pc[f] /\ phase'[f] = phase[f] /\ slot'[f] = slot[f]
        /\ saved'[f] = saved[f] /\ tmp'[f] = tmp[f]
    BY <1>1, <1>2, OthersFrame
  <2>2. CASE slot[f] = 0
    BY <1>1, <2>1, <2>2, ZeroNoName DEF OnItsWay, Whole
  <2>3. CASE slot[f] \in Slots
    <3>1. CASE bak'[slot[f]] = bak[slot[f]]
        BY <1>1, <2>1, <3>1 DEF OnItsWay, Whole
    <3>2. CASE bak[slot[f]] = NoFile /\ bak'[slot[f]] = Written(Torn)
        BY <1>1, <2>1, <3>2, ContentType DEF OnItsWay, Whole, NoFile, Written
    <3>3. CASE FillBackup(e) /\ slot[f] = slot[e] /\ bak'[slot[f]] = Synced(saved[e])
        <4>1. pc[e] = "fill_backup"
            BY <3>3 DEF FillBackup, Goto
        <4>2. pc[f] # "fill_backup" /\ bak[slot[f]] = Written(Torn) /\ saved[e] # Absent
            BY <1>1, <1>2, <3>3, <4>1 DEF OwnBackups, OnItsWay
        <4> QED
            BY <1>1, <2>1, <3>3, <4>2 DEF OnItsWay, Whole, Synced, Written
    <3> QED
        BY <1>1, <1>2, <2>1, <2>3, <3>1, <3>2, <3>3, BackupStep
  <2> QED
    BY <1>1, <2>2, <2>3 DEF TypeOK
<1>3. ASSUME NEW e \in Editors, Step(e) PROVE OnItsWay(e)'
  <2> USE <1>1, ContentType DEF TypeOK, OnItsWay, Goto, Report, files, local
  <2>1. CASE Start(e)
    BY <2>1 DEF Start, Whole, Written, Synced
  <2>2. CASE Load(e)
    BY <2>2 DEF Load, Whole, Written, Synced
  <2>3. CASE LoadFails(e)
    BY <2>3 DEF LoadFails, Whole, Written, Synced
  <2>4. CASE Propose(e)
    BY <2>4 DEF Propose, Whole, Written, Synced
  <2>5. CASE Refuse(e)
    BY <2>5 DEF Refuse, Whole, Written, Synced
  <2>6. CASE Decline(e)
    BY <2>6 DEF Decline, Whole, Written, Synced
  <2>7. CASE Confirm(e)
    BY <2>7 DEF Confirm, Whole, Written, Synced
  <2>8. CASE ReadForBackup(e)
    BY <2>8 DEF ReadForBackup, Whole, Written, Synced
  <2>9. CASE CreateBackup(e)
    <3>1. PICK s \in Slots :
              slot' = [slot EXCEPT ![e] = s] /\ bak' = [bak EXCEPT ![s] = Written(Torn)]
        BY <2>9, CreateTakesFreeName
    <3> QED
        BY <2>9, <3>1 DEF CreateBackup
  <2>10. CASE FillBackup(e)
    BY <2>10 DEF FillBackup, Whole, Written, Synced
  <2>11. CASE BackupFails(e)
    BY <2>11 DEF BackupFails, Whole, Written, Synced
  <2>12. CASE WriteTemp(e)
    BY <2>12 DEF WriteTemp, Whole, Written, Synced
  <2>13. CASE FlushTemp(e)
    BY <2>13 DEF FlushTemp, Whole, Written, Synced
  <2>14. CASE Install(e)
    BY <2>14 DEF Install, Whole, Written, Synced
  <2>15. CASE RollBack(e)
    BY <2>15 DEF RollBack, Whole, Written, Synced
  <2>16. CASE WriteFails(e)
    BY <2>16 DEF WriteFails, Whole, Written, Synced
  <2>17. CASE Verified(e)
    BY <2>17 DEF Verified, Whole, Written, Synced
  <2>18. CASE Mismatch(e)
    BY <2>18 DEF Mismatch, Whole, Written, Synced
  <2>19. CASE CannotRestore(e)
    BY <2>19 DEF CannotRestore, Whole, Written, Synced
  <2>20. CASE Kill(e)
    BY <2>20 DEF Kill, Whole, Written, Synced
  <2> QED
    BY <1>3, <2>1, <2>2, <2>3, <2>4, <2>5, <2>6, <2>7, <2>8, <2>9, <2>10, <2>11, <2>12, <2>13, <2>14, <2>15, <2>16, <2>17, <2>18, <2>19, <2>20 DEF Step
<1>4. CASE WriteBack
    BY <1>1, <1>4 DEF WriteBack, OnItsWay, local, Whole
<1>5. CASE PowerLoss
    BY <1>1, <1>5 DEF PowerLoss, OnItsWay
<1> QED
    BY <1>2, <1>3, <1>4, <1>5 DEF Next

\* O_EXCL: a backup that is being filled belongs to one command.
LEMMA StepOwnBackups ==
    ASSUME Inductive, Next
    PROVE  OwnBackups'
<1>1. TypeOK /\ OwnBackups /\ \A f \in Editors : OnItsWay(f)
    BY DEF Inductive
<1>2. ASSUME NEW e \in Editors, Step(e) PROVE OwnBackups'
  <2>1. ASSUME NEW f \in Editors, f # e PROVE pc'[f] = pc[f] /\ slot'[f] = slot[f]
    BY <1>1, <1>2, <2>1, OthersFrame
  <2>2. CASE CreateBackup(e)
    <3>1. PICK s \in Slots : bak[s] = NoFile /\ slot' = [slot EXCEPT ![e] = s]
        BY <2>2, CreateTakesFreeName
    <3>2. \A f \in Editors : f # e /\ pc[f] = "fill_backup" => slot[f] # s
        BY <1>1, <3>1, ContentType DEF OnItsWay, NoFile, Written
    <3> QED
        BY <1>1, <2>1, <3>1, <3>2 DEF OwnBackups, TypeOK
  <2>3. CASE ~CreateBackup(e)
    <3>1. pc'[e] # "fill_backup"
        BY <1>1, <1>2, <2>3 DEF Step, TypeOK, Goto, Report, Start, Load, LoadFails, Propose, Refuse, Decline, Confirm,
           ReadForBackup, FillBackup, BackupFails, WriteTemp, FlushTemp, Install, RollBack, WriteFails, Verified,
           Mismatch, CannotRestore, Kill
    <3> QED
        BY <1>1, <2>1, <3>1 DEF OwnBackups
  <2> QED
    BY <2>2, <2>3
<1>3. CASE WriteBack
    BY <1>1, <1>3 DEF WriteBack, OwnBackups, local
<1>4. CASE PowerLoss
    BY <1>1, <1>4 DEF PowerLoss, OwnBackups
<1> QED
    BY <1>2, <1>3, <1>4 DEF Next

\* The parts together are preserved by every step.
LEMMA NextInductive == Inductive /\ [Next]_vars => Inductive'
<1>1. ASSUME Inductive, Next PROVE Inductive'
    BY <1>1, StepType, StepLive, StepOnItsWay, StepOwnBackups DEF Inductive
<1>2. ASSUME Inductive, UNCHANGED vars PROVE Inductive'
    BY <1>2 DEF Inductive, TypeOK, OnItsWay, OwnBackups, Whole, vars, files, local
<1> QED
    BY <1>1, <1>2

\* The strengthened invariant of the transaction: types, what is on its way to
\* the live name, and one command per backup name.
THEOREM InductiveHolds == Spec => []Inductive
    BY InitInductive, NextInductive, PTL DEF Spec

\* Readers and power losses never meet half a policy, however many operators
\* edit at once and wherever they are killed.
THEOREM PolicyIsWhole == Spec => []LiveIsWhole
<1>1. Inductive => LiveIsWhole
    BY DEF Inductive, LiveIsWhole, Whole, Synced
<1> QED
    BY <1>1, InductiveHolds, PTL

\* A complete backup is never overwritten, not even by a backup taken in the
\* same second.
THEOREM BackupsKept == Spec => BackupsNeverChange
<1> DEFINE Kept == \A s \in Slots : bak[s].data \notin {Absent, Torn} => bak'[s] = bak[s] \/ Rebooted
<1>1. ASSUME Inductive, Next PROVE Kept
  <2>1. ASSUME NEW e \in Editors, Step(e), NEW s \in Slots, bak[s].data \notin {Absent, Torn}
        PROVE  bak'[s] = bak[s]
    <3>1. bak[s] # NoFile /\ bak[s] # Written(Torn)
        BY <2>1 DEF NoFile, Written
    <3>2. FillBackup(e) => bak[slot[e]] = Written(Torn)
        BY <1>1 DEF FillBackup, Goto, Inductive, OnItsWay
    <3> QED
        BY <1>1, <2>1, <3>1, <3>2, BackupStep DEF Inductive
  <2>2. CASE WriteBack
    BY <2>2 DEF WriteBack
  <2>3. CASE PowerLoss
    BY <2>3 DEF PowerLoss, Rebooted
  <2> QED
    BY <1>1, <2>1, <2>2, <2>3 DEF Next
<1>2. ASSUME UNCHANGED vars PROVE Kept
    BY <1>2 DEF vars, files
<1> QED
    BY <1>1, <1>2, InductiveHolds, PTL DEF Spec, BackupsNeverChange

(***************************************************************************)
(* What the operators are told.                                            *)
(***************************************************************************)

\* A step of e changes nothing that another command's report is about.
LEMMA OthersTold ==
    ASSUME TypeOK, NEW e \in Editors, Step(e), NEW f \in Editors, f # e
    PROVE  outcome'[f] = outcome[f] /\ (f \in renamed' <=> f \in renamed)
<1> USE DEF TypeOK, Goto, Report, files, local
<1>1. CASE Start(e)
    BY <1>1 DEF Start
<1>2. CASE Load(e)
    BY <1>2 DEF Load
<1>3. CASE LoadFails(e)
    BY <1>3 DEF LoadFails
<1>4. CASE Propose(e)
    BY <1>4 DEF Propose
<1>5. CASE Refuse(e)
    BY <1>5 DEF Refuse
<1>6. CASE Decline(e)
    BY <1>6 DEF Decline
<1>7. CASE Confirm(e)
    BY <1>7 DEF Confirm
<1>8. CASE ReadForBackup(e)
    BY <1>8 DEF ReadForBackup
<1>9. CASE CreateBackup(e)
    BY <1>9 DEF CreateBackup
<1>10. CASE FillBackup(e)
    BY <1>10 DEF FillBackup
<1>11. CASE BackupFails(e)
    BY <1>11 DEF BackupFails
<1>12. CASE WriteTemp(e)
    BY <1>12 DEF WriteTemp
<1>13. CASE FlushTemp(e)
    BY <1>13 DEF FlushTemp
<1>14. CASE Install(e)
    BY <1>14 DEF Install
<1>15. CASE RollBack(e)
    BY <1>15 DEF RollBack
<1>16. CASE WriteFails(e)
    BY <1>16 DEF WriteFails
<1>17. CASE Verified(e)
    BY <1>17 DEF Verified
<1>18. CASE Mismatch(e)
    BY <1>18 DEF Mismatch
<1>19. CASE CannotRestore(e)
    BY <1>19 DEF CannotRestore
<1>20. CASE Kill(e)
    BY <1>20 DEF Kill
<1> QED
    BY <1>1, <1>2, <1>3, <1>4, <1>5, <1>6, <1>7, <1>8, <1>9, <1>10, <1>11, <1>12, <1>13, <1>14,
       <1>15, <1>16, <1>17, <1>18, <1>19, <1>20 DEF Step

\* Its own steps keep what a command told, and will tell, true.
LEMMA OwnStepTold ==
    ASSUME Inductive, NEW e \in Editors, Step(e), Told(e)
    PROVE  Told(e)'
<1>0. TypeOK /\ OnItsWay(e)
    BY DEF Inductive
<1> USE DEF TypeOK, Goto, Report, files, local, Told, Candid, Writing, PCs
<1>1. CASE Start(e)
    BY <1>0, <1>1 DEF Start
<1>2. CASE Load(e)
    BY <1>0, <1>2 DEF Load
<1>3. CASE LoadFails(e)
    BY <1>0, <1>3 DEF LoadFails
<1>4. CASE Propose(e)
    BY <1>0, <1>4 DEF Propose
<1>5. CASE Refuse(e)
    BY <1>0, <1>5 DEF Refuse
<1>6. CASE Decline(e)
    BY <1>0, <1>6 DEF Decline
<1>7. CASE Confirm(e)
    BY <1>0, <1>7 DEF Confirm
<1>8. CASE ReadForBackup(e)
    BY <1>0, <1>8 DEF ReadForBackup
<1>9. CASE CreateBackup(e)
    BY <1>0, <1>9 DEF CreateBackup
<1>10. CASE FillBackup(e)
    BY <1>0, <1>10 DEF FillBackup, OnItsWay
<1>11. CASE BackupFails(e)
    BY <1>0, <1>11 DEF BackupFails
<1>12. CASE WriteTemp(e)
    BY <1>0, <1>12 DEF WriteTemp
<1>13. CASE FlushTemp(e)
    BY <1>0, <1>13 DEF FlushTemp
<1>14. CASE Install(e)
    BY <1>0, <1>14 DEF Install
<1>15. CASE RollBack(e)
    BY <1>0, <1>15 DEF RollBack
<1>16. CASE WriteFails(e)
    BY <1>0, <1>16 DEF WriteFails
<1>17. CASE Verified(e)
    BY <1>0, <1>17 DEF Verified
<1>18. CASE Mismatch(e)
    BY <1>0, <1>18 DEF Mismatch
<1>19. CASE CannotRestore(e)
    BY <1>0, <1>19 DEF CannotRestore
<1>20. CASE Kill(e)
    BY <1>0, <1>20 DEF Kill
<1> QED
    BY <1>1, <1>2, <1>3, <1>4, <1>5, <1>6, <1>7, <1>8, <1>9, <1>10, <1>11, <1>12, <1>13, <1>14,
       <1>15, <1>16, <1>17, <1>18, <1>19, <1>20 DEF Step

\* So does every step of the others, a write-back and a power loss.
LEMMA TellInductive ==
    /\ Init => \A e \in Editors : Told(e)
    /\ Inductive /\ (\A e \in Editors : Told(e)) /\ [Next]_vars => \A e \in Editors : Told(e)'
<1>1. Init => \A e \in Editors : Told(e)
    BY DEF Init, Told, Candid, Writing, PCs
<1>2. ASSUME Inductive, \A e \in Editors : Told(e), Next, NEW f \in Editors PROVE Told(f)'
  <2>1. ASSUME NEW e \in Editors, Step(e) PROVE Told(f)'
    <3>1. CASE e = f
        BY <1>2, <2>1, <3>1, OwnStepTold
    <3>2. CASE e # f
        <4>1. /\ pc'[f] = pc[f] /\ phase'[f] = phase[f] /\ tmp'[f] = tmp[f]
              /\ outcome'[f] = outcome[f] /\ (f \in renamed' <=> f \in renamed)
            BY <1>2, <2>1, <3>2, OthersFrame, OthersTold DEF Inductive
        <4> QED
            BY <1>2, <4>1 DEF Told, Candid
    <3> QED
        BY <3>1, <3>2
  <2>2. CASE WriteBack
    BY <1>2, <2>2 DEF WriteBack, local, Told, Candid
  <2>3. CASE PowerLoss
    BY <1>2, <2>3 DEF PowerLoss, Told, Candid, Writing, PCs
  <2> QED
    BY <1>2, <2>1, <2>2, <2>3 DEF Next
<1>3. ASSUME \A e \in Editors : Told(e), UNCHANGED vars PROVE \A e \in Editors : Told(e)'
    BY <1>3 DEF vars, files, local, Told, Candid
<1> QED
    BY <1>1, <1>2, <1>3

\* "live policy untouched", "not installed", "installed", "rolled back": whatever
\* a command says of policy.json is what it did to it (grant.go:269, 397, 414, 429).
THEOREM OperatorsAreToldTheTruth == Spec => []ReportsAreTrue
<1> DEFINE AllTold == \A e \in Editors : Told(e)
<1>1. (Init => AllTold) /\ (Inductive /\ AllTold /\ [Next]_vars => AllTold')
    BY TellInductive
<1>2. AllTold => ReportsAreTrue
    BY DEF Told, ReportsAreTrue
<1> HIDE DEF AllTold
<1> QED
    BY <1>1, <1>2, InductiveHolds, PTL DEF Spec

\* A command that ends by itself has removed its temporary copy (write.go:80-82).
THEOREM NoTempLeft == Spec => []TempsRemoved
<1> DEFINE AllTold == \A e \in Editors : Told(e)
<1>1. (Init => AllTold) /\ (Inductive /\ AllTold /\ [Next]_vars => AllTold')
    BY TellInductive
<1>2. AllTold => TempsRemoved
    BY DEF Told, TempsRemoved
<1> HIDE DEF AllTold
<1> QED
    BY <1>1, <1>2, InductiveHolds, PTL DEF Spec

(***************************************************************************)
(* One operator at a time.                                                 *)
(***************************************************************************)

\* With nobody else editing, every step of e keeps it on what it loaded.
LEMMA OwnStepUndisturbed ==
    ASSUME Inductive, NEW e \in Editors, Step(e), Undisturbed(e)
    PROVE  Undisturbed(e)'
<1>0. TypeOK /\ OnItsWay(e) /\ Whole(live) /\ slot[e] \in Slots \cup {0}
    BY DEF Inductive, TypeOK
<1> USE ZeroNoName DEF TypeOK, Goto, Report, files, local, Undisturbed, Writing
<1>1. CASE Start(e)
    BY <1>0, <1>1 DEF Start
<1>2. CASE Load(e)
    BY <1>0, <1>2 DEF Load
<1>3. CASE LoadFails(e)
    BY <1>0, <1>3 DEF LoadFails
<1>4. CASE Propose(e)
    BY <1>0, <1>4 DEF Propose
<1>5. CASE Refuse(e)
    BY <1>0, <1>5 DEF Refuse
<1>6. CASE Decline(e)
    BY <1>0, <1>6 DEF Decline
<1>7. CASE Confirm(e)
    BY <1>0, <1>7 DEF Confirm
<1>8. CASE ReadForBackup(e)
    BY <1>0, <1>8 DEF ReadForBackup, Whole
<1>9. CASE CreateBackup(e)
  <2>1. PICK s \in Slots : slot' = [slot EXCEPT ![e] = s] /\ bak' = [bak EXCEPT ![s] = Written(Torn)]
    BY <1>9, CreateTakesFreeName
  <2> QED
    BY <1>0, <1>9, <2>1 DEF CreateBackup
<1>10. CASE FillBackup(e)
    BY <1>0, <1>10 DEF FillBackup, OnItsWay
<1>11. CASE BackupFails(e)
    BY <1>0, <1>11 DEF BackupFails
<1>12. CASE WriteTemp(e)
    BY <1>0, <1>12 DEF WriteTemp, OnItsWay, Written, Synced
<1>13. CASE FlushTemp(e)
    BY <1>0, <1>13 DEF FlushTemp, Synced
<1>14. CASE Install(e)
    BY <1>0, <1>14 DEF Install
<1>15. CASE RollBack(e)
    BY <1>0, <1>15 DEF RollBack
<1>16. CASE WriteFails(e)
    BY <1>0, <1>16 DEF WriteFails
<1>17. CASE Verified(e)
    BY <1>0, <1>17 DEF Verified
<1>18. CASE Mismatch(e)
    BY <1>0, <1>18 DEF Mismatch, OnItsWay
<1>19. CASE CannotRestore(e)
    BY <1>0, <1>19 DEF CannotRestore
<1>20. CASE Kill(e)
    BY <1>0, <1>20 DEF Kill
<1> QED
    BY <1>1, <1>2, <1>3, <1>4, <1>5, <1>6, <1>7, <1>8, <1>9, <1>10, <1>11, <1>12, <1>13, <1>14,
       <1>15, <1>16, <1>17, <1>18, <1>19, <1>20 DEF Step

\* Nothing else disturbs the one command: a power loss ends it.
LEMMA UndisturbedInductive ==
    ASSUME OneOperator
    PROVE  /\ Init => \A e \in Editors : Undisturbed(e)
           /\ Inductive /\ (\A e \in Editors : Undisturbed(e)) /\ [Next]_vars =>
                \A e \in Editors : Undisturbed(e)'
<1>1. Init => \A e \in Editors : Undisturbed(e)
    BY DEF Init, Undisturbed, Writing
<1>2. ASSUME Inductive, \A e \in Editors : Undisturbed(e), Next, NEW e \in Editors
      PROVE  Undisturbed(e)'
  <2>1. CASE Step(e)
    BY <1>2, <2>1, OwnStepUndisturbed
  <2>2. CASE WriteBack
    BY <1>2, <2>2 DEF WriteBack, local, Undisturbed
  <2>3. CASE PowerLoss
    BY <1>2, <2>3 DEF PowerLoss, Undisturbed, Writing
  <2> QED
    BY <1>2, <2>1, <2>2, <2>3 DEF Next, OneOperator
<1>3. ASSUME \A e \in Editors : Undisturbed(e), UNCHANGED vars
      PROVE  \A e \in Editors : Undisturbed(e)'
    BY <1>3 DEF vars, files, local, Undisturbed
<1> QED
    BY <1>1, <1>2, <1>3

\* The step that replaces policy.json is the install, the one that undoes it the
\* rollback.
LEMMA RenamingSteps ==
    ASSUME TypeOK, NEW e \in Editors, Step(e)
    PROVE  /\ Replaces(e) => Install(e)
           /\ RollsBack(e) => RollBack(e) \/ outcome[e] = "rolled_back"
<1> USE DEF TypeOK, Goto, Report, files, local, Replaces, RollsBack
<1>1. CASE Start(e)
    BY <1>1 DEF Start
<1>2. CASE Load(e)
    BY <1>2 DEF Load
<1>3. CASE LoadFails(e)
    BY <1>3 DEF LoadFails
<1>4. CASE Propose(e)
    BY <1>4 DEF Propose
<1>5. CASE Refuse(e)
    BY <1>5 DEF Refuse
<1>6. CASE Decline(e)
    BY <1>6 DEF Decline
<1>7. CASE Confirm(e)
    BY <1>7 DEF Confirm
<1>8. CASE ReadForBackup(e)
    BY <1>8 DEF ReadForBackup
<1>9. CASE CreateBackup(e)
    BY <1>9 DEF CreateBackup
<1>10. CASE FillBackup(e)
    BY <1>10 DEF FillBackup
<1>11. CASE BackupFails(e)
    BY <1>11 DEF BackupFails
<1>12. CASE WriteTemp(e)
    BY <1>12 DEF WriteTemp
<1>13. CASE FlushTemp(e)
    BY <1>13 DEF FlushTemp
<1>14. CASE Install(e)
    BY <1>14 DEF Install
<1>15. CASE RollBack(e)
    BY <1>15 DEF RollBack
<1>16. CASE WriteFails(e)
    BY <1>16 DEF WriteFails
<1>17. CASE Verified(e)
    BY <1>17 DEF Verified
<1>18. CASE Mismatch(e)
    BY <1>18 DEF Mismatch
<1>19. CASE CannotRestore(e)
    BY <1>19 DEF CannotRestore
<1>20. CASE Kill(e)
    BY <1>20 DEF Kill
<1> QED
    BY <1>1, <1>2, <1>3, <1>4, <1>5, <1>6, <1>7, <1>8, <1>9, <1>10, <1>11, <1>12, <1>13, <1>14,
       <1>15, <1>16, <1>17, <1>18, <1>19, <1>20 DEF Step

\* With one operator at a time, what an installation changes is what was shown
\* and approved, and rolling back restores what was there (grant.go:24-28).  Two
\* at a time is another matter: see the run edit_race_delta.
THEOREM ApprovedUnlessRaced ==
    ASSUME OneOperator
    PROVE  Spec => OnlyApprovedChanges
<1> DEFINE AllUndisturbed == \A e \in Editors : Undisturbed(e)
           AllTold == \A e \in Editors : Told(e)
           Approved == \A e \in Editors :
             /\ Replaces(e) =>
                  Changed(live.data, live'.data) \subseteq
                      IF want[e] = WholeFile THEN Changed(base[e], cand[e]) ELSE {want[e]}
             /\ RollsBack(e) => live'.data = base[e]
<1>1. ASSUME Inductive, AllUndisturbed, AllTold, [Next]_vars PROVE Approved
  <2> SUFFICES ASSUME NEW e \in Editors, Replaces(e) \/ RollsBack(e)
               PROVE  /\ Replaces(e) =>
                           Changed(live.data, live'.data) \subseteq
                               IF want[e] = WholeFile THEN Changed(base[e], cand[e]) ELSE {want[e]}
                      /\ RollsBack(e) => live'.data = base[e]
    OBVIOUS
  <2>1. pc[e] = "rename" /\ outcome[e] = "none" /\ Undisturbed(e) /\ TypeOK
    BY <1>1 DEF Replaces, RollsBack, Told, Candid, Inductive
  <2>2. Step(e)
    <3>1. ~(UNCHANGED vars) /\ ~WriteBack
        BY <2>1 DEF Replaces, RollsBack, vars, WriteBack
    <3>2. ~PowerLoss
        BY <2>1 DEF Replaces, RollsBack, PowerLoss
    <3> QED
        BY <1>1, <3>1, <3>2 DEF Next, OneOperator
  <2>3. ASSUME Install(e)
        PROVE  live.data = base[e] /\ live'.data = cand[e] /\ Unexpected(base[e], cand[e], want[e]) = {}
    BY <2>1, <2>3 DEF Install, Undisturbed, Writing
  <2>4. ASSUME Install(e)
        PROVE  Changed(live.data, live'.data) \subseteq
                   IF want[e] = WholeFile THEN Changed(base[e], cand[e]) ELSE {want[e]}
    BY <2>3, <2>4 DEF Unexpected
  <2>5. ASSUME RollBack(e) PROVE live'.data = base[e]
    BY <2>1, <2>5 DEF RollBack, Undisturbed, Writing
  <2>6. Replaces(e) => Install(e)
    BY <2>1, <2>2, RenamingSteps
  <2>7. RollsBack(e) => RollBack(e)
    BY <2>1, <2>2, RenamingSteps
  <2> QED
    BY <2>4, <2>5, <2>6, <2>7
<1>2. (Init => AllUndisturbed) /\ (Inductive /\ AllUndisturbed /\ [Next]_vars => AllUndisturbed')
    BY UndisturbedInductive
<1>3. (Init => AllTold) /\ (Inductive /\ AllTold /\ [Next]_vars => AllTold')
    BY TellInductive
<1>4. OnlyApprovedChanges <=> [][Approved]_vars
    BY DEF OnlyApprovedChanges
<1> HIDE DEF AllUndisturbed, AllTold, Approved
<1> QED
    BY <1>1, <1>2, <1>3, <1>4, InductiveHolds, PTL DEF Spec

\* With one operator at a time, what an installation replaces is in a complete,
\* flushed backup (MANUAL.md:281-282, grant.go:388-391).
THEOREM KeptUnlessRaced ==
    ASSUME OneOperator
    PROVE  Spec => ReplacedIsKept
<1> DEFINE AllUndisturbed == \A e \in Editors : Undisturbed(e)
           Kept == \A e \in Editors :
             Replaces(e) /\ live.data # Absent => \E s \in Slots : bak[s] = Synced(live.data)
<1>1. ASSUME Inductive, AllUndisturbed, [Next]_vars PROVE Kept
  <2> SUFFICES ASSUME NEW e \in Editors, Replaces(e), live.data # Absent
               PROVE  \E s \in Slots : bak[s] = Synced(live.data)
    OBVIOUS
  <2>1. pc[e] = "rename" /\ Undisturbed(e) /\ TypeOK
    BY <1>1 DEF Replaces, Inductive
  <2>2. Install(e)
    <3>1. ~(UNCHANGED vars) /\ ~WriteBack /\ ~PowerLoss
        BY <2>1 DEF Replaces, vars, WriteBack, PowerLoss
    <3> QED
        BY <1>1, <2>1, <3>1, RenamingSteps DEF Next, OneOperator
  <2> QED
    BY <2>1, <2>2 DEF Install, Undisturbed, Writing, TypeOK
<1>2. (Init => AllUndisturbed) /\ (Inductive /\ AllUndisturbed /\ [Next]_vars => AllUndisturbed')
    BY UndisturbedInductive
<1>3. ReplacedIsKept <=> [][Kept]_vars
    BY DEF ReplacedIsKept
<1> HIDE DEF AllUndisturbed, Kept
<1> QED
    BY <1>1, <1>2, <1>3, InductiveHolds, PTL DEF Spec
=============================================================================
