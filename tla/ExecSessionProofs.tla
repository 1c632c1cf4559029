-------------------------- MODULE ExecSessionProofs -------------------------
(***************************************************************************)
(* For every number of secrets: what runExec and its signal handler do to  *)
(* the secrets and the credential file, whichever way their steps          *)
(* interleave.  The inductive invariant is Inductive of ExecSession; each  *)
(* of its conjuncts is preserved by every step.                            *)
(***************************************************************************)
EXTENDS ExecSession, TLAPS

\* Goto takes a goroutine from one of its places to another.
LEMMA GotoTyped ==
  ASSUME TypeOK, NEW g \in Goroutines, NEW from, NEW to, Goto(g, from, to),
         g = Main => to \in MainPCs, g = Handler => to \in HandlerPCs
  PROVE  /\ pc' \in [Goroutines -> MainPCs \cup HandlerPCs]
         /\ pc'[Main] \in MainPCs /\ pc'[Handler] \in HandlerPCs
  BY DEF Goto, TypeOK, Goroutines, Main, Handler

\* Every step keeps the types.
LEMMA TypePreserved ==
  ASSUME TypeOK, [Next]_vars
  PROVE  TypeOK'
<1> DEFINE PCs == /\ pc' \in [Goroutines -> MainPCs \cup HandlerPCs]
                  /\ pc'[Main] \in MainPCs /\ pc'[Handler] \in HandlerPCs
<1>1. "ram" \in Places /\ "cwd" \in Places /\ {"none", "empty", "full", "zeroed"} = FileStates
  BY DEF Places, FileStates
<1>2. Main \in Goroutines /\ Handler \in Goroutines /\ Main # Handler
  BY DEF Main, Handler, Goroutines
<1>0. 0 \in 0 .. NSecrets
  BY SecretsValid
<1>3. CASE Authorize
  <2>1. PCs
    BY <1>3, <1>2, GotoTyped DEF Authorize, MainPCs, HandlerPCs
  <2> QED
    BY <1>3, <1>1, <2>1, SecretsValid DEF Authorize, dir, disk, sigs, TypeOK
<1>4. CASE Refused
  <2>1. PCs
    BY <1>4, <1>2, GotoTyped DEF Refused, MainPCs, HandlerPCs
  <2> QED
    BY <1>4, <1>1, <2>1 DEF Refused, memory, dir, disk, sigs, TypeOK
<1>5. CASE Authorized
  <2>1. PCs
    BY <1>5, <1>2, GotoTyped DEF Authorized, MainPCs, HandlerPCs
  <2> QED
    BY <1>5, <1>1, <2>1 DEF Authorized, memory, dir, disk, sigs, TypeOK
<1>6. CASE Fetch
  <2>1. PCs
    BY <1>6, <1>2, GotoTyped DEF Fetch, MainPCs, HandlerPCs
  <2> QED
    BY <1>6, <1>1, <2>1, SecretsValid DEF Fetch, dir, disk, sigs, TypeOK
<1>7. CASE Render
  <2>1. PCs
    BY <1>7, <1>2, GotoTyped DEF Render, MainPCs, HandlerPCs
  <2> QED
    BY <1>7, <1>1, <2>1 DEF Render, dir, disk, sigs, TypeOK
<1>8. CASE MakeDir
  <2>1. PCs
    BY <1>8, <1>2, GotoTyped DEF MakeDir, MainPCs, HandlerPCs
  <2> QED
    BY <1>8, <1>1, <2>1 DEF MakeDir, memory, sigs, TypeOK
<1>9. CASE FailsEarly
  <2>1. PCs
    BY <1>9, <1>2, GotoTyped DEF FailsEarly, MainPCs, HandlerPCs
  <2> QED
    BY <1>9, <1>1, <2>1 DEF FailsEarly, memory, dir, disk, sigs, TypeOK
<1>10. CASE Notify
  BY <1>10, <1>1, <1>2 DEF Notify, memory, dir, disk, TypeOK, MainPCs, HandlerPCs,
       Goroutines
<1>11. CASE Join
  <2>1. PCs
    BY <1>11, <1>2, GotoTyped DEF Join, MainPCs, HandlerPCs
  <2> QED
    BY <1>11, <1>1, <2>1 DEF Join, NoPath, memory, disk, sigs, TypeOK
<1>12. CASE Contains
  <2>1. PCs
    BY <1>12, <1>2, GotoTyped DEF Contains, MainPCs, HandlerPCs
  <2> QED
    BY <1>12, <1>1, <2>1 DEF Contains, NoPath, memory, dir, disk, sigs, TypeOK
<1>13. CASE Parent
  <2>1. PCs
    BY <1>13, <1>2, GotoTyped DEF Parent, MainPCs, HandlerPCs
  <2> QED
    BY <1>13, <1>1, <2>1 DEF Parent, memory, dir, disk, sigs, TypeOK
<1>14. CASE MakeParent
  <2>1. PCs
    BY <1>14, <1>2, GotoTyped DEF MakeParent, MainPCs, HandlerPCs
  <2> QED
    BY <1>14, <1>1, <2>1 DEF MakeParent, memory, sigs, TypeOK
<1>15. CASE Open
  <2>1. PCs
    BY <1>15, <1>2, GotoTyped DEF Open, MainPCs, HandlerPCs
  <2> QED
    BY <1>15, <1>1, <2>1 DEF Open, memory, sigs, TypeOK
<1>16. CASE Write
  <2>1. PCs
    BY <1>16, <1>2, GotoTyped DEF Write, MainPCs, HandlerPCs
  <2> QED
    BY <1>16, <1>1, <2>1 DEF Write, memory, sigs, TypeOK
<1>17. CASE WriteFileFails
  <2>1. PCs
    BY <1>17, <1>2, GotoTyped DEF WriteFileFails, MainPCs, HandlerPCs
  <2> QED
    BY <1>17, <1>1, <2>1 DEF WriteFileFails, memory, sigs, TypeOK
<1>18. CASE Start
  <2>1. PCs
    BY <1>18, <1>2, GotoTyped DEF Start, MainPCs, HandlerPCs
  <2> QED
    BY <1>18, <1>1, <2>1 DEF Start, memory, dir, disk, sigs, TypeOK
<1>19. CASE StartFails
  <2>1. PCs
    BY <1>19, <1>2, GotoTyped DEF StartFails, MainPCs, HandlerPCs
  <2> QED
    BY <1>19, <1>1, <2>1 DEF StartFails, memory, dir, disk, sigs, TypeOK
<1>20. CASE ChildExits
  <2>1. PCs
    BY <1>20, <1>2, GotoTyped DEF ChildExits, MainPCs, HandlerPCs
  <2> QED
    BY <1>20, <1>1, <2>1 DEF ChildExits, memory, dir, disk, sigs, TypeOK
<1>21. CASE Stop
  <2>1. PCs
    BY <1>21, <1>2, GotoTyped DEF Stop, MainPCs, HandlerPCs
  <2> QED
    BY <1>21, <1>1, <2>1 DEF Stop, memory, dir, disk, TypeOK
<1>22. CASE Zero
  <2>1. PCs
    BY <1>22, <1>2, GotoTyped DEF Zero, MainPCs, HandlerPCs
  <2> QED
    BY <1>22, <1>1, <2>1, <1>0 DEF Zero, dir, disk, sigs, TypeOK
<1>23. CASE Return
  <2>1. PCs
    BY <1>23, <1>2, GotoTyped DEF Return, MainPCs, HandlerPCs
  <2> QED
    BY <1>23, <1>1, <2>1 DEF Return, memory, dir, disk, sigs, TypeOK
<1>24. CASE TakeSignal
  <2>1. PCs
    BY <1>24, <1>2, GotoTyped DEF TakeSignal, MainPCs, HandlerPCs
  <2> QED
    BY <1>24, <1>1, <2>1 DEF TakeSignal, memory, dir, disk, TypeOK
<1>25. CASE Dismissed
  <2>1. PCs
    BY <1>25, <1>2, GotoTyped DEF Dismissed, MainPCs, HandlerPCs
  <2> QED
    BY <1>25, <1>1, <2>1 DEF Dismissed, memory, dir, disk, sigs, TypeOK
<1>26. CASE Exit
  <2>1. PCs
    BY <1>26, <1>2, GotoTyped DEF Exit, MainPCs, HandlerPCs
  <2> QED
    BY <1>26, <1>1, <2>1 DEF Exit, memory, dir, disk, sigs, TypeOK
<1>27. CASE Signal
  BY <1>27, <1>1, <1>2 DEF Signal, memory, dir, disk, TypeOK, MainPCs, HandlerPCs,
       Goroutines
<1>28. CASE Die
  BY <1>28, <1>1, <1>2 DEF Die, memory, dir, disk, sigs, TypeOK, MainPCs,
       HandlerPCs, Goroutines
<1>29. ASSUME NEW g \in Goroutines, Check(g) PROVE TypeOK'
  <2>1. PCs
    BY <1>29, <1>2, GotoTyped DEF Check, Cleaned, MainPCs, HandlerPCs, TypeOK
  <2> QED
    BY <1>29, <1>1, <2>1 DEF Check, NoPath, memory, dir, disk, sigs, TypeOK
<1>30. ASSUME NEW g \in Goroutines, Walk(g) PROVE TypeOK'
  <2>1. PCs
    BY <1>30, <1>2, GotoTyped DEF Walk, MainPCs, HandlerPCs
  <2> QED
    BY <1>30, <1>1, <2>1 DEF Walk, memory, sigs, TypeOK
<1>31. ASSUME NEW g \in Goroutines, Unlink(g) PROVE TypeOK'
  <2>1. PCs
    BY <1>31, <1>2, GotoTyped DEF Unlink, MainPCs, HandlerPCs
  <2> QED
    BY <1>31, <1>1, <2>1 DEF Unlink, memory, sigs, TypeOK
<1>32. ASSUME NEW g \in Goroutines, Rmdir(g) PROVE TypeOK'
  <2>1. PCs
    BY <1>32, <1>2, GotoTyped DEF Rmdir, MainPCs, HandlerPCs
  <2> QED
    BY <1>32, <1>1, <2>1 DEF Rmdir, memory, sigs, TypeOK
<1>33. ASSUME NEW g \in Goroutines, Clear(g) PROVE TypeOK'
  <2>1. PCs
    BY <1>33, <1>2, GotoTyped DEF Clear, Cleaned, MainPCs, HandlerPCs, TypeOK
  <2> QED
    BY <1>33, <1>1, <2>1 DEF Clear, NoPath, memory, disk, sigs, TypeOK
<1>34. CASE UNCHANGED vars
  BY <1>34 DEF vars, memory, dir, disk, sigs, TypeOK
<1> QED
  BY <1>3, <1>4, <1>5, <1>6, <1>7, <1>8, <1>9, <1>10, <1>11, <1>12, <1>13, <1>14,
       <1>15, <1>16, <1>17, <1>18, <1>19, <1>20, <1>21, <1>22, <1>23, <1>24, <1>25,
       <1>26, <1>27, <1>28, <1>29, <1>30, <1>31, <1>32, <1>33, <1>34 DEF Next, MainStep,
       HandlerStep, Cleanup, Goroutines

\* No step keeps a value in memory longer than runExec runs.
LEMMA NeededPreserved ==
  ASSUME TypeOK, Needed, [Next]_vars
  PROVE  Needed'
<1>0. /\ path \in {"ram", NoPath} /\ after \in {"stop", "zero"} /\ pc \in [Goroutines -> MainPCs \cup HandlerPCs]
      /\ authorized \in 0 .. NSecrets /\ held \in 0 .. NSecrets /\ NSecrets \in Nat
  BY SecretsValid DEF TypeOK
<1>1. CASE Authorize
  BY <1>1, <1>0 DEF Authorize, Goto, Main, dir, disk, sigs, Needed, Goroutines,
       Handler
<1>2. CASE Refused
  BY <1>2, <1>0 DEF Refused, Goto, Main, memory, dir, disk, sigs, Needed,
       Goroutines, Handler
<1>3. CASE Authorized
  BY <1>3, <1>0 DEF Authorized, Goto, Main, memory, dir, disk, sigs, Needed,
       Goroutines, Handler
<1>4. CASE Fetch
  BY <1>4, <1>0 DEF Fetch, Goto, Main, dir, disk, sigs, Needed, Goroutines, Handler
<1>5. CASE Render
  BY <1>5, <1>0 DEF Render, Goto, Main, dir, disk, sigs, Needed, Goroutines, Handler
<1>6. CASE MakeDir
  BY <1>6, <1>0 DEF MakeDir, Goto, Main, memory, sigs, Needed, Goroutines, Handler
<1>7. CASE FailsEarly
  BY <1>7, <1>0 DEF FailsEarly, Goto, Main, memory, dir, disk, sigs, Needed,
       Goroutines, Handler
<1>8. CASE Notify
  BY <1>8, <1>0 DEF Notify, Main, Goroutines, Handler, memory, dir, disk, Needed
<1>9. CASE Join
  BY <1>9, <1>0 DEF Join, Goto, Main, NoPath, memory, disk, sigs, Needed,
       Goroutines, Handler
<1>10. CASE Contains
  BY <1>10, <1>0 DEF Contains, NoPath, Goto, Main, memory, dir, disk, sigs, Needed,
       Goroutines, Handler
<1>11. CASE Parent
  BY <1>11, <1>0 DEF Parent, Goto, Main, memory, dir, disk, sigs, Needed,
       Goroutines, Handler
<1>12. CASE MakeParent
  BY <1>12, <1>0 DEF MakeParent, Goto, Main, memory, sigs, Needed, Goroutines,
       Handler
<1>13. CASE Open
  BY <1>13, <1>0 DEF Open, Goto, Main, memory, sigs, Needed, Goroutines, Handler
<1>14. CASE Write
  BY <1>14, <1>0 DEF Write, Goto, Main, memory, sigs, Needed, Goroutines, Handler
<1>15. CASE WriteFileFails
  BY <1>15, <1>0 DEF WriteFileFails, Goto, Main, memory, sigs, Needed, Goroutines,
       Handler
<1>16. CASE Start
  BY <1>16, <1>0 DEF Start, Goto, Main, memory, dir, disk, sigs, Needed, Goroutines,
       Handler
<1>17. CASE StartFails
  BY <1>17, <1>0 DEF StartFails, Goto, Main, memory, dir, disk, sigs, Needed,
       Goroutines, Handler
<1>18. CASE ChildExits
  BY <1>18, <1>0 DEF ChildExits, Goto, Main, memory, dir, disk, sigs, Needed,
       Goroutines, Handler
<1>19. CASE Stop
  BY <1>19, <1>0 DEF Stop, Goto, Main, memory, dir, disk, Needed, Goroutines,
       Handler
<1>20. CASE Zero
  BY <1>20, <1>0 DEF Zero, Goto, Main, dir, disk, sigs, Needed, Goroutines, Handler
<1>21. CASE Return
  BY <1>21, <1>0 DEF Return, Goto, Main, memory, dir, disk, sigs, Needed,
       Goroutines, Handler
<1>22. CASE TakeSignal
  BY <1>22, <1>0 DEF TakeSignal, Goto, Handler, memory, dir, disk, Needed, Main,
       Goroutines
<1>23. CASE Dismissed
  BY <1>23, <1>0 DEF Dismissed, Goto, Handler, memory, dir, disk, sigs, Needed,
       Main, Goroutines
<1>24. CASE Exit
  BY <1>24, <1>0 DEF Exit, Goto, Handler, memory, dir, disk, sigs, Needed, Main,
       Goroutines
<1>25. CASE Signal
  BY <1>25, <1>0 DEF Signal, Main, memory, dir, disk, Needed, Goroutines, Handler
<1>26. CASE Die
  BY <1>26, <1>0 DEF Die, memory, dir, disk, sigs, Needed, Main, Goroutines, Handler
<1>27. ASSUME NEW g \in Goroutines, Check(g) PROVE Needed'
  BY <1>27, <1>0 DEF Check, Goto, NoPath, Cleaned, Main, memory, dir, disk, sigs,
       Needed, Goroutines, Handler
<1>28. ASSUME NEW g \in Goroutines, Walk(g) PROVE Needed'
  BY <1>28, <1>0 DEF Walk, Goto, memory, sigs, Needed, Main, Goroutines, Handler
<1>29. ASSUME NEW g \in Goroutines, Unlink(g) PROVE Needed'
  BY <1>29, <1>0 DEF Unlink, Goto, memory, sigs, Needed, Main, Goroutines, Handler
<1>30. ASSUME NEW g \in Goroutines, Rmdir(g) PROVE Needed'
  BY <1>30, <1>0 DEF Rmdir, Goto, memory, sigs, Needed, Main, Goroutines, Handler
<1>31. ASSUME NEW g \in Goroutines, Clear(g) PROVE Needed'
  BY <1>31, <1>0 DEF Clear, Goto, Cleaned, Main, NoPath, memory, disk, sigs, Needed,
       Goroutines, Handler
<1>32. CASE UNCHANGED vars
  BY <1>32 DEF vars, memory, dir, disk, sigs, Needed, Goroutines, Main, Handler
<1> QED
  BY <1>1, <1>2, <1>3, <1>4, <1>5, <1>6, <1>7, <1>8, <1>9, <1>10, <1>11, <1>12,
       <1>13, <1>14, <1>15, <1>16, <1>17, <1>18, <1>19, <1>20, <1>21, <1>22, <1>23,
       <1>24, <1>25, <1>26, <1>27, <1>28, <1>29, <1>30, <1>31, <1>32 DEF Next, MainStep,
       HandlerStep, Cleanup, Goroutines

\* The handler acts on a signal alone, and main never goes back.
LEMMA HandledPreserved ==
  ASSUME TypeOK, Handled, [Next]_vars
  PROVE  Handled'
<1>0. /\ path \in {"ram", NoPath} /\ after \in {"stop", "zero"} /\ pc \in [Goroutines -> MainPCs \cup HandlerPCs]
  BY SecretsValid DEF TypeOK
<1>1. CASE Authorize
  BY <1>1, <1>0 DEF Authorize, Goto, Main, sigs, Handled, Before, Creating, Handler,
       Wiping, Staging
<1>2. CASE Refused
  BY <1>2, <1>0 DEF Refused, Goto, Main, sigs, Handled, Before, Creating, Handler,
       Wiping, Staging
<1>3. CASE Authorized
  BY <1>3, <1>0 DEF Authorized, Goto, Main, sigs, Handled, Before, Creating,
       Handler, Wiping, Staging
<1>4. CASE Fetch
  BY <1>4, <1>0 DEF Fetch, Goto, Main, sigs, Handled, Before, Creating, Handler,
       Wiping, Staging
<1>5. CASE Render
  BY <1>5, <1>0 DEF Render, Goto, Main, sigs, Handled, Before, Creating, Handler,
       Wiping, Staging
<1>6. CASE MakeDir
  BY <1>6, <1>0 DEF MakeDir, Goto, Main, sigs, Handled, Before, Creating, Handler,
       Wiping, Staging
<1>7. CASE FailsEarly
  BY <1>7, <1>0 DEF FailsEarly, Goto, Main, sigs, Handled, Before, Creating,
       Handler, Wiping, Staging
<1>8. CASE Notify
  BY <1>8, <1>0 DEF Notify, Main, Goroutines, Handler, Handled, Before, Creating,
       Wiping, Staging
<1>9. CASE Join
  BY <1>9, <1>0 DEF Join, Goto, Main, sigs, Handled, Before, Creating, Handler,
       Wiping, Staging
<1>10. CASE Contains
  BY <1>10, <1>0 DEF Contains, Goto, Main, sigs, Handled, Before, Creating, Handler,
       Wiping, Staging
<1>11. CASE Parent
  BY <1>11, <1>0 DEF Parent, Goto, Main, sigs, Handled, Before, Creating, Handler,
       Wiping, Staging
<1>12. CASE MakeParent
  BY <1>12, <1>0 DEF MakeParent, Goto, Main, sigs, Handled, Before, Creating,
       Handler, Wiping, Staging
<1>13. CASE Open
  BY <1>13, <1>0 DEF Open, Goto, Main, sigs, Handled, Before, Creating, Handler,
       Wiping, Staging
<1>14. CASE Write
  BY <1>14, <1>0 DEF Write, Goto, Main, sigs, Handled, Before, Creating, Handler,
       Wiping, Staging
<1>15. CASE WriteFileFails
  <2>1. pc[Main] \in {"contains", "make_parent", "open", "write"}
        /\ pc' = [pc EXCEPT ![Main] = "stop"] /\ UNCHANGED sigs
    BY <1>15 DEF WriteFileFails, Goto
  <2> QED
    BY <2>1, <1>0 DEF Goroutines, Main, Handler, sigs, Handled, Before, Creating, Wiping, Staging
<1>16. CASE Start
  BY <1>16, <1>0 DEF Start, Goto, Main, sigs, Handled, Before, Creating, Handler,
       Wiping, Staging
<1>17. CASE StartFails
  BY <1>17, <1>0 DEF StartFails, Goto, Main, sigs, Handled, Before, Creating,
       Handler, Wiping, Staging
<1>18. CASE ChildExits
  BY <1>18, <1>0 DEF ChildExits, Goto, Main, sigs, Handled, Before, Creating,
       Handler, Wiping, Staging
<1>19. CASE Stop
  BY <1>19, <1>0 DEF Stop, Goto, Main, Handled, Before, Creating, Handler, Wiping,
       Staging
<1>20. CASE Zero
  BY <1>20, <1>0 DEF Zero, Goto, Main, sigs, Handled, Before, Creating, Handler,
       Wiping, Staging
<1>21. CASE Return
  BY <1>21, <1>0 DEF Return, Goto, Main, sigs, Handled, Before, Creating, Handler,
       Wiping, Staging
<1>22. CASE TakeSignal
  BY <1>22, <1>0 DEF TakeSignal, Goto, Handler, Handled, Main, Before, Creating,
       Wiping, Staging
<1>23. CASE Dismissed
  BY <1>23, <1>0 DEF Dismissed, Goto, Handler, sigs, Handled, Main, Before,
       Creating, Wiping, Staging
<1>24. CASE Exit
  BY <1>24, <1>0 DEF Exit, Goto, Handler, sigs, Handled, Main, Before, Creating,
       Wiping, Staging
<1>25. CASE Signal
  BY <1>25, <1>0 DEF Signal, Main, Handled, Before, Creating, Handler, Wiping,
       Staging
<1>26. CASE Die
  BY <1>26, <1>0 DEF Die, sigs, Handled, Main, Before, Creating, Handler, Wiping,
       Staging
<1>27. ASSUME NEW g \in Goroutines, Check(g) PROVE Handled'
  BY <1>27, <1>0 DEF Check, Goto, Cleaned, Main, sigs, Handled, Before, Creating,
       Handler, Wiping, Staging
<1>28. ASSUME NEW g \in Goroutines, Walk(g) PROVE Handled'
  BY <1>28, <1>0 DEF Walk, Goto, sigs, Handled, Main, Before, Creating, Handler,
       Wiping, Staging
<1>29. ASSUME NEW g \in Goroutines, Unlink(g) PROVE Handled'
  BY <1>29, <1>0 DEF Unlink, Goto, sigs, Handled, Main, Before, Creating, Handler,
       Wiping, Staging
<1>30. ASSUME NEW g \in Goroutines, Rmdir(g) PROVE Handled'
  BY <1>30, <1>0 DEF Rmdir, Goto, sigs, Handled, Main, Before, Creating, Handler,
       Wiping, Staging
<1>31. ASSUME NEW g \in Goroutines, Clear(g) PROVE Handled'
  BY <1>31, <1>0 DEF Clear, Goto, Cleaned, Main, sigs, Handled, Before, Creating,
       Handler, Wiping, Staging
<1>32. CASE UNCHANGED vars
  BY <1>32 DEF vars, memory, dir, disk, sigs, Handled
<1> QED
  BY <1>1, <1>2, <1>3, <1>4, <1>5, <1>6, <1>7, <1>8, <1>9, <1>10, <1>11, <1>12,
       <1>13, <1>14, <1>15, <1>16, <1>17, <1>18, <1>19, <1>20, <1>21, <1>22, <1>23,
       <1>24, <1>25, <1>26, <1>27, <1>28, <1>29, <1>30, <1>31, <1>32 DEF Next, MainStep,
       HandlerStep, Cleanup, Goroutines

\* Creating the file, with or without a signal in between.
LEMMA StagedPreserved ==
  ASSUME TypeOK, Handled, Staged, Wiped, [Next]_vars
  PROVE  Staged'
<1>0. /\ path \in {"ram", NoPath} /\ after \in {"stop", "zero"} /\ pc \in [Goroutines -> MainPCs \cup HandlerPCs]
      /\ file \in [Places -> FileStates] /\ target \in Places
  BY SecretsValid DEF TypeOK
<1>1. CASE Authorize
  BY <1>1, <1>0 DEF Authorize, Goto, Main, dir, disk, sigs, Handled, Before,
       Creating, Handler, Wiping, Staging, Staged, Places, Wiped, NoPath, Goroutines
<1>2. CASE Refused
  BY <1>2, <1>0 DEF Refused, Goto, Main, memory, dir, disk, sigs, Handled, Before,
       Creating, Handler, Wiping, Staging, Staged, Places, Wiped, NoPath, Goroutines
<1>3. CASE Authorized
  BY <1>3, <1>0 DEF Authorized, Goto, Main, memory, dir, disk, sigs, Handled,
       Before, Creating, Handler, Wiping, Staging, Staged, Places, Wiped, NoPath,
       Goroutines
<1>4. CASE Fetch
  BY <1>4, <1>0 DEF Fetch, Goto, Main, dir, disk, sigs, Handled, Before, Creating,
       Handler, Wiping, Staging, Staged, Places, Wiped, NoPath, Goroutines
<1>5. CASE Render
  BY <1>5, <1>0 DEF Render, Goto, Main, dir, disk, sigs, Handled, Before, Creating,
       Handler, Wiping, Staging, Staged, Places, Wiped, NoPath, Goroutines
<1>6. CASE MakeDir
  BY <1>6, <1>0 DEF MakeDir, Goto, Main, memory, sigs, Handled, Before, Creating,
       Handler, Wiping, Staging, Staged, Places, Wiped, NoPath, Goroutines
<1>7. CASE FailsEarly
  BY <1>7, <1>0 DEF FailsEarly, Goto, Main, memory, dir, disk, sigs, Handled,
       Before, Creating, Handler, Wiping, Staging, Staged, Places, Wiped, NoPath,
       Goroutines
<1>8. CASE Notify
  BY <1>8, <1>0 DEF Notify, Main, Goroutines, Handler, memory, dir, disk, Handled,
       Before, Creating, Wiping, Staging, Staged, Places, Wiped, NoPath
<1>9. CASE Join
  BY <1>9, <1>0 DEF Join, Goto, Main, NoPath, memory, disk, sigs, Handled, Before,
       Creating, Handler, Wiping, Staging, Staged, Places, Wiped, Goroutines
<1>10. CASE Contains
  BY <1>10, <1>0 DEF Contains, NoPath, Goto, Main, memory, dir, disk, sigs, Handled,
       Before, Creating, Handler, Wiping, Staging, Staged, Places, Wiped, Goroutines
<1>11. CASE Parent
  BY <1>11, <1>0 DEF Parent, Goto, Main, memory, dir, disk, sigs, Handled, Before,
       Creating, Handler, Wiping, Staging, Staged, Places, Wiped, NoPath, Goroutines
<1>12. CASE MakeParent
  BY <1>12, <1>0 DEF MakeParent, Goto, Main, memory, sigs, Handled, Before,
       Creating, Handler, Wiping, Staging, Staged, Places, Wiped, NoPath, Goroutines
<1>13. CASE Open
  BY <1>13, <1>0 DEF Open, Goto, Main, memory, sigs, Handled, Before, Creating,
       Handler, Wiping, Staging, Staged, Places, Wiped, NoPath, Goroutines
<1>14. CASE Write
  BY <1>14, <1>0 DEF Write, Goto, Main, memory, sigs, Handled, Before, Creating,
       Handler, Wiping, Staging, Staged, Places, Wiped, NoPath, Goroutines
<1>15. CASE WriteFileFails
  BY <1>15, <1>0 DEF WriteFileFails, Goto, Main, memory, sigs, Handled, Before,
       Creating, Handler, Wiping, Staging, Staged, Places, Wiped, NoPath, Goroutines
<1>16. CASE Start
  BY <1>16, <1>0 DEF Start, Goto, Main, memory, dir, disk, sigs, Handled, Before,
       Creating, Handler, Wiping, Staging, Staged, Places, Wiped, NoPath, Goroutines
<1>17. CASE StartFails
  BY <1>17, <1>0 DEF StartFails, Goto, Main, memory, dir, disk, sigs, Handled,
       Before, Creating, Handler, Wiping, Staging, Staged, Places, Wiped, NoPath,
       Goroutines
<1>18. CASE ChildExits
  BY <1>18, <1>0 DEF ChildExits, Goto, Main, memory, dir, disk, sigs, Handled,
       Before, Creating, Handler, Wiping, Staging, Staged, Places, Wiped, NoPath,
       Goroutines
<1>19. CASE Stop
  BY <1>19, <1>0 DEF Stop, Goto, Main, memory, dir, disk, Handled, Before, Creating,
       Handler, Wiping, Staging, Staged, Places, Wiped, NoPath, Goroutines
<1>20. CASE Zero
  BY <1>20, <1>0 DEF Zero, Goto, Main, dir, disk, sigs, Handled, Before, Creating,
       Handler, Wiping, Staging, Staged, Places, Wiped, NoPath, Goroutines
<1>21. CASE Return
  BY <1>21, <1>0 DEF Return, Goto, Main, memory, dir, disk, sigs, Handled, Before,
       Creating, Handler, Wiping, Staging, Staged, Places, Wiped, NoPath, Goroutines
<1>22. CASE TakeSignal
  BY <1>22, <1>0 DEF TakeSignal, Goto, Handler, memory, dir, disk, Handled, Main,
       Before, Creating, Wiping, Staging, Staged, Places, Wiped, NoPath, Goroutines
<1>23. CASE Dismissed
  BY <1>23, <1>0 DEF Dismissed, Goto, Handler, memory, dir, disk, sigs, Handled,
       Main, Before, Creating, Wiping, Staging, Staged, Places, Wiped, NoPath, Goroutines
<1>24. CASE Exit
  BY <1>24, <1>0 DEF Exit, Goto, Handler, memory, dir, disk, sigs, Handled, Main,
       Before, Creating, Wiping, Staging, Staged, Places, Wiped, NoPath, Goroutines
<1>25. CASE Signal
  BY <1>25, <1>0 DEF Signal, Main, memory, dir, disk, Handled, Before, Creating,
       Handler, Wiping, Staging, Staged, Places, Wiped, NoPath, Goroutines
<1>26. CASE Die
  BY <1>26, <1>0 DEF Die, memory, dir, disk, sigs, Handled, Main, Before, Creating,
       Handler, Wiping, Staging, Staged, Places, Wiped, NoPath, Goroutines
<1>27. ASSUME NEW g \in Goroutines, Check(g) PROVE Staged'
  BY <1>27, <1>0 DEF Check, Goto, NoPath, Cleaned, Main, memory, dir, disk, sigs,
       Handled, Before, Creating, Handler, Wiping, Staging, Staged, Places, Wiped,
       Goroutines
<1>28. ASSUME NEW g \in Goroutines, Walk(g) PROVE Staged'
  BY <1>28, <1>0 DEF Walk, Goto, memory, sigs, Handled, Main, Before, Creating,
       Handler, Wiping, Staging, Staged, Places, Wiped, NoPath, Goroutines
<1>29. ASSUME NEW g \in Goroutines, Unlink(g) PROVE Staged'
  BY <1>29, <1>0 DEF Unlink, Goto, memory, sigs, Handled, Main, Before, Creating,
       Handler, Wiping, Staging, Staged, Places, Wiped, NoPath, Goroutines
<1>30. ASSUME NEW g \in Goroutines, Rmdir(g) PROVE Staged'
  BY <1>30, <1>0 DEF Rmdir, Goto, memory, sigs, Handled, Main, Before, Creating,
       Handler, Wiping, Staging, Staged, Places, Wiped, NoPath, Goroutines
<1>31. ASSUME NEW g \in Goroutines, Clear(g) PROVE Staged'
  BY <1>31, <1>0 DEF Clear, Goto, Cleaned, Main, NoPath, memory, disk, sigs,
       Handled, Before, Creating, Handler, Wiping, Staging, Staged, Places, Wiped,
       Goroutines
<1>32. CASE UNCHANGED vars
  BY <1>32 DEF vars, memory, dir, disk, sigs, Handled, Staged, Wiped
<1> QED
  BY <1>1, <1>2, <1>3, <1>4, <1>5, <1>6, <1>7, <1>8, <1>9, <1>10, <1>11, <1>12,
       <1>13, <1>14, <1>15, <1>16, <1>17, <1>18, <1>19, <1>20, <1>21, <1>22, <1>23,
       <1>24, <1>25, <1>26, <1>27, <1>28, <1>29, <1>30, <1>31, <1>32 DEF Next, MainStep,
       HandlerStep, Cleanup, Goroutines

\* Both goroutines may wipe at once; neither leaves anything.
LEMMA WipedPreserved ==
  ASSUME TypeOK, Handled, Staged, Wiped, [Next]_vars
  PROVE  Wiped'
<1>0. /\ path \in {"ram", NoPath} /\ after \in {"stop", "zero"} /\ pc \in [Goroutines -> MainPCs \cup HandlerPCs]
      /\ file \in [Places -> FileStates] /\ target \in Places
  BY SecretsValid DEF TypeOK
<1>1. CASE Authorize
  BY <1>1, <1>0 DEF Authorize, Goto, Main, dir, disk, sigs, Handled, Before,
       Creating, Handler, Wiping, Staging, Staged, Places, Wiped, NoPath, Goroutines
<1>2. CASE Refused
  BY <1>2, <1>0 DEF Refused, Goto, Main, memory, dir, disk, sigs, Handled, Before,
       Creating, Handler, Wiping, Staging, Staged, Places, Wiped, NoPath, Goroutines
<1>3. CASE Authorized
  BY <1>3, <1>0 DEF Authorized, Goto, Main, memory, dir, disk, sigs, Handled,
       Before, Creating, Handler, Wiping, Staging, Staged, Places, Wiped, NoPath,
       Goroutines
<1>4. CASE Fetch
  BY <1>4, <1>0 DEF Fetch, Goto, Main, dir, disk, sigs, Handled, Before, Creating,
       Handler, Wiping, Staging, Staged, Places, Wiped, NoPath, Goroutines
<1>5. CASE Render
  BY <1>5, <1>0 DEF Render, Goto, Main, dir, disk, sigs, Handled, Before, Creating,
       Handler, Wiping, Staging, Staged, Places, Wiped, NoPath, Goroutines
<1>6. CASE MakeDir
  BY <1>6, <1>0 DEF MakeDir, Goto, Main, memory, sigs, Handled, Before, Creating,
       Handler, Wiping, Staging, Staged, Places, Wiped, NoPath, Goroutines
<1>7. CASE FailsEarly
  BY <1>7, <1>0 DEF FailsEarly, Goto, Main, memory, dir, disk, sigs, Handled,
       Before, Creating, Handler, Wiping, Staging, Staged, Places, Wiped, NoPath,
       Goroutines
<1>8. CASE Notify
  BY <1>8, <1>0 DEF Notify, Main, Goroutines, Handler, memory, dir, disk, Handled,
       Before, Creating, Wiping, Staging, Staged, Places, Wiped, NoPath
<1>9. CASE Join
  BY <1>9, <1>0 DEF Join, Goto, Main, NoPath, memory, disk, sigs, Handled, Before,
       Creating, Handler, Wiping, Staging, Staged, Places, Wiped, Goroutines
<1>10. CASE Contains
  BY <1>10, <1>0 DEF Contains, NoPath, Goto, Main, memory, dir, disk, sigs, Handled,
       Before, Creating, Handler, Wiping, Staging, Staged, Places, Wiped, Goroutines
<1>11. CASE Parent
  BY <1>11, <1>0 DEF Parent, Goto, Main, memory, dir, disk, sigs, Handled, Before,
       Creating, Handler, Wiping, Staging, Staged, Places, Wiped, NoPath, Goroutines
<1>12. CASE MakeParent
  BY <1>12, <1>0 DEF MakeParent, Goto, Main, memory, sigs, Handled, Before,
       Creating, Handler, Wiping, Staging, Staged, Places, Wiped, NoPath, Goroutines
<1>13. CASE Open
  BY <1>13, <1>0 DEF Open, Goto, Main, memory, sigs, Handled, Before, Creating,
       Handler, Wiping, Staging, Staged, Places, Wiped, NoPath, Goroutines
<1>14. CASE Write
  BY <1>14, <1>0 DEF Write, Goto, Main, memory, sigs, Handled, Before, Creating,
       Handler, Wiping, Staging, Staged, Places, Wiped, NoPath, Goroutines
<1>15. CASE WriteFileFails
  BY <1>15, <1>0 DEF WriteFileFails, Goto, Main, memory, sigs, Handled, Before,
       Creating, Handler, Wiping, Staging, Staged, Places, Wiped, NoPath, Goroutines
<1>16. CASE Start
  BY <1>16, <1>0 DEF Start, Goto, Main, memory, dir, disk, sigs, Handled, Before,
       Creating, Handler, Wiping, Staging, Staged, Places, Wiped, NoPath, Goroutines
<1>17. CASE StartFails
  BY <1>17, <1>0 DEF StartFails, Goto, Main, memory, dir, disk, sigs, Handled,
       Before, Creating, Handler, Wiping, Staging, Staged, Places, Wiped, NoPath,
       Goroutines
<1>18. CASE ChildExits
  BY <1>18, <1>0 DEF ChildExits, Goto, Main, memory, dir, disk, sigs, Handled,
       Before, Creating, Handler, Wiping, Staging, Staged, Places, Wiped, NoPath,
       Goroutines
<1>19. CASE Stop
  BY <1>19, <1>0 DEF Stop, Goto, Main, memory, dir, disk, Handled, Before, Creating,
       Handler, Wiping, Staging, Staged, Places, Wiped, NoPath, Goroutines
<1>20. CASE Zero
  BY <1>20, <1>0 DEF Zero, Goto, Main, dir, disk, sigs, Handled, Before, Creating,
       Handler, Wiping, Staging, Staged, Places, Wiped, NoPath, Goroutines
<1>21. CASE Return
  BY <1>21, <1>0 DEF Return, Goto, Main, memory, dir, disk, sigs, Handled, Before,
       Creating, Handler, Wiping, Staging, Staged, Places, Wiped, NoPath, Goroutines
<1>22. CASE TakeSignal
  BY <1>22, <1>0 DEF TakeSignal, Goto, Handler, memory, dir, disk, Handled, Main,
       Before, Creating, Wiping, Staging, Staged, Places, Wiped, NoPath, Goroutines
<1>23. CASE Dismissed
  BY <1>23, <1>0 DEF Dismissed, Goto, Handler, memory, dir, disk, sigs, Handled,
       Main, Before, Creating, Wiping, Staging, Staged, Places, Wiped, NoPath, Goroutines
<1>24. CASE Exit
  BY <1>24, <1>0 DEF Exit, Goto, Handler, memory, dir, disk, sigs, Handled, Main,
       Before, Creating, Wiping, Staging, Staged, Places, Wiped, NoPath, Goroutines
<1>25. CASE Signal
  BY <1>25, <1>0 DEF Signal, Main, memory, dir, disk, Handled, Before, Creating,
       Handler, Wiping, Staging, Staged, Places, Wiped, NoPath, Goroutines
<1>26. CASE Die
  BY <1>26, <1>0 DEF Die, memory, dir, disk, sigs, Handled, Main, Before, Creating,
       Handler, Wiping, Staging, Staged, Places, Wiped, NoPath, Goroutines
<1>27. ASSUME NEW g \in Goroutines, Check(g) PROVE Wiped'
  BY <1>27, <1>0 DEF Check, Goto, NoPath, Cleaned, Main, memory, dir, disk, sigs,
       Handled, Before, Creating, Handler, Wiping, Staging, Staged, Places, Wiped,
       Goroutines
<1>28. ASSUME NEW g \in Goroutines, Walk(g) PROVE Wiped'
  BY <1>28, <1>0 DEF Walk, Goto, memory, sigs, Handled, Main, Before, Creating,
       Handler, Wiping, Staging, Staged, Places, Wiped, NoPath, Goroutines
<1>29. ASSUME NEW g \in Goroutines, Unlink(g) PROVE Wiped'
  BY <1>29, <1>0 DEF Unlink, Goto, memory, sigs, Handled, Main, Before, Creating,
       Handler, Wiping, Staging, Staged, Places, Wiped, NoPath, Goroutines
<1>30. ASSUME NEW g \in Goroutines, Rmdir(g) PROVE Wiped'
  BY <1>30, <1>0 DEF Rmdir, Goto, memory, sigs, Handled, Main, Before, Creating,
       Handler, Wiping, Staging, Staged, Places, Wiped, NoPath, Goroutines
<1>31. ASSUME NEW g \in Goroutines, Clear(g) PROVE Wiped'
  BY <1>31, <1>0 DEF Clear, Goto, Cleaned, Main, NoPath, memory, disk, sigs,
       Handled, Before, Creating, Handler, Wiping, Staging, Staged, Places, Wiped,
       Goroutines
<1>32. CASE UNCHANGED vars
  BY <1>32 DEF vars, memory, dir, disk, sigs, Handled, Staged, Wiped
<1> QED
  BY <1>1, <1>2, <1>3, <1>4, <1>5, <1>6, <1>7, <1>8, <1>9, <1>10, <1>11, <1>12,
       <1>13, <1>14, <1>15, <1>16, <1>17, <1>18, <1>19, <1>20, <1>21, <1>22, <1>23,
       <1>24, <1>25, <1>26, <1>27, <1>28, <1>29, <1>30, <1>31, <1>32 DEF Next, MainStep,
       HandlerStep, Cleanup, Goroutines

\* The child starts on a whole file.
LEMMA SeesPreserved ==
  ASSUME TypeOK, Handled, Staged, ChildSeesWhole, [Next]_vars
  PROVE  ChildSeesWhole'
<1>0. /\ path \in {"ram", NoPath} /\ after \in {"stop", "zero"} /\ pc \in [Goroutines -> MainPCs \cup HandlerPCs]
      /\ file \in [Places -> FileStates] /\ target \in Places
  BY SecretsValid DEF TypeOK
<1>1. CASE Authorize
  BY <1>1, <1>0 DEF Authorize, Goto, Main, dir, disk, sigs, Handled, Before,
       Creating, Handler, Wiping, Staging, Staged, Places, ChildSeesWhole
<1>2. CASE Refused
  BY <1>2, <1>0 DEF Refused, Goto, Main, memory, dir, disk, sigs, Handled, Before,
       Creating, Handler, Wiping, Staging, Staged, Places, ChildSeesWhole
<1>3. CASE Authorized
  BY <1>3, <1>0 DEF Authorized, Goto, Main, memory, dir, disk, sigs, Handled,
       Before, Creating, Handler, Wiping, Staging, Staged, Places, ChildSeesWhole
<1>4. CASE Fetch
  BY <1>4, <1>0 DEF Fetch, Goto, Main, dir, disk, sigs, Handled, Before, Creating,
       Handler, Wiping, Staging, Staged, Places, ChildSeesWhole
<1>5. CASE Render
  BY <1>5, <1>0 DEF Render, Goto, Main, dir, disk, sigs, Handled, Before, Creating,
       Handler, Wiping, Staging, Staged, Places, ChildSeesWhole
<1>6. CASE MakeDir
  BY <1>6, <1>0 DEF MakeDir, Goto, Main, memory, sigs, Handled, Before, Creating,
       Handler, Wiping, Staging, Staged, Places, ChildSeesWhole
<1>7. CASE FailsEarly
  BY <1>7, <1>0 DEF FailsEarly, Goto, Main, memory, dir, disk, sigs, Handled,
       Before, Creating, Handler, Wiping, Staging, Staged, Places, ChildSeesWhole
<1>8. CASE Notify
  BY <1>8, <1>0 DEF Notify, Main, Goroutines, Handler, memory, dir, disk, Handled,
       Before, Creating, Wiping, Staging, Staged, Places, ChildSeesWhole
<1>9. CASE Join
  BY <1>9, <1>0 DEF Join, Goto, Main, NoPath, memory, disk, sigs, Handled, Before,
       Creating, Handler, Wiping, Staging, Staged, Places, ChildSeesWhole
<1>10. CASE Contains
  BY <1>10, <1>0 DEF Contains, NoPath, Goto, Main, memory, dir, disk, sigs, Handled,
       Before, Creating, Handler, Wiping, Staging, Staged, Places, ChildSeesWhole
<1>11. CASE Parent
  BY <1>11, <1>0 DEF Parent, Goto, Main, memory, dir, disk, sigs, Handled, Before,
       Creating, Handler, Wiping, Staging, Staged, Places, ChildSeesWhole
<1>12. CASE MakeParent
  BY <1>12, <1>0 DEF MakeParent, Goto, Main, memory, sigs, Handled, Before,
       Creating, Handler, Wiping, Staging, Staged, Places, ChildSeesWhole
<1>13. CASE Open
  BY <1>13, <1>0 DEF Open, Goto, Main, memory, sigs, Handled, Before, Creating,
       Handler, Wiping, Staging, Staged, Places, ChildSeesWhole
<1>14. CASE Write
  BY <1>14, <1>0 DEF Write, Goto, Main, memory, sigs, Handled, Before, Creating,
       Handler, Wiping, Staging, Staged, Places, ChildSeesWhole
<1>15. CASE WriteFileFails
  BY <1>15, <1>0 DEF WriteFileFails, Goto, Main, memory, sigs, Handled, Before,
       Creating, Handler, Wiping, Staging, Staged, Places, ChildSeesWhole
<1>16. CASE Start
  BY <1>16, <1>0 DEF Start, Goto, Main, memory, dir, disk, sigs, Handled, Before,
       Creating, Handler, Wiping, Staging, Staged, Places, ChildSeesWhole
<1>17. CASE StartFails
  BY <1>17, <1>0 DEF StartFails, Goto, Main, memory, dir, disk, sigs, Handled,
       Before, Creating, Handler, Wiping, Staging, Staged, Places, ChildSeesWhole
<1>18. CASE ChildExits
  BY <1>18, <1>0 DEF ChildExits, Goto, Main, memory, dir, disk, sigs, Handled,
       Before, Creating, Handler, Wiping, Staging, Staged, Places, ChildSeesWhole
<1>19. CASE Stop
  BY <1>19, <1>0 DEF Stop, Goto, Main, memory, dir, disk, Handled, Before, Creating,
       Handler, Wiping, Staging, Staged, Places, ChildSeesWhole
<1>20. CASE Zero
  BY <1>20, <1>0 DEF Zero, Goto, Main, dir, disk, sigs, Handled, Before, Creating,
       Handler, Wiping, Staging, Staged, Places, ChildSeesWhole
<1>21. CASE Return
  BY <1>21, <1>0 DEF Return, Goto, Main, memory, dir, disk, sigs, Handled, Before,
       Creating, Handler, Wiping, Staging, Staged, Places, ChildSeesWhole
<1>22. CASE TakeSignal
  BY <1>22, <1>0 DEF TakeSignal, Goto, Handler, memory, dir, disk, Handled, Main,
       Before, Creating, Wiping, Staging, Staged, Places, ChildSeesWhole
<1>23. CASE Dismissed
  BY <1>23, <1>0 DEF Dismissed, Goto, Handler, memory, dir, disk, sigs, Handled,
       Main, Before, Creating, Wiping, Staging, Staged, Places, ChildSeesWhole
<1>24. CASE Exit
  BY <1>24, <1>0 DEF Exit, Goto, Handler, memory, dir, disk, sigs, Handled, Main,
       Before, Creating, Wiping, Staging, Staged, Places, ChildSeesWhole
<1>25. CASE Signal
  BY <1>25, <1>0 DEF Signal, Main, memory, dir, disk, Handled, Before, Creating,
       Handler, Wiping, Staging, Staged, Places, ChildSeesWhole
<1>26. CASE Die
  BY <1>26, <1>0 DEF Die, memory, dir, disk, sigs, Handled, Main, Before, Creating,
       Handler, Wiping, Staging, Staged, Places, ChildSeesWhole
<1>27. ASSUME NEW g \in Goroutines, Check(g) PROVE ChildSeesWhole'
  BY <1>27, <1>0 DEF Check, Goto, NoPath, Cleaned, Main, memory, dir, disk, sigs,
       Handled, Before, Creating, Handler, Wiping, Staging, Staged, Places,
       ChildSeesWhole
<1>28. ASSUME NEW g \in Goroutines, Walk(g) PROVE ChildSeesWhole'
  BY <1>28, <1>0 DEF Walk, Goto, memory, sigs, Handled, Main, Before, Creating,
       Handler, Wiping, Staging, Staged, Places, ChildSeesWhole
<1>29. ASSUME NEW g \in Goroutines, Unlink(g) PROVE ChildSeesWhole'
  BY <1>29, <1>0 DEF Unlink, Goto, memory, sigs, Handled, Main, Before, Creating,
       Handler, Wiping, Staging, Staged, Places, ChildSeesWhole
<1>30. ASSUME NEW g \in Goroutines, Rmdir(g) PROVE ChildSeesWhole'
  BY <1>30, <1>0 DEF Rmdir, Goto, memory, sigs, Handled, Main, Before, Creating,
       Handler, Wiping, Staging, Staged, Places, ChildSeesWhole
<1>31. ASSUME NEW g \in Goroutines, Clear(g) PROVE ChildSeesWhole'
  BY <1>31, <1>0 DEF Clear, Goto, Cleaned, Main, NoPath, memory, disk, sigs,
       Handled, Before, Creating, Handler, Wiping, Staging, Staged, Places,
       ChildSeesWhole
<1>32. CASE UNCHANGED vars
  BY <1>32 DEF vars, memory, dir, disk, sigs, Handled, Staged, ChildSeesWhole
<1> QED
  BY <1>1, <1>2, <1>3, <1>4, <1>5, <1>6, <1>7, <1>8, <1>9, <1>10, <1>11, <1>12,
       <1>13, <1>14, <1>15, <1>16, <1>17, <1>18, <1>19, <1>20, <1>21, <1>22, <1>23,
       <1>24, <1>25, <1>26, <1>27, <1>28, <1>29, <1>30, <1>31, <1>32 DEF Next, MainStep,
       HandlerStep, Cleanup, Goroutines

(***************************************************************************)
(* The inductive invariant.                                                *)
(***************************************************************************)

\* runExec starts with nothing authorized, fetched or staged.
LEMMA InitInductive == Init => Inductive
<1> SUFFICES ASSUME Init PROVE Inductive
  OBVIOUS
<1>1. TypeOK
  <2>1. /\ authorized \in 0 .. NSecrets /\ held \in 0 .. NSecrets
    BY SecretsValid DEF Init
  <2>2. file \in [Places -> FileStates] /\ target \in Places
    BY DEF Init, Places, FileStates
  <2>3. /\ pc \in [Goroutines -> MainPCs \cup HandlerPCs]
        /\ pc[Main] \in MainPCs /\ pc[Handler] \in HandlerPCs
    BY DEF Init, Goroutines, Main, Handler, MainPCs, HandlerPCs
  <2> QED
    BY <2>1, <2>2, <2>3 DEF Init, TypeOK
<1>2. Needed /\ Handled
  BY DEF Init, Needed, Handled, Goroutines, Main, Handler, Before, Creating, Staging, Wiping
<1>3. Staged /\ Wiped
  BY DEF Init, Staged, Wiped, Goroutines, Main, Handler, Before, Creating, Places
<1>4. ChildSeesWhole
  BY DEF Init, ChildSeesWhole
<1> QED
  BY <1>1, <1>2, <1>3, <1>4 DEF Inductive

\* In every state either goroutine can be interrupted in, the whole of
\* Inductive is true (main.go:540-723, ephemeral.go).
THEOREM InductiveHolds == Spec => []Inductive
<1>1. Inductive /\ [Next]_vars => Inductive'
  BY TypePreserved, NeededPreserved, HandledPreserved, StagedPreserved, WipedPreserved,
     SeesPreserved DEF Inductive
<1> QED
  BY InitInductive, <1>1, PTL DEF Spec

\* Every variable keeps its type: no more secrets authorized or held than the
\* profile names.
THEOREM Typed == Spec => []TypeOK
<1>1. Inductive => TypeOK
  BY DEF Inductive
<1> QED
  BY InductiveHolds, <1>1, PTL

\* A refusal leaves nothing fetched, and no return of runExec leaves a value in
\* memory (main.go:589-594, 614-618, 631).
THEOREM NothingHeldTooLong == Spec => []HeldOnlyWhileNeeded
<1>1. Inductive => HeldOnlyWhileNeeded
  <2> SUFFICES ASSUME Inductive, held > 0 \/ rendered
               PROVE  authorized = NSecrets /\ ended # "returned"
    BY DEF HeldOnlyWhileNeeded
  <2>1. held # 0 \/ rendered
    BY SecretsValid DEF Inductive, TypeOK
  <2> QED
    BY <2>1 DEF Inductive, Needed
<1> QED
  BY InductiveHolds, <1>1, PTL

\* However runExec ends but by a crash, and however main and the handler
\* interleave, no credential file is left, unless a signal came while it was
\* being created (main.go:633-640, 664, 707-723).
THEOREM NothingLeftBehind == Spec => []WipedAtExit
<1>1. Inductive => WipedAtExit
  <2> SUFFICES ASSUME Inductive, ended \in {"returned", "signalled"}, sigAt \notin Creating
               PROVE  \A p \in Places : file[p] = "none"
    BY DEF WipedAtExit, Leftover
  <2>1. pc[Main] = "gone" \/ ended = "signalled"
    BY DEF Inductive, Needed
  <2>2. file["ram"] = "none" /\ file["cwd"] = "none"
    BY <2>1 DEF Inductive, Wiped, Staged
  <2> QED
    BY <2>2 DEF Places
<1> QED
  BY InductiveHolds, <1>1, PTL

\* The child opens a whole credential, or none when a signal is taking
\* everything down (main.go:642-645).
THEOREM ChildNeverSeesPart == Spec => []ChildSeesWhole
<1>1. Inductive => ChildSeesWhole
  BY DEF Inductive
<1> QED
  BY InductiveHolds, <1>1, PTL

\* The bytes are overwritten before the name goes: no step takes away a file
\* that is still full, unless a signal caught it being written
\* (ephemeral.go:69-72).
THEOREM ZeroedBeforeUnlinked == Spec => ZeroedFirst
<1>1. ASSUME Inductive, [Next]_vars, file["ram"] = "full", file'["ram"] = "none"
      PROVE  sigAt \in Staging
  <2>0. file \in [Places -> FileStates] /\ target \in Places
    BY <1>1 DEF Inductive, TypeOK
  <2>1. CASE Authorize \/ Refused \/ Authorized \/ Fetch \/ Render \/ MakeDir \/ FailsEarly
    BY <2>1, <1>1 DEF Authorize, Main, dir, disk, sigs, Refused, memory, Authorized,
         Fetch, Render, MakeDir, FailsEarly
  <2>2. CASE Notify \/ Join \/ Contains \/ Parent \/ MakeParent
    BY <2>2, <1>1 DEF Notify, Main, Goroutines, Handler, memory, dir, disk, Join,
         NoPath, sigs, Contains, Parent, MakeParent
  <2>3. CASE Start \/ StartFails \/ ChildExits \/ Stop \/ Zero \/ Return
    BY <2>3, <1>1 DEF Start, Main, memory, dir, disk, sigs, StartFails, ChildExits,
         Stop, Zero, Return
  <2>4. CASE TakeSignal \/ Dismissed \/ Exit \/ Signal \/ Die \/ UNCHANGED vars
    BY <2>4, <1>1 DEF TakeSignal, Handler, memory, dir, disk, Dismissed, sigs, Exit,
         Signal, Main, Die, vars
  <2>5. CASE Open
    BY <2>5, <2>0, <1>1 DEF Open, Main, memory, sigs, Places
  <2>6. CASE Write
    BY <2>6, <2>0, <1>1 DEF Write, Main, memory, sigs, Places
  <2>7. CASE WriteFileFails
    BY <2>7, <2>0, <1>1 DEF WriteFileFails, Main, memory, sigs, Places
  <2>8. ASSUME NEW g \in Goroutines, Check(g) PROVE sigAt \in Staging
    BY <2>8, <2>0, <1>1 DEF Check, NoPath, Cleaned, Main, memory, dir, disk, sigs,
         Places
  <2>9. ASSUME NEW g \in Goroutines, Walk(g) PROVE sigAt \in Staging
    BY <2>9, <2>0, <1>1 DEF Walk, memory, sigs, Places
  <2>10. ASSUME NEW g \in Goroutines, Rmdir(g) PROVE sigAt \in Staging
    BY <2>10, <2>0, <1>1 DEF Rmdir, memory, sigs, Places
  <2>11. ASSUME NEW g \in Goroutines, Clear(g) PROVE sigAt \in Staging
    BY <2>11, <2>0, <1>1 DEF Clear, Cleaned, Main, NoPath, memory, disk, sigs,
         Places
  <2>12. ASSUME NEW g \in Goroutines, Unlink(g) PROVE sigAt \in Staging
    BY <2>12, <1>1 DEF Unlink, Goto, Inductive, Wiped, Staging
  <2> QED
    BY <1>1, <2>1, <2>2, <2>3, <2>4, <2>5, <2>6, <2>7, <2>8, <2>9, <2>10, <2>11,
         <2>12 DEF Next, MainStep, HandlerStep, Cleanup, Goroutines
<1>2. Inductive /\ [Next]_vars
      => [file["ram"] = "full" /\ file'["ram"] = "none" => sigAt \in Staging]_vars
  BY <1>1
<1> QED
  BY InductiveHolds, <1>2, PTL DEF Spec, ZeroedFirst
=============================================================================
