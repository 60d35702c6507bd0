------------------------- MODULE FsPropFakerProofs -------------------------
(***************************************************************************)
(* The safety of the life of fakers, for any number of them, overlapping   *)
(* or not, whatever fails, and whoever unmounts.                           *)
(*                                                                         *)
(* The last part is about SIGHUP, for fakers that do not overlap: libfuse's*)
(* handler and its one global session are those of the faker that is       *)
(* mounted (HandlerFits), so that the signal neither kills nor gets lost.  *)
(***************************************************************************)
EXTENDS FsPropFaker, TLAPS

LEMMA TypeStep == TypeOK /\ Next => TypeOK'
<1> SUFFICES ASSUME TypeOK, Next PROVE TypeOK'
  OBVIOUS
<1> USE DEF TypeOK, AppPcs, FusePcs, CbPcs, loopVars
<1>1. ASSUME NEW f \in Fakers, InitFails(f) PROVE TypeOK'
  BY <1>1 DEF InitFails, AppMoves
<1>2. ASSUME NEW f \in Fakers, MkdtempFails(f) \/ ThreadFails(f) PROVE TypeOK'
  BY <1>2 DEF MkdtempFails, ThreadFails
<1>3. ASSUME NEW f \in Fakers, InitSucceeds(f) PROVE TypeOK'
  BY <1>3 DEF InitSucceeds, AppMoves
<1>4. ASSUME NEW f \in Fakers, CreateInstanceFails(f) PROVE TypeOK'
  BY <1>4 DEF CreateInstanceFails, AppMoves
<1>5. ASSUME NEW f \in Fakers, StartsThread(f) PROVE TypeOK'
  BY <1>5 DEF StartsThread, AppMoves
<1>6. ASSUME NEW f \in Fakers, WaitLocks(f) PROVE TypeOK'
  BY <1>6 DEF WaitLocks, AppMoves, Locks
<1>7. ASSUME NEW f \in Fakers, WaitEnds(f) PROVE TypeOK'
  BY <1>7 DEF WaitEnds, AppMoves, Unlocks
<1>8. ASSUME NEW f \in Fakers, WaitGoesOn(f) PROVE TypeOK'
  BY <1>8 DEF WaitGoesOn, AppMoves
<1>9. ASSUME NEW f \in Fakers, WaitEnqueues(f) PROVE TypeOK'
  BY <1>9 DEF WaitEnqueues, AppMoves, Unlocks
<1>10. ASSUME NEW f \in Fakers, CreateReturnsObject(f) PROVE TypeOK'
  BY <1>10 DEF CreateReturnsObject, AppMoves
<1>11. ASSUME NEW f \in Fakers, WakesSpuriously(f) PROVE TypeOK'
  BY <1>11 DEF WakesSpuriously, AppMoves
<1>12. ASSUME NEW f \in Fakers, AppCallsUnmount(f) PROVE TypeOK'
  BY <1>12 DEF AppCallsUnmount, Unmounts
<1>13. ASSUME NEW f \in Fakers, DestructorUnmounts(f) PROVE TypeOK'
  BY <1>13 DEF DestructorUnmounts, AppMoves, Unmounts
<1>14. ASSUME NEW f \in Fakers, DestructorJoins(f) PROVE TypeOK'
  BY <1>14 DEF DestructorJoins, AppMoves
<1>15. ASSUME NEW f \in Fakers, MountFails(f) PROVE TypeOK'
  BY <1>15 DEF MountFails, FuseMoves
<1>16. ASSUME NEW f \in Fakers, MountSucceeds(f) PROVE TypeOK'
  BY <1>16 DEF MountSucceeds, FuseMoves
<1>17. ASSUME NEW f \in Fakers, SighupKills(f) PROVE TypeOK'
  BY <1>17 DEF SighupKills
<1>18. ASSUME NEW f \in Fakers, SighupHandled(f) PROVE TypeOK'
  BY <1>18 DEF SighupHandled
<1>19. ASSUME NEW f \in Fakers, WorkerSeesExit(f) PROVE TypeOK'
  BY <1>19 DEF WorkerSeesExit
<1>20. ASSUME NEW f \in Fakers, OtherUnmounts(f) PROVE TypeOK'
  BY <1>20 DEF OtherUnmounts
<1>21. ASSUME NEW f \in Fakers, LoopEnds(f) PROVE TypeOK'
  BY <1>21 DEF LoopEnds, FuseMoves
<1>22. ASSUME NEW f \in Fakers, RemovesHandler(f) PROVE TypeOK'
  BY <1>22 DEF RemovesHandler, FuseMoves
<1>23. ASSUME NEW f \in Fakers, ThreadEnds(f) PROVE TypeOK'
  BY <1>23 DEF ThreadEnds, FuseMoves
<1>24. ASSUME NEW f \in Fakers, InitHandlerCalls(f) PROVE TypeOK'
  BY <1>24 DEF InitHandlerCalls, CbMoves
<1>25. ASSUME NEW f \in Fakers, CallbackLocks(f) PROVE TypeOK'
  BY <1>25 DEF CallbackLocks, CbMoves, Locks
<1>26. ASSUME NEW f \in Fakers, CallbackSets(f) PROVE TypeOK'
  BY <1>26 DEF CallbackSets, CbMoves, Unlocks
<1>27. ASSUME NEW f \in Fakers, CallbackNotifies(f) PROVE TypeOK'
  BY <1>27 DEF CallbackNotifies, CbMoves
<1>28. QED
  BY <1>1, <1>2, <1>3, <1>4, <1>5, <1>6, <1>7, <1>8, <1>9, <1>10, <1>11, <1>12, <1>13, <1>14, <1>15, <1>16, <1>17, <1>18, <1>19, <1>20, <1>21, <1>22, <1>23, <1>24, <1>25, <1>26, <1>27
     DEF Next, CreateSteps, FuseSteps, CallbackSteps

LEMMA MutexStep == TypeOK /\ MutexInv /\ Next => MutexInv'
<1> SUFFICES ASSUME TypeOK, MutexInv, Next PROVE MutexInv'
  OBVIOUS
<1> USE DEF TypeOK, MutexInv, loopVars
<1>1. ASSUME NEW f \in Fakers, InitFails(f) PROVE MutexInv'
  BY <1>1 DEF InitFails, AppMoves
<1>2. ASSUME NEW f \in Fakers, MkdtempFails(f) \/ ThreadFails(f) PROVE MutexInv'
  BY <1>2 DEF MkdtempFails, ThreadFails
<1>3. ASSUME NEW f \in Fakers, InitSucceeds(f) PROVE MutexInv'
  BY <1>3 DEF InitSucceeds, AppMoves
<1>4. ASSUME NEW f \in Fakers, CreateInstanceFails(f) PROVE MutexInv'
  BY <1>4 DEF CreateInstanceFails, AppMoves
<1>5. ASSUME NEW f \in Fakers, StartsThread(f) PROVE MutexInv'
  BY <1>5 DEF StartsThread, AppMoves
<1>6. ASSUME NEW f \in Fakers, WaitLocks(f) PROVE MutexInv'
  BY <1>6 DEF WaitLocks, AppMoves, Locks
<1>7. ASSUME NEW f \in Fakers, WaitEnds(f) PROVE MutexInv'
  BY <1>7 DEF WaitEnds, AppMoves, Unlocks
<1>8. ASSUME NEW f \in Fakers, WaitGoesOn(f) PROVE MutexInv'
  BY <1>8 DEF WaitGoesOn, AppMoves
<1>9. ASSUME NEW f \in Fakers, WaitEnqueues(f) PROVE MutexInv'
  BY <1>9 DEF WaitEnqueues, AppMoves, Unlocks
<1>10. ASSUME NEW f \in Fakers, CreateReturnsObject(f) PROVE MutexInv'
  BY <1>10 DEF CreateReturnsObject, AppMoves
<1>11. ASSUME NEW f \in Fakers, WakesSpuriously(f) PROVE MutexInv'
  BY <1>11 DEF WakesSpuriously, AppMoves
<1>12. ASSUME NEW f \in Fakers, AppCallsUnmount(f) PROVE MutexInv'
  BY <1>12 DEF AppCallsUnmount, Unmounts
<1>13. ASSUME NEW f \in Fakers, DestructorUnmounts(f) PROVE MutexInv'
  BY <1>13 DEF DestructorUnmounts, AppMoves, Unmounts
<1>14. ASSUME NEW f \in Fakers, DestructorJoins(f) PROVE MutexInv'
  BY <1>14 DEF DestructorJoins, AppMoves
<1>15. ASSUME NEW f \in Fakers, MountFails(f) PROVE MutexInv'
  BY <1>15 DEF MountFails, FuseMoves
<1>16. ASSUME NEW f \in Fakers, MountSucceeds(f) PROVE MutexInv'
  BY <1>16 DEF MountSucceeds, FuseMoves
<1>17. ASSUME NEW f \in Fakers, SighupKills(f) PROVE MutexInv'
  BY <1>17 DEF SighupKills
<1>18. ASSUME NEW f \in Fakers, SighupHandled(f) PROVE MutexInv'
  BY <1>18 DEF SighupHandled
<1>19. ASSUME NEW f \in Fakers, WorkerSeesExit(f) PROVE MutexInv'
  BY <1>19 DEF WorkerSeesExit
<1>20. ASSUME NEW f \in Fakers, OtherUnmounts(f) PROVE MutexInv'
  BY <1>20 DEF OtherUnmounts
<1>21. ASSUME NEW f \in Fakers, LoopEnds(f) PROVE MutexInv'
  BY <1>21 DEF LoopEnds, FuseMoves
<1>22. ASSUME NEW f \in Fakers, RemovesHandler(f) PROVE MutexInv'
  BY <1>22 DEF RemovesHandler, FuseMoves
<1>23. ASSUME NEW f \in Fakers, ThreadEnds(f) PROVE MutexInv'
  BY <1>23 DEF ThreadEnds, FuseMoves
<1>24. ASSUME NEW f \in Fakers, InitHandlerCalls(f) PROVE MutexInv'
  BY <1>24 DEF InitHandlerCalls, CbMoves
<1>25. ASSUME NEW f \in Fakers, CallbackLocks(f) PROVE MutexInv'
  BY <1>25 DEF CallbackLocks, CbMoves, Locks
<1>26. ASSUME NEW f \in Fakers, CallbackSets(f) PROVE MutexInv'
  BY <1>26 DEF CallbackSets, CbMoves, Unlocks
<1>27. ASSUME NEW f \in Fakers, CallbackNotifies(f) PROVE MutexInv'
  BY <1>27 DEF CallbackNotifies, CbMoves
<1>28. QED
  BY <1>1, <1>2, <1>3, <1>4, <1>5, <1>6, <1>7, <1>8, <1>9, <1>10, <1>11, <1>12, <1>13, <1>14, <1>15, <1>16, <1>17, <1>18, <1>19, <1>20, <1>21, <1>22, <1>23, <1>24, <1>25, <1>26, <1>27
     DEF Next, CreateSteps, FuseSteps, CallbackSteps

LEMMA StageStep == TypeOK /\ MutexInv /\ StageInv /\ Next => StageInv'
<1> SUFFICES ASSUME TypeOK, MutexInv, StageInv, Next PROVE StageInv'
  OBVIOUS
<1> USE DEF TypeOK, MutexInv, StageInv, loopVars
<1>1. ASSUME NEW f \in Fakers, InitFails(f) PROVE StageInv'
  BY <1>1 DEF InitFails, AppMoves
<1>2. ASSUME NEW f \in Fakers, MkdtempFails(f) \/ ThreadFails(f) PROVE StageInv'
  BY <1>2 DEF MkdtempFails, ThreadFails
<1>3. ASSUME NEW f \in Fakers, InitSucceeds(f) PROVE StageInv'
  BY <1>3 DEF InitSucceeds, AppMoves
<1>4. ASSUME NEW f \in Fakers, CreateInstanceFails(f) PROVE StageInv'
  BY <1>4 DEF CreateInstanceFails, AppMoves
<1>5. ASSUME NEW f \in Fakers, StartsThread(f) PROVE StageInv'
  BY <1>5 DEF StartsThread, AppMoves
<1>6. ASSUME NEW f \in Fakers, WaitLocks(f) PROVE StageInv'
  BY <1>6 DEF WaitLocks, AppMoves, Locks
<1>7. ASSUME NEW f \in Fakers, WaitEnds(f) PROVE StageInv'
  BY <1>7 DEF WaitEnds, AppMoves, Unlocks
<1>8. ASSUME NEW f \in Fakers, WaitGoesOn(f) PROVE StageInv'
  BY <1>8 DEF WaitGoesOn, AppMoves
<1>9. ASSUME NEW f \in Fakers, WaitEnqueues(f) PROVE StageInv'
  BY <1>9 DEF WaitEnqueues, AppMoves, Unlocks
<1>10. ASSUME NEW f \in Fakers, CreateReturnsObject(f) PROVE StageInv'
  BY <1>10 DEF CreateReturnsObject, AppMoves
<1>11. ASSUME NEW f \in Fakers, WakesSpuriously(f) PROVE StageInv'
  BY <1>11 DEF WakesSpuriously, AppMoves
<1>12. ASSUME NEW f \in Fakers, AppCallsUnmount(f) PROVE StageInv'
  BY <1>12 DEF AppCallsUnmount, Unmounts
<1>13. ASSUME NEW f \in Fakers, DestructorUnmounts(f) PROVE StageInv'
  BY <1>13 DEF DestructorUnmounts, AppMoves, Unmounts
<1>14. ASSUME NEW f \in Fakers, DestructorJoins(f) PROVE StageInv'
  BY <1>14 DEF DestructorJoins, AppMoves
<1>15. ASSUME NEW f \in Fakers, MountFails(f) PROVE StageInv'
  BY <1>15 DEF MountFails, FuseMoves
<1>16. ASSUME NEW f \in Fakers, MountSucceeds(f) PROVE StageInv'
  BY <1>16 DEF MountSucceeds, FuseMoves
<1>17. ASSUME NEW f \in Fakers, SighupKills(f) PROVE StageInv'
  BY <1>17 DEF SighupKills
<1>18. ASSUME NEW f \in Fakers, SighupHandled(f) PROVE StageInv'
  BY <1>18 DEF SighupHandled
<1>19. ASSUME NEW f \in Fakers, WorkerSeesExit(f) PROVE StageInv'
  BY <1>19 DEF WorkerSeesExit
<1>20. ASSUME NEW f \in Fakers, OtherUnmounts(f) PROVE StageInv'
  BY <1>20 DEF OtherUnmounts
<1>21. ASSUME NEW f \in Fakers, LoopEnds(f) PROVE StageInv'
  BY <1>21 DEF LoopEnds, FuseMoves
<1>22. ASSUME NEW f \in Fakers, RemovesHandler(f) PROVE StageInv'
  BY <1>22 DEF RemovesHandler, FuseMoves
<1>23. ASSUME NEW f \in Fakers, ThreadEnds(f) PROVE StageInv'
  BY <1>23 DEF ThreadEnds, FuseMoves
<1>24. ASSUME NEW f \in Fakers, InitHandlerCalls(f) PROVE StageInv'
  BY <1>24 DEF InitHandlerCalls, CbMoves
<1>25. ASSUME NEW f \in Fakers, CallbackLocks(f) PROVE StageInv'
  BY <1>25 DEF CallbackLocks, CbMoves, Locks
<1>26. ASSUME NEW f \in Fakers, CallbackSets(f) PROVE StageInv'
  BY <1>26 DEF CallbackSets, CbMoves, Unlocks
<1>27. ASSUME NEW f \in Fakers, CallbackNotifies(f) PROVE StageInv'
  BY <1>27 DEF CallbackNotifies, CbMoves
<1>28. QED
  BY <1>1, <1>2, <1>3, <1>4, <1>5, <1>6, <1>7, <1>8, <1>9, <1>10, <1>11, <1>12, <1>13, <1>14, <1>15, <1>16, <1>17, <1>18, <1>19, <1>20, <1>21, <1>22, <1>23, <1>24, <1>25, <1>26, <1>27
     DEF Next, CreateSteps, FuseSteps, CallbackSteps

LEMMA WakeupStep == TypeOK /\ MutexInv /\ StageInv /\ NoLostWakeup /\ Next => NoLostWakeup'
<1> SUFFICES ASSUME TypeOK, MutexInv, StageInv, NoLostWakeup, Next PROVE NoLostWakeup'
  OBVIOUS
<1> USE DEF TypeOK, MutexInv, StageInv, NoLostWakeup, loopVars
<1>1. ASSUME NEW f \in Fakers, InitFails(f) PROVE NoLostWakeup'
  BY <1>1 DEF InitFails, AppMoves
<1>2. ASSUME NEW f \in Fakers, MkdtempFails(f) \/ ThreadFails(f) PROVE NoLostWakeup'
  BY <1>2 DEF MkdtempFails, ThreadFails
<1>3. ASSUME NEW f \in Fakers, InitSucceeds(f) PROVE NoLostWakeup'
  BY <1>3 DEF InitSucceeds, AppMoves
<1>4. ASSUME NEW f \in Fakers, CreateInstanceFails(f) PROVE NoLostWakeup'
  BY <1>4 DEF CreateInstanceFails, AppMoves
<1>5. ASSUME NEW f \in Fakers, StartsThread(f) PROVE NoLostWakeup'
  BY <1>5 DEF StartsThread, AppMoves
<1>6. ASSUME NEW f \in Fakers, WaitLocks(f) PROVE NoLostWakeup'
  BY <1>6 DEF WaitLocks, AppMoves, Locks
<1>7. ASSUME NEW f \in Fakers, WaitEnds(f) PROVE NoLostWakeup'
  BY <1>7 DEF WaitEnds, AppMoves, Unlocks
<1>8. ASSUME NEW f \in Fakers, WaitGoesOn(f) PROVE NoLostWakeup'
  BY <1>8 DEF WaitGoesOn, AppMoves
<1>9. ASSUME NEW f \in Fakers, WaitEnqueues(f) PROVE NoLostWakeup'
  BY <1>9 DEF WaitEnqueues, AppMoves, Unlocks
<1>10. ASSUME NEW f \in Fakers, CreateReturnsObject(f) PROVE NoLostWakeup'
  BY <1>10 DEF CreateReturnsObject, AppMoves
<1>11. ASSUME NEW f \in Fakers, WakesSpuriously(f) PROVE NoLostWakeup'
  BY <1>11 DEF WakesSpuriously, AppMoves
<1>12. ASSUME NEW f \in Fakers, AppCallsUnmount(f) PROVE NoLostWakeup'
  BY <1>12 DEF AppCallsUnmount, Unmounts
<1>13. ASSUME NEW f \in Fakers, DestructorUnmounts(f) PROVE NoLostWakeup'
  BY <1>13 DEF DestructorUnmounts, AppMoves, Unmounts
<1>14. ASSUME NEW f \in Fakers, DestructorJoins(f) PROVE NoLostWakeup'
  BY <1>14 DEF DestructorJoins, AppMoves
<1>15. ASSUME NEW f \in Fakers, MountFails(f) PROVE NoLostWakeup'
  BY <1>15 DEF MountFails, FuseMoves
<1>16. ASSUME NEW f \in Fakers, MountSucceeds(f) PROVE NoLostWakeup'
  BY <1>16 DEF MountSucceeds, FuseMoves
<1>17. ASSUME NEW f \in Fakers, SighupKills(f) PROVE NoLostWakeup'
  BY <1>17 DEF SighupKills
<1>18. ASSUME NEW f \in Fakers, SighupHandled(f) PROVE NoLostWakeup'
  BY <1>18 DEF SighupHandled
<1>19. ASSUME NEW f \in Fakers, WorkerSeesExit(f) PROVE NoLostWakeup'
  BY <1>19 DEF WorkerSeesExit
<1>20. ASSUME NEW f \in Fakers, OtherUnmounts(f) PROVE NoLostWakeup'
  BY <1>20 DEF OtherUnmounts
<1>21. ASSUME NEW f \in Fakers, LoopEnds(f) PROVE NoLostWakeup'
  BY <1>21 DEF LoopEnds, FuseMoves
<1>22. ASSUME NEW f \in Fakers, RemovesHandler(f) PROVE NoLostWakeup'
  BY <1>22 DEF RemovesHandler, FuseMoves
<1>23. ASSUME NEW f \in Fakers, ThreadEnds(f) PROVE NoLostWakeup'
  BY <1>23 DEF ThreadEnds, FuseMoves
<1>24. ASSUME NEW f \in Fakers, InitHandlerCalls(f) PROVE NoLostWakeup'
  BY <1>24 DEF InitHandlerCalls, CbMoves
<1>25. ASSUME NEW f \in Fakers, CallbackLocks(f) PROVE NoLostWakeup'
  BY <1>25 DEF CallbackLocks, CbMoves, Locks
<1>26. ASSUME NEW f \in Fakers, CallbackSets(f) PROVE NoLostWakeup'
  BY <1>26 DEF CallbackSets, CbMoves, Unlocks
<1>27. ASSUME NEW f \in Fakers, CallbackNotifies(f) PROVE NoLostWakeup'
  BY <1>27 DEF CallbackNotifies, CbMoves
<1>28. QED
  BY <1>1, <1>2, <1>3, <1>4, <1>5, <1>6, <1>7, <1>8, <1>9, <1>10, <1>11, <1>12, <1>13, <1>14, <1>15, <1>16, <1>17, <1>18, <1>19, <1>20, <1>21, <1>22, <1>23, <1>24, <1>25, <1>26, <1>27
     DEF Next, CreateSteps, FuseSteps, CallbackSteps

LEMMA IInvInit == Init => IInv
<1> SUFFICES ASSUME Init PROVE IInv
  OBVIOUS
<1> USE DEF Init
<1>1. TypeOK
  BY DEF TypeOK, AppPcs, FusePcs, CbPcs
<1>2. MutexInv
  BY DEF MutexInv
<1>3. StageInv /\ NoLostWakeup
  BY DEF StageInv, NoLostWakeup
<1>4. QED
  BY <1>1, <1>2, <1>3 DEF IInv

LEMMA IInvStep == IInv /\ [Next]_vars => IInv'
<1> SUFFICES ASSUME IInv, [Next]_vars PROVE IInv'
  OBVIOUS
<1>1. CASE Next
  BY <1>1, TypeStep, MutexStep, StageStep, WakeupStep DEF IInv
<1>2. CASE UNCHANGED vars
  BY <1>2 DEF vars, IInv, TypeOK, MutexInv, StageInv, NoLostWakeup
<1>3. QED
  BY <1>1, <1>2

-----------------------------------------------------------------------------
\* The inductive invariant holds in every behaviour.
THEOREM Invariance == Spec => []IInv
BY IInvInit, IInvStep, PTL DEF Spec

\* No thread is left in a faker that has been destroyed: the join of the
\* destructor is enough, although the callback notifies after it has unlocked.
THEOREM DestructionIsSafe == Spec => []NoUseAfterFree
<1>1. IInv => NoUseAfterFree
  BY DEF IInv, StageInv, NoUseAfterFree
<1>2. QED
  BY <1>1, Invariance, PTL

\* create hands out mounted file systems only.
THEOREM CreationWaits == Spec => []ReadyIsMounted
<1>1. IInv => ReadyIsMounted
  BY DEF IInv, StageInv, ReadyIsMounted
<1>2. QED
  BY <1>1, Invariance, PTL

\* The notification of the callback is never missed.
THEOREM WakeupIsSeen == Spec => []NoLostWakeup
<1>1. IInv => NoLostWakeup
  BY DEF IInv
<1>2. QED
  BY <1>1, Invariance, PTL

-----------------------------------------------------------------------------
\* While a file system is served the handler is in place and exits this session,
\* and a signal is not sent before.
HandlerFits ==
  \A f \in Fakers : /\ fuse[f] \in {"loop", "stopping"} => handler /\ session = f
                    /\ fuse[f] \in {"none", "setup"} => ~sighup[f]

\* The thread that a destructor joins and that is still in its loop has a signal
\* pending, or has been told to leave the loop.
ExitIsComing ==
  \A f \in Fakers : (app[f] = "join" /\ fuse[f] = "loop") => sighup[f] \/ woken[f]

SignalInv == HandlerFits /\ ExitIsComing

\* Who can be in the destructor, or call unmount: the init handler has run.
LEMMA ServedBefore ==
  ASSUME IInv, NEW f \in Fakers, app[f] \in {"sleep", "ready", "join"}
  PROVE  fuse[f] \notin {"none", "setup"}
BY DEF IInv, StageInv

LEMMA SignalStep == IInv /\ Alone /\ SignalInv /\ [Next]_vars => SignalInv'
<1> SUFFICES ASSUME IInv, Alone, SignalInv, [Next]_vars PROVE SignalInv'
  OBVIOUS
<1> USE DEF SignalInv, HandlerFits, ExitIsComing, loopVars
<1>0. TypeOK /\ StageInv
  BY DEF IInv
<1>1. CASE UNCHANGED vars
  BY <1>1 DEF vars
\* The application's thread and the callback move on before the destructor.
<1>2. ASSUME NEW f \in Fakers, UNCHANGED <<fuse, sighup, loopVars>>,
             app' = app \/ \E s \in AppPcs \ {"join"} : app' = [app EXCEPT ![f] = s]
      PROVE SignalInv'
  BY <1>0, <1>2 DEF TypeOK
<1>3. ASSUME NEW f \in Fakers,
             InitFails(f) \/ MkdtempFails(f) \/ InitSucceeds(f) \/ ThreadFails(f) \/ CreateInstanceFails(f)
               \/ WaitLocks(f) \/ WaitEnds(f) \/ WaitGoesOn(f) \/ WaitEnqueues(f)
               \/ CreateReturnsObject(f) \/ WakesSpuriously(f) \/ DestructorJoins(f) \/ SighupKills(f)
               \/ InitHandlerCalls(f) \/ CallbackLocks(f) \/ CallbackSets(f)
      PROVE SignalInv'
  <2>1. UNCHANGED <<fuse, sighup, loopVars>>
    BY <1>3 DEF InitFails, MkdtempFails, InitSucceeds, ThreadFails, CreateInstanceFails, WaitLocks, WaitEnds, WaitGoesOn,
         WaitEnqueues, CreateReturnsObject, WakesSpuriously, DestructorJoins, SighupKills, InitHandlerCalls,
         CallbackLocks, CallbackSets
  <2>2. app' = app \/ \E s \in AppPcs \ {"join"} : app' = [app EXCEPT ![f] = s]
    BY <1>3 DEF InitFails, MkdtempFails, InitSucceeds, ThreadFails, CreateInstanceFails, WaitLocks, WaitEnds, WaitGoesOn,
         WaitEnqueues, CreateReturnsObject, WakesSpuriously, DestructorJoins, SighupKills, InitHandlerCalls,
         CallbackLocks, CallbackSets, AppMoves, AppPcs
  <2>3. QED
    BY <1>2, <2>1, <2>2
<1>4. ASSUME NEW f \in Fakers, CallbackNotifies(f) PROVE SignalInv'
  <2>1. app' = app \/ app' = [app EXCEPT ![f] = "lock"]
    BY <1>0, <1>4 DEF CallbackNotifies, TypeOK
  <2>2. QED
    BY <1>2, <1>4, <2>1 DEF CallbackNotifies, AppPcs
<1>5. ASSUME NEW f \in Fakers, StartsThread(f) PROVE SignalInv'
  <2>1. fuse[f] = "none"
    BY <1>0, <1>5 DEF StartsThread, AppMoves, StageInv
  <2>2. QED
    BY <1>0, <1>5, <2>1 DEF StartsThread, AppMoves, TypeOK
\* The signal is sent to a thread that is being served or on its way out.
<1>6. ASSUME NEW f \in Fakers, AppCallsUnmount(f) \/ DestructorUnmounts(f) PROVE SignalInv'
  <2>1. fuse[f] \notin {"none", "setup"}
    BY <1>6, ServedBefore DEF AppCallsUnmount, DestructorUnmounts, AppMoves
  <2>2. UNCHANGED <<fuse, loopVars>> /\ sighup' = [sighup EXCEPT ![f] = fuse[f] # "ended"]
    BY <1>6 DEF AppCallsUnmount, DestructorUnmounts, Unmounts
  <2>3. app' = app \/ app' = [app EXCEPT ![f] = "join"]
    BY <1>6 DEF AppCallsUnmount, DestructorUnmounts, AppMoves
  <2>4. QED
    BY <1>0, <2>1, <2>2, <2>3 DEF TypeOK
<1>7. ASSUME NEW f \in Fakers, MountFails(f) PROVE SignalInv'
  BY <1>0, <1>7 DEF MountFails, FuseMoves, TypeOK
\* Nobody else is mounted, so that the global session changes nobody's.
<1>8. ASSUME NEW f \in Fakers, MountSucceeds(f) PROVE SignalInv'
  <2>1. \A g \in Fakers : g # f => fuse[g] \in {"none", "ended"}
    BY <1>8 DEF MountSucceeds, FuseMoves, Alone
  <2>2. app[f] # "join"
    BY <1>8, ServedBefore DEF MountSucceeds, FuseMoves
  <2>3. QED
    BY <1>0, <1>8, <2>1, <2>2 DEF MountSucceeds, FuseMoves, TypeOK
<1>9. ASSUME NEW f \in Fakers, SighupHandled(f) PROVE SignalInv'
  <2>1. fuse[f] = "loop" => exited'[f] /\ woken'[f]
    BY <1>0, <1>9 DEF SighupHandled, TypeOK
  <2>2. \A g \in Fakers : g # f => sighup'[g] = sighup[g] /\ woken'[g] = woken[g]
    BY <1>0, <1>9 DEF SighupHandled, TypeOK
  <2>3. QED
    BY <1>0, <1>9, <2>1, <2>2 DEF SighupHandled, TypeOK
<1>10. ASSUME NEW f \in Fakers, WorkerSeesExit(f) \/ OtherUnmounts(f) PROVE SignalInv'
  BY <1>0, <1>10 DEF WorkerSeesExit, OtherUnmounts, TypeOK
<1>11. ASSUME NEW f \in Fakers, LoopEnds(f) PROVE SignalInv'
  BY <1>0, <1>11 DEF LoopEnds, FuseMoves, TypeOK
<1>12. ASSUME NEW f \in Fakers, RemovesHandler(f) PROVE SignalInv'
  <2>1. \A g \in Fakers : g # f => fuse[g] \in {"none", "ended"}
    BY <1>12 DEF RemovesHandler, FuseMoves, Alone
  <2>2. QED
    BY <1>0, <1>12, <2>1 DEF RemovesHandler, FuseMoves, TypeOK
<1>13. ASSUME NEW f \in Fakers, ThreadEnds(f) PROVE SignalInv'
  BY <1>0, <1>13 DEF ThreadEnds, FuseMoves, TypeOK
<1>14. QED
  BY <1>1, <1>3, <1>4, <1>5, <1>6, <1>7, <1>8, <1>9, <1>10, <1>11, <1>12, <1>13
     DEF Next, CreateSteps, FuseSteps, CallbackSteps

\* While no two file systems are mounted at a time the handler and the session of
\* libfuse are those of the one that is.
THEOREM SignalInvariance == Spec => ([]Alone => []SignalInv)
<1>1. Init => SignalInv
  BY DEF Init, SignalInv, HandlerFits, ExitIsComing
<1>2. QED
  BY <1>1, SignalStep, Invariance, PTL DEF Spec

\* A fuse thread that still serves its file system never meets SIGHUP without the
\* handler, so that unmount stops that thread and not the process.
THEOREM SignalsAreHandledAlways == Spec => SignalsAreHandled
<1>1. SignalInv /\ IInv => SignalFindsHandler
  BY DEF SignalInv, HandlerFits, SignalFindsHandler
<1>2. QED
  BY <1>1, SignalInvariance, Invariance, PTL DEF SignalsAreHandled

\* The destructor never joins a thread that nobody has told, or is about to tell,
\* to end: what DestructorReturns rests on.
THEOREM ExitIsComingAlways == Spec => ([]Alone => []ExitIsComing)
<1>1. SignalInv => ExitIsComing
  BY DEF SignalInv
<1>2. QED
  BY <1>1, SignalInvariance, PTL
=============================================================================
