--------------------------- MODULE MainLoopProofs ---------------------------
(***************************************************************************)
(* Proofs about MainLoop, for every number of clients, sections, signals,  *)
(* failures and panics.                                                    *)
(***************************************************************************)
EXTENDS MainLoop, TLAPS

\* A leaf that names no prover is tried with each of these, for a minute.
USE SMTT(60), ZenonT(60), Z3T(60)

\* The variables keep their types.
LEMMA TypeStep == ASSUME TypeOK, [Next]_vars PROVE TypeOK'
<1> USE ConstantsAssumption DEF TypeOK, LoopPCs, ClientPCs, loopVars, iterVars,
      planVars, faultVars, trigVars, queueVars, listVars, clientVars, sigVars
<1>1. CASE consumeReloadSignal
  <2>1. signaled' \in BOOLEAN /\ token' \in BOOLEAN
    BY <1>1, ZenonT(60) DEF consumeReloadSignal, ShutdownCase
  <2>2. pc' \in LoopPCs
    BY <1>1 DEF consumeReloadSignal, ShutdownCase
  <2>3. QED
    BY <1>1, <2>1, <2>2 DEF consumeReloadSignal, ShutdownCase
<1>2. CASE isIdlePoll
  BY <1>2 DEF isIdlePoll
<1>3. CASE StampEvents
  BY <1>3 DEF StampEvents, EventsSeen
<1>4. CASE runLoadAndParse
  BY <1>4 DEF runLoadAndParse
<1>5. CASE checkHooks
  <2>1. hooksChecked' \in BOOLEAN
    BY <1>5, ZenonT(60) DEF checkHooks
  <2>2. watching' \in BOOLEAN
    BY <1>5, ZenonT(60) DEF checkHooks
  <2>3. pc' \in LoopPCs
    BY <1>5 DEF checkHooks
  <2>4. QED
    BY <1>5, <2>1, <2>2, <2>3 DEF checkHooks
<1>6. CASE claimWaiters
  BY <1>6 DEF claimWaiters
<1>7. CASE TakeRequestedConfigs
  BY <1>7 DEF TakeRequestedConfigs
<1>8. CASE Plan
  BY <1>8 DEF Plan, Compute, RequestsKept
<1>9. CASE requeueWaiters
  BY <1>9 DEF requeueWaiters
<1>10. CASE Execute
  <2>1. failed' \in BOOLEAN
    BY <1>10, ZenonT(60) DEF Execute, Queued
  <2>2. covered' \in [Clients -> SUBSET Sections]
    BY <1>10 DEF Execute, Queued
  <2>3. QED
    BY <1>10, <2>1, <2>2 DEF Execute, Queued
<1>11. CASE completeWaiters
  BY <1>11 DEF completeWaiters, ClaimedWaiters
<1>12. CASE beginRestarts
  BY <1>12 DEF beginRestarts, JustRewritten
<1>13. CASE endRestarts
  BY <1>13 DEF endRestarts
<1>14. CASE maybeStartListener
  <2>1. server' \in BOOLEAN /\ pc' \in LoopPCs
    BY <1>14, ZenonT(60) DEF maybeStartListener
  <2>2. QED
    BY <1>14, <2>1 DEF maybeStartListener
<1>15. CASE finalizeIteration
  <2>1. ready' \in BOOLEAN
    BY <1>15 DEF finalizeIteration, signalReady, DropPlan
  <2>2. reloading' \in BOOLEAN
    BY <1>15 DEF finalizeIteration, signalReady, DropPlan
  <2>3. failed' \in BOOLEAN /\ firstRun' \in BOOLEAN /\ signaled' \in BOOLEAN
    BY <1>15, ZenonT(60) DEF finalizeIteration, signalReady, DropPlan
  <2>4. QED
    BY <1>15, <2>1, <2>2, <2>3 DEF finalizeIteration, signalReady, DropPlan
<1>16. CASE backOff
  <2>1. ready' \in BOOLEAN
    BY <1>16 DEF backOff, signalReady, DropPlan
  <2>2. reloading' \in BOOLEAN
    BY <1>16 DEF backOff, signalReady, DropPlan
  <2>3. failed' \in BOOLEAN
    BY <1>16, ZenonT(60) DEF backOff, signalReady, DropPlan
  <2>4. QED
    BY <1>16, <2>1, <2>2, <2>3 DEF backOff, signalReady, DropPlan
<1>17. CASE SleepWithContext
  <2>1. signaled' \in BOOLEAN
    BY <1>17 DEF SleepWithContext, InterruptNoted
  <2>2. token' \in BOOLEAN
    BY <1>17, ZenonT(60) DEF SleepWithContext, InterruptNoted
  <2>3. QED
    BY <1>17, <2>1, <2>2 DEF SleepWithContext, InterruptNoted
<1>18. CASE TimerExpires
  BY <1>18 DEF TimerExpires
<1>19. CASE RecoverPanic
  <2>1. failed' \in BOOLEAN
    BY <1>19, ZenonT(60) DEF RecoverPanic, DropPlan
  <2>2. QED
    BY <1>19, <2>1 DEF RecoverPanic, DropPlan
<1>20. CASE TriggerReload
  BY <1>20 DEF TriggerReload, SendToken
<1>21. CASE dispatchSignal
  <2>1. cancelled' \in BOOLEAN
    BY <1>21, ZenonT(60) DEF dispatchSignal
  <2>2. reloading' \in BOOLEAN
    BY <1>21, ZenonT(60) DEF dispatchSignal
  <2>3. hpc' \in {"select", "reload", "stopped"}
    BY <1>21 DEF dispatchSignal
  <2>4. QED
    BY <1>21, <2>1, <2>2, <2>3 DEF dispatchSignal
<1>22. CASE SendReload
  BY <1>22 DEF SendReload, SendToken
<1>23. ASSUME NEW sig \in Signals, RaiseSignal(sig) PROVE TypeOK'
  BY <1>23 DEF RaiseSignal
<1>24. ASSUME NEW c \in Clients, Connect(c) PROVE TypeOK'
  BY <1>24 DEF Connect
<1>25. ASSUME NEW c \in Clients, ExecStartPre(c) PROVE TypeOK'
  BY <1>25 DEF ExecStartPre
<1>26. ASSUME NEW c \in Clients, rewrittenByRestartingCycle(c) PROVE TypeOK'
  BY <1>26 DEF rewrittenByRestartingCycle
<1>27. ASSUME NEW c \in Clients, AddRequestedConfigs(c) PROVE TypeOK'
  BY <1>27 DEF AddRequestedConfigs
<1>28. ASSUME NEW c \in Clients, CountEvent(c) PROVE TypeOK'
  BY <1>28 DEF CountEvent
<1>29. ASSUME NEW c \in Clients, Register(c) PROVE TypeOK'
  BY <1>29 DEF Register
<1>30. ASSUME NEW c \in Clients, NotifyLoop(c) PROVE TypeOK'
  BY <1>30 DEF NotifyLoop, SendToken
<1>31. ASSUME NEW c \in Clients, NEW answer \in {"success", "timeout", "shutdown"},
              Reply(c, answer)
       PROVE  TypeOK'
  BY <1>31 DEF Reply
<1>32. CASE UNCHANGED vars
  BY <1>32 DEF vars
<1>33. QED
  BY <1>1, <1>2, <1>3, <1>4, <1>5, <1>6, <1>7, <1>8, <1>9, <1>10, ZenonT(60), <1>11,
     <1>12, <1>13, <1>14, <1>15, <1>16, <1>17, <1>18, <1>19, <1>20, <1>21,
     <1>22, <1>23, <1>24, <1>25, <1>26, <1>27, <1>28, <1>29, <1>30, <1>31,
     <1>32
     DEF Next, Iteration, Handler, SignalHandler, Environment, Terminated,
         ReplyDone, ReplyTimeout, ReplyShutdown

-----------------------------------------------------------------------------
(* The trigger's lists.                                                    *)

\* Whatever a step does to the lists or to a client's position, it is one of
\* these; every other step leaves both alone.
LEMMA ListsCases ==
  ASSUME [Next]_vars
  PROVE  \/ claimWaiters \/ requeueWaiters \/ completeWaiters
         \/ \E c \in Clients :
              \/ Connect(c) \/ ExecStartPre(c) \/ rewrittenByRestartingCycle(c)
              \/ AddRequestedConfigs(c) \/ CountEvent(c) \/ Register(c)
              \/ NotifyLoop(c) \/ ReplyDone(c) \/ ReplyTimeout(c)
              \/ ReplyShutdown(c)
         \/ UNCHANGED <<listVars, cpc, want>>
<1> USE DEF vars, trigVars, listVars, clientVars
<1>1. ASSUME \/ consumeReloadSignal \/ isIdlePoll \/ StampEvents
             \/ runLoadAndParse \/ checkHooks \/ TakeRequestedConfigs \/ Plan
             \/ Execute \/ beginRestarts \/ endRestarts \/ maybeStartListener
             \/ finalizeIteration \/ backOff \/ SleepWithContext
             \/ TimerExpires \/ RecoverPanic \/ TriggerReload
             \/ dispatchSignal \/ SendReload
             \/ (\E sig \in Signals : RaiseSignal(sig))
      PROVE  UNCHANGED <<listVars, cpc, want>>
  BY <1>1, ZenonT(60) DEF consumeReloadSignal, isIdlePoll, StampEvents, runLoadAndParse,
     checkHooks, TakeRequestedConfigs, Plan, Execute, beginRestarts,
     endRestarts, maybeStartListener, finalizeIteration, backOff,
     SleepWithContext, TimerExpires, RecoverPanic, TriggerReload,
     dispatchSignal, SendReload, RaiseSignal
<1>2. QED
  BY <1>1 DEF Next, Iteration, Handler, SignalHandler, Environment, Terminated

\* The lists and the clients' positions agree.
LEMMA ListsStep == ASSUME TypeOK, ListsInv, [Next]_vars PROVE ListsInv'
<1> USE DEF TypeOK, ClientPCs, ListsInv, listVars, clientVars
<1>1. CASE claimWaiters
  BY <1>1 DEF claimWaiters
<1>2. CASE requeueWaiters
  BY <1>2 DEF requeueWaiters
<1>3. CASE completeWaiters
  BY <1>3 DEF completeWaiters, ClaimedWaiters
<1>4. ASSUME NEW c \in Clients, Connect(c) PROVE ListsInv'
  BY <1>4 DEF Connect
<1>5. ASSUME NEW c \in Clients, ExecStartPre(c) PROVE ListsInv'
  BY <1>5 DEF ExecStartPre
<1>6. ASSUME NEW c \in Clients, rewrittenByRestartingCycle(c) PROVE ListsInv'
  BY <1>6 DEF rewrittenByRestartingCycle
<1>7. ASSUME NEW c \in Clients, AddRequestedConfigs(c) PROVE ListsInv'
  BY <1>7 DEF AddRequestedConfigs
<1>8. ASSUME NEW c \in Clients, CountEvent(c) PROVE ListsInv'
  BY <1>8 DEF CountEvent
<1>9. ASSUME NEW c \in Clients, Register(c) PROVE ListsInv'
  BY <1>9 DEF Register
<1>10. ASSUME NEW c \in Clients, NotifyLoop(c) PROVE ListsInv'
  BY <1>10 DEF NotifyLoop
<1>11. ASSUME NEW c \in Clients,
              ReplyDone(c) \/ ReplyTimeout(c) \/ ReplyShutdown(c)
       PROVE  ListsInv'
  BY <1>11 DEF ReplyDone, ReplyTimeout, ReplyShutdown, Reply
<1>12. CASE UNCHANGED <<listVars, cpc, want>>
  BY <1>12
<1>13. QED
  BY ListsCases, <1>1, <1>2, <1>3, <1>4, <1>5, <1>6, <1>7, <1>8, <1>9, <1>10,
     <1>11, <1>12

-----------------------------------------------------------------------------
(* What a reply promises.                                                  *)

\* Every section a client queued is queued, in the plan's hands or executed.
LEMMA CoverStep ==
  ASSUME TypeOK, ListsInv, CoverInv, [Next]_vars
  PROVE  CoverInv'
<1> USE DEF TypeOK, ListsInv, CoverInv, Queued, loopVars, iterVars,
      planVars, faultVars, trigVars, queueVars, listVars, clientVars, sigVars
<1>1. CASE consumeReloadSignal
  BY <1>1 DEF consumeReloadSignal, ShutdownCase
<1>2. CASE isIdlePoll
  BY <1>2 DEF isIdlePoll, IdlePoll
<1>3. CASE StampEvents
  BY <1>3 DEF StampEvents, EventsSeen
<1>4. CASE runLoadAndParse
  BY <1>4 DEF runLoadAndParse
<1>5. CASE checkHooks
  BY <1>5 DEF checkHooks
<1>6. CASE claimWaiters
  BY <1>6 DEF claimWaiters
<1>7. CASE TakeRequestedConfigs
  BY <1>7 DEF TakeRequestedConfigs
<1>8. CASE Plan
  BY <1>8 DEF Plan, Compute, RequestsKept
<1>9. CASE requeueWaiters
  BY <1>9 DEF requeueWaiters
<1>10. CASE Execute
  BY <1>10 DEF Execute
<1>11. CASE completeWaiters
  BY <1>11 DEF completeWaiters, ClaimedWaiters
<1>12. CASE beginRestarts
  BY <1>12 DEF beginRestarts, JustRewritten
<1>13. CASE endRestarts
  BY <1>13 DEF endRestarts
<1>14. CASE maybeStartListener
  BY <1>14 DEF maybeStartListener
<1>15. CASE finalizeIteration
  BY <1>15 DEF finalizeIteration, signalReady, DropPlan
<1>16. CASE backOff
  BY <1>16 DEF backOff, signalReady, DropPlan
<1>17. CASE SleepWithContext
  BY <1>17 DEF SleepWithContext, InterruptNoted
<1>18. CASE TimerExpires
  BY <1>18 DEF TimerExpires
<1>19. CASE RecoverPanic
  BY <1>19 DEF RecoverPanic, DropPlan
<1>20. CASE TriggerReload
  BY <1>20 DEF TriggerReload, SendToken
<1>21. CASE dispatchSignal
  BY <1>21 DEF dispatchSignal
<1>22. CASE SendReload
  BY <1>22 DEF SendReload, SendToken
<1>23. ASSUME NEW sig \in Signals, RaiseSignal(sig) PROVE CoverInv'
  BY <1>23 DEF RaiseSignal
<1>24. ASSUME NEW c \in Clients, Connect(c) PROVE CoverInv'
  BY <1>24 DEF Connect
<1>25. ASSUME NEW c \in Clients, ExecStartPre(c) PROVE CoverInv'
  BY <1>25 DEF ExecStartPre
<1>26. ASSUME NEW c \in Clients, rewrittenByRestartingCycle(c) PROVE CoverInv'
  BY <1>26 DEF rewrittenByRestartingCycle
<1>27. ASSUME NEW c \in Clients, AddRequestedConfigs(c) PROVE CoverInv'
  BY <1>27 DEF AddRequestedConfigs
<1>28. ASSUME NEW c \in Clients, CountEvent(c) PROVE CoverInv'
  BY <1>28 DEF CountEvent
<1>29. ASSUME NEW c \in Clients, Register(c) PROVE CoverInv'
  BY <1>29 DEF Register
<1>30. ASSUME NEW c \in Clients, NotifyLoop(c) PROVE CoverInv'
  BY <1>30 DEF NotifyLoop, SendToken
<1>31. ASSUME NEW c \in Clients,
              ReplyDone(c) \/ ReplyTimeout(c) \/ ReplyShutdown(c)
       PROVE  CoverInv'
  BY <1>31 DEF ReplyDone, ReplyTimeout, ReplyShutdown, Reply
<1>32. CASE UNCHANGED vars
  BY <1>32 DEF vars
<1>33. QED
  BY <1>1, <1>2, <1>3, <1>4, <1>5, <1>6, <1>7, <1>8, <1>9, <1>10, ZenonT(60), <1>11,
     <1>12, <1>13, <1>14, <1>15, <1>16, <1>17, <1>18, <1>19, <1>20, <1>21,
     <1>22, <1>23, <1>24, <1>25, <1>26, <1>27, <1>28, <1>29, <1>30, <1>31,
     <1>32
     DEF Next, Iteration, Handler, SignalHandler, Environment, Terminated

-----------------------------------------------------------------------------
(* The reload channel.                                                     *)

\* Work that was asked for keeps the loop awake.
LEMMA WakeStep ==
  ASSUME TypeOK, ListsInv, CoverInv, WakeInv, [Next]_vars
  PROVE  WakeInv'
<1> USE DEF TypeOK, ListsInv, WakeInv, Awake, Announcing, loopVars, iterVars,
      planVars, faultVars, trigVars, queueVars, listVars, clientVars, sigVars
<1>1. CASE consumeReloadSignal
  BY <1>1 DEF consumeReloadSignal, ShutdownCase
<1>2. CASE isIdlePoll
  BY <1>2 DEF isIdlePoll, IdlePoll
<1>3. CASE StampEvents
  BY <1>3 DEF StampEvents, EventsSeen
<1>4. CASE runLoadAndParse
  BY <1>4 DEF runLoadAndParse
<1>5. CASE checkHooks
  BY <1>5 DEF checkHooks
<1>6. CASE claimWaiters
  BY <1>6 DEF claimWaiters
<1>7. CASE TakeRequestedConfigs
  BY <1>7 DEF TakeRequestedConfigs
<1>8. CASE Plan
  BY <1>8 DEF Plan, Compute, RequestsKept
<1>9. CASE requeueWaiters
  BY <1>9 DEF requeueWaiters
<1>10. CASE Execute
  BY <1>10 DEF Execute
<1>11. CASE completeWaiters
  BY <1>11 DEF completeWaiters, ClaimedWaiters
<1>12. CASE beginRestarts
  BY <1>12 DEF beginRestarts, JustRewritten
<1>13. CASE endRestarts
  BY <1>13 DEF endRestarts
<1>14. CASE maybeStartListener
  BY <1>14 DEF maybeStartListener
<1>15. CASE finalizeIteration
  BY <1>15 DEF finalizeIteration, signalReady, DropPlan
<1>16. CASE backOff
  BY <1>16 DEF backOff, signalReady, DropPlan
<1>17. CASE SleepWithContext
  BY <1>17 DEF SleepWithContext, InterruptNoted
<1>18. CASE TimerExpires
  BY <1>18 DEF TimerExpires
<1>19. CASE RecoverPanic
  BY <1>19 DEF RecoverPanic, DropPlan
<1>20. CASE TriggerReload
  BY <1>20 DEF TriggerReload, SendToken
<1>21. CASE dispatchSignal
  BY <1>21 DEF dispatchSignal
<1>22. CASE SendReload
  BY <1>22 DEF SendReload, SendToken
<1>23. ASSUME NEW sig \in Signals, RaiseSignal(sig) PROVE WakeInv'
  BY <1>23 DEF RaiseSignal
<1>24. ASSUME NEW c \in Clients, Connect(c) PROVE WakeInv'
  BY <1>24 DEF Connect
<1>25. ASSUME NEW c \in Clients, ExecStartPre(c) PROVE WakeInv'
  BY <1>25 DEF ExecStartPre
<1>26. ASSUME NEW c \in Clients, rewrittenByRestartingCycle(c) PROVE WakeInv'
  BY <1>26 DEF rewrittenByRestartingCycle
<1>27. ASSUME NEW c \in Clients, AddRequestedConfigs(c) PROVE WakeInv'
  BY <1>27 DEF AddRequestedConfigs
<1>28. ASSUME NEW c \in Clients, CountEvent(c) PROVE WakeInv'
  BY <1>28 DEF CountEvent
<1>29. ASSUME NEW c \in Clients, Register(c) PROVE WakeInv'
  BY <1>29 DEF Register
<1>30. ASSUME NEW c \in Clients, NotifyLoop(c) PROVE WakeInv'
  BY <1>30 DEF NotifyLoop, SendToken
<1>31. ASSUME NEW c \in Clients,
              ReplyDone(c) \/ ReplyTimeout(c) \/ ReplyShutdown(c)
       PROVE  WakeInv'
  BY <1>31 DEF ReplyDone, ReplyTimeout, ReplyShutdown, Reply
<1>32. CASE UNCHANGED vars
  BY <1>32 DEF vars
<1>33. QED
  BY <1>1, <1>2, <1>3, <1>4, <1>5, <1>6, <1>7, <1>8, <1>9, <1>10, ZenonT(60), <1>11,
     <1>12, <1>13, <1>14, <1>15, <1>16, <1>17, <1>18, <1>19, <1>20, <1>21,
     <1>22, <1>23, <1>24, <1>25, <1>26, <1>27, <1>28, <1>29, <1>30, <1>31,
     <1>32
     DEF Next, Iteration, Handler, SignalHandler, Environment, Terminated

\* A reload stays pending until READY=1.
LEMMA ReloadStep ==
  ASSUME TypeOK, WakeInv, ReloadInv, [Next]_vars
  PROVE  ReloadInv'
<1> USE ConstantsAssumption DEF TypeOK, ReloadInv, ReloadPending, loopVars, iterVars,
      planVars, faultVars, trigVars, queueVars, listVars, clientVars, sigVars
<1>1. CASE consumeReloadSignal
  BY <1>1 DEF consumeReloadSignal, ShutdownCase
<1>2. CASE isIdlePoll
  BY <1>2 DEF isIdlePoll, IdlePoll
<1>3. CASE StampEvents
  BY <1>3 DEF StampEvents, EventsSeen
<1>4. CASE runLoadAndParse
  BY <1>4 DEF runLoadAndParse
<1>5. CASE checkHooks
  BY <1>5 DEF checkHooks
<1>6. CASE claimWaiters
  BY <1>6 DEF claimWaiters
<1>7. CASE TakeRequestedConfigs
  BY <1>7 DEF TakeRequestedConfigs
<1>8. CASE Plan
  BY <1>8 DEF Plan, Compute, RequestsKept
<1>9. CASE requeueWaiters
  BY <1>9 DEF requeueWaiters
<1>10. CASE Execute
  BY <1>10 DEF Execute
<1>11. CASE completeWaiters
  BY <1>11 DEF completeWaiters, ClaimedWaiters
<1>12. CASE beginRestarts
  BY <1>12 DEF beginRestarts, JustRewritten
<1>13. CASE endRestarts
  BY <1>13 DEF endRestarts
<1>14. CASE maybeStartListener
  BY <1>14 DEF maybeStartListener
<1>15. CASE finalizeIteration
  BY <1>15 DEF finalizeIteration, signalReady, DropPlan
<1>16. CASE backOff
  BY <1>16 DEF backOff, signalReady, DropPlan
<1>17. CASE SleepWithContext
  BY <1>17 DEF SleepWithContext, InterruptNoted, WakeInv
<1>18. CASE TimerExpires
  BY <1>18 DEF TimerExpires
<1>19. CASE RecoverPanic
  BY <1>19 DEF RecoverPanic, DropPlan
<1>20. CASE TriggerReload
  BY <1>20 DEF TriggerReload, SendToken
<1>21. CASE dispatchSignal
  BY <1>21 DEF dispatchSignal
<1>22. CASE SendReload
  BY <1>22 DEF SendReload, SendToken
<1>23. ASSUME NEW sig \in Signals, RaiseSignal(sig) PROVE ReloadInv'
  BY <1>23 DEF RaiseSignal
<1>24. ASSUME NEW c \in Clients, Connect(c) PROVE ReloadInv'
  BY <1>24 DEF Connect
<1>25. ASSUME NEW c \in Clients, ExecStartPre(c) PROVE ReloadInv'
  BY <1>25 DEF ExecStartPre
<1>26. ASSUME NEW c \in Clients, rewrittenByRestartingCycle(c) PROVE ReloadInv'
  BY <1>26 DEF rewrittenByRestartingCycle
<1>27. ASSUME NEW c \in Clients, AddRequestedConfigs(c) PROVE ReloadInv'
  BY <1>27 DEF AddRequestedConfigs
<1>28. ASSUME NEW c \in Clients, CountEvent(c) PROVE ReloadInv'
  BY <1>28 DEF CountEvent
<1>29. ASSUME NEW c \in Clients, Register(c) PROVE ReloadInv'
  BY <1>29 DEF Register
<1>30. ASSUME NEW c \in Clients, NotifyLoop(c) PROVE ReloadInv'
  BY <1>30 DEF NotifyLoop, SendToken
<1>31. ASSUME NEW c \in Clients,
              ReplyDone(c) \/ ReplyTimeout(c) \/ ReplyShutdown(c)
       PROVE  ReloadInv'
  BY <1>31 DEF ReplyDone, ReplyTimeout, ReplyShutdown, Reply
<1>32. CASE UNCHANGED vars
  BY <1>32 DEF vars
<1>33. QED
  BY <1>1, <1>2, <1>3, <1>4, <1>5, <1>6, <1>7, <1>8, <1>9, <1>10, ZenonT(60), <1>11,
     <1>12, <1>13, <1>14, <1>15, <1>16, <1>17, <1>18, <1>19, <1>20, <1>21,
     <1>22, <1>23, <1>24, <1>25, <1>26, <1>27, <1>28, <1>29, <1>30, <1>31,
     <1>32
     DEF Next, Iteration, Handler, SignalHandler, Environment, Terminated

-----------------------------------------------------------------------------
(* The restart phase.                                                      *)

\* Units of rewritten sections are not queued behind the loop.
LEMMA UnitStep ==
  ASSUME TypeOK, ListsInv, UnitInv, [Next]_vars
  PROVE  UnitInv'
<1> USE ConstantsAssumption DEF TypeOK, ListsInv, UnitInv, loopVars, iterVars,
      planVars, faultVars, trigVars, queueVars, listVars, clientVars, sigVars
<1>1. CASE consumeReloadSignal
  BY <1>1 DEF consumeReloadSignal, ShutdownCase
<1>2. CASE isIdlePoll
  BY <1>2 DEF isIdlePoll, IdlePoll
<1>3. CASE StampEvents
  BY <1>3 DEF StampEvents, EventsSeen
<1>4. CASE runLoadAndParse
  BY <1>4 DEF runLoadAndParse
<1>5. CASE checkHooks
  BY <1>5 DEF checkHooks
<1>6. CASE claimWaiters
  BY <1>6 DEF claimWaiters
<1>7. CASE TakeRequestedConfigs
  BY <1>7 DEF TakeRequestedConfigs
<1>8. CASE Plan
  BY <1>8 DEF Plan, Compute, RequestsKept
<1>9. CASE requeueWaiters
  BY <1>9 DEF requeueWaiters
<1>10. CASE Execute
  BY <1>10 DEF Execute
<1>11. CASE completeWaiters
  BY <1>11 DEF completeWaiters, ClaimedWaiters
<1>12. CASE beginRestarts
  BY <1>12 DEF beginRestarts, JustRewritten
<1>13. CASE endRestarts
  BY <1>13 DEF endRestarts
<1>14. CASE maybeStartListener
  BY <1>14 DEF maybeStartListener
<1>15. CASE finalizeIteration
  BY <1>15 DEF finalizeIteration, signalReady, DropPlan
<1>16. CASE backOff
  BY <1>16 DEF backOff, signalReady, DropPlan
<1>17. CASE SleepWithContext
  BY <1>17 DEF SleepWithContext, InterruptNoted
<1>18. CASE TimerExpires
  BY <1>18 DEF TimerExpires
<1>19. CASE RecoverPanic
  BY <1>19 DEF RecoverPanic, DropPlan
<1>20. CASE TriggerReload
  BY <1>20 DEF TriggerReload, SendToken
<1>21. CASE dispatchSignal
  BY <1>21 DEF dispatchSignal
<1>22. CASE SendReload
  BY <1>22 DEF SendReload, SendToken
<1>23. ASSUME NEW sig \in Signals, RaiseSignal(sig) PROVE UnitInv'
  BY <1>23 DEF RaiseSignal
<1>24. ASSUME NEW c \in Clients, Connect(c) PROVE UnitInv'
  BY <1>24 DEF Connect
<1>25. ASSUME NEW c \in Clients, ExecStartPre(c) PROVE UnitInv'
  BY <1>25 DEF ExecStartPre
<1>26. ASSUME NEW c \in Clients, rewrittenByRestartingCycle(c) PROVE UnitInv'
  BY <1>26 DEF rewrittenByRestartingCycle
<1>27. ASSUME NEW c \in Clients, AddRequestedConfigs(c) PROVE UnitInv'
  BY <1>27 DEF AddRequestedConfigs
<1>28. ASSUME NEW c \in Clients, CountEvent(c) PROVE UnitInv'
  BY <1>28 DEF CountEvent
<1>29. ASSUME NEW c \in Clients, Register(c) PROVE UnitInv'
  BY <1>29 DEF Register
<1>30. ASSUME NEW c \in Clients, NotifyLoop(c) PROVE UnitInv'
  BY <1>30 DEF NotifyLoop, SendToken
<1>31. ASSUME NEW c \in Clients,
              ReplyDone(c) \/ ReplyTimeout(c) \/ ReplyShutdown(c)
       PROVE  UnitInv'
  BY <1>31 DEF ReplyDone, ReplyTimeout, ReplyShutdown, Reply
<1>32. CASE UNCHANGED vars
  BY <1>32 DEF vars
<1>33. QED
  BY <1>1, <1>2, <1>3, <1>4, <1>5, <1>6, <1>7, <1>8, <1>9, <1>10, ZenonT(60), <1>11,
     <1>12, <1>13, <1>14, <1>15, <1>16, <1>17, <1>18, <1>19, <1>20, <1>21,
     <1>22, <1>23, <1>24, <1>25, <1>26, <1>27, <1>28, <1>29, <1>30, <1>31,
     <1>32
     DEF Next, Iteration, Handler, SignalHandler, Environment, Terminated

-----------------------------------------------------------------------------
(* The theorems.                                                           *)

LEMMA InitInv == ASSUME Init PROVE TypeOK /\ LoopInv
<1> USE ConstantsAssumption DEF Init
<1>1. TypeOK
  <2>1. /\ skip \in BOOLEAN
        /\ cpc \in [Clients -> ClientPCs]
        /\ want \in [Clients -> SUBSET Sections]
        /\ covered \in [Clients -> SUBSET Sections]
    BY DEF ClientPCs
  <2>2. /\ signaled \in BOOLEAN /\ server \in BOOLEAN /\ ready \in BOOLEAN
        /\ hooksChecked \in BOOLEAN /\ watching \in BOOLEAN
        /\ firstRun \in BOOLEAN /\ failed \in BOOLEAN
        /\ token \in BOOLEAN /\ cancelled \in BOOLEAN /\ termed \in BOOLEAN
        /\ reloading \in BOOLEAN
    BY Zenon
  <2>3. /\ pc \in LoopPCs /\ hpc \in {"select", "reload", "stopped"}
        /\ events \in Nat /\ stamp \in Nat /\ stamp <= events
        /\ faults \in Nat /\ panics \in Nat /\ nsig \in Nat
        /\ sigbuf \in Signals \cup {"none"}
    BY DEF LoopPCs
  <2>4. QED
    BY <2>1, <2>2, <2>3 DEF TypeOK
<1>2. ListsInv /\ CoverInv /\ WakeInv
  BY DEF ListsInv, CoverInv, WakeInv, Queued, Awake
<1>3. ReloadInv /\ UnitInv
  BY DEF ReloadInv, ReloadPending, UnitInv
<1>4. QED
  BY <1>1, <1>2, <1>3 DEF LoopInv

\* The trigger's lists, the request queue, the reload channel and the loop's
\* position agree in every reachable state, for any number of clients,
\* sections, signals, failures and panics.
THEOREM Invariance == Spec => [](TypeOK /\ LoopInv)
<1>1. TypeOK /\ LoopInv /\ [Next]_vars => (TypeOK /\ LoopInv)'
  BY TypeStep, ListsStep, CoverStep, WakeStep, ReloadStep, UnitStep
     DEF LoopInv
<1>2. QED
  BY InitInv, <1>1, PTL DEF Spec

\* The fields of the loop, of the trigger and of its clients keep their types.
THEOREM TypeCorrect == Spec => []TypeOK
  BY Invariance, PTL

\* A REWRITE client told SUCCESS had its sections written first.
THEOREM RewriteReplies == Spec => []ReplyMeansWritten
<1>1. TypeOK /\ LoopInv => ReplyMeansWritten
  BY DEF TypeOK, LoopInv, ListsInv, CoverInv, ReplyMeansWritten
<1>2. QED
  BY Invariance, <1>1, PTL

\* A queued section is never dropped by a failing load, plan or rewrite, nor by
\* the client's timeout.
THEOREM RequestsAreKept == Spec => []RequestAccounted
<1>1. TypeOK /\ LoopInv => RequestAccounted
  BY DEF LoopInv, CoverInv, RequestAccounted, Queued
<1>2. QED
  BY Invariance, <1>1, PTL

\* The one-slot channel with its non-blocking sends loses no wake-up.
THEOREM WakeupsAreKept == Spec => []NoLostWakeup
<1>1. TypeOK /\ LoopInv => NoLostWakeup
  BY DEF LoopInv, WakeInv, Awake, NoLostWakeup
<1>2. QED
  BY Invariance, <1>1, PTL

\* No done channel is closed twice.
THEOREM DoneClosedOnce == Spec => []ClosedOnce
<1>1. TypeOK /\ LoopInv => ClosedOnce
  BY DEF TypeOK, LoopInv, ListsInv, ClosedOnce
<1>2. QED
  BY Invariance, <1>1, PTL

\* A reload the daemon announced to systemd is not forgotten.
THEOREM ReloadsArePending == Spec => []ReloadPending
<1>1. TypeOK /\ LoopInv => ReloadPending
  BY DEF LoopInv, ReloadInv
<1>2. QED
  BY Invariance, <1>1, PTL

\* The loop never waits for a unit whose ExecStartPre waits for the loop, when
\* the cycle that restarts the unit is the one that rewrote its section.
THEOREM UnitsAreNotQueued == Spec => []UnitAnsweredAtOnce
<1>1. TypeOK /\ LoopInv => UnitAnsweredAtOnce
  BY DEF LoopInv, UnitInv, UnitAnsweredAtOnce
<1>2. QED
  BY Invariance, <1>1, PTL
=============================================================================
