--------------------------- MODULE WatchdogProofs ---------------------------
(***************************************************************************)
(* Theorems about the shared restart queue, for every set of services,     *)
(* start order, dependency map and bound: a pass restarts only what the    *)
(* closure announces, reports success only if all was restarted, and a     *)
(* tick of the watchdog restarts nothing twice, unless a retry of the      *)
(* first run has tracked it again.                                         *)
(***************************************************************************)
EXTENDS Watchdog, TLAPS

\* A leaf that names no prover is tried with each of these, for a minute.
USE SMTT(60), ZenonT(60), Z3T(60)

-----------------------------------------------------------------------------
(* The steps, by what they do to the manager.                              *)

\* Every step is one of the manager's operations or leaves it alone.
ManagerStep ==
  \/ \E s \in Services : AddRestart(s)
  \/ \E map \in DepMaps : SetDependencies(map)
  \/ DryRun
  \/ \E p \in Callers : BeginPass(p) \/ NextRound(p) \/ EndPass(p) \/ (cancelled /\ Interrupt(p))
  \/ \E p \in Callers, s \in Services : Attempt(p, s) \/ Succeed(p, s) \/ Fail(p, s)
  \/ UNCHANGED <<queue, deps, mu, pass>>

TargetInv == {target, wanted, on, tracked} \subseteq SUBSET Services

\* The steps of the loop that leave the manager alone.
Apart == LoopLoad \/ LoopPlanFails \/ LoopPlan \/ LoopDisabled \/ LoopExit

LEMMA StepIsManagerStep ==
  ASSUME TargetInv, [Next]_vars PROVE ManagerStep
<1>1. CASE LoopDeps \/ LoopQueue \/ LoopProcess \/ LoopEnd
  BY <1>1 DEF LoopDeps, LoopQueue, LoopProcess, LoopEnd, ManagerStep, Callers, TargetInv
<1>5. CASE Apart
  BY <1>5, ZenonT(60) DEF Apart, LoopLoad, LoopPlanFails, LoopPlan, LoopDisabled, LoopExit, ManagerStep,
              managerVars
<1>2. CASE Wd
  BY <1>2 DEF Wd, WdProbe, WdList, WdCheck, WdCheckFails, WdTake, WdQueue, WdProcess,
              WdEnd, WdRewatch, WdRearm, ManagerStep, managerVars, Callers, TargetInv
<1>3. CASE \E p \in Callers : Restarting(p)
  BY <1>3 DEF Restarting, Try, TrySucceeds, TryFails, TryAgain, ManagerStep
<1>4. CASE Cancel \/ (\E s \in Services : Crash(s)) \/ UNCHANGED vars
  BY <1>4 DEF Cancel, Crash, vars, managerVars, ManagerStep
<1> QED BY <1>1, <1>2, <1>3, <1>4, <1>5 DEF Next, Loop, Apart

LEMMA TargetStep ==
  ASSUME TargetInv, list \subseteq Services, [Next]_vars PROVE TargetInv'
<1>1. CASE LoopLoad \/ LoopDeps \/ LoopPlanFails
  BY <1>1 DEF LoopLoad, LoopDeps, LoopPlanFails, TargetInv, watchVars
<1>4. CASE LoopPlan
  <2>1. tracked' \in {tracked, tracked \cup on} /\ target' = target /\ on' = on
    BY <1>4 DEF LoopPlan, watchVars
  <2>2. PICK changed \in SUBSET Services : wanted' = wanted \cup Toggled \cup changed
    BY <1>4, ZenonT(60) DEF LoopPlan
  <2>3. Toggled \subseteq Services
    BY DEF Toggled, TargetInv
  <2> QED BY <2>1, <2>2, <2>3 DEF TargetInv
<1>5. CASE LoopDisabled \/ LoopQueue \/ LoopProcess \/ LoopEnd \/ LoopExit
  BY <1>5 DEF LoopDisabled, LoopQueue, LoopProcess, LoopEnd, LoopExit, TargetInv, watchVars
<1>2. CASE Wd
  BY <1>2 DEF Wd, WdProbe, WdList, WdCheck, WdCheckFails, WdTake, WdQueue, WdProcess,
              WdEnd, WdRewatch, WdRearm, TargetInv, loopVars
<1>3. CASE ~Loop /\ ~Wd
  BY <1>3 DEF Next, Restarting, Try, TrySucceeds, TryFails, TryAgain, Cancel, Crash, vars,
              watchVars, loopVars, TargetInv
<1> QED BY <1>1, <1>2, <1>3, <1>4, <1>5 DEF Loop

LEMMA ListStep ==
  ASSUME list \subseteq Services, monitored \subseteq Services, [Next]_vars
  PROVE  list' \subseteq Services /\ monitored' \subseteq Services
<1>1. CASE Loop
  BY <1>1, WatchdogAssumption, ZenonT(60) DEF Loop, LoopLoad, LoopDeps, LoopPlanFails, LoopPlan,
     UpdateWatchdogServices, LoopDisabled, LoopQueue, LoopProcess, LoopEnd, LoopExit, watchVars
<1>2. CASE Wd
  BY <1>2 DEF Wd, WdProbe, WdList, WdCheck, WdCheckFails, WdTake, WdQueue, WdProcess,
              WdEnd, WdRewatch, WdRearm
<1>3. CASE ~Loop /\ ~Wd
  BY <1>3 DEF Next, Restarting, Try, TrySucceeds, TryFails, TryAgain, Cancel, Crash, vars, watchVars
<1> QED BY <1>1, <1>2, <1>3

-----------------------------------------------------------------------------
(* A pass.                                                                 *)

Announced == pass.start \cup DependencyClosure(deps, pass.start)

\* A pass leaves no service behind: what was queued when it began is queued,
\* restarted or counted as failed; and it stays within the closure.
PassInv ==
  /\ queue \subseteq Services /\ deps \in [Services -> SUBSET Services]
  /\ pass \in [start : SUBSET Services, todo : SUBSET Services, current : SUBSET Services,
               done : SUBSET Services, failed : [Services -> Nat], progress : BOOLEAN]
  /\ mu # "none" =>
       /\ pass.current \cup pass.todo \subseteq queue /\ pass.current \cap pass.todo = {}
       /\ pass.start \subseteq queue \cup pass.done \cup {s \in Services : pass.failed[s] > 0}
       /\ queue \cup pass.done \subseteq Announced

\* The closure is closed.
LEMMA ClosureIsClosed ==
  ASSUME NEW map \in [Services -> SUBSET Services], NEW roots \in SUBSET Services,
         NEW s \in roots \cup DependencyClosure(map, roots), NEW t \in map[s]
  PROVE  t \in roots \cup DependencyClosure(map, roots)
<1>1. s \in Services /\ t \in Services
  BY DEF DependencyClosure
<1>2. SUFFICES ASSUME t \notin roots PROVE t \in DependencyClosure(map, roots)
  OBVIOUS
<1>3. ASSUME NEW S \in SUBSET Services, roots \subseteq S, \A u \in S : map[u] \subseteq S
      PROVE  t \in S
  <2>1. s \in S
    BY <1>3 DEF DependencyClosure
  <2> QED BY <1>3, <2>1
<1> QED BY <1>1, <1>2, <1>3 DEF DependencyClosure

LEMMA PassStep ==
  ASSUME PassInv, ManagerStep PROVE PassInv'
<1>0. NoPass \in [start : SUBSET Services, todo : SUBSET Services, current : SUBSET Services,
                  done : SUBSET Services, failed : [Services -> Nat], progress : BOOLEAN]
  BY DEF NoPass
<1>1. CASE \E s \in Services : AddRestart(s)
  BY <1>1 DEF AddRestart, PassInv
<1>2. CASE \E map \in DepMaps : SetDependencies(map)
  BY <1>2, WatchdogAssumption DEF SetDependencies, PassInv
<1>3. CASE DryRun
  BY <1>3 DEF DryRun, PassInv
<1>4. ASSUME NEW p \in Callers, BeginPass(p) PROVE PassInv'
  BY <1>0, <1>4, ZenonT(60) DEF BeginPass, PassInv, Announced, NoPass
<1>5. ASSUME NEW p \in Callers, NextRound(p) PROVE PassInv'
  BY <1>5, ZenonT(60) DEF NextRound, RoundOver, PassInv, Announced
<1>6. ASSUME NEW p \in Callers, EndPass(p) \/ Interrupt(p) PROVE PassInv'
  BY <1>0, <1>6 DEF EndPass, Interrupt, PassInv
<1>7. ASSUME NEW p \in Callers, NEW s \in Services, Attempt(p, s) PROVE PassInv'
  BY <1>7, ZenonT(60) DEF Attempt, First, PassInv, Announced
<1>8. ASSUME NEW p \in Callers, NEW s \in Services, Succeed(p, s) PROVE PassInv'
  <2>1. /\ mu = p /\ mu' = p /\ mu # "none" /\ s \in queue /\ deps' = deps
        /\ pass.current = {s} /\ queue' = (queue \ {s}) \cup Cascade(p, s)
    BY <1>8 DEF Succeed, Dequeue, PassInv, Callers
  <2>2. /\ pass'.start = pass.start /\ pass'.todo = pass.todo /\ pass'.current = {}
        /\ pass'.done = pass.done \cup {s} /\ pass'.failed = [pass.failed EXCEPT ![s] = 0]
        /\ pass'.progress = TRUE
    BY <1>8 DEF Succeed, PassInv
  <2>3. pass' \in [start : SUBSET Services, todo : SUBSET Services, current : SUBSET Services,
                   done : SUBSET Services, failed : [Services -> Nat], progress : BOOLEAN]
    BY <1>8, ZenonT(60) DEF Succeed, PassInv
  <2>4. Cascade(p, s) \subseteq Announced /\ Cascade(p, s) \subseteq Services
    BY <2>1, ClosureIsClosed DEF Cascade, PassInv, Announced
  <2>5. s \notin pass.todo
    BY <2>1 DEF PassInv
  <2>6. Announced' = Announced
    BY <2>1, <2>2 DEF Announced
  <2>7. pass'.start \subseteq queue' \cup pass'.done \cup {t \in Services : pass'.failed[t] > 0}
    BY <2>1, <2>2 DEF PassInv
  <2>8. pass'.current \cup pass'.todo \subseteq queue' /\ pass'.current \cap pass'.todo = {}
    BY <2>1, <2>2, <2>5 DEF PassInv
  <2>9. queue' \cup pass'.done \subseteq Announced
    BY <2>1, <2>2, <2>4 DEF PassInv
  <2> QED BY <2>1, <2>3, <2>4, <2>6, <2>7, <2>8, <2>9 DEF PassInv
<1>9. ASSUME NEW p \in Callers, NEW s \in Services, Fail(p, s) PROVE PassInv'
  <2>1. /\ mu = p /\ mu' = p /\ mu # "none" /\ s \in queue /\ deps' = deps
        /\ pass.current = {s} /\ queue' \in {queue, queue \ {s}}
    BY <1>9 DEF Fail, PassInv, Callers
  <2>2. /\ pass'.start = pass.start /\ pass'.todo = pass.todo /\ pass'.current = {}
        /\ pass'.done = pass.done
        /\ pass'.failed = [pass.failed EXCEPT ![s] = pass.failed[s] + 1]
    BY <1>9 DEF Fail, Count, PassInv
  <2>3. pass' \in [start : SUBSET Services, todo : SUBSET Services, current : SUBSET Services,
                   done : SUBSET Services, failed : [Services -> Nat], progress : BOOLEAN]
    <3> DEFINE b == pass.progress \/ Dropped(s)
    <3>1. b \in BOOLEAN
      OBVIOUS
    <3>2. pass' = [pass EXCEPT !.current = {}, !.failed[s] = pass.failed[s] + 1, !.progress = b]
      BY <1>9 DEF Fail, Count
    <3> DEFINE f == [pass.failed EXCEPT ![s] = pass.failed[s] + 1]
    <3>3. f \in [Services -> Nat]
      BY DEF PassInv
    <3>4. pass' = [pass EXCEPT !.current = {}, !.failed = f, !.progress = b]
      BY <3>2
    <3> HIDE DEF b, f
    <3> QED BY <3>1, <3>3, <3>4, ZenonT(60) DEF PassInv
  <2>4. s \notin pass.todo
    BY <2>1 DEF PassInv
  <2>5. Announced' = Announced
    BY <2>1, <2>2 DEF Announced
  <2>6. pass'.start \subseteq queue' \cup pass'.done \cup {t \in Services : pass'.failed[t] > 0}
    BY <2>1, <2>2 DEF PassInv
  <2> QED BY <2>1, <2>2, <2>3, <2>4, <2>5, <2>6 DEF PassInv
<1>10. CASE UNCHANGED <<queue, deps, mu, pass>>
  BY <1>10 DEF PassInv, Announced
<1> QED BY <1>1, <1>2, <1>3, <1>4, <1>5, <1>6, <1>7, <1>8, <1>9, <1>10 DEF ManagerStep

\* The invariant of the whole, for the pass and for what the callers hold.
SharedInv ==
  /\ TargetInv /\ list \subseteq Services /\ monitored \subseteq Services
  /\ PassInv

LEMMA SharedInvariant == Spec => []SharedInv
<1>1. Init => SharedInv
  BY WatchdogAssumption DEF Init, ManagerInit, NoPass, SharedInv, TargetInv, PassInv
<1>2. SharedInv /\ [Next]_vars => SharedInv'
  BY StepIsManagerStep, TargetStep, ListStep, PassStep DEF SharedInv
<1> QED BY <1>1, <1>2, PTL DEF Spec

\* A pass restarts nothing that DependencyClosure does not announce for what
\* was queued, so the hooks checked when configd.cf is loaded are all it can
\* need (ProcessRestarts, DependencyClosure).
THEOREM CascadesAreAnnounced == Spec => []CascadeInClosure
<1>1. SharedInv => CascadeInClosure
  BY DEF SharedInv, PassInv, Announced, CascadeInClosure
<1> QED BY <1>1, SharedInvariant, PTL

\* ProcessRestarts does not report success to the watchdog unless everything
\* that was queued has been restarted.
THEOREM SuccessIsReal == Spec => OkMeansRestarted
<1>1. SharedInv /\ [Next]_vars =>
        [wpc = "pass" /\ mu = "wd" /\ mu' = "none" /\ ~cancelled /\ Unrecovered = {} =>
           queue' = {} /\ pass.start \subseteq pass.done]_vars
  <2> SUFFICES ASSUME SharedInv, [Next]_vars, mu = "wd", mu' = "none", ~cancelled,
                      Unrecovered = {}
               PROVE  queue' = {} /\ pass.start \subseteq pass.done
    OBVIOUS
  <2>1. ManagerStep
    BY StepIsManagerStep DEF SharedInv
  <2>2. \E p \in Callers : EndPass(p)
    BY <2>1 DEF ManagerStep, AddRestart, SetDependencies, DryRun, BeginPass, NextRound,
                Attempt, Succeed, Fail, Callers
  <2>3. queue' = queue
    BY <2>2 DEF EndPass
  <2>4. queue = {} /\ {s \in Services : pass.failed[s] > 0} = {}
    BY DEF Unrecovered
  <2> QED BY <2>3, <2>4 DEF SharedInv, PassInv
<1> QED BY <1>1, SharedInvariant, PTL DEF Spec, OkMeansRestarted

-----------------------------------------------------------------------------
(* A tick.                                                                 *)

\* What the tick has restarted and has still on its list is not tracked, or a
\* retry of the first run has tracked it again.
TickInv ==
  /\ served \cap watched \cap list \subseteq retracked /\ target \cap list = {}
  /\ wpc \in {"idle", "list"} => served = {}
  /\ wpc \in {"idle", "list", "check"} => target = {}
  /\ mu = "wd" => wpc = "pass"

LEMMA TickStep ==
  ASSUME TickInv, [Next]_vars PROVE TickInv'
<1>1. CASE LoopPlan
  <2>1. /\ served' = served /\ list' = list /\ target' = target /\ wpc' = wpc /\ mu' = mu
    BY <1>1 DEF LoopPlan, managerVars, watchVars
  <2>2. \/ watched' = watched /\ retracked' = retracked
        \/ \E again : /\ watched' = watched \cup again
                      /\ retracked' = retracked \cup ((again \cap served) \ watched)
    BY <1>1 DEF LoopPlan, UpdateWatchdogServices
  <2> QED BY <2>1, <2>2 DEF TickInv
<1>2. CASE LoopLoad \/ LoopExit \/ LoopPlanFails \/ LoopDisabled
  BY <1>2 DEF LoopLoad, LoopExit, LoopPlanFails, LoopDisabled, TickInv, managerVars, watchVars, historyVars
<1>3. CASE LoopDeps \/ LoopQueue
  BY <1>3 DEF LoopDeps, LoopQueue, SetDependencies, AddRestart, TickInv, watchVars, historyVars
<1>4. CASE LoopProcess \/ LoopEnd
  BY <1>4 DEF LoopProcess, LoopEnd, LoopExit, BeginPass, DryRun, EndPass, Interrupt, TickInv, watchVars,
              historyVars
<1>5. CASE WdProbe \/ WdList \/ WdTake \/ WdRearm \/ WdRewatch
  BY <1>5 DEF WdProbe, WdList, WdTake, WdRearm, WdRewatch, TickInv, managerVars, loopVars,
              historyVars
<1>10. CASE WdCheck \/ WdCheckFails
  BY <1>10 DEF WdCheck, WdCheckFails, TickInv, managerVars, loopVars, historyVars
<1>6. CASE WdQueue \/ WdProcess \/ WdEnd
  BY <1>6 DEF WdQueue, WdProcess, WdEnd, AddRestart, BeginPass, DryRun, EndPass, Interrupt,
              AfterPass, TickInv, loopVars, historyVars
<1>7. ASSUME NEW p \in Callers, Try(p) PROVE TickInv'
  BY <1>7 DEF Try, Attempt, BeforeRestart, TickInv, loopVars, watchVars
<1>8. ASSUME NEW p \in Callers, TrySucceeds(p) \/ TryFails(p) \/ TryAgain(p) PROVE TickInv'
  BY <1>8, ZenonT(60) DEF TrySucceeds, TryFails, TryAgain, Succeed, Fail, NextRound, TickInv, loopVars,
              watchVars, historyVars
<1>9. CASE Cancel \/ (\E s \in Services : Crash(s)) \/ UNCHANGED vars
  BY <1>9 DEF Cancel, Crash, vars, TickInv, managerVars, loopVars, watchVars, historyVars
<1> QED BY <1>1, <1>2, <1>3, <1>4, <1>5, <1>6, <1>7, <1>8, <1>9, <1>10
        DEF Next, Loop, Wd, Restarting

\* A tick does not restart again, from its old process table, what one of its
\* own passes tried to restart, unless a retry of the first run has tracked it
\* again since (BeforeRestart, checkOneService, updateWatchdogServices).
THEOREM TicksDoNotRepeat == Spec => OncePerTick
<1>1. Init => TickInv
  BY DEF Init, ManagerInit, TickInv
<1>2. TickInv /\ [Next]_vars => TickInv'
  BY TickStep
<1>3. TickInv /\ [Next]_vars =>
        [wpc = "check" /\ wpc' = "take" => target' \cap served \subseteq retracked]_vars
  <2> SUFFICES ASSUME TickInv, [Next]_vars, wpc = "check", wpc' = "take"
               PROVE  target' \cap served \subseteq retracked
    OBVIOUS
  <2>1. WdCheck
    BY ZenonT(60) DEF Next, Loop, LoopLoad, LoopDeps, LoopPlanFails, LoopPlan, LoopDisabled, LoopQueue,
           LoopProcess, LoopEnd, LoopExit, Wd, WdProbe, WdList, WdCheckFails, WdTake, WdQueue, WdProcess, WdEnd, WdRewatch,
           WdRearm, Restarting,
           Try, TrySucceeds, TryFails, TryAgain, Cancel, Crash, vars, watchVars
  <2> QED BY <2>1 DEF WdCheck, Down, TickInv
<1> QED BY <1>1, <1>2, <1>3, PTL DEF Spec, OncePerTick
=============================================================================
