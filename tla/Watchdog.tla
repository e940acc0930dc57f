------------------------------ MODULE Watchdog ------------------------------
(***************************************************************************)
(* The watchdog (internal/watchdog/watchdog.go) and the main loop around   *)
(* the service manager they share, on a legacy host.  The main loop sets   *)
(* the dependencies in every cycle, queues the restarts of its plan and    *)
(* processes the queue; the watchdog probes the monitored services and     *)
(* restarts the tracked ones that are down.  A service that the manager    *)
(* restarts is no longer tracked (BeforeRestart) until a later tick sees   *)
(* it running.  The first run is retried until a cycle gets to its end, and *)
(* every attempt that has a plan tracks the services again.  The debounce   *)
(* period is zero; RestartPolicy has the others.                           *)
(***************************************************************************)
EXTENDS ServiceManager, FiniteSets

CONSTANTS
  Monitored,     \* zmconfigd_watchdog_services
  DepMaps,       \* the DEPENDS that configd.cf may have
  Settings,      \* what --disable-restarts, zmconfigd_enable_config_restarts
                 \* and zmconfigd_skip_idle_polls may be
  MaxRequests,   \* bound on cycles whose plan restarts services
  MaxChanges,    \* bound on changes of zimbraServiceEnabled and the settings
  MaxCrashes,    \* bound on services that crash
  MaxFaults,     \* bound on restarts, probes, plans and rewrites that fail
  MayStop        \* the daemon may be shut down

ASSUME WatchdogAssumption ==
  /\ Monitored \subseteq Services
  /\ DepMaps \subseteq [Services -> SUBSET Services] /\ DepMaps # {}
  /\ Settings \subseteq [dry : BOOLEAN, enabled : BOOLEAN, skip : BOOLEAN] /\ Settings # {}
  /\ {MaxRequests, MaxChanges, MaxCrashes, MaxFaults} \subseteq Nat
  /\ MayStop \in BOOLEAN

VARIABLES
  lpc,         \* the main loop: load, deps, plan, queue, pass or exited
  firstRun,    \* State.FirstRun
  wanted,      \* the restarts of the plan that are not queued yet, or carried
  on,          \* zimbraServiceEnabled in the published snapshot
  tracked,     \* the services that the plans of the first run tracked
  enabled,     \* zmconfigd_enable_config_restarts
  skip,        \* zmconfigd_skip_idle_polls
  monitored,   \* Watchdog.serviceEnabled
  watched,     \* State.WatchdogProcess
  wpc,         \* the watchdog: idle, list, check, take, queue, process, pass, rewatch
  probe,       \* the tick's process table and the services recorded from it
  list,        \* the services left to check
  target,      \* the service being restarted by the watchdog
  cancelled,   \* the context is done
  served,      \* history: services that the passes of this tick tried
  retracked,   \* history: those of served that the first run tracked again
  left,        \* history: services dropped with nobody to restart them
  budget       \* requests, changes, crashes and faults so far

settingVars == <<enabled, skip>>
loopVars    == <<lpc, firstRun, wanted, on, tracked, settingVars>>
watchVars   == <<wpc, probe, list, target>>
historyVars == <<served, retracked, left>>
vars == <<loopVars, monitored, watched, watchVars, cancelled, historyVars, budget,
          managerVars>>

NoProbe == [asked |-> {}, table |-> {}]

Spend(what) == budget' = [budget EXCEPT ![what] = @ + 1]

Init ==
  /\ ManagerInit /\ deps \in DepMaps /\ up = Services
  /\ \E s \in Settings : dry = s.dry /\ enabled = s.enabled /\ skip = s.skip
  /\ lpc = "load" /\ firstRun = TRUE /\ wanted = {} /\ on = Services /\ tracked = {}
  /\ monitored = {} /\ watched = {}
  /\ wpc = "idle" /\ probe = NoProbe /\ list = {} /\ target = {}
  /\ cancelled = FALSE
  /\ served = {} /\ retracked = {} /\ left = {}
  /\ budget = [request |-> 0, change |-> 0, crash |-> 0, fault |-> 0]

-----------------------------------------------------------------------------
(* The outside.                                                            *)

Crash(s) ==
  /\ budget.crash < MaxCrashes /\ s \in up
  /\ up' = up \ {s}
  /\ Spend("crash")
  /\ UNCHANGED <<queue, deps, mu, pass, dry, loopVars, monitored, watched,
                 watchVars, cancelled, historyVars>>

\* SIGTERM.
Cancel ==
  /\ MayStop /\ ~cancelled /\ cancelled' = TRUE
  /\ UNCHANGED <<managerVars, loopVars, monitored, watched, watchVars, historyVars, budget>>

-----------------------------------------------------------------------------
(* A pass, by whoever holds the mutex.                                     *)

\* BeforeRestart: the mutant keeps watching.
KeepWatching(s) == watched

BeforeRestart(s) == watched \ {s}

Try(p) ==
  /\ ~cancelled
  /\ \E s \in Services :
       /\ Attempt(p, s)
       /\ watched' = BeforeRestart(s)
       /\ served' = IF p = "wd" THEN served \cup {s} ELSE served
       /\ retracked' = retracked \ {s}
  /\ UNCHANGED <<loopVars, monitored, watchVars, cancelled, left, budget>>

TrySucceeds(p) ==
  /\ \E s \in Services :
       /\ Succeed(p, s)
       /\ left' = left \ {s}
  /\ UNCHANGED <<loopVars, monitored, watched, watchVars, cancelled, served, retracked, budget>>

\* A reload of a service that does not run always fails.
TryFails(p) ==
  /\ ~cancelled
  /\ \E s \in Services :
       /\ Fail(p, s)
       /\ IF s \in Reloaded \ up THEN UNCHANGED budget
                                 ELSE budget.fault < MaxFaults /\ Spend("fault")
       /\ left' = IF Dropped(s) /\ s \notin target THEN left \cup {s} ELSE left
  /\ UNCHANGED <<loopVars, monitored, watched, watchVars, cancelled, served, retracked>>

TryAgain(p) ==
  /\ ~cancelled /\ NextRound(p)
  /\ UNCHANGED <<loopVars, monitored, watched, watchVars, cancelled, historyVars, budget>>

Restarting(p) == Try(p) \/ TrySucceeds(p) \/ TryFails(p) \/ TryAgain(p)

-----------------------------------------------------------------------------
(* The main loop.                                                          *)

\* A cycle publishes its snapshot.
LoopLoad ==
  /\ lpc = "load" /\ lpc' = "deps" /\ ~cancelled
  /\ \/ UNCHANGED <<on, settingVars, budget>>
     \/ /\ budget.change < MaxChanges /\ Spend("change")
        /\ \/ on' \in SUBSET Services \ {on} /\ UNCHANGED settingVars
           \/ /\ \E s \in Settings : s.dry = dry /\ enabled' = s.enabled /\ skip' = s.skip
              /\ <<enabled', skip'>> # settingVars /\ UNCHANGED on
  /\ UNCHANGED <<managerVars, firstRun, wanted, tracked, monitored, watched, watchVars,
                 cancelled, historyVars>>

\* buildServiceDependencies.
LoopDeps ==
  /\ lpc = "deps" /\ lpc' = "plan"
  /\ \E map \in DepMaps : SetDependencies(map)
  /\ UNCHANGED <<firstRun, wanted, on, tracked, settingVars, monitored, watched, watchVars,
                 cancelled, historyVars, budget>>

\* guardAllDisabled.
AllDisabled == Cardinality(tracked) > 1 /\ tracked \cap on = {}

LoopPlanFails ==
  /\ lpc = "plan" /\ lpc' = "load"
  /\ IF AllDisabled THEN UNCHANGED budget
                    ELSE budget.fault < MaxFaults /\ Spend("fault")
  /\ UNCHANGED <<managerVars, firstRun, wanted, on, tracked, settingVars, monitored, watched,
                 watchVars, cancelled, historyVars>>

\* serviceToggles: stops of what is tracked and off, starts of what is on and
\* not tracked; on a legacy host both are restarts.
Toggled == (tracked \ on) \cup (IF firstRun THEN {} ELSE on \ tracked)

\* updateWatchdogServices, in every attempt of the first run.
UpdateWatchdogServices ==
  IF firstRun
    THEN LET again == Monitored \cap tracked' IN
           /\ monitored' = Monitored
           /\ watched' = watched \cup again
           /\ retracked' = retracked \cup ((again \cap served) \ watched)
    ELSE UNCHANGED <<monitored, watched, retracked>>

\* Plan and Execute.  The restarts of a plan whose rewrites failed are carried.
LoopPlan ==
  /\ lpc = "plan" /\ ~AllDisabled
  /\ tracked' = IF firstRun THEN tracked \cup on ELSE tracked
  /\ UpdateWatchdogServices
  /\ \E changed \in SUBSET Services, failed \in BOOLEAN :
       /\ changed # {} => ~firstRun /\ budget.request < MaxRequests
       /\ failed => budget.fault < MaxFaults
       /\ wanted' = wanted \cup Toggled \cup changed
       /\ budget' = [budget EXCEPT !.request = IF changed = {} THEN @ ELSE @ + 1,
                                   !.fault = IF failed THEN @ + 1 ELSE @]
       /\ lpc' = CASE failed -> "load"
                   [] ~failed /\ cancelled -> "exited"
                   [] OTHER -> "queue"
  /\ UNCHANGED <<managerVars, firstRun, on, settingVars, watchVars, cancelled, served, left>>

\* Apply without config restarts: the plan's are carried, the queue is not run.
LoopDisabled ==
  /\ lpc = "queue" /\ ~enabled
  /\ lpc' = "load" /\ firstRun' = FALSE
  /\ UNCHANGED <<managerVars, wanted, on, tracked, settingVars, monitored, watched, watchVars,
                 cancelled, historyVars, budget>>

\* queueLegacy.
LoopQueue ==
  /\ lpc = "queue" /\ enabled
  /\ \E s \in wanted : AddRestart(s) /\ wanted' = wanted \ {s}
  /\ UNCHANGED <<lpc, firstRun, on, tracked, settingVars, monitored, watched, watchVars,
                 cancelled, historyVars, budget>>

\* Policy.process runs the queue, with no lookup.
LoopProcess ==
  /\ lpc = "queue" /\ enabled /\ wanted = {}
  /\ \/ BeginPass("loop") /\ lpc' = "pass" /\ UNCHANGED firstRun
     \/ DryRun /\ lpc' = "load" /\ firstRun' = FALSE
  /\ UNCHANGED <<wanted, on, tracked, settingVars, monitored, watched, watchVars, cancelled,
                 historyVars, budget>>

LoopEnd ==
  /\ lpc = "pass" /\ lpc' = "load" /\ firstRun' = FALSE
  /\ \/ EndPass("loop")
     \/ cancelled /\ Interrupt("loop")
  /\ UNCHANGED <<wanted, on, tracked, settingVars, monitored, watched, watchVars, cancelled,
                 historyVars, budget>>

\* RunMainLoop returns, and the deferred Stop ends the ticks of the watchdog; it
\* does not wait for the one that runs, as its context is done.
LoopExit ==
  /\ lpc = "load" /\ lpc' = "exited" /\ cancelled
  /\ UNCHANGED <<managerVars, firstRun, wanted, on, tracked, settingVars, monitored, watched,
                 watchVars, cancelled, historyVars, budget>>

Loop ==
  \/ LoopLoad \/ LoopDeps \/ LoopPlanFails \/ LoopPlan \/ LoopDisabled \/ LoopQueue
  \/ LoopProcess \/ LoopEnd \/ LoopExit

\* isIdlePoll: with zmconfigd_skip_idle_polls a cycle without an event is skipped.
Idle == lpc = "load" /\ skip /\ ~firstRun /\ ~cancelled

-----------------------------------------------------------------------------
(* The watchdog: checkServices.                                            *)

\* logServiceStatusChanges asks for the monitored services enabled on the
\* node.  All answers of a tick come from one process table; the services whose
\* probe fails are not recorded.
WdProbe ==
  /\ wpc = "idle" /\ wpc' = "list" /\ lpc # "exited"
  /\ \E unread \in SUBSET (monitored \cap on) :
       /\ \/ unread = {} /\ UNCHANGED budget
          \/ unread # {} /\ budget.fault < MaxFaults /\ Spend("fault")
       /\ probe' = [asked |-> (monitored \cap on) \ unread, table |-> up]
  /\ UNCHANGED <<managerVars, loopVars, monitored, watched, list, target, cancelled,
                 historyVars>>

\* getTrackedServices.
WdList ==
  /\ wpc = "list" /\ wpc' = "check"
  /\ list' = monitored \cap watched
  /\ UNCHANGED <<managerVars, loopVars, monitored, watched, probe, target, cancelled,
                 historyVars, budget>>

\* checkOneService: a service that was not probed is looked up in the same
\* table, and one that somebody else took over is skipped.
Down(s) == s \in monitored /\ s \notin probe.table /\ s \in watched

WdCheck ==
  /\ wpc = "check"
  /\ \E s \in list :
       /\ list' = list \ {s}
       /\ IF Down(s) THEN wpc' = "take" /\ target' = {s}
                     ELSE UNCHANGED <<wpc, target>>
  /\ UNCHANGED <<managerVars, loopVars, monitored, watched, probe, cancelled,
                 historyVars, budget>>

\* The service was not recorded, and looking it up now fails as well.
WdCheckFails ==
  /\ wpc = "check" /\ budget.fault < MaxFaults /\ Spend("fault")
  /\ \E s \in list \ probe.asked : list' = list \ {s}
  /\ UNCHANGED <<managerVars, loopVars, monitored, watched, wpc, probe, target, cancelled,
                 historyVars>>

\* restartDownService: RemoveService, AddRestart, ProcessRestarts, AddService.
WdTake ==
  /\ wpc = "take" /\ wpc' = "queue"
  /\ watched' = watched \ target
  /\ UNCHANGED <<managerVars, loopVars, monitored, probe, list, target, cancelled,
                 historyVars, budget>>

WdQueue ==
  /\ wpc = "queue" /\ wpc' = "process"
  /\ \E s \in target : AddRestart(s)
  /\ UNCHANGED <<loopVars, monitored, watched, probe, list, target, cancelled,
                 historyVars, budget>>

WdProcess ==
  /\ wpc = "process"
  /\ \/ BeginPass("wd") /\ wpc' = "pass"
     \/ DryRun /\ wpc' = "rewatch"
  /\ UNCHANGED <<loopVars, monitored, watched, probe, list, target, cancelled,
                 historyVars, budget>>

\* What becomes of the service when its pass failed; the mutant forgets it.
WatchOnSuccess(failed) == IF failed THEN "check" ELSE "rewatch"

AfterPass(failed) == "rewatch"

WdEnd ==
  /\ wpc = "pass"
  /\ \/ EndPass("wd") /\ wpc' = AfterPass(Unrecovered # {}) /\ UNCHANGED target
     \/ cancelled /\ Interrupt("wd") /\ wpc' = "check" /\ target' = {}
  /\ UNCHANGED <<loopVars, monitored, watched, probe, list, cancelled, historyVars, budget>>

WdRewatch ==
  /\ wpc = "rewatch" /\ wpc' = "check"
  /\ watched' = watched \cup target
  /\ target' = {}
  /\ UNCHANGED <<managerVars, loopVars, monitored, probe, list, cancelled, historyVars,
                 budget>>

\* rearmRunningServices: the mutant leaves them unwatched.
RearmNone == {}

Rearmed == probe.asked \cap probe.table

WdRearm ==
  /\ wpc = "check" /\ list = {} /\ wpc' = "idle"
  /\ watched' = watched \cup Rearmed
  /\ probe' = NoProbe /\ served' = {} /\ retracked' = {}
  /\ UNCHANGED <<managerVars, loopVars, monitored, list, target, cancelled, left, budget>>

Wd == WdProbe \/ WdList \/ WdCheck \/ WdCheckFails \/ WdTake \/ WdQueue \/ WdProcess
      \/ WdEnd \/ WdRewatch \/ WdRearm

-----------------------------------------------------------------------------
Next ==
  \/ Loop \/ Wd \/ Cancel
  \/ \E p \in Callers : Restarting(p)
  \/ \E s \in Services : Crash(s)

Spec == Init /\ [][Next]_vars

\* Both goroutines keep running and restarts come to an end.  The mutex hands
\* itself over to a waiter it kept waiting, so a step that needs it cannot be
\* passed over for ever.  Nothing ends a run of idle polls.
FairSpec ==
  /\ Spec
  /\ SF_vars(Loop /\ ~Idle) /\ SF_vars(Wd)
  /\ \A p \in Callers : WF_vars(Restarting(p))

-----------------------------------------------------------------------------
(* Properties.                                                             *)

TypeOK ==
  /\ {queue, up, wanted, on, tracked, monitored, watched, list, target, served, retracked,
      left}
       \subseteq SUBSET Services
  /\ deps \in DepMaps /\ mu \in {"none"} \cup Callers
  /\ pass \in [start : SUBSET Services, todo : SUBSET Services, current : SUBSET Services,
               done : SUBSET Services, failed : [Services -> Nat],
               progress : BOOLEAN]
  /\ lpc \in {"load", "deps", "plan", "queue", "pass", "exited"}
  /\ wpc \in {"idle", "list", "check", "take", "queue", "process", "pass", "rewatch"}
  /\ probe \in [asked : SUBSET Services, table : SUBSET Services]
  /\ {cancelled, firstRun} \subseteq BOOLEAN
  /\ [dry |-> dry, enabled |-> enabled, skip |-> skip] \in Settings
  /\ budget \in [request : 0..MaxRequests, change : 0..MaxChanges,
                 crash : 0..MaxCrashes, fault : 0..MaxFaults]

\* ProcessRestarts returns no error only if it restarted every service that
\* was queued when it began and left nothing queued, whatever failed and was
\* retried or queued again by a cascade in between.
OkMeansRestarted ==
  [][wpc = "pass" /\ mu = "wd" /\ mu' = "none" /\ ~cancelled /\ Unrecovered = {} =>
       queue' = {} /\ pass.start \subseteq pass.done]_vars

\* A pass restarts only what DependencyClosure announces: the services that
\* were queued and those a restart of them can cascade into.
CascadeInClosure ==
  mu # "none" =>
    queue \cup pass.done \subseteq pass.start \cup DependencyClosure(deps, pass.start)

\* What a tick tried to restart it does not restart again from its old process
\* table, unless a retry of the first run has tracked the service again since
\* (BeforeRestart, checkOneService, updateWatchdogServices).
OncePerTick ==
  [][wpc = "check" /\ wpc' = "take" => target' \cap served \subseteq retracked]_vars

\* A pass comes to an end and gives the mutex back, or the main loop and with
\* it every REWRITE client would wait for ever (ProcessRestarts).
PassEnds == \A p \in Callers : mu = p ~> mu # p

\* The loop may leave the queue alone: it does not run it with config restarts
\* off, in an idle poll, or in a cycle whose plan is refused.
LoopRests == ~enabled \/ skip \/ AllDisabled

\* A queued restart is carried out in the end, whoever queued it and however
\* often passes without progress left it in the queue, unless it is dropped or
\* cut short by a shutdown, or the loop rests.  The failures of a service are
\* counted in each pass anew, so one that fails alone is tried once in every
\* pass and is never dropped; a reload of a service that does not run fails for
\* ever (ProcessRestarts, processRestartRound).
QueueDrains ==
  \A s \in Services :
    s \in queue ~> (s \notin queue \/ s \in Reloaded \ up \/ cancelled \/ LoopRests)

\* The watchdog recovers a tracked service that is down, even if its restarts
\* fail and it is dropped; a pass that was not the watchdog's own attempt on it
\* may drop it for good, or leave it queued while the loop rests, and
\* --disable-restarts leaves it down (restartDownService).
DownIsRecovered ==
  \A s \in Services \ Reloaded :
    s \in watched \ up ~> \/ s \in up \cup left \/ cancelled \/ dry
                          \/ s \in queue \ watched /\ LoopRests

\* A monitored service that runs is watched again in the end, after whatever
\* restarts (rearmRunningServices).
WatchRestored ==
  <>[](cancelled \/ Monitored \cap on \cap up \subseteq watched)

\* With --disable-restarts no service is stopped or started, neither for a
\* configuration change nor by the watchdog (ProcessRestarts).
DryRunTouchesNothing ==
  [][dry => up' = up \/ budget'.crash > budget.crash]_vars

\* After a shutdown the restarts come to an end: a pass is cut short, the loop
\* exits and the watchdog is stopped (interruptedRestarts, RunMainLoop).
ShutdownEndsRestarts == cancelled ~> [](mu = "none")

\* "the watchdog never queues a second restart while one runs": it does not
\* decide to restart a service that the manager is restarting.  The end of a
\* tick tracks what its old process table shows running, so a service that a
\* cycle stopped since is tracked and the next tick finds it down
\* (rearmRunningServices).
NoSecondRestart ==
  [][wpc = "check" /\ wpc' = "take" => target' \cap pass.current = {}]_vars
=============================================================================
