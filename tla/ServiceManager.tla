--------------------------- MODULE ServiceManager ---------------------------
(***************************************************************************)
(* services.ServiceManager (internal/services/manager.go) on a legacy      *)
(* host: one restart queue, shared by the restart policy of the main loop  *)
(* ("loop") and the watchdog ("wd"), and the pass over it.  A pass holds   *)
(* the manager's mutex from its beginning to its end.                      *)
(*                                                                         *)
(* A pass goes in rounds.  A round tries every service that was queued     *)
(* when it began, in start order; a round that removed no service from the *)
(* queue is the last one.  The reasons kept with a queued service are only *)
(* logged and are left out.                                                *)
(***************************************************************************)
EXTENDS Naturals

CONSTANTS
  Services,
  StartOrder,         \* [Services -> Nat], ties broken by name
  Always,             \* dependents restarted whatever their status (amavis)
  LocalKeys,          \* services whose SERVICE_ key is true in localconfig
  Reloaded,           \* services that reload instead of restarting (mta)
  MaxFailedRestarts

ASSUME ManagerAssumption ==
  /\ StartOrder \in [Services -> Nat]
  /\ \A s, t \in Services : StartOrder[s] = StartOrder[t] => s = t
  /\ Always \cup LocalKeys \cup Reloaded \subseteq Services
  /\ MaxFailedRestarts \in Nat \ {0}

VARIABLES
  queue,     \* RestartQueue
  deps,      \* Dependencies, with the sections read as services
  mu,        \* who holds the mutex during a pass
  pass,      \* the local variables of ProcessRestarts
  up,        \* the services that run
  dry        \* the daemon was started with --disable-restarts

managerVars == <<queue, deps, mu, pass, up, dry>>

Callers == {"loop", "wd"}

\* "start" and "done" are history: what was queued when the pass began and
\* what it restarted.
NoPass == [start |-> {}, todo |-> {}, current |-> {}, done |-> {},
           failed |-> [s \in Services |-> 0], progress |-> FALSE]

ManagerInit == queue = {} /\ mu = "none" /\ pass = NoPass

\* AddRestartWithReasons and AddRestart.
AddRestart(s) ==
  /\ mu = "none"
  /\ queue' = queue \cup {s}
  /\ UNCHANGED <<deps, mu, pass, up, dry>>

SetDependencies(map) ==
  /\ mu = "none"
  /\ deps' = map
  /\ UNCHANGED <<queue, mu, pass, up, dry>>

-----------------------------------------------------------------------------
(* ProcessRestarts.                                                        *)

\* clearRestartsLocked: with --disable-restarts the queue is only logged.
DryRun ==
  /\ mu = "none" /\ dry
  /\ queue' = {}
  /\ UNCHANGED <<deps, mu, pass, up, dry>>

\* The mutant lets the main loop ignore --disable-restarts.
AllowedForLoop(p) == p = "loop" \/ ~dry

Allowed(p) == ~dry

BeginPass(p) ==
  /\ mu = "none" /\ Allowed(p)
  /\ mu' = p
  /\ pass' = [NoPass EXCEPT !.start = queue, !.todo = queue]
  /\ UNCHANGED <<queue, deps, up, dry>>

First(s, S) == s \in S /\ \A t \in S : StartOrder[s] <= StartOrder[t]

\* The service that the round restarts next is stopped, unless it reloads.
\* A service is in the round once, so it is still queued and was not handled.
Attempt(p, s) ==
  /\ mu = p /\ pass.current = {} /\ First(s, pass.todo)
  /\ pass' = [pass EXCEPT !.todo = @ \ {s}, !.current = {s}]
  /\ up' = up \ ({s} \ Reloaded)
  /\ UNCHANGED <<queue, deps, mu, dry>>

\* addDependencyRestarts: only the watchdog gives a lookup to cascade with,
\* and the lookup of the daemon reads localconfig.
Cascade(p, s) == IF p = "wd" THEN deps[s] \cap (Always \cup LocalKeys) ELSE {}

\* The mutant leaves the restarted service in the queue.
DequeueNone(s) == queue

Dequeue(s) == queue \ {s}

Succeed(p, s) ==
  /\ mu = p /\ pass.current = {s}
  /\ s \in Reloaded => s \in up
  /\ up' = up \cup {s}
  /\ queue' = Dequeue(s) \cup Cascade(p, s)
  /\ pass' = [pass EXCEPT !.current = {}, !.done = @ \cup {s},
                          !.failed[s] = 0, !.progress = TRUE]
  /\ UNCHANGED <<deps, mu, dry>>

\* What a failed attempt makes of the count.  One mutant forgets the failures
\* of a service that it drops, one counts down.
CountDown(s) == pass.failed[s] - 1

CountUnlessDropped(s) ==
  IF pass.failed[s] + 1 >= MaxFailedRestarts THEN 0 ELSE pass.failed[s] + 1

Count(s) == pass.failed[s] + 1

\* A service that failed MaxFailedRestarts times in this pass is dropped.
Dropped(s) == pass.failed[s] + 1 >= MaxFailedRestarts

Fail(p, s) ==
  /\ mu = p /\ pass.current = {s}
  /\ queue' = IF Dropped(s) THEN queue \ {s} ELSE queue
  /\ pass' = [pass EXCEPT !.current = {}, !.failed[s] = Count(s),
                          !.progress = @ \/ Dropped(s)]
  /\ UNCHANGED <<deps, mu, up, dry>>

RoundOver(p) == mu = p /\ pass.current = {} /\ pass.todo = {}

NextRound(p) ==
  /\ RoundOver(p) /\ queue # {} /\ pass.progress
  /\ pass' = [pass EXCEPT !.todo = queue, !.progress = FALSE]
  /\ UNCHANGED <<queue, deps, mu, up, dry>>

\* ErrRestartsFailed.
Unrecovered == queue \cup {s \in Services : pass.failed[s] > 0}

EndPass(p) ==
  /\ RoundOver(p) /\ (queue = {} \/ ~pass.progress)
  /\ mu' = "none" /\ pass' = NoPass
  /\ UNCHANGED <<queue, deps, up, dry>>

\* A shutdown ends the pass at once, cutting short what it is restarting.  The
\* mutant only cuts the restart short.
InterruptRestart(p) ==
  /\ mu = p /\ pass.current # {}
  /\ pass' = [pass EXCEPT !.current = {}]
  /\ UNCHANGED <<queue, deps, mu, up, dry>>

Interrupt(p) ==
  /\ mu = p
  /\ mu' = "none" /\ pass' = NoPass
  /\ UNCHANGED <<queue, deps, up, dry>>

\* What restarting roots can cascade into through map: the services of every
\* set that holds the roots and is closed under map.  The mutant only has the
\* dependents of the roots.
DirectDependents(map, roots) == (UNION {map[s] : s \in roots}) \ roots

DependencyClosure(map, roots) ==
  {s \in Services \ roots :
     \A S \in SUBSET Services :
       roots \subseteq S /\ (\A t \in S : map[t] \subseteq S) => s \in S}
=============================================================================
