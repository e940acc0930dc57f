# A TLA+ model of carbonio-configd

carbonio-configd keeps the configuration files of a Carbonio node in line with LDAP and
localconfig and restarts the services a change concerns. This directory holds TLA+
modules of the parts of the daemon in which goroutines, failures and retries meet, TLC
configurations that check them on small instances, and TLAPS proofs for every value of
the constants. `PROJECT.json` lists the parts, the source lines behind each definition,
the runs, the hazards and the theorems. Paths below are relative to the repository.

## The system and its parts

| part | source | what it does |
|---|---|---|
| main loop | `cmd/configd/mainloop.go`, `signals.go` | one iteration after another: load, plan, execute, apply restarts, start the listener, sleep; woken through a one-slot reload channel |
| REWRITE server | `internal/network` | every connection is a goroutine that queues sections with the loop and waits for the cycle that writes them |
| configuration cycle | `internal/configmgr`, `internal/plan` | compares a snapshot with the previous one, plans the sections that changed, writes their items, carries to the next cycle what failed |
| restart policy | `internal/restart` | applies the restarts of a plan now, debounced or not at all; retries and gives up |
| service manager | `internal/services` | on hosts without systemd: a restart queue shared by the main loop and the watchdog, with retries and cascades along DEPENDS |
| watchdog | `internal/watchdog` | probes the monitored services every tick and restarts the tracked ones that are down |
| loading | `configmgr/manager_load*.go`, `internal/cache`, `internal/ldap` | four concurrent loaders with timeouts, retries, a cache and a connection pool |
| LDAP watcher | `internal/ldapwatch` | polls or streams the directory and sends a token to the loop |
| localconfig, atomic writes | `internal/localconfig`, `internal/fileutil` | locked read-modify-write of the local configuration |
| service lifecycle, CLIs | `internal/services`, `internal/cli` | starting, stopping and probing services; `configd rewrite`, `control`, `plan`, ... |
| text | `internal/parser`, `transformer`, `template`, `proxy`, `mtaops` | parsing of configd.cf, templates, proxy configuration, postconf |

The loop is the centre. REWRITE handlers, the signal handler and the LDAP watcher talk
to it only through the reload channel, the event counter, the queue of requested
sections and two lists of waiting clients. The units that a cycle restarts call back:
their `ExecStartPre` sends a REWRITE to the daemon that is waiting for them. On a host
without systemd the loop hands its restarts to the service manager, whose queue and
mutex it shares with the watchdog.

## Modules

| module | models | state and actions |
|---|---|---|
| `MainLoop` | `mainloop.go`, `signals.go`, the life of a request in `network/server.go` | `pc` is where the loop goroutine is, one action per critical section or blocking call (`consumeReloadSignal`, `StampEvents`, `runLoadAndParse`, claiming of the waiters, the take of the requests, ..., `finalizeIteration`, `backOff`, the sleeps, `RecoverPanic`). `cpc` is where each handler is, between its four steps queue, count, register and send. `sigbuf` and `token` are the two one-slot channels. |
| `RestartPolicy` | `internal/restart/policy.go`, `plan/heavy.go`, `plan/deferred.go` | a restart list is a function from services to actions; `ApplyDisabled`, `ApplyNow` and `ApplyDebounced` are the three ways through `Policy.Apply`, `ApplyPanicking` is one cut short |
| `ConfigCycle` | `configmgr/manager_plan.go`, `plan/compute.go` | extends `RestartPolicy`; phases load, plan, execute and restart, with what a cycle hands to the next: baseline, tracked services, carry, deferred restarts. A section is the variables it requires, its gate, the services it restarts and its items; an item is what it shows of the variables. Panics are where they differ in what they lose: in `Plan` (`PlanPanics`), while the mapped files are written (`MapfilePanics`), in a step of Execute (`ExecutePanicking`) and in `Apply` (`RestartsPanicking`). |
| `ServiceManager` | `internal/services/manager.go` | the restart queue and a pass over it (`BeginPass`, `Attempt`, `Succeed`, `Fail`, `NextRound`, `EndPass`, `Interrupt`), `DryRun`, `DependencyClosure` |
| `Watchdog` | `internal/watchdog/watchdog.go` and the loop's use of the manager | extends `ServiceManager` and composes its two callers: a tick (probe, list, check, take, queue, process, rewatch, rearm) and a cycle (load, dependencies, plan, queue, process). A cycle may fail to plan or to rewrite, the first run is retried and tracks the services in every attempt, and the settings that keep the loop from running the queue may change. |
| `WatchdogLoop` | `Start`, `Stop` and `run` of the watchdog | loops numbered by their Start, with their own stop and running channels |
| `MCMainLoop`, `MCConfigCycle`, `MCWatchdog` | | values of the constants for TLC |
| `MainLoopProofs`, `ConfigCycleProofs`, `WatchdogProofs` | | theorems; the one of `WatchdogLoop` is in the module itself |

`MainLoop` takes a load, a plan and an execution as steps with an outcome and sections
as what they consist of; `ConfigCycle` opens these steps up and closes the goroutines
around them. They share the vocabulary (`requested`, `carry`, `deferred`, `firstRun`) and
the points at which requests are taken and put back.

An operator with a comment that speaks of a mutant comes right after a variant of it
that changes the code the way a plausible mistake would. Nothing uses the variant in
the specification; putting it in the place of the operator makes TLC report the
property that `PROJECT.json` pairs with it.

### What the models leave out of the code they follow

* The text of templates and settings: an item holds the values of the variables it
  shows, with the value 0 for an empty one and 1 for one that reads as true.
* Reasons of restarts, log lines and metrics, which nothing reads back.
* Clocks: sleeps, the REWRITE timeout and the debounce window end by an action that may
  come at any time (`TimerExpires`, `ReplyTimeout`, `Tick`).
* `--once` is a constant of `MainLoop` and forced mode is left out.
* Order within a pass of the manager is kept (`StartOrder`), order within a plan is not.

## What the runs check

Run TLC as `tlc -config <run>.cfg <module>`.

### Main loop (`MCMainLoop`)

* **rewrite**: two clients that ask for one or both of two sections, the ExecStartPre
  of restarted and started units, and one failed load, plan or rewrite or one recovered
  panic. What the policy gives back after a restart phase is any part of what was due. A
  SUCCESS never precedes the rewrite it answers for (`ReplyMeansWritten`), a queued
  section is queued, planned or written whatever fails (`RequestAccounted`), the loop
  never sleeps on work (`NoLostWakeup`), no done channel is closed twice
  (`ClosedOnce`), the unit of a section just rewritten is answered at once
  (`UnitAnsweredAtOnce`). `LoopInv` is the inductive invariant of the proofs. The first
  three are about iterations that do not panic; `reply_panic` is about the rest.
* **progress**: one client, SIGHUP and SIGTERM, and the LDAP watcher. Liveness:
  sections are taken, clients answered, reloads acknowledged, and a cancelled context
  ends the loop; `ReloadPending` is the safety half of the third.
* **term_dropped**, **unit_stall**, **reply_panic**: see Findings.

Two clients are needed for one to be claimed while the other is between two of its
steps, two sections for a request that is served in part; one failure reaches every
error path, and the next iteration is without failures. Clients and sections are
symmetric in `rewrite`.

### Configuration cycle (`MCConfigCycle`)

Two services and two sections that share one of them, two variables, an item in an if
block, and a step of Execute per item.

* **cycle**: one change, one REWRITE, two faults (a file that cannot be read, items that
  cannot be written, unit actions that fail; at most one of the two a panic, of a step
  or of the iteration), restarts disabled and enabled, debounced and not, and units that
  all run or all do not when the daemon starts. `Rendered`: what an item holds is what the
  baseline says, or the item is planned or carried, since the diff will not show it
  again.
  `RestartNotLost`: a restart owed for a change is in the plan, the carry, the deferred
  or the debounced restarts until it was carried out, flagged or given up. It makes one
  exception, `dropped`: a panic while the mapped files are written loses the restarts of
  that plan, because the baseline has moved and the carry is not set yet.
  `HeavyNeverRestarted`, `FirstRunRestartsNothing`.
* **settle**: liveness of the same, with one fault: the host converges to the
  configuration, owed restarts go out, and the REWRITEs that restarted units send do
  not feed a loop of restarts.
* **stale_stop**: see Findings.

Two faults are `MaxAttempts`, so a unit action is retried and given up. Each unit
matters to itself alone, so the two values of `Boots` show each one in both states. A
change that meets a directory without services (`PlanFails`) takes two changes and is left to the
theorem. Four kinds of items are outside `Rendered` because the code promises nothing:
items whose if reads a key the section does not require, sections that changed while
they were disabled, items written from a file that could not be read when it was
compared, and items lost with a panicked step or with a panic in the mapped files.

### Service manager and watchdog (`MCWatchdog`, `WatchdogLoop`)

* **watch**: antivirus, amavis and mta with the DEPENDS chain of
  `docs/restart-behavior.md`, two crashes, one failing probe, restart, plan or rewrite,
  one change of the enabled services or of the settings, `MaxFailedRestarts` 2. The loop
  queues what the toggles of services ask for. Settings are the defaults, config restarts
  off, and `--disable-restarts`. `OkMeansRestarted`: a pass that returns no error
  restarted all that was queued. `CascadeInClosure`: it restarts only what
  `DependencyClosure` announces, for which the hooks were checked. `OncePerTick`: a tick
  does not restart a service twice, unless a retry of the first run has tracked it again
  in between (`retracked`); without this exception two crashes and one failed rewrite of
  the first run violate it. `DryRunTouchesNothing`.
* **watch_live**: antivirus is watched, one cycle with restarts, one crash, two failures,
  a shutdown at any moment, and settings with config restarts off or idle polls skipped.
  Passes end, the queue drains, services that are down are recovered and watched again,
  a shutdown ends the restarts. `MaxFailedRestarts` is 2, so that a failure is not yet a
  drop: a pass can end without progress and leave its service queued (the no-progress
  exit), and two failures beside a success of another service can drop it. Nothing runs
  the queue while the loop rests (`LoopRests`: config restarts off, idle polls skipped,
  or a plan refused because every service looks disabled), and `QueueDrains` says so.
  Deadlock is not checked: a daemon that was shut down stops.
* **handover**: three Starts of the watchdog with Stops that may give up. A loop never
  begins beside the one it replaces; stopped loops and Stops return. The caller may
  stop for good, so deadlock is not checked.
* **rearmed**: see Findings.

## Fairness

* Loop, handlers and signal handler are goroutines that the scheduler runs: weak
  fairness. The interval of the loop is not assumed to pass, so only the reload channel
  can wake it; the back-off after a failure and the sleep after a panic do end, and so
  does the REWRITE timeout of a unit the loop is waiting for. Clients, signals, changes,
  failures and panics are not fair.
* In `ConfigCycle` the daemon keeps cycling (the interval) and time passes for the
  debounce. Faults are bounded, so they stop.
* In `Watchdog` the two callers have strong fairness, since a step that needs the mutex
  is enabled only while nobody holds it; `sync.Mutex` hands itself to a waiter that has
  waited for a millisecond, so a waiter is not passed over for ever. Restarts come to an
  end: stops, hooks and readiness waits of a service are bounded by timeouts. A loop that
  skips idle polls is not assumed to begin a cycle: nothing ends a run of idle polls.

## Findings

Each has a run in which TLC shows the behaviour, and an entry in `PROJECT.json`.

* **reply_panic** (bug): a panic after the plan took the requests loses them; the next
  cycle still answers SUCCESS to their clients.
* **unit_stall**: the start of a newly enabled service, or a restart carried or deferred
  from an earlier cycle, makes a unit ask for a section this cycle did not announce, and
  it waits for the loop that waits for it.
* **term_dropped**: SIGTERM is lost when SIGCHLD or SIGHUP fills the one-slot channel.
* **stale_stop**: a carried stop is executed on a service that was enabled again.
* **rearmed**: a tick that overlaps a config-driven restart tracks the service again
  from its old process table, so the next one decides to restart it a second time.

The models show further differences between code and documentation that have no run of
their own:

* The sleep after a recovered panic ignores that it was interrupted
  (`mainloop.go:562`), so the READY=1 of a SIGHUP that comes then is not sent.
* READY=1 is sent by the cycle in progress even if it began to load before the
  RELOADING=1 (`mainloop.go:374`; `docs/systemd.md` has a full cycle in between).
* `serviceToggles` (`plan/compute.go:587`) compares with the services of the first run
  and not with the previous cycle: a service that stays disabled has a stop entry in
  every cycle, which keeps its debounce window open, and one that was disabled and
  enabled again gets no start entry.
* A step of Execute other than the templates loses its items when it panics
  (`manager_plan.go:326`).
* A panic in `healMapfiles` or `doMapfile` is outside of the recovered steps
  (`manager_plan.go:315-319`): the iteration ends after the baseline moved and before the
  carry is set, and the items and restarts of that plan are lost, although `Execute`
  says that "failed actions are retried until they succeed".
* `ProcessRestarts` counts failures in each pass anew (`services/manager.go:241`) and a
  pass without progress ends (`:253-259`). A service that fails alone is therefore tried
  once in every pass and never removed, which `manager_test.go:385-391` expects;
  `docs/restart-behavior.md:418-419` has it retried up to `MaxFailedRestarts` times and
  then removed from the queue.
* Every attempt of the first run tracks the services again (`mainloop.go:449-452`), so a
  retry in the middle of a tick makes that tick restart a service it has just restarted.
* The watchdog cascades config-driven restarts that it finds in the shared queue
  (`services/manager.go:353`), looks up dependents in localconfig only
  (`bootstrap.go:115`), and restarts a tracked service that is no longer enabled
  (`watchdog.go:424`).
* After Stop (given up), Start, Stop, Start two loops of the watchdog may check at once
  (`watchdog.go:255`); the daemon starts and stops it once.
* A cyclic DEPENDS of enabled services keeps a pass of the watchdog going for ever.

## What is proved

The theorems hold for any sets of clients, sections, variables, services and items,
any dependency map and any bounds on failures. They rest on the named ASSUMEs of the
modules, which TLC evaluates in every run: types of the constants, a start order
without ties, no empty request, and that an item outside an if block shows only
variables its section requires.

* `MainLoopProofs`: `Invariance`, and from it `TypeCorrect`, `RewriteReplies`,
  `RequestsAreKept`, `WakeupsAreKept`, `DoneClosedOnce`, `ReloadsArePending` and
  `UnitsAreNotQueued`. None of the properties is inductive. `LoopInv` adds where a
  client may be given the list it is in (`ListsInv`); that a claimed client depends
  only on what the plan took, because sections are queued before the client registers
  and clients are claimed before the plan takes (`CoverInv`); that past the claim or the
  take the reload flag no longer counts for what arrives, so a token must be there
  (`WakeInv`); that a completed pass has a listener (`ReloadInv`); and that the sections
  announced while restarts are applied are those of the plan (`UnitInv`). Each part has
  a lemma that goes through the actions.
* `ConfigCycleProofs`: `ItemsFollowBaseline` (`RenderInv` adds that the snapshot being
  executed is the baseline, that the carry is in the plan, and that conditions are read
  from values that were observed); `RestartsAreKept` (`OwedInv` says which list holds an
  owed service in which phase, and that only a panic in the mapped files puts one in
  `dropped`); `HeavyServicesAreSpared` (each list that is dispatched
  is classified); `FirstRunIsQuiet` (until the first run ends, the lists only hold stops).
* `WatchdogProofs`: `CascadesAreAnnounced`, `SuccessIsReal`, `TicksDoNotRepeat`. Every
  step is one of the manager's operations (`StepIsManagerStep`); `PassInv` says that what
  was queued at the beginning is queued, restarted or counted as failed, and that the
  queue stays in the closure, which `ClosureIsClosed` shows to be closed. `TickInv` says
  that what a tick tried and has still on its list is not tracked, or was tracked again by
  a retry of the first run.
* `WatchdogLoop`: `Handover`, for any number of Starts.

Model-checked only: all liveness properties, which TLAPS cannot prove under fairness;
the type invariants of `ConfigCycle` and `Watchdog`; `DryRunTouchesNothing`.

## What is not modelled, and the plan

The next modules, in this order, each with the hazards `PROJECT.json` gives to it:

1. `LdapWatch` (`internal/ldapwatch`): polling with baseline, burst and back-off;
   streaming with catch-up, resync and fallback. Abstract specification: a change after
   the first load is followed by a trigger. Composed with the load of the main loop for
   the window between the load and the first poll.
2. `ConfigLoad` (`configmgr/manager_load*.go`, `internal/cache`): four loaders, two
   timeouts, retries, and loaders that outlive their attempt. Property: a snapshot
   published as complete has no value older than the load it belongs to.
3. `NetworkServer` (`internal/network`): accept loop, connection slots and Shutdown.
4. `LdapPool` (`internal/ldap/client.go`): idle connections, failover and Close.
5. `LocalConfigWriter` (`internal/localconfig/writer.go`, `internal/fileutil`): flock,
   timeout, atomic rename and crashes.
6. `ServiceLifecycle` (`internal/services`, `internal/cli/control`): start, stop and
   restart of a service and of the whole node, pid files, readiness and failures.
7. `RewriteClient` (`internal/cli/rewrite`) composed with `MainLoop`: the client's own
   timeout, and its local rewrite while the daemon does not listen.
8. An abstract `RewriteService` (ask, write, answer, give up) that `MainLoop`
   implements, by TLC first and then by proof.
9. Pure algorithms against a reference definition: if nesting of `internal/parser`,
   expansion in `localconfig/resolve.go`, upstream selection of `internal/proxy`,
   `pruneToHost` of the plan command.

Runs: one safety run and, where something must happen, one liveness run per module, on
two or three actors and one or two faults. Theorems: the type invariant and the main
safety property of 1 to 5, the refinement of 8, and the type invariant of `ConfigCycle`.

Left out for good: logging, metrics, tracing and redaction; generated tables of
defaults; text transformation without state (templates, proxy template tools, lexers);
one-shot commands that are a sequence of library calls; test support. TLS modes and the
HTTP call to the advanced proxy are sequences of external effects with no state of
their own.
