------------------------------ MODULE MainLoop ------------------------------
(***************************************************************************)
(* The daemon main loop of cmd/configd with everything that talks to it    *)
(* through MainLoopActionTrigger and the one-slot reload channel: REWRITE  *)
(* clients (internal/network), the OS signal handler, the LDAP change      *)
(* watcher, the ExecStartPre of the units a cycle restarts, and systemd's  *)
(* READY/RELOADING protocol.                                               *)
(*                                                                         *)
(* One action is one critical section or one blocking operation of one     *)
(* goroutine.  Loading, planning and rewriting are reduced to their        *)
(* outcome; what a plan contains is reduced to sections, with one service  *)
(* per section (ConfigCycle has the detail).                               *)
(***************************************************************************)
EXTENDS Naturals, FiniteSets

CONSTANTS
  Clients,      \* REWRITE connections; each one sends one request
  Sections,     \* SECTION names of zmconfigd.cf
  Requests,     \* the argument lists a client may send
  Once,         \* --once
  SkipModes,    \* values zmconfigd_skip_idle_polls may take at a load
  WatchModes,   \* values zmconfigd_ldap_change_trigger may take at a load
  Signals,      \* signals the environment may raise: "TERM", "HUP", "CHLD"
  MaxSignals,   \* bound on the signals raised
  MaxFaults,    \* bound on failed loads, plans and rewrites, and on panics
  MaxPanics     \* bound on recovered panics of an iteration

ASSUME ConstantsAssumption ==
  /\ Requests \subseteq SUBSET Sections
  /\ {} \notin Requests
  /\ Once \in BOOLEAN
  /\ SkipModes \subseteq BOOLEAN
  /\ WatchModes \subseteq BOOLEAN
  /\ Signals \subseteq {"TERM", "HUP", "CHLD"}
  /\ MaxSignals \in Nat /\ MaxFaults \in Nat /\ MaxPanics \in Nat

VARIABLES
  pc,           \* where the loop goroutine is
  signaled,     \* loopIterState.reloadSignaled
  stamp,        \* loopIterState.lastEventCount
  server,       \* loopIterState.server # nil
  ready,        \* loopIterState.ready
  hooksChecked, \* loopIterState.hooksChecked
  watching,     \* loopIterState.ldapWatch # nil
  firstRun,     \* State.FirstRun
  skip,         \* Config.SkipIdlePolls
  taken,        \* the requested sections Plan took
  planned,      \* the sections of the cycle's plan
  due,          \* the plan's restarts, one service per section
  failed,       \* the cycle's Execute reported an error
  carry,        \* ConfigManager.carry.Restarts
  deferred,     \* ConfigManager.deferred
  faults,       \* failures so far
  panics        \* recovered panics so far

VARIABLES
  token,        \* the reload channel holds its one token
  requested,    \* State.RequestedConfig
  events,       \* MainLoopActionTrigger.EventCounter
  waiting,      \* MainLoopActionTrigger.waiting
  inflight,     \* MainLoopActionTrigger.inflight
  restarting,   \* MainLoopActionTrigger.restarting; {} is nil
  released,     \* clients whose done channel is closed
  cpc,          \* where each client's handler goroutine is
  want,         \* the sections each client asked for
  blocking,     \* clients that are the ExecStartPre of a unit being restarted
  covered       \* history: sections put through Execute since a client queued

VARIABLES
  sigbuf,       \* the one-slot channel given to signal.Notify
  hpc,          \* where the signal handler goroutine is
  cancelled,    \* the daemon context is cancelled
  termed,       \* history: SIGTERM was raised
  nsig,         \* the number of signals raised
  reloading     \* RELOADING=1 was sent with no READY=1 since

iterVars   == <<stamp, server, ready, hooksChecked, watching, firstRun, skip>>
planVars   == <<taken, planned, due, failed, carry, deferred>>
faultVars  == <<faults, panics>>
loopVars   == <<pc, signaled, iterVars, planVars, faultVars>>
queueVars  == <<requested, events>>
listVars   == <<waiting, inflight, released>>
clientVars == <<cpc, want, blocking, covered>>
trigVars   == <<queueVars, listVars, restarting, clientVars>>
sigVars    == <<sigbuf, hpc, cancelled, termed, nsig>>
vars       == <<loopVars, token, trigVars, sigVars, reloading>>

-----------------------------------------------------------------------------
LoopPCs ==
  {"consume", "poll", "stamp", "load", "hooks", "claim", "take", "compute",
   "requeue", "execute", "complete", "check", "applying", "listener",
   "finalize", "backoff", "sleep", "backsleep", "panicsleep", "exited"}

ClientPCs ==
  {"idle", "check", "queue", "count", "register", "notify", "wait",
   "success", "timeout", "shutdown"}

Init ==
  /\ pc = "consume" /\ signaled = FALSE /\ stamp = 0
  /\ server = FALSE /\ ready = FALSE /\ hooksChecked = FALSE
  /\ watching = FALSE /\ firstRun = TRUE /\ skip \in SkipModes
  /\ taken = {} /\ planned = {} /\ due = {} /\ failed = FALSE
  /\ carry = {} /\ deferred = {} /\ faults = 0 /\ panics = 0
  /\ token = FALSE
  /\ requested = {} /\ events = 0 /\ waiting = {} /\ inflight = {}
  /\ restarting = {} /\ released = {}
  /\ cpc = [c \in Clients |-> "idle"] /\ want = [c \in Clients |-> {}]
  /\ blocking = {} /\ covered = [c \in Clients |-> {}]
  /\ sigbuf = "none" /\ hpc = "select" /\ cancelled = FALSE
  /\ termed = FALSE /\ nsig = 0
  /\ reloading = FALSE

-----------------------------------------------------------------------------
(* The start of an iteration.                                              *)

\* The non-blocking send on the reload channel: a token already there stands
\* for this one too.  In the mutant the send is missing.
SendNothing == UNCHANGED token

SendToken == token' = TRUE

\* The case of a cancelled context; the mutant does not look at it.
NoShutdownCase == FALSE

ShutdownCase == cancelled

\* select picks any ready case; default only when neither is ready.
consumeReloadSignal ==
  /\ pc = "consume"
  /\ \/ /\ ShutdownCase
        /\ pc' = "exited"
        /\ UNCHANGED <<signaled, token>>
     \/ /\ token
        /\ token' = FALSE /\ signaled' = TRUE /\ pc' = "poll"
     \/ /\ ~ShutdownCase /\ ~token
        /\ pc' = "poll"
        /\ UNCHANGED <<signaled, token>>
  /\ UNCHANGED <<iterVars, planVars, faultVars, trigVars, sigVars, reloading>>

\* Nothing happened since the last cycle; the mutant forgets the reload.
IdlePollAfterReload == skip /\ ~firstRun /\ events = stamp

IdlePoll == skip /\ ~firstRun /\ ~signaled /\ events = stamp

isIdlePoll ==
  /\ pc = "poll"
  /\ pc' = IF IdlePoll THEN "sleep" ELSE "stamp"
  /\ UNCHANGED <<signaled, iterVars, planVars, faultVars, token, trigVars,
                 sigVars, reloading>>

\* EventCounter.Load; the mutant counts one event too many.
EventsAhead == events + 1

EventsSeen == events

StampEvents ==
  /\ pc = "stamp"
  /\ stamp' = EventsSeen /\ pc' = "load"
  /\ UNCHANGED <<signaled, server, ready, hooksChecked, watching, firstRun,
                 skip, planVars, faultVars, token, trigVars, sigVars,
                 reloading>>

\* A load publishes what it got even when it fails, localconfig included; a
\* cancelled context always ends it with an error.
runLoadAndParse ==
  /\ pc = "load"
  /\ skip' \in SkipModes
  /\ \/ ~cancelled /\ pc' = "hooks" /\ UNCHANGED faults
     \/ cancelled /\ pc' = "backoff" /\ UNCHANGED faults
     \/ faults < MaxFaults /\ faults' = faults + 1 /\ pc' = "backoff"
  /\ UNCHANGED <<signaled, stamp, server, ready, hooksChecked, watching,
                 firstRun, planVars, panics, token, trigVars, sigVars,
                 reloading>>

\* checkHooks fails only on the first configuration it sees; then
\* syncLDAPWatch starts or stops the watcher.
checkHooks ==
  /\ pc = "hooks"
  /\ \/ /\ ~hooksChecked
        /\ pc' = "exited"
        /\ UNCHANGED <<hooksChecked, watching>>
     \/ /\ hooksChecked' = TRUE /\ pc' = "claim"
        /\ IF Once THEN watching' = FALSE ELSE watching' \in WatchModes
  /\ UNCHANGED <<signaled, stamp, server, ready, firstRun, skip, planVars,
                 faultVars, token, trigVars, sigVars, reloading>>

-----------------------------------------------------------------------------
(* runConfigPhases: claim the clients, plan, rewrite, release the clients. *)

claimWaiters ==
  /\ pc = "claim"
  /\ inflight' = inflight \cup waiting /\ waiting' = {}
  /\ pc' = "take"
  /\ UNCHANGED <<signaled, iterVars, planVars, faultVars, token, queueVars,
                 released, restarting, clientVars, sigVars, reloading>>

TakeRequestedConfigs ==
  /\ pc = "take"
  /\ taken' = requested /\ requested' = {}
  /\ pc' = "compute"
  /\ UNCHANGED <<signaled, iterVars, planned, due, failed, carry, deferred,
                 faultVars, token, events, listVars, restarting, clientVars,
                 sigVars, reloading>>

\* A plan processes the sections that changed or were requested (all of them
\* on the first run), except those whose service is disabled.  It restarts
\* what changed without being requested, what is carried and, when the cycle
\* is not a REWRITE, what earlier REWRITE cycles deferred; and it starts the
\* services that were enabled since the first run.  Stops run no ExecStartPre
\* and are left out.
Compute(changed, disabled, started) ==
  LET organic == IF firstRun THEN {} ELSE (changed \ disabled)
      release == ~firstRun /\ taken = {}
      held    == deferred \cup (organic \cap taken)
  IN /\ planned' = (IF firstRun THEN Sections ELSE changed \cup taken)
                   \ disabled
     /\ due' = (organic \ taken) \cup carry
               \cup (IF release THEN held ELSE {})
               \cup (IF firstRun THEN {} ELSE started)
     /\ deferred' = IF release THEN {} ELSE held

\* A failed plan queues the requests again; the mutant drops them.
RequestsDropped == requested

RequestsKept == requested \cup taken

Plan ==
  /\ pc = "compute"
  /\ \/ /\ \E changed, disabled \in SUBSET Sections :
             \E started \in SUBSET (Sections \ disabled) : Compute(changed, disabled, started)
        /\ pc' = "execute"
        /\ UNCHANGED <<taken, faults, requested>>
     \/ /\ faults < MaxFaults /\ faults' = faults + 1
        /\ requested' = RequestsKept /\ taken' = {}
        /\ pc' = "requeue"
        /\ UNCHANGED <<planned, due, deferred>>
  /\ UNCHANGED <<signaled, iterVars, failed, carry, panics, token, events,
                 listVars, restarting, clientVars, sigVars, reloading>>

requeueWaiters ==
  /\ pc = "requeue"
  /\ waiting' = inflight \cup waiting /\ inflight' = {}
  /\ pc' = "backoff"
  /\ UNCHANGED <<signaled, iterVars, planVars, faultVars, token, queueVars,
                 released, restarting, clientVars, sigVars, reloading>>

\* Clients past AddRequestedConfigs: their sections reached the queue.
Queued == {c \in Clients : cpc[c] \notin {"idle", "check", "queue"}}

\* Execute attempts every action; the plan's restarts are carried until
\* ApplyRestarts consumes them.  A section it went through is covered, written
\* or not: the clients are released after a failed rewrite phase as well.
Execute ==
  /\ pc = "execute"
  /\ \/ failed' = FALSE /\ UNCHANGED faults
     \/ failed' = TRUE /\ faults < MaxFaults /\ faults' = faults + 1
  /\ carry' = due
  /\ covered' = [c \in Clients |->
                   covered[c] \cup (IF c \in Queued THEN taken ELSE {})]
  /\ taken' = {}
  /\ pc' = "complete"
  /\ UNCHANGED <<signaled, iterVars, planned, due, deferred, panics, token,
                 queueVars, listVars, restarting, cpc, want, blocking,
                 sigVars, reloading>>

\* The clients a finished rewrite phase answers; the mutant takes in those that
\* registered after the claim.
EveryWaiter == inflight \cup waiting

ClaimedWaiters == inflight

completeWaiters ==
  /\ pc = "complete"
  /\ released' = released \cup ClaimedWaiters /\ inflight' = {}
  /\ pc' = IF ~failed THEN "check" ELSE IF Once THEN "exited" ELSE "backoff"
  /\ UNCHANGED <<signaled, iterVars, planVars, faultVars, token, queueVars,
                 waiting, restarting, clientVars, sigVars, reloading>>

-----------------------------------------------------------------------------
(* The restart phase and the end of an iteration.                          *)

\* What a REWRITE is already satisfied by; the mutant announces nothing.
NothingRewritten == {}

JustRewritten == planned

beginRestarts ==
  /\ pc = "check"
  /\ IF cancelled THEN /\ pc' = "exited"
                       /\ UNCHANGED restarting
                  ELSE /\ pc' = "applying"
                       /\ restarting' = JustRewritten
  /\ UNCHANGED <<signaled, iterVars, planVars, faultVars, token, queueVars,
                 listVars, clientVars, sigVars, reloading>>

\* ApplyRestarts returns once the units it restarts are up, that is once their
\* ExecStartPre clients are answered.  The policy returns the restarts that it
\* could not carry out, or all of them when restarts are disabled; endRestarts
\* is deferred.
endRestarts ==
  /\ pc = "applying"
  /\ \A c \in blocking : cpc[c] \in {"success", "timeout", "shutdown"}
  /\ carry' \in SUBSET due
  /\ restarting' = {} /\ blocking' = {}
  /\ pc' = "listener"
  /\ UNCHANGED <<signaled, iterVars, taken, planned, due, failed, deferred,
                 faultVars, token, queueVars, listVars, cpc, want, covered,
                 sigVars, reloading>>

\* A listener that cannot bind its port ends the process.
maybeStartListener ==
  /\ pc = "listener"
  /\ IF firstRun /\ ~server /\ ~Once
       THEN \/ server' = TRUE /\ pc' = "finalize"
            \/ pc' = "exited" /\ UNCHANGED server
       ELSE pc' = "finalize" /\ UNCHANGED server
  /\ UNCHANGED <<signaled, stamp, ready, hooksChecked, watching, firstRun,
                 skip, planVars, faultVars, token, trigVars, sigVars, reloading>>

\* READY=1: once when the listener is up, then for every handled reload.
signalReady ==
  LET send == (~ready /\ server) \/ (ready /\ signaled)
  IN /\ ready' = (ready \/ server)
     /\ reloading' = (reloading /\ ~send)

\* The plan of a cycle does not outlive its iteration.
DropPlan == taken' = {} /\ planned' = {} /\ due' = {} /\ failed' = FALSE

finalizeIteration ==
  /\ pc = "finalize"
  /\ signalReady /\ DropPlan
  /\ firstRun' = FALSE /\ signaled' = FALSE
  /\ pc' = IF Once THEN "exited" ELSE "sleep"
  /\ UNCHANGED <<stamp, server, hooksChecked, watching, skip, carry,
                 deferred, faultVars, token, trigVars, sigVars>>

backOff ==
  /\ pc = "backoff"
  /\ signalReady /\ DropPlan
  /\ pc' = "backsleep"
  /\ UNCHANGED <<signaled, stamp, server, hooksChecked, watching, firstRun,
                 skip, carry, deferred, faultVars, token, trigVars, sigVars>>

\* reloadSignaled after an interrupted sleep: set everywhere but after a panic,
\* where the result is ignored and the token is gone.  In the mutant no caller
\* looks at the result.
InterruptIgnored == signaled

InterruptNoted == signaled \/ pc # "panicsleep"

\* SleepWithContext, interrupted, at its three kinds of call site.
SleepWithContext ==
  /\ pc \in {"sleep", "backsleep", "panicsleep"}
  /\ \/ cancelled /\ UNCHANGED token
     \/ token /\ token' = FALSE
  /\ signaled' = InterruptNoted
  /\ pc' = "consume"
  /\ UNCHANGED <<iterVars, planVars, faultVars, trigVars, sigVars, reloading>>

\* The timer of a sleep: zmconfigd_interval, or 60 s in backOff.
TimerExpires ==
  /\ pc \in {"sleep", "backsleep", "panicsleep"}
  /\ pc' = "consume"
  /\ UNCHANGED <<signaled, iterVars, planVars, faultVars, token, trigVars,
                 sigVars, reloading>>

\* runLoopIterationSafe recovers a panic of the iteration: the iteration's
\* locals are gone, the deferred endRestarts has run.
RecoverPanic ==
  /\ pc \in {"load", "compute", "execute", "applying"}
  /\ panics < MaxPanics /\ panics' = panics + 1
  /\ faults < MaxFaults /\ faults' = faults + 1
  /\ DropPlan /\ restarting' = {} /\ blocking' = {}
  /\ pc' = "panicsleep"
  /\ UNCHANGED <<signaled, iterVars, carry, deferred, token, queueVars, listVars,
                 cpc, want, covered, sigVars, reloading>>

-----------------------------------------------------------------------------
(* REWRITE clients: TriggerRewrite, then the handler's select.             *)

Connect(c) ==
  /\ server /\ ~cancelled /\ cpc[c] = "idle"
  /\ \E S \in Requests : want' = [want EXCEPT ![c] = S]
  /\ cpc' = [cpc EXCEPT ![c] = "check"]
  /\ UNCHANGED <<loopVars, token, queueVars, listVars, restarting, blocking,
                 covered, sigVars, reloading>>

\* The unit of a section being restarted runs ExecStartPre "REWRITE section".
ExecStartPre(c) ==
  /\ pc = "applying" /\ server /\ ~cancelled /\ cpc[c] = "idle"
  /\ \E s \in due : want' = [want EXCEPT ![c] = {s}]
  /\ cpc' = [cpc EXCEPT ![c] = "check"]
  /\ blocking' = blocking \cup {c}
  /\ UNCHANGED <<loopVars, token, queueVars, listVars, restarting, covered,
                 sigVars, reloading>>

rewrittenByRestartingCycle(c) ==
  /\ cpc[c] = "check"
  /\ IF restarting # {} /\ want[c] \subseteq restarting
       THEN /\ released' = released \cup {c}
            /\ covered' = [covered EXCEPT ![c] = want[c]]
            /\ cpc' = [cpc EXCEPT ![c] = "wait"]
       ELSE /\ cpc' = [cpc EXCEPT ![c] = "queue"]
            /\ UNCHANGED <<released, covered>>
  /\ UNCHANGED <<loopVars, token, queueVars, waiting, inflight, restarting,
                 want, blocking, sigVars, reloading>>

AddRequestedConfigs(c) ==
  /\ cpc[c] = "queue"
  /\ requested' = requested \cup want[c]
  /\ cpc' = [cpc EXCEPT ![c] = "count"]
  /\ UNCHANGED <<loopVars, token, events, listVars, restarting, want,
                 blocking, covered, sigVars, reloading>>

CountEvent(c) ==
  /\ cpc[c] = "count"
  /\ events' = events + 1
  /\ cpc' = [cpc EXCEPT ![c] = "register"]
  /\ UNCHANGED <<loopVars, token, requested, listVars, restarting, want,
                 blocking, covered, sigVars, reloading>>

Register(c) ==
  /\ cpc[c] = "register"
  /\ waiting' = waiting \cup {c}
  /\ cpc' = [cpc EXCEPT ![c] = "notify"]
  /\ UNCHANGED <<loopVars, token, queueVars, inflight, released, restarting,
                 want, blocking, covered, sigVars, reloading>>

NotifyLoop(c) ==
  /\ cpc[c] = "notify"
  /\ SendToken
  /\ cpc' = [cpc EXCEPT ![c] = "wait"]
  /\ UNCHANGED <<loopVars, queueVars, listVars, restarting, want, blocking,
                 covered, sigVars, reloading>>

\* A client that is answered, whatever the answer, is forgotten by the deferred
\* Cancel; its sections stay queued.
Reply(c, answer) ==
  /\ cpc[c] = "wait"
  /\ cpc' = [cpc EXCEPT ![c] = answer]
  /\ waiting' = waiting \ {c} /\ inflight' = inflight \ {c}
  /\ UNCHANGED <<loopVars, token, queueVars, released, restarting, want,
                 blocking, covered, sigVars, reloading>>

ReplyDone(c) == c \in released /\ Reply(c, "success")

ReplyTimeout(c) == Reply(c, "timeout")

ReplyShutdown(c) == cancelled /\ Reply(c, "shutdown")

-----------------------------------------------------------------------------
(* Signals and the LDAP change watcher.                                    *)

\* signal.Notify drops a signal that finds the channel full.  Once the handler
\* is gone the registration is released.
RaiseSignal(sig) ==
  /\ nsig < MaxSignals /\ pc # "exited" /\ hpc # "stopped"
  /\ nsig' = nsig + 1 /\ termed' = (termed \/ sig = "TERM")
  /\ sigbuf' = IF sigbuf = "none" THEN sig ELSE sigbuf
  /\ UNCHANGED <<loopVars, token, trigVars, hpc, cancelled, reloading>>

\* dispatchSignal up to its first effect on the loop: SIGTERM cancels the
\* context after STOPPING=1, SIGHUP sends RELOADING=1, SIGCHLD is ignored.
dispatchSignal ==
  /\ hpc = "select" /\ sigbuf # "none"
  /\ sigbuf' = "none"
  /\ \/ sigbuf = "TERM" /\ cancelled' = TRUE /\ hpc' = "stopped" /\ UNCHANGED reloading
     \/ sigbuf = "HUP" /\ reloading' = TRUE /\ hpc' = "reload" /\ UNCHANGED cancelled
     \/ sigbuf = "CHLD" /\ UNCHANGED <<hpc, cancelled, reloading>>
  /\ UNCHANGED <<loopVars, token, trigVars, termed, nsig>>

SendReload ==
  /\ hpc = "reload"
  /\ SendToken /\ hpc' = "select"
  /\ UNCHANGED <<loopVars, trigVars, sigbuf, cancelled, termed, nsig, reloading>>

TriggerReload ==
  /\ watching /\ ~cancelled /\ ~token
  /\ SendToken
  /\ UNCHANGED <<loopVars, trigVars, sigVars, reloading>>

-----------------------------------------------------------------------------
Iteration ==
  \/ consumeReloadSignal \/ isIdlePoll \/ StampEvents \/ runLoadAndParse
  \/ checkHooks \/ claimWaiters \/ TakeRequestedConfigs \/ Plan
  \/ requeueWaiters \/ Execute \/ completeWaiters \/ beginRestarts
  \/ endRestarts \/ maybeStartListener \/ finalizeIteration \/ backOff
  \/ SleepWithContext

Handler(c) ==
  \/ rewrittenByRestartingCycle(c) \/ AddRequestedConfigs(c) \/ CountEvent(c)
  \/ Register(c) \/ NotifyLoop(c) \/ ReplyDone(c) \/ ReplyShutdown(c)

SignalHandler == dispatchSignal \/ SendReload

Environment ==
  \/ TimerExpires
  \/ RecoverPanic
  \/ TriggerReload
  \/ \E c \in Clients : Connect(c) \/ ExecStartPre(c) \/ ReplyTimeout(c)
  \/ \E sig \in Signals : RaiseSignal(sig)

\* The process has left RunMainLoop.
Terminated == pc = "exited" /\ UNCHANGED vars

Next ==
  \/ Iteration
  \/ \E c \in Clients : Handler(c)
  \/ SignalHandler
  \/ Environment
  \/ Terminated

Spec == Init /\ [][Next]_vars

\* Every goroutine that can run does run.  The 60 s of backOff pass; the
\* interval is not counted on, so that only the reload channel can be what
\* wakes a sleeping loop.  A unit held by an unanswered ExecStartPre is
\* released by the REWRITE timeout.
Fairness ==
  /\ WF_vars(Iteration)
  /\ WF_vars(pc \in {"backsleep", "panicsleep"} /\ TimerExpires)
  /\ \A c \in Clients : WF_vars(Handler(c))
  /\ \A c \in Clients : WF_vars(c \in blocking /\ ReplyTimeout(c))
  /\ WF_vars(SignalHandler)

FairSpec == Spec /\ Fairness

-----------------------------------------------------------------------------
(* Properties.                                                             *)

\* The variables have the shape of the Go fields they stand for, and the loop
\* never remembers more events than were counted.
TypeOK ==
  /\ pc \in LoopPCs /\ hpc \in {"select", "reload", "stopped"}
  /\ signaled \in BOOLEAN /\ server \in BOOLEAN /\ ready \in BOOLEAN
  /\ hooksChecked \in BOOLEAN /\ watching \in BOOLEAN
  /\ firstRun \in BOOLEAN /\ skip \in BOOLEAN /\ failed \in BOOLEAN
  /\ token \in BOOLEAN /\ cancelled \in BOOLEAN /\ termed \in BOOLEAN
  /\ reloading \in BOOLEAN
  /\ events \in Nat /\ stamp \in Nat /\ stamp <= events
  /\ faults \in Nat /\ panics \in Nat /\ nsig \in Nat
  /\ taken \subseteq Sections /\ planned \subseteq Sections
  /\ due \subseteq Sections /\ carry \subseteq Sections
  /\ deferred \subseteq Sections /\ requested \subseteq Sections
  /\ restarting \subseteq Sections
  /\ waiting \subseteq Clients /\ inflight \subseteq Clients
  /\ released \subseteq Clients /\ blocking \subseteq Clients
  /\ cpc \in [Clients -> ClientPCs]
  /\ want \in [Clients -> SUBSET Sections]
  /\ covered \in [Clients -> SUBSET Sections]
  /\ sigbuf \in Signals \cup {"none"}

\* server.go, rewrite: "the reply must not precede the written files".  A client
\* told SUCCESS had all its sections put through an Execute that started after
\* they were queued, or was answered by the restarting cycle that had written
\* them, as long as no iteration panicked.
ReplyMeansWritten ==
  panics = 0 => \A c \in Clients :
                  cpc[c] = "success" => want[c] \subseteq covered[c]

\* The same without allowing for recovered panics, as the comment of
\* ConfigdRequestHandler.rewrite states it.
ReplyNeverPrecedesRewrite ==
  \A c \in Clients : cpc[c] = "success" => want[c] \subseteq covered[c]

\* server.go, rewrite: "After the timeout the request stays queued".  A section
\* a client queued is still queued, in the hands of the current plan, or was
\* executed since, whatever answer the client got and however often loads,
\* plans and rewrites failed.
RequestAccounted ==
  panics = 0 => \A c \in Queued :
                  want[c] \subseteq requested \cup taken \cup covered[c]

\* Clients between AddRequestedConfigs and the send on the reload channel.
Announcing == {c \in Clients : cpc[c] \in {"count", "register", "notify"}}

\* The loop never goes to sleep on work it was asked for: queued sections and
\* waiting clients always have a token in the channel, a reloadSignaled flag
\* that makes the next iteration a full cycle, or a handler about to send.
NoLostWakeup ==
  panics = 0 =>
    \/ token \/ signaled \/ Announcing # {}
    \/ requested = {} /\ \A c \in waiting : cpc[c] # "wait"

\* completeWaiters closes each done channel once (a second close panics the
\* loop): a client in one list is not in the other, and not released.
ClosedOnce ==
  /\ waiting \cap inflight = {}
  /\ released \cap (waiting \cup inflight) = {}

\* beginRestarts: while a cycle applies its restarts, the ExecStartPre of a unit
\* whose section that cycle rewrote is never queued behind the loop that waits
\* for it.
UnitAnsweredAtOnce ==
  pc = "applying" =>
    \A c \in blocking : want[c] \subseteq planned => c \notin waiting

\* mainloop_ready_test.go: "the unit's ExecStartPre must not wait for a loop
\* blocked on that very unit", whichever cycle rewrote the unit's section.
UnitNeverWaitsForLoop ==
  pc = "applying" => blocking \cap waiting = {}

\* A RELOADING=1 not yet followed by READY=1 still has something that will make
\* the loop send it: the handler about to send a token, the token, or
\* reloadSignaled.
ReloadPending ==
  reloading /\ panics = 0 /\ pc # "exited" =>
    token \/ signaled \/ hpc = "reload"

\* Every queued section is taken by a plan without the interval having to pass.
RequestServed ==
  \A s \in Sections : s \in requested ~> s \notin requested \/ pc = "exited"

Replied(c) == cpc[c] \in {"success", "timeout", "shutdown"}

\* Every REWRITE client is answered by the loop (or by the shutdown), without
\* its timeout and without the interval.
ClientAnswered == \A c \in Clients : cpc[c] = "check" ~> Replied(c)

\* signalReady: systemd does not stay in "reloading".
ReloadAcknowledged == reloading ~> ~reloading \/ pc = "exited"

\* A cancelled context ends the loop.
ShutdownExits == cancelled ~> pc = "exited"

\* systemd.md: "SIGTERM/SIGINT send STOPPING=1 and cancel the main loop".
TermStopsDaemon == termed ~> pc = "exited"

-----------------------------------------------------------------------------
(* The inductive invariant behind the safety properties.                   *)

\* Where a client can be, given the trigger's lists.
ListsInv ==
  \A c \in Clients :
    /\ c \in waiting \cup inflight =>
         cpc[c] \in {"notify", "wait"} /\ c \notin released
    /\ c \in released =>
         cpc[c] \in {"notify", "wait", "success", "timeout", "shutdown"}
    /\ c \in waiting => c \notin inflight
    /\ cpc[c] = "success" => c \in released

\* A claimed client depends only on what the plan took: sections are queued
\* before the client registers, and clients are claimed before the plan takes.
CoverInv ==
  panics = 0 =>
    /\ pc \notin {"compute", "execute"} => taken = {}
    /\ \A c \in Clients : c \in Queued =>
         want[c] \subseteq requested \cup taken \cup covered[c]
    /\ \A c \in inflight : pc \in {"compute", "execute", "complete"} =>
         want[c] \subseteq taken \cup covered[c]
    /\ \A c \in released : want[c] \subseteq covered[c]

Awake == token \/ signaled \/ Announcing # {}

\* Past the claim (the take), reloadSignaled no longer counts for the clients
\* (the sections) that arrive: the end of the cycle clears it.
WakeInv ==
  panics = 0 =>
    /\ pc # "panicsleep"
    /\ pc \notin {"take", "compute", "requeue", "execute", "complete"} =>
         inflight = {}
    /\ requested \cup taken # {} => Awake
    /\ \A c \in waiting \cup inflight : cpc[c] = "wait" => Awake
    /\ pc \in {"compute", "execute", "complete", "check", "applying",
               "listener", "finalize"} =>
         (requested # {} => token \/ Announcing # {})
    /\ pc \in {"take", "compute", "execute", "complete", "check", "applying",
               "listener", "finalize"} =>
         \A c \in waiting : cpc[c] = "wait" => token \/ Announcing # {}

\* A completed pass has a listener, so it can send READY=1.
ReloadInv ==
  /\ pc = "finalize" => server \/ Once
  /\ ~firstRun => server \/ Once
  /\ ReloadPending

\* While restarts are applied the announced sections are the plan's.
UnitInv ==
  /\ pc # "applying" => blocking = {}
  /\ pc = "applying" => restarting = planned
  /\ \A c \in blocking :
       /\ want[c] # {} /\ cpc[c] # "idle"
       /\ want[c] \subseteq planned =>
            /\ cpc[c] \notin {"queue", "count", "register", "notify"}
            /\ c \notin waiting

\* The invariant the proofs establish step by step: it relates the trigger's
\* lists, the request queue, the reload channel and the loop's position.
LoopInv == ListsInv /\ CoverInv /\ WakeInv /\ ReloadInv /\ UnitInv
=============================================================================
