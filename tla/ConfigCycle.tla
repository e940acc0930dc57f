----------------------------- MODULE ConfigCycle -----------------------------
(***************************************************************************)
(* One configuration cycle after another: load and observe, plan, execute  *)
(* and apply the restarts (internal/configmgr, internal/plan), with what   *)
(* the cycles hand to each other: the baseline snapshot, the tracked       *)
(* services, the carry and the deferred restarts.  RestartPolicy has the   *)
(* restart policy of the last phase.                                       *)
(*                                                                         *)
(* A section of configd.cf is the variables it requires, the service that  *)
(* gates it, the services it restarts and the items it writes: a template, *)
(* a postconf, postconfd or LDAP setting, or the proxy configuration.  An  *)
(* item of an if block has a guard.  The value 0 is the empty value, which *)
(* reads as undefined, and 1 the one that reads as true.                   *)
(***************************************************************************)
EXTENDS RestartPolicy

CONSTANTS
  Sections, Vars, Values, Items,
  RequiredVars,   \* [Sections -> SUBSET Vars], outside the if blocks
  Gate,           \* [Sections -> Services], plan.sectionServiceMap
  Negated,        \* sections gated on a service that must be off
  RestartOf,      \* [Sections -> SUBSET Services], the RESTART lines
  SectionOf,      \* [Items -> Sections]
  Content,        \* [Items -> SUBSET Vars], the variables an item shows
  Guard,          \* [Items -> SUBSET Vars], the variable of its if, or none
  Unless,         \* items whose if is negated
  StepOf,         \* [Items -> STRING], the step of Execute that writes an item
  FileVars,       \* FILE lookups: reading them may fail
  KeptOff,        \* services not stopped for being disabled (archiving)
  Companion,      \* [Services -> SUBSET Services] (opendkim runs with mta)
  UnitSections,   \* [Services -> SUBSET Sections], what ExecStartPre asks for
  Boots,          \* sets of units that may run when the daemon starts
  EnableModes,    \* values of zmconfigd_enable_config_restarts
  MaxChanges,     \* bound on configuration changes
  MaxRequests,    \* bound on REWRITE requests
  MaxFaults,      \* bound on failed reads, writes and service actions, and panics
  MaxPanics       \* bound on the faults that are panics

ASSUME CycleAssumption ==
  /\ Values \subseteq Nat /\ {0, 1} \subseteq Values
  /\ RequiredVars \in [Sections -> SUBSET Vars]
  /\ Gate \in [Sections -> Services] /\ Negated \subseteq Sections
  /\ RestartOf \in [Sections -> SUBSET Services]
  /\ SectionOf \in [Items -> Sections]
  /\ Content \in [Items -> SUBSET Vars]
  /\ Guard \in [Items -> SUBSET (Vars \ FileVars)] /\ Unless \subseteq Items
  /\ \A i \in Items : Guard[i] = {} => Content[i] \subseteq RequiredVars[SectionOf[i]]
  /\ StepOf \in [Items -> {"rewrite", "postconf", "postconfd", "ldap", "proxygen"}]
  /\ KeptOff \subseteq Services
  /\ Companion \in [Services -> SUBSET Services]
  /\ UnitSections \in [Services -> SUBSET Sections]
  /\ Boots \subseteq SUBSET Services /\ EnableModes \subseteq BOOLEAN
  /\ {MaxChanges, MaxRequests, MaxFaults, MaxPanics} \subseteq Nat

VARIABLES
  pc,           \* the phase of the cycle
  ldap,         \* the configuration as the directory and the files hold it
  snap,         \* State.Snapshot, completed with the observed values
  prev,         \* ConfigManager.prev, the baseline of the diff
  firstRun,     \* State.FirstRun
  tracked,      \* ConfigManager.tracked
  requested,    \* State.RequestedConfig
  deferred,     \* ConfigManager.deferred
  carry,        \* the items of ConfigManager.carry
  pl,           \* the plan of this cycle
  disk,         \* what each item holds on the host
  up,           \* the units that run
  owed,         \* history: services with a consumed change not yet acted on
  missed,       \* history: sections whose change was consumed while disabled
  mixed,        \* history: items written from a lookup that had failed before,
                \* or lost with a step or an iteration that panicked
  dropped,      \* history: services whose restart was in a plan that was lost
                \* with its iteration, and in no plan since
  budget        \* changes, requests, faults and panics so far

hostVars    == <<ldap, disk, up>>
baseVars    == <<prev, firstRun, tracked, deferred>>
historyVars == <<owed, missed, mixed, dropped>>
vars == <<pc, snap, requested, carry, pl, budget, hostVars, baseVars,
          historyVars, policyVars>>

Configs == [val : [Vars -> Values], on : SUBSET Services]

NoValue == [v \in Vars |-> 0]

NoSnapshot == [val |-> NoValue, on |-> {}, seen |-> NoValue]

NoPlan == [sections |-> {}, items |-> {}, restarts |-> Nothing]

Plans == [sections : SUBSET Sections, items : SUBSET Items, restarts : Restarts]

Spend(what) == budget' = [budget EXCEPT ![what] = @ + 1]

SpendPanic ==
  /\ budget.fault < MaxFaults /\ budget.panic < MaxPanics
  /\ budget' = [budget EXCEPT !.fault = @ + 1, !.panic = @ + 1]

Init ==
  /\ pc = "load" /\ ldap \in Configs /\ up \in Boots
  /\ snap = NoSnapshot /\ prev = NoSnapshot
  /\ firstRun = TRUE /\ tracked = {} /\ requested = {}
  /\ deferred = Nothing /\ carry = {} /\ pl = NoPlan
  /\ disk = [i \in Items |-> NoValue]
  /\ owed = {} /\ missed = {} /\ mixed = {} /\ dropped = {}
  /\ budget = [change |-> 0, request |-> 0, fault |-> 0, panic |-> 0]
  /\ PolicyInit

-----------------------------------------------------------------------------
(* The outside: administrators and REWRITE clients.                        *)

Change(conf) ==
  /\ Spend("change")
  /\ ldap' = conf
  /\ UNCHANGED <<pc, snap, requested, carry, pl, disk, up, baseVars,
                 historyVars, policyVars>>

ChangeVar(v, x) ==
  /\ budget.change < MaxChanges /\ ldap.val[v] # x
  /\ Change([ldap EXCEPT !.val[v] = x])

ChangeServices(on) ==
  /\ budget.change < MaxChanges /\ ldap.on # on
  /\ Change([ldap EXCEPT !.on = on])

\* The listener starts at the end of the first run.
AddRequestedConfigs(s) ==
  /\ budget.request < MaxRequests /\ ~firstRun
  /\ requested' = requested \cup {s}
  /\ Spend("request")
  /\ UNCHANGED <<pc, snap, carry, pl, hostVars, baseVars, historyVars, policyVars>>

-----------------------------------------------------------------------------
(* Load, ParseMtaConfig and Observe.                                       *)

\* conditionHolds, for the if block of an item.
Holds(i, conf) == \A v \in Guard[i] : (conf.val[v] = 1) # (i \in Unless)

\* The variables of an if block are required while its condition holds.
Lookups(s, conf) ==
  RequiredVars[s] \cup
  UNION {Content[i] : i \in {j \in Items : SectionOf[j] = s /\ Holds(j, conf)}}

\* What Observe records; failed lookups keep the previous observation.
Observed(conf, failed) ==
  LET asked == (UNION {Lookups(s, conf) : s \in Sections}) \cup UNION {Guard[i] : i \in Items}
  IN [v \in Vars |-> CASE v \notin asked -> 0
                       [] v \in asked /\ v \in failed -> snap.seen[v]
                       [] OTHER -> conf.val[v]]

Load(failed) ==
  /\ pc = "load" /\ pc' = "plan"
  /\ failed \subseteq FileVars
  /\ snap' = [val |-> ldap.val, on |-> ldap.on, seen |-> Observed(ldap, failed)]
  /\ acted' = <<Nothing, Nothing>>
  /\ UNCHANGED <<requested, carry, pl, hostVars, baseVars, historyVars, carried,
                 pending, quiet, failures>>

LoadClean == Load({}) /\ UNCHANGED budget

LoadFailing ==
  /\ budget.fault < MaxFaults /\ Spend("fault")
  /\ \E v \in FileVars : Load({v})

-----------------------------------------------------------------------------
(* Plan: plan.Compute and holdDeferred.                                    *)

\* guardAllDisabled: a directory that reports no service is not believed.
AllDisabled == Cardinality(tracked) > 1 /\ tracked \cap snap.on = {}

SectionEnabled(s, conf) == (Gate[s] \in conf.on) # (s \in Negated)

\* diffSection.
Changed(s) == \E v \in Lookups(s, snap) : prev.seen[v] # snap.seen[v]

\* sectionReasons: the enabled sections with a reason to be processed.
Processed ==
  {s \in Sections : /\ SectionEnabled(s, snap)
                    /\ firstRun \/ s \in requested \/ Changed(s)}

\* compileRestarts: the sections whose services restart in this cycle; the
\* mutant restarts in the first run.
RestartingAtOnce == Processed \ requested

Restarting == IF firstRun THEN {} ELSE Processed \ requested

\* ... and those a REWRITE asked for whose change this cycle consumes.  One
\* mutant drops their restarts, one defers those of an unchanged section.
DeferringNone == {}

DeferringUnchanged == IF firstRun THEN {} ELSE Processed \cap requested

Deferring == IF firstRun THEN {} ELSE {s \in Processed \cap requested : Changed(s)}

\* compileSectionRestarts: what becomes of a service of a changed section.
SectionAction(svc) ==
  CASE svc \in snap.on -> "restart"
    [] svc \in KeptOff \ snap.on -> "none"
    [] svc \notin snap.on \cup KeptOff ->
         IF Companion[svc] \cap snap.on # {} THEN "restart" ELSE "stop"

SectionRestarts(S) ==
  [svc \in Services |->
     IF \E s \in S : svc \in RestartOf[s] THEN SectionAction(svc) ELSE "none"]

\* Stops of the tracked services that are off, starts of the enabled ones
\* that the first run did not track.
serviceToggles ==
  [svc \in Services |->
     CASE svc \in tracked \ snap.on -> "stop"
       [] svc \in snap.on \ tracked /\ ~firstRun -> "start"
       [] OTHER -> "none"]

\* mergeCarry adds what the previous cycle left undone.
Compute ==
  [sections |-> Processed,
   items    |-> {i \in Items : SectionOf[i] \in Processed /\ Holds(i, snap)} \cup carry,
   restarts |-> Classify(Over(Over(SectionRestarts(Restarting), serviceToggles), carried))]

Held == MergeRestarts(deferred, Classify(SectionRestarts(Deferring)))

\* Only a cycle without a REWRITE releases what is held; the mutant never does.
ReleaseNever == FALSE

Release == ~firstRun /\ requested = {}

\* Plan takes the requests; a failed plan queues them again, and keeps the
\* baseline of the diff.
PlanFails ==
  /\ pc = "plan" /\ AllDisabled
  /\ pc' = "load"
  /\ UNCHANGED <<snap, requested, carry, pl, budget, hostVars, baseVars, historyVars,
                 policyVars>>

\* An iteration that panics in Compute has taken the requests.
PlanPanics ==
  /\ pc = "plan" /\ pc' = "load"
  /\ SpendPanic
  /\ requested' = {}
  /\ UNCHANGED <<snap, carry, pl, hostVars, baseVars, historyVars, policyVars>>

Plan ==
  /\ pc = "plan" /\ ~AllDisabled
  /\ pc' = "execute"
  /\ prev' = snap
  /\ tracked' = IF firstRun THEN tracked \cup snap.on ELSE tracked
  /\ pl' = IF Release THEN [Compute EXCEPT !.restarts = MergeRestarts(Held, @)]
                      ELSE Compute
  /\ deferred' = IF Release THEN Nothing ELSE Held
  /\ requested' = {}
  /\ owed' = owed \cup
       {svc \in Services : /\ ~firstRun /\ SectionAction(svc) # "none"
                           /\ \E s \in Sections : /\ SectionEnabled(s, snap)
                                                  /\ Changed(s) /\ svc \in RestartOf[s]}
  /\ missed' = {s \in Sections \ Processed : s \in missed \/ Changed(s) \/ firstRun}
  /\ dropped' = dropped \ (Asked(pl'.restarts) \cup Asked(deferred'))
  /\ UNCHANGED <<snap, firstRun, mixed, carry, budget, hostVars, policyVars>>

-----------------------------------------------------------------------------
(* Execute.                                                                *)

Render(i, val) == [v \in Vars |-> IF v \in Content[i] THEN val[v] ELSE 0]

\* The items Execute carries to the next plan; the mutant forgets them.
CarryNothing(failed) == {}

CarryFailed(failed) == failed

\* The items that failed are carried, the lost ones are neither written nor
\* carried.  A mapped file that cannot be written only fails the cycle.
Execute(failed, lost, error) ==
  LET done == pl.items \ (failed \cup lost) IN
    /\ pc = "execute"
    /\ disk' = [i \in Items |-> IF i \in done THEN Render(i, snap.val) ELSE disk[i]]
    /\ mixed' = (mixed \ done) \cup lost \cup
                {i \in done : \E v \in Content[i] : snap.seen[v] # snap.val[v]}
    /\ carry' = CarryFailed(failed)
    /\ carried' = pl.restarts
    /\ pc' = IF error THEN "load" ELSE "restart"
    /\ pl' = IF error THEN NoPlan ELSE pl
    /\ UNCHANGED <<snap, requested, ldap, up, baseVars, owed, missed, dropped,
                   pending, quiet, failures, acted>>

ExecuteClean == Execute({}, {}, FALSE) /\ UNCHANGED budget

ExecuteFailing ==
  /\ budget.fault < MaxFaults /\ Spend("fault")
  /\ \E failed \in SUBSET pl.items : Execute(failed, {}, TRUE)

\* A step that panics is recovered, but what it was to return is lost with
\* it; templates are recovered one by one.
ExecutePanicking ==
  /\ SpendPanic
  /\ \E step \in {StepOf[i] : i \in pl.items} :
     \E unwritten \in SUBSET {i \in pl.items : StepOf[i] = step} :
       IF step = "rewrite" THEN Execute(unwritten, {}, TRUE)
                           ELSE Execute({}, unwritten, TRUE)

\* healMapfiles and doMapfile run before the steps and outside of them.  A
\* panic there is recovered by runLoopIterationSafe: the baseline has moved,
\* but the carry is still the one of the cycle before, and the plan is gone.
MapfilePanics ==
  /\ pc = "execute" /\ pc' = "load"
  /\ SpendPanic
  /\ pl' = NoPlan
  /\ mixed' = mixed \cup (pl.items \ carry)
  /\ dropped' = dropped \cup (owed \cap Asked(pl.restarts))
  /\ UNCHANGED <<snap, requested, carry, hostVars, baseVars, owed, missed, policyVars>>

-----------------------------------------------------------------------------
(* ApplyRestarts and the end of the cycle.                                 *)

\* Units that systemctl starts for a list, given the ones that run.
Starting(running, list) ==
  {svc \in Services : \/ list[svc] = "start" /\ svc \notin running
                      \/ list[svc] = "restart" /\ svc \in running}

Running(running, list) ==
  (running \cup {svc \in Services : list[svc] = "start"})
  \ {svc \in Services : list[svc] = "stop"}

\* A unit that starts sends a REWRITE of its sections, and the trigger answers
\* at once if this cycle has just rewritten all of them.
ExecStartPre(started) ==
  IF firstRun THEN {}
  ELSE UNION {UnitSections[svc] :
                svc \in {unit \in started : ~(UnitSections[unit] \subseteq pl.sections)}}

\* What the restart phase does to the host, and the end of the iteration.
HostFollows ==
  LET between == Running(up, acted'[1]) IN
    /\ up' = IF Systemd THEN Running(between, acted'[2]) ELSE up
    /\ requested' = IF Systemd
         THEN requested \cup ExecStartPre(Starting(up, acted'[1])
                                          \cup Starting(between, acted'[2]))
         ELSE requested
    /\ pl' = NoPlan /\ pc' = "load"
    /\ UNCHANGED <<ldap, disk, prev, tracked, deferred, snap, carry, missed, mixed,
                   dropped>>

Finalize == HostFollows /\ firstRun' = FALSE

\* The services an Apply has dealt with: acted on, flagged, or given up.
DealtWith(lists, failed) ==
  Asked(acted'[1]) \cup Asked(acted'[2]) \cup {svc \in failed : failures'[svc] = 0}
  \cup UNION {Flagged(list) : list \in lists}

SpendIf(failed) ==
  IF failed = {} THEN UNCHANGED budget
                 ELSE budget.fault < MaxFaults /\ Spend("fault")

RestartsDisabled ==
  /\ pc = "restart" /\ FALSE \in EnableModes
  /\ ApplyDisabled(pl.restarts)
  /\ Finalize /\ UNCHANGED <<owed, budget>>

RestartsNow ==
  /\ pc = "restart" /\ TRUE \in EnableModes /\ 0 \in Debounces
  /\ \E fail1, fail2 \in SUBSET Services :
       /\ SpendIf(fail1 \cup fail2)
       /\ ApplyNow(pl.restarts, fail1, fail2)
       /\ owed' = owed \ DealtWith({pending, pl.restarts}, fail1 \cup fail2)
  /\ Finalize

RestartsDebounced ==
  /\ pc = "restart" /\ TRUE \in EnableModes
  /\ \E d \in Debounces, fail \in SUBSET Services :
       /\ SpendIf(fail)
       /\ ApplyDebounced(pl.restarts, d, fail)
       /\ owed' = owed \ DealtWith({Due(pl.restarts, d)}, fail)
  /\ Finalize

\* A panic in Apply: the first run, if it was one, is not over.
RestartsPanicking ==
  /\ pc = "restart" /\ TRUE \in EnableModes
  /\ SpendPanic
  /\ \E d \in Debounces :
     \E out1 \in SUBSET Asked(FlushList(pl.restarts, d)),
        out2 \in SUBSET Asked(QueueList(pl.restarts, d)) :
     \E fail1 \in SUBSET out1, fail2 \in SUBSET out2 :
       /\ ApplyPanicking(pl.restarts, d, out1, out2, fail1, fail2)
       /\ owed' = owed \ DealtWith({Only(FlushList(pl.restarts, d), out1),
                                    Only(QueueList(pl.restarts, d), out2)}, fail1 \cup fail2)
  /\ HostFollows /\ UNCHANGED firstRun

TickPending ==
  /\ Tick
  /\ UNCHANGED <<pc, snap, requested, carry, pl, budget, hostVars, baseVars, historyVars>>

Cycle ==
  \/ LoadClean \/ LoadFailing \/ Plan \/ PlanFails \/ PlanPanics
  \/ ExecuteClean \/ ExecuteFailing \/ ExecutePanicking \/ MapfilePanics
  \/ RestartsDisabled \/ RestartsNow \/ RestartsDebounced \/ RestartsPanicking

Outside ==
  \/ \E v \in Vars, x \in Values : ChangeVar(v, x)
  \/ \E on \in SUBSET Services : ChangeServices(on)
  \/ \E s \in Sections : AddRequestedConfigs(s)

Next == Cycle \/ Outside \/ TickPending

Spec == Init /\ [][Next]_vars

\* The daemon keeps cycling and time keeps passing.
FairSpec == Spec /\ WF_vars(Cycle) /\ WF_vars(TickPending)

-----------------------------------------------------------------------------
(* Properties.                                                             *)

TypeOK ==
  /\ pc \in {"load", "plan", "execute", "restart"}
  /\ ldap \in Configs
  /\ {snap, prev} \subseteq
       [val : [Vars -> Values], on : SUBSET Services, seen : [Vars -> Values]]
  /\ firstRun \in BOOLEAN
  /\ {tracked, owed, dropped, up} \subseteq SUBSET Services
  /\ {requested, missed} \subseteq SUBSET Sections
  /\ {carry, mixed} \subseteq SUBSET Items
  /\ pl \in Plans
  /\ disk \in [Items -> [Vars -> Values]]
  /\ {deferred, carried, pending} \subseteq Restarts
  /\ acted \in Restarts \X Restarts
  /\ quiet \in [Services -> Nat]
  /\ failures \in [Services -> 0..(MaxAttempts - 1)]
  /\ budget \in [change : 0..MaxChanges, request : 0..MaxRequests,
                 fault : 0..MaxFaults, panic : 0..MaxPanics]

\* The items the diff vouches for: of a section that missed no change, under
\* a condition that holds and is compared itself, not written from a file that
\* could not be observed, and not lost since.
Vouched(i, conf) ==
  /\ SectionOf[i] \notin missed
  /\ Guard[i] \subseteq RequiredVars[SectionOf[i]] /\ Holds(i, conf)
  /\ i \notin mixed

\* No change is lost between the diff and the host (Plan, Execute, mergeCarry):
\* from the first run on, what an item holds is what the baseline says, or the
\* item is in the plan being executed or in the carry.  The next diff would
\* not see the change again.
Rendered ==
  ~firstRun => \A i \in Items : Vouched(i, prev) =>
    \/ disk[i] = Render(i, prev.seen)
    \/ i \in carry
    \/ pc = "execute" /\ i \in pl.items

\* A change that a plan consumed is answered by every service its section
\* restarts (compileRestarts, holdDeferred, Execute, Policy.Apply): until the
\* service was acted on, flagged or given up, it is in the plan, the carry,
\* the deferred restarts or the debounced ones.  Failed steps, recovered panics
\* of steps and panics in Plan or Apply lose none.  The one way to lose a
\* restart is a panic while the mapped files are written, and only those of the
\* plan it interrupts are lost (runLoopIterationSafe).
RestartNotLost ==
  owed \subseteq Asked(pl.restarts) \cup Asked(carried) \cup Asked(deferred)
                 \cup Asked(pending) \cup dropped

\* A heavy service is never restarted on a systemd host, whichever way the
\* entry took to the policy (plan.Classify, dispatch).
HeavyNeverRestarted ==
  Systemd => \A svc \in Heavy : "restart" \notin {acted[1][svc], acted[2][svc]}

\* The first run, retried or not, restarts and starts nothing on a systemd
\* host (compileRestarts, serviceToggles): it can only stop a service that was
\* disabled since the attempt that tracked it, also when a panic cuts its
\* restart phase short.
FirstRunRestartsNothing ==
  [][Systemd /\ firstRun /\ pc = "restart" =>
       \A svc \in Services : {acted'[1][svc], acted'[2][svc]} \subseteq {"none", "stop"}]_vars

AllOff == tracked \cap ldap.on = {}

\* Once the configuration stops changing, the host converges to it: failed
\* actions are retried until they succeed (Execute, mergeCarry).
Converges ==
  <>[](AllOff \/ \A i \in Items : Vouched(i, ldap) /\ SectionEnabled(SectionOf[i], ldap)
                                  => disk[i] = Render(i, ldap.val))

\* The restart of a change is carried out, flagged or given up at last, even
\* if a REWRITE cycle consumed the change (holdDeferred, Policy.Apply).  This is
\* said of the services that are enabled and were enabled from the start: the
\* requests of the others are repeated in every cycle and keep their window open
\* (serviceToggles, record).
ChangesAreApplied ==
  \A svc \in Services :
    svc \in owed ~> (svc \notin owed \/ AllOff \/ svc \notin tracked \cap ldap.on)

\* No REWRITE loop: the REWRITE that a unit sends when it is restarted makes
\* the daemon restart nothing, so the restarts come to an end
\* (compileRestarts, rewrittenByRestartingCycle).
NoRewriteLoop ==
  <>[][pc = "restart" => \A svc \in Services :
                           "restart" \notin {acted'[1][svc], acted'[2][svc]}]_vars

\* "`stop` for any other disabled service": a service that is enabled in the
\* snapshot of the cycle is not stopped by it.  A carried stop of a service
\* that was enabled again is (carryItems, serviceToggles).
StopsOnlyDisabled ==
  [][pc = "restart" =>
       \A svc \in snap.on : "stop" \notin {acted'[1][svc], acted'[2][svc]}]_vars
=============================================================================
