---------------------------- MODULE RestartPolicy ----------------------------
(***************************************************************************)
(* internal/restart: what a cycle does with the restarts of its plan.      *)
(*                                                                         *)
(* A restart list is a function from services to actions, "none" where the *)
(* list has no entry.  The reasons of an entry are left out.  An attempt   *)
(* is a systemctl call on a systemd host, which may fail.  On a legacy     *)
(* host it is AddRestartWithReasons, which queues a restart whatever the   *)
(* action of the entry, and never fails.                                   *)
(***************************************************************************)
EXTENDS Naturals, FiniteSets

CONSTANTS
  Services,     \* the services of the node
  Heavy,        \* plan.heavyServices
  Systemd,      \* the host is managed through systemd units
  MaxAttempts,  \* restart.maxAttempts
  Debounces     \* values of zmconfigd_restart_debounce_seconds, in ticks

ASSUME PolicyAssumption ==
  /\ Heavy \subseteq Services
  /\ Systemd \in BOOLEAN
  /\ MaxAttempts \in Nat \ {0}
  /\ Debounces \subseteq Nat

VARIABLES
  carried,      \* the restarts Apply did not consume: ConfigManager.carry.Restarts
  pending,      \* Policy.pending: the debounced requests
  quiet,        \* ticks since a pending service was last requested
  failures,     \* Policy.failures
  acted         \* what the Apply of the latest cycle carried out: <<by flush, by queue>>

policyVars == <<carried, pending, quiet, failures, acted>>

Actions == {"none", "restart", "stop", "start", "pending-restart"}

Restarts == [Services -> Actions]

Nothing == [svc \in Services |-> "none"]

Asked(list) == {svc \in Services : list[svc] # "none"}

\* The list of f, completed by g where f has no entry.
Over(f, g) == [svc \in Services |-> IF f[svc] # "none" THEN f[svc] ELSE g[svc]]

Only(list, S) == [svc \in Services |-> IF svc \in S THEN list[svc] ELSE "none"]

\* The restart of a heavy service is only flagged on a systemd host; the
\* mutant forgets it.
ClassifyNone(list) == list

Classify(list) ==
  [svc \in Services |->
     IF Systemd /\ list[svc] = "restart" /\ svc \in Heavy
       THEN "pending-restart" ELSE list[svc]]

\* deferred.go, MergeRestarts: the fresh entry of a service wins.
MergeRestarts(stale, fresh) == Classify(Over(fresh, stale))

-----------------------------------------------------------------------------
(* dispatch, for the services of a list; those in fail report an error.    *)

Flagged(list) == {svc \in Services : Classify(list)[svc] = "pending-restart"}

Attempted(list) == Asked(list) \ Flagged(list)

\* A service that failed MaxAttempts times in a row is given up; the mutant
\* tries once more.
GivenUpLate(count, fail) == {svc \in fail : count[svc] >= MaxAttempts}

GivenUp(count, fail) == {svc \in fail : count[svc] + 1 >= MaxAttempts}

NextCount(count, list, fail) ==
  [svc \in Services |->
     IF svc \in fail
       THEN IF svc \in GivenUp(count, fail) THEN 0 ELSE count[svc] + 1
       ELSE IF svc \in Attempted(list) THEN 0 ELSE count[svc]]

\* The entries dispatch wants to see again.
Retry(count, list, fail) == Only(list, fail \ GivenUp(count, fail))

CarriedOut(list, fail) ==
  [svc \in Services |->
     CASE svc \notin Attempted(list) \ fail -> "none"
       [] svc \in Attempted(list) \ fail /\ ~Systemd -> "restart"
       [] OTHER -> list[svc]]

MayFail(list, fail) == fail \subseteq (IF Systemd THEN Attempted(list) ELSE {})

-----------------------------------------------------------------------------
(* Policy.Apply, one definition per case.                                  *)

PolicyInit ==
  /\ carried = Nothing /\ pending = Nothing
  /\ acted = <<Nothing, Nothing>>
  /\ quiet = [svc \in Services |-> 0]
  /\ failures = [svc \in Services |-> 0]

\* zmconfigd_enable_config_restarts is false: nothing is consumed.
ApplyDisabled(list) ==
  /\ carried' = list /\ acted' = <<Nothing, Nothing>>
  /\ UNCHANGED <<pending, quiet, failures>>

\* No debounce: what an earlier setting held back goes out, then the list.
ApplyNow(list, fail1, fail2) ==
  LET count1 == NextCount(failures, pending, fail1) IN
    /\ MayFail(pending, fail1) /\ MayFail(list, fail2)
    /\ pending' = Retry(failures, pending, fail1)
    /\ carried' = Retry(count1, list, fail2)
    /\ failures' = NextCount(count1, list, fail2)
    /\ acted' = <<CarriedOut(pending, fail1), CarriedOut(list, fail2)>>
    /\ quiet' = [svc \in Services |-> IF pending'[svc] = "none" THEN 0 ELSE quiet[svc]]

\* record: the list joins the pending requests and restarts their windows.
Recorded(list) == Over(list, pending)

Since(list) ==
  [svc \in Services |-> IF svc \in Asked(list) THEN 0 ELSE quiet[svc]]

\* What flush lets out: the requests quiet for the debounce period.
Due(list, debounce) ==
  Only(Recorded(list), {svc \in Services : Since(list)[svc] >= debounce})

ApplyDebounced(list, debounce, fail) ==
  LET out == Due(list, debounce) IN
    /\ debounce > 0 /\ MayFail(out, fail)
    /\ pending' = Over(Retry(failures, out, fail),
                       Only(Recorded(list), Services \ Asked(out)))
    /\ quiet' = [svc \in Services |->
                   IF pending'[svc] = "none" THEN 0 ELSE Since(list)[svc]]
    /\ failures' = NextCount(failures, out, fail)
    /\ acted' = <<CarriedOut(out, fail), Nothing>>
    /\ carried' = Nothing

\* What flush and queue are to dispatch.
FlushList(list, debounce) == IF debounce > 0 THEN Due(list, debounce) ELSE pending

QueueList(list, debounce) == IF debounce > 0 THEN Nothing ELSE list

\* Apply cut short by a panic: flush has dispatched the services of out1 and,
\* if that was all it had to, queue those of out2.  An entry leaves the pending
\* set when its dispatch returns; the carry is still all of the list.
ApplyPanicking(list, debounce, out1, out2, fail1, fail2) ==
  LET flushed == Only(FlushList(list, debounce), out1)
      queued  == Only(QueueList(list, debounce), out2)
      held    == IF debounce > 0 THEN Recorded(list) ELSE pending
      since   == IF debounce > 0 THEN Since(list) ELSE quiet
  IN /\ out1 = Asked(FlushList(list, debounce)) \/ out2 = {}
     /\ MayFail(flushed, fail1) /\ MayFail(queued, fail2)
     /\ pending' = Over(Retry(failures, flushed, fail1),
                        Only(held, Services \ Asked(flushed)))
     /\ quiet' = [svc \in Services |-> IF pending'[svc] = "none" THEN 0 ELSE since[svc]]
     /\ failures' = NextCount(NextCount(failures, flushed, fail1), queued, fail2)
     /\ acted' = <<CarriedOut(flushed, fail1), CarriedOut(queued, fail2)>>
     /\ UNCHANGED carried

\* Time passes; a service that waited for the longest period stays due.
Tick ==
  /\ \E d \in Debounces : \E svc \in Asked(pending) : quiet[svc] < d
  /\ quiet' = [svc \in Services |->
                 IF svc \in Asked(pending) /\ \E d \in Debounces : quiet[svc] < d
                   THEN quiet[svc] + 1 ELSE quiet[svc]]
  /\ UNCHANGED <<carried, pending, failures, acted>>
=============================================================================
