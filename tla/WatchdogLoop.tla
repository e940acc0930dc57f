---------------------------- MODULE WatchdogLoop ----------------------------
(***************************************************************************)
(* The goroutine of the watchdog (Start, Stop and run of                   *)
(* internal/watchdog/watchdog.go), for a caller that starts and stops it   *)
(* several times.  Every Start makes a loop with a stopChan and a          *)
(* runningChan of its own; loops are numbered in the order of the Starts,  *)
(* and closed channels are sets of numbers.  The flag "enabled" is shared  *)
(* by all loops.                                                           *)
(***************************************************************************)
EXTENDS Naturals, TLAPS

CONSTANTS
  MaxLoops,     \* bound on calls of Start
  MayGiveUp     \* contexts may end: of a Stop, of the Start of a waiting loop

ASSUME LoopAssumption == MaxLoops \in Nat /\ MayGiveUp \in BOOLEAN

Loops == 1..MaxLoops

VARIABLES
  enabled,     \* Watchdog.enabled
  started,     \* number of the latest loop: stopChan and runningChan are its
  caller,      \* idle, or in Stop: closing, waiting
  stopped,     \* loops whose stopChan is closed
  ended,       \* loops whose runningChan is closed
  at           \* where each loop is

vars == <<enabled, started, caller, stopped, ended, at>>

Init ==
  /\ enabled = FALSE /\ started = 0 /\ caller = "idle"
  /\ stopped = {} /\ ended = {}
  /\ at = [g \in Loops |-> "none"]

-----------------------------------------------------------------------------
(* The caller.                                                             *)

\* Where a new loop begins: the mutant does not wait for the one it replaces.
FirstStepNow(g) == "select"

FirstStep(g) == IF g = 1 THEN "select" ELSE "wait"

Start ==
  /\ caller = "idle" /\ ~enabled /\ started < MaxLoops
  /\ enabled' = TRUE
  /\ started' = started + 1
  /\ at' = [at EXCEPT ![started + 1] = FirstStep(started + 1)]
  /\ UNCHANGED <<caller, stopped, ended>>

StopDisable ==
  /\ caller = "idle" /\ enabled
  /\ enabled' = FALSE /\ caller' = "closing"
  /\ UNCHANGED <<started, stopped, ended, at>>

StopClose ==
  /\ caller = "closing" /\ caller' = "waiting"
  /\ stopped' = stopped \cup {started}
  /\ UNCHANGED <<enabled, started, ended, at>>

StopReturns ==
  /\ caller = "waiting" /\ caller' = "idle"
  /\ started \in ended
  /\ UNCHANGED <<enabled, started, stopped, ended, at>>

StopGivesUp ==
  /\ caller = "waiting" /\ caller' = "idle"
  /\ MayGiveUp
  /\ UNCHANGED <<enabled, started, stopped, ended, at>>

-----------------------------------------------------------------------------
(* run, for loop g.                                                        *)

Goto(g, here, there) ==
  /\ at[g] = here /\ at' = [at EXCEPT ![g] = there]
  /\ UNCHANGED <<enabled, started, caller, stopped>>

\* The deferred close of runningChan; the mutant forgets it in a loop that
\* never began.
EndedIfBegan(g) == IF at[g] = "wait" THEN ended ELSE ended \cup {g}

Ended(g) == ended \cup {g}

Return(g, here) == Goto(g, here, "returned") /\ ended' = Ended(g)

Wait(g) ==
  \/ g - 1 \in ended /\ Goto(g, "wait", "select") /\ UNCHANGED ended
  \/ g \in stopped /\ Return(g, "wait")
  \/ MayGiveUp /\ Return(g, "wait")

Select(g) ==
  \/ Goto(g, "select", "ticked") /\ UNCHANGED ended
  \/ g \in stopped /\ Return(g, "select")

\* A stop wins over a tick; the mutant lets the tick win.
TickWins(g) == TRUE

MayCheck(g) == g \notin stopped

Ticked(g) ==
  \/ MayCheck(g) /\ Goto(g, "ticked", "enter") /\ UNCHANGED ended
  \/ g \in stopped /\ Return(g, "ticked")

\* checkServices.
Enter(g) ==
  \/ enabled /\ Goto(g, "enter", "checking") /\ UNCHANGED ended
  \/ ~enabled /\ Goto(g, "enter", "select") /\ UNCHANGED ended

Check(g) == Goto(g, "checking", "select") /\ UNCHANGED ended

Run(g) == Wait(g) \/ Select(g) \/ Ticked(g) \/ Enter(g) \/ Check(g)

-----------------------------------------------------------------------------
Next ==
  \/ Start \/ StopDisable \/ StopClose \/ StopReturns \/ StopGivesUp
  \/ \E g \in Loops : Run(g)

Spec == Init /\ [][Next]_vars

\* Every goroutine keeps running, and a Stop does not stop half-way.
FairSpec ==
  /\ Spec
  /\ WF_vars(StopClose \/ StopReturns)
  /\ \A g \in Loops : WF_vars(Run(g))

-----------------------------------------------------------------------------
(* Properties.                                                             *)

Running == {g \in Loops : at[g] \in {"select", "ticked", "enter", "checking"}}

\* A loop does not begin before the one it replaces has returned, even if the
\* Stop in between gave up waiting (Start, run).
SuccessorWaits == \A g \in Running : g + 1 \notin Running

\* A loop that was stopped returns, whatever ticks come (run).
StoppedLoopsEnd == \A g \in Loops : g \in stopped ~> at[g] = "returned"

\* Stop returns (Stop; the channel it waits on is closed on every way out of
\* run).
StopEnds == caller = "closing" ~> caller = "idle"

-----------------------------------------------------------------------------
(* SuccessorWaits for any number of loops.                                 *)

\* Only a loop that returned has closed its runningChan, and a running loop
\* has seen the one of its predecessor closed.
HandoverInv ==
  /\ at \in [Loops -> {"none", "wait", "select", "ticked", "enter", "checking", "returned"}]
  /\ started \in 0..MaxLoops
  /\ \A g \in Loops : g > started => at[g] = "none"
  /\ \A g \in ended : g \in Loops /\ at[g] = "returned"
  /\ \A g \in Running : g = 1 \/ g - 1 \in ended

\* A successor never runs beside the loop it replaced (Start, run).
THEOREM Handover == Spec => []SuccessorWaits
<1>1. Init => HandoverInv
  BY LoopAssumption DEF Init, HandoverInv, Running
<1>2. HandoverInv /\ [Next]_vars => HandoverInv'
  <2> SUFFICES ASSUME HandoverInv, [Next]_vars PROVE HandoverInv'
    OBVIOUS
  <2> USE LoopAssumption DEF Loops
  <2>1. CASE Start
    BY <2>1 DEF Start, FirstStep, HandoverInv, Running
  <2>2. CASE StopDisable \/ StopClose \/ StopReturns \/ StopGivesUp \/ UNCHANGED vars
    BY <2>2 DEF StopDisable, StopClose, StopReturns, StopGivesUp, vars, HandoverInv, Running
  <2>3. ASSUME NEW g \in Loops, Run(g) PROVE HandoverInv'
    <3>1. \/ g - 1 \in ended /\ Goto(g, "wait", "select") /\ UNCHANGED ended
          \/ \E here \in {"wait", "select", "ticked"} :
               Goto(g, here, "returned") /\ ended' = ended \cup {g}
          \/ /\ \E here, there \in {"select", "ticked", "enter", "checking"} :
                  Goto(g, here, there)
             /\ UNCHANGED ended
      BY <2>3 DEF Run, Wait, Select, Ticked, Enter, Check, Return, Ended
    <3>2. CASE g - 1 \in ended /\ Goto(g, "wait", "select") /\ UNCHANGED ended
      BY <3>2 DEF Goto, HandoverInv, Running
    <3>3. ASSUME NEW here \in {"wait", "select", "ticked"}, Goto(g, here, "returned"),
                 ended' = ended \cup {g}
          PROVE  HandoverInv'
      BY <3>3 DEF Goto, HandoverInv, Running
    <3>4. ASSUME NEW here \in {"select", "ticked", "enter", "checking"},
                 NEW there \in {"select", "ticked", "enter", "checking"},
                 Goto(g, here, there), UNCHANGED ended
          PROVE  HandoverInv'
      BY <3>4 DEF Goto, HandoverInv, Running
    <3> QED BY <3>1, <3>2, <3>3, <3>4
  <2> QED BY <2>1, <2>2, <2>3 DEF Next
<1>3. HandoverInv => SuccessorWaits
  BY LoopAssumption DEF HandoverInv, SuccessorWaits, Running, Loops
<1> QED BY <1>1, <1>2, <1>3, PTL DEF Spec
=============================================================================
