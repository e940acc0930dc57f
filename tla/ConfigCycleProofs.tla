-------------------------- MODULE ConfigCycleProofs --------------------------
(***************************************************************************)
(* Theorems about the configuration cycle, for every configd.cf, every set *)
(* of services and variables and every bound: no written item falls behind *)
(* the baseline, no restart that a change calls for is lost, a heavy       *)
(* service is never restarted, and the first run restarts nothing.         *)
(***************************************************************************)
EXTENDS ConfigCycle, TLAPS

\* A leaf that names no prover is tried with each of these, for a minute.
USE SMTT(60), ZenonT(60), Z3T(60)

-----------------------------------------------------------------------------
(* Facts about restart lists.                                              *)

\* Classify changes the action of an entry, never which services have one.
LEMMA AskedClassify ==
  ASSUME NEW list PROVE Asked(Classify(list)) = Asked(list)
BY DEF Asked, Classify

\* Over keeps the entries of both lists.
LEMMA AskedOver ==
  ASSUME NEW f, NEW g PROVE Asked(Over(f, g)) = Asked(f) \cup Asked(g)
BY DEF Asked, Over

\* MergeRestarts keeps the entries of both lists.
LEMMA AskedMerge ==
  ASSUME NEW stale, NEW fresh
  PROVE  Asked(MergeRestarts(stale, fresh)) = Asked(stale) \cup Asked(fresh)
BY AskedClassify, AskedOver DEF MergeRestarts

\* Only keeps the entries of the services it is given.
LEMMA AskedOnly ==
  ASSUME NEW list, NEW S PROVE Asked(Only(list, S)) = Asked(list) \cap S
BY DEF Asked, Only

\* What dispatch did not act on and did not flag has failed.
LEMMA NotCarriedOut ==
  ASSUME NEW list, NEW fail, NEW svc \in Asked(list),
         svc \notin Asked(CarriedOut(list, fail)), svc \notin Flagged(list)
  PROVE  svc \in fail
BY DEF Asked, CarriedOut, Attempted

\* A service that failed is tried again or has its count reset to zero.
LEMMA FailedIsRetried ==
  ASSUME NEW count, NEW list, NEW fail, NEW svc \in Asked(list), svc \in fail
  PROVE  \/ svc \in Asked(Retry(count, list, fail))
         \/ NextCount(count, list, fail)[svc] = 0
BY DEF Asked, Retry, Only, NextCount

-----------------------------------------------------------------------------
(* Rendered.                                                               *)

RenderedBy ==
  \A i \in Items : Vouched(i, prev) =>
    \/ disk[i] = Render(i, prev.seen)
    \/ i \in carry
    \/ pc = "execute" /\ i \in pl.items

\* Rendered is not inductive: it says nothing of the first run, whose end has
\* to establish it, nor of the snapshot that Execute renders.
RenderInv ==
  /\ firstRun \in BOOLEAN
  /\ \A i \in Items : \A v \in Guard[i] :
       snap.seen[v] = snap.val[v] /\ prev.seen[v] = prev.val[v]
  /\ pc = "execute" => prev = snap /\ carry \subseteq pl.items
  /\ (pc \in {"execute", "restart"} \/ ~firstRun) => RenderedBy

LEMMA RenderInit == Init => RenderInv
BY CycleAssumption DEF Init, RenderInv, NoSnapshot, NoValue

\* If and when the outside moves, the daemon's state stays as it is.
LEMMA RenderOutside ==
  ASSUME RenderInv, UNCHANGED <<pc, snap, carry, pl, disk, prev, firstRun, missed, mixed>>
  PROVE  RenderInv'
BY DEF RenderInv, RenderedBy, Vouched, Holds, Render

LEMMA RenderLoad ==
  ASSUME RenderInv, NEW failed, Load(failed)
  PROVE  RenderInv'
<1>1. ASSUME NEW i \in Items, NEW v \in Guard[i]
      PROVE  snap'.seen[v] = snap'.val[v] /\ prev'.seen[v] = prev'.val[v]
  <2>1. v \in Vars /\ v \notin FileVars
    BY CycleAssumption
  <2>2. v \in UNION {Guard[j] : j \in Items}
    OBVIOUS
  <2>3. failed \subseteq FileVars /\ snap'.val = ldap.val /\ snap'.seen = Observed(ldap, failed)
    BY DEF Load
  <2>4. Observed(ldap, failed)[v] = ldap.val[v]
    <3> DEFINE asked == (UNION {Lookups(s, ldap) : s \in Sections}) \cup UNION {Guard[j] : j \in Items}
    <3>1. v \in asked /\ v \notin failed
      BY <2>1, <2>2, <2>3
    <3>2. Observed(ldap, failed) =
            [w \in Vars |-> CASE w \notin asked -> 0
                              [] w \in asked /\ w \in failed -> snap.seen[w]
                              [] OTHER -> ldap.val[w]]
      BY DEF Observed
    <3> HIDE DEF asked
    <3> QED BY <2>1, <3>1, <3>2
  <2> QED BY <2>3, <2>4 DEF Load, RenderInv, baseVars
<1>2. (~firstRun' => RenderedBy') /\ pc' = "plan" /\ firstRun' \in BOOLEAN
  BY DEF RenderInv, RenderedBy, Vouched, Holds, Render, Load, baseVars, historyVars, hostVars
<1> QED BY <1>1, <1>2 DEF RenderInv

LEMMA RenderPlan ==
  ASSUME RenderInv, Plan
  PROVE  RenderInv'
<1>1. prev' = snap /\ snap' = snap /\ pc' = "execute" /\ carry' = carry /\ disk' = disk
      /\ mixed' = mixed /\ firstRun' = firstRun
  BY DEF Plan, hostVars
<1>2. pl'.items = {i \in Items : SectionOf[i] \in Processed /\ Holds(i, snap)} \cup carry
  BY DEF Plan, Compute
<1>3. missed' = {s \in Sections \ Processed : s \in missed \/ Changed(s) \/ firstRun}
  BY DEF Plan
<1>4. ASSUME NEW i \in Items, Vouched(i, prev)', i \notin pl'.items
      PROVE  disk[i] = Render(i, snap.seen)
  <2> DEFINE s == SectionOf[i]
  <2>1. s \in Sections /\ Holds(i, snap) /\ s \notin missed' /\ Guard[i] \subseteq RequiredVars[s]
    BY <1>1, <1>4, CycleAssumption DEF Vouched, Holds
  <2>2. s \notin Processed /\ i \notin carry
    BY <1>2, <1>4, <2>1
  <2>3. s \notin missed /\ ~Changed(s) /\ ~firstRun
    BY <1>3, <2>1, <2>2
  <2>4. Content[i] \subseteq Lookups(s, snap) /\ RequiredVars[s] \subseteq Lookups(s, snap)
    BY <2>1 DEF Lookups
  <2>5. \A v \in Content[i] \cup Guard[i] : prev.seen[v] = snap.seen[v]
    BY <2>1, <2>3, <2>4 DEF Changed
  <2>6. Holds(i, prev)
    BY <2>1, <2>5 DEF Holds, RenderInv
  <2>7. Vouched(i, prev)
    BY <1>1, <1>4, <2>1, <2>3, <2>6 DEF Vouched
  <2>8. disk[i] = Render(i, prev.seen)
    BY <2>2, <2>3, <2>7 DEF RenderInv, RenderedBy, Plan
  <2>9. Render(i, prev.seen) = Render(i, snap.seen)
    BY <2>5 DEF Render
  <2> QED BY <2>8, <2>9
<1>5. RenderedBy'
  BY <1>1, <1>4 DEF RenderedBy, Render
<1> QED BY <1>1, <1>2, <1>5 DEF RenderInv

LEMMA RenderExecute ==
  ASSUME RenderInv, NEW failed, NEW lost, NEW error, Execute(failed, lost, error)
  PROVE  RenderInv'
<1>1. /\ prev' = snap /\ prev' = prev /\ snap' = snap /\ firstRun' = firstRun /\ missed' = missed
      /\ carry' = failed /\ pc' # "execute"
  BY DEF Execute, RenderInv, baseVars, CarryFailed
<1>2. ASSUME NEW i \in Items, Vouched(i, prev)'
      PROVE  disk'[i] = Render(i, snap.seen) \/ i \in carry'
  <2> DEFINE done == pl.items \ (failed \cup lost)
  <2>1. CASE i \in done
    <3>1. i \notin {j \in done : \E v \in Content[j] : snap.seen[v] # snap.val[v]}
      BY <1>2 DEF Vouched, Execute
    <3>2. \A v \in Content[i] : snap.seen[v] = snap.val[v]
      BY <2>1, <3>1
    <3>3. disk'[i] = Render(i, snap.val)
      BY <2>1 DEF Execute
    <3> QED BY <3>2, <3>3 DEF Render
  <2>2. CASE i \notin done
    <3>1. disk'[i] = disk[i] /\ i \notin mixed \cup lost
      BY <1>2, <2>2 DEF Execute, Vouched
    <3>2. Vouched(i, prev)
      BY <1>1, <1>2, <3>1 DEF Vouched, Holds
    <3>3. disk[i] = Render(i, prev.seen) \/ i \in carry \/ i \in pl.items
      BY <3>2 DEF RenderInv, RenderedBy, Execute
    <3>4. prev.seen = snap.seen /\ carry \subseteq pl.items
      BY DEF RenderInv, Execute
    <3> QED BY <1>1, <2>2, <3>1, <3>3, <3>4
  <2> QED BY <2>1, <2>2
<1>3. RenderedBy'
  BY <1>1, <1>2 DEF RenderedBy, Render
<1> QED BY <1>1, <1>3, ZenonT(60) DEF RenderInv

\* What the interrupted plan was to write is set apart, what the cycle before
\* carried is still carried.
LEMMA RenderMapfile ==
  ASSUME RenderInv, MapfilePanics
  PROVE  RenderInv'
<1>1. /\ prev' = prev /\ snap' = snap /\ firstRun' = firstRun /\ missed' = missed
      /\ carry' = carry /\ disk' = disk /\ pc = "execute" /\ pc' = "load"
      /\ mixed' = mixed \cup (pl.items \ carry)
  BY DEF MapfilePanics, baseVars, hostVars
<1>2. ASSUME NEW i \in Items, Vouched(i, prev)'
      PROVE  disk[i] = Render(i, prev.seen) \/ i \in carry
  <2>1. Vouched(i, prev) /\ i \notin pl.items \ carry
    BY <1>1, <1>2 DEF Vouched, Holds
  <2> QED BY <1>1, <2>1 DEF RenderInv, RenderedBy
<1>3. RenderedBy'
  BY <1>1, <1>2 DEF RenderedBy, Render
<1> QED BY <1>1, <1>3 DEF RenderInv

LEMMA RenderHost ==
  ASSUME RenderInv, pc = "restart", HostFollows, firstRun' \in {firstRun, FALSE}
  PROVE  RenderInv'
BY ZenonT(60) DEF RenderInv, RenderedBy, Vouched, Holds, Render, HostFollows

\* Every step keeps RenderInv.
LEMMA RenderStep ==
  ASSUME RenderInv, [Next]_vars
  PROVE  RenderInv'
<1>1. CASE LoadClean \/ LoadFailing
  BY <1>1, RenderLoad, ZenonT(60) DEF LoadClean, LoadFailing
<1>2. CASE Plan
  BY <1>2, RenderPlan
<1>3. CASE PlanFails \/ PlanPanics
  BY <1>3 DEF PlanFails, PlanPanics, RenderInv, RenderedBy, Vouched, Holds, Render, baseVars,
              hostVars, historyVars
<1>4. CASE ExecuteClean \/ ExecuteFailing
  BY <1>4, RenderExecute, ZenonT(60) DEF ExecuteClean, ExecuteFailing
<1>5. CASE ExecutePanicking
  BY <1>5, RenderExecute, ZenonT(60) DEF ExecutePanicking
<1>12. CASE MapfilePanics
  BY <1>12, RenderMapfile
<1>6. CASE RestartsDisabled \/ RestartsNow \/ RestartsDebounced \/ RestartsPanicking
  BY <1>6, RenderHost, ZenonT(60)
     DEF RestartsDisabled, RestartsNow, RestartsDebounced, RestartsPanicking, Finalize
<1>7. CASE TickPending
  BY <1>7, RenderOutside DEF TickPending, hostVars, baseVars, historyVars
<1>8. ASSUME NEW conf, Change(conf) PROVE RenderInv'
  BY <1>8, RenderOutside DEF Change, baseVars, historyVars
<1>9. ASSUME NEW s \in Sections, AddRequestedConfigs(s) PROVE RenderInv'
  BY <1>9, RenderOutside DEF AddRequestedConfigs, hostVars, baseVars, historyVars
<1>10. CASE Outside
  BY <1>8, <1>9, <1>10, ZenonT(60) DEF Outside, ChangeVar, ChangeServices
<1>11. CASE UNCHANGED vars
  BY <1>11, RenderOutside DEF vars, hostVars, baseVars, historyVars
<1> QED
  BY <1>1, <1>2, <1>3, <1>4, <1>5, <1>6, <1>7, <1>10, <1>11, <1>12 DEF Next, Cycle

\* No change is lost between the diff and the host: from the first run on an
\* item holds what the baseline says, or it is in the plan being executed or
\* in the carry (ConfigManager.Plan, Execute, mergeCarry), for every
\* configd.cf and whatever fails.
THEOREM ItemsFollowBaseline == Spec => []Rendered
<1>1. Init => RenderInv
  BY RenderInit
<1>2. RenderInv /\ [Next]_vars => RenderInv'
  BY RenderStep
<1>3. RenderInv => Rendered
  BY DEF RenderInv, RenderedBy, Rendered
<1> QED BY <1>1, <1>2, <1>3, PTL DEF Spec

-----------------------------------------------------------------------------
(* RestartNotLost.                                                         *)

\* Which lists keep an owed service depends on the phase: Execute replaces
\* the carried restarts by those of the plan, so a panic in the restart phase
\* still has them and one before it does not.
OwedInv ==
  /\ pc \in {"load", "plan", "execute", "restart"} /\ owed \subseteq Services
  /\ pc = "restart" => carried = pl.restarts
  /\ owed \subseteq dropped \cup Asked(deferred) \cup Asked(pending) \cup
       (IF pc \in {"load", "plan"} THEN Asked(carried) ELSE Asked(pl.restarts))

LEMMA OwedPlan ==
  ASSUME OwedInv, Plan
  PROVE  OwedInv'
<1> DEFINE new == {svc \in Services :
                    /\ ~firstRun /\ SectionAction(svc) # "none"
                    /\ \E s \in Sections : /\ SectionEnabled(s, snap)
                                           /\ Changed(s) /\ svc \in RestartOf[s]}
<1>1. /\ owed' = owed \cup new /\ pc' = "execute" /\ pending' = pending
      /\ dropped' = dropped \ (Asked(pl'.restarts) \cup Asked(deferred'))
  BY DEF Plan, policyVars
<1>2. Asked(Compute.restarts) =
        Asked(SectionRestarts(Restarting)) \cup Asked(serviceToggles) \cup Asked(carried)
  BY AskedClassify, AskedOver DEF Compute
<1>3. Asked(Held) = Asked(deferred) \cup Asked(SectionRestarts(Deferring))
  BY AskedClassify, AskedMerge DEF Held
<1>4. Asked(pl'.restarts) \cup Asked(deferred') = Asked(Compute.restarts) \cup Asked(Held)
  <2>1. CASE Release
    <3>1. pl'.restarts = MergeRestarts(Held, Compute.restarts) /\ deferred' = Nothing
      BY <2>1 DEF Plan, Compute
    <3>2. Asked(Nothing) = {}
      BY DEF Asked, Nothing
    <3> QED BY <3>1, <3>2, AskedMerge
  <2>2. CASE ~Release
    <3>1. pl' = Compute /\ deferred' = Held
      BY <2>2 DEF Plan
    <3> QED BY <3>1
  <2> QED BY <2>1, <2>2
<1>5. new \subseteq Asked(SectionRestarts(Restarting)) \cup Asked(SectionRestarts(Deferring))
  <2> SUFFICES ASSUME NEW svc \in new
               PROVE  svc \in Asked(SectionRestarts(Restarting)) \cup Asked(SectionRestarts(Deferring))
    OBVIOUS
  <2>1. PICK s \in Sections : SectionEnabled(s, snap) /\ Changed(s) /\ svc \in RestartOf[s]
    OBVIOUS
  <2>2. s \in Restarting \/ s \in Deferring
    BY <2>1 DEF Restarting, Deferring, Processed
  <2> QED BY <2>1, <2>2 DEF Asked, SectionRestarts
<1>6. owed \subseteq dropped \cup Asked(deferred) \cup Asked(pending) \cup Asked(carried)
  BY DEF OwedInv, Plan
<1>7. owed' \subseteq dropped' \cup Asked(deferred') \cup Asked(pending') \cup Asked(pl'.restarts)
  BY <1>1, <1>2, <1>3, <1>4, <1>5, <1>6
<1>8. owed' \subseteq Services
  BY <1>1 DEF OwedInv
<1>9. Asked(deferred)' = Asked(deferred') /\ Asked(pending)' = Asked(pending')
      /\ Asked(pl.restarts)' = Asked(pl'.restarts)
  BY DEF Asked
<1> QED BY <1>1, <1>7, <1>8, <1>9 DEF OwedInv

LEMMA OwedNow ==
  ASSUME OwedInv, RestartsNow
  PROVE  OwedInv'
<1>1. PICK fail1, fail2 \in SUBSET Services :
        /\ ApplyNow(pl.restarts, fail1, fail2)
        /\ owed' = owed \ DealtWith({pending, pl.restarts}, fail1 \cup fail2)
  BY ZenonT(60) DEF RestartsNow
<1> DEFINE list == pl.restarts
           count1 == NextCount(failures, pending, fail1)
<1>2. /\ pending' = Retry(failures, pending, fail1) /\ carried' = Retry(count1, list, fail2)
      /\ failures' = NextCount(count1, list, fail2)
      /\ acted'[1] = CarriedOut(pending, fail1) /\ acted'[2] = CarriedOut(list, fail2)
  BY <1>1 DEF ApplyNow
<1>3. pc = "restart" /\ pc' = "load" /\ deferred' = deferred /\ dropped' = dropped
  BY DEF RestartsNow, Finalize, HostFollows
<1>4. ASSUME NEW svc \in owed'
      PROVE  svc \in dropped \cup Asked(deferred) \cup Asked(pending') \cup Asked(carried')
  <2>1. /\ svc \in owed /\ svc \in Services
        /\ svc \notin Asked(CarriedOut(pending, fail1)) /\ svc \notin Asked(CarriedOut(list, fail2))
        /\ svc \notin Flagged(pending) /\ svc \notin Flagged(list)
        /\ svc \in fail1 \cup fail2 => failures'[svc] # 0
    BY <1>1, <1>2, <1>4 DEF DealtWith, OwedInv
  <2>2. CASE svc \in Asked(list)
    <3>1. svc \in fail2
      BY <2>1, <2>2, NotCarriedOut
    <3>2. svc \in Asked(Retry(count1, list, fail2)) \/ NextCount(count1, list, fail2)[svc] = 0
      BY <2>2, <3>1, FailedIsRetried
    <3> QED BY <1>2, <2>1, <3>1, <3>2
  <2>3. CASE svc \in Asked(pending) /\ svc \notin Asked(list)
    <3>1. svc \in fail1
      BY <2>1, <2>3, NotCarriedOut
    <3>2. svc \in Asked(Retry(failures, pending, fail1)) \/ count1[svc] = 0
      BY <2>3, <3>1, FailedIsRetried
    <3>3. svc \notin fail2 /\ svc \notin Attempted(list)
      BY <1>1, <2>3 DEF ApplyNow, MayFail, Attempted
    <3>4. failures'[svc] = count1[svc]
      BY <1>2, <2>1, <3>3 DEF NextCount
    <3> QED BY <1>2, <2>1, <3>1, <3>2, <3>4
  <2> QED BY <1>3, <2>1, <2>2, <2>3 DEF OwedInv
<1>5. owed' \subseteq Services
  BY <1>1 DEF OwedInv
<1>6. Asked(deferred)' = Asked(deferred') /\ Asked(pending)' = Asked(pending')
      /\ Asked(carried)' = Asked(carried')
  BY DEF Asked
<1> QED BY <1>3, <1>4, <1>5, <1>6 DEF OwedInv

\* What flush lets out and what it keeps are together all that was requested.
LEMMA OwedDebounced ==
  ASSUME OwedInv, RestartsDebounced
  PROVE  OwedInv'
<1>1. PICK d \in Debounces, fail \in SUBSET Services :
        /\ ApplyDebounced(pl.restarts, d, fail)
        /\ owed' = owed \ DealtWith({Due(pl.restarts, d)}, fail)
  BY DEF RestartsDebounced
<1> DEFINE all == Recorded(pl.restarts)
           out == Due(pl.restarts, d)
           kept == Only(all, Services \ Asked(out))
<1>2. /\ pending' = Over(Retry(failures, out, fail), kept)
      /\ failures' = NextCount(failures, out, fail) /\ acted'[1] = CarriedOut(out, fail)
  BY <1>1, ZenonT(60) DEF ApplyDebounced
<1>3. pc = "restart" /\ pc' = "load" /\ deferred' = deferred /\ dropped' = dropped
  BY DEF RestartsDebounced, Finalize, HostFollows
<1>4. Asked(all) = Asked(pl.restarts) \cup Asked(pending)
  BY AskedOver DEF Recorded
<1>5. Asked(pending') = Asked(Retry(failures, out, fail)) \cup (Asked(all) \ Asked(out))
  <2>1. Asked(kept) = Asked(all) \cap (Services \ Asked(out))
    BY AskedOnly
  <2>2. Asked(all) \subseteq Services
    BY DEF Asked
  <2> HIDE DEF kept, out, all
  <2> QED BY <1>2, <2>1, <2>2, AskedOver
<1>6. ASSUME NEW svc \in owed'
      PROVE  svc \in dropped \cup Asked(deferred) \cup Asked(pending')
  <2> HIDE DEF kept, all, out
  <2>1. /\ svc \in owed /\ svc \in Services
        /\ svc \notin Asked(CarriedOut(out, fail)) /\ svc \notin Flagged(out)
        /\ svc \in fail => failures'[svc] # 0
    BY <1>1, <1>2, <1>6 DEF DealtWith, OwedInv, out
  <2>2. CASE svc \in Asked(out)
    <3>1. svc \in fail
      BY <2>1, <2>2, NotCarriedOut
    <3>2. svc \in Asked(Retry(failures, out, fail)) \/ NextCount(failures, out, fail)[svc] = 0
      BY <2>2, <3>1, FailedIsRetried
    <3> QED BY <1>2, <1>5, <2>1, <3>1, <3>2
  <2>3. CASE svc \notin Asked(out)
    BY <1>3, <1>4, <1>5, <2>1, <2>3 DEF OwedInv
  <2> QED BY <2>2, <2>3
<1>7. owed' \subseteq Services
  BY <1>1 DEF OwedInv
<1>8. Asked(deferred)' = Asked(deferred') /\ Asked(pending)' = Asked(pending')
  BY DEF Asked
<1> QED BY <1>3, <1>6, <1>7, <1>8 DEF OwedInv

\* A panic in Apply leaves the carry of Execute, and every pending entry that
\* was not dispatched.
LEMMA OwedPanicking ==
  ASSUME OwedInv, RestartsPanicking
  PROVE  OwedInv'
<1>1. PICK d \in Debounces : \E out1, out2, fail1, fail2 \in SUBSET Services :
        /\ ApplyPanicking(pl.restarts, d, out1, out2, fail1, fail2)
        /\ owed' = owed \ DealtWith({Only(FlushList(pl.restarts, d), out1),
                                     Only(QueueList(pl.restarts, d), out2)}, fail1 \cup fail2)
  BY ZenonT(60) DEF RestartsPanicking, Asked
<1>2. PICK out1, out2, fail1, fail2 \in SUBSET Services :
        /\ ApplyPanicking(pl.restarts, d, out1, out2, fail1, fail2)
        /\ owed' = owed \ DealtWith({Only(FlushList(pl.restarts, d), out1),
                                     Only(QueueList(pl.restarts, d), out2)}, fail1 \cup fail2)
  BY <1>1, ZenonT(60)
<1> DEFINE flushed == Only(FlushList(pl.restarts, d), out1)
           queued  == Only(QueueList(pl.restarts, d), out2)
           held    == IF d > 0 THEN Recorded(pl.restarts) ELSE pending
           kept    == Only(held, Services \ Asked(flushed))
           count1  == NextCount(failures, flushed, fail1)
<1>3. /\ pending' = Over(Retry(failures, flushed, fail1), kept)
      /\ failures' = NextCount(count1, queued, fail2)
      /\ acted'[1] = CarriedOut(flushed, fail1) /\ acted'[2] = CarriedOut(queued, fail2)
      /\ carried' = carried /\ MayFail(queued, fail2)
  BY <1>2, ZenonT(60) DEF ApplyPanicking
<1>4. /\ pc = "restart" /\ pc' = "load" /\ deferred' = deferred /\ dropped' = dropped
      /\ carried = pl.restarts
  BY DEF RestartsPanicking, HostFollows, OwedInv
<1>5. Asked(pending) \subseteq Asked(held) /\ Asked(held) \subseteq Services
  BY AskedOver DEF Recorded, Asked
<1>6. Asked(queued) \subseteq Asked(pl.restarts)
  BY DEF Asked, Only, QueueList, Nothing
<1>7. Asked(pending') = Asked(Retry(failures, flushed, fail1)) \cup (Asked(held) \ Asked(flushed))
  <2>1. Asked(kept) = Asked(held) \cap (Services \ Asked(flushed))
    BY AskedOnly
  <2> HIDE DEF kept, flushed, held
  <2> QED BY <1>3, <1>5, <2>1, AskedOver
<1>8. ASSUME NEW svc \in owed', svc \notin Asked(pl.restarts), svc \in Asked(pending)
      PROVE  svc \in Asked(pending')
  <2> HIDE DEF kept, flushed, held, queued, count1
  <2>1. /\ svc \in Services
        /\ svc \notin Asked(CarriedOut(flushed, fail1)) /\ svc \notin Flagged(flushed)
        /\ svc \in fail1 => failures'[svc] # 0
    BY <1>2, <1>3, <1>8, ZenonT(60) DEF DealtWith, OwedInv, flushed, queued
  <2>2. CASE svc \in Asked(flushed)
    <3>1. svc \in fail1
      BY <2>1, <2>2, NotCarriedOut
    <3>2. svc \in Asked(Retry(failures, flushed, fail1)) \/ count1[svc] = 0
      BY <2>2, <3>1, FailedIsRetried DEF count1
    <3>3. svc \notin Asked(queued)
      BY <1>6, <1>8
    <3>4. svc \notin fail2 /\ svc \notin Attempted(queued)
      BY <1>3, <3>3 DEF MayFail, Attempted
    <3>5. failures'[svc] = count1[svc]
      BY <1>3, <2>1, <3>4 DEF NextCount
    <3> QED BY <1>7, <2>1, <3>1, <3>2, <3>5
  <2>3. CASE svc \notin Asked(flushed)
    BY <1>5, <1>7, <1>8, <2>3
  <2> QED BY <2>2, <2>3
<1>9. owed' \subseteq owed
  BY <1>2
<1>10. owed' \subseteq dropped \cup Asked(deferred) \cup Asked(pending') \cup Asked(carried')
  BY <1>3, <1>4, <1>8, <1>9 DEF OwedInv
<1>11. Asked(deferred)' = Asked(deferred') /\ Asked(pending)' = Asked(pending')
       /\ Asked(carried)' = Asked(carried')
  BY DEF Asked
<1>12. owed' \subseteq Services
  BY <1>9 DEF OwedInv
<1> QED BY <1>4, <1>10, <1>11, <1>12 DEF OwedInv

\* The steps that leave what is owed alone.
LEMMA OwedElse ==
  ASSUME OwedInv,
         \/ Next /\ ~Plan /\ ~RestartsNow /\ ~RestartsDebounced /\ ~RestartsPanicking
         \/ UNCHANGED vars
  PROVE  OwedInv'
<1>1. ASSUME NEW failed, NEW lost, NEW error \in BOOLEAN, Execute(failed, lost, error)
      PROVE  OwedInv'
  BY <1>1 DEF OwedInv, Execute, Asked, baseVars
<1>2. CASE ExecuteClean \/ ExecuteFailing \/ ExecutePanicking
  BY <1>1, <1>2, ZenonT(60) DEF ExecuteClean, ExecuteFailing, ExecutePanicking
<1>3. CASE LoadClean \/ LoadFailing
  BY <1>3, ZenonT(60) DEF LoadClean, LoadFailing, Load, OwedInv, Asked, baseVars, historyVars, policyVars
<1>4. CASE PlanFails \/ PlanPanics
  BY <1>4 DEF PlanFails, PlanPanics, OwedInv, Asked, historyVars, baseVars, policyVars
<1>9. CASE MapfilePanics
  BY <1>9 DEF MapfilePanics, OwedInv, Asked, baseVars, policyVars
<1>5. CASE RestartsDisabled
  BY <1>5 DEF RestartsDisabled, ApplyDisabled, Finalize, HostFollows, OwedInv, Asked
<1>6. CASE Outside
  BY <1>6 DEF Outside, ChangeVar, ChangeServices, Change, AddRequestedConfigs,
              OwedInv, Asked, baseVars, historyVars, policyVars
<1>7. CASE TickPending
  BY <1>7 DEF TickPending, Tick, OwedInv, Asked, baseVars, historyVars
<1>8. CASE UNCHANGED vars
  BY <1>8 DEF vars, OwedInv, Asked, baseVars, historyVars, policyVars
<1> QED BY <1>2, <1>3, <1>4, <1>5, <1>6, <1>7, <1>8, <1>9 DEF Next, Cycle

\* A restart that a consumed change calls for stays in one of the lists of the
\* daemon until it is dealt with, whatever fails, is held back by a REWRITE
\* cycle, debounced, or switched off, and whichever step, plan or Apply panics;
\* only a panic while the mapped files are written loses the restarts of its
\* plan (compileRestarts, holdDeferred, Execute, Policy.Apply).
THEOREM RestartsAreKept == Spec => []RestartNotLost
<1>1. Init => OwedInv
  BY DEF Init, OwedInv
<1>2. OwedInv /\ [Next]_vars => OwedInv'
  BY OwedPlan, OwedNow, OwedDebounced, OwedPanicking, OwedElse
<1>3. OwedInv => RestartNotLost
  BY DEF OwedInv, RestartNotLost
<1> QED BY <1>1, <1>2, <1>3, PTL DEF Spec

-----------------------------------------------------------------------------
(* HeavyNeverRestarted.                                                    *)

\* dispatch classifies every entry again, so none restarts a heavy service.
LEMMA HeavyIsFlagged ==
  ASSUME NEW list, NEW fail, NEW svc \in Heavy, Systemd
  PROVE  CarriedOut(list, fail)[svc] # "restart"
BY PolicyAssumption DEF CarriedOut, Attempted, Flagged, Classify, Asked

\* No heavy service is restarted on a systemd host, through whichever list
\* its entry came (plan.Classify, dispatch).
THEOREM HeavyServicesAreSpared == Spec => []HeavyNeverRestarted
<1>1. Init => HeavyNeverRestarted
  BY PolicyAssumption DEF Init, PolicyInit, Nothing, HeavyNeverRestarted
<1>2. HeavyNeverRestarted /\ [Next]_vars => HeavyNeverRestarted'
  <2> SUFFICES ASSUME HeavyNeverRestarted, [Next]_vars PROVE HeavyNeverRestarted'
    OBVIOUS
  <2>1. CASE acted' = acted
    BY <2>1 DEF HeavyNeverRestarted
  <2>2. CASE acted' = <<Nothing, Nothing>>
    BY <2>2, PolicyAssumption DEF Nothing, HeavyNeverRestarted
  <2>3. CASE RestartsNow
    <3>1. PICK fail1, fail2 \in SUBSET Services : ApplyNow(pl.restarts, fail1, fail2)
      BY <2>3 DEF RestartsNow
    <3>2. acted'[1] = CarriedOut(pending, fail1) /\ acted'[2] = CarriedOut(pl.restarts, fail2)
      BY <3>1 DEF ApplyNow
    <3> QED BY <3>2, HeavyIsFlagged DEF HeavyNeverRestarted
  <2>4. CASE RestartsDebounced
    <3>1. PICK d \in Debounces, fail \in SUBSET Services : ApplyDebounced(pl.restarts, d, fail)
      BY <2>4 DEF RestartsDebounced
    <3>2. acted'[1] = CarriedOut(Due(pl.restarts, d), fail) /\ acted'[2] = Nothing
      BY <3>1, ZenonT(60) DEF ApplyDebounced
    <3> QED BY <3>2, HeavyIsFlagged, PolicyAssumption DEF HeavyNeverRestarted, Nothing
  <2>6. CASE RestartsPanicking
    <3>1. PICK d \in Debounces : \E out1, out2, fail1, fail2 :
            ApplyPanicking(pl.restarts, d, out1, out2, fail1, fail2)
      BY <2>6 DEF RestartsPanicking
    <3>2. PICK out1, out2, fail1, fail2 :
            ApplyPanicking(pl.restarts, d, out1, out2, fail1, fail2)
      BY <3>1
    <3>3. /\ acted'[1] = CarriedOut(Only(FlushList(pl.restarts, d), out1), fail1)
          /\ acted'[2] = CarriedOut(Only(QueueList(pl.restarts, d), out2), fail2)
      BY <3>2, ZenonT(60) DEF ApplyPanicking
    <3> QED BY <3>3, HeavyIsFlagged, ZenonT(60) DEF HeavyNeverRestarted
  <2>5. \/ acted' = acted \/ acted' = <<Nothing, Nothing>>
        \/ RestartsNow \/ RestartsDebounced \/ RestartsPanicking
    BY ZenonT(60) DEF Next, RestartsDisabled, ApplyDisabled, Cycle, Outside, LoadClean, LoadFailing, Load,
           Plan, PlanFails, PlanPanics, Execute, ExecuteClean, ExecuteFailing, ExecutePanicking,
           MapfilePanics, TickPending, Tick, ChangeVar,
           ChangeServices, Change, AddRequestedConfigs, vars, policyVars
  <2> QED BY <2>1, <2>2, <2>3, <2>4, <2>5, <2>6
<1> QED BY <1>1, <1>2, PTL DEF Spec

-----------------------------------------------------------------------------
(* FirstRunRestartsNothing.                                                *)

Mild(list) == \A svc \in Services : list[svc] \in {"none", "stop"}

\* Until the first run ends, every list that can reach dispatch holds stops
\* only; a retried first run carries the list of the attempt before, and has
\* what the panic of that attempt left pending.
FirstInv ==
  firstRun => /\ Mild(pending) /\ Mild(carried) /\ Mild(pl.restarts)
              /\ Systemd => Mild(acted[1]) /\ Mild(acted[2])

LEMMA MildCarriedOut ==
  ASSUME Systemd, NEW list, NEW fail, Mild(list) PROVE Mild(CarriedOut(list, fail))
BY DEF Mild, CarriedOut

LEMMA MildNothing == Mild(Nothing)
BY DEF Mild, Nothing

LEMMA FirstPlan ==
  ASSUME FirstInv, Plan, firstRun PROVE FirstInv'
<1>1. /\ pl'.restarts = Compute.restarts /\ pending' = pending /\ carried' = carried
      /\ acted' = acted
  BY DEF Plan, Release, policyVars
<1>2. Mild(SectionRestarts(Restarting)) /\ Mild(serviceToggles) /\ Mild(carried)
  BY DEF Mild, SectionRestarts, Restarting, serviceToggles, FirstInv
<1>3. Mild(Over(Over(SectionRestarts(Restarting), serviceToggles), carried))
  BY <1>2 DEF Mild, Over
<1>4. Mild(Compute.restarts)
  BY <1>3 DEF Mild, Compute, Classify
<1> QED BY <1>1, <1>2, <1>4, ZenonT(60) DEF FirstInv, Mild

\* A first run whose restart phase panics.
LEMMA FirstPanicking ==
  ASSUME FirstInv, RestartsPanicking, firstRun
  PROVE  /\ Mild(pending') /\ carried' = carried
         /\ Systemd => Mild(acted'[1]) /\ Mild(acted'[2])
<1>1. PICK d \in Debounces : \E out1, out2, fail1, fail2 :
        ApplyPanicking(pl.restarts, d, out1, out2, fail1, fail2)
  BY DEF RestartsPanicking
<1>2. PICK out1, out2, fail1, fail2 :
        ApplyPanicking(pl.restarts, d, out1, out2, fail1, fail2)
  BY <1>1
<1> DEFINE flushed == Only(FlushList(pl.restarts, d), out1)
           queued  == Only(QueueList(pl.restarts, d), out2)
           held    == IF d > 0 THEN Recorded(pl.restarts) ELSE pending
<1>3. Mild(pending) /\ Mild(pl.restarts)
  BY DEF FirstInv
<1>4. Mild(FlushList(pl.restarts, d)) /\ Mild(QueueList(pl.restarts, d)) /\ Mild(held)
  BY <1>3 DEF Mild, FlushList, QueueList, Due, Only, Recorded, Over, Nothing
<1>5. Mild(flushed) /\ Mild(queued)
  BY <1>4 DEF Mild, Only
<1>6. Mild(Retry(failures, flushed, fail1)) /\ Mild(Only(held, Services \ Asked(flushed)))
  <2> HIDE DEF flushed, held
  <2> QED BY <1>4, <1>5 DEF Mild, Retry, Only
<1>7. /\ pending' = Over(Retry(failures, flushed, fail1), Only(held, Services \ Asked(flushed)))
      /\ acted'[1] = CarriedOut(flushed, fail1) /\ acted'[2] = CarriedOut(queued, fail2)
      /\ carried' = carried
  BY <1>2, ZenonT(60) DEF ApplyPanicking
<1> HIDE DEF flushed, queued, held
<1>8. Mild(pending')
  BY <1>6, <1>7, ZenonT(60) DEF Mild, Over
<1> QED BY <1>5, <1>7, <1>8, MildCarriedOut

LEMMA FirstStep ==
  ASSUME FirstInv, [Next]_vars PROVE FirstInv'
<1>1. CASE Plan
  <2>1. firstRun' = firstRun
    BY <1>1 DEF Plan
  <2> QED BY <1>1, <2>1, FirstPlan DEF FirstInv
<1>2. ASSUME NEW failed, NEW lost, NEW error, Execute(failed, lost, error)
      PROVE  FirstInv'
  <2>1. NoPlan.restarts = Nothing
    BY DEF NoPlan
  <2>2. /\ carried' = pl.restarts /\ pending' = pending /\ firstRun' = firstRun
        /\ pl'.restarts \in {pl.restarts, Nothing} /\ acted' = acted
    BY <1>2, <2>1 DEF Execute, baseVars
  <2> QED BY <2>2, MildNothing DEF FirstInv, Mild
<1>3. CASE ExecuteClean \/ ExecuteFailing \/ ExecutePanicking
  BY <1>2, <1>3, ZenonT(60) DEF ExecuteClean, ExecuteFailing, ExecutePanicking
<1>4. CASE RestartsDisabled \/ RestartsNow \/ RestartsDebounced
  BY <1>4 DEF RestartsDisabled, RestartsNow, RestartsDebounced, Finalize, FirstInv
<1>7. CASE RestartsPanicking
  <2>1. firstRun' = firstRun /\ pl' = NoPlan /\ NoPlan.restarts = Nothing
    BY <1>7, ZenonT(60) DEF RestartsPanicking, HostFollows, NoPlan
  <2>2. ASSUME firstRun PROVE Mild(pl'.restarts) /\ Mild(carried)
    BY <2>1, <2>2, MildNothing DEF FirstInv
  <2> QED BY <1>7, <2>1, <2>2, FirstPanicking DEF FirstInv, Mild
<1>8. CASE MapfilePanics
  <2>1. /\ firstRun' = firstRun /\ pl' = NoPlan /\ NoPlan.restarts = Nothing
        /\ pending' = pending /\ carried' = carried /\ acted' = acted
    BY <1>8 DEF MapfilePanics, NoPlan, baseVars, policyVars
  <2> QED BY <2>1, MildNothing DEF FirstInv, Mild
<1>5. CASE UNCHANGED <<firstRun, pending, carried, pl, acted>>
  BY <1>5 DEF FirstInv, Mild
<1>6. CASE LoadClean \/ LoadFailing
  <2>1. PICK failed : Load(failed)
    BY <1>6, ZenonT(60) DEF LoadClean, LoadFailing
  <2>2. /\ firstRun' = firstRun /\ pending' = pending /\ carried' = carried /\ pl' = pl
        /\ acted'[1] = Nothing /\ acted'[2] = Nothing
    BY <2>1 DEF Load, baseVars
  <2> QED BY <2>2, MildNothing DEF FirstInv, Mild
<1>9. CASE PlanFails \/ PlanPanics
  BY <1>5, <1>9 DEF PlanFails, PlanPanics, baseVars, policyVars
<1>10. CASE Outside
  BY <1>5, <1>10 DEF Outside, ChangeVar, ChangeServices, Change, AddRequestedConfigs,
     baseVars, policyVars
<1>11. CASE TickPending \/ UNCHANGED vars
  BY <1>5, <1>11 DEF TickPending, Tick, vars, baseVars, policyVars
<1> QED BY <1>1, <1>3, <1>4, <1>6, <1>7, <1>8, <1>9, <1>10, <1>11 DEF Next, Cycle

LEMMA FirstAction ==
  ASSUME FirstInv, Next, Systemd, firstRun, pc = "restart"
  PROVE  Mild(acted'[1]) /\ Mild(acted'[2])
<1>1. Mild(pending) /\ Mild(pl.restarts) /\ Mild(acted[1]) /\ Mild(acted[2])
  BY DEF FirstInv
<1>2. CASE RestartsDisabled
  BY <1>2, MildNothing DEF RestartsDisabled, ApplyDisabled
<1>3. CASE RestartsNow
  <2>1. PICK fail1, fail2 \in SUBSET Services : ApplyNow(pl.restarts, fail1, fail2)
    BY <1>3 DEF RestartsNow
  <2>2. acted'[1] = CarriedOut(pending, fail1) /\ acted'[2] = CarriedOut(pl.restarts, fail2)
    BY <2>1 DEF ApplyNow
  <2> QED BY <1>1, <2>2, MildCarriedOut
<1>4. CASE RestartsDebounced
  <2>1. PICK d \in Debounces, fail \in SUBSET Services : ApplyDebounced(pl.restarts, d, fail)
    BY <1>4 DEF RestartsDebounced
  <2>2. acted'[1] = CarriedOut(Due(pl.restarts, d), fail) /\ acted'[2] = Nothing
    BY <2>1, ZenonT(60) DEF ApplyDebounced
  <2>3. Mild(Due(pl.restarts, d))
    BY <1>1 DEF Mild, Due, Only, Recorded, Over
  <2> QED BY <2>2, <2>3, MildCarriedOut, MildNothing
<1>5. CASE RestartsPanicking
  BY <1>5, FirstPanicking
<1>6. CASE acted' = acted
  BY <1>1, <1>6
<1>7. RestartsDisabled \/ RestartsNow \/ RestartsDebounced \/ RestartsPanicking \/ acted' = acted
  BY ZenonT(60) DEF Next, Cycle, Outside, LoadClean, LoadFailing, Load, Plan, PlanFails, PlanPanics,
         Execute, ExecuteClean, ExecuteFailing, ExecutePanicking, MapfilePanics, TickPending,
         Tick, ChangeVar, ChangeServices, Change, AddRequestedConfigs, policyVars
<1> QED BY <1>2, <1>3, <1>4, <1>5, <1>6, <1>7

\* The first run restarts and starts nothing on a systemd host, however often
\* it is retried and wherever a panic cuts it short (compileRestarts,
\* serviceToggles, mergeCarry).
THEOREM FirstRunIsQuiet == Spec => FirstRunRestartsNothing
<1>1. Init => FirstInv
  BY MildNothing DEF Init, PolicyInit, NoPlan, FirstInv
<1>2. FirstInv /\ [Next]_vars => FirstInv'
  BY FirstStep
<1>3. FirstInv /\ [Next]_vars =>
        [Systemd /\ firstRun /\ pc = "restart" =>
           \A svc \in Services : {acted'[1][svc], acted'[2][svc]} \subseteq {"none", "stop"}]_vars
  BY FirstAction DEF Mild
<1> QED BY <1>1, <1>2, <1>3, PTL DEF Spec, FirstRunRestartsNothing
=============================================================================
