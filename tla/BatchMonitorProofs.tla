------------------------- MODULE BatchMonitorProofs -------------------------
(***************************************************************************)
(* Proofs about BatchMonitor, for any parents, monitors, profiles, shards  *)
(* and retry plans: what a monitor reports stays true, and, for one        *)
(* monitor, no release of the batch is lost between its looks.             *)
(***************************************************************************)
EXTENDS BatchMonitor, TLAPS

Statuses == Terminal \cup {"PLANNED", "RUNNING_OR_INCOMPLETE"}
Owning   == {"owner", "run", "retry"}
Probing  == {"probing", "checking"}
Asleep   == {"held", "select"}

MonitorTypeOK ==
  /\ planned \subseteq Attempts
  /\ shard \in [Attempts -> Statuses]
  /\ holder \in Parents \cup Monitors \cup {Nobody}
  /\ parent \in [Parents -> {"idle", "dead"} \cup Owning]
  /\ inFlight \subseteq Attempts
  /\ ownerFile \in Parents \cup {Nobody}
  /\ step \in [Monitors -> {"look", "scan", "identity", "probe", "report",
                            "check", "done"} \cup Probing \cup Asleep]
  /\ rest \in [Monitors -> SUBSET Attempts]
  /\ seen \in [Monitors -> [Attempts -> Statuses \cup {NotListed}]]
  /\ identity \in [Monitors -> Parents \cup {Nobody}]
  /\ alive \in [Monitors -> BOOLEAN]
  /\ woken \in [Monitors -> BOOLEAN]

\* The flock has one holder: the parent that owns the batch, or a monitor for
\* as long as its probe is open.
HolderInv ==
  /\ \A p \in Parents : parent[p] \in Owning <=> holder = p
  /\ \A m \in Monitors : step[m] \in Probing <=> holder = m

\* Attempts are in flight only in a run, and have no result yet.
FlightInv ==
  /\ inFlight # {} => \E p \in Parents : parent[p] = "run"
  /\ \A a \in inFlight : shard[a] = "RUNNING_OR_INCOMPLETE"

\* A result that was counted is the attempt's result ever after, an attempt
\* that was counted is planned, and while there is a listing every attempt of
\* the base plan is still to be counted or has been.
SeenInv ==
  \A m \in Monitors :
    /\ \A a \in Attempts : seen[m][a] \in Terminal => shard[a] = seen[m][a]
    /\ \A a \in Attempts : seen[m][a] # NotListed => a \in planned
    /\ rest[m] \subseteq planned
    /\ step[m] \notin {"look", "done"} =>
         \A k \in Keys : <<k, Base>> \in rest[m] \/ seen[m][<<k, Base>>] # NotListed
    /\ step[m] \notin {"look", "scan"} => rest[m] = {}

\* The base plan is always there.
BaseInv == \A k \in Keys : <<k, Base>> \in planned

MonitorInv == MonitorTypeOK /\ HolderInv /\ FlightInv /\ SeenInv /\ BaseInv

-----------------------------------------------------------------------------
(* The ledger                                                              *)

\* Base attempts are attempts.
LEMMA BaseAttempts == \A k \in Keys : <<k, Base>> \in Attempts
<1>1. Base \in Plans
  BY LedgerAssumption DEF Base, Plans
<1> QED BY <1>1 DEF Attempts

\* A step of the ledger, seen by its readers: plans are only added, results
\* are final.
Grows ==
  /\ planned \subseteq planned' /\ planned' \subseteq Attempts
  /\ shard' \in [Attempts -> Statuses]
  /\ \A a \in Attempts : shard[a] \in Terminal => shard'[a] = shard[a]

\* What a parent does to the ledger is a step of AttemptLedger.
LEMMA ParentSteps ==
  ASSUME [MonitorNext]_monVars
  PROVE  [LedgerNext]_ledger
<1>1. ASSUME NEW p \in Parents, RunStep(p)
      PROVE  LedgerNext
  BY <1>1 DEF RunStep, LedgerNext
<1>2. ASSUME NEW p \in Parents, RetryStep(p)
      PROVE  LedgerNext
  <2>1. PICK r \in Retries : SealRetries(r) \/ \E K \in SUBSET Keys \ {{}} : PlanRetries(r, K)
    BY <1>2 DEF RetryStep
  <2> QED BY <2>1 DEF LedgerNext
<1>3. ASSUME NEW p \in Parents,
             Take(p) \/ Refused(p) \/ BeginRun(p) \/ BeginRetry(p) \/ Release(p) \/ Die(p)
      PROVE  UNCHANGED ledger
  BY <1>3 DEF Take, Refused, BeginRun, BeginRetry, Release, Die
<1>4. ASSUME NEW m \in Monitors, Monitor(m) \/ Timer(m)
      PROVE  UNCHANGED ledger
  BY <1>4 DEF Monitor, Timer, StartLook, Classify, ReadOwner, CheckIdentity, FindHeld,
              FindFree, CloseProbe, Conclude, AddWatch, Sleep, WakeUp
<1>5. CASE UNCHANGED monVars
  BY <1>5 DEF monVars
<1> QED BY <1>1, <1>2, <1>3, <1>4, <1>5 DEF MonitorNext

\* And so the readers' view of the ledger grows.
LEMMA LedgerGrows ==
  ASSUME MonitorTypeOK, [LedgerNext]_ledger
  PROVE  Grows
<1>1. ASSUME NEW r \in Retries, NEW K \in SUBSET Keys, PlanRetries(r, K)
      PROVE  Grows
  BY <1>1 DEF PlanRetries, Grows, MonitorTypeOK
<1>2. ASSUME NEW r \in Retries, SealRetries(r)
      PROVE  Grows
  BY <1>2 DEF SealRetries, Grows, MonitorTypeOK
<1>3. ASSUME NEW a \in Attempts, StartAttempt(a)
      PROVE  Grows
  BY <1>3 DEF StartAttempt, Grows, MonitorTypeOK, Statuses, Terminal
<1>4. ASSUME NEW a \in Attempts, NEW s \in Terminal, EndAttempt(a, s)
      PROVE  Grows
  BY <1>4 DEF EndAttempt, Grows, MonitorTypeOK, Statuses, Terminal
<1>5. CASE UNCHANGED ledger
  BY <1>5 DEF ledger, Grows, MonitorTypeOK
<1> QED BY <1>1, <1>2, <1>3, <1>4, <1>5 DEF LedgerNext

-----------------------------------------------------------------------------
(* The invariant is inductive                                              *)

\* Every variable keeps its values' kind; the ledger's by LedgerGrows.
LEMMA MonitorTypeStep ==
  ASSUME MonitorTypeOK, [MonitorNext]_monVars
  PROVE  MonitorTypeOK'
<1> USE DEF MonitorTypeOK, Owning, Probing, Asleep
<1>1. Grows
  BY ParentSteps, LedgerGrows
<1>2. planned' \subseteq Attempts /\ shard' \in [Attempts -> Statuses]
  BY <1>1 DEF Grows
<1>3. ASSUME NEW p \in Parents, Take(p)
      PROVE  MonitorTypeOK'
  BY <1>2, <1>3 DEF Take, observed
<1>4. ASSUME NEW p \in Parents, Refused(p)
      PROVE  MonitorTypeOK'
  BY <1>2, <1>4 DEF Refused, Notify, Watching, untouched
<1>5. ASSUME NEW p \in Parents, BeginRun(p) \/ BeginRetry(p)
      PROVE  MonitorTypeOK'
  BY <1>2, <1>5 DEF BeginRun, BeginRetry, observed
<1>6. ASSUME NEW p \in Parents, RunStep(p)
      PROVE  MonitorTypeOK'
  BY <1>2, <1>6 DEF RunStep, observed
<1>7. ASSUME NEW p \in Parents, RetryStep(p)
      PROVE  MonitorTypeOK'
  BY <1>2, <1>7 DEF RetryStep, world, observed
<1>8. ASSUME NEW p \in Parents, Release(p)
      PROVE  MonitorTypeOK'
  BY <1>2, <1>8 DEF Release, Notify, Watching, untouched
<1>9. ASSUME NEW p \in Parents, Die(p)
      PROVE  MonitorTypeOK'
  BY <1>2, <1>9 DEF Die, Notify, Watching, untouched
<1>10. ASSUME NEW m \in Monitors, StartLook(m)
       PROVE  MonitorTypeOK'
  BY <1>2, <1>10 DEF StartLook, world, NotListed
<1>11. ASSUME NEW m \in Monitors, NEW a \in Attempts, Classify(m, a)
       PROVE  MonitorTypeOK'
  <2>1. shard[a] \in Statuses
    OBVIOUS
  <2> QED BY <1>2, <1>11, <2>1 DEF Classify, world
<1>12. ASSUME NEW m \in Monitors, ReadOwner(m) \/ CheckIdentity(m)
       PROVE  MonitorTypeOK'
  BY <1>2, <1>12 DEF ReadOwner, CheckIdentity, world
<1>13. ASSUME NEW m \in Monitors, FindHeld(m) \/ FindFree(m) \/ CloseProbe(m)
       PROVE  MonitorTypeOK'
  BY <1>2, <1>13 DEF FindHeld, FindFree, CloseProbe, world
<1>14. ASSUME NEW m \in Monitors, Conclude(m) \/ AddWatch(m)
       PROVE  MonitorTypeOK'
  BY <1>2, <1>14 DEF Conclude, AddWatch, world
<1>15. ASSUME NEW m \in Monitors, Sleep(m) \/ WakeUp(m) \/ Timer(m)
       PROVE  MonitorTypeOK'
  BY <1>2, <1>15 DEF Sleep, WakeUp, Timer, world
<1>16. CASE UNCHANGED monVars
  BY <1>16 DEF monVars, ledger, world, observed
<1> QED
  BY <1>3, <1>4, <1>5, <1>6, <1>7, <1>8, <1>9, <1>10, <1>11, <1>12, <1>13, <1>14,
     <1>15, <1>16 DEF MonitorNext, Monitor

\* A parent takes the free lock and gives it up when it ends; a monitor does
\* so with its probe.
LEMMA HolderStep ==
  ASSUME MonitorTypeOK, HolderInv, [MonitorNext]_monVars
  PROVE  HolderInv'
<1> USE MonitorAssumption DEF MonitorTypeOK, HolderInv, Owning, Probing, Asleep
<1>1. ASSUME NEW p \in Parents, Take(p)
      PROVE  HolderInv'
  BY <1>1 DEF Take, observed
<1>2. ASSUME NEW p \in Parents, Refused(p)
      PROVE  HolderInv'
  BY <1>2 DEF Refused, untouched
<1>3. ASSUME NEW p \in Parents, BeginRun(p) \/ BeginRetry(p)
      PROVE  HolderInv'
  BY <1>3 DEF BeginRun, BeginRetry, observed
<1>4. ASSUME NEW p \in Parents, RunStep(p) \/ RetryStep(p)
      PROVE  HolderInv'
  BY <1>4 DEF RunStep, RetryStep, world, observed
<1>5. ASSUME NEW p \in Parents, Release(p)
      PROVE  HolderInv'
  BY <1>5 DEF Release, untouched
<1>6. ASSUME NEW p \in Parents, Die(p)
      PROVE  HolderInv'
  BY <1>6 DEF Die, untouched
<1>7. ASSUME NEW m \in Monitors, StartLook(m) \/ ReadOwner(m) \/ CheckIdentity(m)
      PROVE  HolderInv'
  BY <1>7 DEF StartLook, ReadOwner, CheckIdentity, world
<1>8. ASSUME NEW m \in Monitors, NEW a \in Attempts, Classify(m, a)
      PROVE  HolderInv'
  BY <1>8 DEF Classify, world
<1>9. ASSUME NEW m \in Monitors, FindHeld(m)
      PROVE  HolderInv'
  BY <1>9 DEF FindHeld, world
<1>10. ASSUME NEW m \in Monitors, FindFree(m)
       PROVE  HolderInv'
  BY <1>10 DEF FindFree
<1>11. ASSUME NEW m \in Monitors, CloseProbe(m)
       PROVE  HolderInv'
  BY <1>11 DEF CloseProbe
<1>12. ASSUME NEW m \in Monitors, Conclude(m) \/ AddWatch(m)
       PROVE  HolderInv'
  BY <1>12 DEF Conclude, AddWatch, world
<1>13. ASSUME NEW m \in Monitors, Sleep(m) \/ WakeUp(m) \/ Timer(m)
       PROVE  HolderInv'
  BY <1>13 DEF Sleep, WakeUp, Timer, world
<1>14. CASE UNCHANGED monVars
  BY <1>14 DEF monVars, world, observed
<1> QED
  BY <1>1, <1>2, <1>3, <1>4, <1>5, <1>6, <1>7, <1>8, <1>9, <1>10, <1>11, <1>12, <1>13,
     <1>14 DEF MonitorNext, Monitor

\* Only a run starts and ends attempts, and when the run ends nothing is in
\* flight any more.
LEMMA FlightStep ==
  ASSUME MonitorTypeOK, HolderInv, FlightInv, [MonitorNext]_monVars
  PROVE  FlightInv'
<1> USE DEF MonitorTypeOK, FlightInv
<1>1. ASSUME NEW p \in Parents,
             Take(p) \/ Refused(p) \/ BeginRun(p) \/ BeginRetry(p)
      PROVE  FlightInv'
  <2>1. \A q \in Parents : parent[q] = "run" => parent'[q] = "run"
    BY <1>1 DEF Take, Refused, BeginRun, BeginRetry
  <2>2. UNCHANGED <<shard, inFlight>>
    BY <1>1 DEF Take, Refused, BeginRun, BeginRetry, ledger
  <2> QED BY <2>1, <2>2
<1>2. ASSUME NEW p \in Parents, RunStep(p)
      PROVE  FlightInv'
  <2>1. UNCHANGED parent /\ parent[p] = "run"
    BY <1>2 DEF RunStep
  <2>2. ASSUME NEW a \in Attempts, StartAttempt(a), inFlight' = inFlight \cup {a}
        PROVE  \A b \in inFlight' : shard'[b] = "RUNNING_OR_INCOMPLETE"
    BY <2>2 DEF StartAttempt
  <2>3. ASSUME NEW a \in Attempts, NEW s \in Terminal, EndAttempt(a, s),
               inFlight' = inFlight \ {a}
        PROVE  \A b \in inFlight' : shard'[b] = "RUNNING_OR_INCOMPLETE"
    BY <2>3 DEF EndAttempt
  <2> QED BY <1>2, <2>1, <2>2, <2>3 DEF RunStep
<1>3. ASSUME NEW p \in Parents, RetryStep(p)
      PROVE  FlightInv'
  BY <1>3 DEF RetryStep, SealRetries, PlanRetries, world
<1>4. ASSUME NEW p \in Parents, Release(p)
      PROVE  FlightInv'
  BY <1>4 DEF Release
<1>5. ASSUME NEW p \in Parents, Die(p)
      PROVE  FlightInv'
  <2>1. CASE holder = p
    BY <1>5, <2>1 DEF Die
  <2>2. CASE holder # p
    BY <1>5, <2>2 DEF Die, HolderInv, Owning, ledger
  <2> QED BY <2>1, <2>2
<1>6. ASSUME NEW m \in Monitors, Monitor(m) \/ Timer(m)
      PROVE  UNCHANGED <<parent, inFlight, shard>>
  BY <1>6 DEF Monitor, Timer, StartLook, Classify, ReadOwner, CheckIdentity, FindHeld,
              FindFree, CloseProbe, Conclude, AddWatch, Sleep, WakeUp, world, ledger
<1>7. CASE UNCHANGED monVars
  BY <1>7 DEF monVars, ledger, world
<1> QED BY <1>1, <1>2, <1>3, <1>4, <1>5, <1>6, <1>7 DEF MonitorNext

\* A listing starts with every planned attempt to be counted, and counts each
\* with the status it has at that moment.
LEMMA SeenStep ==
  ASSUME MonitorTypeOK, SeenInv, BaseInv, [MonitorNext]_monVars
  PROVE  SeenInv'
<1> USE DEF MonitorTypeOK, SeenInv
<1>1. Grows
  BY ParentSteps, LedgerGrows
<1>2. ASSUME UNCHANGED <<rest, seen, step>>
      PROVE  SeenInv'
  BY <1>1, <1>2 DEF Grows
<1>3. ASSUME NEW p \in Parents,
             \/ Take(p) \/ Refused(p) \/ BeginRun(p) \/ BeginRetry(p)
             \/ RunStep(p) \/ RetryStep(p) \/ Release(p) \/ Die(p)
      PROVE  SeenInv'
  BY <1>2, <1>3 DEF Take, Refused, BeginRun, BeginRetry, RunStep, RetryStep, Release,
                    Die, observed, untouched
<1>4. ASSUME NEW m \in Monitors, StartLook(m)
      PROVE  SeenInv'
  <2>1. /\ \A a \in Attempts : seen'[m][a] = NotListed
        /\ rest'[m] = IF PlansReadable THEN planned ELSE {}
        /\ step'[m] = IF PlansReadable THEN "scan" ELSE "done"
        /\ UNCHANGED <<planned, shard>>
    BY <1>4 DEF StartLook, ledger
  <2>2. \A n \in Monitors \ {m} :
          seen'[n] = seen[n] /\ rest'[n] = rest[n] /\ step'[n] = step[n]
    BY <1>4 DEF StartLook
  <2>3. /\ \A a \in Attempts : seen'[m][a] \in Terminal => shard'[a] = seen'[m][a]
        /\ \A a \in Attempts : seen'[m][a] # NotListed => a \in planned'
    BY <2>1 DEF NotListed, Terminal
  <2>4. /\ rest'[m] \subseteq planned'
        /\ step'[m] \notin {"look", "done"} =>
             \A k \in Keys : <<k, Base>> \in rest'[m] \/ seen'[m][<<k, Base>>] # NotListed
        /\ step'[m] \notin {"look", "scan"} => rest'[m] = {}
    BY <2>1 DEF BaseInv
  <2>5. UNCHANGED <<planned, shard>>
    BY <2>1
  <2> QED BY <2>2, <2>3, <2>4, <2>5
<1>5. ASSUME NEW m \in Monitors, NEW a \in Attempts, Classify(m, a)
      PROVE  SeenInv'
  <2>1. /\ step[m] = "scan" /\ UNCHANGED <<planned, shard, step>>
        /\ a \in rest[m]
        /\ seen'[m] = [seen[m] EXCEPT ![a] = shard[a]]
        /\ rest'[m] = rest[m] \ {a}
    BY <1>5 DEF Classify, FirstOf, ledger
  <2>2. \A n \in Monitors \ {m} : seen'[n] = seen[n] /\ rest'[n] = rest[n]
    BY <1>5 DEF Classify
  <2>3. shard[a] # NotListed
    BY DEF NotListed, Statuses, Terminal
  <2>4. /\ \A b \in Attempts : seen'[m][b] \in Terminal => shard'[b] = seen'[m][b]
        /\ \A b \in Attempts : seen'[m][b] # NotListed => b \in planned'
    BY <2>1
  <2>5. /\ rest'[m] \subseteq planned'
        /\ \A k \in Keys : <<k, Base>> \in rest'[m] \/ seen'[m][<<k, Base>>] # NotListed
    BY <2>1, <2>3, BaseAttempts
  <2>6. step[m] = "scan" /\ UNCHANGED <<planned, shard, step>>
    BY <2>1
  <2> QED BY <2>2, <2>4, <2>5, <2>6
<1>6. ASSUME NEW m \in Monitors, ReadOwner(m)
      PROVE  SeenInv'
  BY <1>6 DEF ReadOwner, ledger
<1>7. ASSUME NEW m \in Monitors,
             \/ CheckIdentity(m) \/ FindHeld(m) \/ FindFree(m) \/ CloseProbe(m)
             \/ Conclude(m) \/ AddWatch(m) \/ Sleep(m) \/ WakeUp(m) \/ Timer(m)
      PROVE  SeenInv'
  <2>1. /\ step[m] \notin {"look", "scan", "done"}
        /\ step'[m] # "scan"
        /\ \A n \in Monitors \ {m} : step'[n] = step[n]
        /\ UNCHANGED <<planned, shard, rest, seen>>
    BY <1>7 DEF CheckIdentity, FindHeld, FindFree, CloseProbe, Conclude, AddWatch, Sleep,
                WakeUp, Timer, ledger
  <2> QED BY <2>1
<1>8. CASE UNCHANGED monVars
  BY <1>2, <1>8 DEF monVars, observed
<1> QED
  BY <1>3, <1>4, <1>5, <1>6, <1>7, <1>8 DEF MonitorNext, Monitor

\* At the start nothing runs, nothing is counted and the base plan is there.
LEMMA MonitorStart == MonitorInit => MonitorInv
<1> SUFFICES ASSUME MonitorInit PROVE MonitorInv
  OBVIOUS
<1> USE DEF MonitorInit
<1>1. MonitorTypeOK
  BY DEF LedgerInit, MonitorTypeOK, Statuses
<1>2. HolderInv
  BY MonitorAssumption DEF HolderInv, Owning, Probing
<1>3. FlightInv
  BY DEF FlightInv
<1>4. SeenInv
  BY DEF SeenInv, NotListed, Terminal
<1>5. BaseInv
  BY BaseAttempts DEF LedgerInit, BaseInv
<1> QED BY <1>1, <1>2, <1>3, <1>4, <1>5 DEF MonitorInv

-----------------------------------------------------------------------------
(* What the monitor reports                                                *)

\* The flock has one holder, attempts are in flight only in a run, and what a
\* monitor has counted fits the plan root, whatever parents and monitors do.
THEOREM MonitorInvariance == MonitorSpec => []MonitorInv
<1>1. ASSUME MonitorInv, [MonitorNext]_monVars
      PROVE  MonitorInv'
  <2>1. MonitorTypeOK' /\ HolderInv' /\ FlightInv' /\ SeenInv'
    BY <1>1, MonitorTypeStep, HolderStep, FlightStep, SeenStep DEF MonitorInv
  <2>2. BaseInv'
    BY <1>1, ParentSteps, LedgerGrows DEF MonitorInv, BaseInv, Grows
  <2> QED BY <2>1, <2>2 DEF MonitorInv
<1> QED BY <1>1, MonitorStart, PTL DEF MonitorSpec

\* A monitor that prints "terminal" has counted results only, and they are
\* the results of those attempts from then on (aggregate_status, line 82).
THEOREM TerminalFinal == MonitorSpec => []TerminalIsFinal
<1>1. ASSUME MonitorInv
      PROVE  TerminalIsFinal
  <2> SUFFICES ASSUME NEW m \in Monitors, IsTerminal(m), NEW a \in Attempts,
                      seen[m][a] # NotListed
               PROVE  seen[m][a] \in Terminal /\ shard[a] = seen[m][a]
    BY DEF TerminalIsFinal
  <2>1. seen[m][a] \in Terminal
    BY <1>1 DEF MonitorInv, MonitorTypeOK, Statuses, IsTerminal, Counted
  <2> QED BY <1>1, <2>1 DEF MonitorInv, SeenInv
<1> QED BY <1>1, MonitorInvariance, PTL

\* "terminal" is said of a batch in which every attempt of the base plan has
\* its result: nothing was left out of the listing.
TerminalLeavesNothing ==
  \A m \in Monitors :
    step[m] = "report" /\ IsTerminal(m) =>
      \A k \in Keys : shard[<<k, Base>>] \in Terminal

\* The listing of _all_attempt_specs holds the base plan, and each attempt of
\* it was counted before the owner was looked at.
THEOREM TerminalComplete == MonitorSpec => []TerminalLeavesNothing
<1>1. ASSUME MonitorInv
      PROVE  TerminalLeavesNothing
  <2> SUFFICES ASSUME NEW m \in Monitors, step[m] = "report", IsTerminal(m), NEW k \in Keys
               PROVE  shard[<<k, Base>>] \in Terminal
    BY DEF TerminalLeavesNothing
  <2>1. <<k, Base>> \in Attempts
    BY BaseAttempts
  <2>2. seen[m][<<k, Base>>] # NotListed
    BY <1>1 DEF MonitorInv, SeenInv
  <2>3. seen[m][<<k, Base>>] \in Terminal
    BY <1>1, <2>1, <2>2 DEF MonitorInv, MonitorTypeOK, Statuses, IsTerminal, Counted
  <2> QED BY <1>1, <2>1, <2>3 DEF MonitorInv, SeenInv
<1> QED BY <1>1, MonitorInvariance, PTL

\* An alarm that counts a failed attempt has its reason in the batch: there
\* is a planned attempt that failed and no run is executing it.  (Only an
\* alarm that rests on an incomplete attempt can be out of date.)
FailureIsReal ==
  \A m \in Monitors :
    Counted(m, "FAILED") => \E a \in planned \ inFlight : shard[a] = "FAILED"

\* human_action_required for a failure is never a false alarm.
THEOREM FailureAlarmReal == MonitorSpec => []FailureIsReal
<1>1. ASSUME MonitorInv
      PROVE  FailureIsReal
  <2> SUFFICES ASSUME NEW m \in Monitors, NEW a \in Attempts, seen[m][a] = "FAILED"
               PROVE  a \in planned \ inFlight /\ shard[a] = "FAILED"
    BY DEF FailureIsReal, Counted
  <2>1. shard[a] = "FAILED" /\ a \in planned
    BY <1>1 DEF MonitorInv, SeenInv, Terminal, NotListed
  <2> QED BY <1>1, <2>1 DEF MonitorInv, FlightInv
<1> QED BY <1>1, MonitorInvariance, PTL

\* The parents of the monitor's model do to the attempts only what the
\* abstract ledger allows: BatchExecution implements the same ledger, so the
\* monitor watches what the runner does.
THEOREM MonitorsWatchTheLedger == MonitorSpec => LedgerSpec
<1>1. MonitorInit => LedgerInit
  BY DEF MonitorInit
<1>2. [MonitorNext]_monVars => [LedgerNext]_ledger
  BY ParentSteps
<1> QED BY <1>1, <1>2, PTL DEF MonitorSpec, LedgerSpec

-----------------------------------------------------------------------------
(* Release and watch                                                       *)

\* A monitor that sleeps, or is about to, has a parent to wait for or an
\* event to wake it: the watch is added before the lock is looked at, so the
\* release between the two is not lost (wait_for_check, line 100).
NoLostWakeup ==
  \A m \in Monitors : step[m] \in Asleep => holder \in Parents \/ woken[m]

\* The safety half of WakesOnRelease.  A second monitor's probe can be taken
\* for a parent, and its end wakes nobody: hence one monitor.
THEOREM ReleaseWakes ==
  ASSUME \A m, n \in Monitors : m = n
  PROVE  MonitorSpec => []NoLostWakeup
<1>1. MonitorInit => NoLostWakeup
  BY DEF MonitorInit, NoLostWakeup, Asleep
<1>2. ASSUME MonitorInv, NoLostWakeup, [MonitorNext]_monVars
      PROVE  NoLostWakeup'
  <2> USE <1>2 DEF MonitorInv, MonitorTypeOK, NoLostWakeup, Asleep
  <2>1. ASSUME NEW p \in Parents, Take(p)
        PROVE  NoLostWakeup'
    BY <2>1 DEF Take, observed
  <2>2. ASSUME NEW p \in Parents, Refused(p) \/ BeginRun(p) \/ BeginRetry(p)
        PROVE  NoLostWakeup'
    BY <2>2 DEF Refused, BeginRun, BeginRetry, Notify, observed, untouched
  <2>3. ASSUME NEW p \in Parents, RunStep(p) \/ RetryStep(p)
        PROVE  NoLostWakeup'
    BY <2>3 DEF RunStep, RetryStep, world, observed
  <2>4. ASSUME NEW p \in Parents, Release(p)
        PROVE  NoLostWakeup'
    BY <2>4 DEF Release, Notify, Watching, untouched
  <2>5. ASSUME NEW p \in Parents, Die(p)
        PROVE  NoLostWakeup'
    BY <2>5 DEF Die, Notify, Watching, untouched
  <2>6. ASSUME NEW m \in Monitors, FindHeld(m)
        PROVE  NoLostWakeup'
    <3>1. holder \in Parents
      BY <2>6 DEF FindHeld, HolderInv, Probing
    <3> QED BY <2>6, <3>1 DEF FindHeld, world
  <2>7. ASSUME NEW m \in Monitors, FindFree(m) \/ CloseProbe(m)
        PROVE  NoLostWakeup'
    BY <2>7 DEF FindFree, CloseProbe
  <2>8. ASSUME NEW m \in Monitors,
               \/ StartLook(m) \/ (\E a \in Attempts : Classify(m, a)) \/ ReadOwner(m)
               \/ CheckIdentity(m) \/ Conclude(m) \/ AddWatch(m) \/ Sleep(m)
               \/ WakeUp(m) \/ Timer(m)
        PROVE  NoLostWakeup'
    BY <2>8 DEF StartLook, Classify, ReadOwner, CheckIdentity, Conclude, AddWatch, Sleep,
                WakeUp, Timer, world
  <2>9. CASE UNCHANGED monVars
    BY <2>9 DEF monVars, world, observed
  <2> QED
    BY <2>1, <2>2, <2>3, <2>4, <2>5, <2>6, <2>7, <2>8, <2>9 DEF MonitorNext, Monitor
<1> QED BY <1>1, <1>2, MonitorInvariance, PTL DEF MonitorSpec
=============================================================================
