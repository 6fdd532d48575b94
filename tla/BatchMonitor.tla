---------------------------- MODULE BatchMonitor ----------------------------
(***************************************************************************)
(* batch monitor (agent_harness/monitoring.py) beside the parents that own *)
(* the batch.  A monitor reads the attempts one by one, then the owner     *)
(* file, then the owner's process, then the lock, and decides whether to   *)
(* go on watching.  While it watches it sleeps until a writable descriptor *)
(* of .execution.lock is closed (inotify) or its interval has passed.      *)
(*                                                                         *)
(* execution_is_locked (process_guard.py) finds out whether the lock is    *)
(* held by taking it: for a moment the monitor is the holder.  What the    *)
(* parents do to the attempts is AttemptLedger's; attempts move only while *)
(* a parent owns the lock.                                                 *)
(***************************************************************************)
EXTENDS AttemptLedger

CONSTANTS Parents, Monitors, Nobody

ASSUME MonitorAssumption ==
  /\ Parents \cap Monitors = {}
  /\ Nobody \notin Parents \cup Monitors

VARIABLES
  holder,     \* who holds the flock: a parent, a probing monitor, nobody
  parent,     \* each parent: idle, owner (lock only), run, retry, dead
  inFlight,   \* the attempts the present run is executing
  ownerFile,  \* the parent .execution.owner.json names
  blamed,     \* who held the lock when a parent was refused last
  step,       \* where each monitor is
  rest,       \* attempts of the listing still to be classified
  seen,       \* the status counted for each listed attempt, or NotListed
  identity,   \* the owner a monitor read
  alive,      \* parent_alive of a monitor's report
  woken       \* an event is pending on a monitor's watch

world    == <<holder, parent, inFlight, ownerFile, blamed>>
observed == <<step, rest, seen, identity, alive, woken>>
monVars  == <<ledger, world, observed>>

NotListed == "none"

MonitorInit ==
  /\ LedgerInit
  /\ holder = Nobody
  /\ parent = [p \in Parents |-> "idle"]
  /\ inFlight = {}
  /\ ownerFile = Nobody
  /\ blamed = Nobody
  /\ step = [m \in Monitors |-> "look"]
  /\ rest = [m \in Monitors |-> {}]
  /\ seen = [m \in Monitors |-> [a \in Attempts |-> NotListed]]
  /\ identity = [m \in Monitors |-> Nobody]
  /\ alive = [m \in Monitors |-> FALSE]
  /\ woken = [m \in Monitors |-> FALSE]

Live(p) == p # Nobody /\ parent[p] # "dead"

-----------------------------------------------------------------------------
(* The parents                                                             *)

\* Faulty form: the watch is added after the lock was looked at.
WatchingLate(m) == step[m] = "select"

\* The watch exists from inotify_add_watch until wait_for_check returns.
Watching(m) == step[m] \in {"check", "checking", "held", "select"}

\* IN_CLOSE_WRITE on .execution.lock reaches every watch.
Notify == woken' = [m \in Monitors |-> woken[m] \/ Watching(m)]

untouched == <<step, rest, seen, identity, alive>>

Take(p) ==
  /\ parent[p] = "idle"
  /\ holder = Nobody
  /\ holder' = p
  /\ parent' = [parent EXCEPT ![p] = "owner"]
  /\ UNCHANGED <<ledger, inFlight, ownerFile, blamed, observed>>

\* BATCH_EXECUTION_ACTIVE; the loser closes its own writable descriptor.
Refused(p) ==
  /\ parent[p] = "idle"
  /\ holder # Nobody
  /\ blamed' = holder
  /\ Notify
  /\ UNCHANGED <<ledger, holder, parent, inFlight, ownerFile, untouched>>

\* run_batch passes its run_id and names itself in the owner file.
BeginRun(p) ==
  /\ parent[p] = "owner"
  /\ parent' = [parent EXCEPT ![p] = "run"]
  /\ ownerFile' = p
  /\ UNCHANGED <<ledger, holder, inFlight, blamed, observed>>

\* create_retry_plan has no run_id: the owner file stays as it was.
BeginRetry(p) ==
  /\ parent[p] = "owner"
  /\ parent' = [parent EXCEPT ![p] = "retry"]
  /\ UNCHANGED <<ledger, holder, inFlight, ownerFile, blamed, observed>>

RunStep(p) ==
  /\ parent[p] = "run"
  /\ \E a \in Attempts :
       \/ StartAttempt(a) /\ inFlight' = inFlight \cup {a}
       \/ /\ a \in inFlight
          /\ \E s \in Terminal : EndAttempt(a, s)
          /\ inFlight' = inFlight \ {a}
  /\ UNCHANGED <<holder, parent, ownerFile, blamed, observed>>

RetryStep(p) ==
  /\ parent[p] = "retry"
  /\ \E r \in Retries :
       SealRetries(r) \/ \E K \in SUBSET Keys \ {{}} : PlanRetries(r, K)
  /\ UNCHANGED <<world, observed>>

\* The command ends, in whatever way; its process may live on and run again.
Release(p) ==
  /\ holder = p
  /\ holder' = Nobody
  /\ parent' = [parent EXCEPT ![p] = "idle"]
  /\ inFlight' = {}
  /\ Notify
  /\ UNCHANGED <<ledger, ownerFile, blamed, untouched>>

\* The process exits or is killed; the kernel closes its descriptor.
Die(p) ==
  /\ parent[p] # "dead"
  /\ parent' = [parent EXCEPT ![p] = "dead"]
  /\ IF holder = p
     THEN holder' = Nobody /\ inFlight' = {} /\ Notify
     ELSE UNCHANGED <<holder, inFlight, woken>>
  /\ UNCHANGED <<ledger, ownerFile, blamed, untouched>>

-----------------------------------------------------------------------------
(* aggregate_status                                                        *)

\* load_batch_plan and _all_attempt_specs; a partial retry plan raises.
StartLook(m) ==
  /\ step[m] = "look"
  /\ step' = [step EXCEPT ![m] = IF PlansReadable THEN "scan" ELSE "done"]
  /\ rest' = [rest EXCEPT ![m] = IF PlansReadable THEN planned ELSE {}]
  /\ seen' = [seen EXCEPT ![m] = [a \in Attempts |-> NotListed]]
  /\ alive' = [alive EXCEPT ![m] = FALSE]
  /\ UNCHANGED <<ledger, world, identity, woken>>

Classify(m, a) ==
  /\ step[m] = "scan"
  /\ FirstOf(rest[m], a)
  /\ rest' = [rest EXCEPT ![m] = @ \ {a}]
  /\ seen' = [seen EXCEPT ![m][a] = shard[a]]
  /\ UNCHANGED <<ledger, world, step, identity, alive, woken>>

ReadOwner(m) ==
  /\ step[m] = "scan"
  /\ rest[m] = {}
  /\ identity' = [identity EXCEPT ![m] = ownerFile]
  /\ step' = [step EXCEPT ![m] = "identity"]
  /\ UNCHANGED <<ledger, world, rest, seen, alive, woken>>

\* process_identity(owner) == owner; otherwise the lock is not looked at.
CheckIdentity(m) ==
  /\ step[m] = "identity"
  /\ step' = [step EXCEPT ![m] = IF Live(identity[m]) THEN "probe" ELSE "report"]
  /\ UNCHANGED <<ledger, world, rest, seen, identity, alive, woken>>

\* execution_is_locked: the flock fails because somebody holds it ...
FindHeld(m) ==
  /\ step[m] \in {"probe", "check"}
  /\ holder # Nobody
  /\ alive' = [alive EXCEPT ![m] = TRUE]
  /\ step' = [step EXCEPT ![m] = IF @ = "probe" THEN "report" ELSE "held"]
  /\ UNCHANGED <<ledger, world, rest, seen, identity, woken>>

\* ... or succeeds, and the monitor holds the lock until it closes the file.
FindFree(m) ==
  /\ step[m] \in {"probe", "check"}
  /\ holder = Nobody
  /\ holder' = m
  /\ step' = [step EXCEPT ![m] = IF @ = "probe" THEN "probing" ELSE "checking"]
  /\ UNCHANGED <<ledger, parent, inFlight, ownerFile, blamed, rest, seen,
                 identity, alive, woken>>

\* The descriptor is read-only: closing it wakes no watch.
CloseProbe(m) ==
  /\ step[m] \in {"probing", "checking"}
  /\ holder' = Nobody
  /\ step' = [step EXCEPT ![m] = IF @ = "probing" THEN "report" ELSE "look"]
  /\ UNCHANGED <<ledger, parent, inFlight, ownerFile, blamed, rest, seen,
                 identity, alive, woken>>

-----------------------------------------------------------------------------
(* monitor_batch and wait_for_check                                        *)

Counted(m, s) == \E a \in Attempts : seen[m][a] = s

\* Faulty form: a batch without planned attempts is taken to be over.
TerminalIfStarted(m) == ~alive[m] /\ ~Counted(m, "PLANNED")

IsTerminal(m) ==
  /\ ~alive[m]
  /\ ~Counted(m, "PLANNED")
  /\ ~Counted(m, "RUNNING_OR_INCOMPLETE")

NeedsHuman(m) ==
  \/ Counted(m, "FAILED")
  \/ Counted(m, "RUNNING_OR_INCOMPLETE") /\ ~alive[m]

\* The report is printed; a watch goes on only while the parent is alive and
\* nothing has failed.
Conclude(m) ==
  /\ step[m] = "report"
  /\ IsTerminal(m) \/ NeedsHuman(m) \/ ~alive[m]
  /\ step' = [step EXCEPT ![m] = "done"]
  /\ UNCHANGED <<ledger, world, rest, seen, identity, alive, woken>>

\* wait_for_check returns at once if the owner is gone; otherwise it adds the
\* inotify watch before it looks at the lock again.
AddWatch(m) ==
  /\ step[m] = "report"
  /\ ~(IsTerminal(m) \/ NeedsHuman(m) \/ ~alive[m])
  /\ step' = [step EXCEPT ![m] = IF Live(identity[m]) THEN "check" ELSE "look"]
  /\ woken' = [woken EXCEPT ![m] = FALSE]
  /\ UNCHANGED <<ledger, world, rest, seen, identity, alive>>

Sleep(m) ==
  /\ step[m] = "held"
  /\ step' = [step EXCEPT ![m] = "select"]
  /\ UNCHANGED <<ledger, world, rest, seen, identity, alive, woken>>

WakeUp(m) ==
  /\ step[m] = "select"
  /\ woken[m]
  /\ step' = [step EXCEPT ![m] = "look"]
  /\ UNCHANGED <<ledger, world, rest, seen, identity, alive, woken>>

\* The interval of check_interval: from three minutes up to an hour.
Timer(m) ==
  /\ step[m] = "select"
  /\ step' = [step EXCEPT ![m] = "look"]
  /\ UNCHANGED <<ledger, world, rest, seen, identity, alive, woken>>

Monitor(m) ==
  \/ StartLook(m)
  \/ \E a \in Attempts : Classify(m, a)
  \/ ReadOwner(m)
  \/ CheckIdentity(m)
  \/ FindHeld(m)
  \/ FindFree(m)
  \/ CloseProbe(m)
  \/ Conclude(m)
  \/ AddWatch(m)
  \/ Sleep(m)
  \/ WakeUp(m)

MonitorNext ==
  \/ \E p \in Parents :
       \/ Take(p)
       \/ Refused(p)
       \/ BeginRun(p)
       \/ BeginRetry(p)
       \/ RunStep(p)
       \/ RetryStep(p)
       \/ Release(p)
       \/ Die(p)
  \/ \E m \in Monitors : Monitor(m) \/ Timer(m)

MonitorSpec == MonitorInit /\ [][MonitorNext]_monVars

\* A running monitor executes; its timer, up to an hour away, is not counted
\* on, and nobody owes a parent's step.
MonitorFairSpec == MonitorSpec /\ \A m \in Monitors : WF_monVars(Monitor(m))

-----------------------------------------------------------------------------
(* What the monitor promises                                               *)

\* A monitor that reports "terminal" has counted results only, and the count
\* stays true: every listed attempt has the status it was counted with.
TerminalIsFinal ==
  \A m \in Monitors :
    step[m] = "done" /\ IsTerminal(m) =>
      \A a \in Attempts :
        seen[m][a] # NotListed => seen[m][a] \in Terminal /\ shard[a] = seen[m][a]

\* "Linux inotify wakes when the owning runner releases its writable lock,
\* including a still-alive library host": a monitor does not sleep on after
\* the batch was given up, whatever happens between its report, its watch
\* and its second look at the lock.  Holds for one monitor.
WakesOnRelease ==
  \A m \in Monitors :
    step[m] = "select" /\ holder = Nobody ~> step[m] # "select"

\* "No cache is authoritative; plans and immutable results define state": a
\* monitor that asks for a human has a reason in the batch, a failed attempt
\* or an incomplete one that no run is executing.
AlarmHasReason ==
  \A m \in Monitors :
    step[m] = "done" /\ NeedsHuman(m) =>
      \E a \in planned \ inFlight :
        shard[a] \in {"FAILED", "RUNNING_OR_INCOMPLETE"}

\* "BATCH_EXECUTION_ACTIVE: another parent owns this batch": a command is
\* refused only because of a parent.
RefusalNamesAParent == blamed \in Parents \cup {Nobody}
=============================================================================
