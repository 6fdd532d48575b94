--------------------------- MODULE BatchExecution ---------------------------
(***************************************************************************)
(* The batch runner: run_batch and create_retry_plan (agent_harness/       *)
(* batch.py) under the advisory execution lock (process_guard.py), and the *)
(* invocation of one agent child per attempt (adapter.py invoke).          *)
(*                                                                         *)
(* A parent is an operating-system process running one of the two          *)
(* commands; it may crash between any two steps.  The kernel then drops    *)
(* its lock, but a child it started (start_new_session=True) lives on.     *)
(* Everything else that survives a crash is on disk: retry-plan            *)
(* directories, attempt directories (immutable shards) and the ownership   *)
(* markers under .processes/.                                              *)
(*                                                                         *)
(* An attempt is identified by its profile/shard pair (a key) and the plan *)
(* that introduced it: 0 for the base plan, r for retry plan r.  A retry   *)
(* plan has at most one entry per key (RetryRequest._entries) and a fresh  *)
(* attempt id, so the pair is the attempt's identity.  Retry plans are     *)
(* numbered in the order of their NAMES, because that is the order in      *)
(* which _retry_snapshots reads them back.                                 *)
(***************************************************************************)
EXTENDS Integers, FiniteSets

CONSTANTS
  Parents,        \* processes that run dca batch commands on one plan root
  NoParent,       \* "nobody"
  Profiles,       \* profiles of the plan, numbered by execution_order
  Shards,         \* shards of the plan, numbered by shard_id
  LastRetry,      \* retry plans are 1..LastRetry, in name order
  MaxWorkers,     \* max_workers of the runs: 1 or 2
  NamesInOrder    \* TRUE: operators name retry plans in ascending order

ASSUME BatchAssumption ==
  /\ NoParent \notin Parents
  /\ Profiles \subseteq Nat
  /\ Shards \subseteq Nat
  /\ LastRetry \in Nat
  /\ MaxWorkers \in {1, 2}
  /\ NamesInOrder \in BOOLEAN

VARIABLES
  lock,        \* holder of .execution.lock
  plan,        \* retry-plan directory: absent, partial (no manifest), sealed
  parentOf,    \* the parent plan an entry of a retry plan names, or NoEntry
  shard,       \* what _classify_attempt answers for each attempt
  marker,      \* phase of the .processes/ marker: none, intent, started
  child,       \* the agent process: none, alive, exited
  phase,       \* where each parent is: idle, owner, retry, run
  sel,         \* the plan a parent is writing or running
  todo,        \* attempts a run has still to start
  owner,       \* the parent whose invoke() is handling an attempt
  rows,        \* ledger rows a run has collected
  cancelled,   \* the run's cancellation event
  aborted,     \* an exception left a worker: no ledger will be written
  reported     \* statuses of started attempts published in run ledgers

disk   == <<plan, parentOf, shard, marker>>
local  == <<phase, sel, todo, rows, cancelled, aborted>>
vars   == <<lock, disk, child, local, owner, reported>>

Base     == 0
NoEntry  == -1
Retries  == 1..LastRetry
Plans    == 0..LastRetry
Keys     == Profiles \X Shards
Attempts == Keys \X Plans

Terminal == {"SUCCESS", "FAILED"}
Status   == Terminal \cup {"PLANNED", "RUNNING_OR_INCOMPLETE"}
NoRow    == "NONE"

TypeOK ==
  /\ lock \in Parents \cup {NoParent}
  /\ plan \in [Retries -> {"absent", "partial", "sealed"}]
  /\ parentOf \in [Attempts -> Plans \cup {NoEntry}]
  /\ shard \in [Attempts -> Status]
  /\ marker \in [Attempts -> {"none", "intent", "started"}]
  /\ child \in [Attempts -> {"none", "alive", "exited"}]
  /\ phase \in [Parents -> {"idle", "owner", "retry", "run"}]
  /\ sel \in [Parents -> Plans]
  /\ todo \in [Parents -> SUBSET Attempts]
  /\ owner \in [Attempts -> Parents \cup {NoParent}]
  /\ rows \in [Parents -> [Attempts -> Status \cup {NoRow}]]
  /\ cancelled \in [Parents -> BOOLEAN]
  /\ aborted \in [Parents -> BOOLEAN]
  /\ reported \in [Attempts -> SUBSET (Status \ {"PLANNED"})]

Init ==
  /\ lock = NoParent
  /\ plan = [r \in Retries |-> "absent"]
  /\ parentOf = [a \in Attempts |-> NoEntry]
  /\ shard = [a \in Attempts |-> "PLANNED"]
  /\ marker = [a \in Attempts |-> "none"]
  /\ child = [a \in Attempts |-> "none"]
  /\ phase = [p \in Parents |-> "idle"]
  /\ sel = [p \in Parents |-> Base]
  /\ todo = [p \in Parents |-> {}]
  /\ owner = [a \in Attempts |-> NoParent]
  /\ rows = [p \in Parents |-> [a \in Attempts |-> NoRow]]
  /\ cancelled = [p \in Parents |-> FALSE]
  /\ aborted = [p \in Parents |-> FALSE]
  /\ reported = [a \in Attempts |-> {}]

-----------------------------------------------------------------------------
(* What the commands read                                                  *)

\* _all_attempt_specs: plan r contributes an attempt for key k.
Planned(k, r) == r = Base \/ parentOf[<<k, r>>] # NoEntry

\* siblings[-1]: the attempt that comes last when plans are read by name.
IsLatest(k, q) == Planned(k, q) /\ \A r \in Retries : Planned(k, r) => r <= q

Succeeded(k) == \E r \in Plans : Planned(k, r) /\ shard[<<k, r>>] = "SUCCESS"

\* A directory without its manifest makes _load_retry_plan_directory raise,
\* and with it every command that lists the attempts.
PlansReadable == \A r \in Retries : plan[r] # "partial"

\* Faulty forms of assert_attempt_not_active for the mutation runs.
NotActiveIgnoringIntent(a) == ~(marker[a] = "started" /\ child[a] = "alive")
NotActiveIgnoringChild(a) ==
  ~(marker[a] = "intent" /\ shard[a] = "RUNNING_OR_INCOMPLETE")

\* assert_attempt_not_active
NotActive(a) ==
  /\ ~(marker[a] = "started" /\ child[a] = "alive")
  /\ ~(marker[a] = "intent" /\ shard[a] = "RUNNING_OR_INCOMPLETE")

Eligible == {"FAILED", "RUNNING_OR_INCOMPLETE"}

\* create_retry_plan's checks of one request entry.
RetryAllowed(k, q) ==
  /\ Planned(k, q)
  /\ ~Succeeded(k)
  /\ IsLatest(k, q)
  /\ NotActive(<<k, q>>)
  /\ shard[<<k, q>>] \in Eligible

\* Faulty form: the siblings are not looked at again when the retry runs.
RunAllowedNoSiblings(k, r) ==
  r # Base => shard[<<k, parentOf[<<k, r>>]>>] \in Eligible
              /\ NotActive(<<k, parentOf[<<k, r>>]>>)

\* _validate_run_spec for an attempt the run would start.
RunAllowed(k, r) ==
  r # Base =>
    LET q == parentOf[<<k, r>>]
    IN  /\ shard[<<k, q>>] \in Eligible
        /\ NotActive(<<k, q>>)
        /\ ~Succeeded(k)

Selected(r) == {a \in Attempts : a[2] = r /\ Planned(a[1], r)}
Runnable(r) == {a \in Selected(r) : shard[a] = "PLANNED"}

-----------------------------------------------------------------------------
(* The lock                                                                *)

\* Faulty form: the lock is taken over from a running parent.
AcquireBlindly(p) ==
  /\ phase[p] = "idle"
  /\ lock' = p
  /\ phase' = [phase EXCEPT ![p] = "owner"]
  /\ UNCHANGED <<disk, child, sel, todo, rows, cancelled, aborted, owner,
                 reported>>

\* execution_lock: a non-blocking flock; a loser raises and changes nothing.
Acquire(p) ==
  /\ phase[p] = "idle"
  /\ lock = NoParent
  /\ lock' = p
  /\ phase' = [phase EXCEPT ![p] = "owner"]
  /\ UNCHANGED <<disk, child, sel, todo, rows, cancelled, aborted,
                 owner, reported>>

\* Leaving the with-block of execution_lock, in whatever way.
Release(p) ==
  /\ lock' = NoParent
  /\ phase' = [phase EXCEPT ![p] = "idle"]
  /\ sel' = [sel EXCEPT ![p] = Base]
  /\ todo' = [todo EXCEPT ![p] = {}]
  /\ rows' = [rows EXCEPT ![p] = [a \in Attempts |-> NoRow]]
  /\ cancelled' = [cancelled EXCEPT ![p] = FALSE]
  /\ aborted' = [aborted EXCEPT ![p] = FALSE]

\* A validation, preflight or input error before anything was written.
Refuse(p) ==
  /\ phase[p] = "owner"
  /\ Release(p)
  /\ UNCHANGED <<disk, child, owner, reported>>

-----------------------------------------------------------------------------
(* create_retry_plan                                                       *)

\* The request passes every check and destination.mkdir succeeds.  par names
\* the parent of each requested key; NoEntry leaves a key out.
BeginRetryPlan(p, r, par) ==
  /\ phase[p] = "owner"
  /\ plan[r] = "absent"
  /\ NamesInOrder => \A r2 \in Retries : plan[r2] # "absent" => r2 < r
  /\ PlansReadable
  /\ \E k \in Keys : par[k] # NoEntry
  /\ \A k \in Keys : par[k] # NoEntry => RetryAllowed(k, par[k])
  /\ plan' = [plan EXCEPT ![r] = "partial"]
  /\ parentOf' = [a \in Attempts |->
                    IF a[2] = r THEN par[a[1]] ELSE parentOf[a]]
  /\ phase' = [phase EXCEPT ![p] = "retry"]
  /\ sel' = [sel EXCEPT ![p] = r]
  /\ UNCHANGED <<lock, shard, marker, child, todo, rows, cancelled,
                 aborted, owner, reported>>

\* Snapshot, ledger and hash manifest are on disk; the command returns.
SealRetryPlan(p) ==
  /\ phase[p] = "retry"
  /\ plan' = [plan EXCEPT ![sel[p]] = "sealed"]
  /\ Release(p)
  /\ UNCHANGED <<parentOf, shard, marker, child, owner, reported>>

-----------------------------------------------------------------------------
(* run_batch                                                               *)

\* Faulty form: a retry plan is run before its manifest is written.
BeginRunUnsealed(p, r) ==
  /\ phase[p] = "owner"
  /\ r # Base => plan[r] # "absent"
  /\ \A a \in Runnable(r) : RunAllowed(a[1], r)
  /\ phase' = [phase EXCEPT ![p] = "run"]
  /\ sel' = [sel EXCEPT ![p] = r]
  /\ todo' = [todo EXCEPT ![p] = Runnable(r)]
  /\ rows' = [rows EXCEPT ![p] =
                [a \in Attempts |-> IF a \in Selected(r) THEN shard[a] ELSE NoRow]]
  /\ UNCHANGED <<lock, disk, child, cancelled, aborted, owner, reported>>

\* A run of the base plan (r = Base) or of retry plan r: every
\* attempt is classified, and every never-started one validated, before the
\* first is invoked.
BeginRun(p, r) ==
  /\ phase[p] = "owner"
  /\ r # Base => PlansReadable /\ plan[r] = "sealed"
  /\ \A a \in Runnable(r) : RunAllowed(a[1], r)
  /\ phase' = [phase EXCEPT ![p] = "run"]
  /\ sel' = [sel EXCEPT ![p] = r]
  /\ todo' = [todo EXCEPT ![p] = Runnable(r)]
  /\ rows' = [rows EXCEPT ![p] =
                [a \in Attempts |-> IF a \in Selected(r) THEN shard[a] ELSE NoRow]]
  /\ UNCHANGED <<lock, disk, child, cancelled, aborted, owner, reported>>

\* SIGINT or SIGTERM sets the run's cancellation event.
Cancel(p) ==
  /\ phase[p] = "run"
  /\ ~cancelled[p]
  /\ cancelled' = [cancelled EXCEPT ![p] = TRUE]
  /\ UNCHANGED <<lock, disk, child, phase, sel, todo, rows, aborted,
                 owner, reported>>

InFlight(p) == {a \in Attempts : owner[a] = p}

\* The profile groups that have not finished.
Unfinished(p) == {a[1][1] : a \in todo[p] \cup InFlight(p)}

\* Groups are submitted in execution order to a pool of MaxWorkers threads;
\* a group runs its attempts one at a time in shard order.
IsNext(p, a) ==
  /\ a \in todo[p]
  /\ \A b \in InFlight(p) : b[1][1] # a[1][1]
  /\ \A b \in todo[p] : b[1][1] = a[1][1] => a[1][2] <= b[1][2]
  /\ Cardinality({g \in Unfinished(p) : g < a[1][1]}) < MaxWorkers

\* execute_profile checks cancellation, then ImmutableShardWriter makes the
\* attempt directory (mkdir without exist_ok).
MakeShard(p, a) ==
  /\ phase[p] = "run"
  /\ ~cancelled[p]
  /\ IsNext(p, a)
  /\ shard[a] = "PLANNED"
  /\ shard' = [shard EXCEPT ![a] = "RUNNING_OR_INCOMPLETE"]
  /\ todo' = [todo EXCEPT ![p] = @ \ {a}]
  /\ owner' = [owner EXCEPT ![a] = p]
  /\ UNCHANGED <<lock, plan, parentOf, marker, child, phase, sel, rows, cancelled, aborted, reported>>

\* invoke() wrote its terminal shard and execute_profile appended the row.
Finish(p, a, status) ==
  /\ shard' = [shard EXCEPT ![a] = status]
  /\ owner' = [owner EXCEPT ![a] = NoParent]
  /\ rows' = [rows EXCEPT ![p][a] = status]

\* A failure before a child exists: invalid contract, payload or profile,
\* cancellation, call limit, policy, or an OSError from Popen itself.
PrelaunchFailure(p, a) ==
  /\ owner[a] = p
  /\ child[a] = "none"
  /\ Finish(p, a, "FAILED")
  /\ UNCHANGED <<lock, plan, parentOf, marker, child, phase, sel,
                 todo, cancelled, aborted, reported>>

RecordIntent(p, a) ==
  /\ owner[a] = p
  /\ marker[a] = "none"
  /\ marker' = [marker EXCEPT ![a] = "intent"]
  /\ UNCHANGED <<lock, plan, parentOf, shard, child, local, owner, reported>>

Popen(p, a) ==
  /\ owner[a] = p
  /\ marker[a] = "intent"
  /\ child[a] = "none"
  /\ child' = [child EXCEPT ![a] = "alive"]
  /\ UNCHANGED <<lock, disk, local, owner, reported>>

RecordStarted(p, a) ==
  /\ owner[a] = p
  /\ marker[a] = "intent"
  /\ child[a] # "none"
  /\ marker' = [marker EXCEPT ![a] = "started"]
  /\ UNCHANGED <<lock, plan, parentOf, shard, child, local, owner, reported>>

\* The STARTED marker cannot be written (OSError): the child is terminated
\* and the capture evaluated as a failure.
RecordFails(p, a) ==
  /\ owner[a] = p
  /\ marker[a] = "intent"
  /\ child[a] # "none"
  /\ child' = [child EXCEPT ![a] = "exited"]
  /\ Finish(p, a, "FAILED")
  /\ UNCHANGED <<lock, plan, parentOf, marker, phase, sel, todo,
                 cancelled, aborted, reported>>

\* Cancellation or the task's timeout: TERM, KILL, reap, then a failure.
Terminate(p, a) ==
  /\ owner[a] = p
  /\ marker[a] = "started"
  /\ child' = [child EXCEPT ![a] = "exited"]
  /\ Finish(p, a, "FAILED")
  /\ UNCHANGED <<lock, plan, parentOf, marker, phase, sel, todo,
                 cancelled, aborted, reported>>

\* The child ended by itself: its capture is evaluated and written.
WriteResult(p, a, status) ==
  /\ owner[a] = p
  /\ marker[a] = "started"
  /\ child[a] = "exited"
  /\ Finish(p, a, status)
  /\ UNCHANGED <<lock, plan, parentOf, marker, child, phase, sel,
                 todo, cancelled, aborted, reported>>

\* Any other exception, while the task is loaded or the directory made, or out
\* of invoke(): a started child is terminated first, the attempt stays as it
\* is on disk and its worker ends.
\* One worker: the run ends.  Two: the other groups still run to their end.
Raise(p, a) ==
  /\ owner[a] = p \/ (phase[p] = "run" /\ ~cancelled[p] /\ IsNext(p, a))
  /\ child' = [child EXCEPT ![a] = IF @ = "none" THEN "none" ELSE "exited"]
  /\ owner' = [owner EXCEPT ![a] = NoParent]
  /\ todo' = [todo EXCEPT ![p] =
                IF MaxWorkers = 1 THEN {} ELSE {b \in @ : b[1][1] # a[1][1]}]
  /\ aborted' = [aborted EXCEPT ![p] = TRUE]
  /\ UNCHANGED <<lock, disk, phase, sel, rows, cancelled, reported>>

\* Faulty forms of the two definitions below.
FinishedOnlyWhenEmpty(p) == InFlight(p) = {} /\ todo[p] = {}
PublishedUnselected(p, a) ==
  IF aborted[p] \/ rows[p][a] = "PLANNED" THEN {} ELSE {rows[p][a]}

\* Every worker has left its loop.
Finished(p) == InFlight(p) = {} /\ (todo[p] = {} \/ cancelled[p])

\* The status the ledger publishes for a, as a set: none without a ledger or
\* outside the selection; CANCELLED_BEFORE_START rows are not recorded here.
Published(p, a) ==
  IF aborted[p] \/ rows[p][a] \in {NoRow, "PLANNED"} THEN {} ELSE {rows[p][a]}

\* The workers are done; unless one raised, the run directory is written.
EndRun(p) ==
  /\ phase[p] = "run"
  /\ Finished(p)
  /\ reported' = [a \in Attempts |-> reported[a] \cup Published(p, a)]
  /\ Release(p)
  /\ UNCHANGED <<disk, child, owner>>

-----------------------------------------------------------------------------
(* The environment                                                         *)

ChildExit(a) ==
  /\ child[a] = "alive"
  /\ child' = [child EXCEPT ![a] = "exited"]
  /\ UNCHANGED <<lock, disk, local, owner, reported>>

\* The parent dies; the kernel releases its lock, its children live on.
Crash(p) ==
  /\ phase[p] # "idle"
  /\ Release(p)
  /\ owner' = [a \in Attempts |-> IF owner[a] = p THEN NoParent ELSE owner[a]]
  /\ UNCHANGED <<disk, child, reported>>

-----------------------------------------------------------------------------
Invoke(p, a) ==
  \/ MakeShard(p, a)
  \/ PrelaunchFailure(p, a)
  \/ RecordIntent(p, a)
  \/ Popen(p, a)
  \/ RecordStarted(p, a)
  \/ RecordFails(p, a)
  \/ Terminate(p, a)
  \/ \E status \in Terminal : WriteResult(p, a, status)
  \/ Raise(p, a)

Work(p) ==
  \/ Refuse(p)
  \/ \E r \in Retries, par \in [Keys -> Plans \cup {NoEntry}] :
       BeginRetryPlan(p, r, par)
  \/ SealRetryPlan(p)
  \/ \E r \in Plans : BeginRun(p, r)
  \/ \E a \in Attempts : Invoke(p, a)
  \/ EndRun(p)

Next ==
  \/ \E p \in Parents : Acquire(p) \/ Work(p) \/ Cancel(p) \/ Crash(p)
  \/ \E a \in Attempts : ChildExit(a)

Spec == Init /\ [][Next]_vars

\* A live parent keeps executing: communicate() is bounded by the task's
\* timeout, so Terminate is always ahead.  Nobody owes a command, a
\* cancellation, a crash or the child's own exit.
Fairness == \A p \in Parents : WF_vars(Work(p))

FairSpec == Spec /\ Fairness

-----------------------------------------------------------------------------
(* What the runner promises                                                *)

\* A profile/shard pair has at most one successful attempt, however retries
\* are named, runs interleave and parents crash: collect_batch refuses a
\* pair with two (batch.py _successful_attempts_by_shard and run_batch's
\* sibling check).
AtMostOneSuccess ==
  \A k \in Keys : \A q, r \in Plans :
    /\ shard[<<k, q>>] = "SUCCESS"
    /\ shard[<<k, r>>] = "SUCCESS"
    => q = r

\* The attempt a planned retry names as its parent has come to rest: no
\* invoke() is handling it, its child is not running, and no child can have
\* been started that the marker does not name (assert_attempt_not_active).
RetryParentSettled ==
  \A k \in Keys : \A r \in Retries :
    Planned(k, r) =>
      LET a == <<k, parentOf[<<k, r>>]>>
      IN  /\ owner[a] = NoParent
          /\ child[a] # "alive"
          /\ shard[a] = "RUNNING_OR_INCOMPLETE" => marker[a] # "intent"

\* A run ledger stays true: an attempt it reports as terminal keeps that
\* status for ever, and one it reports as incomplete is never completed
\* behind its back by another parent or by an orphan of a crashed one.
ReportedStable ==
  \A a \in Attempts : \A status \in reported[a] : shard[a] = status

\* To a reader of the plan root the runner is the attempt ledger: whatever
\* parents, orphans and crashes do, attempts start once, end once, and only
\* while their pair has not succeeded (_classify_attempt, _all_attempt_specs).
Ledger == INSTANCE AttemptLedger
            WITH planned <- {a \in Attempts : Planned(a[1], a[2])}
ImplementsAttemptLedger == Ledger!LedgerSpec

\* Never two live agent children for one profile/shard pair: an orphan of a
\* crashed parent blocks the retry (RETRY_BLOCKED_CHILD_STILL_ALIVE and
\* RETRY_BLOCKED_LAUNCH_STATE_UNKNOWN).  Needs NamesInOrder.
AtMostOneLiveChild ==
  \A k \in Keys : \A q, r \in Plans :
    child[<<k, q>>] = "alive" /\ child[<<k, r>>] = "alive" => q = r

\* "Retry parent must be the latest planned attempt" (create_retry_plan): no
\* two planned retries of a pair continue the same attempt.
NoForkedRetries ==
  \A k \in Keys : \A q, r \in Retries :
    Planned(k, q) /\ Planned(k, r) /\ parentOf[<<k, q>>] = parentOf[<<k, r>>]
      => q = r

\* However retry plans are named: for a pair with two live agent children the
\* name order has made create_retry_plan accept two retries of one attempt.
\* Nothing else - no crash, orphan, re-run or unknown launch - can cause it.
LiveChildrenNeedAFork ==
  \A k \in Keys :
    (\E q, r \in Plans : q # r /\ child[<<k, q>>] = "alive"
                                /\ child[<<k, r>>] = "alive")
    => \E q, r \in Retries : /\ q # r
                            /\ Planned(k, q) /\ Planned(k, r)
                            /\ parentOf[<<k, q>>] = parentOf[<<k, r>>]

\* A command that owns the batch gives it up: it finishes, refuses, is
\* cancelled or dies, and a cancelled run does not wait for attempts it will
\* never start.
LockReleased == \A p \in Parents : lock = p ~> lock # p
=============================================================================
