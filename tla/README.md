# A TLA+ model of the DCA dispatcher

These modules model the Python package `dispatcher_for_codex_agents`
(`src/src/dispatcher_for_codex_agents`, below: the package): a dispatcher that
sends shards of records to external coding agents, keeps what they answer as
immutable files, tells people about it, and wakes a main agent once when work
it delegated is done. TLC checks the modules on small instances; TLAPS proves
every safety property among those it checks for every value of the parameters.

The package is sequential code in many short-lived processes. What makes it
hard is what these processes share: directories, an `flock` or two, an
append-only ledger, pipes, and agent children that outlive the parent that
started them. So almost every module is about processes that can die between
any two steps and meet only through files.

1. [The system](#1-the-system)
2. [The modules](#2-the-modules)
3. [The runs](#3-the-runs)
4. [Fairness](#4-fairness)
5. [What is proved](#5-what-is-proved)
6. [Disagreements between the code and what it says](#6-disagreements-between-the-code-and-what-it-says)
7. [What is not modelled, and the plan](#7-what-is-not-modelled-and-the-plan)

## 1. The system

### Agent harness (`agent_harness/`)

| Component | State it keeps | Operations | What makes it correct |
|---|---|---|---|
| Batch orchestration, `batch.py` | `retry-plans/<id>/`, `shards/<attempt>/`, `runs/<id>/` under a plan root; per run, a thread pool and a ledger in memory | `plan_batch`, `load_batch_plan`, `run_batch`, `create_retry_plan`, `status_batch`, `collect_batch` | a pair (profile, shard) succeeds at most once; a retry continues an attempt that is over; a published ledger stays true |
| Process guard, `process_guard.py` | `.execution.lock`, `.execution.owner.json`, `.processes/<attempt>.json` | `execution_lock`, `execution_is_locked`, `LAUNCH_INTENT`, `STARTED`, `assert_attempt_not_active`, the cancellation event | one parent per batch; no second child for a pair while an orphan may live |
| Attempt shard, `shard.py` | one directory per attempt, its hash manifest last | `ImmutableShardWriter`, `read_verified_shard` | a directory without its manifest is never a result |
| Codex CLI adapter, `adapter.py` | nothing across calls | `invoke`, `evaluate_capture`, preflight, command and environment building | a success is earned; a child is reaped |
| Runtime contract, `runtime_contract.py` | nothing | lifecycle rules, `classify_activity`, opt-in options | the rules agree with the protocol whatever the agent emits |
| Revalidation, `revalidation.py` | derivative directories beside sealed attempts | `revalidate` | the original is never changed, its ledger row stays |
| Monitoring, `monitoring.py` | nothing; one inotify watch | `aggregate_status`, `wait_for_check`, the watch loop | "terminal" is final; it wakes when the batch is given up; an alarm has a reason |
| Schema, contracts, payload, profile, capabilities, runtime registry, `cli.py` | nothing | validation, text, compilation of policies, exit codes and signal handlers | pure functions of their input |

The runner holds `.execution.lock` from its first check to its last write; so
does `retry-plan`. `status`, `collect`, `monitor` and dry runs take no lock and
read the same directories meanwhile. The bridge's watchdog calls
`aggregate_status` too.

### Main-agent bridge (`main_agent_bridge/`)

| Component | State it keeps | Operations | What makes it correct |
|---|---|---|---|
| Controller, `controller.py` | `controller.lock`, `binding.json`, `cancel.json`, `consumption.jsonl`, `completion.json`; in memory a cancellation flag and budgets | `supervise` (start, recover), cancel, status; `Dispatcher.deliver`; `watch_cancel` | the main agent is woken at most once; nothing is lost before its reservation; a revocation ends it |
| Event store, `store.py` | sealed events, consumption rows | `put`, `pending`, `append`, `records` | an event is sealed once; states are appended, never removed |
| Jobs, `jobs.py` | one result per job, launch rows | `run_jobs`, `seal_event` | a job is launched once; cancelled results are never sealed |
| App Server, `appserver.py` | a host child and its pipe | `open`, `request`, `close` | each exit of a request leaves one verdict |
| Contracts, capabilities, `cli.py` | nothing | validation, arguments | pure |

### Notifications (`notifications/`)

| Component | State it keeps | Operations | What makes it correct |
|---|---|---|---|
| Core and sinks, `core.py`, `sinks.py` | `delivery.jsonl` under an `flock` (0.1 s), a forked sender per request | `notify`, `ledger`, `bounded_send` | one request per event and sink; rows agree with the network; a turn is silenced only if its batch was announced |
| Hook installer, `hooks.py` | `hooks.json`, an installer `flock`, backups, receipts | install, migrate, rollback | the user's own hooks survive; what is overwritten is saved; a torn file is recoverable |
| `cli.py`, `presentation.py` | nothing | hook input, texts | pure |

Hooks, batch terminals and the bridge all call `notify`, from processes that
know nothing of each other.

`PROJECT.json` has the complete list of components with the status of each, and
the hazards: the places where this code can go wrong in a way a test would
hardly reach, each at its line, with the properties that would catch it.

## 2. The modules

```
 MCBatchExecution -> BatchExecution --implements--> AttemptLedger
                       ^ BatchExecutionProofs         ^          ^
 MCBatchOutcome   -> BatchOutcome --extends--> CollectBatch  BatchMonitor <- MCBatchMonitor
                       |     ^                                   ^ BatchMonitorProofs
                       |     BatchOutcomeProofs (also of CollectBatch and BatchPlan)
                       +--extends--> BatchPlan
 MCShardFiles     -> ShardFiles     --implements--> AttemptStatus
                       ^ ShardFilesProofs
 MCNotifyLedger   -> NotifyLedger   --implements--> AtMostOnce
                       ^ NotifyLedgerProofs           ^
 MCBridgeDelivery -> BridgeDelivery --implements------+
                       ^ BridgeDeliveryProofs
 MCHookInstall    -> HookInstall    <- HookInstallProofs
 MCCaptureEvaluation -> CaptureEvaluation <- CaptureEvaluationProofs
```

Three small abstract modules say what the rest of the system may rely on.
`AttemptLedger` is a batch as its readers see it: which attempts are planned,
which retry plans are readable, what status each attempt has. The runner
implements it (checked by `batch_any_names`, proved as `Refinement` of
`BatchExecutionProofs`), so the lock-free readers are modelled on it and need
not repeat the runner. `AttemptStatus` is one attempt whose status goes forward
while its writer is at work and stands once the writer is over, and whose readers
answer a status it had while they looked; `ShardFiles` implements it, which is why
the other modules may read an attempt in one step.
`AtMostOnce` is reserve, dispatch once, close; both delivery paths implement it.

### BatchExecution

`run_batch` and `create_retry_plan` under the execution lock, with the part of
`invoke` that creates the attempt, its markers and its child. An attempt is a
pair `<<key, plan>>`, key a profile and a shard, plan `0` for the base plan and
`r` for a retry plan. Retry plans are numbered by their names, since
`_retry_snapshots` reads directories in that order; `NamesInOrder` says whether
operators happen to create them in ascending order.

| Variables | Code |
|---|---|
| `lock` | the `flock` on `.execution.lock` |
| `plan`, `parentOf` | retry-plan directories (absent, without manifest, sealed) and the parent each entry names |
| `shard` | what `_classify_attempt` answers |
| `marker`, `child` | `.processes/<attempt>.json` and the operating system's process |
| `phase`, `sel`, `todo`, `rows`, `cancelled`, `aborted`, `owner` | locals of a parent: where it is, its selection, queue, ledger rows, cancellation event, a worker that raised, the attempts its `invoke` calls handle |
| `reported` | statuses published in `runs/<id>/` |

Actions: `Acquire`, `Refuse`, `BeginRetryPlan` (all checks, then `mkdir`),
`SealRetryPlan`, `BeginRun` (classification and validation of the whole
selection), `Cancel`, `MakeShard`, `PrelaunchFailure`, `RecordIntent`, `Popen`,
`RecordStarted`, `RecordFails`, `Terminate`, `WriteResult`, `Raise`, `EndRun`,
`ChildExit`, `Crash`. After `Crash` a child lives on, as it does with
`start_new_session=True`. `IsNext` is the pool: `max_workers` profile groups in
execution order, one attempt of a group at a time, in shard order. Call budgets
and preflight appear as `Refuse` and `PrelaunchFailure`.

### BatchPlan

`plan_batch` and `load_batch_plan`. Several planners may want the same output
root: `Accept` (all checks on the inputs, last that the root does not exist),
`MakeFolder` (the exclusive `mkdir`), `WritePlan` (snapshot, shard inputs,
`shard_plan.tsv`), `SealPlan` (the hash manifest), `Abandon` (death or an
exception anywhere). `ShardCount` is the ceiling division and `Slice` the slice
of the sorted record ids; a record id is its place in that order. `Loads` is
what every later command checks before it believes the directory, among it that
the shard ids, which are `shard-%04d` and sorted as text, come back in the order
of their numbers (`Digits`, `TextBefore`, `Place`). The radix is a parameter, so
that TLC can reach a number that outgrows its name; it is more than 2, as 10 is:
in radix 2 the names `1`, `10`, `11` sort in the order of their numbers although
the second outgrows one digit, while in any larger radix the first longer name
sorts before a shorter one, as `10000` does before `9999`. Powers are the
recursive function `Power`.

The ids are looked up and written to `shard_plan.tsv` without the blanks around
them (`batch.py:615`), while the shard inputs get the rows of the source as they
are, through a `csv` reader that ends a row at a bare carriage return. `Untidy`
are the records whose row may therefore read back under another id (`ReadBack`);
whether it does is the choice of the request, as the membership TSV may name the
id either way. `load_batch_plan` compares the two and refuses such a plan, sealed
as it is: `SealedPlanLoads` names this beside the numbers that outgrow their
names. The rest of what is read back, the snapshot's configuration, is taken as
written.

### AttemptLedger, CollectBatch, BatchOutcome, BatchMonitor

`CollectBatch` extends the ledger with a collector's two listings and two
classifications, attempt by attempt, the choice of one output per pair (or an
explicit selection), the exclusive directory, and `revalidate` writing
derivatives beside it: several of one attempt, under different contracts, of
which `derived` is the best and a torn one counts as failed. `Inexact` marks
outputs that do not answer every planned record of their shard exactly once.

`BatchOutcome` composes planning with everything after it. `Usable` stands
between the two: a plan that loads, with as many shards as the ledger of the
instance. Its property `PassAnswersEveryRecord` relates the membership that was
asked for to what a sealed PASS contains, across both parts.

`BatchMonitor` extends the ledger with parents that only own the batch, run it
or die, and a monitor that reads attempts, owner file, process and lock in
separate steps. `execution_is_locked` is modelled as what it is: the probe takes
the lock for a moment.

### ShardFiles

One attempt directory: the exclusive `mkdir`; each file in three steps, created
(`CreateFile`), written and flushed (`FillFile`), fsynced and closed (`SyncFile`),
the manifest last; a writer that dies at any of them (`WriterStops`) or has an
exception there, which unlinks the open file, whole as it may be (`WriteFails`);
readers that list, read file by file and verify. A file is absent, part or full,
and the manifest is full without its last newline too, as `read_verified_shard`
takes it. A hash is what the file held.

So a reader may see a whole manifest whose fsync then fails, and the result is
taken back as its writer ends (`Settle` of `AttemptStatus`). The modules that read
an attempt in one step know it as terminal from when its writer is over only; they
do not show what a reader without a lock makes of a result in that window.

### NotifyLedger

Per event and sink the ledger is its last decisive row. A process is in the
loop of `notify` at one sink: decide under the lock (`SkipDuplicate`,
`Suppress`, `Reserve`), `Configure`, `Mark` the attempt, `Send` (fork),
`Collect` (the child's verdict or its deadline), `Record`, next sink.
`LockTimeout` is the 0.1 second limit, which ends the whole call. `poster` is
the forked child, which lives on when its parent dies and may still `Post`.
`Age` moves a `SENT` row out of the 300-second window of the suppression.

### BridgeDelivery

One state root with several controllers: the one that started the task, others
that recover it. `pc` says where a controller is; `Starting`, `Waiting` and
`Running` separate the places where it awaits (and can be cancelled) from those
where it runs on without yielding. `wire` is the wake-up in the pipe of a
host, read by `HostReceives` even when nobody waits for the answer any more.
`Fail` is every way in which a step raises, including torn or unsigned files,
which fail closed. The answer limit of 45 seconds is a choice between
`Acknowledged` and `Fail`.

### HookInstall

`install_hooks`, `migrate_hooks` and `rollback_hooks` with `--apply`, under the
`flock` of the installer, and a user who edits `hooks.json` without it. `pc` is
the place in a command: `lock`, `read` or `recheck`, `copy` (backup or "removed"
copy), `receipt`, `check`, then `_replace` as `open` (compare), `write`,
`truncate`, or `unlink`. Between `write` and `truncate` the file may hold the
tail of its longer predecessor (`Torn`), or, if it was empty or just created, a
beginning of the new content (`Part`); the commands refuse both. A registration
for some of the events only is completed, as if there were none. `linked` says whether the descriptor of
the running `_replace` is still the file at the path, which an edit by rename
ends. `late` marks an edit that fell behind the last comparison of a command;
nothing the code does could notice it, and the properties exempt it by name.
`Stop` is death or an exception at any place.

### CaptureEvaluation

`evaluate_capture` with `_lifecycle_issues` and `classify_activity`. The agent is
the environment and emits any event next; the accumulators of the code's loops
are variables extended event by event, and `Failure(f)` is the verdict on the
stream so far for each combination `f` of exit, stderr, options and policy; its
reasons are looked for in the code's order. The policy audits an item in
whatever event it comes, as `_policy_violations` does, while the two passes
count it in an item event only. An item without a kind (`Unnamed`) has no id, and a `thread.started` without a thread
id is an issue and begins no thread (`NamesThread`);
a malformed error item is no diagnostic. A text is one of what the validators say of it: valid, fenced, not covering all
records, invalid. `RevalidationPasses` is the decision of `revalidation.py` on a
sealed capture read under another contract, which starts from the original
result instead of the live exit; `RevalidationIsLive` compares the two.

## 3. The runs

Each `MC` module instantiates its specification, with one `.cfg` per question.

| Run | Instance | What it shows | States |
|---|---|---|---|
| `batch_any_names` | 2 parents, 1 pair, 3 retry plans in any name order | at most one success; retries continue only settled attempts; two live children only after a fork; implements `AttemptLedger` | 267 k |
| `batch_pool` | 2 parents, 2 profiles, 2 workers | published ledgers stay true; every owner lets the batch go | 6.2 k |
| `batch_forked_retry` | 1 parent, 1 pair, 3 retry plans | violated: see section 6 | - |
| `batch_outcome` | 2 planners, up to 3 records in shards of 1 to 3; 1 collector, 2 shards, 1 retry plan, 1 inexact attempt | a sealed plan loads unless its shard numbers outgrow their names or a row does not read back under its id; a sealed PASS is complete, stays so, and answers the planned membership; originals and derivatives are accounted for | 556 k |
| `monitor_beside_runner` | 2 parents, 1 monitor, 1 retry plan | "terminal" is final; a sleeping monitor wakes when the batch is released, without its timer | 640 k |
| `monitor_false_alarm`, `monitor_probe_refuses` | the same | violated: see section 6 | - |
| `shard_files` | 2 writers, 2 readers, layouts of 1 and 3 data files | a manifest covers whole files; readers answer a status the attempt had while they looked; they conclude | 118 k |
| `notify_race` | 2 processes, a batch terminal and its turn, 1 sink | one request per event and sink; the ledger tells the truth; silence is earned; implements `AtMostOnce`; `notify` returns | 28 k |
| `bridge_delivery` | 3 controllers, a batch job and a fixture | one wake-up, jobs launched once, only finished jobs sealed, one verdict on a reservation and COMPLETED a confirmed one, nothing lost before its reservation, nothing run after it, revocation stops everything | 4.6 k |
| `hook_install` | 2 processes, 2 edits by the user | outside edits behind the last comparison: hooks of the user are kept; overwritten contents are saved; a torn file is recoverable | 701 k |
| `capture_evaluation` | streams of up to 6 events of 18 kinds, 3 protocols, all options | the one-pass lifecycle agrees with its declarative form; success is earned; the options open two doors only; a revalidation says what a live run would have said | 225 k |

Why these bounds are enough to be interesting:

- *Three retry plans* are needed for a fork: created b, a, c, the third can
  continue an attempt that already has a retry. Two parents compete for the lock
  and one can take over after the other died. With one pair, plans and crashes
  interleave fully; the pool needs two profiles, and is in the second run, which
  needs no retries. `VIEW WithoutReports` identifies states that differ only in
  the published ledgers: no step reads them and no property of that run other
  than the type mentions them. The proofs cover all larger instances.
- *One sink*: sinks meet only in the loop of `notify`, which goes through them in
  turn. That a call that answers PROCESSED has passed all of them is proved for
  any number (`ProcessedCovers`).
- *Three records, radix 3, width 1*: a plan of three shards is the first whose
  numbers outgrow their names, as 10 000 shards are for the code's four decimal
  digits; one of three records in shards of two has a last shard that is not
  full. The second part of the run fixes one profile and two shards (`Usable`).
- *Two edits by the user*: one to change what a command has read, one while
  another command, or a rollback with a stale receipt, is on its way.
- *Three controllers* let a second recovery follow a first one that died at any
  step; a fourth could meet nothing new, since each dies or ends with the
  state of the disk the only trace. Two jobs, one of each kind, are the kinds
  `run_jobs` distinguishes.
- *One monitor, one collector*: they take no lock and change nothing the runner
  reads, except the monitor's probe. Two monitors can take each other's probe
  for a running parent and sleep until their interval passes; the code accepts
  that delay, and `WakesOnRelease` is stated for one.
- *Layouts 1 and 3* stand for the directory of a legacy attempt and the one with
  its two runtime artifacts. The case that matters is a prefix of a larger layout
  that is itself an accepted one, and a prefix that is none; the normalized output
  makes a fourth file and no new case. The proofs cover any layouts.
- *Six events* are thread, turn, two items with start and completion or three
  single ones, and the end: enough for every rule, each of which relates two
  events of one item or an event to the turn. `MaxIssues = 2` stops a stream
  that already failed twice; every rule has fired alone before that.

`CHECK_DEADLOCK FALSE` stands where the system may really stop: a state root of
the bridge that is done, a collection whose id is used up, a batch with every
attempt over and every parent dead, a stream at its bound. The other runs check
deadlock. Symmetry is declared in `batch_any_names` and `hook_install` only, which
check safety and treat processes alike.

Every property of a passing run has a mutant in `PROJECT.json`: a plausible
wrong form of one definition, written down before the right one in the same
module ("Faulty form"), under which the property fails.

## 4. Fairness

Fairness is asked of what the code itself does next, never of its users, its
agents, or accidents.

- `BatchExecution`: weak fairness of `Work(p)`. A parent inside `invoke` waits in
  `communicate()` with the task's timeout, so `Terminate` is always ahead of it;
  the other steps are plain code. No child owes its exit, nobody a command. One
  wait has no limit, the `communicate()` after the kill (`adapter.py:833`): there
  `Terminate` assumes that a killed child is reaped and its pipes are closed.
- `NotifyLedger`: weak fairness of `Work(p)`: waiting for the lock and for the
  sender both have deadlines (`LockTimeout`, `Collect`). The forked sender owes
  nothing.
- `BridgeDelivery`: weak fairness of code that does not yield or waits for a
  request with a limit, of the watcher, the abort and the `finally` block, and of
  the jobs of a controller that was told to stop. No host owes an answer, no job
  its end.
- `ShardFiles`: readers run to their end; writers owe nothing.
- `BatchMonitor`: weak fairness of the monitor's own steps. `Timer` is left out on
  purpose: with it, every sleep would end and `WakesOnRelease` would say nothing
  of the inotify watch.
- `BatchPlan`, `CollectBatch`, `HookInstall` and `CaptureEvaluation` have safety
  properties only: each command is straight-line code whose only wait, the
  installer's lock, has a limit of 0.1 seconds and ends in `Stop`.

## 5. What is proved

Eight modules of proofs, one per component or group of components, prove every
safety invariant, action property and refinement that the runs check, from the
named assumptions of the modules (`BatchAssumption`, `NotifyAssumption`,
`HookAssumption`, `PlanAssumption`, `CaptureAssumption`, ...) and nothing else:
any sets of parents, processes, monitors, collectors, controllers and events, any
profiles, shards, records and sinks, any number of retry plans and edits, streams
of any length.

**Batch runner.** The properties are not inductive. `IInv` adds what they rest on:

- `LockInv`: whoever is past the lock holds it, so (`OnlyOwner`) only one parent
  queues or invokes;
- `QueueInv`, `OwnerInv`: queued attempts are planned and never started; an
  invoked one is of the selected plan of a run and looks incomplete;
- `AttemptInv`: status, marker and child of one attempt fit together, also after
  a crash;
- `PlanInv`: the parent of a planned retry was started, did not succeed, has
  settled, and its launch state is known. This is what `assert_attempt_not_active`
  buys, and it is preserved because a settled attempt never moves again;
- `PendingInv`: while an attempt waits or is invoked, no attempt of its pair has
  succeeded. This holds because `run_batch` looks at the siblings again when the
  retry runs; it is what makes `AtMostOneSuccess` true although retries can fork;
- `OrderInv`: when names ascend, everything planned before a retry has settled;
- `LedgerInv`: rows of a run agree with the shards while it runs.

Proved from it: `TypeCorrect`, `OneSuccess`, `ParentSettled`, `LedgersStayTrue`, and
`OneLiveChild`, which alone assumes `NamesInOrder`: without it the property is
false (section 6). `LiveChildrenFork` says how false: for any names, two live
children of a pair mean that two retries continue one attempt. If no attempt is
continued twice, the parents of the planned retries are all different, so by
counting they are all attempts but one, and everything with a retry has settled.
`Refinement` adds `SelInv` (the selected plan is partial while it is written and
sealed while it runs) and maps each step: `BeginRetryPlan`, `SealRetryPlan` and
`MakeShard` to the ledger's actions of the same purpose, the four ways an invocation ends to `EndAttempt` (by `PendingInv`), all others to a
stutter.

**Notification ledger.** `IInv` is type correctness with `LockInv` (the holder has
read what the ledger says), `ExclusiveInv` (no two processes work on one event and
sink), `ProcInv` (where a process is shows in the row of its key) and `KeyInv`
(rows, sender and requests of a key). The core of the argument is `Reserve`: a row
other than ABSENT turns every later `notify` into a duplicate, and the row is
written under the lock after the history was read under it. Proved: `OneRequest`,
`LedgerIsTrue`, `SilenceEarned` (with `RowsMove`: a SENT row stays), `ProcessedCovers`
(with an invariant that the sinks a process has passed are decided), and
`Refinement` to `AtMostOnce`.

**Shard directory.** `ShardInv`: the directory has one owner, only it writes, and
nothing follows the manifest; no data file changes once the manifest's rows are
computed, and what a reader holds of the manifest tells a status the attempt has
had since it began to look. The second half is what makes a lock-free reading
equal to one in a single step: `FilesImplementStatus` maps the writer's end to the
settled status and the reader's files to one of the statuses it may answer. The
status may step back, from a whole manifest to none, in the step that ends the
writer and in no other.

**Bridge.** `BridgeInv` joins the lock (`LockInv`), what the files of the state root
say of one another (`RootInv`), the jobs (`JobInv`), the wake-up (`WireInv`: in one
pipe at most, only after RESERVED, counted once) and, for each place in the
controller, how far the files must be (`Place`). Every theorem of the bridge is
one of its conjuncts or follows from `RootInv` and `WireInv`; `BridgeRefinement`
maps RESERVED, the pipe and the last record to `AtMostOnce`.

**Plan.** `SlicesPartition` is the arithmetic of `plan_batch`: the slices of size
`n` over the ranks of a finite set cover it, do not meet, ascend, are none of
them empty, and are as many as the ceiling says. `PlanInv` carries it through the
race of the planners: only the one that made the directory writes it, from its
own request. `SealedIsPartition` and `SealedIsFinal` follow.

**Names of shards.** `SealedLoads` (a sealed plan loads exactly if it has fewer
than `Power[Width]` shards and every row reads back under its id) compares the order of numbers with the order of their
texts. `Digits` consists of quotients by powers, so the proof first shows that
`Power` exists and is what its definition says (`PowersUpTo`, `PowersAgree`,
`PowerIs`), by the smallest counterexample (`Least`): the well-foundedness of `<` is
a fact about sets and takes no operator as parameter. `NamesAscend` is the heart:
two numbers of at most `Width` digits differ first at the highest power at which
their quotients differ. `NamesOverflow` is the other direction: the first number
with a digit more comes before its predecessor, so a plan that has both does not
load.

**Collector.** The point of `CollectInv` is that everything a collector has read
about an ended attempt stays true, while "not ended" does not: `ReadInv` (each
success found is one, each choice is justified by the ledger now and later),
`RowsInv` (each failure the second pass is done with has its row; no chosen
original has one), `ResultInv` (the same of what is sealed). With `LedgerInv`, one
success per pair, which `BatchExecutionProofs` proves of the runner and
`AttemptLedger` promises, a sealed PASS is complete for good.

**From plan to collection.** `BatchOutcome` implements `BatchPlan` and
`CollectBatch` (`ImplementsPlan`, `ImplementsCollect`), so the theorems of both hold
of it. `PassAnswers` joins them: the shards partition the membership, so each
record lies in exactly one shard, whose pair contributes an output that answers
its shard exactly.

**Monitor.** `MonitorInv` says that the lock has one holder (`HolderInv`), that
attempts are in flight in a run only (`FlightInv`), and of a listing (`SeenInv`)
that every result counted is still the attempt's result and every base attempt is
still to be counted or has been. `TerminalFinal` and `TerminalComplete` follow, and
`FailureAlarmReal`: an alarm that rests on a failed attempt is true, so only the
count of an *incomplete* attempt can be out of date, which is the false alarm of
section 6. `MonitorsWatchTheLedger` shows that the parents of this model keep to
`AttemptLedger`, as the runner does. `ReleaseWakes` is the safety half of
`WakesOnRelease`: one monitor that sleeps has a parent holding the lock or an event
pending on its watch.

**Capture evaluation.** What makes the properties hard to prove is that the code
decides on accumulators, and the properties speak of the stream. `CaptureInv`
relates the two: `ItemsInv` (the entry of an item is its last event), `LifeInv`
(without an issue so far, the phase is the shape of the stream, and conversely),
`ExemptInv` (an exempt event is the first rejection of its call). The shape is
given by quantifiers over positions (`Shape`, `ItemsOrdered`), and each event
appended to a stream changes it in a way the rules of `_lifecycle_issues` mirror
(`ShapesGrow`, `OrderGrows`). `LifecycleExact` is then an equivalence: the one-pass
rules raise nothing exactly for one well-formed turn of a thread with an id.
`SuccessEarned` and
`OptInTwoDoors` use it and `SuccessIs`, which turns the chain of reasons into a
conjunction. `RevalidationLive` rests on the order of that chain: cancellation and
timeout come first, so a source that failed for another reason was not stopped,
and nothing that matters is forgotten (`NothingForgotten`).

**Hooks.** `IInv` says that the lock has one holder past it (`HolderInv`), that the
two contents of a receipt and of a command have the same hooks of the user
(`ReceiptInv`, `JobInv`), that what is about to be overwritten is saved, and that
the open file is what was compared unless the user edited it since (`WindowInv`).
`HooksKept` and `OverwrittenSaved` exempt an edit made behind the last comparison
of a running command (`late`), and `HooksKept` a torn file, of which
`TornRecoverable` says where its hooks are.

**Only model-checked, or not composed.**

- Liveness (`LockReleased`, `NotifyReturns`, `RevocationStops`, `ReadersConclude`,
  `WakesOnRelease`): fairness needs `ENABLED`, which the prover does not handle.
- That readers of a shard directory see one status at a time is proved, but that
  the modules which read an attempt in one step may do so rests on reading
  `AttemptStatus` as what they assume: no theorem composes `ShardFiles` with them,
  and none says what a collector or a monitor makes of a result that is taken back
  between the last byte of its manifest and the fsync.

## 6. Disagreements between the code and what it says

- **Forked retries** (`batch_forked_retry`, `batch.py:1095`). The "latest planned
  attempt" of a pair is the last by plan name, not the last created. With names
  out of order a second retry of one parent is accepted. No second success
  follows (`OneSuccess` is proved for any order), but the liveness check looks at
  the wrong attempt, and two live children of one pair are possible.
- **False alarm of the monitor** (`monitor_false_alarm`, `monitoring.py:83`). The
  attempts are counted before the owner is looked at. A run that completes in
  between is reported as `human_action_required`, and `batch monitor` exits with
  a failure although every attempt succeeded.
- **A probe that refuses a run** (`monitor_probe_refuses`, `process_guard.py:40`).
  `execution_is_locked` takes the lock to see whether it is free; a command that
  starts at that moment is refused with "another parent owns this batch".

## 7. What is not modelled, and the plan

Not modelled because there is no state a checker could get wrong with them:
schema validator, contracts, payload, profile resolution, runtime registry,
command lines, presentation, workspace paths, bridge contracts. Their verdicts
enter the models as choices. The policy compiler is text and path rules, of which
`event_violation` alone judges what an agent did and is `NotGranted` of
`CaptureEvaluation`. Within the modelled components these are left out: the
`pidfd` fallback of `wait_for_check`, the permission and context rows of hook
events, endpoint and response checks of the sinks, message framing of the App
Server, preflight and command building of the adapter, and `status_batch`, which
repeats the collector's scan without deciding anything.

Four hazards of `PROJECT.json` have no property of a run, each with its reason
there: a sink that fails while others follow (proved for any number of sinks
instead), a revocation between its check and the reservation (accepted by the
design, the turn is aborted), a directory without a manifest that uses up its id
(fail-closed), and a bridge task that is COMPLETED in its ledger without a
`completion.json`, because it was revoked or expired in between (nothing promises
the file; the ledger is right and is not acted on again).

The modules were written in the order of the promises they carry: the runner,
the notification ledger, the bridge, the shard directory; then the readers
(`CollectBatch`, `BatchMonitor`), the capture evaluation, the hook installer and
the plan with its composition; proofs in the same order. What is left:

1. The context rows of hook events (`record_context`, `context_for`): they choose
   which batch a turn belongs to, `SameRun` of `NotifyLedger`, which takes it as
   given.
2. A theorem that joins the two ledgers: the collector and the monitor composed
   with the runner itself instead of with `AttemptLedger`.
3. `wait_for_check` on systems without inotify, and several monitors with a timer.
