---------------------------- MODULE BridgeDelivery ----------------------------
(***************************************************************************)
(* The main-agent bridge on one state root: supervise, Controller and      *)
(* Dispatcher of main_agent_bridge/controller.py, run_jobs and seal_event  *)
(* of jobs.py, and the EventStore of store.py.                             *)
(*                                                                         *)
(* One controller process starts the task; others may be started to        *)
(* recover it.  Each owns an App Server host over a pipe.  A controller    *)
(* can crash between any two steps; what it fsynced stays, its host may    *)
(* read what is left in the pipe before it exits.                          *)
(*                                                                         *)
(* run() seals one aggregate event per state root (completion-manifest is  *)
(* created exclusively), so consumption.jsonl is kept as the set of states *)
(* recorded for that event, and the number of turn/start sends.            *)
(***************************************************************************)
EXTENDS Integers, FiniteSets

CONSTANTS
  Controllers,     \* processes running bridge start or bridge recover
  NoController,    \* "nobody"
  Jobs,            \* jobs of the supervisor specification
  BatchJobs,       \* those of kind batch; the others are fixtures
  WakeBudget,      \* wake_budget: 1 to 3
  MainTurnBudget   \* main_turn_budget: 2 to 4

ASSUME BridgeAssumption ==
  /\ NoController \notin Controllers
  /\ BatchJobs \subseteq Jobs
  /\ WakeBudget \in 1..3
  /\ MainTurnBudget \in 2..4

VARIABLES
  started,     \* bridge start has created the state root
  lock,        \* holder of controller.lock
  cancel,      \* cancel.json exists
  expired,     \* the authorization's expiry has passed
  bound,       \* binding.json exists
  records,     \* states in consumption.jsonl
  turnStarts,  \* RPC_SEND rows with method turn/start
  job,         \* each job's result, or how far it is
  launches,    \* JOB_LAUNCH_INTENT rows of each job
  event,       \* absent, manifest (sealed artifacts only), sealed
  completion,  \* completion.json exists
  pc,          \* where each controller is
  recovering,  \* whether it runs bridge recover
  told,        \* its in-memory cancellation flag
  reads,       \* its result_reads
  host,        \* its App Server: none, alive
  wire,        \* its wake-up request: none, sent, received
  wakes        \* wake-ups the hosts have received

disk  == <<started, cancel, bound, records, turnStarts, event, completion>>
work  == <<job, launches>>
local == <<pc, recovering, told, reads>>
hosts == <<host, wire, wakes>>
vars  == <<lock, expired, disk, work, local, hosts>>

States == {"INITIAL_TURN_INTENT", "RESERVED", "ACKNOWLEDGED", "AMBIGUOUS",
           "RESULTS_READ", "COMPLETED"}
Ended  == {"success", "blocked", "cancelled"}

\* Where a controller waits in its event loop, so that its cancellation is
\* noticed, and where it runs to the next such place without yielding.
Starting == {"open", "binding"}
Waiting  == {"bound", "initial", "wait", "sending", "turn", "notifying"}
Running  == {"seal", "continue", "reserved", "again"}
Active   == Starting \cup Waiting \cup Running

TypeOK ==
  /\ started \in BOOLEAN /\ cancel \in BOOLEAN /\ expired \in BOOLEAN
  /\ bound \in BOOLEAN /\ completion \in BOOLEAN
  /\ lock \in Controllers \cup {NoController}
  /\ records \subseteq States
  /\ turnStarts \in Nat
  /\ job \in [Jobs -> Ended \cup {"none", "created", "running"}]
  /\ launches \in [Jobs -> Nat]
  /\ event \in {"absent", "manifest", "sealed"}
  /\ pc \in [Controllers -> Active \cup {"idle", "closing"}]
  /\ recovering \in [Controllers -> BOOLEAN]
  /\ told \in [Controllers -> BOOLEAN]
  /\ reads \in [Controllers -> 0..1]
  /\ host \in [Controllers -> {"none", "alive"}]
  /\ wire \in [Controllers -> {"none", "sent", "received"}]
  /\ wakes \in Nat

Init ==
  /\ started = FALSE
  /\ lock = NoController
  /\ cancel = FALSE
  /\ expired = FALSE
  /\ bound = FALSE
  /\ records = {}
  /\ turnStarts = 0
  /\ job = [j \in Jobs |-> "none"]
  /\ launches = [j \in Jobs |-> 0]
  /\ event = "absent"
  /\ completion = FALSE
  /\ pc = [c \in Controllers |-> "idle"]
  /\ recovering = [c \in Controllers |-> FALSE]
  /\ told = [c \in Controllers |-> FALSE]
  /\ reads = [c \in Controllers |-> 0]
  /\ host = [c \in Controllers |-> "none"]
  /\ wire = [c \in Controllers |-> "none"]
  /\ wakes = 0

-----------------------------------------------------------------------------
(* Checks                                                                  *)

\* check_authorization
Authorized == ~cancel /\ ~expired

\* Controller.guard
Guard(c) == Authorized /\ ~told[c]

\* Faulty form of pending: an ambiguous reservation is offered again.
PendingUnlessCompleted == event = "sealed" /\ "COMPLETED" \notin records

\* EventStore.pending: the event is stored and no row consumed it.
Pending ==
  /\ event = "sealed"
  /\ records \cap {"RESERVED", "COMPLETED", "AMBIGUOUS"} = {}

\* Faulty form of supervise's recovery checks: a started task is refused.
RecoverableIfNothingSent ==
  /\ records \cap {"RESERVED", "AMBIGUOUS", "INITIAL_TURN_INTENT"} = {}
  /\ bound
  /\ Pending

\* What supervise asks of the state root before a recovery.
Recoverable ==
  /\ ~(records \cap {"RESERVED", "AMBIGUOUS", "INITIAL_TURN_INTENT"} # {}
       /\ ~Pending)
  /\ bound
  /\ Pending

Reservations == IF "RESERVED" \in records THEN 1 ELSE 0

\* Dispatcher.deliver's checks of the ledger.
Deliverable ==
  /\ "AMBIGUOUS" \notin records
  /\ Pending
  /\ "RESERVED" \in records => "COMPLETED" \in records
  /\ Reservations < WakeBudget
  /\ turnStarts < MainTurnBudget

Go(c, to) == pc' = [pc EXCEPT ![c] = to]

-----------------------------------------------------------------------------
(* Starting and recovering                                                 *)

\* bridge start, up to CONTROLLER_STARTED: new state root, controller.lock.
Start(c) ==
  /\ pc[c] = "idle"
  /\ ~started
  /\ Authorized
  /\ lock = NoController
  /\ started' = TRUE
  /\ lock' = c
  /\ Go(c, "open")
  /\ UNCHANGED <<expired, cancel, bound, records, turnStarts, event,
                 completion, work, recovering, told, reads, hosts>>

\* bridge recover, up to CONTROLLER_STARTED.  Any codex process alive means
\* RECOVERY_HOST_OWNERSHIP_UNKNOWN.
Recover(c) ==
  /\ pc[c] = "idle"
  /\ started
  /\ Authorized
  /\ lock = NoController
  /\ Recoverable
  /\ \A d \in Controllers : host[d] = "none"
  /\ lock' = c
  /\ recovering' = [recovering EXCEPT ![c] = TRUE]
  /\ Go(c, "open")
  /\ UNCHANGED <<expired, disk, work, told, reads, hosts>>

\* bridge.open(): the App Server is spawned and initialised.
OpenHost(c) ==
  /\ pc[c] = "open"
  /\ host[c] = "none"
  /\ host' = [host EXCEPT ![c] = "alive"]
  /\ UNCHANGED <<lock, expired, disk, work, local, wire, wakes>>

\* create_thread checks the authorization, a recovery the whole guard, before
\* their requests to the host.
BeginBinding(c) ==
  /\ pc[c] = "open"
  /\ host[c] = "alive"
  /\ IF recovering[c] THEN Guard(c) ELSE Authorized
  /\ Go(c, "binding")
  /\ UNCHANGED <<lock, expired, disk, work, recovering, told, reads, hosts>>

\* thread/start and binding.json, or thread/read and thread/resume; then the
\* thread's lock, which no other root shares.
Bind(c) ==
  /\ pc[c] = "binding"
  /\ bound' = TRUE
  /\ Go(c, "bound")
  /\ UNCHANGED <<lock, expired, started, cancel, records, turnStarts, event,
                 completion, work, recovering, told, reads, hosts>>

\* run(): the initial turn is sent; a recovery goes on to _continue at once.
BeginRun(c) ==
  /\ pc[c] = "bound"
  /\ ~recovering[c]
  /\ Guard(c)
  /\ records' = records \cup {"INITIAL_TURN_INTENT"}
  /\ turnStarts' = turnStarts + 1
  /\ Go(c, "initial")
  /\ UNCHANGED <<lock, expired, started, cancel, bound, event, completion,
                 work, recovering, told, reads, hosts>>

BeginRecovery(c) ==
  /\ pc[c] = "bound"
  /\ recovering[c]
  /\ Go(c, "continue")
  /\ UNCHANGED <<lock, expired, disk, work, recovering, told, reads, hosts>>

-----------------------------------------------------------------------------
(* The initial turn and the jobs                                           *)

\* Faulty form: every call of the tool starts the jobs.
StartJobsAgain(c) ==
  /\ pc[c] = "initial"
  /\ Guard(c)
  /\ job' = [j \in Jobs |-> "created"]
  /\ UNCHANGED <<lock, expired, disk, launches, local, hosts>>

\* dca_start_approved_jobs, answered once per controller.
StartJobs(c) ==
  /\ pc[c] = "initial"
  /\ Guard(c)
  /\ \A j \in Jobs : job[j] = "none"
  /\ job' = [j \in Jobs |-> "created"]
  /\ UNCHANGED <<lock, expired, disk, launches, local, hosts>>

\* The host's turn completes; without jobs, MAIN_DID_NOT_START_JOBS (Fail).
InitialTurnDone(c) ==
  /\ pc[c] = "initial"
  /\ Guard(c)
  /\ \A j \in Jobs : job[j] # "none"
  /\ Go(c, "wait")
  /\ UNCHANGED <<lock, expired, disk, work, recovering, told, reads, hosts>>

\* one(job): the launch intent is on disk before anything runs.
LaunchJob(c, j) ==
  /\ pc[c] \in Active \cup {"closing"} /\ ~recovering[c]
  /\ job[j] = "created"
  /\ job' = [job EXCEPT ![j] = "running"]
  /\ launches' = [launches EXCEPT ![j] = @ + 1]
  /\ UNCHANGED <<lock, expired, disk, local, hosts>>

\* The result file and JOB_TERMINAL; a cancelled controller records CANCELLED
\* whatever the job did.
EndJob(c, j) ==
  /\ pc[c] \in Active \cup {"closing"} /\ ~recovering[c]
  /\ job[j] = "running"
  /\ \E result \in Ended :
       /\ (result = "cancelled") = told[c]
       /\ job' = [job EXCEPT ![j] = result]
  /\ UNCHANGED <<lock, expired, disk, launches, local, hosts>>

\* Faulty form: the guard after the wait is missing.
JobsDoneUnguarded(c) ==
  /\ pc[c] = "wait"
  /\ \A j \in Jobs : job[j] \in Ended
  /\ Go(c, "seal")
  /\ UNCHANGED <<lock, expired, disk, work, recovering, told, reads, hosts>>

\* _wait_jobs returns the files once every job has ended.
JobsDone(c) ==
  /\ pc[c] = "wait"
  /\ Guard(c)
  /\ \A j \in Jobs : job[j] \in Ended
  /\ Go(c, "seal")
  /\ UNCHANGED <<lock, expired, disk, work, recovering, told, reads, hosts>>

\* seal_event: the manifest first, then the signed event.
SealManifest(c) ==
  /\ pc[c] = "seal"
  /\ event = "absent"
  /\ event' = "manifest"
  /\ UNCHANGED <<lock, expired, started, cancel, bound, records, turnStarts,
                 completion, work, local, hosts>>

PutEvent(c) ==
  /\ pc[c] = "seal"
  /\ event = "manifest"
  /\ event' = "sealed"
  /\ Go(c, "continue")
  /\ UNCHANGED <<lock, expired, started, cancel, bound, records, turnStarts,
                 completion, work, recovering, told, reads, hosts>>

-----------------------------------------------------------------------------
(* Waking the main agent                                                   *)

\* Faulty form: the reservation is left to the acknowledgement.
ReserveNothing(c) ==
  /\ pc[c] = "continue"
  /\ Guard(c)
  /\ Deliverable
  /\ Go(c, "reserved")
  /\ UNCHANGED <<lock, expired, disk, work, recovering, told, reads, hosts>>

\* deliver(): every check, then RESERVED.
Reserve(c) ==
  /\ pc[c] = "continue"
  /\ Guard(c)
  /\ Deliverable
  /\ records' = records \cup {"RESERVED"}
  /\ Go(c, "reserved")
  /\ UNCHANGED <<lock, expired, started, cancel, bound, turnStarts, event,
                 completion, work, recovering, told, reads, hosts>>

\* bridge.request: RPC_SEND, then turn/start goes into the host's pipe.
SendWake(c) ==
  /\ pc[c] = "reserved"
  /\ turnStarts' = turnStarts + 1
  /\ wire' = [wire EXCEPT ![c] = "sent"]
  /\ Go(c, "sending")
  /\ UNCHANGED <<lock, expired, started, cancel, bound, records, event,
                 completion, work, recovering, told, reads, host, wakes>>

Acknowledged(c) ==
  /\ pc[c] = "sending"
  /\ wire[c] = "received"
  /\ records' = records \cup {"ACKNOWLEDGED"}
  /\ Go(c, "turn")
  /\ UNCHANGED <<lock, expired, started, cancel, bound, turnStarts, event,
                 completion, work, recovering, told, reads, hosts>>

\* Faulty form: every call of the tool is answered.
ReadResultsAgain(c) ==
  /\ pc[c] = "turn"
  /\ Guard(c)
  /\ reads' = [reads EXCEPT ![c] = @ + 1]
  /\ records' = records \cup {"RESULTS_READ"}
  /\ UNCHANGED <<lock, expired, started, cancel, bound, turnStarts, event,
                 completion, work, pc, recovering, told, hosts>>

\* dca_read_verified_results, answered once per controller.
ReadResults(c) ==
  /\ pc[c] = "turn"
  /\ Guard(c)
  /\ reads[c] = 0
  /\ reads' = [reads EXCEPT ![c] = @ + 1]
  /\ records' = records \cup {"RESULTS_READ"}
  /\ UNCHANGED <<lock, expired, started, cancel, bound, turnStarts, event,
                 completion, work, pc, recovering, told, hosts>>

\* Faulty form: the confirmation is taken without its reading.
ConfirmUnread(c) ==
  /\ pc[c] = "turn"
  /\ Guard(c)
  /\ records' = records \cup {"COMPLETED"}
  /\ Go(c, IF recovering[c] THEN "closing" ELSE "again")
  /\ UNCHANGED <<lock, expired, started, cancel, bound, turnStarts, event,
                 completion, work, recovering, told, reads, hosts>>

\* The turn completes with a valid confirmation of results it has read.
Confirm(c) ==
  /\ pc[c] = "turn"
  /\ Guard(c)
  /\ reads[c] = 1
  /\ records' = records \cup {"COMPLETED"}
  /\ Go(c, IF recovering[c] THEN "closing" ELSE "again")
  /\ UNCHANGED <<lock, expired, started, cancel, bound, turnStarts, event,
                 completion, work, recovering, told, reads, hosts>>

\* run() puts the event and calls deliver a second time: nothing is pending.
DuplicateSuppressed(c) ==
  /\ pc[c] = "again"
  /\ Authorized
  /\ ~Pending
  /\ Go(c, "notifying")
  /\ UNCHANGED <<lock, expired, disk, work, recovering, told, reads, hosts>>

\* The notification task has ended; completion.json is written.
Complete(c) ==
  /\ pc[c] = "notifying"
  /\ completion' = TRUE
  /\ Go(c, "closing")
  /\ UNCHANGED <<lock, expired, started, cancel, bound, records, turnStarts,
                 event, work, recovering, told, reads, hosts>>

-----------------------------------------------------------------------------
(* Failure, cancellation and the end                                       *)

\* The reservation a failing controller leaves behind is AMBIGUOUS.
Doubt(c) ==
  records' = IF pc[c] \in {"reserved", "sending", "turn"}
             THEN records \cup {"AMBIGUOUS"} ELSE records

\* An exception of the operation: a failed check, a timeout, a refused or
\* unanswered request, a foreign message, a permission request.
Fail(c) ==
  /\ pc[c] \in Active
  /\ Doubt(c)
  /\ told' = [told EXCEPT ![c] = TRUE]
  /\ Go(c, "closing")
  /\ UNCHANGED <<lock, expired, started, cancel, bound, turnStarts, event,
                 completion, work, recovering, reads, hosts>>

\* bridge cancel, from any other process.
RequestCancel ==
  /\ started
  /\ ~cancel
  /\ cancel' = TRUE
  /\ UNCHANGED <<lock, expired, started, bound, records, turnStarts, event,
                 completion, work, local, hosts>>

\* SIGTERM, SIGINT or SIGHUP: Controller.cancel.
Signal(c) ==
  /\ pc[c] \in Starting \cup Waiting
  /\ ~told[c]
  /\ told' = [told EXCEPT ![c] = TRUE]
  /\ cancel' = TRUE
  /\ UNCHANGED <<lock, expired, started, bound, records, turnStarts, event,
                 completion, work, pc, recovering, reads, hosts>>

\* watch_cancel looks for cancel.json after it has set up its watch.
WatchCancel(c) ==
  /\ pc[c] \in Starting \cup Waiting
  /\ cancel
  /\ ~told[c]
  /\ told' = [told EXCEPT ![c] = TRUE]
  /\ UNCHANGED <<lock, expired, disk, work, pc, recovering, reads, hosts>>

\* Faulty form: asyncio.wait without a timeout.
AbortIgnoringExpiry(c) ==
  /\ pc[c] \in Waiting
  /\ told[c]
  /\ Doubt(c)
  /\ cancel' = TRUE
  /\ told' = [told EXCEPT ![c] = TRUE]
  /\ Go(c, "closing")
  /\ UNCHANGED <<lock, expired, started, bound, turnStarts, event, completion,
                 work, recovering, reads, hosts>>

\* supervise's asyncio.wait ends with the flag or at the expiry: the
\* operation is cancelled wherever it awaits.
Abort(c) ==
  /\ pc[c] \in Waiting
  /\ told[c] \/ expired
  /\ Doubt(c)
  /\ cancel' = TRUE
  /\ told' = [told EXCEPT ![c] = TRUE]
  /\ Go(c, "closing")
  /\ UNCHANGED <<lock, expired, started, bound, turnStarts, event, completion,
                 work, recovering, reads, hosts>>

Forget(c) ==
  /\ Go(c, "idle")
  /\ lock' = IF lock = c THEN NoController ELSE lock
  /\ recovering' = [recovering EXCEPT ![c] = FALSE]
  /\ told' = [told EXCEPT ![c] = FALSE]
  /\ reads' = [reads EXCEPT ![c] = 0]

\* The finally block: fixtures are cancelled, batch workers awaited, the host
\* closed or killed.
Close(c) ==
  /\ pc[c] = "closing"
  /\ BatchJobs = {} \/ recovering[c] \/ \A j \in Jobs : job[j] \in Ended \cup {"none"}
  /\ Forget(c)
  /\ host' = [host EXCEPT ![c] = "none"]
  /\ wire' = [wire EXCEPT ![c] = "none"]
  /\ UNCHANGED <<expired, disk, work, wakes>>

-----------------------------------------------------------------------------
(* The environment                                                         *)

\* SIGKILL or power: jobs, flags and locks go with the process.
Crash(c) ==
  /\ pc[c] # "idle"
  /\ Forget(c)
  /\ UNCHANGED <<expired, disk, work, hosts>>

\* The host takes the wake-up from its pipe, its controller alive or not.
HostReceives(c) ==
  /\ host[c] = "alive"
  /\ wire[c] = "sent"
  /\ wire' = [wire EXCEPT ![c] = "received"]
  /\ wakes' = wakes + 1
  /\ UNCHANGED <<lock, expired, disk, work, local, host>>

\* A host without a controller reads the end of its input and exits.
HostExits(c) ==
  /\ host[c] = "alive"
  /\ pc[c] = "idle"
  /\ host' = [host EXCEPT ![c] = "none"]
  /\ wire' = [wire EXCEPT ![c] = "none"]
  /\ UNCHANGED <<lock, expired, disk, work, local, wakes>>

Expire ==
  /\ ~expired
  /\ expired' = TRUE
  /\ UNCHANGED <<lock, disk, work, local, hosts>>

-----------------------------------------------------------------------------
Operation(c) ==
  \/ OpenHost(c)
  \/ BeginBinding(c)
  \/ Bind(c)
  \/ BeginRun(c)
  \/ BeginRecovery(c)
  \/ StartJobs(c)
  \/ InitialTurnDone(c)
  \/ \E j \in Jobs : LaunchJob(c, j) \/ EndJob(c, j)
  \/ JobsDone(c)
  \/ SealManifest(c)
  \/ PutEvent(c)
  \/ Reserve(c)
  \/ SendWake(c)
  \/ Acknowledged(c)
  \/ ReadResults(c)
  \/ Confirm(c)
  \/ DuplicateSuppressed(c)
  \/ Complete(c)

Next ==
  \/ \E c \in Controllers :
       \/ Start(c) \/ Recover(c) \/ Operation(c)
       \/ Fail(c) \/ Signal(c) \/ WatchCancel(c) \/ Abort(c) \/ Close(c)
       \/ Crash(c) \/ HostReceives(c) \/ HostExits(c)
  \/ RequestCancel
  \/ Expire

Spec == Init /\ [][Next]_vars

\* Code that does not yield, and requests with a 45-second limit, come to an
\* end; the watcher, the abort and the finally block run once they can; jobs
\* that were told to stop stop.  Nobody owes an answer of the host, the end of
\* a job that was left alone, a cancellation, a crash or the expiry.
Fairness ==
  \A c \in Controllers :
    /\ WF_vars(pc[c] \in Starting \cup Running /\ (Operation(c) \/ Fail(c)))
    /\ WF_vars(WatchCancel(c))
    /\ WF_vars(Abort(c))
    /\ WF_vars(told[c] /\ \E j \in Jobs : LaunchJob(c, j) \/ EndJob(c, j))
    /\ WF_vars(Close(c))

FairSpec == Spec /\ Fairness

-----------------------------------------------------------------------------
(* What the bridge promises                                                *)

\* The event, as AtMostOnce sees it.  An AMBIGUOUS one stays reserved: its
\* request may still be in the pipe.
Stage ==
  IF "COMPLETED" \in records THEN "closed"
  ELSE IF "RESERVED" \in records THEN "reserved" ELSE "open"

Delivery == INSTANCE AtMostOnce WITH
  Items <- {"event"},
  stage <- [i \in {"event"} |-> Stage],
  sent  <- [i \in {"event"} |-> wakes]

\* The main agent is woken at most once for the event, and only after its
\* reservation, across crashes, recoveries, cancellations and hosts that read
\* their pipe late (deliver, "Reserve before sending").
ImplementsAtMostOnce == Delivery!Spec

\* A job is launched at most once, whoever recovers the task ("it does not
\* rerun external jobs").
JobsLaunchedOnce == \A j \in Jobs : launches[j] <= 1

\* An event is sealed only from jobs that all came to their own end: a result
\* overwritten by a cancellation never reaches the main agent.
SealedMeansFinished ==
  event # "absent" => \A j \in Jobs : job[j] \in {"success", "blocked"}

\* A reservation gets one verdict: COMPLETED, and completion.json after it,
\* stand for one acknowledged wake-up whose turn read the results and are never
\* mixed with AMBIGUOUS; and a controller that ends, on the answer, its time
\* limit, a cancellation or any failure (deliver and _continue), leaves one.
OneVerdict ==
  /\ "COMPLETED" \in records =>
       /\ {"RESERVED", "ACKNOWLEDGED", "RESULTS_READ"} \subseteq records
       /\ "AMBIGUOUS" \notin records
       /\ wakes = 1
  /\ completion => "COMPLETED" \in records
  /\ \A c \in Controllers :
       pc[c] = "closing" /\ "RESERVED" \in records =>
         records \cap {"COMPLETED", "AMBIGUOUS"} # {}

\* A sealed event nobody reserved is not lost: a recovery is let in and its
\* delivery passes every check of the ledger, budgets included.
RecoverableUntilReserved ==
  event = "sealed" /\ "RESERVED" \notin records => Recoverable /\ Deliverable

\* Once the wake-up was reserved and its controller is gone, delivered or not,
\* no controller runs on this state root again: a human decides.
ReservationIsFinal ==
  [][ "RESERVED" \in records /\ (\A c \in Controllers : pc[c] = "idle")
        => pc' = pc ]_vars

\* A revoked or expired authorization ends the controller, whatever it waits
\* for and however late the jobs are.
RevocationStops ==
  \A c \in Controllers :
    (cancel \/ expired) /\ pc[c] # "idle" ~> pc[c] = "idle"
=============================================================================
