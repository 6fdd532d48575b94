------------------------ MODULE BridgeDeliveryProofs ------------------------
(***************************************************************************)
(* Proofs about BridgeDelivery, for any controllers, jobs and budgets: its *)
(* safety invariants, and that it implements AtMostOnce.                   *)
(***************************************************************************)
EXTENDS BridgeDelivery, TLAPS

\* controller.lock has one holder, and a process that ended remembers nothing.
LockInv ==
  \A c \in Controllers :
    /\ pc[c] # "idle" <=> lock = c
    /\ pc[c] = "idle" => ~recovering[c] /\ ~told[c] /\ reads[c] = 0
    /\ reads[c] = 1 => "RESULTS_READ" \in records

\* Before bridge start there is nothing; later the files of the state root say
\* the same of the event, its consumption and the turns that were sent.
RootInv ==
  /\ ~started =>
       /\ ~bound /\ records = {} /\ event = "absent" /\ lock = NoController
       /\ \A j \in Jobs : job[j] = "none"
       /\ \A c \in Controllers : host[c] = "none"
  /\ event # "absent" => bound
  /\ "RESERVED" \in records => event = "sealed"
  /\ records \cap {"ACKNOWLEDGED", "RESULTS_READ", "AMBIGUOUS", "COMPLETED"} # {} =>
       "RESERVED" \in records
  /\ "COMPLETED" \in records =>
       {"ACKNOWLEDGED", "RESULTS_READ"} \subseteq records /\ "AMBIGUOUS" \notin records
  /\ completion => "COMPLETED" \in records
  /\ "RESERVED" \notin records =>
       turnStarts = IF "INITIAL_TURN_INTENT" \in records THEN 1 ELSE 0

\* Launches are counted by the jobs, an event exists only for real results, and
\* no job is cancelled by a controller that was not told to.
JobInv ==
  /\ \A j \in Jobs : launches[j] = IF job[j] \in {"none", "created"} THEN 0 ELSE 1
  /\ SealedMeansFinished
  /\ \A c \in Controllers :
       pc[c] # "idle" /\ ~recovering[c] /\ ~told[c] => \A j \in Jobs : job[j] # "cancelled"

\* A wake-up is in one pipe at most, after its reservation, and counts once.
WireInv ==
  /\ \A c \in Controllers :
       /\ wire[c] # "none" => "RESERVED" \in records
       /\ wire[c] = "sent" => wakes = 0
       /\ wire[c] = "received" => wakes = 1
  /\ \A c, d \in Controllers : wire[c] # "none" /\ wire[d] # "none" => c = d
  /\ wakes <= 1
  /\ "RESERVED" \notin records => wakes = 0
  /\ "COMPLETED" \in records => wakes = 1

\* How far a controller is shows in the state root.
Place(c) ==
  /\ pc[c] # "idle" => started
  /\ pc[c] \in {"open", "binding", "bound"} /\ ~recovering[c] =>
       records = {} /\ event = "absent"
  /\ pc[c] \in {"initial", "wait", "seal"} =>
       /\ ~recovering[c] /\ records = {"INITIAL_TURN_INTENT"} /\ bound
       /\ event = "absent" \/ (pc[c] = "seal" /\ event = "manifest")
  /\ pc[c] = "bound" => bound
  /\ pc[c] = "seal" => \A j \in Jobs : job[j] \in {"success", "blocked"}
  /\ (pc[c] \in {"open", "binding", "bound"} /\ recovering[c]) \/ pc[c] = "continue" =>
       event = "sealed" /\ "RESERVED" \notin records
  /\ pc[c] \in {"reserved", "sending", "turn"} =>
       "RESERVED" \in records /\ records \cap {"AMBIGUOUS", "COMPLETED"} = {}
  /\ pc[c] = "reserved" => wakes = 0 /\ \A d \in Controllers : wire[d] = "none"
  /\ pc[c] = "sending" => wire[c] # "none"
  /\ pc[c] = "turn" => "ACKNOWLEDGED" \in records /\ wakes = 1
  /\ pc[c] \in {"again", "notifying"} => "COMPLETED" \in records
  /\ pc[c] = "closing" /\ "RESERVED" \in records =>
       records \cap {"AMBIGUOUS", "COMPLETED"} # {}

PlaceInv == \A c \in Controllers : Place(c)

BridgeInv == TypeOK /\ LockInv /\ RootInv /\ JobInv /\ WireInv /\ PlaceInv

-----------------------------------------------------------------------------
(* Types                                                                   *)

\* Every variable keeps its type.
LEMMA TypeStep == TypeOK /\ [Next]_vars => TypeOK'
<1> SUFFICES ASSUME TypeOK, [Next]_vars PROVE TypeOK'
  OBVIOUS
<1> USE DEF TypeOK, Go, Active, Starting, Waiting, Running, States, Ended,
            disk, work, local, hosts
<1>1. ASSUME NEW c \in Controllers, Start(c) \/ Recover(c) PROVE TypeOK'
  BY <1>1 DEF Start, Recover
<1>2. ASSUME NEW c \in Controllers,
             OpenHost(c) \/ BeginBinding(c) \/ Bind(c) \/ BeginRun(c) \/ BeginRecovery(c)
      PROVE  TypeOK'
  <2>1. CASE OpenHost(c)
    BY <2>1 DEF OpenHost
  <2>2. CASE BeginBinding(c)
    BY <2>2 DEF BeginBinding
  <2>3. CASE Bind(c)
    BY <2>3 DEF Bind
  <2>4. CASE BeginRun(c)
    BY <2>4 DEF BeginRun
  <2>5. CASE BeginRecovery(c)
    BY <2>5 DEF BeginRecovery
  <2> QED BY <1>2, <2>1, <2>2, <2>3, <2>4, <2>5
<1>3. ASSUME NEW c \in Controllers, StartJobs(c) \/ InitialTurnDone(c) \/ JobsDone(c)
                                    \/ SealManifest(c) \/ PutEvent(c)
      PROVE  TypeOK'
  BY <1>3 DEF StartJobs, InitialTurnDone, JobsDone, SealManifest, PutEvent
<1>4. ASSUME NEW c \in Controllers, NEW j \in Jobs, LaunchJob(c, j) \/ EndJob(c, j)
      PROVE  TypeOK'
  <2>1. CASE LaunchJob(c, j)
    BY <2>1 DEF LaunchJob
  <2>2. CASE EndJob(c, j)
    BY <2>2 DEF EndJob
  <2> QED BY <1>4, <2>1, <2>2
<1>5. ASSUME NEW c \in Controllers, Reserve(c) \/ SendWake(c) \/ Acknowledged(c)
      PROVE  TypeOK'
  <2>1. CASE Reserve(c)
    BY <2>1 DEF Reserve
  <2>2. CASE SendWake(c)
    BY <2>2 DEF SendWake
  <2>3. CASE Acknowledged(c)
    BY <2>3 DEF Acknowledged
  <2> QED BY <1>5, <2>1, <2>2, <2>3
<1>6. ASSUME NEW c \in Controllers,
             ReadResults(c) \/ Confirm(c) \/ DuplicateSuppressed(c) \/ Complete(c)
      PROVE  TypeOK'
  <2>1. CASE ReadResults(c)
    BY <2>1 DEF ReadResults
  <2>2. CASE Confirm(c)
    BY <2>2 DEF Confirm
  <2>3. CASE DuplicateSuppressed(c)
    BY <2>3 DEF DuplicateSuppressed
  <2>4. CASE Complete(c)
    BY <2>4 DEF Complete
  <2> QED BY <1>6, <2>1, <2>2, <2>3, <2>4
<1>7. ASSUME NEW c \in Controllers, Fail(c) \/ Abort(c) PROVE TypeOK'
  BY <1>7 DEF Fail, Abort, Doubt
<1>8. ASSUME NEW c \in Controllers, Signal(c) \/ WatchCancel(c) PROVE TypeOK'
  BY <1>8 DEF Signal, WatchCancel
<1>9. ASSUME NEW c \in Controllers, Close(c) \/ Crash(c) PROVE TypeOK'
  <2>1. CASE Close(c)
    BY <2>1 DEF Close, Forget
  <2>2. CASE Crash(c)
    BY <2>2 DEF Crash, Forget
  <2> QED BY <1>9, <2>1, <2>2
<1>10. ASSUME NEW c \in Controllers, HostReceives(c) \/ HostExits(c) PROVE TypeOK'
  <2>1. CASE HostReceives(c)
    BY <2>1 DEF HostReceives
  <2>2. CASE HostExits(c)
    BY <2>2 DEF HostExits
  <2> QED BY <1>10, <2>1, <2>2
<1>11. CASE RequestCancel \/ Expire \/ UNCHANGED vars
  BY <1>11 DEF RequestCancel, Expire, vars
<1> QED BY <1>1, <1>2, <1>3, <1>4, <1>5, <1>6, <1>7, <1>8, <1>9, <1>10, <1>11
        DEF Next, Operation

-----------------------------------------------------------------------------
(* One controller                                                          *)

\* While a controller runs, the others do not.
LEMMA OthersIdle ==
  ASSUME LockInv, NEW c \in Controllers, pc[c] # "idle" \/ lock = NoController
  PROVE  \A d \in Controllers \ {c} : pc[d] = "idle" /\ lock # d
BY BridgeAssumption DEF LockInv

\* Nothing is required of a controller that does not run.
LEMMA IdlePlace ==
  ASSUME NEW c \in Controllers, pc'[c] = "idle" PROVE Place(c)'
BY DEF Place

\* controller.lock is held by whoever runs, and a process that ended remembers
\* nothing.
LEMMA LockStep == TypeOK /\ LockInv /\ [Next]_vars => LockInv'
<1> SUFFICES ASSUME TypeOK, LockInv, [Next]_vars PROVE LockInv'
  OBVIOUS
<1> USE DEF TypeOK, Go, disk, work, local, hosts
<1>1. ASSUME NEW c \in Controllers, Start(c) \/ Recover(c) PROVE LockInv'
  BY <1>1, OthersIdle DEF Start, Recover, LockInv
<1>2. ASSUME NEW c \in Controllers,
             OpenHost(c) \/ BeginBinding(c) \/ Bind(c) \/ BeginRun(c) \/ BeginRecovery(c)
      PROVE  LockInv'
  BY <1>2 DEF OpenHost, BeginBinding, Bind, BeginRun, BeginRecovery, LockInv
<1>3. ASSUME NEW c \in Controllers, StartJobs(c) \/ InitialTurnDone(c) \/ JobsDone(c)
                                    \/ SealManifest(c) \/ PutEvent(c)
      PROVE  LockInv'
  BY <1>3 DEF StartJobs, InitialTurnDone, JobsDone, SealManifest, PutEvent, LockInv
<1>4. ASSUME NEW c \in Controllers, NEW j \in Jobs, LaunchJob(c, j) \/ EndJob(c, j)
      PROVE  LockInv'
  BY <1>4 DEF LaunchJob, EndJob, LockInv
<1>5. ASSUME NEW c \in Controllers, Reserve(c) \/ SendWake(c) \/ Acknowledged(c)
      PROVE  LockInv'
  BY <1>5 DEF Reserve, SendWake, Acknowledged, LockInv
<1>6. ASSUME NEW c \in Controllers,
             ReadResults(c) \/ Confirm(c) \/ DuplicateSuppressed(c) \/ Complete(c)
      PROVE  LockInv'
  BY <1>6 DEF ReadResults, Confirm, DuplicateSuppressed, Complete, LockInv
<1>7. ASSUME NEW c \in Controllers, Fail(c) \/ Abort(c) PROVE LockInv'
  BY <1>7 DEF Fail, Abort, Doubt, LockInv, Active, Starting, Waiting, Running
<1>8. ASSUME NEW c \in Controllers, Signal(c) \/ WatchCancel(c) PROVE LockInv'
  BY <1>8 DEF Signal, WatchCancel, LockInv, Starting, Waiting
<1>9. ASSUME NEW c \in Controllers, Close(c) \/ Crash(c) PROVE LockInv'
  <2>1. pc[c] # "idle" /\ lock = c /\ Forget(c) /\ UNCHANGED records
    BY <1>9 DEF Close, Crash, LockInv
  <2> QED BY <2>1, OthersIdle, BridgeAssumption DEF Forget, LockInv
<1>10. ASSUME NEW c \in Controllers, HostReceives(c) \/ HostExits(c) PROVE LockInv'
  BY <1>10 DEF HostReceives, HostExits, LockInv
<1>11. CASE RequestCancel \/ Expire \/ UNCHANGED vars
  BY <1>11 DEF RequestCancel, Expire, vars, LockInv
<1> QED BY <1>1, <1>2, <1>3, <1>4, <1>5, <1>6, <1>7, <1>8, <1>9, <1>10, <1>11
        DEF Next, Operation

-----------------------------------------------------------------------------
(* The state root                                                          *)

\* The files of the state root keep agreeing.
LEMMA RootStep == BridgeInv /\ [Next]_vars => RootInv'
<1> SUFFICES ASSUME BridgeInv, [Next]_vars PROVE RootInv'
  OBVIOUS
<1> USE DEF BridgeInv, TypeOK, RootInv, disk, work, local, hosts
<1>1. ASSUME NEW c \in Controllers, Start(c) \/ Recover(c) PROVE RootInv'
  BY <1>1 DEF Start, Recover
<1>2. ASSUME NEW c \in Controllers, OpenHost(c) PROVE RootInv'
  BY <1>2 DEF OpenHost, PlaceInv, Place
<1>3. ASSUME NEW c \in Controllers, BeginBinding(c) \/ BeginRecovery(c) PROVE RootInv'
  BY <1>3 DEF BeginBinding, BeginRecovery
<1>4. ASSUME NEW c \in Controllers, Bind(c) PROVE RootInv'
  BY <1>4 DEF Bind, PlaceInv, Place
<1>5. ASSUME NEW c \in Controllers, BeginRun(c) PROVE RootInv'
  BY <1>5 DEF BeginRun, PlaceInv, Place
<1>6. ASSUME NEW c \in Controllers, StartJobs(c) PROVE RootInv'
  BY <1>6 DEF StartJobs, PlaceInv, Place
<1>7. ASSUME NEW c \in Controllers, InitialTurnDone(c) \/ JobsDone(c) PROVE RootInv'
  BY <1>7 DEF InitialTurnDone, JobsDone
<1>8. ASSUME NEW c \in Controllers, NEW j \in Jobs, LaunchJob(c, j) \/ EndJob(c, j)
      PROVE  RootInv'
  BY <1>8 DEF LaunchJob, EndJob, PlaceInv, Place, Active, Starting, Waiting, Running
<1>9. ASSUME NEW c \in Controllers, SealManifest(c) \/ PutEvent(c) PROVE RootInv'
  BY <1>9 DEF SealManifest, PutEvent, PlaceInv, Place
<1>10. ASSUME NEW c \in Controllers, Reserve(c) PROVE RootInv'
  BY <1>10 DEF Reserve, PlaceInv, Place
<1>11. ASSUME NEW c \in Controllers, SendWake(c) PROVE RootInv'
  BY <1>11 DEF SendWake, PlaceInv, Place
<1>12. ASSUME NEW c \in Controllers, Acknowledged(c) PROVE RootInv'
  BY <1>12 DEF Acknowledged, PlaceInv, Place
<1>13. ASSUME NEW c \in Controllers, ReadResults(c) PROVE RootInv'
  BY <1>13 DEF ReadResults, PlaceInv, Place
<1>14. ASSUME NEW c \in Controllers, Confirm(c) PROVE RootInv'
  BY <1>14 DEF Confirm, PlaceInv, Place, LockInv
<1>15. ASSUME NEW c \in Controllers, DuplicateSuppressed(c) \/ Complete(c) PROVE RootInv'
  BY <1>15 DEF DuplicateSuppressed, Complete, PlaceInv, Place
<1>16. ASSUME NEW c \in Controllers, Fail(c) \/ Abort(c) PROVE RootInv'
  <2>1. /\ UNCHANGED <<started, bound, event, completion, lock, job, host, turnStarts>>
        /\ started /\ Doubt(c)
    BY <1>16 DEF Fail, Abort, PlaceInv, Place, Active, Starting, Waiting, Running
  <2> QED BY <2>1 DEF Doubt, PlaceInv, Place
<1>17. ASSUME NEW c \in Controllers, Signal(c) \/ WatchCancel(c) PROVE RootInv'
  BY <1>17 DEF Signal, WatchCancel
<1>18. ASSUME NEW c \in Controllers, Close(c) \/ Crash(c) PROVE RootInv'
  BY <1>18 DEF Close, Crash, Forget, PlaceInv, Place
<1>19. ASSUME NEW c \in Controllers, HostReceives(c) \/ HostExits(c) PROVE RootInv'
  BY <1>19 DEF HostReceives, HostExits
<1>20. CASE RequestCancel \/ Expire \/ UNCHANGED vars
  BY <1>20 DEF RequestCancel, Expire, vars
<1> QED BY <1>1, <1>2, <1>3, <1>4, <1>5, <1>6, <1>7, <1>8, <1>9, <1>10, <1>11, <1>12,
           <1>13, <1>14, <1>15, <1>16, <1>17, <1>18, <1>19, <1>20
        DEF Next, Operation

-----------------------------------------------------------------------------
(* The jobs                                                                *)

\* The jobs, the event and a controller's flag keep agreeing.
LEMMA JobStep == BridgeInv /\ [Next]_vars => JobInv'
<1> SUFFICES ASSUME BridgeInv, [Next]_vars PROVE JobInv'
  OBVIOUS
<1> USE DEF BridgeInv, TypeOK, JobInv, SealedMeansFinished, Go, disk, work, local, hosts
<1>1. ASSUME NEW c \in Controllers, Start(c) \/ Recover(c) PROVE JobInv'
  BY <1>1, OthersIdle DEF Start, Recover, RootInv
<1>2. ASSUME NEW c \in Controllers,
             \/ OpenHost(c) \/ BeginBinding(c) \/ Bind(c) \/ BeginRun(c) \/ BeginRecovery(c)
             \/ InitialTurnDone(c) \/ JobsDone(c) \/ Reserve(c) \/ SendWake(c)
             \/ Acknowledged(c) \/ ReadResults(c) \/ Confirm(c)
             \/ DuplicateSuppressed(c) \/ Complete(c)
      PROVE  JobInv'
  <2>1. /\ UNCHANGED <<job, launches, event, told, recovering>>
        /\ \A d \in Controllers : pc'[d] # "idle" => pc[d] # "idle"
    BY <1>2 DEF OpenHost, BeginBinding, Bind, BeginRun, BeginRecovery, InitialTurnDone,
                JobsDone, Reserve, SendWake, Acknowledged, ReadResults, Confirm,
                DuplicateSuppressed, Complete
  <2> QED BY <2>1
<1>3. ASSUME NEW c \in Controllers, StartJobs(c) PROVE JobInv'
  BY <1>3 DEF StartJobs, PlaceInv, Place
<1>4. ASSUME NEW c \in Controllers, NEW j \in Jobs, LaunchJob(c, j) PROVE JobInv'
  <2>1. /\ job[j] = "created" /\ job' = [job EXCEPT ![j] = "running"]
        /\ launches' = [launches EXCEPT ![j] = @ + 1]
        /\ UNCHANGED <<event, pc, told, recovering>>
    BY <1>4 DEF LaunchJob
  <2> QED BY <2>1
<1>5. ASSUME NEW c \in Controllers, NEW j \in Jobs, EndJob(c, j) PROVE JobInv'
  <2>1. PICK result \in Ended :
          (result = "cancelled") = told[c] /\ job' = [job EXCEPT ![j] = result]
    BY <1>5 DEF EndJob
  <2>2. /\ job[j] = "running" /\ pc[c] # "idle"
        /\ UNCHANGED <<event, launches, pc, told, recovering>>
    BY <1>5 DEF EndJob, Active, Starting, Waiting, Running
  <2>3. event = "absent"
    BY <2>2
  <2>4. result = "cancelled" => told[c]
    BY <2>1
  <2>5. \A d \in Controllers : pc[d] # "idle" => d = c
    BY <2>2, OthersIdle
  <2> QED BY <2>1, <2>2, <2>3, <2>4, <2>5 DEF Ended
<1>6. ASSUME NEW c \in Controllers, SealManifest(c) \/ PutEvent(c) PROVE JobInv'
  BY <1>6 DEF SealManifest, PutEvent, PlaceInv, Place
<1>7. ASSUME NEW c \in Controllers, Fail(c) \/ Abort(c) \/ Signal(c) \/ WatchCancel(c)
      PROVE  JobInv'
  <2>1. /\ UNCHANGED <<job, launches, event, recovering>>
        /\ told' = [told EXCEPT ![c] = TRUE]
        /\ \A d \in Controllers : d # c => pc'[d] = pc[d]
    BY <1>7 DEF Fail, Abort, Signal, WatchCancel
  <2> QED BY <2>1
<1>8. ASSUME NEW c \in Controllers, Close(c) \/ Crash(c) PROVE JobInv'
  <2>1. /\ UNCHANGED <<job, launches, event>> /\ pc'[c] = "idle"
        /\ \A d \in Controllers : d # c =>
             pc'[d] = pc[d] /\ told'[d] = told[d] /\ recovering'[d] = recovering[d]
    BY <1>8 DEF Close, Crash, Forget
  <2> QED BY <2>1
<1>9. ASSUME NEW c \in Controllers, HostReceives(c) \/ HostExits(c) PROVE JobInv'
  BY <1>9 DEF HostReceives, HostExits
<1>10. CASE RequestCancel \/ Expire \/ UNCHANGED vars
  BY <1>10 DEF RequestCancel, Expire, vars
<1> QED BY <1>1, <1>2, <1>3, <1>4, <1>5, <1>6, <1>7, <1>8, <1>9, <1>10
        DEF Next, Operation

-----------------------------------------------------------------------------
(* The wake-up                                                             *)

\* The request in the pipe, the ledger and the host keep agreeing.
LEMMA WireStep == BridgeInv /\ [Next]_vars => WireInv'
<1> SUFFICES ASSUME BridgeInv, [Next]_vars PROVE WireInv'
  OBVIOUS
<1> USE DEF BridgeInv, TypeOK, WireInv, disk, work, local, hosts
<1>1. ASSUME NEW c \in Controllers,
             \/ Start(c) \/ Recover(c)
             \/ OpenHost(c) \/ BeginBinding(c) \/ Bind(c) \/ BeginRecovery(c)
             \/ StartJobs(c) \/ (\E j \in Jobs : LaunchJob(c, j) \/ EndJob(c, j))
             \/ InitialTurnDone(c) \/ JobsDone(c) \/ SealManifest(c) \/ PutEvent(c)
             \/ DuplicateSuppressed(c) \/ Complete(c)
             \/ Signal(c) \/ WatchCancel(c) \/ Crash(c)
      PROVE  WireInv'
  <2>1. UNCHANGED <<records, wire, wakes>>
    BY <1>1 DEF Start, Recover, OpenHost, BeginBinding, Bind, BeginRecovery, StartJobs,
                LaunchJob, EndJob, InitialTurnDone, JobsDone, SealManifest, PutEvent,
                DuplicateSuppressed, Complete, Signal, WatchCancel, Crash
  <2> QED BY <2>1
<1>2. ASSUME NEW c \in Controllers, BeginRun(c) PROVE WireInv'
  BY <1>2 DEF BeginRun, PlaceInv, Place
<1>3. ASSUME NEW c \in Controllers, Reserve(c) PROVE WireInv'
  BY <1>3 DEF Reserve, PlaceInv, Place
<1>4. ASSUME NEW c \in Controllers, SendWake(c) PROVE WireInv'
  BY <1>4 DEF SendWake, PlaceInv, Place
<1>5. ASSUME NEW c \in Controllers, Acknowledged(c) \/ ReadResults(c) PROVE WireInv'
  BY <1>5 DEF Acknowledged, ReadResults
<1>6. ASSUME NEW c \in Controllers, Confirm(c) PROVE WireInv'
  BY <1>6 DEF Confirm, PlaceInv, Place
<1>7. ASSUME NEW c \in Controllers, Fail(c) \/ Abort(c) PROVE WireInv'
  <2>1. UNCHANGED <<wire, wakes>> /\ Doubt(c)
    BY <1>7 DEF Fail, Abort
  <2> QED BY <2>1 DEF Doubt
<1>8. ASSUME NEW c \in Controllers, Close(c) \/ HostExits(c) PROVE WireInv'
  BY <1>8 DEF Close, HostExits
<1>9. ASSUME NEW c \in Controllers, HostReceives(c) PROVE WireInv'
  BY <1>9 DEF HostReceives, RootInv
<1>10. CASE RequestCancel \/ Expire \/ UNCHANGED vars
  BY <1>10 DEF RequestCancel, Expire, vars
<1> QED BY <1>1, <1>2, <1>3, <1>4, <1>5, <1>6, <1>7, <1>8, <1>9, <1>10
        DEF Next, Operation

-----------------------------------------------------------------------------
(* The controllers                                                         *)

\* A step of the controller that runs: the others stay idle, so PlaceInv is
\* about that controller alone.
LEMMA OneMoves ==
  ASSUME BridgeInv, NEW c \in Controllers, pc[c] # "idle" \/ lock = NoController,
         \A d \in Controllers \ {c} : pc'[d] = pc[d], Place(c)'
  PROVE  PlaceInv'
BY OthersIdle, IdlePlace DEF BridgeInv, PlaceInv

\* How far a controller is keeps showing in the state root.
LEMMA PlaceStep == BridgeInv /\ [Next]_vars => PlaceInv'
<1> SUFFICES ASSUME BridgeInv, [Next]_vars PROVE PlaceInv'
  OBVIOUS
<1> USE DEF BridgeInv, TypeOK, Go, disk, work, local, hosts
<1>0. \A c \in Controllers : Place(c)
  BY DEF PlaceInv
<1>1. ASSUME NEW c \in Controllers, Start(c) PROVE PlaceInv'
  BY <1>0, <1>1, OneMoves DEF Start, Place, RootInv, LockInv
<1>2. ASSUME NEW c \in Controllers, Recover(c) PROVE PlaceInv'
  BY <1>0, <1>2, OneMoves DEF Recover, Place, Recoverable, Pending, RootInv
<1>3. ASSUME NEW c \in Controllers, OpenHost(c) PROVE PlaceInv'
  BY <1>0, <1>3, OneMoves DEF OpenHost, Place
<1>4. ASSUME NEW c \in Controllers, BeginBinding(c) PROVE PlaceInv'
  BY <1>0, <1>4, OneMoves DEF BeginBinding, Place
<1>5. ASSUME NEW c \in Controllers, Bind(c) PROVE PlaceInv'
  BY <1>0, <1>5, OneMoves DEF Bind, Place, RootInv
<1>6. ASSUME NEW c \in Controllers, BeginRun(c) PROVE PlaceInv'
  BY <1>0, <1>6, OneMoves DEF BeginRun, Place
<1>7. ASSUME NEW c \in Controllers, BeginRecovery(c) PROVE PlaceInv'
  BY <1>0, <1>7, OneMoves DEF BeginRecovery, Place, RootInv
<1>8. ASSUME NEW c \in Controllers, StartJobs(c) PROVE PlaceInv'
  BY <1>0, <1>8, OneMoves DEF StartJobs, Place, SealedMeansFinished
<1>9. ASSUME NEW c \in Controllers, InitialTurnDone(c) PROVE PlaceInv'
  BY <1>0, <1>9, OneMoves DEF InitialTurnDone, Place
<1>10. ASSUME NEW c \in Controllers, JobsDone(c) PROVE PlaceInv'
  BY <1>0, <1>10, OneMoves DEF JobsDone, Place, Guard, Ended, JobInv
<1>11. ASSUME NEW c \in Controllers, SealManifest(c) PROVE PlaceInv'
  BY <1>0, <1>11, OneMoves DEF SealManifest, Place
<1>12. ASSUME NEW c \in Controllers, PutEvent(c) PROVE PlaceInv'
  BY <1>0, <1>12, OneMoves DEF PutEvent, Place, RootInv
<1>13. ASSUME NEW c \in Controllers, Reserve(c) PROVE PlaceInv'
  BY <1>0, <1>13, OneMoves DEF Reserve, Place, RootInv, WireInv
<1>14. ASSUME NEW c \in Controllers, SendWake(c) PROVE PlaceInv'
  BY <1>0, <1>14, OneMoves DEF SendWake, Place, RootInv
<1>15. ASSUME NEW c \in Controllers, Acknowledged(c) PROVE PlaceInv'
  BY <1>0, <1>15, OneMoves DEF Acknowledged, Place, WireInv
<1>16. ASSUME NEW c \in Controllers, ReadResults(c) PROVE PlaceInv'
  BY <1>0, <1>16, OneMoves DEF ReadResults, Place
<1>17. ASSUME NEW c \in Controllers, Confirm(c) PROVE PlaceInv'
  BY <1>0, <1>17, OneMoves DEF Confirm, Place
<1>18. ASSUME NEW c \in Controllers, DuplicateSuppressed(c) PROVE PlaceInv'
  BY <1>0, <1>18, OneMoves DEF DuplicateSuppressed, Place
<1>19. ASSUME NEW c \in Controllers, Complete(c) PROVE PlaceInv'
  BY <1>0, <1>19, OneMoves DEF Complete, Place
<1>20. ASSUME NEW c \in Controllers, Fail(c) PROVE PlaceInv'
  BY <1>0, <1>20, OneMoves DEF Fail, Place, Doubt, Active, Starting, Waiting, Running
<1>21. ASSUME NEW c \in Controllers, Abort(c) PROVE PlaceInv'
  BY <1>0, <1>21, OneMoves DEF Abort, Place, Doubt, Active, Starting, Waiting, Running
<1>22. ASSUME NEW c \in Controllers, Signal(c) PROVE PlaceInv'
  BY <1>0, <1>22, OneMoves DEF Signal, Place, Starting, Waiting
<1>23. ASSUME NEW c \in Controllers, WatchCancel(c) PROVE PlaceInv'
  BY <1>0, <1>23, OneMoves DEF WatchCancel, Place, Starting, Waiting
<1>24. ASSUME NEW c \in Controllers, NEW j \in Jobs, LaunchJob(c, j) \/ EndJob(c, j)
      PROVE  PlaceInv'
  <2>1. /\ pc[c] # "idle" /\ job[j] \in {"created", "running"}
        /\ UNCHANGED <<started, bound, records, event, pc, recovering, wire, wakes>>
        /\ \A i \in Jobs \ {j} : job'[i] = job[i]
    BY <1>24 DEF LaunchJob, EndJob, Active, Starting, Waiting, Running
  <2> QED BY <1>0, <2>1, OneMoves DEF Place
<1>25. ASSUME NEW c \in Controllers, Close(c) \/ Crash(c) PROVE PlaceInv'
  <2>1. pc[c] # "idle" /\ pc'[c] = "idle" /\ \A d \in Controllers \ {c} : pc'[d] = pc[d]
    BY <1>25 DEF Close, Crash, Forget
  <2> QED BY <2>1, OneMoves, IdlePlace
<1>26. ASSUME NEW c \in Controllers, HostReceives(c) PROVE PlaceInv'
  <2>1. /\ wire[c] = "sent" /\ wire' = [wire EXCEPT ![c] = "received"] /\ wakes' = wakes + 1
        /\ UNCHANGED <<started, bound, records, event, pc, recovering, job>>
    BY <1>26 DEF HostReceives
  <2>2. wakes = 0
    BY <2>1 DEF WireInv
  <2> QED BY <1>0, <2>1, <2>2 DEF PlaceInv, Place
<1>27. ASSUME NEW c \in Controllers, HostExits(c) PROVE PlaceInv'
  BY <1>0, <1>27 DEF HostExits, PlaceInv, Place
<1>28. CASE RequestCancel \/ Expire \/ UNCHANGED vars
  BY <1>0, <1>28 DEF RequestCancel, Expire, vars, PlaceInv, Place
<1> QED BY <1>1, <1>2, <1>3, <1>4, <1>5, <1>6, <1>7, <1>8, <1>9, <1>10, <1>11, <1>12, <1>13, <1>14,
           <1>15, <1>16, <1>17, <1>18, <1>19, <1>20, <1>21, <1>22, <1>23, <1>24, <1>25, <1>26, <1>27, <1>28
        DEF Next, Operation

-----------------------------------------------------------------------------
(* The theorems                                                            *)

\* Before bridge start there is no state root and no process.
LEMMA BridgeInit == Init => BridgeInv
<1> SUFFICES ASSUME Init PROVE BridgeInv
  OBVIOUS
<1> USE DEF Init
<1>1. TypeOK
  <2>1. recovering \in [Controllers -> BOOLEAN] /\ told \in [Controllers -> BOOLEAN]
    BY Zenon
  <2>2. /\ job \in [Jobs -> Ended \cup {"none", "created", "running"}]
        /\ launches \in [Jobs -> Nat]
        /\ pc \in [Controllers -> Active \cup {"idle", "closing"}]
        /\ reads \in [Controllers -> 0..1]
        /\ host \in [Controllers -> {"none", "alive"}]
        /\ wire \in [Controllers -> {"none", "sent", "received"}]
    OBVIOUS
  <2> QED BY <2>1, <2>2 DEF TypeOK
<1>2. LockInv
  BY BridgeAssumption DEF LockInv
<1>3. RootInv
  BY DEF RootInv
<1>4. JobInv
  BY DEF JobInv, SealedMeansFinished
<1>5. WireInv
  BY DEF WireInv
<1>6. PlaceInv
  BY DEF PlaceInv, Place
<1> QED BY <1>1, <1>2, <1>3, <1>4, <1>5, <1>6 DEF BridgeInv

\* BridgeInv holds whatever is started, revoked, killed and recovered.
THEOREM BridgeInvariance == Spec => []BridgeInv
<1>1. BridgeInv /\ [Next]_vars => BridgeInv'
  BY TypeStep, LockStep, RootStep, JobStep, WireStep, PlaceStep DEF BridgeInv
<1> QED BY BridgeInit, <1>1, PTL DEF Spec

\* The state root, the processes and the hosts keep their types: a controller
\* reads the results once at most.
THEOREM BridgeTypeCorrect == Spec => []TypeOK
<1>1. BridgeInv => TypeOK
  BY DEF BridgeInv
<1> QED BY BridgeInvariance, <1>1, PTL

\* run_jobs behind dca_start_approved_jobs: no job is launched twice, whatever
\* recovers the task.
THEOREM LaunchedOnce == Spec => []JobsLaunchedOnce
<1>1. BridgeInv => JobsLaunchedOnce
  BY DEF BridgeInv, JobInv, JobsLaunchedOnce
<1> QED BY BridgeInvariance, <1>1, PTL

\* seal_event: what is sealed are the jobs' own results.
THEOREM SealedFinished == Spec => []SealedMeansFinished
<1>1. BridgeInv => SealedMeansFinished
  BY DEF BridgeInv, JobInv
<1> QED BY BridgeInvariance, <1>1, PTL

\* deliver and _continue: COMPLETED stands for one acknowledged wake-up that
\* read the results, and whoever ends without it has recorded AMBIGUOUS.
THEOREM VerdictOnce == Spec => []OneVerdict
<1>1. BridgeInv => OneVerdict
  BY DEF BridgeInv, RootInv, WireInv, PlaceInv, Place, OneVerdict
<1> QED BY BridgeInvariance, <1>1, PTL

\* supervise's recovery conditions and deliver's checks let every event in that
\* nobody reserved, whatever the budgets are.
THEOREM UnreservedRecoverable == Spec => []RecoverableUntilReserved
<1>1. BridgeInv => RecoverableUntilReserved
  <2> SUFFICES ASSUME BridgeInv, event = "sealed", "RESERVED" \notin records
               PROVE  Recoverable /\ Deliverable
    BY DEF RecoverableUntilReserved
  <2> USE DEF BridgeInv, RootInv
  <2>1. Pending /\ bound /\ "AMBIGUOUS" \notin records
    BY DEF Pending
  <2>2. turnStarts < MainTurnBudget /\ Reservations < WakeBudget
    BY BridgeAssumption DEF Reservations
  <2> QED BY <2>1, <2>2 DEF Recoverable, Deliverable
<1> QED BY BridgeInvariance, <1>1, PTL

\* supervise refuses a state root whose wake-up was reserved.
THEOREM FinalReservation == Spec => ReservationIsFinal
<1>1. BridgeInv /\ [Next]_vars =>
        ["RESERVED" \in records /\ (\A c \in Controllers : pc[c] = "idle")
           => pc' = pc]_vars
  <2> SUFFICES ASSUME BridgeInv, Next, "RESERVED" \in records,
                      \A c \in Controllers : pc[c] = "idle"
               PROVE  pc' = pc
    OBVIOUS
  <2>1. started /\ ~Recoverable
    BY DEF BridgeInv, RootInv, Recoverable, Pending
  <2>2. ASSUME NEW c \in Controllers PROVE ~Operation(c)
    BY DEF Operation, OpenHost, BeginBinding, Bind, BeginRun, BeginRecovery, StartJobs,
           InitialTurnDone, LaunchJob, EndJob, JobsDone, SealManifest, PutEvent, Reserve,
           SendWake, Acknowledged, ReadResults, Confirm, DuplicateSuppressed, Complete,
           Active, Starting, Waiting, Running
  <2> QED BY <2>1, <2>2
          DEF Next, Start, Recover, Fail, Signal, WatchCancel, Abort, Close, Crash,
              HostReceives, HostExits, RequestCancel, Expire, local, Active, Starting,
              Waiting, Running
<1> QED BY BridgeInvariance, <1>1, PTL DEF Spec, ReservationIsFinal

\* What a step means to the one event: reserved, written off, dispatched, or
\* nothing.
LEMMA StepSimulates ==
  BridgeInv /\ [Next]_vars =>
    \/ Stage = "open" /\ Stage' = "reserved" /\ wakes' = wakes
    \/ Stage # "closed" /\ Stage' = "closed" /\ wakes' = wakes
    \/ Stage = "reserved" /\ wakes = 0 /\ wakes' = 1 /\ Stage' = Stage
    \/ Stage' = Stage /\ wakes' = wakes
<1> SUFFICES ASSUME BridgeInv, [Next]_vars
             PROVE  \/ Stage = "open" /\ Stage' = "reserved" /\ wakes' = wakes
                    \/ Stage # "closed" /\ Stage' = "closed" /\ wakes' = wakes
                    \/ Stage = "reserved" /\ wakes = 0 /\ wakes' = 1 /\ Stage' = Stage
                    \/ Stage' = Stage /\ wakes' = wakes
  OBVIOUS
<1> USE DEF BridgeInv, disk, work, local, hosts, Stage
<1>1. ASSUME NEW c \in Controllers, Reserve(c)
      PROVE  Stage = "open" /\ Stage' = "reserved" /\ wakes' = wakes
  BY <1>1 DEF Reserve, PlaceInv, Place, RootInv
<1>2. ASSUME NEW c \in Controllers, Confirm(c)
      PROVE  Stage # "closed" /\ Stage' = "closed" /\ wakes' = wakes
  BY <1>2 DEF Confirm, PlaceInv, Place
<1>3. ASSUME NEW c \in Controllers, HostReceives(c)
      PROVE  Stage = "reserved" /\ wakes = 0 /\ wakes' = 1 /\ Stage' = Stage
  BY <1>3 DEF HostReceives, WireInv
<1>4. ASSUME NEW c \in Controllers,
             BeginRun(c) \/ Acknowledged(c) \/ ReadResults(c) \/ Fail(c) \/ Abort(c)
      PROVE  Stage' = Stage /\ wakes' = wakes
  BY <1>4 DEF BeginRun, Acknowledged, ReadResults, Fail, Abort, Doubt
<1>5. ASSUME NEW c \in Controllers,
             \/ Start(c) \/ Recover(c)
             \/ OpenHost(c) \/ BeginBinding(c) \/ Bind(c) \/ BeginRecovery(c)
             \/ StartJobs(c) \/ (\E j \in Jobs : LaunchJob(c, j) \/ EndJob(c, j))
             \/ InitialTurnDone(c) \/ JobsDone(c) \/ SealManifest(c) \/ PutEvent(c)
             \/ SendWake(c) \/ DuplicateSuppressed(c) \/ Complete(c)
             \/ Signal(c) \/ WatchCancel(c) \/ Close(c) \/ Crash(c) \/ HostExits(c)
      PROVE  Stage' = Stage /\ wakes' = wakes
  <2>1. UNCHANGED <<records, wakes>>
    BY <1>5 DEF Start, Recover, OpenHost, BeginBinding, Bind, BeginRecovery, StartJobs,
                LaunchJob, EndJob, InitialTurnDone, JobsDone, SealManifest, PutEvent,
                SendWake, DuplicateSuppressed, Complete, Signal, WatchCancel, Close,
                Crash, HostExits
  <2> QED BY <2>1
<1>6. CASE RequestCancel \/ Expire \/ UNCHANGED vars
  BY <1>6 DEF RequestCancel, Expire, vars
<1> QED BY <1>1, <1>2, <1>3, <1>4, <1>5, <1>6 DEF Next, Operation

\* deliver, "Reserve before sending": the main agent's wake-up is an AtMostOnce
\* delivery, for any controllers, crashes and hosts.
THEOREM BridgeRefinement == Spec => ImplementsAtMostOnce
<1>1. Init => Delivery!Init
  BY DEF Init, Delivery!Init, Stage
<1>2. BridgeInv /\ [Next]_vars =>
        [Delivery!Next]_<<[i \in {"event"} |-> Stage], [i \in {"event"} |-> wakes]>>
  BY StepSimulates
  DEF Delivery!Next, Delivery!Reserve, Delivery!Close, Delivery!Dispatch
<1> QED BY BridgeInvariance, <1>1, <1>2, PTL
        DEF Spec, ImplementsAtMostOnce, Delivery!Spec
=============================================================================
