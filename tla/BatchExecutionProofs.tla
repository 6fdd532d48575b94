------------------------ MODULE BatchExecutionProofs ------------------------
(***************************************************************************)
(* Proofs about BatchExecution, for any parents, profiles, shards, number  *)
(* of retry plans and workers.                                             *)
(***************************************************************************)
EXTENDS BatchExecution, FiniteSetTheorems, TLAPS

Idle(a)    == owner[a] = NoParent
Settled(a) == Idle(a) /\ child[a] # "alive" /\ shard[a] # "PLANNED"

\* Whoever is past the lock holds it.
LockInv == \A p \in Parents : phase[p] # "idle" => lock = p

\* A run's queue holds never-started attempts of the selected plan.
QueueInv ==
  \A p \in Parents :
    /\ phase[p] # "run" => todo[p] = {}
    /\ \A a \in todo[p] :
         a[2] = sel[p] /\ Planned(a[1], a[2]) /\ shard[a] = "PLANNED"

\* An attempt being invoked belongs to the selected plan of a run.
OwnerInv ==
  \A p \in Parents, a \in Attempts :
    owner[a] = p =>
      phase[p] = "run" /\ a[2] = sel[p] /\ shard[a] = "RUNNING_OR_INCOMPLETE"

\* What the disk and the process table say of one attempt fits together.
AttemptInv ==
  \A a \in Attempts :
    /\ ~Planned(a[1], a[2]) => shard[a] = "PLANNED"
    /\ shard[a] = "PLANNED" => marker[a] = "none" /\ child[a] = "none"
    /\ child[a] = "alive" =>
         marker[a] # "none" /\ shard[a] = "RUNNING_OR_INCOMPLETE"

\* An absent retry plan has no entries; a planned retry continues an attempt
\* that was started, did not succeed and has settled, of a pair whose base
\* attempt was started.
PlanInv ==
  \A k \in Keys, r \in Retries :
    /\ plan[r] = "absent" => ~Planned(k, r)
    /\ Planned(k, r) =>
         /\ shard[<<k, Base>>] # "PLANNED"
         /\ shard[<<k, parentOf[<<k, r>>]>>] \in Eligible
         /\ Settled(<<k, parentOf[<<k, r>>]>>)
         /\ shard[<<k, parentOf[<<k, r>>]>>] = "RUNNING_OR_INCOMPLETE" =>
              marker[<<k, parentOf[<<k, r>>]>>] # "intent"

\* While an attempt waits or is invoked, no attempt of its pair has succeeded.
PendingInv ==
  \A p \in Parents, a \in Attempts :
    a \in todo[p] \/ owner[a] = p =>
      \A r \in Plans : shard[<<a[1], r>>] # "SUCCESS"

\* With names in order, everything planned before a retry has settled.
OrderInv ==
  NamesInOrder =>
    \A k \in Keys, q \in Plans, r \in Retries :
      q < r /\ Planned(k, q) /\ Planned(k, r) => Settled(<<k, q>>)

\* Rows of a running ledger and of the published ones tell the truth.
LedgerInv ==
  /\ \A p \in Parents, a \in Attempts :
       phase[p] = "run" =>
         /\ rows[p][a] \in {NoRow, "PLANNED"} \/ rows[p][a] = shard[a]
         /\ rows[p][a] = "RUNNING_OR_INCOMPLETE" => Idle(a)
  /\ \A a \in Attempts :
       "RUNNING_OR_INCOMPLETE" \in reported[a] => Idle(a)
  /\ ReportedStable

IInv ==
  /\ TypeOK
  /\ LockInv
  /\ QueueInv
  /\ OwnerInv
  /\ AttemptInv
  /\ PlanInv
  /\ PendingInv
  /\ OrderInv
  /\ AtMostOneSuccess
  /\ LedgerInv

-----------------------------------------------------------------------------
(* Types                                                                   *)

\* An attempt is its key and its plan; retry plans are plans.
LEMMA AttemptParts ==
  /\ \A k \in Keys, r \in Plans : <<k, r>> \in Attempts
  /\ \A a \in Attempts : a[1] \in Keys /\ a[2] \in Plans /\ a = <<a[1], a[2]>>
  /\ \A k, r : <<k, r>>[1] = k /\ <<k, r>>[2] = r
  /\ Retries \subseteq Plans
  /\ Base \in Plans
  /\ \A r \in Plans : r = Base \/ r \in Retries
  /\ NoEntry \notin Plans
BY BatchAssumption DEF Attempts, Plans, Retries, Base, NoEntry

\* The parent a planned retry names is an attempt of the same pair.
LEMMA ParentIsAttempt ==
  ASSUME TypeOK, NEW k \in Keys, NEW r \in Retries, Planned(k, r)
  PROVE  /\ parentOf[<<k, r>>] \in Plans
         /\ <<k, parentOf[<<k, r>>]>> \in Attempts
         /\ <<k, Base>> \in Attempts
<1>1. r # Base
  BY DEF Retries, Base
<1> QED BY <1>1, AttemptParts DEF TypeOK, Planned

\* Every variable keeps its type.
LEMMA TypeInvariant == TypeOK /\ [Next]_vars => TypeOK'
<1> SUFFICES ASSUME TypeOK, [Next]_vars PROVE TypeOK'
  OBVIOUS
<1> USE AttemptParts DEF TypeOK
<1>1. ASSUME NEW p \in Parents, Acquire(p) PROVE TypeOK'
  BY <1>1 DEF Acquire, disk
<1>2. ASSUME NEW p \in Parents, Refuse(p) PROVE TypeOK'
  BY <1>2 DEF Refuse, Release, disk
<1>3. ASSUME NEW p \in Parents, NEW r \in Retries,
             NEW par \in [Keys -> Plans \cup {NoEntry}], BeginRetryPlan(p, r, par)
      PROVE TypeOK'
  BY <1>3 DEF BeginRetryPlan
<1>4. ASSUME NEW p \in Parents, SealRetryPlan(p) PROVE TypeOK'
  BY <1>4 DEF SealRetryPlan, Release
<1>5. ASSUME NEW p \in Parents, NEW r \in Plans, BeginRun(p, r) PROVE TypeOK'
  <2>1. Runnable(r) \subseteq Attempts
    BY DEF Runnable, Selected
  <2> QED BY <1>5, <2>1 DEF BeginRun, disk
<1>6. ASSUME NEW p \in Parents, Cancel(p) PROVE TypeOK'
  BY <1>6 DEF Cancel, disk
<1>7. ASSUME NEW p \in Parents, NEW a \in Attempts, Invoke(p, a) PROVE TypeOK'
  <2>1. CASE MakeShard(p, a)
    BY <2>1 DEF MakeShard, Status
  <2>2. CASE PrelaunchFailure(p, a)
    BY <2>2 DEF PrelaunchFailure, Finish, Status, Terminal
  <2>3. CASE RecordIntent(p, a)
    BY <2>3 DEF RecordIntent, local
  <2>4. CASE Popen(p, a)
    BY <2>4 DEF Popen, local, disk
  <2>5. CASE RecordStarted(p, a)
    BY <2>5 DEF RecordStarted, local
  <2>6. CASE RecordFails(p, a)
    BY <2>6 DEF RecordFails, Finish, Status, Terminal
  <2>7. CASE Terminate(p, a)
    BY <2>7 DEF Terminate, Finish, Status, Terminal
  <2>8. ASSUME NEW status \in Terminal, WriteResult(p, a, status) PROVE TypeOK'
    BY <2>8 DEF WriteResult, Finish, Status
  <2>9. CASE Raise(p, a)
    BY <2>9 DEF Raise, disk
  <2> QED BY <1>7, <2>1, <2>2, <2>3, <2>4, <2>5, <2>6, <2>7, <2>8, <2>9 DEF Invoke
<1>8. ASSUME NEW p \in Parents, EndRun(p) PROVE TypeOK'
  <2>1. \A a \in Attempts : Published(p, a) \subseteq Status \ {"PLANNED"}
    BY DEF Published, NoRow
  <2> QED BY <1>8, <2>1 DEF EndRun, Release, disk
<1>9. ASSUME NEW p \in Parents, Crash(p) PROVE TypeOK'
  BY <1>9 DEF Crash, Release, disk
<1>10. ASSUME NEW a \in Attempts, ChildExit(a) PROVE TypeOK'
  BY <1>10 DEF ChildExit, disk, local
<1>11. CASE UNCHANGED vars
  BY <1>11 DEF vars, disk, local
<1> QED
  BY <1>1, <1>2, <1>3, <1>4, <1>5, <1>6, <1>7, <1>8, <1>9, <1>10, <1>11
     DEF Next, Work

-----------------------------------------------------------------------------
(* The inductive invariant                                                 *)

\* Initially nothing is planned, queued, invoked or reported.
LEMMA InitInvariant == Init => IInv
<1> SUFFICES ASSUME Init PROVE IInv
  OBVIOUS
<1> USE AttemptParts, BatchAssumption DEF Init
<1>1. TypeOK
  BY DEF TypeOK, Status
<1>2. LockInv /\ QueueInv /\ OwnerInv /\ PendingInv /\ LedgerInv /\ AtMostOneSuccess
  BY DEF LockInv, QueueInv, OwnerInv, PendingInv, LedgerInv, AtMostOneSuccess,
         ReportedStable
<1>3. AttemptInv /\ PlanInv /\ OrderInv
  BY DEF AttemptInv, PlanInv, OrderInv, Planned, Retries, Base
<1> QED BY <1>1, <1>2, <1>3 DEF IInv

\* A parent past the lock is the only one, so it alone queues or invokes.
LEMMA OnlyOwner ==
  ASSUME IInv, NEW p \in Parents, phase[p] # "idle"
  PROVE  /\ \A q \in Parents \ {p} : phase[q] = "idle" /\ todo[q] = {}
         /\ \A a \in Attempts : owner[a] \in {p, NoParent}
         /\ phase[p] # "run" => \A a \in Attempts : Idle(a)
BY BatchAssumption DEF IInv, TypeOK, LockInv, QueueInv, OwnerInv, Idle

\* Actions that change neither the disk nor who invokes what.
LEMMA LockSteps ==
  ASSUME IInv, NEW p \in Parents, Acquire(p) \/ Refuse(p) \/ Cancel(p)
  PROVE  IInv'
<1>1. TypeOK'
  BY TypeInvariant DEF IInv, Next, Work
<1>2. UNCHANGED <<disk, child, owner, reported>>
  BY DEF Acquire, Refuse, Cancel
<1>3. LockInv'
  BY OnlyOwner, BatchAssumption
     DEF IInv, TypeOK, LockInv, Acquire, Refuse, Cancel, Release
<1>4. QueueInv'
  BY <1>2, AttemptParts
     DEF IInv, TypeOK, QueueInv, Acquire, Refuse, Cancel, Release, Planned, disk
<1>5. OwnerInv'
  BY <1>2, OnlyOwner, BatchAssumption
     DEF IInv, TypeOK, OwnerInv, Acquire, Refuse, Cancel, Release, disk
<1>6. PendingInv'
  BY <1>2 DEF IInv, TypeOK, PendingInv, Acquire, Refuse, Cancel, Release, disk
<1>7. LedgerInv'
  <2>1. \A q \in Parents : phase'[q] = "run" => phase[q] = "run" /\ rows'[q] = rows[q]
    BY DEF IInv, TypeOK, Acquire, Refuse, Cancel, Release
  <2> QED BY <1>2, <2>1 DEF IInv, LedgerInv, ReportedStable, Idle, disk
<1>8. AttemptInv' /\ PlanInv' /\ OrderInv' /\ AtMostOneSuccess'
  BY <1>2 DEF IInv, AttemptInv, PlanInv, OrderInv, AtMostOneSuccess, Planned,
              Settled, Idle, disk
<1> QED BY <1>1, <1>3, <1>4, <1>5, <1>6, <1>7, <1>8 DEF IInv

\* A marker or a child of an attempt being invoked moves on, or a child exits.
LEMMA ProcessSteps ==
  ASSUME IInv, TypeOK', NEW a \in Attempts,
         \/ \E p \in Parents : \/ RecordIntent(p, a)
                               \/ Popen(p, a)
                               \/ RecordStarted(p, a)
         \/ ChildExit(a)
  PROVE  IInv'
<1>1. UNCHANGED <<lock, plan, parentOf, shard, local, owner, reported>>
  BY DEF RecordIntent, Popen, RecordStarted, ChildExit, disk
<1>2. /\ \A b \in Attempts \ {a} : marker'[b] = marker[b] /\ child'[b] = child[b]
      /\ ChildExit(a) => marker' = marker /\ child'[a] # "alive"
  BY DEF IInv, TypeOK, RecordIntent, Popen, RecordStarted, ChildExit, disk
<1>3. \/ ChildExit(a)
      \/ ~Idle(a) /\ shard[a] = "RUNNING_OR_INCOMPLETE"
  BY BatchAssumption DEF IInv, OwnerInv, RecordIntent, Popen, RecordStarted, Idle
<1>4. LockInv' /\ QueueInv' /\ OwnerInv' /\ PendingInv' /\ AtMostOneSuccess'
  BY <1>1 DEF IInv, LockInv, QueueInv, OwnerInv, PendingInv, AtMostOneSuccess,
              Planned, local
<1>5. LedgerInv'
  BY <1>1 DEF IInv, LedgerInv, ReportedStable, Idle, local
<1>6. AttemptInv'
  <2> SUFFICES ASSUME NEW b \in Attempts
               PROVE  /\ ~Planned(b[1], b[2])' => shard'[b] = "PLANNED"
                      /\ shard'[b] = "PLANNED" => marker'[b] = "none" /\ child'[b] = "none"
                      /\ child'[b] = "alive" => /\ marker'[b] # "none"
                                                /\ shard'[b] = "RUNNING_OR_INCOMPLETE"
    BY DEF AttemptInv
  <2> QED BY <1>1, <1>3
    DEF IInv, TypeOK, AttemptInv, Planned, RecordIntent, Popen, RecordStarted,
        ChildExit, disk
<1>7. \A b \in Attempts : Settled(b) => Settled(b)' /\ (marker'[b] = marker[b])
  BY <1>1, <1>2, <1>3 DEF Settled, Idle
<1>8. PlanInv'
  BY <1>1, <1>7, ParentIsAttempt DEF IInv, PlanInv, Planned
<1>9. OrderInv'
  BY <1>1, <1>7, AttemptParts DEF IInv, OrderInv, Planned
<1> QED BY <1>4, <1>5, <1>6, <1>8, <1>9 DEF IInv

\* An attempt is claimed: its directory is made.
LEMMA MakeShardStep ==
  ASSUME IInv, TypeOK', NEW p \in Parents, NEW a \in Attempts, MakeShard(p, a)
  PROVE  IInv'
<1>1. a \in todo[p] /\ phase[p] = "run" /\ shard[a] = "PLANNED"
  BY DEF MakeShard, IsNext
<1>2. Idle(a) /\ reported[a] = {}
  BY <1>1, BatchAssumption
     DEF IInv, TypeOK, OwnerInv, LedgerInv, ReportedStable, Idle, Status
<1>3. LockInv' /\ OwnerInv'
  BY <1>1, BatchAssumption DEF IInv, TypeOK, LockInv, OwnerInv, QueueInv, MakeShard
<1>4. QueueInv'
  BY <1>1, OnlyOwner DEF IInv, TypeOK, QueueInv, MakeShard, Planned
<1>5. PendingInv' /\ AtMostOneSuccess'
  BY <1>1, AttemptParts, BatchAssumption
     DEF IInv, TypeOK, PendingInv, AtMostOneSuccess, MakeShard
<1>6. AttemptInv'
  <2>1. \A k, r : Planned(k, r)' <=> Planned(k, r)
    BY DEF MakeShard, Planned
  <2>2. Planned(a[1], a[2]) /\ child[a] = "none"
    BY <1>1 DEF IInv, QueueInv, AttemptInv
  <2> QED BY <2>1, <2>2 DEF IInv, TypeOK, AttemptInv, MakeShard
<1>7. \A b \in Attempts : shard[b] # "PLANNED" => b # a /\ shard'[b] = shard[b]
                                                  /\ owner'[b] = owner[b]
  BY <1>1 DEF IInv, TypeOK, MakeShard
<1>8. PlanInv'
  <2> SUFFICES ASSUME NEW k \in Keys, NEW r \in Retries, Planned(k, r)
               PROVE  /\ shard'[<<k, Base>>] # "PLANNED"
                      /\ shard'[<<k, parentOf[<<k, r>>]>>] \in Eligible
                      /\ Settled(<<k, parentOf[<<k, r>>]>>)'
                      /\ shard'[<<k, parentOf[<<k, r>>]>>] = "RUNNING_OR_INCOMPLETE" =>
                           marker[<<k, parentOf[<<k, r>>]>>] # "intent"
    BY DEF IInv, PlanInv, MakeShard, Planned
  <2>1. <<k, Base>> \in Attempts /\ <<k, parentOf[<<k, r>>]>> \in Attempts
    BY ParentIsAttempt DEF IInv
  <2> QED BY <1>7, <2>1 DEF IInv, PlanInv, Settled, Idle, MakeShard, Eligible
<1>9. OrderInv'
  BY <1>7, AttemptParts DEF IInv, OrderInv, Planned, Settled, Idle, MakeShard
<1>10. LedgerInv'
  <2> SUFFICES ASSUME NEW b \in Attempts
               PROVE  /\ \A q \in Parents :
                           phase'[q] = "run" =>
                             /\ rows'[q][b] \in {NoRow, "PLANNED"} \/ rows'[q][b] = shard'[b]
                             /\ rows'[q][b] = "RUNNING_OR_INCOMPLETE" => Idle(b)'
                      /\ "RUNNING_OR_INCOMPLETE" \in reported'[b] => Idle(b)'
                      /\ \A status \in reported'[b] : shard'[b] = status
    BY DEF LedgerInv, ReportedStable
  <2>1. CASE b = a
    BY <1>1, <1>2, <2>1 DEF IInv, LedgerInv, MakeShard, NoRow
  <2>2. CASE b # a
    BY <2>2 DEF IInv, TypeOK, LedgerInv, ReportedStable, Idle, MakeShard
  <2> QED BY <2>1, <2>2
<1> QED BY <1>3, <1>4, <1>5, <1>6, <1>8, <1>9, <1>10 DEF IInv

\* An invocation ends in a terminal shard and a ledger row.
LEMMA FinishStep ==
  ASSUME IInv, TypeOK', NEW p \in Parents, NEW a \in Attempts,
         NEW status \in Terminal, owner[a] = p, Finish(p, a, status),
         child' = child \/ child' = [child EXCEPT ![a] = "exited"],
         child'[a] # "alive",
         UNCHANGED <<lock, plan, parentOf, marker, phase, sel, todo, reported>>
  PROVE  IInv'
<1>1. phase[p] = "run" /\ a[2] = sel[p] /\ shard[a] = "RUNNING_OR_INCOMPLETE"
  BY DEF IInv, OwnerInv
<1>2. ~Idle(a)
  BY BatchAssumption DEF Idle
<1>3. LockInv' /\ OwnerInv'
  BY <1>1, BatchAssumption DEF IInv, TypeOK, LockInv, OwnerInv, Finish
<1>4. QueueInv'
  BY <1>1 DEF IInv, TypeOK, QueueInv, Finish, Planned
<1>5. PendingInv'
  <2> SUFFICES ASSUME NEW q \in Parents, NEW b \in Attempts,
                      b \in todo[q] \/ owner'[b] = q, NEW r \in Plans
               PROVE  shard'[<<b[1], r>>] # "SUCCESS"
    BY DEF PendingInv
  <2>1. b # a /\ (b \in todo[q] \/ owner[b] = q)
    BY <1>1, BatchAssumption DEF IInv, TypeOK, QueueInv, Finish
  <2>2. phase[q] = "run" /\ b[2] = sel[q]
    BY <2>1 DEF IInv, TypeOK, QueueInv, OwnerInv
  <2>3. q = p
    BY <1>1, <2>2, OnlyOwner
  <2>4. b[1] # a[1]
    BY <1>1, <2>1, <2>2, <2>3, AttemptParts
  <2> QED
    BY <2>1, <2>4, AttemptParts, BatchAssumption DEF IInv, TypeOK, PendingInv, Finish
<1>6. AtMostOneSuccess'
  BY <1>1, AttemptParts DEF IInv, TypeOK, PendingInv, AtMostOneSuccess, Finish
<1>7. AttemptInv'
  <2>1. \A k, r : Planned(k, r)' <=> Planned(k, r)
    BY DEF Planned
  <2>2. Planned(a[1], a[2])
    BY <1>1 DEF IInv, AttemptInv
  <2>3. \A b \in Attempts \ {a} : shard'[b] = shard[b] /\ child'[b] = child[b]
    BY DEF IInv, TypeOK, Finish
  <2> QED BY <2>1, <2>2, <2>3 DEF IInv, TypeOK, AttemptInv, Finish, Terminal
<1>11. \A b \in Attempts : Settled(b) => b # a /\ shard'[b] = shard[b] /\ Settled(b)'
  BY <1>2 DEF IInv, TypeOK, Settled, Idle, Finish
<1>8. PlanInv'
  <2> SUFFICES ASSUME NEW k \in Keys, NEW r \in Retries, Planned(k, r)
               PROVE  /\ shard'[<<k, Base>>] # "PLANNED"
                      /\ shard'[<<k, parentOf[<<k, r>>]>>] \in Eligible
                      /\ Settled(<<k, parentOf[<<k, r>>]>>)'
                      /\ shard'[<<k, parentOf[<<k, r>>]>>] = "RUNNING_OR_INCOMPLETE" =>
                           marker[<<k, parentOf[<<k, r>>]>>] # "intent"
    BY DEF IInv, PlanInv, Planned
  <2>1. <<k, Base>> \in Attempts /\ <<k, parentOf[<<k, r>>]>> \in Attempts
    BY ParentIsAttempt DEF IInv
  <2>2. shard'[<<k, Base>>] # "PLANNED"
    BY <2>1 DEF IInv, TypeOK, PlanInv, Finish, Terminal
  <2> QED BY <1>11, <2>1, <2>2 DEF IInv, PlanInv
<1>9. OrderInv'
  BY <1>11, AttemptParts DEF IInv, OrderInv, Planned
<1>10. LedgerInv'
  BY <1>1, <1>2, OnlyOwner, BatchAssumption
     DEF IInv, TypeOK, LedgerInv, ReportedStable, Idle, Finish, Terminal
<1> QED BY <1>3, <1>4, <1>5, <1>6, <1>7, <1>8, <1>9, <1>10 DEF IInv

\* A worker gives up its attempt, or a parent dies: only ownership is lost.
LEMMA GiveUpSteps ==
  ASSUME IInv, TypeOK', NEW p \in Parents, phase[p] = "run" \/ Crash(p),
         (\E a \in Attempts : Raise(p, a)) \/ EndRun(p) \/ Crash(p)
  PROVE  IInv'
<1> DEFINE Kept ==
      /\ UNCHANGED disk
      /\ \A q \in Parents : \/ phase'[q] = "idle" /\ todo'[q] = {}
                            \/ /\ phase'[q] = phase[q] /\ sel'[q] = sel[q]
                               /\ rows'[q] = rows[q] /\ todo'[q] \subseteq todo[q]
      /\ \A b \in Attempts : owner'[b] \in {owner[b], NoParent}
      /\ \A b \in Attempts : child'[b] \in {child[b], "exited"}
      /\ \A b \in Attempts : child[b] = "none" => child'[b] = "none"
<1>1. Kept
  <2>1. ASSUME NEW a \in Attempts, Raise(p, a) PROVE Kept
    BY <2>1 DEF IInv, TypeOK, Raise
  <2>2. CASE EndRun(p)
    BY <2>2 DEF IInv, TypeOK, EndRun, Release
  <2>3. CASE Crash(p)
    BY <2>3 DEF IInv, TypeOK, Crash, Release
  <2> QED BY <2>1, <2>2, <2>3
<1>2. LockInv'
  BY OnlyOwner, BatchAssumption
     DEF IInv, TypeOK, LockInv, Raise, EndRun, Crash, Release
<1>3. QueueInv'
  BY <1>1 DEF IInv, QueueInv, Planned, disk
<1>4. OwnerInv'
  <2>1. \A q \in Parents, b \in Attempts : owner'[b] = q => owner[b] = q
    BY <1>1, BatchAssumption
  <2>2. \A q \in Parents, b \in Attempts :
          owner'[b] = q => phase'[q] = phase[q] /\ sel'[q] = sel[q]
    BY <2>1, BatchAssumption
       DEF IInv, TypeOK, OwnerInv, Raise, EndRun, Crash, Release, Finished, InFlight
  <2> QED BY <1>1, <2>1, <2>2 DEF IInv, OwnerInv, disk
<1>5. PendingInv'
  <2>1. \A q \in Parents, b \in Attempts :
          b \in todo'[q] \/ owner'[b] = q => b \in todo[q] \/ owner[b] = q
    BY <1>1, BatchAssumption
  <2> QED BY <1>1, <2>1 DEF IInv, PendingInv, disk
<1>6. AttemptInv'
  BY <1>1 DEF IInv, TypeOK, AttemptInv, Planned, disk
<1>7. \A b \in Attempts : (Settled(b) => Settled(b)') /\ (Idle(b) => Idle(b)')
  BY <1>1 DEF Settled, Idle, disk
<1>8. PlanInv'
  BY <1>1, <1>7, ParentIsAttempt DEF IInv, PlanInv, Planned, disk
<1>9. OrderInv' /\ AtMostOneSuccess'
  BY <1>1, <1>7, AttemptParts DEF IInv, OrderInv, AtMostOneSuccess, Planned, disk
<1>10. LedgerInv'
  <2>1. \A b \in Attempts : \A status \in reported'[b] :
           \/ status \in reported[b]
           \/ phase[p] = "run" /\ rows[p][b] = status /\ status \notin {NoRow, "PLANNED"}
    BY DEF IInv, TypeOK, Raise, EndRun, Crash, Published
  <2>2. \A b \in Attempts : \A status \in reported'[b] :
           shard[b] = status /\ (status = "RUNNING_OR_INCOMPLETE" => Idle(b))
    BY <2>1 DEF IInv, LedgerInv, ReportedStable
  <2>3. \A q \in Parents : phase'[q] = "run" => phase[q] = "run" /\ rows'[q] = rows[q]
    BY <1>1
  <2> QED BY <1>1, <1>7, <2>2, <2>3 DEF IInv, LedgerInv, ReportedStable, disk
<1> QED BY <1>2, <1>3, <1>4, <1>5, <1>6, <1>8, <1>9, <1>10 DEF IInv

\* The run's validation: what it queues has no successful sibling.
LEMMA BeginRunStep ==
  ASSUME IInv, TypeOK', NEW p \in Parents, NEW r \in Plans, BeginRun(p, r)
  PROVE  IInv'
<1>1. UNCHANGED <<lock, disk, child, owner, reported>> /\ phase[p] = "owner"
  BY DEF BeginRun
<1>2. \A a \in Attempts : Idle(a)
  BY <1>1, OnlyOwner
<1>3. LockInv' /\ OwnerInv'
  BY <1>1, <1>2, BatchAssumption DEF IInv, TypeOK, LockInv, OwnerInv, Idle, BeginRun
<1>4. QueueInv'
  BY <1>1 DEF IInv, TypeOK, QueueInv, BeginRun, Runnable, Selected, Planned, disk
<1>5. \A a \in Runnable(r) : \A q \in Plans : shard[<<a[1], q>>] # "SUCCESS"
  <2> SUFFICES ASSUME NEW a \in Runnable(r), NEW q \in Plans
               PROVE  shard[<<a[1], q>>] # "SUCCESS"
    OBVIOUS
  <2>1. /\ a \in Attempts /\ a[1] \in Keys /\ a[2] = r /\ a = <<a[1], r>>
        /\ shard[a] = "PLANNED" /\ RunAllowed(a[1], r)
    BY AttemptParts DEF Runnable, Selected, BeginRun
  <2>2. CASE ~Planned(a[1], q)
    BY <2>1, <2>2, AttemptParts DEF IInv, AttemptInv
  <2>3. CASE r # Base /\ Planned(a[1], q)
    BY <2>1, <2>3 DEF RunAllowed, Succeeded
  <2>4. CASE r = Base /\ Planned(a[1], q)
    <3>1. q \notin Retries
      BY <2>1, <2>4 DEF IInv, PlanInv
    <3> QED BY <2>1, <2>4, <3>1, AttemptParts
  <2> QED BY <2>2, <2>3, <2>4
<1>6. PendingInv'
  BY <1>1, <1>2, <1>5, BatchAssumption DEF IInv, TypeOK, PendingInv, BeginRun, Idle, disk
<1>7. AttemptInv' /\ PlanInv' /\ OrderInv' /\ AtMostOneSuccess'
  BY <1>1 DEF IInv, AttemptInv, PlanInv, OrderInv, AtMostOneSuccess, Planned,
              Settled, Idle, disk
<1>8. LedgerInv'
  BY <1>1, <1>2 DEF IInv, TypeOK, LedgerInv, ReportedStable, Idle, BeginRun, disk
<1> QED BY <1>3, <1>4, <1>6, <1>7, <1>8 DEF IInv

\* The request's checks make a new retry plan continue settled attempts only,
\* and, with names in order, after everything planned so far.
LEMMA BeginRetryPlanStep ==
  ASSUME IInv, TypeOK', NEW p \in Parents, NEW r \in Retries,
         NEW par \in [Keys -> Plans \cup {NoEntry}], BeginRetryPlan(p, r, par)
  PROVE  IInv'
<1>1. /\ UNCHANGED <<lock, shard, marker, child, todo, owner, reported, rows>>
      /\ phase[p] = "owner" /\ phase'[p] = "retry"
      /\ \A q \in Parents \ {p} : phase'[q] = phase[q] /\ sel'[q] = sel[q]
      /\ plan[r] = "absent" /\ plan'[r] = "partial"
      /\ \A q \in Retries \ {r} : plan'[q] = plan[q]
  BY DEF IInv, TypeOK, BeginRetryPlan
<1>2. \A a \in Attempts : Idle(a)
  BY <1>1, OnlyOwner
<1>3. \A k \in Keys : ~Planned(k, r)
  BY <1>1 DEF IInv, PlanInv
<1>4. /\ \A k \in Keys, q \in Plans : q # r => parentOf'[<<k, q>>] = parentOf[<<k, q>>]
      /\ \A k \in Keys : parentOf'[<<k, r>>] = par[k]
  BY AttemptParts DEF BeginRetryPlan
<1>5. \A k \in Keys, q \in Plans : q # r => (Planned(k, q)' <=> Planned(k, q))
  BY <1>4 DEF Planned
<1>6. \A k \in Keys : Planned(k, r)' => RetryAllowed(k, par[k])
  BY <1>4 DEF BeginRetryPlan, Planned, Retries, Base
<1>7. \A k \in Keys, q \in Plans : RetryAllowed(k, q) =>
         /\ q # r /\ Planned(k, q)
         /\ shard[<<k, q>>] \in Eligible
         /\ Settled(<<k, q>>)
         /\ shard[<<k, q>>] = "RUNNING_OR_INCOMPLETE" => marker[<<k, q>>] # "intent"
         /\ shard[<<k, Base>>] # "PLANNED"
  <2> SUFFICES ASSUME NEW k \in Keys, NEW q \in Plans, RetryAllowed(k, q)
               PROVE  /\ q # r /\ Planned(k, q)
                      /\ shard[<<k, q>>] \in Eligible
                      /\ Settled(<<k, q>>)
                      /\ shard[<<k, q>>] = "RUNNING_OR_INCOMPLETE" =>
                           marker[<<k, q>>] # "intent"
                      /\ shard[<<k, Base>>] # "PLANNED"
    OBVIOUS
  <2>1. Planned(k, q) /\ shard[<<k, q>>] \in Eligible /\ NotActive(<<k, q>>)
    BY DEF RetryAllowed
  <2>2. q # r
    BY <1>3, <2>1
  <2>3. child[<<k, q>>] # "alive"
    BY <2>1, AttemptParts DEF IInv, TypeOK, AttemptInv, NotActive
  <2>4. shard[<<k, Base>>] # "PLANNED"
    BY <2>1, AttemptParts DEF IInv, PlanInv, Eligible
  <2> QED
    BY <1>2, <2>1, <2>2, <2>3, <2>4, AttemptParts DEF Settled, NotActive, Eligible
<1>8. LockInv' /\ OwnerInv' /\ PendingInv' /\ AtMostOneSuccess'
  <2>1. LockInv'
    BY <1>1 DEF IInv, LockInv
  <2>2. OwnerInv'
    BY <1>1, <1>2, BatchAssumption DEF OwnerInv, Idle
  <2>3. PendingInv' /\ AtMostOneSuccess'
    BY <1>1 DEF IInv, PendingInv, AtMostOneSuccess
  <2> QED BY <2>1, <2>2, <2>3
<1>9. QueueInv'
  <2>1. \A q \in Parents : todo[q] = {}
    BY <1>1, OnlyOwner DEF IInv, QueueInv
  <2> QED BY <1>1, <2>1 DEF QueueInv
<1>10. AttemptInv'
  <2>1. \A a \in Attempts : Planned(a[1], a[2]) => Planned(a[1], a[2])'
    BY <1>3, <1>5, AttemptParts
  <2> QED BY <1>1, <2>1 DEF IInv, AttemptInv
<1>11. \A a \in Attempts : Settled(a)' <=> Settled(a)
  BY <1>1 DEF Settled, Idle
<1>12. PlanInv'
  <2> SUFFICES ASSUME NEW k \in Keys, NEW q \in Retries
               PROVE  /\ plan'[q] = "absent" => ~Planned(k, q)'
                      /\ Planned(k, q)' =>
                           /\ shard'[<<k, Base>>] # "PLANNED"
                           /\ shard'[<<k, parentOf'[<<k, q>>]>>] \in Eligible
                           /\ Settled(<<k, parentOf[<<k, q>>]>>)'
                           /\ shard'[<<k, parentOf'[<<k, q>>]>>] = "RUNNING_OR_INCOMPLETE" =>
                                marker'[<<k, parentOf'[<<k, q>>]>>] # "intent"
    BY DEF PlanInv
  <2>1. CASE q = r
    <3>1. Planned(k, r)' => par[k] \in Plans
      BY <1>4 DEF Planned, Retries, Base
    <3>2. Planned(k, r)' => Settled(<<k, par[k]>>)'
      BY <1>6, <1>7, <1>11, <3>1, AttemptParts
    <3> QED BY <1>1, <1>4, <1>6, <1>7, <2>1, <3>1, <3>2, AttemptParts
  <2>2. CASE q # r
    <3>1. parentOf'[<<k, q>>] = parentOf[<<k, q>>] /\ (Planned(k, q)' <=> Planned(k, q))
      BY <1>4, <1>5, <2>2, AttemptParts
    <3>2. Planned(k, q) => Settled(<<k, parentOf[<<k, q>>]>>)'
      <4> SUFFICES ASSUME Planned(k, q)
                   PROVE  Settled(<<k, parentOf[<<k, q>>]>>)'
        OBVIOUS
      <4>1. /\ <<k, parentOf[<<k, q>>]>> \in Attempts
            /\ Settled(<<k, parentOf[<<k, q>>]>>)
        BY ParentIsAttempt DEF IInv, PlanInv
      <4> QED BY <1>1, <3>1, <4>1 DEF Settled, Idle
    <3> QED BY <1>1, <2>2, <3>1, <3>2 DEF IInv, PlanInv
  <2> QED BY <2>1, <2>2
<1>13. OrderInv'
  <2> SUFFICES ASSUME NamesInOrder, NEW k \in Keys, NEW q \in Plans, NEW s \in Retries,
                      q < s, Planned(k, q)', Planned(k, s)'
               PROVE  Settled(<<k, q>>)'
    BY DEF OrderInv
  <2>1. <<k, q>> \in Attempts
    BY AttemptParts
  <2>2. CASE s = r
    <3>1. q # r /\ Planned(k, q) /\ RetryAllowed(k, par[k]) /\ par[k] \in Plans
      BY <1>4, <1>5, <1>6, <2>2 DEF Planned, Retries, Plans, Base
    <3>2. q <= par[k]
      BY <3>1, AttemptParts DEF RetryAllowed, IsLatest, Plans, Retries, Base
    <3>3. CASE q = par[k]
      BY <1>7, <1>11, <2>1, <3>1, <3>3
    <3>4. CASE q < par[k]
      <4>1. par[k] \in Retries /\ Planned(k, par[k])
        BY <3>1, <3>4 DEF Plans, Retries, RetryAllowed
      <4> QED BY <1>11, <2>1, <3>1, <3>4, <4>1 DEF IInv, OrderInv
    <3> QED BY <3>1, <3>2, <3>3, <3>4 DEF Plans
  <2>3. CASE s # r
    <3>1. Planned(k, s)
      BY <1>5, <2>3, AttemptParts
    <3>2. s < r
      BY <2>3, <3>1 DEF BeginRetryPlan, IInv, PlanInv
    <3>3. Planned(k, q)
      BY <1>5, <3>2 DEF Plans, Retries
    <3> QED BY <1>11, <2>1, <3>1, <3>3 DEF IInv, OrderInv
  <2> QED BY <2>2, <2>3
<1>14. LedgerInv'
  <2>1. \A q \in Parents : phase'[q] # "run"
    BY <1>1, OnlyOwner
  <2> QED BY <1>1, <2>1 DEF IInv, LedgerInv, ReportedStable, Idle
<1> QED BY <1>8, <1>9, <1>10, <1>12, <1>13, <1>14 DEF IInv

\* The manifest completes the plan; its entries were fixed before.
LEMMA SealRetryPlanStep ==
  ASSUME IInv, TypeOK', NEW p \in Parents, SealRetryPlan(p)
  PROVE  IInv'
<1>1. /\ UNCHANGED <<parentOf, shard, marker, child, owner, reported>>
      /\ phase[p] = "retry" /\ lock' = NoParent
      /\ phase'[p] = "idle" /\ todo'[p] = {}
      /\ \A q \in Parents \ {p} : phase'[q] = phase[q] /\ todo'[q] = todo[q]
      /\ \A r \in Retries : plan'[r] = "absent" => plan[r] = "absent"
  BY DEF IInv, TypeOK, SealRetryPlan, Release
<1>2. /\ \A a \in Attempts : Idle(a)
      /\ \A q \in Parents : phase'[q] = "idle" /\ todo'[q] = {}
  <2>1. /\ \A a \in Attempts : Idle(a)
        /\ \A q \in Parents \ {p} : phase[q] = "idle" /\ todo[q] = {}
    BY <1>1, OnlyOwner
  <2> QED BY <1>1, <2>1
<1>3. LockInv' /\ QueueInv' /\ OwnerInv' /\ PendingInv' /\ AtMostOneSuccess'
  BY <1>1, <1>2, BatchAssumption
     DEF IInv, LockInv, QueueInv, OwnerInv, PendingInv, AtMostOneSuccess, Idle
<1>4. AttemptInv' /\ PlanInv' /\ OrderInv'
  BY <1>1 DEF IInv, AttemptInv, PlanInv, OrderInv, Planned, Settled, Idle
<1>5. LedgerInv'
  BY <1>1, <1>2 DEF IInv, LedgerInv, ReportedStable, Idle
<1> QED BY <1>3, <1>4, <1>5 DEF IInv

-----------------------------------------------------------------------------
(* The theorems                                                            *)

\* Every step of every parent, of the children and of the crashes preserves
\* the invariant.
LEMMA StepInvariant == IInv /\ [Next]_vars => IInv'
<1> SUFFICES ASSUME IInv, [Next]_vars PROVE IInv'
  OBVIOUS
<1>0. TypeOK'
  BY TypeInvariant DEF IInv
<1>1. ASSUME NEW p \in Parents, Acquire(p) \/ Refuse(p) \/ Cancel(p) PROVE IInv'
  BY <1>1, LockSteps
<1>2. ASSUME NEW p \in Parents, NEW r \in Retries,
             NEW par \in [Keys -> Plans \cup {NoEntry}], BeginRetryPlan(p, r, par)
      PROVE IInv'
  BY <1>0, <1>2, BeginRetryPlanStep
<1>3. ASSUME NEW p \in Parents, SealRetryPlan(p) PROVE IInv'
  BY <1>0, <1>3, SealRetryPlanStep
<1>4. ASSUME NEW p \in Parents, NEW r \in Plans, BeginRun(p, r) PROVE IInv'
  BY <1>0, <1>4, BeginRunStep
<1>5. ASSUME NEW p \in Parents, NEW a \in Attempts, Invoke(p, a) PROVE IInv'
  <2>1. CASE MakeShard(p, a)
    BY <1>0, <2>1, MakeShardStep
  <2>2. CASE RecordIntent(p, a) \/ Popen(p, a) \/ RecordStarted(p, a)
    BY <1>0, <2>2, ProcessSteps
  <2>3. CASE PrelaunchFailure(p, a)
    BY <1>0, <2>3, FinishStep DEF PrelaunchFailure, Terminal
  <2>4. CASE RecordFails(p, a) \/ Terminate(p, a)
    <3>1. child'[a] # "alive"
      BY <2>4 DEF IInv, TypeOK, RecordFails, Terminate
    <3> QED BY <1>0, <2>4, <3>1, FinishStep DEF RecordFails, Terminate, Terminal
  <2>5. ASSUME NEW status \in Terminal, WriteResult(p, a, status) PROVE IInv'
    BY <1>0, <2>5, FinishStep DEF WriteResult
  <2>6. CASE Raise(p, a)
    <3>1. phase[p] = "run"
      BY <2>6 DEF IInv, OwnerInv, Raise
    <3> QED BY <1>0, <2>6, <3>1, GiveUpSteps
  <2> QED BY <1>5, <2>1, <2>2, <2>3, <2>4, <2>5, <2>6 DEF Invoke
<1>6. ASSUME NEW p \in Parents, EndRun(p) \/ Crash(p) PROVE IInv'
  BY <1>0, <1>6, GiveUpSteps DEF EndRun
<1>7. ASSUME NEW a \in Attempts, ChildExit(a) PROVE IInv'
  BY <1>0, <1>7, ProcessSteps
<1>8. CASE UNCHANGED vars
  BY <1>8 DEF vars, disk, local, IInv, TypeOK, LockInv, QueueInv, OwnerInv,
     AttemptInv, PlanInv, PendingInv, OrderInv, AtMostOneSuccess, LedgerInv,
     ReportedStable, Planned, Settled, Idle
<1> QED
  BY <1>1, <1>2, <1>3, <1>4, <1>5, <1>6, <1>7, <1>8 DEF Next, Work

\* The inductive invariant holds in every reachable state.
THEOREM Invariance == Spec => []IInv
BY InitInvariant, StepInvariant, PTL DEF Spec

\* Every variable of the runner keeps its type.
THEOREM TypeCorrect == Spec => []TypeOK
<1>1. IInv => TypeOK
  BY DEF IInv
<1> QED BY Invariance, <1>1, PTL

\* A profile/shard pair never has two successful attempts, whatever the order
\* in which retry plans are named.
THEOREM OneSuccess == Spec => []AtMostOneSuccess
<1>1. IInv => AtMostOneSuccess
  BY DEF IInv
<1> QED BY Invariance, <1>1, PTL

\* A planned retry continues an attempt that has come to rest.
THEOREM ParentSettled == Spec => []RetryParentSettled
<1>1. IInv => RetryParentSettled
  BY DEF IInv, PlanInv, RetryParentSettled, Settled, Idle
<1> QED BY Invariance, <1>1, PTL

\* A published run ledger stays true.
THEOREM LedgersStayTrue == Spec => []ReportedStable
<1>1. IInv => ReportedStable
  BY DEF IInv, LedgerInv
<1> QED BY Invariance, <1>1, PTL

\* When operators name retry plans in ascending order, a pair never has two
\* live children.
THEOREM OneLiveChild == ASSUME NamesInOrder PROVE Spec => []AtMostOneLiveChild
<1>1. IInv => AtMostOneLiveChild
  <2> SUFFICES ASSUME IInv, NEW k \in Keys, NEW q \in Plans, NEW r \in Plans,
                      q < r, child[<<k, q>>] = "alive", child[<<k, r>>] = "alive"
               PROVE  FALSE
    BY BatchAssumption DEF AtMostOneLiveChild, Plans
  <2>1. r \in Retries
    BY DEF Plans, Retries
  <2>2. Planned(k, q) /\ Planned(k, r)
    BY AttemptParts DEF IInv, AttemptInv
  <2>3. Settled(<<k, q>>)
    BY <2>1, <2>2 DEF IInv, OrderInv
  <2> QED BY <2>3 DEF Settled
<1> QED BY Invariance, <1>1, PTL

\* However retry plans are named, a pair with two live children has two planned
\* retries of one attempt: the parents of its n retries are attempts of the
\* pair, there are n + 1 of those, and the two with a live child are not among
\* them, so n retries share n - 1 parents.
THEOREM LiveChildrenFork == Spec => []LiveChildrenNeedAFork
<1>1. IInv => LiveChildrenNeedAFork
  <2> SUFFICES ASSUME IInv, NEW k \in Keys, NEW q \in Plans, NEW r \in Plans,
                      q # r, child[<<k, q>>] = "alive", child[<<k, r>>] = "alive"
               PROVE  \E s, t \in Retries :
                        /\ s # t
                        /\ Planned(k, s) /\ Planned(k, t)
                        /\ parentOf[<<k, s>>] = parentOf[<<k, t>>]
    BY DEF LiveChildrenNeedAFork
  <2> DEFINE R == {s \in Retries : Planned(k, s)}
             All == R \cup {Base}
             Rest == (All \ {q}) \ {r}
             parent == [s \in R |-> parentOf[<<k, s>>]]
  <2>1. IsFiniteSet(R) /\ Cardinality(R) \in Nat
    <3>1. IsFiniteSet(Retries)
      BY FS_Interval, BatchAssumption DEF Retries
    <3>2. R \subseteq Retries
      OBVIOUS
    <3> QED BY <3>1, <3>2, FS_Subset, FS_CardinalityType
  <2>2. IsFiniteSet(All) /\ Cardinality(All) = Cardinality(R) + 1
    <3>1. Base \notin R
      BY BatchAssumption DEF Retries, Base
    <3> QED BY <2>1, <3>1, FS_AddElement
  <2>3. q \in All /\ r \in All
    <3>1. Planned(k, q) /\ Planned(k, r)
      BY AttemptParts DEF IInv, AttemptInv
    <3> QED BY <3>1, AttemptParts
  <2>4. IsFiniteSet(All \ {q}) /\ Cardinality(All \ {q}) = Cardinality(R)
    <3>1. /\ IsFiniteSet(All \ {q})
          /\ Cardinality(All \ {q}) = Cardinality(All) - 1
      <4> HIDE DEF All
      <4> QED BY <2>2, <2>3, FS_RemoveElement
    <3> QED BY <2>1, <2>2, <3>1
  <2>5. IsFiniteSet(Rest) /\ Cardinality(Rest) = Cardinality(R) - 1
    <3> HIDE DEF All
    <3>1. r \in All \ {q}
      BY <2>3
    <3> QED BY <2>4, <3>1, FS_RemoveElement
  <2>6. parent \in [R -> Rest]
    <3> SUFFICES ASSUME NEW s \in R PROVE parentOf[<<k, s>>] \in Rest
      OBVIOUS
    <3>1. /\ parentOf[<<k, s>>] \in Plans
          /\ <<k, parentOf[<<k, s>>]>> \in Attempts
      BY ParentIsAttempt DEF IInv
    <3>2. /\ shard[<<k, parentOf[<<k, s>>]>>] # "PLANNED"
          /\ child[<<k, parentOf[<<k, s>>]>>] # "alive"
      BY DEF IInv, PlanInv, Settled, Eligible
    <3>3. Planned(k, parentOf[<<k, s>>])
      BY <3>1, <3>2, AttemptParts DEF IInv, AttemptInv
    <3> QED BY <3>1, <3>2, <3>3, AttemptParts
  <2>7. Cardinality(Rest) < Cardinality(R)
    BY <2>1, <2>5
  <2>8. \E s, t \in R : s # t /\ parent[s] = parent[t]
    <3> HIDE DEF R, Rest, parent
    <3> QED BY <2>1, <2>5, <2>6, <2>7, FS_PigeonHole
  <2> QED BY <2>8
<1> QED BY Invariance, <1>1, PTL

-----------------------------------------------------------------------------
(* The refinement                                                          *)

\* The plan a parent has selected is as its command left it.
SelInv ==
  \A p \in Parents :
    /\ phase[p] = "retry" => sel[p] \in Retries /\ plan[sel[p]] = "partial"
    /\ phase[p] = "run" /\ sel[p] # Base => plan[sel[p]] = "sealed"

\* A step keeps it.
LEMMA SelStep == SelInv /\ IInv /\ [Next]_vars => SelInv'
<1> SUFFICES ASSUME SelInv, IInv, [Next]_vars PROVE SelInv'
  OBVIOUS
<1> USE DEF SelInv
<1>1. ASSUME NEW p \in Parents, Acquire(p) PROVE SelInv'
  BY <1>1 DEF Acquire, disk, IInv, TypeOK
<1>2. ASSUME NEW p \in Parents, Release(p), UNCHANGED plan PROVE SelInv'
  BY <1>2 DEF Release, IInv, TypeOK
<1>3. ASSUME NEW p \in Parents, NEW r \in Retries,
             NEW par \in [Keys -> Plans \cup {NoEntry}], BeginRetryPlan(p, r, par)
      PROVE  SelInv'
  <2>1. \A q \in Parents : q # p => phase[q] = "idle"
    BY <1>3 DEF BeginRetryPlan, IInv, LockInv
  <2> QED BY <1>3, <2>1 DEF BeginRetryPlan, IInv, TypeOK
<1>4. ASSUME NEW p \in Parents, SealRetryPlan(p) PROVE SelInv'
  <2>1. \A q \in Parents : q # p => phase[q] = "idle"
    BY <1>4 DEF SealRetryPlan, IInv, LockInv
  <2> QED BY <1>4, <2>1 DEF SealRetryPlan, Release, IInv, TypeOK
<1>5. ASSUME NEW p \in Parents, NEW r \in Plans, BeginRun(p, r) PROVE SelInv'
  BY <1>5 DEF BeginRun, disk, IInv, TypeOK
<1>6. ASSUME UNCHANGED <<plan, phase, sel>> PROVE SelInv'
  BY <1>6
<1>7. ASSUME NEW p \in Parents, NEW a \in Attempts, Invoke(p, a)
      PROVE  UNCHANGED <<plan, phase, sel>>
  BY <1>7 DEF Invoke, MakeShard, PrelaunchFailure, RecordIntent, Popen, RecordStarted,
              RecordFails, Terminate, WriteResult, Raise, disk, local
<1>8. ASSUME NEW p \in Parents, Refuse(p) \/ EndRun(p) \/ Crash(p)
      PROVE  Release(p) /\ UNCHANGED plan
  BY <1>8 DEF Refuse, EndRun, Crash, disk
<1>9. ASSUME NEW p \in Parents, Cancel(p) PROVE UNCHANGED <<plan, phase, sel>>
  BY <1>9 DEF Cancel, disk
<1>10. ASSUME NEW a \in Attempts, ChildExit(a) PROVE UNCHANGED <<plan, phase, sel>>
  BY <1>10 DEF ChildExit, disk, local
<1>11. ASSUME UNCHANGED vars PROVE UNCHANGED <<plan, phase, sel>>
  BY <1>11 DEF vars, disk, local
<1> QED
  BY <1>1, <1>2, <1>3, <1>4, <1>5, <1>6, <1>7, <1>8, <1>9, <1>10, <1>11 DEF Next, Work

\* The planned attempts, as the ledger has them.
PlannedAttempts == {a \in Attempts : Planned(a[1], a[2])}

\* A retry plan adds its entries to the planned attempts.
LEMMA BeginRetryPlanMaps ==
  ASSUME IInv, NEW p \in Parents, NEW r \in Retries,
         NEW par \in [Keys -> Plans \cup {NoEntry}], BeginRetryPlan(p, r, par)
  PROVE  Ledger!LedgerNext
<1> DEFINE K == {k \in Keys : par[k] # NoEntry}
<1>1. r # Base /\ plan[r] = "absent" /\ shard' = shard
  BY DEF BeginRetryPlan, Retries, Base
<1>2. \A k \in K : \A q \in Plans : shard[<<k, q>>] # "SUCCESS"
  <2> SUFFICES ASSUME NEW k \in K, NEW q \in Plans PROVE shard[<<k, q>>] # "SUCCESS"
    OBVIOUS
  <2>1. ~Succeeded(k)
    BY DEF BeginRetryPlan, RetryAllowed
  <2>2. <<k, q>> \in Attempts /\ ~Planned(k, q) => shard[<<k, q>>] = "PLANNED"
    BY AttemptParts DEF IInv, AttemptInv
  <2>3. CASE Planned(k, q)
    BY <2>1, <2>3 DEF Succeeded
  <2>4. CASE ~Planned(k, q)
    BY <2>2, <2>4, AttemptParts
  <2> QED BY <2>3, <2>4
<1>3. PlannedAttempts' = PlannedAttempts \cup {a \in Attempts : a[1] \in K /\ a[2] = r}
  <2>1. \A k \in Keys : ~Planned(k, r)
    BY <1>1 DEF IInv, PlanInv
  <2>2. \A k \in Keys : Planned(k, r)' <=> k \in K
    BY <1>1, AttemptParts DEF BeginRetryPlan, Planned, IInv, TypeOK
  <2>3. \A k \in Keys, q \in Plans : q # r => (Planned(k, q)' <=> Planned(k, q))
    BY AttemptParts DEF BeginRetryPlan, Planned, IInv, TypeOK
  <2>4. \A a \in Attempts : Planned(a[1], a[2])'
                            <=> Planned(a[1], a[2]) \/ (a[1] \in K /\ a[2] = r)
    BY <2>1, <2>2, <2>3, AttemptParts
  <2> QED BY <2>4 DEF PlannedAttempts
<1>4. plan' = [plan EXCEPT ![r] = "partial"] /\ PlansReadable
  BY DEF BeginRetryPlan
<1>5. Ledger!PlanRetries(r, K)
  BY <1>1, <1>2, <1>3, <1>4
     DEF Ledger!PlanRetries, Ledger!Succeeded, Ledger!PlansReadable, Ledger!Retries,
         Ledger!Plans, Ledger!Attempts, Ledger!Keys, PlansReadable, PlannedAttempts,
         Retries, Plans, Attempts, Keys
<1>6. K \in SUBSET Ledger!Keys /\ r \in Ledger!Retries
  BY DEF Ledger!Keys, Ledger!Retries, Keys, Retries
<1> QED BY <1>5, <1>6 DEF Ledger!LedgerNext

\* Entries of retry plans are fixed when the plan is begun.
LEMMA SamePlanned ==
  ASSUME UNCHANGED parentOf
  PROVE  PlannedAttempts' = PlannedAttempts
BY DEF PlannedAttempts, Planned

\* The manifest seals the plan.
LEMMA SealRetryPlanMaps ==
  ASSUME IInv, SelInv, NEW p \in Parents, SealRetryPlan(p)
  PROVE  Ledger!LedgerNext
<1>1. sel[p] \in Retries /\ plan[sel[p]] = "partial"
  BY DEF SelInv, SealRetryPlan
<1>2. PlannedAttempts' = PlannedAttempts
  BY SamePlanned DEF SealRetryPlan
<1>3. Ledger!SealRetries(sel[p])
  BY <1>1, <1>2 DEF SealRetryPlan, Ledger!SealRetries, PlannedAttempts
<1> QED BY <1>1, <1>3 DEF Ledger!LedgerNext, Ledger!Retries, Retries

\* A queued attempt is planned, in the base plan or in a sealed one.
LEMMA MakeShardMaps ==
  ASSUME IInv, SelInv, NEW p \in Parents, NEW a \in Attempts, MakeShard(p, a)
  PROVE  Ledger!LedgerNext
<1>1. a[2] = sel[p] /\ Planned(a[1], a[2]) /\ phase[p] = "run"
  BY DEF IInv, QueueInv, MakeShard, IsNext
<1>2. a[2] # Base => plan[a[2]] = "sealed"
  BY <1>1 DEF SelInv
<1>3. PlannedAttempts' = PlannedAttempts
  BY SamePlanned DEF MakeShard
<1>4. Ledger!StartAttempt(a)
  BY <1>1, <1>2, <1>3
     DEF MakeShard, Ledger!StartAttempt, PlannedAttempts, Ledger!Base, Base
<1> QED BY <1>4 DEF Ledger!LedgerNext, Ledger!Attempts, Ledger!Keys, Ledger!Plans,
                    Attempts, Keys, Plans

\* The end of an invocation is the attempt's end; no sibling has succeeded.
LEMMA FinishMaps ==
  ASSUME IInv, NEW p \in Parents, NEW a \in Attempts, NEW status \in Terminal,
         owner[a] = p, Finish(p, a, status), UNCHANGED <<plan, parentOf>>
  PROVE  Ledger!LedgerNext
<1>1. shard[a] = "RUNNING_OR_INCOMPLETE"
  BY DEF IInv, OwnerInv
<1>2. \A r \in Plans : shard[<<a[1], r>>] # "SUCCESS"
  BY DEF IInv, PendingInv
<1>3. PlannedAttempts' = PlannedAttempts
  BY SamePlanned
<1>4. Ledger!EndAttempt(a, status)
  BY <1>1, <1>2, <1>3
     DEF Finish, Ledger!EndAttempt, Ledger!Succeeded, Ledger!Plans, Plans, PlannedAttempts
<1> QED BY <1>4 DEF Ledger!LedgerNext, Ledger!Attempts, Ledger!Keys, Ledger!Plans,
                    Ledger!Terminal, Attempts, Keys, Plans, Terminal

\* What leaves the directories and the shards alone is a stutter.
LEMMA LedgerStutter ==
  ASSUME UNCHANGED <<plan, parentOf, shard>>
  PROVE  UNCHANGED Ledger!ledger
BY SamePlanned DEF Ledger!ledger, PlannedAttempts

\* Every step of the runner is a step of the ledger or a stutter.
LEMMA StepMaps ==
  ASSUME IInv, SelInv, [Next]_vars
  PROVE  [Ledger!LedgerNext]_(Ledger!ledger)
<1>1. ASSUME NEW p \in Parents, NEW r \in Retries,
             NEW par \in [Keys -> Plans \cup {NoEntry}], BeginRetryPlan(p, r, par)
      PROVE  Ledger!LedgerNext
  BY <1>1, BeginRetryPlanMaps
<1>2. ASSUME NEW p \in Parents, SealRetryPlan(p) PROVE Ledger!LedgerNext
  BY <1>2, SealRetryPlanMaps
<1>3. ASSUME NEW p \in Parents, NEW a \in Attempts, Invoke(p, a)
      PROVE  Ledger!LedgerNext \/ UNCHANGED Ledger!ledger
  <2>1. CASE MakeShard(p, a)
    BY <2>1, MakeShardMaps
  <2>2. CASE PrelaunchFailure(p, a) \/ RecordFails(p, a) \/ Terminate(p, a)
    <3>1. /\ owner[a] = p /\ Finish(p, a, "FAILED") /\ UNCHANGED <<plan, parentOf>>
          /\ "FAILED" \in Terminal
      BY <2>2 DEF PrelaunchFailure, RecordFails, Terminate, Terminal
    <3> QED BY <3>1, FinishMaps
  <2>3. ASSUME NEW status \in Terminal, WriteResult(p, a, status)
        PROVE  Ledger!LedgerNext
    BY <2>3, FinishMaps DEF WriteResult
  <2>4. CASE RecordIntent(p, a) \/ Popen(p, a) \/ RecordStarted(p, a) \/ Raise(p, a)
    <3>1. UNCHANGED <<plan, parentOf, shard>>
      BY <2>4 DEF RecordIntent, Popen, RecordStarted, Raise, disk
    <3> QED BY <3>1, LedgerStutter
  <2> QED BY <1>3, <2>1, <2>2, <2>3, <2>4 DEF Invoke
<1>4. ASSUME NEW p \in Parents,
             \/ Acquire(p) \/ Refuse(p) \/ Cancel(p) \/ EndRun(p) \/ Crash(p)
             \/ \E r \in Plans : BeginRun(p, r)
      PROVE  UNCHANGED Ledger!ledger
  <2>1. UNCHANGED <<plan, parentOf, shard>>
    BY <1>4 DEF Acquire, Refuse, Cancel, EndRun, Crash, BeginRun, disk
  <2> QED BY <2>1, LedgerStutter
<1>5. ASSUME NEW a \in Attempts, ChildExit(a) PROVE UNCHANGED Ledger!ledger
  BY <1>5, LedgerStutter DEF ChildExit, disk
<1>6. CASE UNCHANGED vars
  BY <1>6, LedgerStutter DEF vars, disk
<1> QED BY <1>1, <1>2, <1>3, <1>4, <1>5, <1>6 DEF Next, Work

\* To whoever only reads the plan root, the runner with all its parents,
\* children and crashes is the attempt ledger.
THEOREM Refinement == Spec => ImplementsAttemptLedger
<1>1. Init => SelInv /\ Ledger!LedgerInit
  <2> SUFFICES ASSUME Init PROVE SelInv /\ Ledger!LedgerInit
    OBVIOUS
  <2>1. SelInv
    BY DEF Init, SelInv
  <2>2. PlannedAttempts = {a \in Attempts : a[2] = Base}
    BY DEF Init, PlannedAttempts, Planned, Attempts, NoEntry
  <2> QED
    BY <2>1, <2>2
       DEF Init, Ledger!LedgerInit, PlannedAttempts, Ledger!Attempts, Ledger!Keys,
           Ledger!Plans, Ledger!Retries, Ledger!Base, Attempts, Keys, Plans, Retries, Base
<1>2. SelInv /\ IInv /\ [Next]_vars => SelInv'
  BY SelStep
<1>3. SelInv /\ IInv /\ [Next]_vars => [Ledger!LedgerNext]_(Ledger!ledger)
  BY StepMaps
<1> QED
  BY Invariance, <1>1, <1>2, <1>3, PTL DEF Spec, ImplementsAttemptLedger, Ledger!LedgerSpec
=============================================================================
