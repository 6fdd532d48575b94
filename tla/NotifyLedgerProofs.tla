------------------------- MODULE NotifyLedgerProofs -------------------------
(***************************************************************************)
(* Proofs about NotifyLedger, for any processes, events and number of      *)
(* sinks: its safety invariants, and that it implements AtMostOnce.        *)
(***************************************************************************)
EXTENDS NotifyLedger, TLAPS

\* Where a process can be.
Places == AtLedger \cup {"idle", "observe", "configure", "send", "wait"}

\* A process between its reservation and the row with the outcome.
Working(p) == pc[p] \in {"configure", "mark", "send", "wait", "record"}

\* The holder of the lock is at the ledger and has read what is in it.
LockInv ==
  \A p \in Procs : lock = p => pc[p] \in AtLedger /\ seen[p] = ledger

\* Two processes never work on one key.
ExclusiveInv ==
  \A p, q \in Procs : p # q /\ Working(p) /\ Working(q) => Key(p) # Key(q)

\* How far a process is shows in the rows of its key.
RowsOf(p) ==
  /\ pc[p] \in {"configure", "mark"} => ledger[Key(p)] = "RESERVED"
  /\ pc[p] \in {"send", "wait"} => ledger[Key(p)] = "ATTEMPTED"
  /\ pc[p] = "record" =>
       ledger[Key(p)] = IF outcome[p] = "CONFIGURATION_ERROR"
                        THEN "RESERVED" ELSE "ATTEMPTED"
  /\ pc[p] = "send" => poster[Key(p)] = "none" /\ requests[Key(p)] = 0
  /\ pc[p] = "record" => poster[Key(p)] = "none"
  /\ pc[p] = "record" /\ outcome[p] \in {"SENT", "FAILED"} =>
       requests[Key(p)] = 1

ProcInv == \A p \in Procs : RowsOf(p)

\* What a key's rows, its child and its requests owe each other.  A child
\* exists only while the attempt is all the ledger knows.
KeyRows(k) ==
  /\ poster[k] = "posting" => requests[k] = 0
  /\ poster[k] = "posted" => requests[k] = 1
  /\ poster[k] # "none" => ledger[k] = "ATTEMPTED"
  /\ requests[k] <= 1
  /\ ledger[k] \in {"ABSENT", "RESERVED", "CONFIGURATION_ERROR", "SUPPRESSED"}
       => requests[k] = 0
  /\ ledger[k] \in {"SENT", "FAILED"} => requests[k] = 1

KeyInv == \A k \in Keys : KeyRows(k)

IInv == TypeOK /\ LockInv /\ ExclusiveInv /\ ProcInv /\ KeyInv

-----------------------------------------------------------------------------
(* Types                                                                   *)

\* NextSink moves one process on and touches no other.
LEMMA NextSinkFrame ==
  ASSUME TypeOK, NEW p \in Procs, NextSink(p)
  PROVE  /\ pc' \in [Procs -> Places]
         /\ pc'[p] \in {"idle", "decide"}
         /\ event' \in [Procs -> Events]
         /\ sink' \in [Procs -> Sinks]
         /\ outcome' \in [Procs -> Settled \cup {"CONFIGURATION_ERROR"}]
         /\ done' \subseteq Events
         /\ \A q \in Procs : q # p =>
              /\ pc'[q] = pc[q]
              /\ event'[q] = event[q]
              /\ sink'[q] = sink[q]
              /\ outcome'[q] = outcome[q]
<1>1. AnyEvent \in Events
  BY NotifyAssumption DEF AnyEvent
<1>2. CASE sink[p] < NumSinks
  <2>1. sink[p] + 1 \in Sinks
    BY <1>2, NotifyAssumption DEF TypeOK, Sinks
  <2> QED BY <1>2, <2>1 DEF NextSink, TypeOK, Settled, Places, AtLedger
<1>3. CASE ~(sink[p] < NumSinks)
  <2>1. 1 \in Sinks
    BY NotifyAssumption DEF Sinks
  <2>2. Return(p) /\ done' = done \cup {event[p]}
    BY <1>3 DEF NextSink
  <2> QED BY <1>1, <2>1, <2>2 DEF Return, TypeOK, Settled, Places, AtLedger
<1> QED BY <1>2, <1>3

\* Every variable keeps its type.
LEMMA TypeInvariant == TypeOK /\ [Next]_vars => TypeOK'
<1> SUFFICES ASSUME TypeOK, [Next]_vars PROVE TypeOK'
  OBVIOUS
<1> USE DEF TypeOK, AtLedger
<1>1. AnyEvent \in Events /\ 1 \in Sinks
  BY NotifyAssumption DEF AnyEvent, Sinks
<1>2. \A p \in Procs : Key(p) \in Keys
  BY DEF Key, Keys
<1>3. "ABSENT" \in Rows /\ NoRows \in [Keys -> Rows]
  BY DEF Rows, NoRows
<1>4. ASSUME NEW p \in Procs, Enter(p) PROVE TypeOK'
  BY <1>4 DEF Enter
<1>5. ASSUME NEW p \in Procs, LockTimeout(p) PROVE TypeOK'
  BY <1>5, <1>1 DEF LockTimeout, Return, Settled
<1>6. ASSUME NEW p \in Procs, Observe(p) PROVE TypeOK'
  BY <1>6 DEF Observe
<1>7. ASSUME NEW p \in Procs, SkipDuplicate(p) PROVE TypeOK'
  <2> HIDE DEF TypeOK
  <2>1. NextSink(p)
    BY <1>7 DEF SkipDuplicate
  <2> QED BY <1>7, <1>3, <2>1, NextSinkFrame DEF SkipDuplicate, Leave, TypeOK, Places
<1>8. ASSUME NEW p \in Procs, Suppress(p) PROVE TypeOK'
  <2> HIDE DEF TypeOK
  <2>1. NextSink(p)
    BY <1>8 DEF Suppress
  <2>2. ledger' \in [Keys -> Rows]
    BY <1>8 DEF Suppress, Rows, TypeOK
  <2> QED BY <1>8, <1>3, <2>1, <2>2, NextSinkFrame DEF Suppress, Leave, TypeOK, Places
<1>9. ASSUME NEW p \in Procs, Reserve(p) PROVE TypeOK'
  BY <1>9, <1>3 DEF Reserve, Leave, Rows
<1>10. ASSUME NEW p \in Procs, Configure(p) PROVE TypeOK'
  BY <1>10 DEF Configure
<1>11. ASSUME NEW p \in Procs, Mark(p) PROVE TypeOK'
  BY <1>11, <1>3 DEF Mark, Leave, Rows
<1>12. ASSUME NEW p \in Procs, Send(p) PROVE TypeOK'
  BY <1>12 DEF Send
<1>13. ASSUME NEW p \in Procs, Collect(p) PROVE TypeOK'
  BY <1>13 DEF Collect
<1>14. ASSUME NEW p \in Procs, Record(p) PROVE TypeOK'
  <2> HIDE DEF TypeOK
  <2>1. NextSink(p)
    BY <1>14 DEF Record
  <2>2. ledger' \in [Keys -> Rows]
    BY <1>14 DEF Record, Rows, TypeOK
  <2>3. fresh' \subseteq Keys
    BY <1>14, <1>2 DEF Record, TypeOK
  <2> QED BY <1>14, <1>3, <2>1, <2>2, <2>3, NextSinkFrame DEF Record, Leave, TypeOK, Places
<1>15. ASSUME NEW p \in Procs, Crash(p) PROVE TypeOK'
  BY <1>15, <1>1, <1>3 DEF Crash, Return, Settled
<1>16. ASSUME NEW p \in Procs, NEW e \in Events, Start(p, e) PROVE TypeOK'
  BY <1>16 DEF Start
<1>17. ASSUME NEW k \in Keys, Post(k) PROVE TypeOK'
  BY <1>17 DEF Post
<1>18. ASSUME NEW k \in Keys, Age(k) PROVE TypeOK'
  BY <1>18 DEF Age
<1>19. CASE UNCHANGED vars
  BY <1>19 DEF vars
<1> QED
  BY <1>4, <1>5, <1>6, <1>7, <1>8, <1>9, <1>10, <1>11, <1>12, <1>13, <1>14,
     <1>15, <1>16, <1>17, <1>18, <1>19 DEF Next, Work

-----------------------------------------------------------------------------
(* The invariant                                                           *)

\* Where a process works, what is so of its key.
LEMMA WorkingRow ==
  ASSUME IInv, NEW p \in Procs
  PROVE  /\ Key(p) \in Keys
         /\ Working(p) => ledger[Key(p)] \in {"RESERVED", "ATTEMPTED"}
BY DEF IInv, TypeOK, ProcInv, RowsOf, Working, Key, Keys

\* A step after which nobody works who did not, on the same key, keeps the
\* keys of the working processes apart.
LEMMA SameWorkExclusive ==
  ASSUME ExclusiveInv,
         \A q \in Procs : Working(q)' => Working(q) /\ Key(q)' = Key(q)
  PROVE  ExclusiveInv'
BY DEF ExclusiveInv

\* A step that changes no row, child or request, and moves a process only
\* out of its work, disturbs nothing but perhaps the lock.
LEMMA QuietStep ==
  ASSUME IInv,
         UNCHANGED <<ledger, poster, requests>>,
         \A q \in Procs : Working(q)' =>
           Working(q) /\ pc'[q] = pc[q] /\ Key(q)' = Key(q) /\ outcome'[q] = outcome[q]
  PROVE  ExclusiveInv' /\ ProcInv' /\ KeyInv'
<1>1. ExclusiveInv'
  BY SameWorkExclusive DEF IInv
<1>2. ProcInv'
  BY DEF IInv, ProcInv, RowsOf, Working
<1>3. KeyInv'
  BY DEF IInv, KeyInv, KeyRows
<1> QED BY <1>1, <1>2, <1>3

\* A step by which p lets go of the lock keeps the lock's invariant.
LEMMA LeaveLock ==
  ASSUME NotifyAssumption, NEW p \in Procs, Leave(p)
  PROVE  LockInv'
BY DEF LockInv, Leave, NotifyAssumption

\* Reserving: nobody works on a key without a row.
LEMMA ReserveKeeps ==
  ASSUME IInv, NEW p \in Procs, Reserve(p)
  PROVE  ExclusiveInv' /\ ProcInv' /\ KeyInv'
<1> DEFINE k == Key(p)
<1>1. k \in Keys /\ ledger[k] = "ABSENT" /\ pc[p] = "decide"
  <2>1. lock = p /\ seen[p][k] = "ABSENT"
    BY DEF Reserve, Leave, Duplicate
  <2> QED BY <2>1, WorkingRow DEF IInv, LockInv, Reserve
<1>2. \A q \in Procs : q # p => pc'[q] = pc[q] /\ (Working(q)' <=> Working(q))
  BY DEF Reserve, IInv, TypeOK, Working
<1>3. \A q \in Procs : Key(q)' = Key(q) /\ outcome'[q] = outcome[q]
  BY DEF Reserve, Key
<1>4. \A q \in Procs : q # p /\ Working(q) => Key(q) # k
  BY <1>1, WorkingRow
<1>5. /\ ledger' = [ledger EXCEPT ![k] = "RESERVED"]
      /\ pc'[p] = "configure"
      /\ poster' = poster /\ requests' = requests
  BY DEF Reserve, IInv, TypeOK
<1>6. ExclusiveInv'
  BY <1>2, <1>3, <1>4 DEF IInv, ExclusiveInv
<1>7. ledger'[k] = "RESERVED" /\ \A j \in Keys : j # k => ledger'[j] = ledger[j]
  BY <1>1, <1>5 DEF IInv, TypeOK
<1>8. ProcInv'
  <2> SUFFICES ASSUME NEW q \in Procs, Working(q)'
               PROVE  RowsOf(q)'
    BY DEF ProcInv, RowsOf, Working
  <2>1. CASE q = p
    BY <2>1, <1>3, <1>5, <1>7 DEF RowsOf
  <2>2. CASE q # p
    BY <2>2, <1>2, <1>3, <1>4, <1>5, <1>7, WorkingRow DEF IInv, ProcInv, RowsOf
  <2> QED BY <2>1, <2>2
<1>9. KeyInv'
  BY <1>1, <1>5, <1>7 DEF IInv, KeyInv, KeyRows
<1> QED BY <1>6, <1>8, <1>9

\* A step of p that touches the rows of its own key only, and after which
\* nobody works who did not, leaves to show what becomes of that key.
LEMMA OwnKeyStep ==
  ASSUME IInv, NEW p \in Procs, Working(p),
         \A q \in Procs : Key(q)' = Key(q) \/ ~Working(q)',
         \A q \in Procs : q # p => pc'[q] = pc[q] /\ outcome'[q] = outcome[q],
         \A j \in Keys : j # Key(p) =>
           ledger'[j] = ledger[j] /\ poster'[j] = poster[j] /\ requests'[j] = requests[j]
  PROVE  /\ ExclusiveInv'
         /\ \A q \in Procs : q # p => RowsOf(q)'
<1>1. \A q \in Procs : q # p => (Working(q)' <=> Working(q))
  BY DEF Working
<1>2. ExclusiveInv'
  BY <1>1, SameWorkExclusive DEF IInv
<1>3. ASSUME NEW q \in Procs, q # p, Working(q)' PROVE RowsOf(q)'
  <2>1. Key(q)' = Key(q) /\ Key(q) # Key(p) /\ Key(q) \in Keys
    BY <1>1, <1>3, WorkingRow DEF IInv, ExclusiveInv
  <2>2. RowsOf(q)
    BY DEF IInv, ProcInv
  <2> QED BY <1>3, <2>1, <2>2 DEF RowsOf
<1>4. ASSUME NEW q \in Procs, q # p, ~Working(q)' PROVE RowsOf(q)'
  BY <1>4 DEF RowsOf, Working
<1> QED BY <1>2, <1>3, <1>4

\* Suppressing: the key had no row, so nobody works on it.
LEMMA SuppressKeeps ==
  ASSUME IInv, NEW p \in Procs, Suppress(p)
  PROVE  ExclusiveInv' /\ ProcInv' /\ KeyInv'
<1> DEFINE k == Key(p)
<1>1. k \in Keys /\ ledger[k] = "ABSENT" /\ pc[p] = "decide"
  <2>1. lock = p /\ seen[p][k] = "ABSENT"
    BY DEF Suppress, Leave, Duplicate
  <2> QED BY <2>1, WorkingRow DEF IInv, LockInv, Suppress
<1>2. NextSink(p)
  BY DEF Suppress
<1>3. ~Working(p)'
  BY <1>2, NextSinkFrame DEF IInv, Working
<1>4. \A q \in Procs : q # p =>
        pc'[q] = pc[q] /\ Key(q)' = Key(q) /\ outcome'[q] = outcome[q]
  BY <1>2, NextSinkFrame DEF IInv, Key
<1>5. ExclusiveInv'
  BY <1>3, <1>4, SameWorkExclusive DEF IInv, Working
<1>6. /\ ledger'[k] = "SUPPRESSED" /\ \A j \in Keys : j # k => ledger'[j] = ledger[j]
      /\ poster' = poster /\ requests' = requests
  BY <1>1 DEF Suppress, IInv, TypeOK
<1>7. ProcInv'
  <2> SUFFICES ASSUME NEW q \in Procs, Working(q)'
               PROVE  RowsOf(q)'
    BY DEF ProcInv, RowsOf, Working
  <2>1. q # p /\ Working(q) /\ Key(q)' = Key(q)
    BY <1>3, <1>4 DEF Working
  <2>2. Key(q) \in Keys /\ Key(q) # k
    BY <1>1, <2>1, WorkingRow
  <2> QED BY <1>4, <1>6, <2>1, <2>2 DEF IInv, ProcInv, RowsOf
<1>8. KeyInv'
  BY <1>1, <1>6 DEF IInv, KeyInv, KeyRows
<1> QED BY <1>5, <1>7, <1>8

\* Configuring a sink: the reservation stays, nothing is sent.
LEMMA ConfigureKeeps ==
  ASSUME IInv, NEW p \in Procs, Configure(p)
  PROVE  ExclusiveInv' /\ ProcInv' /\ KeyInv'
<1>1. Working(p) /\ RowsOf(p) /\ Key(p) \in Keys /\ KeyRows(Key(p))
  BY WorkingRow DEF Configure, Working, IInv, ProcInv, KeyInv
<1>2. UNCHANGED <<ledger, poster, requests>> /\ \A q \in Procs : Key(q)' = Key(q)
  BY DEF Configure, Key
<1>3. \A q \in Procs : q # p => pc'[q] = pc[q] /\ outcome'[q] = outcome[q]
  BY DEF Configure, IInv, TypeOK
<1>4. ExclusiveInv' /\ \A q \in Procs : q # p => RowsOf(q)'
  BY <1>1, <1>2, <1>3, OwnKeyStep
<1>5. RowsOf(p)'
  BY <1>1, <1>2 DEF Configure, RowsOf, KeyRows, IInv, TypeOK
<1>6. KeyInv'
  BY <1>2 DEF IInv, KeyInv, KeyRows
<1> QED BY <1>4, <1>5, <1>6 DEF ProcInv

\* Marking: the attempt is written down before anything is sent.
LEMMA MarkKeeps ==
  ASSUME IInv, NEW p \in Procs, Mark(p)
  PROVE  ExclusiveInv' /\ ProcInv' /\ KeyInv'
<1>1. Working(p) /\ RowsOf(p) /\ Key(p) \in Keys /\ KeyRows(Key(p))
  BY WorkingRow DEF Mark, Working, IInv, ProcInv, KeyInv
<1>2. /\ UNCHANGED <<poster, requests, outcome>>
      /\ \A q \in Procs : Key(q)' = Key(q)
  BY DEF Mark, Key
<1>3. /\ ledger'[Key(p)] = "ATTEMPTED"
      /\ \A j \in Keys : j # Key(p) => ledger'[j] = ledger[j]
  BY <1>1 DEF Mark, IInv, TypeOK
<1>4. pc'[p] = "send" /\ \A q \in Procs : q # p => pc'[q] = pc[q]
  BY DEF Mark, IInv, TypeOK
<1>5. ExclusiveInv' /\ \A q \in Procs : q # p => RowsOf(q)'
  BY <1>1, <1>2, <1>3, <1>4, OwnKeyStep
<1>6. poster[Key(p)] = "none" /\ requests[Key(p)] = 0
  BY <1>1 DEF Mark, RowsOf, KeyRows, IInv, TypeOK
<1>7. RowsOf(p)'
  BY <1>2, <1>3, <1>4, <1>6 DEF RowsOf
<1>8. KeyInv'
  BY <1>2, <1>3, <1>6 DEF IInv, KeyInv, KeyRows
<1> QED BY <1>5, <1>7, <1>8 DEF ProcInv

\* Sending: the forked child holds the one request of the key.
LEMMA SendKeeps ==
  ASSUME IInv, NEW p \in Procs, Send(p)
  PROVE  ExclusiveInv' /\ ProcInv' /\ KeyInv'
<1>1. Working(p) /\ RowsOf(p) /\ Key(p) \in Keys /\ pc[p] = "send"
  BY WorkingRow DEF Send, Working, IInv, ProcInv
<1>2. UNCHANGED <<ledger, requests, outcome>> /\ \A q \in Procs : Key(q)' = Key(q)
  BY DEF Send, Key
<1>3. /\ poster'[Key(p)] = "posting"
      /\ \A j \in Keys : j # Key(p) => poster'[j] = poster[j]
  BY <1>1 DEF Send, IInv, TypeOK
<1>4. pc'[p] = "wait" /\ \A q \in Procs : q # p => pc'[q] = pc[q]
  BY DEF Send, IInv, TypeOK
<1>5. ExclusiveInv' /\ \A q \in Procs : q # p => RowsOf(q)'
  BY <1>1, <1>2, <1>3, <1>4, OwnKeyStep
<1>6. RowsOf(p)'
  BY <1>1, <1>2, <1>4 DEF RowsOf
<1>7. KeyInv'
  BY <1>1, <1>2, <1>3 DEF IInv, KeyInv, KeyRows, RowsOf
<1> QED BY <1>5, <1>6, <1>7 DEF ProcInv

\* The request leaves: whoever works on the key is waiting for it.
LEMMA PostKeeps ==
  ASSUME IInv, NEW k \in Keys, Post(k)
  PROVE  ExclusiveInv' /\ ProcInv' /\ KeyInv'
<1>1. UNCHANGED <<ledger, pc, outcome>> /\ \A q \in Procs : Key(q)' = Key(q)
  BY DEF Post, Key
<1>2. KeyRows(k) /\ poster[k] = "posting" /\ requests[k] = 0
  BY DEF Post, IInv, KeyInv, KeyRows
<1>3. /\ poster'[k] = "posted" /\ requests'[k] = 1
      /\ \A j \in Keys : j # k => poster'[j] = poster[j] /\ requests'[j] = requests[j]
  BY <1>2 DEF Post, IInv, TypeOK
<1>4. ExclusiveInv'
  BY <1>1, SameWorkExclusive DEF IInv, Working
<1>5. ProcInv'
  <2> SUFFICES ASSUME NEW q \in Procs PROVE RowsOf(q)'
    BY DEF ProcInv
  <2>1. RowsOf(q) /\ Key(q) \in Keys
    BY WorkingRow DEF IInv, ProcInv
  <2>2. pc[q] \in {"send", "record"} => Key(q) # k
    BY <1>2, <2>1 DEF RowsOf
  <2> QED BY <1>1, <1>3, <2>1, <2>2 DEF RowsOf
<1>6. KeyInv'
  BY <1>1, <1>2, <1>3 DEF IInv, KeyInv, KeyRows
<1> QED BY <1>4, <1>5, <1>6

\* The sender's child is gone, and its report is about the request.
LEMMA CollectKeeps ==
  ASSUME IInv, NEW p \in Procs, Collect(p)
  PROVE  ExclusiveInv' /\ ProcInv' /\ KeyInv'
<1>1. Working(p) /\ RowsOf(p) /\ Key(p) \in Keys /\ KeyRows(Key(p)) /\ pc[p] = "wait"
  BY WorkingRow DEF Collect, Working, IInv, ProcInv, KeyInv
<1>2. UNCHANGED <<ledger, requests>> /\ \A q \in Procs : Key(q)' = Key(q)
  BY DEF Collect, Key
<1>3. /\ poster'[Key(p)] = "none"
      /\ \A j \in Keys : j # Key(p) => poster'[j] = poster[j]
  BY <1>1 DEF Collect, IInv, TypeOK
<1>4. /\ pc'[p] = "record" /\ outcome'[p] \in Settled
      /\ outcome'[p] # "DELIVERY_UNKNOWN" => poster[Key(p)] = "posted"
      /\ \A q \in Procs : q # p => pc'[q] = pc[q] /\ outcome'[q] = outcome[q]
  BY DEF Collect, IInv, TypeOK
<1>5. ExclusiveInv' /\ \A q \in Procs : q # p => RowsOf(q)'
  BY <1>1, <1>2, <1>3, <1>4, OwnKeyStep
<1>6. RowsOf(p)'
  BY <1>1, <1>2, <1>3, <1>4 DEF RowsOf, KeyRows, Settled
<1>7. KeyInv'
  BY <1>2, <1>3 DEF IInv, KeyInv, KeyRows
<1> QED BY <1>5, <1>6, <1>7 DEF ProcInv

\* The outcome is recorded: it says of the request what is so.
LEMMA RecordKeeps ==
  ASSUME IInv, NEW p \in Procs, Record(p)
  PROVE  ExclusiveInv' /\ ProcInv' /\ KeyInv'
<1>1. Working(p) /\ RowsOf(p) /\ Key(p) \in Keys /\ KeyRows(Key(p)) /\ pc[p] = "record"
  BY WorkingRow DEF Record, Working, IInv, ProcInv, KeyInv
<1>2. NextSink(p) /\ UNCHANGED <<poster, requests>>
  BY DEF Record
<1>3. ~Working(p)'
  BY <1>2, NextSinkFrame DEF IInv, Working
<1>4. \A q \in Procs : q # p =>
        pc'[q] = pc[q] /\ Key(q)' = Key(q) /\ outcome'[q] = outcome[q]
  BY <1>2, NextSinkFrame DEF IInv, Key
<1>5. /\ ledger'[Key(p)] = outcome[p]
      /\ \A j \in Keys : j # Key(p) => ledger'[j] = ledger[j]
  BY <1>1 DEF Record, IInv, TypeOK
<1>6. ExclusiveInv' /\ \A q \in Procs : q # p => RowsOf(q)'
  BY <1>1, <1>2, <1>3, <1>4, <1>5, OwnKeyStep
<1>7. RowsOf(p)'
  BY <1>3 DEF RowsOf, Working
<1>8. outcome[p] \in Settled \cup {"CONFIGURATION_ERROR"}
  BY DEF IInv, TypeOK
<1>9. PICK k \in Keys : k = Key(p)
  BY <1>1
<1>10. KeyRows(k)'
  BY <1>1, <1>2, <1>5, <1>8, <1>9 DEF KeyRows, RowsOf, Settled
<1>11. KeyInv'
  <2> SUFFICES ASSUME NEW j \in Keys, j # k PROVE KeyRows(j)'
    BY <1>10 DEF KeyInv
  <2>1. KeyRows(j) /\ ledger'[j] = ledger[j]
    BY <1>5, <1>9 DEF IInv, KeyInv
  <2> QED BY <1>2, <2>1 DEF KeyRows
<1> QED BY <1>6, <1>7, <1>11 DEF ProcInv

\* Every step keeps the inductive invariant.
LEMMA StepKeeps == IInv /\ [Next]_vars => IInv'
<1> SUFFICES ASSUME IInv, [Next]_vars PROVE IInv'
  OBVIOUS
<1>1. TypeOK'
  BY TypeInvariant DEF IInv
<1> DEFINE Rest == ExclusiveInv /\ ProcInv /\ KeyInv
<1>2. ASSUME NEW p \in Procs, Enter(p) PROVE LockInv' /\ Rest'
  <2>1. LockInv'
    BY <1>2, NotifyAssumption DEF Enter, LockInv, IInv, TypeOK
  <2>2. Rest'
    BY <1>2, QuietStep DEF Enter, Working, Key
  <2> QED BY <2>1, <2>2
<1>3. ASSUME NEW p \in Procs, LockTimeout(p) PROVE LockInv' /\ Rest'
  <2>1. /\ UNCHANGED <<ledger, seen, lock, poster, requests>>
        /\ lock # p
        /\ pc'[p] = "idle"
        /\ \A q \in Procs : q # p =>
             pc'[q] = pc[q] /\ Key(q)' = Key(q) /\ outcome'[q] = outcome[q]
    BY <1>3 DEF LockTimeout, Return, Key, IInv, TypeOK
  <2>2. LockInv'
    BY <2>1 DEF LockInv, IInv
  <2>3. Rest'
    BY <2>1, QuietStep DEF Working
  <2> QED BY <2>2, <2>3
<1>4. ASSUME NEW p \in Procs, Observe(p) PROVE LockInv' /\ Rest'
  <2>1. LockInv'
    BY <1>4, NotifyAssumption DEF Observe, LockInv
  <2>2. Rest'
    <3>1. pc'[p] = "decide" /\ \A q \in Procs : q # p => pc'[q] = pc[q]
      BY <1>4 DEF Observe, IInv, TypeOK
    <3> QED BY <1>4, <3>1, QuietStep DEF Observe, Working, Key
  <2> QED BY <2>1, <2>2
<1>5. ASSUME NEW p \in Procs, SkipDuplicate(p) PROVE LockInv' /\ Rest'
  <2>1. LockInv'
    BY <1>5, LeaveLock, NotifyAssumption DEF SkipDuplicate
  <2>2. Rest'
    <3>1. NextSink(p) /\ UNCHANGED <<ledger, poster, requests>>
      BY <1>5 DEF SkipDuplicate
    <3>2. ~Working(p)' /\ \A q \in Procs : q # p =>
            pc'[q] = pc[q] /\ Key(q)' = Key(q) /\ outcome'[q] = outcome[q]
      BY <3>1, NextSinkFrame DEF IInv, Working, Key
    <3> QED BY <3>1, <3>2, QuietStep DEF Working
  <2> QED BY <2>1, <2>2
<1>6. ASSUME NEW p \in Procs, Suppress(p) PROVE LockInv' /\ Rest'
  BY <1>6, LeaveLock, NotifyAssumption, SuppressKeeps DEF Suppress
<1>7. ASSUME NEW p \in Procs, Reserve(p) PROVE LockInv' /\ Rest'
  BY <1>7, LeaveLock, NotifyAssumption, ReserveKeeps DEF Reserve
<1>8. ASSUME NEW p \in Procs, Configure(p) PROVE LockInv' /\ Rest'
  <2>1. LockInv'
    BY <1>8 DEF Configure, LockInv, AtLedger, IInv, TypeOK
  <2> QED BY <1>8, <2>1, ConfigureKeeps
<1>9. ASSUME NEW p \in Procs, Mark(p) PROVE LockInv' /\ Rest'
  BY <1>9, LeaveLock, NotifyAssumption, MarkKeeps DEF Mark
<1>10. ASSUME NEW p \in Procs, Send(p) PROVE LockInv' /\ Rest'
  <2>1. LockInv'
    BY <1>10 DEF Send, LockInv, AtLedger, IInv, TypeOK
  <2> QED BY <1>10, <2>1, SendKeeps
<1>11. ASSUME NEW p \in Procs, Collect(p) PROVE LockInv' /\ Rest'
  <2>1. LockInv'
    BY <1>11 DEF Collect, LockInv, AtLedger, IInv, TypeOK
  <2> QED BY <1>11, <2>1, CollectKeeps
<1>12. ASSUME NEW p \in Procs, Record(p) PROVE LockInv' /\ Rest'
  BY <1>12, LeaveLock, NotifyAssumption, RecordKeeps DEF Record
<1>13. ASSUME NEW p \in Procs, Crash(p) PROVE LockInv' /\ Rest'
  <2>1. /\ UNCHANGED <<ledger, poster, requests>>
        /\ lock' = IF lock = p THEN NoProc ELSE lock
        /\ pc'[p] = "idle"
        /\ \A q \in Procs : q # p =>
             /\ pc'[q] = pc[q] /\ seen'[q] = seen[q]
             /\ Key(q)' = Key(q) /\ outcome'[q] = outcome[q]
    BY <1>13 DEF Crash, Return, Key, IInv, TypeOK
  <2>2. LockInv'
    BY <2>1, NotifyAssumption DEF LockInv, IInv
  <2>3. Rest'
    BY <2>1, QuietStep DEF Working
  <2> QED BY <2>2, <2>3
<1>14. ASSUME NEW p \in Procs, NEW e \in Events, Start(p, e) PROVE LockInv' /\ Rest'
  <2>1. /\ UNCHANGED <<ledger, seen, lock, outcome, poster, requests>>
        /\ pc[p] = "idle" /\ pc'[p] = "observe"
        /\ \A q \in Procs : q # p => pc'[q] = pc[q] /\ Key(q)' = Key(q)
    BY <1>14 DEF Start, Key, IInv, TypeOK
  <2>2. LockInv'
    BY <2>1 DEF LockInv, AtLedger, IInv
  <2>3. Rest'
    BY <2>1, QuietStep DEF Working
  <2> QED BY <2>2, <2>3
<1>15. ASSUME NEW k \in Keys, Post(k) PROVE LockInv' /\ Rest'
  <2>1. LockInv'
    BY <1>15 DEF Post, LockInv, IInv
  <2> QED BY <1>15, <2>1, PostKeeps
<1>16. ASSUME NEW k \in Keys, Age(k) PROVE LockInv' /\ Rest'
  <2>1. LockInv'
    BY <1>16 DEF Age, LockInv, IInv
  <2> QED BY <1>16, <2>1, QuietStep DEF Age, Working, Key
<1>17. ASSUME UNCHANGED vars PROVE LockInv' /\ Rest'
  <2>1. LockInv'
    BY <1>17 DEF vars, LockInv, IInv
  <2> QED BY <1>17, <2>1, QuietStep DEF vars, Working, Key
<1>18. LockInv' /\ Rest'
  BY <1>2, <1>3, <1>4, <1>5, <1>6, <1>7, <1>8, <1>9, <1>10, <1>11, <1>12,
     <1>13, <1>14, <1>15, <1>16, <1>17 DEF Next, Work
<1> QED BY <1>1, <1>18 DEF IInv

\* The invariant holds in every reachable state.
THEOREM Invariance == Spec => []IInv
<1>1. Init => IInv
  <2> SUFFICES ASSUME Init PROVE IInv
    OBVIOUS
  <2>1. AnyEvent \in Events /\ 1 \in Sinks /\ NoRows \in [Keys -> Rows]
    BY NotifyAssumption DEF AnyEvent, Sinks, NoRows, Rows
  <2>2. TypeOK
    BY <2>1 DEF Init, TypeOK, Settled
  <2>3. LockInv /\ ExclusiveInv /\ ProcInv
    BY NotifyAssumption DEF Init, LockInv, ExclusiveInv, ProcInv, RowsOf, Working
  <2>4. KeyInv
    BY DEF Init, KeyInv, KeyRows, NoRows
  <2> QED BY <2>2, <2>3, <2>4 DEF IInv
<1> QED BY <1>1, StepKeeps, PTL DEF Spec

\* Every variable of the delivery keeps its type.
THEOREM TypeCorrect == Spec => []TypeOK
<1>1. IInv => TypeOK
  BY DEF IInv
<1> QED BY <1>1, Invariance, PTL

\* No event is sent to a sink twice (notify, bounded_send).
THEOREM OneRequest == Spec => []AtMostOneRequest
<1>1. IInv => AtMostOneRequest
  BY DEF IInv, KeyInv, KeyRows, AtMostOneRequest
<1> QED BY <1>1, Invariance, PTL

\* The rows of delivery.jsonl say of each request what is so.
THEOREM LedgerIsTrue == Spec => []LedgerTruth
<1>1. IInv => LedgerTruth
  BY DEF IInv, KeyInv, KeyRows, LedgerTruth
<1> QED BY <1>1, Invariance, PTL

-----------------------------------------------------------------------------
(* The refinement                                                          *)

\* A row changed in a key changes that key's stage.
LEMMA StageOfRow ==
  ASSUME TypeOK, NEW k \in Keys, NEW row \in Rows,
         ledger' = [ledger EXCEPT ![k] = row]
  PROVE  [j \in Keys |-> Stage(ledger[j])]'
           = [[j \in Keys |-> Stage(ledger[j])] EXCEPT ![k] = Stage(row)]
BY DEF TypeOK

\* The stages of the rows.
LEMMA Stages ==
  /\ Stage("ABSENT") = "open"
  /\ Stage("RESERVED") = "reserved" /\ Stage("ATTEMPTED") = "reserved"
  /\ \A row \in Settled \cup {"SUPPRESSED", "CONFIGURATION_ERROR"} : Stage(row) = "closed"
BY DEF Stage, Settled

\* A last row on a key that has none closes it.
LEMMA ClosingRow ==
  ASSUME TypeOK, NEW k \in Keys, NEW row \in Settled \cup {"SUPPRESSED", "CONFIGURATION_ERROR"},
         ledger[k] \in {"ABSENT", "RESERVED", "ATTEMPTED"},
         ledger' = [ledger EXCEPT ![k] = row], requests' = requests
  PROVE  Delivery!Close(k)
<1>1. Stage(row) = "closed" /\ Stage(ledger[k]) # "closed"
  BY Stages
<1>2. row \in Rows
  BY DEF Rows, Settled
<1>3. [j \in Keys |-> Stage(ledger[j])]'
        = [[j \in Keys |-> Stage(ledger[j])] EXCEPT ![k] = "closed"]
  BY <1>1, <1>2, StageOfRow
<1>4. [j \in Keys |-> Stage(ledger[j])][k] # "closed"
  BY <1>1
<1> QED BY <1>3, <1>4 DEF Delivery!Close

\* Every step is a step of AtMostOnce or none that it sees.
LEMMA StepMaps ==
  IInv /\ [Next]_vars
    => [Delivery!Next]_<<[k \in Keys |-> Stage(ledger[k])], requests>>
<1> SUFFICES ASSUME IInv, [Next]_vars
             PROVE  [Delivery!Next]_<<[k \in Keys |-> Stage(ledger[k])], requests>>
  OBVIOUS
<1> DEFINE Goal == [Delivery!Next]_<<[k \in Keys |-> Stage(ledger[k])], requests>>
<1>1. UNCHANGED <<ledger, requests>> => Goal
  OBVIOUS
<1>2. ASSUME NEW p \in Procs, Suppress(p) PROVE Goal
  <2>1. Key(p) \in Keys /\ ledger[Key(p)] = "ABSENT" /\ lock = p
    <3>1. lock = p /\ seen[p][Key(p)] = "ABSENT"
      BY <1>2 DEF Suppress, Leave, Duplicate
    <3> QED BY <3>1, WorkingRow DEF IInv, LockInv
  <2>2. ledger' = [ledger EXCEPT ![Key(p)] = "SUPPRESSED"] /\ requests' = requests
    BY <1>2 DEF Suppress
  <2>3. PICK k \in Keys : k = Key(p)
    BY <2>1
  <2>4. Delivery!Close(k)
    BY <2>1, <2>2, <2>3, ClosingRow DEF IInv
  <2> QED BY <2>4 DEF Delivery!Next
<1>3. ASSUME NEW p \in Procs, Reserve(p) PROVE Goal
  <2>1. Key(p) \in Keys /\ ledger[Key(p)] = "ABSENT"
    <3>1. lock = p /\ seen[p][Key(p)] = "ABSENT"
      BY <1>3 DEF Reserve, Leave, Duplicate
    <3> QED BY <3>1, WorkingRow DEF IInv, LockInv
  <2>2. ledger' = [ledger EXCEPT ![Key(p)] = "RESERVED"] /\ requests' = requests
    BY <1>3 DEF Reserve
  <2>3. PICK k \in Keys : k = Key(p)
    BY <2>1
  <2>4. [j \in Keys |-> Stage(ledger[j])]'
          = [[j \in Keys |-> Stage(ledger[j])] EXCEPT ![k] = "reserved"]
    <3>1. "RESERVED" \in Rows /\ Stage("RESERVED") = "reserved"
      BY Stages DEF Rows
    <3> QED BY <2>2, <2>3, <3>1, StageOfRow DEF IInv
  <2>5. Delivery!Reserve(k)
    <3>1. [j \in Keys |-> Stage(ledger[j])][k] = "open"
      BY <2>1, <2>3, Stages
    <3> QED BY <2>2, <2>4, <3>1 DEF Delivery!Reserve
  <2> QED BY <2>5 DEF Delivery!Next
<1>4. ASSUME NEW p \in Procs, Mark(p) PROVE Goal
  <2>1. Key(p) \in Keys /\ ledger[Key(p)] = "RESERVED"
    BY <1>4, WorkingRow DEF Mark, IInv, ProcInv, RowsOf
  <2>2. ledger' = [ledger EXCEPT ![Key(p)] = "ATTEMPTED"] /\ requests' = requests
    BY <1>4 DEF Mark
  <2>3. [k \in Keys |-> Stage(ledger[k])]' = [k \in Keys |-> Stage(ledger[k])]
    BY <2>1, <2>2 DEF Stage, IInv, TypeOK
  <2> QED BY <2>2, <2>3
<1>5. ASSUME NEW p \in Procs, Record(p) PROVE Goal
  <2>1. /\ Key(p) \in Keys
        /\ ledger[Key(p)] \in {"RESERVED", "ATTEMPTED"}
        /\ outcome[p] \in Settled \cup {"CONFIGURATION_ERROR"}
    BY <1>5, WorkingRow DEF Record, Working, IInv, TypeOK
  <2>2. ledger' = [ledger EXCEPT ![Key(p)] = outcome[p]] /\ requests' = requests
    BY <1>5 DEF Record
  <2>3. PICK k \in Keys : k = Key(p)
    BY <2>1
  <2>4. Delivery!Close(k)
    BY <2>1, <2>2, <2>3, ClosingRow DEF IInv
  <2> QED BY <2>4 DEF Delivery!Next
<1>6. ASSUME NEW k \in Keys, Post(k) PROVE Goal
  <2>1. ledger[k] = "ATTEMPTED" /\ requests[k] = 0 /\ ledger' = ledger
    BY <1>6 DEF Post, IInv, KeyInv, KeyRows
  <2>2. requests' = [requests EXCEPT ![k] = 1]
    BY <1>6, <2>1 DEF Post, IInv, TypeOK
  <2>3. Delivery!Dispatch(k)
    BY <2>1, <2>2 DEF Delivery!Dispatch, Stage
  <2> QED BY <2>3 DEF Delivery!Next
<1>7. ASSUME NEW p \in Procs,
             Enter(p) \/ LockTimeout(p) \/ Observe(p) \/ SkipDuplicate(p)
               \/ Configure(p) \/ Send(p) \/ Collect(p) \/ Crash(p)
      PROVE  Goal
  BY <1>1, <1>7 DEF Enter, LockTimeout, Observe, SkipDuplicate, Configure, Send,
                    Collect, Crash
<1>8. ASSUME NEW p \in Procs, NEW e \in Events, Start(p, e) PROVE Goal
  BY <1>1, <1>8 DEF Start
<1>9. ASSUME NEW k \in Keys, Age(k) PROVE Goal
  BY <1>1, <1>9 DEF Age
<1>10. ASSUME UNCHANGED vars PROVE Goal
  BY <1>1, <1>10 DEF vars
<1> QED
  BY <1>2, <1>3, <1>4, <1>5, <1>6, <1>7, <1>8, <1>9, <1>10 DEF Next, Work

\* Notification delivery reserves, dispatches at most once and closes each
\* key (notify implements the promise of AtMostOnce).
THEOREM Refinement == Spec => ImplementsAtMostOnce
<1>1. Init => Delivery!Init
  BY DEF Init, Delivery!Init, NoRows, Stage
<1> QED
  BY <1>1, StepMaps, Invariance, PTL DEF Spec, ImplementsAtMostOnce, Delivery!Spec

-----------------------------------------------------------------------------
(* Silenced turns and covered sinks                                        *)

\* Rows come, and settle; only Suppress writes a suppression.
LEMMA RowsMove ==
  ASSUME IInv, [Next]_vars, NEW k \in Keys
  PROVE  \/ ledger'[k] = ledger[k]
         \/ /\ ledger[k] \in {"ABSENT", "RESERVED", "ATTEMPTED"}
            /\ ledger'[k] # "ABSENT"
            /\ ledger'[k] = "SUPPRESSED" =>
                 \E p \in Procs : Suppress(p) /\ k = Key(p)
<1> DEFINE Goal ==
      \/ ledger'[k] = ledger[k]
      \/ /\ ledger[k] \in {"ABSENT", "RESERVED", "ATTEMPTED"}
         /\ ledger'[k] # "ABSENT"
         /\ ledger'[k] = "SUPPRESSED" =>
              \E p \in Procs : Suppress(p) /\ k = Key(p)
<1>1. ASSUME NEW p \in Procs, Suppress(p) \/ Reserve(p) PROVE Goal
  <2>1. lock = p /\ seen[p][Key(p)] = "ABSENT"
    BY <1>1 DEF Suppress, Reserve, Leave, Duplicate
  <2>2. ledger[Key(p)] = "ABSENT"
    BY <2>1 DEF IInv, LockInv
  <2> QED BY <1>1, <2>2 DEF Suppress, Reserve, IInv, TypeOK
<1>2. ASSUME NEW p \in Procs, Mark(p) \/ Record(p) PROVE Goal
  <2>1. Working(p)
    BY <1>2 DEF Mark, Record, Working
  <2>2. outcome[p] \in Settled \cup {"CONFIGURATION_ERROR"}
    BY DEF IInv, TypeOK
  <2> QED BY <1>2, <2>1, <2>2, WorkingRow DEF Mark, Record, Settled, IInv, TypeOK
<1>3. ASSUME NEW p \in Procs,
             Enter(p) \/ LockTimeout(p) \/ Observe(p) \/ SkipDuplicate(p)
               \/ Configure(p) \/ Send(p) \/ Collect(p) \/ Crash(p)
      PROVE  Goal
  BY <1>3 DEF Enter, LockTimeout, Observe, SkipDuplicate, Configure, Send,
              Collect, Crash
<1>4. ASSUME NEW p \in Procs, NEW e \in Events, Start(p, e) PROVE Goal
  BY <1>4 DEF Start
<1>5. ASSUME NEW j \in Keys, Post(j) \/ Age(j) PROVE Goal
  BY <1>5 DEF Post, Age
<1>6. ASSUME UNCHANGED vars PROVE Goal
  BY <1>6 DEF vars
<1> QED BY <1>1, <1>2, <1>3, <1>4, <1>5, <1>6 DEF Next, Work

\* A turn is silenced on a sink only after that sink accepted the terminal of
\* its run (HARNESS_TERMINAL_SUPPRESSED in notify).
THEOREM SilenceEarned == Spec => []SilenceIsEarned
<1>1. Init => SilenceIsEarned
  BY DEF Init, SilenceIsEarned, NoRows, Keys
<1>2. SilenceIsEarned /\ IInv /\ [Next]_vars => SilenceIsEarned'
  <2> SUFFICES ASSUME SilenceIsEarned, IInv, [Next]_vars,
                      NEW e \in Events, NEW s \in Sinks,
                      ledger'[<<e, s>>] = "SUPPRESSED"
               PROVE  /\ e \in TurnEvents
                      /\ \E f \in BatchEvents :
                           <<e, f>> \in SameRun /\ ledger'[<<f, s>>] = "SENT"
    BY DEF SilenceIsEarned
  <2>1. \A f \in BatchEvents : ledger[<<f, s>>] = "SENT" => ledger'[<<f, s>>] = "SENT"
    <3> SUFFICES ASSUME NEW f \in BatchEvents, ledger[<<f, s>>] = "SENT"
                 PROVE  ledger'[<<f, s>>] = "SENT"
      OBVIOUS
    <3>1. <<f, s>> \in Keys
      BY NotifyAssumption DEF Keys
    <3> QED BY <3>1, RowsMove
  <2>2. CASE ledger[<<e, s>>] = "SUPPRESSED"
    BY <2>1, <2>2 DEF SilenceIsEarned
  <2>3. CASE ledger[<<e, s>>] # "SUPPRESSED"
    <3>1. <<e, s>> \in Keys
      BY DEF Keys
    <3>2. PICK p \in Procs : Suppress(p) /\ <<e, s>> = Key(p)
      BY <2>3, <3>1, RowsMove
    <3>3. e = event[p] /\ s = sink[p]
      BY <3>2 DEF Key
    <3>4. lock = p /\ Confirmed(p)
      BY <3>2 DEF Suppress, Leave
    <3>5. seen[p] = ledger
      BY <3>4 DEF IInv, LockInv
    <3> QED BY <2>1, <3>3, <3>4, <3>5 DEF Confirmed
  <2> QED BY <2>2, <2>3
<1> QED BY <1>1, <1>2, Invariance, PTL DEF Spec

\* The sinks before the one a process has reached have their rows.
CoverInv ==
  /\ \A p \in Procs : pc[p] \in {"idle", "observe"} => sink[p] = 1
  /\ \A p \in Procs, s \in Sinks :
       s < sink[p] => ledger[<<event[p], s>>] # "ABSENT"
  /\ ProcessedCoversAllSinks

\* Going on from a sink that has its row.
LEMMA NextSinkCovers ==
  ASSUME IInv, CoverInv, [Next]_vars, NEW p \in Procs, NextSink(p),
         ledger'[Key(p)] # "ABSENT"
  PROVE  CoverInv'
<1>1. \A k \in Keys : ledger[k] # "ABSENT" => ledger'[k] # "ABSENT"
  BY RowsMove
<1>2. \A e \in Events, s \in Sinks : <<e, s>> \in Keys
  BY DEF Keys
<1>3. \A q \in Procs : q # p => pc'[q] = pc[q] /\ sink'[q] = sink[q] /\ event'[q] = event[q]
  BY NextSinkFrame DEF IInv
<1>4. \A q \in Procs : event[q] \in Events /\ sink[q] \in Sinks
  BY DEF IInv, TypeOK
<1>5. \A s \in Sinks : s < sink[p] + 1 => ledger'[<<event[p], s>>] # "ABSENT"
  <2> SUFFICES ASSUME NEW s \in Sinks, s < sink[p] + 1
               PROVE  ledger'[<<event[p], s>>] # "ABSENT"
    OBVIOUS
  <2>1. CASE s < sink[p]
    BY <2>1, <1>1, <1>2, <1>4 DEF CoverInv
  <2>2. CASE s = sink[p]
    BY <2>2 DEF Key
  <2> QED BY <1>4, <2>1, <2>2 DEF Sinks
<1>6. CASE sink[p] < NumSinks
  <2>1. /\ sink'[p] = sink[p] + 1 /\ pc'[p] = "decide"
        /\ event' = event /\ done' = done
    BY <1>6 DEF NextSink, IInv, TypeOK
  <2>2. \A q \in Procs, s \in Sinks :
          s < sink'[q] => ledger'[<<event'[q], s>>] # "ABSENT"
    BY <1>1, <1>2, <1>3, <1>4, <1>5, <2>1 DEF CoverInv
  <2>3. ProcessedCoversAllSinks'
    BY <1>1, <1>2, <2>1 DEF CoverInv, ProcessedCoversAllSinks, IInv, TypeOK
  <2> QED BY <1>3, <2>1, <2>2, <2>3 DEF CoverInv
<1>7. CASE ~(sink[p] < NumSinks)
  <2>1. Return(p) /\ done' = done \cup {event[p]}
    BY <1>7 DEF NextSink
  <2>2. sink'[p] = 1 /\ pc'[p] = "idle"
    BY <2>1 DEF Return, IInv, TypeOK
  <2>3. \A q \in Procs, s \in Sinks :
          s < sink'[q] => ledger'[<<event'[q], s>>] # "ABSENT"
    BY <1>1, <1>2, <1>3, <1>4, <2>2 DEF CoverInv, Sinks
  <2>4. \A s \in Sinks : s < sink[p] + 1
    BY <1>4, <1>7, NotifyAssumption DEF Sinks
  <2>5. ProcessedCoversAllSinks'
    BY <1>1, <1>2, <1>5, <2>1, <2>4 DEF CoverInv, ProcessedCoversAllSinks, IInv, TypeOK
  <2> QED BY <1>3, <2>2, <2>3, <2>5 DEF CoverInv
<1> QED BY <1>6, <1>7

\* Steps within one sink.
LEMMA StayCovers ==
  ASSUME IInv, CoverInv, [Next]_vars, UNCHANGED <<event, sink, done>>,
         \A q \in Procs : pc'[q] \in {"idle", "observe"} => pc[q] \in {"idle", "observe"}
  PROVE  CoverInv'
<1>1. \A k \in Keys : ledger[k] # "ABSENT" => ledger'[k] # "ABSENT"
  BY RowsMove
<1>2. \A e \in Events, s \in Sinks : <<e, s>> \in Keys
  BY DEF Keys
<1>3. (\A q \in Procs : event[q] \in Events) /\ done \subseteq Events
  BY DEF IInv, TypeOK
<1>4. ProcessedCoversAllSinks'
  BY <1>1, <1>2, <1>3 DEF CoverInv, ProcessedCoversAllSinks
<1> QED BY <1>1, <1>2, <1>3, <1>4 DEF CoverInv

\* A process that stops starts anew.
LEMMA ReturnCovers ==
  ASSUME IInv, CoverInv, NEW p \in Procs, Return(p), UNCHANGED <<ledger, done>>
  PROVE  CoverInv'
<1>1. sink'[p] = 1 /\ \A q \in Procs : q # p =>
        pc'[q] = pc[q] /\ sink'[q] = sink[q] /\ event'[q] = event[q]
  BY DEF Return, IInv, TypeOK
<1>2. \A q \in Procs, s \in Sinks : s < sink'[q] => ledger'[<<event'[q], s>>] # "ABSENT"
  BY <1>1 DEF CoverInv, Sinks
<1>3. ProcessedCoversAllSinks'
  BY DEF CoverInv, ProcessedCoversAllSinks
<1> QED BY <1>1, <1>2, <1>3 DEF CoverInv

\* A notify that returns PROCESSED has left a decisive row on every enabled
\* sink (the loop of notify).
THEOREM ProcessedCovers == Spec => []ProcessedCoversAllSinks
<1>1. Init => CoverInv
  BY DEF Init, CoverInv, ProcessedCoversAllSinks, Sinks
<1>2. CoverInv /\ IInv /\ [Next]_vars => CoverInv'
  <2> SUFFICES ASSUME CoverInv, IInv, [Next]_vars PROVE CoverInv'
    OBVIOUS
  <2>1. ASSUME NEW p \in Procs, SkipDuplicate(p) PROVE CoverInv'
    <3>1. lock = p /\ seen[p][Key(p)] # "ABSENT" /\ ledger' = ledger
      BY <2>1 DEF SkipDuplicate, Leave, Duplicate
    <3>2. ledger'[Key(p)] # "ABSENT"
      BY <3>1 DEF IInv, LockInv
    <3> QED BY <2>1, <3>2, NextSinkCovers DEF SkipDuplicate
  <2>2. ASSUME NEW p \in Procs, Suppress(p) PROVE CoverInv'
    <3>1. ledger'[Key(p)] = "SUPPRESSED"
      BY <2>2, WorkingRow DEF Suppress, IInv, TypeOK
    <3> QED BY <2>2, <3>1, NextSinkCovers DEF Suppress
  <2>3. ASSUME NEW p \in Procs, Record(p) PROVE CoverInv'
    <3>1. outcome[p] # "ABSENT"
      BY DEF IInv, TypeOK, Settled
    <3>2. ledger'[Key(p)] # "ABSENT"
      BY <2>3, <3>1, WorkingRow DEF Record, IInv, TypeOK
    <3> QED BY <2>3, <3>2, NextSinkCovers DEF Record
  <2>4. ASSUME NEW p \in Procs, LockTimeout(p) \/ Crash(p) PROVE CoverInv'
    BY <2>4, ReturnCovers DEF LockTimeout, Crash
  <2>5. ASSUME NEW p \in Procs, NEW e \in Events, Start(p, e) PROVE CoverInv'
    <3>1. /\ pc[p] = "idle" /\ event'[p] = e /\ UNCHANGED <<ledger, sink, done>>
          /\ \A q \in Procs : q # p => pc'[q] = pc[q] /\ event'[q] = event[q]
      BY <2>5 DEF Start, IInv, TypeOK
    <3>2. sink[p] = 1
      BY <3>1 DEF CoverInv
    <3>3. \A q \in Procs, s \in Sinks : s < sink'[q] => ledger'[<<event'[q], s>>] # "ABSENT"
      BY <3>1, <3>2 DEF CoverInv, Sinks
    <3> QED BY <3>1, <3>2, <3>3 DEF CoverInv, ProcessedCoversAllSinks
  <2>6. ASSUME NEW p \in Procs, Observe(p) \/ Reserve(p) \/ Configure(p) \/ Mark(p)
                                   \/ Send(p) \/ Collect(p)
        PROVE  CoverInv'
    <3>1. /\ UNCHANGED <<event, sink, done>>
          /\ pc'[p] \notin {"idle", "observe"}
          /\ \A q \in Procs : q # p => pc'[q] = pc[q]
      BY <2>6 DEF Observe, Reserve, Configure, Mark, Send, Collect, IInv, TypeOK
    <3> QED BY <3>1, StayCovers
  <2>7. ASSUME NEW p \in Procs, Enter(p) PROVE CoverInv'
    BY <2>7, StayCovers DEF Enter
  <2>8. ASSUME NEW k \in Keys, Post(k) \/ Age(k) PROVE CoverInv'
    BY <2>8, StayCovers DEF Post, Age
  <2>9. ASSUME UNCHANGED vars PROVE CoverInv'
    BY <2>9, StayCovers DEF vars
  <2> QED
    BY <2>1, <2>2, <2>3, <2>4, <2>5, <2>6, <2>7, <2>8, <2>9 DEF Next, Work
<1>3. CoverInv => ProcessedCoversAllSinks
  BY DEF CoverInv
<1> QED BY <1>1, <1>2, <1>3, Invariance, PTL DEF Spec
=============================================================================
