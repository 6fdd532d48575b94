---------------------------- MODULE NotifyLedger ----------------------------
(***************************************************************************)
(* Notification delivery: notify() of notifications/core.py run by several *)
(* short-lived processes (hooks, batch terminals, the bridge) that share   *)
(* one append-only ledger file under an flock, and bounded_send of         *)
(* notifications/sinks.py.                                                 *)
(*                                                                         *)
(* The ledger is kept, per event and sink, as its last row that is not a   *)
(* DUPLICATE_SUPPRESSED one: that row is what decides every later notify.  *)
(* The 300-second window of the terminal suppression is the set fresh of   *)
(* SENT rows still inside it.                                              *)
(***************************************************************************)
EXTENDS Integers

CONSTANTS
  Procs,       \* processes that call notify
  NoProc,      \* "nobody"
  Events,      \* notification events, by event_id
  BatchEvents, \* those of kind batch_completed or batch_failed
  TurnEvents,  \* those of kind turn_completed
  SameRun,     \* pairs of events that agree on session, turn and run
  NumSinks     \* enabled sinks of the configuration, in its order

ASSUME NotifyAssumption ==
  /\ NoProc \notin Procs
  /\ Events # {}
  /\ BatchEvents \subseteq Events
  /\ TurnEvents \subseteq Events
  /\ BatchEvents \cap TurnEvents = {}
  /\ NumSinks \in Nat \ {0}

VARIABLES
  lock,      \* holder of the flock on delivery.jsonl
  ledger,    \* last decisive row of each event and sink
  fresh,     \* keys whose SENT row is at most 300 seconds old
  pc,        \* where each process is in notify
  event,     \* the event it notifies
  sink,      \* the sink its loop has reached
  seen,      \* the rows it read when it took the lock
  outcome,   \* what its sender returned
  done,      \* events for which some notify returned PROCESSED
  poster,    \* the forked child of bounded_send: none, posting, posted
  requests   \* requests that have left for each event and sink

vars == <<lock, ledger, fresh, pc, event, sink, seen, outcome, done, poster,
          requests>>

AnyEvent == CHOOSE e \in Events : TRUE  \* of an idle process

Sinks == 1..NumSinks
Keys  == Events \X Sinks

Settled  == {"SENT", "FAILED", "DELIVERY_UNKNOWN"}
Rows     == Settled \cup {"ABSENT", "RESERVED", "CONFIGURATION_ERROR",
                          "ATTEMPTED", "SUPPRESSED"}
NoRows   == [k \in Keys |-> "ABSENT"]
AtLedger == {"decide", "mark", "record"}

TypeOK ==
  /\ lock \in Procs \cup {NoProc}
  /\ ledger \in [Keys -> Rows]
  /\ fresh \subseteq Keys
  /\ pc \in [Procs -> AtLedger \cup {"idle", "observe", "configure", "send", "wait"}]
  /\ event \in [Procs -> Events]
  /\ sink \in [Procs -> Sinks]
  /\ seen \in [Procs -> [Keys -> Rows]]
  /\ outcome \in [Procs -> Settled \cup {"CONFIGURATION_ERROR"}]
  /\ done \subseteq Events
  /\ poster \in [Keys -> {"none", "posting", "posted"}]
  /\ requests \in [Keys -> Nat]

Init ==
  /\ lock = NoProc
  /\ ledger = NoRows
  /\ fresh = {}
  /\ pc = [p \in Procs |-> "idle"]
  /\ event = [p \in Procs |-> AnyEvent]
  /\ sink = [p \in Procs |-> 1]
  /\ seen = [p \in Procs |-> NoRows]
  /\ outcome = [p \in Procs |-> "DELIVERY_UNKNOWN"]
  /\ done = {}
  /\ poster = [k \in Keys |-> "none"]
  /\ requests = [k \in Keys |-> 0]

Key(p) == <<event[p], sink[p]>>

-----------------------------------------------------------------------------
(* The ledger's lock                                                       *)

\* ledger(): take the flock, then read and validate the whole history.
Enter(p) ==
  /\ pc[p] \in AtLedger
  /\ lock = NoProc
  /\ lock' = p
  /\ seen' = [seen EXCEPT ![p] = ledger]
  /\ UNCHANGED <<ledger, fresh, pc, event, sink, outcome, done, poster, requests>>

\* The block that holds the lock ends.
Leave(p) ==
  /\ lock = p
  /\ lock' = NoProc
  /\ seen' = [seen EXCEPT ![p] = NoRows]

\* notify returns; what it was doing is forgotten.
Return(p) ==
  /\ event' = [event EXCEPT ![p] = AnyEvent]
  /\ pc' = [pc EXCEPT ![p] = "idle"]
  /\ sink' = [sink EXCEPT ![p] = 1]
  /\ outcome' = [outcome EXCEPT ![p] = "DELIVERY_UNKNOWN"]

\* Faulty form: the lock is waited for without a deadline.
LockWaits(p) == FALSE /\ UNCHANGED vars

\* Another process keeps the lock for 0.1 seconds: BlockingIOError ends the
\* whole notify, the remaining sinks included.
LockTimeout(p) ==
  /\ pc[p] \in AtLedger \cup {"observe"}
  /\ lock \notin {p, NoProc}
  /\ Return(p)
  /\ UNCHANGED <<lock, ledger, fresh, seen, done, poster, requests>>

-----------------------------------------------------------------------------
(* notify                                                                  *)

Start(p, e) ==
  /\ pc[p] = "idle"
  /\ pc' = [pc EXCEPT ![p] = "observe"]
  /\ event' = [event EXCEPT ![p] = e]
  /\ UNCHANGED <<lock, ledger, fresh, sink, seen, outcome, done, poster, requests>>

\* The observed row has no delivery key and decides nothing, so its lock is
\* taken and released in one step.
Observe(p) ==
  /\ pc[p] = "observe"
  /\ lock = NoProc
  /\ pc' = [pc EXCEPT ![p] = "decide"]
  /\ UNCHANGED <<lock, ledger, fresh, event, sink, seen, outcome, done, poster,
                 requests>>

\* Faulty form: the loop runs one sink too far.
NextSinkPastEnd(p) ==
  IF sink[p] <= NumSinks
  THEN /\ sink' = [sink EXCEPT ![p] = @ + 1]
       /\ pc' = [pc EXCEPT ![p] = "decide"]
       /\ outcome' = [outcome EXCEPT ![p] = "DELIVERY_UNKNOWN"]
       /\ UNCHANGED <<event, done>>
  ELSE Return(p) /\ done' = done \cup {event[p]}

\* The loop goes on to the next sink, or notify returns PROCESSED.
NextSink(p) ==
  IF sink[p] < NumSinks
  THEN /\ sink' = [sink EXCEPT ![p] = @ + 1]
       /\ pc' = [pc EXCEPT ![p] = "decide"]
       /\ outcome' = [outcome EXCEPT ![p] = "DELIVERY_UNKNOWN"]
       /\ UNCHANGED <<event, done>>
  ELSE Return(p) /\ done' = done \cup {event[p]}

\* Faulty forms: a reservation alone is not taken for a delivery, and an
\* unconfirmed terminal is enough to suppress.
RecordedOutcomeOnly(p) == seen[p][Key(p)] \notin {"ABSENT", "RESERVED"}
AttemptedTerminal(p) ==
  event[p] \in TurnEvents /\ \E f \in BatchEvents :
    <<event[p], f>> \in SameRun /\ seen[p][<<f, sink[p]>>] # "ABSENT"

\* A harness terminal of the same session, turn and run was accepted by this
\* sink within the window.
Confirmed(p) ==
  /\ event[p] \in TurnEvents
  /\ \E f \in BatchEvents :
       /\ <<event[p], f>> \in SameRun
       /\ seen[p][<<f, sink[p]>>] = "SENT"
       /\ <<f, sink[p]>> \in fresh

Duplicate(p) == seen[p][Key(p)] # "ABSENT"

SkipDuplicate(p) ==
  /\ pc[p] = "decide"
  /\ Duplicate(p)
  /\ Leave(p)
  /\ NextSink(p)
  /\ UNCHANGED <<ledger, fresh, poster, requests>>

Suppress(p) ==
  /\ pc[p] = "decide"
  /\ ~Duplicate(p)
  /\ Confirmed(p)
  /\ ledger' = [ledger EXCEPT ![Key(p)] = "SUPPRESSED"]
  /\ Leave(p)
  /\ NextSink(p)
  /\ UNCHANGED <<fresh, poster, requests>>

\* Faulty form: only the attempt is written down, not the reservation.
ReserveNothing(p) ==
  /\ pc[p] = "decide"
  /\ ~Duplicate(p)
  /\ ~Confirmed(p)
  /\ Leave(p)
  /\ pc' = [pc EXCEPT ![p] = "configure"]
  /\ UNCHANGED <<ledger, fresh, event, sink, outcome, done, poster, requests>>

\* NOT_ATTEMPTED/RESERVED, before any local validation.
Reserve(p) ==
  /\ pc[p] = "decide"
  /\ ~Duplicate(p)
  /\ ~Confirmed(p)
  /\ ledger' = [ledger EXCEPT ![Key(p)] = "RESERVED"]
  /\ Leave(p)
  /\ pc' = [pc EXCEPT ![p] = "configure"]
  /\ UNCHANGED <<fresh, event, sink, outcome, done, poster, requests>>

\* configured_sink accepts the settings, or the outcome is a local rejection.
Configure(p) ==
  /\ pc[p] = "configure"
  /\ \/ /\ pc' = [pc EXCEPT ![p] = "mark"]
        /\ UNCHANGED outcome
     \/ /\ pc' = [pc EXCEPT ![p] = "record"]
        /\ outcome' = [outcome EXCEPT ![p] = "CONFIGURATION_ERROR"]
  /\ UNCHANGED <<lock, ledger, fresh, event, sink, seen, done, poster, requests>>

\* Faulty form: the attempt is not written ahead of the send.
MarkNothing(p) ==
  /\ pc[p] = "mark"
  /\ Leave(p)
  /\ pc' = [pc EXCEPT ![p] = "send"]
  /\ UNCHANGED <<ledger, fresh, event, sink, outcome, done, poster, requests>>

\* DELIVERY_UNKNOWN, attempted: written ahead of the send.
Mark(p) ==
  /\ pc[p] = "mark"
  /\ ledger' = [ledger EXCEPT ![Key(p)] = "ATTEMPTED"]
  /\ Leave(p)
  /\ pc' = [pc EXCEPT ![p] = "send"]
  /\ UNCHANGED <<fresh, event, sink, outcome, done, poster, requests>>

\* bounded_send, without the lock: a forked child will post one request.
Send(p) ==
  /\ pc[p] = "send"
  /\ poster' = [poster EXCEPT ![Key(p)] = "posting"]
  /\ pc' = [pc EXCEPT ![p] = "wait"]
  /\ UNCHANGED <<lock, ledger, fresh, event, sink, seen, outcome, done,
                 requests>>

\* The child's request leaves; the child outlives a parent that dies.
Post(k) ==
  /\ poster[k] = "posting"
  /\ poster' = [poster EXCEPT ![k] = "posted"]
  /\ requests' = [requests EXCEPT ![k] = @ + 1]
  /\ UNCHANGED <<lock, ledger, fresh, pc, event, sink, seen, outcome, done>>

\* The child's report arrives, or the deadline does: the child is killed, with
\* its request sent or not, and the outcome is unknown.
Collect(p) ==
  /\ pc[p] = "wait"
  /\ \E o \in Settled :
       /\ o # "DELIVERY_UNKNOWN" => poster[Key(p)] = "posted"
       /\ outcome' = [outcome EXCEPT ![p] = o]
  /\ poster' = [poster EXCEPT ![Key(p)] = "none"]
  /\ pc' = [pc EXCEPT ![p] = "record"]
  /\ UNCHANGED <<lock, ledger, fresh, event, sink, seen, done, requests>>

Record(p) ==
  /\ pc[p] = "record"
  /\ ledger' = [ledger EXCEPT ![Key(p)] = outcome[p]]
  /\ fresh' = IF outcome[p] = "SENT" THEN fresh \cup {Key(p)} ELSE fresh
  /\ Leave(p)
  /\ NextSink(p)
  /\ UNCHANGED <<poster, requests>>

-----------------------------------------------------------------------------
(* The environment                                                         *)

\* The process dies, the kernel releases its flock.  An exception other than
\* the ones above leaves notify in the same way.
Crash(p) ==
  /\ pc[p] # "idle"
  /\ lock' = IF lock = p THEN NoProc ELSE lock
  /\ seen' = [seen EXCEPT ![p] = NoRows]
  /\ Return(p)
  /\ UNCHANGED <<ledger, fresh, done, poster, requests>>

\* 300 seconds have passed since a SENT row was recorded.
Age(k) ==
  /\ k \in fresh
  /\ fresh' = fresh \ {k}
  /\ UNCHANGED <<lock, ledger, pc, event, sink, seen, outcome, done, poster, requests>>

Work(p) ==
  \/ Enter(p)
  \/ LockTimeout(p)
  \/ Observe(p)
  \/ SkipDuplicate(p)
  \/ Suppress(p)
  \/ Reserve(p)
  \/ Configure(p)
  \/ Mark(p)
  \/ Send(p)
  \/ Collect(p)
  \/ Record(p)

Next ==
  \/ \E p \in Procs : Work(p) \/ Crash(p) \/ \E e \in Events : Start(p, e)
  \/ \E k \in Keys : Post(k) \/ Age(k)

Spec == Init /\ [][Next]_vars

\* A live process keeps running: its waits for the lock and for the sender's
\* child have deadlines.  Nobody owes a call, a crash or a request.
Fairness == \A p \in Procs : WF_vars(Work(p))

FairSpec == Spec /\ Fairness

-----------------------------------------------------------------------------
(* What notify promises                                                    *)

\* Each sink is sent at most one request per event, whatever processes race
\* for it, die, or repeat the call ("never automatically retried").
AtMostOneRequest == \A k \in Keys : requests[k] <= 1

\* The ledger does not lie about the network: NOT_ATTEMPTED and suppressed
\* rows mean nothing was sent, SENT and FAILED that exactly one request was.
\* DELIVERY_UNKNOWN alone leaves it open.
LedgerTruth ==
  \A k \in Keys :
    /\ ledger[k] \in {"ABSENT", "RESERVED", "CONFIGURATION_ERROR", "SUPPRESSED"}
         => requests[k] = 0 /\ poster[k] = "none"
    /\ ledger[k] \in {"SENT", "FAILED"} => requests[k] = 1

\* A turn is silenced on a sink only if that sink accepted the batch terminal
\* of the same session, turn and run (HARNESS_TERMINAL_SUPPRESSED).
SilenceIsEarned ==
  \A e \in Events, s \in Sinks :
    ledger[<<e, s>>] = "SUPPRESSED" =>
      /\ e \in TurnEvents
      /\ \E f \in BatchEvents : <<e, f>> \in SameRun /\ ledger[<<f, s>>] = "SENT"

\* When notify says PROCESSED, every enabled sink has a decisive row for the
\* event: one sink's configuration or transport failure stops no other.
ProcessedCoversAllSinks ==
  \A e \in done, s \in Sinks : ledger[<<e, s>>] # "ABSENT"

\* notify returns: a busy ledger cannot hold up the host's turn.
NotifyReturns == \A p \in Procs : pc[p] # "idle" ~> pc[p] = "idle"

\* The delivery of a key, as AtMostOnce sees it.
Stage(row) ==
  CASE row = "ABSENT" -> "open"
    [] row \in {"RESERVED", "ATTEMPTED"} -> "reserved"
    [] OTHER -> "closed"

Delivery == INSTANCE AtMostOnce WITH
  Items <- Keys,
  stage <- [k \in Keys |-> Stage(ledger[k])],
  sent  <- requests

\* Every step of the processes reserves, closes or dispatches one key, in
\* that order, or does nothing a receiver could see.
ImplementsAtMostOnce == Delivery!Spec
=============================================================================
