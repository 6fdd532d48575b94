---------------------- MODULE CaptureEvaluationProofs -----------------------
(***************************************************************************)
(* Proofs about CaptureEvaluation, for any stream over any alphabet of     *)
(* events: what the one-pass accumulators of _lifecycle_issues and         *)
(* classify_activity hold is said in terms of the events alone, and from   *)
(* that follows what a success, an option and a revalidation mean.         *)
(***************************************************************************)
EXTENDS CaptureEvaluation, TLAPS

Phases     == {"before_thread", "before_turn", "in_turn", "terminal", "stream_failed"}
CallStates == {Unknown, Rejected, Executed, Started}

CaptureTypeOK ==
  /\ protocol \in {"synthetic", "codex-exec", "UNSUPPORTED"}
  /\ events \in Seq(Events)
  /\ life \in [phase : Phases, issues : Nat,
               items : [Ids -> [kind : Kinds, type : ItemTypes \cup {"none"}]],
               diagnostics : SUBSET Nat]
  /\ calls \in [Ids -> [tool : Kinds, states : SUBSET CallStates, closed : BOOLEAN]]
  /\ exempt \in SUBSET Nat

-----------------------------------------------------------------------------
(* The lifecycle, said of a stream s                                       *)

\* An event that may come before the turn (known is Supported).
Excused(known, e) ==
  known /\ e.type = "item.completed" /\ e.kind = "error" /\ e.detail # "malformed"

\* A thread and diagnostics up to the event before t.
Opened(known, s, t) ==
  NamesThread(s[1]) /\ \A i \in 2..(t - 1) : Excused(known, s[i])

\* The turn begins with event t and goes on to event m.
Turns(known, s, t, m) ==
  /\ Opened(known, s, t)
  /\ s[t].type = "turn.started"
  /\ \A i \in (t + 1)..m : s[i].type \in ItemTypes \cup {"other"}

\* The streams without an issue that end in a phase.
Shape(known, s, phase) ==
  \/ phase = "before_thread" /\ Len(s) = 0
  \/ phase = "before_turn" /\ Len(s) >= 1 /\ Opened(known, s, Len(s) + 1)
  \/ phase = "in_turn" /\ \E t \in 2..Len(s) : Turns(known, s, t, Len(s))
  \/ /\ phase = "terminal"
     /\ s[Len(s)].type \in {"turn.completed", "turn.failed"}
     /\ \E t \in 2..(Len(s) - 1) : Turns(known, s, t, Len(s) - 1)

\* Item events i and j of one item, i before j.
Compatible(s, i, j) ==
  /\ s[i].kind = s[j].kind
  /\ s[i].type # "item.completed"
  /\ s[j].type # "item.started"

\* What item i needs before it.
ItemRules(s, i) ==
  IsItem(s[i]) =>
    /\ s[i].id # NoId
    /\ s[i].type = "item.updated" =>
         \E j \in 1..(i - 1) : IsItem(s[j]) /\ s[j].id = s[i].id
    /\ \A j \in 1..(i - 1) : IsItem(s[j]) /\ s[j].id = s[i].id => Compatible(s, j, i)

ItemsOrdered(s) == \A i \in 1..Len(s) : ItemRules(s, i)

\* Event i is the last one of item d.
LastOf(s, d, i) ==
  /\ i \in 1..Len(s) /\ IsItem(s[i]) /\ s[i].id = d
  /\ \A j \in (i + 1)..Len(s) : ~(IsItem(s[j]) /\ s[j].id = d)

\* Indexing a stream with one more event.
LEMMA Appended ==
  ASSUME NEW s \in Seq(Events), NEW e \in Events
  PROVE  /\ Append(s, e) \in Seq(Events)
         /\ Len(s) \in Nat
         /\ Len(Append(s, e)) = Len(s) + 1
         /\ Append(s, e)[Len(s) + 1] = e
         /\ \A i \in 1..Len(s) : Append(s, e)[i] = s[i]
OBVIOUS

\* How shapes grow: the phases of the code, without its bookkeeping.
LEMMA ShapesGrow ==
  ASSUME NEW s \in Seq(Events), NEW e \in Events, NEW known \in BOOLEAN
  PROVE  LET r == Append(s, e)
             S(phase) == Shape(known, s, phase)
         IN  /\ ~Shape(known, r, "before_thread")
             /\ Shape(known, r, "before_turn") <=>
                  \/ S("before_thread") /\ NamesThread(e)
                  \/ S("before_turn") /\ Excused(known, e)
             /\ Shape(known, r, "in_turn") <=>
                  \/ S("before_turn") /\ e.type = "turn.started"
                  \/ S("in_turn") /\ e.type \in ItemTypes \cup {"other"}
             /\ Shape(known, r, "terminal") <=>
                  S("in_turn") /\ e.type \in {"turn.completed", "turn.failed"}
<1> DEFINE r == Append(s, e)
           n == Len(s)
<1>1. /\ n \in Nat /\ Len(r) = n + 1 /\ r[n + 1] = e
      /\ \A i \in 1..n : r[i] = s[i]
  BY Appended
<1> HIDE DEF r, n
<1>2. ASSUME NEW t \in 2..(n + 1)
      PROVE  Opened(known, r, t) <=> Opened(known, s, t)
  BY <1>1 DEF Opened
<1>3. ASSUME NEW t \in 2..n
      PROVE  Turns(known, r, t, n) <=> Turns(known, s, t, n)
  <2>1. t \in 2..(n + 1) /\ r[t] = s[t] /\ \A i \in (t + 1)..n : r[i] = s[i]
    BY <1>1
  <2> QED BY <1>2, <2>1 DEF Turns
<1>4. ~Shape(known, r, "before_thread")
  BY <1>1 DEF Shape
<1>5. Shape(known, r, "before_turn") <=>
        \/ Shape(known, s, "before_thread") /\ NamesThread(e)
        \/ Shape(known, s, "before_turn") /\ Excused(known, e)
  <2>1. Shape(known, r, "before_turn") <=> Opened(known, r, n + 2)
    BY <1>1 DEF Shape
  <2>2. CASE n = 0
    <3>1. Opened(known, r, n + 2) <=> NamesThread(e)
      BY <1>1, <2>2 DEF Opened
    <3>2. Shape(known, s, "before_thread") /\ ~Shape(known, s, "before_turn")
      BY <2>2 DEF Shape, n
    <3> QED BY <2>1, <3>1, <3>2
  <2>3. CASE n >= 1
    <3>1. Opened(known, r, n + 2) <=> Opened(known, r, n + 1) /\ Excused(known, r[n + 1])
      BY <1>1, <2>3 DEF Opened
    <3>2. ~Shape(known, s, "before_thread")
          /\ (Shape(known, s, "before_turn") <=> Opened(known, s, n + 1))
      BY <2>3 DEF Shape, n
    <3> QED BY <1>1, <1>2, <2>1, <2>3, <3>1, <3>2
  <2> QED BY <1>1, <2>2, <2>3
<1>6. Shape(known, r, "in_turn") <=>
        \/ Shape(known, s, "before_turn") /\ e.type = "turn.started"
        \/ Shape(known, s, "in_turn") /\ e.type \in ItemTypes \cup {"other"}
  <2>1. Shape(known, r, "in_turn") <=> \E t \in 2..(n + 1) : Turns(known, r, t, n + 1)
    BY <1>1 DEF Shape
  <2>2. \A t \in 2..n : Turns(known, r, t, n + 1) <=>
          Turns(known, r, t, n) /\ e.type \in ItemTypes \cup {"other"}
    BY <1>1 DEF Turns
  <2>3. n >= 1 => (Turns(known, r, n + 1, n + 1) <=>
          Opened(known, s, n + 1) /\ e.type = "turn.started")
    BY <1>1, <1>2 DEF Turns
  <2>4. (\E t \in 2..(n + 1) : Turns(known, r, t, n + 1)) <=>
          \/ n >= 1 /\ Turns(known, r, n + 1, n + 1)
          \/ \E t \in 2..n : Turns(known, r, t, n + 1)
    BY <1>1
  <2>5. Shape(known, s, "before_turn") <=> n >= 1 /\ Opened(known, s, n + 1)
    BY DEF Shape, n
  <2>6. Shape(known, s, "in_turn") <=> \E t \in 2..n : Turns(known, s, t, n)
    BY DEF Shape, n
  <2> QED BY <1>3, <2>1, <2>2, <2>3, <2>4, <2>5, <2>6
<1>7. Shape(known, r, "terminal") <=>
        Shape(known, s, "in_turn") /\ e.type \in {"turn.completed", "turn.failed"}
  <2>1. Shape(known, r, "terminal") <=>
          /\ e.type \in {"turn.completed", "turn.failed"}
          /\ \E t \in 2..n : Turns(known, r, t, n)
    BY <1>1 DEF Shape
  <2>2. Shape(known, s, "in_turn") <=> \E t \in 2..n : Turns(known, s, t, n)
    BY DEF Shape, n
  <2> QED BY <1>3, <2>1, <2>2
<1> QED BY <1>4, <1>5, <1>6, <1>7 DEF r

-----------------------------------------------------------------------------
(* The inductive invariant                                                 *)

\* items of _lifecycle_issues holds the kind and the type of the last event
\* of each item.
ItemsInv ==
  \A d \in Ids :
    \/ /\ life.items[d] = NoItem
       /\ \A i \in Positions : ~(IsItem(events[i]) /\ events[i].id = d)
    \/ \E i \in Positions :
         /\ LastOf(events, d, i)
         /\ life.items[d] = [kind |-> events[i].kind, type |-> events[i].type]

\* As long as there is no issue, the phase is the shape of the stream, and a
\* stream of a shape with its items in order has no issue.
LifeInv ==
  \A p \in Phases :
    ItemsOrdered(events) /\ Shape(Supported, events, p)
      <=> life.issues = 0 /\ life.phase = p

\* Only error items are passed over as diagnostics.
DiagnosticInv ==
  \A i \in life.diagnostics : i \in Positions /\ events[i].kind = "error"

Rejection(e) == IsItem(e) /\ e.kind = "request_user_input_rejection"

\* A call without a state has seen no rejection, and a rejection is exempt
\* only as the first one of its call.
ExemptInv ==
  /\ \A d \in Ids : calls[d].states = {} =>
       \A i \in Positions : Rejection(events[i]) => events[i].id # d
  /\ \A i \in exempt :
       /\ i \in Positions
       /\ Confirms(events[i])
       /\ events[i].id \in Ids
       /\ \A j \in 1..(i - 1) : Rejection(events[j]) => events[j].id # events[i].id

\* There is a last message as soon as there is a message.
MessageInv == Messages # {} => \E i \in Messages : \A j \in Messages : j <= i

\* Only items with a kind have an id.
AlphabetInv ==
  \A i \in Positions :
    ~IsItem(events[i]) \/ events[i].kind \in Unnamed => events[i].id = NoId

CaptureInv ==
  /\ CaptureTypeOK
  /\ ItemsInv
  /\ LifeInv
  /\ DiagnosticInv
  /\ ExemptInv
  /\ MessageInv
  /\ AlphabetInv

\* What an event is, and where it goes.
LEMMA Emitted ==
  ASSUME CaptureTypeOK, NEW e \in Alphabet, Emit(e)
  PROVE  /\ e \in Events
         /\ events' = Append(events, e)
         /\ events' \in Seq(Events)
         /\ Len(events) \in Nat
         /\ Len(events') = Len(events) + 1
         /\ events'[Len(events) + 1] = e
         /\ \A i \in 1..Len(events) : events'[i] = events[i]
         /\ life' = LifeStep(life, e, Len(events) + 1)
         /\ UNCHANGED protocol
BY Appended, CaptureAssumption DEF Emit, CaptureTypeOK

\* A new event of an item is in order exactly if the last one of that item
\* allows it: order is transitive (ItemConflict looks at the last one only).
LEMMA OrderGrows ==
  ASSUME CaptureTypeOK, ItemsInv, NEW e \in Alphabet, Emit(e)
  PROVE  ItemsOrdered(events') <=>
           ItemsOrdered(events)
             /\ (IsItem(e) => e.id # NoId /\ ~ItemConflict(life.items, e))
<1> DEFINE n == Len(events)
<1>1. /\ e \in Events /\ n \in Nat /\ Len(events') = n + 1 /\ events'[n + 1] = e
      /\ \A i \in 1..n : events'[i] = events[i]
  BY Emitted
<1>2. ASSUME NEW i \in 1..n
      PROVE  ItemRules(events', i) <=> ItemRules(events, i)
  BY <1>1 DEF ItemRules, Compatible
<1>3. ItemsOrdered(events') <=> ItemsOrdered(events) /\ ItemRules(events', n + 1)
  BY <1>1, <1>2 DEF ItemsOrdered
<1>4. ASSUME ItemsOrdered(events), IsItem(e)
      PROVE  ItemRules(events', n + 1) <=> e.id # NoId /\ ~ItemConflict(life.items, e)
  <2>1. ItemRules(events', n + 1) <=>
          /\ e.id # NoId
          /\ e.type = "item.updated" =>
               \E j \in 1..n : IsItem(events[j]) /\ events[j].id = e.id
          /\ \A j \in 1..n : IsItem(events[j]) /\ events[j].id = e.id =>
               /\ events[j].kind = e.kind
               /\ events[j].type # "item.completed"
               /\ e.type # "item.started"
    BY <1>1, <1>4 DEF ItemRules, Compatible
  <2>2. SUFFICES ASSUME e.id # NoId
                 PROVE  ItemRules(events', n + 1) <=> ~ItemConflict(life.items, e)
    BY <2>1
  <2>3. e.id \in Ids
    BY <1>1, <2>2 DEF Events
  <2>4. CASE life.items[e.id] = NoItem
            /\ \A i \in Positions : ~(IsItem(events[i]) /\ events[i].id = e.id)
    BY <2>1, <2>2, <2>4 DEF ItemConflict, Positions
  <2>5. ASSUME NEW i \in Positions, LastOf(events, e.id, i),
               life.items[e.id] = [kind |-> events[i].kind, type |-> events[i].type]
        PROVE  ItemRules(events', n + 1) <=> ~ItemConflict(life.items, e)
    <3>1. i \in 1..n /\ IsItem(events[i]) /\ events[i].id = e.id
      BY <2>5 DEF LastOf
    <3>2. life.items[e.id] # NoItem
      BY <2>5, <3>1 DEF NoItem, IsItem, ItemTypes
    <3>3. ~ItemConflict(life.items, e) <=>
            /\ events[i].kind = e.kind
            /\ events[i].type # "item.completed"
            /\ e.type # "item.started"
      BY <2>5, <3>2 DEF ItemConflict
    <3>4. ASSUME NEW j \in 1..n, IsItem(events[j]), events[j].id = e.id, j # i
          PROVE  events[j].kind = events[i].kind /\ events[j].type # "item.completed"
      <4>1. j \in 1..(i - 1)
        BY <1>1, <2>5, <3>1, <3>4 DEF LastOf
      <4>2. ItemRules(events, i)
        BY <1>4, <3>1 DEF ItemsOrdered
      <4> QED BY <3>1, <3>4, <4>1, <4>2 DEF ItemRules, Compatible
    <3> QED BY <2>1, <2>2, <3>1, <3>3, <3>4
  <2> QED BY <2>3, <2>4, <2>5 DEF ItemsInv
<1>5. ~IsItem(e) => ItemRules(events', n + 1)
  BY <1>1 DEF ItemRules
<1> QED BY <1>3, <1>4, <1>5

\* _lifecycle_issues adds what the declarative rules forbid, and moves on to
\* the phase of the shape.
LEMMA LifeGrows ==
  ASSUME CaptureTypeOK, ItemsInv, LifeInv, NEW e \in Alphabet, Emit(e)
  PROVE  LifeInv'
<1> DEFINE n == Len(events)
           S(p) == Shape(Supported, events, p)
           T(p) == Shape(Supported, events', p)
           allowed == IsItem(e) => e.id # NoId /\ ~ItemConflict(life.items, e)
           bad == Problem(life, e, n + 1)
<1>1. /\ e \in Events /\ n \in Nat /\ events \in Seq(Events)
      /\ events' = Append(events, e)
      /\ life' = LifeStep(life, e, n + 1)
      /\ Supported' = Supported /\ Supported \in BOOLEAN
  BY Emitted DEF CaptureTypeOK, Supported
<1>2. ItemsOrdered(events') <=> ItemsOrdered(events) /\ allowed
  BY OrderGrows
<1>3. /\ ~T("before_thread") /\ ~T("stream_failed")
      /\ T("before_turn") <=> \/ S("before_thread") /\ NamesThread(e)
                              \/ S("before_turn") /\ Excused(Supported, e)
      /\ T("in_turn") <=> \/ S("before_turn") /\ e.type = "turn.started"
                          \/ S("in_turn") /\ e.type \in ItemTypes \cup {"other"}
      /\ T("terminal") <=> S("in_turn") /\ e.type \in {"turn.completed", "turn.failed"}
  <2>1. ~T("stream_failed")
    BY DEF Shape
  <2> QED BY <1>1, <2>1, ShapesGrow
<1>4. life.issues \in Nat /\ life.phase \in Phases
  BY DEF CaptureTypeOK
<1>5. /\ life'.phase = NextPhase(life, e, n + 1)
      /\ life'.issues = life.issues + (IF bad THEN 1 ELSE 0)
  BY <1>1 DEF LifeStep
<1>6. life'.issues = 0 <=> life.issues = 0 /\ ~bad
  <2> HIDE DEF bad
  <2> QED BY <1>4, <1>5
<1>7. ItemsOrdered(events) =>
        \A p \in Phases : S(p) <=> life.issues = 0 /\ life.phase = p
  BY DEF LifeInv
<1>8. life.issues = 0 => ItemsOrdered(events)
  BY <1>4 DEF LifeInv
<1>9. life.phase = "before_thread" /\ life.issues = 0 => n = 0
  BY <1>4, <1>7, <1>8 DEF Shape, Phases
<1>10. ASSUME NEW p \in Phases
       PROVE  ItemsOrdered(events') /\ T(p)
                <=> life'.issues = 0 /\ life'.phase = p
  <2> HIDE DEF S, T
  <2>1. CASE life.issues # 0
    <3>1. ItemsOrdered(events) => \A q \in Phases : ~S(q)
      BY <1>7, <2>1
    <3> QED BY <1>2, <1>3, <1>6, <2>1, <3>1 DEF Phases
  <2>2. CASE life.issues = 0
    <3>1. ItemsOrdered(events) /\ \A q \in Phases : S(q) <=> life.phase = q
      BY <1>7, <1>8, <2>2
    <3>2. SUFFICES allowed /\ T(p) <=> ~bad /\ NextPhase(life, e, n + 1) = p
      BY <1>2, <1>5, <1>6, <2>2, <3>1
    <3> HIDE DEF n
    <3>3. CASE IsItem(e)
      <4>1. Excused(Supported, e) /\ life.phase = "before_turn" <=>
              IsDiagnostic(life.phase, e)
        BY DEF Excused, IsDiagnostic
      <4>2. ~bad <=> allowed /\ (life.phase = "in_turn" \/ IsDiagnostic(life.phase, e))
        BY <3>3 DEF Problem, NamesThread, IsItem, ItemTypes
      <4>3. NextPhase(life, e, n + 1) = life.phase
        BY <3>3 DEF NextPhase, IsItem, ItemTypes
      <4>4. T(p) <=> \/ p = "before_turn" /\ IsDiagnostic(life.phase, e)
                     \/ p = "in_turn" /\ life.phase = "in_turn"
        BY <1>3, <3>1, <3>3, <4>1 DEF Phases, NamesThread, IsItem, ItemTypes
      <4>5. IsDiagnostic(life.phase, e) => life.phase = "before_turn"
        BY DEF IsDiagnostic
      <4> HIDE DEF allowed, bad
      <4> QED BY <4>2, <4>3, <4>4, <4>5
    <3>4. CASE ~IsItem(e)
      <4>1. allowed
        BY <3>4
      <4> HIDE DEF allowed
      <4>2. ~Excused(Supported, e)
        BY <3>4 DEF Excused, IsItem, ItemTypes
      <4>3. CASE e.type = "thread.started"
        BY <1>1, <1>3, <1>4, <1>9, <2>2, <3>1, <4>1, <4>2, <4>3
        DEF Phases, Problem, NamesThread, NextPhase, IsItem, ItemTypes, n
      <4>4. CASE e.type = "turn.started"
        BY <1>3, <1>4, <3>1, <4>1, <4>2, <4>4
        DEF Phases, Problem, NamesThread, NextPhase, IsItem, ItemTypes
      <4>5. CASE e.type \in {"turn.completed", "turn.failed"}
        BY <1>3, <1>4, <3>1, <4>1, <4>2, <4>5
        DEF Phases, Problem, NamesThread, NextPhase, IsItem, ItemTypes
      <4>6. CASE e.type = "error"
        BY <1>3, <1>4, <3>1, <4>1, <4>2, <4>6
        DEF Phases, Problem, NamesThread, NextPhase, IsItem, ItemTypes
      <4>7. CASE e.type = "other"
        BY <1>3, <1>4, <3>1, <4>1, <4>2, <4>7
        DEF Phases, Problem, NamesThread, NextPhase, IsItem, ItemTypes
      <4> QED BY <1>1, <3>4, <4>3, <4>4, <4>5, <4>6, <4>7
              DEF Events, TurnTypes, IsItem
    <3> QED BY <3>3, <3>4
  <2> QED BY <2>1, <2>2
<1> QED BY <1>1, <1>10 DEF LifeInv

\* The other accumulators: the last event of each item, the diagnostics, the
\* last message, and what the alphabet allows.
LEMMA FoldsGrow ==
  ASSUME CaptureInv, NEW e \in Alphabet, Emit(e)
  PROVE  ItemsInv' /\ DiagnosticInv' /\ MessageInv' /\ AlphabetInv'
<1> DEFINE n == Len(events)
<1>1. /\ e \in Events /\ n \in Nat /\ Len(events') = n + 1 /\ events'[n + 1] = e
      /\ \A i \in 1..n : events'[i] = events[i]
      /\ life' = LifeStep(life, e, n + 1)
  BY Emitted DEF CaptureInv
<1> HIDE DEF n
<1>2. /\ \A i \in Positions : i \in Positions' /\ i \in 1..n
      /\ \A i \in Positions' : i \in Positions \/ i = n + 1
      /\ n + 1 \in Positions' /\ n + 1 \notin Positions
  BY <1>1 DEF Positions, n
<1>3. ItemsInv'
  <2> SUFFICES ASSUME NEW d \in Ids
               PROVE  \/ /\ life'.items[d] = NoItem
                         /\ \A i \in Positions' : ~(IsItem(events'[i]) /\ events'[i].id = d)
                      \/ \E i \in Positions' :
                           /\ LastOf(events', d, i)
                           /\ life'.items[d] = [kind |-> events'[i].kind,
                                                type |-> events'[i].type]
    BY DEF ItemsInv
  <2>0. d # NoId
    BY CaptureAssumption
  <2>1. life.items \in [Ids -> [kind : Kinds, type : ItemTypes \cup {"none"}]]
    BY DEF CaptureInv, CaptureTypeOK
  <2>2. life'.items = IF IsItem(e) /\ e.id # NoId
                      THEN [life.items EXCEPT ![e.id] = [kind |-> e.kind, type |-> e.type]]
                      ELSE life.items
    BY <1>1 DEF LifeStep
  <2>3. CASE IsItem(e) /\ e.id = d
    <3>1. life'.items[d] = [kind |-> e.kind, type |-> e.type]
      BY <2>0, <2>1, <2>2, <2>3
    <3>2. LastOf(events', d, n + 1)
      BY <1>1, <2>3 DEF LastOf
    <3> QED BY <1>1, <1>2, <3>1, <3>2
  <2>4. CASE ~(IsItem(e) /\ e.id = d)
    <3>1. life'.items[d] = life.items[d]
      BY <2>1, <2>2, <2>4
    <3>2. CASE /\ life.items[d] = NoItem
               /\ \A i \in Positions : ~(IsItem(events[i]) /\ events[i].id = d)
      BY <1>1, <1>2, <2>4, <3>1, <3>2
    <3>3. ASSUME NEW i \in Positions, LastOf(events, d, i),
                 life.items[d] = [kind |-> events[i].kind, type |-> events[i].type]
          PROVE  LastOf(events', d, i) /\ events'[i] = events[i] /\ i \in Positions'
      BY <1>1, <1>2, <2>4, <3>3 DEF LastOf, n
    <3> QED BY <3>1, <3>2, <3>3 DEF CaptureInv, ItemsInv
  <2> QED BY <2>3, <2>4
<1>4. DiagnosticInv'
  <2>1. life'.diagnostics \subseteq life.diagnostics \cup {n + 1}
        /\ (n + 1 \in life'.diagnostics => e.kind = "error" \/ n + 1 \in life.diagnostics)
    BY <1>1 DEF LifeStep, IsDiagnostic
  <2> QED BY <1>1, <1>2, <2>1 DEF CaptureInv, DiagnosticInv
<1>5. MessageInv'
  <2> DEFINE isMessage(x) == /\ x.type = "item.completed"
                             /\ x.kind = "agent_message"
                             /\ x.detail # "none"
  <2>1. /\ Messages = {i \in Positions : isMessage(events[i])}
        /\ Messages' = {i \in Positions' : isMessage(events'[i])}
    BY DEF Messages
  <2>2. \A i \in Positions : i <= n + 1
    BY <1>1, <1>2
  <2>3. CASE isMessage(e)
    <3>1. n + 1 \in Messages' /\ \A j \in Messages' : j <= n + 1
      BY <1>1, <1>2, <2>1, <2>2, <2>3
    <3> QED BY <3>1 DEF MessageInv
  <2>4. CASE ~isMessage(e)
    <3>1. Messages' = Messages
      BY <1>1, <1>2, <2>1, <2>4
    <3> QED BY <3>1 DEF MessageInv, CaptureInv
  <2> QED BY <2>3, <2>4
<1>6. AlphabetInv'
  <2>1. ~IsItem(e) \/ e.kind \in Unnamed => e.id = NoId
    BY CaptureAssumption DEF IsItem
  <2> QED BY <1>1, <1>2, <2>1 DEF CaptureInv, AlphabetInv
<1> QED BY <1>3, <1>4, <1>5, <1>6

\* classify_activity: a rejection is exempt only while its call has no state.
LEMMA CallsGrow ==
  ASSUME CaptureInv, NEW e \in Alphabet, Emit(e)
  PROVE  ExemptInv'
<1> DEFINE n == Len(events)
           diagnostic == n + 1 \in LifeStep(life, e, n + 1).diagnostics
<1>1. /\ e \in Events /\ n \in Nat /\ Len(events') = n + 1 /\ events'[n + 1] = e
      /\ \A i \in 1..n : events'[i] = events[i]
      /\ UNCHANGED protocol
  BY Emitted DEF CaptureInv
<1>2. diagnostic => e.kind = "error"
  <2>1. n + 1 \notin life.diagnostics
    BY <1>1 DEF CaptureInv, DiagnosticInv, Positions
  <2> QED BY <2>1 DEF LifeStep, IsDiagnostic
<1>3. CallStep(e, n + 1, diagnostic)
  BY DEF Emit
<1> HIDE DEF n, diagnostic
<1>4. /\ \A i \in Positions : i \in Positions' /\ i \in 1..n
      /\ \A i \in Positions' : i \in Positions \/ i = n + 1
      /\ n + 1 \in Positions' /\ n + 1 \notin Positions
      /\ \A i \in Positions : events'[i] = events[i]
  BY <1>1 DEF Positions, n
<1>5. calls \in [Ids -> [tool : Kinds, states : SUBSET CallStates, closed : BOOLEAN]]
  BY DEF CaptureInv, CaptureTypeOK
<1>6. \A i \in exempt :
        /\ i \in Positions' /\ i \in 1..n
        /\ Confirms(events[i])' /\ events'[i].id \in Ids
        /\ \A j \in 1..(i - 1) : Rejection(events'[j]) => events'[j].id # events'[i].id
  <2> TAKE i \in exempt
  <2>1. /\ i \in Positions /\ Confirms(events[i]) /\ events[i].id \in Ids
        /\ \A j \in 1..(i - 1) : Rejection(events[j]) => events[j].id # events[i].id
    BY DEF CaptureInv, ExemptInv
  <2>2. \A j \in 1..(i - 1) : j \in 1..n
    BY <1>1, <1>4, <2>1
  <2> QED BY <1>1, <1>4, <2>1, <2>2 DEF Confirms
<1>7. CASE ~IsCall(e, diagnostic) \/ e.id = NoId
  <2>1. UNCHANGED <<calls, exempt>>
    BY <1>3, <1>7 DEF CallStep
  <2>2. \A d \in Ids : Rejection(e) => e.id # d
    BY <1>2, <1>7, CaptureAssumption DEF IsCall, Rejection, Benign, Unnamed
  <2>3. \A d \in Ids : calls'[d].states = {} =>
          \A i \in Positions' : Rejection(events'[i]) => events'[i].id # d
    BY <1>1, <1>4, <2>1, <2>2 DEF CaptureInv, ExemptInv
  <2> QED BY <1>6, <2>1, <2>3 DEF ExemptInv
<1>8. CASE IsCall(e, diagnostic) /\ e.id # NoId
  <2> DEFINE call    == calls[e.id]
             earlier == EarlierStates(call, e)
             added   == [tool   |-> IF call = NoCall THEN e.kind ELSE call.tool,
                         states |-> earlier \cup {StateOf(e, earlier)},
                         closed |-> call.closed \/ e.type = "item.completed"]
  <2>1. e.id \in Ids
    BY <1>1, <1>8 DEF Events
  <2>2. /\ calls' = [calls EXCEPT ![e.id] = added]
        /\ exempt' = IF Confirms(e) /\ earlier = {} THEN exempt \cup {n + 1} ELSE exempt
    BY <1>3, <1>8 DEF CallStep
  <2>3. earlier = {} => call.states = {}
    BY DEF EarlierStates
  <2>4. added.states # {}
    OBVIOUS
  <2> HIDE DEF added, earlier
  <2>5. \A d \in Ids : calls'[d].states = {} =>
          \A i \in Positions' : Rejection(events'[i]) => events'[i].id # d
    <3> SUFFICES ASSUME NEW d \in Ids, calls'[d].states = {},
                        NEW i \in Positions', Rejection(events'[i])
                 PROVE  events'[i].id # d
      OBVIOUS
    <3>1. d # e.id /\ calls'[d] = calls[d]
      BY <1>5, <2>1, <2>2, <2>4
    <3> QED BY <1>1, <1>4, <3>1 DEF CaptureInv, ExemptInv
  <2>6. ASSUME Confirms(e), earlier = {}, NEW i \in {n + 1}
        PROVE  /\ Confirms(events[i])' /\ events'[i].id \in Ids
               /\ \A j \in 1..(i - 1) :
                    Rejection(events'[j]) => events'[j].id # events'[i].id
    <3>1. \A j \in Positions : Rejection(events[j]) => events[j].id # e.id
      BY <2>1, <2>3, <2>6 DEF CaptureInv, ExemptInv
    <3>2. i = n + 1 /\ 1..(i - 1) = Positions
      BY <1>1 DEF Positions, n
    <3> QED BY <1>1, <1>4, <2>1, <2>6, <3>1, <3>2 DEF Confirms
  <2>7. \A i \in exempt' : i \in exempt \/ (i \in {n + 1} /\ Confirms(e) /\ earlier = {})
    BY <2>2
  <2> QED BY <1>4, <1>6, <2>5, <2>6, <2>7 DEF ExemptInv
<1> QED BY <1>7, <1>8

\* Every accumulator keeps its type.
LEMMA TypesKept ==
  ASSUME CaptureTypeOK, NEW e \in Alphabet, Emit(e)
  PROVE  CaptureTypeOK'
<1> DEFINE n == Len(events)
           diagnostic == n + 1 \in LifeStep(life, e, n + 1).diagnostics
<1>1. /\ e \in Events /\ n \in Nat /\ events' \in Seq(Events)
      /\ life' = LifeStep(life, e, n + 1)
      /\ UNCHANGED protocol
  BY Emitted
<1>2. CallStep(e, n + 1, diagnostic)
  BY DEF Emit
<1> HIDE DEF n, diagnostic
<1>3. /\ e.kind \in Kinds /\ e.type \in TurnTypes \cup ItemTypes \cup {"other"}
      /\ e.id \in Ids \cup {NoId}
  BY <1>1 DEF Events
<1>4. life' \in [phase : Phases, issues : Nat,
                 items : [Ids -> [kind : Kinds, type : ItemTypes \cup {"none"}]],
                 diagnostics : SUBSET Nat]
  <2>1. /\ life.phase \in Phases /\ life.issues \in Nat
        /\ life.items \in [Ids -> [kind : Kinds, type : ItemTypes \cup {"none"}]]
        /\ life.diagnostics \in SUBSET Nat
    BY DEF CaptureTypeOK
  <2>2. NextPhase(life, e, n + 1) \in Phases
    BY <2>1 DEF NextPhase, Phases
  <2>3. life.issues + (IF Problem(life, e, n + 1) THEN 1 ELSE 0) \in Nat
    <3>1. (IF Problem(life, e, n + 1) THEN 1 ELSE 0) \in Nat
      OBVIOUS
    <3> QED BY <2>1, <3>1
  <2>4. (IF IsItem(e) /\ e.id # NoId
         THEN [life.items EXCEPT ![e.id] = [kind |-> e.kind, type |-> e.type]]
         ELSE life.items) \in [Ids -> [kind : Kinds, type : ItemTypes \cup {"none"}]]
    <3>1. IsItem(e) => [kind |-> e.kind, type |-> e.type]
                         \in [kind : Kinds, type : ItemTypes \cup {"none"}]
      BY <1>3 DEF IsItem
    <3> QED BY <1>3, <2>1, <3>1
  <2>5. (IF IsDiagnostic(life.phase, e) /\ ~Problem(life, e, n + 1)
         THEN life.diagnostics \cup {n + 1} ELSE life.diagnostics) \in SUBSET Nat
    BY <1>1, <2>1
  <2> QED BY <1>1, <2>2, <2>3, <2>4, <2>5 DEF LifeStep
<1>5. calls' \in [Ids -> [tool : Kinds, states : SUBSET CallStates, closed : BOOLEAN]]
      /\ exempt' \in SUBSET Nat
  <2>0. /\ calls \in [Ids -> [tool : Kinds, states : SUBSET CallStates, closed : BOOLEAN]]
        /\ exempt \in SUBSET Nat
    BY DEF CaptureTypeOK
  <2>1. CASE ~IsCall(e, diagnostic) \/ e.id = NoId
    BY <1>2, <2>0, <2>1 DEF CallStep
  <2>2. CASE IsCall(e, diagnostic) /\ e.id # NoId
    <3> DEFINE call    == calls[e.id]
               earlier == EarlierStates(call, e)
               added   == [tool   |-> IF call = NoCall THEN e.kind ELSE call.tool,
                           states |-> earlier \cup {StateOf(e, earlier)},
                           closed |-> call.closed \/ e.type = "item.completed"]
    <3>1. e.id \in Ids
      BY <1>3, <2>2
    <3>2. call.tool \in Kinds /\ call.states \in SUBSET CallStates /\ call.closed \in BOOLEAN
      BY <2>0, <3>1
    <3>3. earlier \in SUBSET CallStates
      BY <3>2 DEF EarlierStates, CallStates
    <3> HIDE DEF earlier
    <3>4. StateOf(e, earlier) \in CallStates
      BY DEF StateOf, CallStates
    <3> HIDE DEF call
    <3>5. (call.closed \/ e.type = "item.completed") \in BOOLEAN
      OBVIOUS
    <3>6. added \in [tool : Kinds, states : SUBSET CallStates, closed : BOOLEAN]
      BY <1>3, <3>2, <3>3, <3>4, <3>5
    <3>7. /\ calls' = [calls EXCEPT ![e.id] = added]
          /\ exempt' = IF Confirms(e) /\ earlier = {} THEN exempt \cup {n + 1} ELSE exempt
      BY <1>2, <2>2 DEF CallStep, call, earlier
    <3> HIDE DEF added
    <3> QED BY <1>1, <2>0, <3>1, <3>6, <3>7
  <2> QED BY <2>1, <2>2
<1> QED BY <1>1, <1>4, <1>5 DEF CaptureTypeOK

\* The accumulators say of the stream what CaptureInv says, whatever an agent
\* writes: any events, in any order, of any number.
THEOREM CaptureInvariance == Spec => []CaptureInv
<1>1. Init => CaptureInv
  <2> SUFFICES ASSUME Init PROVE CaptureInv
    OBVIOUS
  <2> USE DEF Init
  <2>1. Positions = {}
    BY DEF Positions
  <2>2. CaptureTypeOK
    BY DEF CaptureTypeOK, Phases, NoItem, NoCall, Kinds
  <2>3. ItemsInv /\ DiagnosticInv /\ ExemptInv /\ AlphabetInv
    BY <2>1 DEF ItemsInv, DiagnosticInv, ExemptInv, AlphabetInv
  <2>4. MessageInv
    BY <2>1 DEF MessageInv, Messages
  <2>5. LifeInv
    <3>1. ItemsOrdered(events)
      BY DEF ItemsOrdered
    <3>2. \A p \in Phases : Shape(Supported, events, p) <=> p = "before_thread"
      <4>1. Len(events) = 0
        OBVIOUS
      <4>2. 2..0 = {} /\ 2..(0 - 1) = {}
        OBVIOUS
      <4> QED BY <4>1, <4>2 DEF Shape, Phases
    <3> QED BY <3>1, <3>2 DEF LifeInv
  <2> QED BY <2>2, <2>3, <2>4, <2>5 DEF CaptureInv
<1>2. ASSUME CaptureInv, [Next]_vars
      PROVE  CaptureInv'
  <2>1. ASSUME NEW e \in Alphabet, Emit(e)
        PROVE  CaptureInv'
    BY <1>2, <2>1, TypesKept, LifeGrows, FoldsGrow, CallsGrow DEF CaptureInv
  <2>2. CASE UNCHANGED vars
    <3>1. /\ Positions' = Positions /\ Messages' = Messages /\ Supported' = Supported
          /\ \A e : Confirms(e)' <=> Confirms(e)
      BY <2>2 DEF vars, Positions, Messages, Supported, Confirms
    <3>2. CaptureTypeOK' /\ ItemsInv' /\ DiagnosticInv' /\ AlphabetInv'
      BY <1>2, <2>2, <3>1
      DEF vars, CaptureInv, CaptureTypeOK, ItemsInv, DiagnosticInv, AlphabetInv
    <3>3. LifeInv'
      BY <1>2, <2>2, <3>1 DEF vars, CaptureInv, LifeInv
    <3>4. ExemptInv' /\ MessageInv'
      BY <1>2, <2>2, <3>1 DEF vars, CaptureInv, ExemptInv, MessageInv, Confirms
    <3> QED BY <3>2, <3>3, <3>4 DEF CaptureInv
  <2> QED BY <1>2, <2>1, <2>2 DEF Next
<1> QED BY <1>1, <1>2, PTL DEF Spec

-----------------------------------------------------------------------------
(* What the lifecycle rules accept                                         *)

\* A stream is one turn as OneTurn says it exactly if it has the shape of one,
\* its items are in order, and the last event of each is its completion.
LEMMA OneTurnIs ==
  ASSUME CaptureInv
  PROVE  OneTurn <=> /\ ItemsOrdered(events)
                     /\ Shape(Supported, events, "terminal")
                     /\ \A d \in Ids : life.items[d].type \notin {"item.started", "item.updated"}
<1> DEFINE n == Len(events)
           completed == \A i \in 1..n : IsItem(events[i]) =>
             \E j \in i..n : events[j].id = events[i].id /\ events[j].type = "item.completed"
<1>1. n \in Nat /\ Positions = 1..n /\ \A i \in 1..n : events[i] \in Events
  BY DEF CaptureInv, CaptureTypeOK, Positions
<1>2. \A i \in 1..n : events[i].id \in Ids \/ events[i].id = NoId
  BY <1>1 DEF Events
<1>3. \A i \in 1..n : events[i].id # NoId => IsItem(events[i])
  BY <1>1 DEF CaptureInv, AlphabetInv
<1>4. Shape(Supported, events, "terminal") <=>
        /\ n >= 3
        /\ NamesThread(events[1])
        /\ events[n].type \in {"turn.completed", "turn.failed"}
        /\ \E t \in 2..(n - 1) :
             /\ events[t].type = "turn.started"
             /\ \A i \in 2..(t - 1) : Excused(Supported, events[i])
             /\ \A i \in (t + 1)..(n - 1) : events[i].type \in ItemTypes \cup {"other"}
  <2>1. Shape(Supported, events, "terminal") <=>
          /\ events[n].type \in {"turn.completed", "turn.failed"}
          /\ \E t \in 2..(n - 1) : Turns(Supported, events, t, n - 1)
    BY DEF Shape
  <2>2. \A t : Turns(Supported, events, t, n - 1) <=>
          /\ NamesThread(events[1])
          /\ events[t].type = "turn.started"
          /\ \A i \in 2..(t - 1) : Excused(Supported, events[i])
          /\ \A i \in (t + 1)..(n - 1) : events[i].type \in ItemTypes \cup {"other"}
    BY DEF Turns, Opened
  <2>3. 2..(n - 1) # {} => n >= 3
    BY <1>1
  <2> HIDE DEF n
  <2> QED BY <2>1, <2>2, <2>3
<1>5. ItemsOrdered(events) <=>
        /\ \A i \in 1..n : IsItem(events[i]) =>
             /\ events[i].id # NoId
             /\ events[i].type = "item.updated" =>
                  \E j \in 1..(i - 1) : events[j].id = events[i].id
        /\ \A i, j \in 1..n :
             i < j /\ IsItem(events[i]) /\ IsItem(events[j]) /\ events[i].id = events[j].id =>
               Compatible(events, i, j)
  <2>1. \A i \in 1..n : 1..(i - 1) \subseteq 1..n
    BY <1>1
  <2>2. \A i \in 1..n : events[i].id # NoId =>
          ((\E j \in 1..(i - 1) : IsItem(events[j]) /\ events[j].id = events[i].id) <=>
             \E j \in 1..(i - 1) : events[j].id = events[i].id)
    BY <1>3, <2>1
  <2>3. \A i, j \in 1..n : i < j <=> i \in 1..(j - 1)
    BY <1>1
  <2> HIDE DEF n
  <2> QED BY <2>1, <2>2, <2>3 DEF ItemsOrdered, ItemRules, n
<1>6. ASSUME ItemsOrdered(events)
      PROVE  completed <=>
               \A d \in Ids : life.items[d].type \notin {"item.started", "item.updated"}
  <2>1. ASSUME completed, NEW d \in Ids
        PROVE  life.items[d].type \notin {"item.started", "item.updated"}
    <3>1. CASE life.items[d] = NoItem
      BY <3>1 DEF NoItem
    <3>2. ASSUME NEW i \in Positions, LastOf(events, d, i),
                 life.items[d] = [kind |-> events[i].kind, type |-> events[i].type]
          PROVE  life.items[d].type \notin {"item.started", "item.updated"}
      <4>1. i \in 1..n /\ IsItem(events[i]) /\ events[i].id = d
        BY <1>1, <3>2 DEF LastOf
      <4>2. PICK j \in i..n : events[j].id = d /\ events[j].type = "item.completed"
        BY <2>1, <4>1
      <4>3. j = i
        <5>1. IsItem(events[j])
          BY <4>2 DEF IsItem, ItemTypes
        <5> QED BY <1>1, <3>2, <4>1, <4>2, <5>1 DEF LastOf
      <4> QED BY <3>2, <4>2, <4>3
    <3> QED BY <3>1, <3>2 DEF CaptureInv, ItemsInv
  <2>2. ASSUME \A d \in Ids : life.items[d].type \notin {"item.started", "item.updated"},
               NEW i \in 1..n, IsItem(events[i])
        PROVE  \E j \in i..n :
                 events[j].id = events[i].id /\ events[j].type = "item.completed"
    <3> DEFINE d == events[i].id
    <3>1. d \in Ids
      BY <1>2, <1>6, <2>2 DEF ItemsOrdered, ItemRules
    <3>2. PICK j \in Positions :
            /\ LastOf(events, d, j)
            /\ life.items[d] = [kind |-> events[j].kind, type |-> events[j].type]
      BY <1>1, <2>2, <3>1 DEF CaptureInv, ItemsInv
    <3>3. j \in 1..n /\ IsItem(events[j]) /\ events[j].id = d /\ ~(i \in (j + 1)..n)
      BY <1>1, <2>2, <3>2 DEF LastOf
    <3>4. j \in i..n
      BY <1>1, <2>2, <3>3
    <3>5. events[j].type = "item.completed"
      BY <2>2, <3>1, <3>2, <3>3 DEF IsItem, ItemTypes
    <3> QED BY <3>3, <3>4, <3>5
  <2> QED BY <2>1, <2>2
<1>7. OneTurn <=> /\ ItemsOrdered(events) /\ Shape(Supported, events, "terminal")
                  /\ completed
  <2>1. \A i : Excused(Supported, events[i]) <=>
                 /\ Supported
                 /\ events[i].type = "item.completed"
                 /\ events[i].kind = "error"
                 /\ events[i].detail # "malformed"
    BY DEF Excused
  <2>2. \A i, j : Compatible(events, i, j) <=>
                    /\ events[i].kind = events[j].kind
                    /\ events[i].type # "item.completed"
                    /\ events[j].type # "item.started"
    BY DEF Compatible
  <2> QED BY <1>4, <1>5, <2>1, <2>2 DEF OneTurn
<1> HIDE DEF completed
<1> QED BY <1>6, <1>7

\* _lifecycle_issues: its bookkeeping in one pass finds nothing to complain of
\* exactly in the streams that are one well-formed turn.
THEOREM LifecycleExact == Spec => []LifecycleIsOneTurn
<1>1. ASSUME CaptureInv
      PROVE  LifecycleIsOneTurn
  <2>1. life.issues \in Nat /\ life.phase \in Phases
    BY <1>1 DEF CaptureInv, CaptureTypeOK
  <2>2. ItemsOrdered(events) /\ Shape(Supported, events, "terminal")
          <=> life.issues = 0 /\ life.phase = "terminal"
    BY <1>1 DEF CaptureInv, LifeInv, Phases
  <2>3. LifecycleIssues <=>
          ~ /\ life.issues = 0 /\ life.phase = "terminal"
            /\ \A d \in Ids : life.items[d].type \notin {"item.started", "item.updated"}
    BY <2>1 DEF LifecycleIssues
  <2> QED BY <1>1, <2>2, <2>3, OneTurnIs DEF LifecycleIsOneTurn
<1> QED BY <1>1, CaptureInvariance, PTL

-----------------------------------------------------------------------------
(* What a success stands for                                               *)

\* Every reason evaluate_capture looks for is absent from a success.
LEMMA SuccessIs ==
  ASSUME NEW f \in AllFacts
  PROVE  Succeeds(f) <=>
           /\ f.signs = {}
           /\ ValidStream(f)
           /\ ~PolicyViolated(f)
           /\ Completions # {}
           /\ f.served \notin {"several", "other"}
           /\ FinalText # "none"
           /\ SchemaPasses(f)
<1>1. f.signs \subseteq Signs
  BY DEF AllFacts
<1>2. "unreadable" \in f.signs => ~ValidStream(f)
  BY DEF ValidStream, Parsed
<1>3. f.signs = {} <=> /\ "cancelled" \notin f.signs /\ "timed out" \notin f.signs
                       /\ "rate limited" \notin f.signs
                       /\ "prefill parameter" \notin f.signs
                       /\ "partial parameter" \notin f.signs
                       /\ "not started" \notin f.signs /\ "unreadable" \notin f.signs
                       /\ "nonzero exit" \notin f.signs /\ "bad allowlist" \notin f.signs
  BY <1>1 DEF Signs
<1> QED BY <1>2, <1>3 DEF Succeeds, Failure

\* Facts are facts whatever the contract options, and only the options differ.
LEMMA OtherOptions ==
  ASSUME NEW f \in AllFacts, NEW fence \in BOOLEAN, NEW warn \in BOOLEAN
  PROVE  LET g == [f EXCEPT !.fence = fence, !.warn = warn]
         IN  /\ g \in AllFacts
             /\ g.fence = fence /\ g.warn = warn
             /\ g.signs = f.signs /\ g.granted = f.granted
             /\ g.suspicious = f.suspicious /\ g.served = f.served
             /\ ValidStream(g) <=> ValidStream(f)
             /\ ActivityUnknown(g) <=> ActivityUnknown(f)
             /\ \A i \in Positions : Violates(events[i], g) <=> Violates(events[i], f)
<1> DEFINE g == [f EXCEPT !.fence = fence, !.warn = warn]
<1>1. /\ g \in AllFacts
      /\ g.fence = fence /\ g.warn = warn
      /\ g.signs = f.signs /\ g.granted = f.granted
      /\ g.suspicious = f.suspicious /\ g.served = f.served
  BY DEF AllFacts
<1> HIDE DEF g
<1>2. Parsed(g) <=> Parsed(f)
  BY <1>1 DEF Parsed
<1>3. ValidStream(g) <=> ValidStream(f)
  BY <1>2 DEF ValidStream
<1>4. ActivityUnknown(g) <=> ActivityUnknown(f)
  BY <1>1, <1>2 DEF ActivityUnknown
<1>5. \A i \in Positions : Violates(events[i], g) <=> Violates(events[i], f)
  BY <1>1 DEF Violates, NotGranted
<1> QED BY <1>1, <1>3, <1>4, <1>5 DEF g

\* evaluate_capture: a success has one terminal event at the end of its
\* stream, no sign of failure, an answer that passes and, under a known
\* protocol, a well-formed turn in which that answer was given.
THEOREM SuccessEarned == Spec => []SuccessIsEarned
<1>1. ASSUME CaptureInv, LifecycleIsOneTurn
      PROVE  SuccessIsEarned
  <2> SUFFICES ASSUME NEW f \in Facts, Succeeds(f)
               PROVE  /\ f.signs = {}
                      /\ Completions = {Len(events)}
                      /\ SchemaPasses(f)
                      /\ Supported =>
                           /\ OneTurn
                           /\ \E i, t \in Positions :
                                t < i /\ events[t].type = "turn.started" /\ i \in Messages
                                /\ \A j \in Messages : j <= i
    BY DEF SuccessIsEarned
  <2>1. /\ f.signs = {} /\ ValidStream(f) /\ Completions # {}
        /\ FinalText # "none" /\ SchemaPasses(f)
    BY SuccessIs, CaptureAssumption
  <2>2. Completions = {Len(events)}
    BY <2>1 DEF ValidStream, Parsed
  <2>3. ASSUME Supported
        PROVE  /\ OneTurn
               /\ \E i, t \in Positions :
                    t < i /\ events[t].type = "turn.started" /\ i \in Messages
                    /\ \A j \in Messages : j <= i
    <3> DEFINE n == Len(events)
    <3>1. OneTurn
      BY <1>1, <2>1, <2>3 DEF ValidStream, LifecycleIsOneTurn
    <3>2. PICK i \in Messages : \A j \in Messages : j <= i
      BY <1>1, <2>1 DEF CaptureInv, MessageInv, FinalText
    <3>3. /\ n \in Nat /\ n >= 3 /\ i \in 1..n
          /\ events[i].type = "item.completed" /\ events[i].kind = "agent_message"
      BY <1>1, <3>1, <3>2 DEF CaptureInv, CaptureTypeOK, OneTurn, Messages, Positions
    <3>4. PICK t \in 2..(n - 1) :
            /\ events[t].type = "turn.started"
            /\ \A j \in 2..(t - 1) : events[j].kind = "error"
      BY <3>1 DEF OneTurn
    <3>5. i # 1 /\ i # t
      BY <3>1, <3>3, <3>4 DEF OneTurn, NamesThread
    <3>6. i \notin 2..(t - 1)
      BY <3>3, <3>4
    <3>7. t < i /\ t \in Positions /\ i \in Positions
      BY <3>3, <3>4, <3>5, <3>6 DEF Positions
    <3> QED BY <3>1, <3>2, <3>4, <3>7
  <2> QED BY <2>1, <2>2, <2>3
<1> QED BY <1>1, CaptureInvariance, LifecycleExact, PTL

\* An exempt rejection is the sole event of its call in a well-formed turn:
\* its item has one kind and ends with its completion, and no rejection came
\* before it.
LEMMA ExemptAlone ==
  ASSUME CaptureInv, OneTurn, NEW i \in exempt, NEW j \in Positions \ {i}
  PROVE  events[j].id # events[i].id
<1>1. /\ i \in Positions /\ IsItem(events[i]) /\ events[i].type = "item.completed"
      /\ events[i].kind = "request_user_input_rejection" /\ events[i].id \in Ids
      /\ \A k \in 1..(i - 1) : Rejection(events[k]) => events[k].id # events[i].id
  BY DEF CaptureInv, ExemptInv, Confirms, IsItem, ItemTypes
<1>2. SUFFICES ASSUME events[j].id = events[i].id PROVE FALSE
  OBVIOUS
<1>3. IsItem(events[j])
  BY <1>1, <1>2, CaptureAssumption DEF CaptureInv, AlphabetInv
<1>4. Len(events) \in Nat /\ Positions = 1..Len(events)
  BY DEF CaptureInv, CaptureTypeOK, Positions
<1>5. CASE i < j
  BY <1>1, <1>2, <1>3, <1>4, <1>5 DEF OneTurn
<1>6. CASE j < i
  <2>1. events[j].kind = events[i].kind
    BY <1>1, <1>2, <1>3, <1>4, <1>6 DEF OneTurn
  <2>2. Rejection(events[j]) /\ j \in 1..(i - 1)
    BY <1>1, <1>3, <1>4, <1>6, <2>1 DEF Rejection
  <2> QED BY <1>1, <1>2, <2>2
<1> QED BY <1>1, <1>4, <1>5, <1>6

\* The options single_json_fence and the noninteractive warning admit a fenced
\* answer and the exempt rejections, each the sole event of its call, and
\* nothing else, whatever else the stream contains.
THEOREM OptInTwoDoors == Spec => []OptInOpensTwoDoors
<1>1. ASSUME CaptureInv, LifecycleIsOneTurn
      PROVE  OptInOpensTwoDoors
  <2> SUFFICES ASSUME NEW f \in Facts, Succeeds(f),
                      ~Succeeds([f EXCEPT !.fence = FALSE, !.warn = FALSE])
               PROVE  /\ \A i \in Positions : Violates(events[i], f) =>
                           /\ f.warn
                           /\ protocol = "synthetic"
                           /\ events[i].kind = "request_user_input_rejection"
                           /\ \A j \in Positions \ {i} : events[j].id # events[i].id
                      /\ \/ \E i \in Positions : Violates(events[i], f)
                         \/ f.fence /\ FinalText = "fenced"
    BY DEF OptInOpensTwoDoors
  <2> DEFINE plain == [f EXCEPT !.fence = FALSE, !.warn = FALSE]
  <2>0. f \in AllFacts
    BY CaptureAssumption
  <2>1. /\ f.signs = {} /\ ValidStream(f) /\ ~PolicyViolated(f) /\ Completions # {}
        /\ f.served \notin {"several", "other"} /\ FinalText # "none" /\ SchemaPasses(f)
    BY <2>0, SuccessIs
  <2>2. /\ plain \in AllFacts /\ ~plain.fence /\ ~plain.warn
        /\ plain.signs = f.signs /\ plain.served = f.served
        /\ ValidStream(plain) <=> ValidStream(f)
        /\ \A i \in Positions : Violates(events[i], plain) <=> Violates(events[i], f)
    BY <2>0, OtherOptions
  <2> HIDE DEF plain
  <2>3. ~Succeeds(plain)
    BY DEF plain
  <2>4. ASSUME NEW i \in Positions, Violates(events[i], f)
        PROVE  /\ f.warn
               /\ protocol = "synthetic"
               /\ events[i].kind = "request_user_input_rejection"
               /\ \A j \in Positions \ {i} : events[j].id # events[i].id
    <3>1. f.warn /\ ~ActivityUnknown(f) /\ i \in exempt
      BY <2>1, <2>4 DEF PolicyViolated, Exemptions
    <3>2. OneTurn
      BY <1>1, <3>1 DEF ActivityUnknown, LifecycleIsOneTurn
    <3>3. Confirms(events[i])
      BY <1>1, <3>1 DEF CaptureInv, ExemptInv
    <3> QED BY <1>1, <3>1, <3>2, <3>3, ExemptAlone DEF Confirms
  <2>5. ASSUME \A i \in Positions : ~Violates(events[i], f)
        PROVE  f.fence /\ FinalText = "fenced"
    <3>1. DefaultContract(plain)
      BY <2>2 DEF DefaultContract
    <3>2. ~PolicyViolated(plain)
      BY <2>2, <2>5, <3>1 DEF PolicyViolated
    <3>3. ~SchemaPasses(plain)
      BY <2>1, <2>2, <2>3, <3>2, SuccessIs
    <3> QED BY <2>1, <3>1, <3>3 DEF SchemaPasses
  <2> QED BY <2>4, <2>5
<1> QED BY <1>1, CaptureInvariance, LifecycleExact, PTL

\* Reasons that only the clock or an operator give come first, so the code of
\* a result still says them.
LEMMA StoppedIsSaid ==
  ASSUME NEW f \in AllFacts
  PROVE  /\ "cancelled" \in f.signs => Failure(f) = "CANCELLED"
         /\ "timed out" \in f.signs => Failure(f) \in {"CANCELLED", "TIMEOUT"}
<1>1. CASE "cancelled" \in f.signs
  BY <1>1 DEF Failure
<1>2. CASE "cancelled" \notin f.signs /\ "timed out" \in f.signs
  BY <1>2 DEF Failure
<1> QED BY <1>1, <1>2

\* A result that may be interpreted again was not stopped, so nothing of what
\* happened to its invocation is forgotten.
LEMMA NothingForgotten ==
  ASSUME NEW f \in AllFacts, Reinterpretable(Failure(f))
  PROVE  Remembered(f, Failure(f)) = f.signs
<1>1. Failure(f) \notin {"CANCELLED", "TIMEOUT"}
  BY DEF Reinterpretable
<1>2. "cancelled" \notin f.signs /\ "timed out" \notin f.signs
  BY <1>1, StoppedIsSaid
<1> QED BY <1>1, <1>2 DEF Remembered

\* What succeeds under some options failed under others only for a reason that
\* options can lift.
LEMMA OptionsLift ==
  ASSUME NEW f \in AllFacts, f.signs = {}, ValidStream(f), Completions # {},
         f.served \notin {"several", "other"}, FinalText # "none"
  PROVE  Reinterpretable(Failure(f))
<1>1. Failure(f) \in {"POLICY_VIOLATION", "OUTPUT_SCHEMA_INVALID", "none"}
  BY DEF Failure
<1> QED BY <1>1 DEF Reinterpretable

\* revalidate: the verdict on a stored capture under other options is the one
\* a live invocation under those options would have had.
THEOREM RevalidationLive == Spec => []RevalidationIsLive
<1>1. RevalidationIsLive
  <2> SUFFICES ASSUME Completions # {},
                      NEW f \in Facts, NEW fence \in BOOLEAN, NEW warn \in BOOLEAN
               PROVE  LET live == [f EXCEPT !.fence = fence, !.warn = warn]
                      IN  RevalidationPasses(f, fence, warn) <=> Covers(live) /\ Succeeds(live)
    BY DEF RevalidationIsLive
  <2> DEFINE live == [f EXCEPT !.fence = fence, !.warn = warn]
             g    == [f EXCEPT !.fence = fence, !.warn = warn,
                               !.signs = Remembered(f, Failure(f))]
  <2>0. f \in AllFacts
    BY CaptureAssumption
  <2>1. RevalidationPasses(f, fence, warn) <=>
          Covers(g) /\ Failure(g) = "none" /\ Reinterpretable(Failure(f))
    BY DEF RevalidationPasses
  <2>2. Remembered(f, Failure(f)) = f.signs => g = live
    BY <2>0 DEF AllFacts
  <2>3. /\ live \in AllFacts
        /\ live.signs = f.signs /\ live.served = f.served
        /\ ValidStream(live) <=> ValidStream(f)
    <3> HIDE DEF g
    <3>1. /\ live \in AllFacts
          /\ live.signs = f.signs /\ live.served = f.served
      BY <2>0 DEF AllFacts
    <3> HIDE DEF live
    <3> QED BY <3>1 DEF ValidStream, Parsed
  <2> HIDE DEF live, g
  <2>4. Succeeds(live) => Reinterpretable(Failure(f))
    BY <2>0, <2>3, SuccessIs, OptionsLift
  <2>5. RevalidationPasses(f, fence, warn) <=> Covers(live) /\ Succeeds(live)
    BY <2>0, <2>1, <2>2, <2>4, NothingForgotten DEF Succeeds
  <2> QED BY <2>5 DEF live
<1> QED BY <1>1, PTL

=============================================================================
