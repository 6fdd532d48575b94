-------------------------- MODULE CaptureEvaluation --------------------------
(***************************************************************************)
(* evaluate_capture (agent_harness/adapter.py) with the lifecycle and      *)
(* activity rules it calls (runtime_contract.py): from what an agent wrote *)
(* to its standard output, and how its process ended, to one success or    *)
(* one failure code.  The same function judges a live invocation and its   *)
(* later revalidation.                                                     *)
(*                                                                         *)
(* The agent is the environment: it emits any events in any order.  The    *)
(* loops of the code are folds over the events, so their accumulators are  *)
(* kept as state and extended with every event.  A text is abstracted to   *)
(* what the validators say of it, an item to the fields the rules look at. *)
(***************************************************************************)
EXTENDS Integers, Sequences, FiniteSets

CONSTANTS
  Ids,          \* item ids
  NoId,         \* an item without a usable id
  Alphabet,     \* the events the agent may emit
  Facts,        \* what else evaluate_capture is given
  MaxEvents,    \* bound: events of a stream
  MaxIssues     \* bound: lifecycle issues after which a stream grows no more

TurnTypes == {"thread.started", "turn.started", "turn.completed",
              "turn.failed", "error"}
ItemTypes == {"item.started", "item.updated", "item.completed"}
Tools == {"command_execution", "mcp_tool_call", "web_search", "file_change",
          "collab_tool_call"}
Benign == {"agent_message", "reasoning", "todo_list"}
Kinds == Tools \cup Benign \cup {"error", "request_user_input_rejection",
                                 "other", "none", "untyped"}
Unnamed == {"none", "untyped"}

\* What the rules see of an item: the text of a message (parses and passes
\* the schema; only inside a code fence; passes but misses planned records;
\* fails), the status of a call, a rejection with or without exactly the
\* confirming fields, an error with or without a message; and of the start of a
\* thread whether it has a usable id ("malformed": none).  "none" is no item
\* and "untyped" an item without a kind; the id is looked at only in an item
\* event whose item has a kind.
Details == {"none", "valid", "fenced", "uncovered", "invalid", "in_progress",
            "done", "declined", "confirmed", "malformed"}
Events == [type : TurnTypes \cup ItemTypes \cup {"other"}, id : Ids \cup {NoId},
           kind : Kinds, detail : Details]

\* How the process ended, what stderr and the error events say, and whether
\* the profile's list of served models can be used.
Signs == {"cancelled", "timed out", "rate limited", "prefill parameter",
          "partial parameter", "not started", "unreadable", "nonzero exit",
          "bad allowlist"}

\* fence and warn are the two contract options; granted, the tools the policy
\* allows; suspicious, stderr naming a rejected tool; served, the models the
\* provider reported.
AllFacts == [signs : SUBSET Signs, fence : BOOLEAN, warn : BOOLEAN,
             granted : SUBSET Tools, suspicious : BOOLEAN,
             served : {"unreported", "allowed", "other", "several"}]

ASSUME CaptureAssumption ==
  /\ NoId \notin Ids
  /\ Alphabet \subseteq Events
  /\ \A e \in Alphabet : e.type \notin ItemTypes \/ e.kind \in Unnamed => e.id = NoId
  /\ Facts \subseteq AllFacts
  /\ MaxEvents \in Nat
  /\ MaxIssues \in Nat

VARIABLES
  protocol,     \* what the CLI's version stands for
  events,       \* the parsed events
  life,         \* accumulator of _lifecycle_issues
  calls,        \* accumulator of classify_activity: one record per call
  exempt        \* accumulator: the confirmed rejections

vars == <<protocol, events, life, calls, exempt>>

Unknown   == "UNKNOWN"
Rejected  == "REJECTED_BEFORE_EXECUTION"
Executed  == "EXECUTED"
Started   == "STARTED"
NoCall    == [tool |-> "none", states |-> {}, closed |-> FALSE]
NoItem    == [kind |-> "none", type |-> "none"]

Supported == protocol # "UNSUPPORTED"

-----------------------------------------------------------------------------
(* _lifecycle_issues                                                       *)

IsItem(e) == e.type \in ItemTypes

\* The start of a thread, with an id that is a text and not empty.
NamesThread(e) == e.type = "thread.started" /\ e.detail # "malformed"

\* An error item before the turn, under a protocol whose rules are known.
IsDiagnostic(phase, e) ==
  /\ Supported
  /\ phase = "before_turn"
  /\ e.type = "item.completed"
  /\ e.kind = "error"
  /\ e.detail # "malformed"

\* Faulty form: an item may be completed twice.
ItemConflictUnlessRestarted(items, e) ==
  LET previous == items[e.id]
  IN  previous # NoItem /\ (previous.kind # e.kind \/ e.type = "item.started")

ItemConflict(items, e) ==
  LET previous == items[e.id]
  IN  IF previous = NoItem THEN e.type = "item.updated"
      ELSE \/ previous.kind # e.kind
           \/ previous.type = "item.completed"
           \/ e.type = "item.started"

\* The event that becomes number i breaks a rule.  An event after the
\* terminal one always does, so the check that a terminal event is the last
\* needs no look ahead.
Problem(l, e, i) ==
  \/ e.type = "thread.started" /\ (l.phase # "before_thread" \/ i # 1)
  \/ e.type = "thread.started" /\ ~NamesThread(e)
  \/ e.type = "turn.started" /\ l.phase # "before_turn"
  \/ e.type \in {"turn.completed", "turn.failed"} /\ l.phase # "in_turn"
  \/ IsItem(e) /\ l.phase # "in_turn" /\ ~IsDiagnostic(l.phase, e)
  \/ IsItem(e) /\ (e.id = NoId \/ ItemConflict(l.items, e))
  \/ e.type = "error"
  \/ e.type = "other" /\ l.phase # "in_turn"

NextPhase(l, e, i) ==
  IF Problem(l, e, i) /\ e.type \in {"thread.started", "turn.started"} THEN l.phase
  ELSE CASE e.type = "thread.started" -> "before_turn"
         [] e.type = "turn.started" -> "in_turn"
         [] e.type \in {"turn.completed", "turn.failed"} -> "terminal"
         [] e.type = "error" -> "stream_failed"
         [] OTHER -> l.phase

LifeStep(l, e, i) ==
  [phase |-> NextPhase(l, e, i),
   issues |-> l.issues + (IF Problem(l, e, i) THEN 1 ELSE 0),
   items |-> IF IsItem(e) /\ e.id # NoId
             THEN [l.items EXCEPT ![e.id] = [kind |-> e.kind, type |-> e.type]]
             ELSE l.items,
   diagnostics |-> IF IsDiagnostic(l.phase, e) /\ ~Problem(l, e, i)
                   THEN l.diagnostics \cup {i} ELSE l.diagnostics]

LifecycleIssues ==
  \/ life.issues > 0
  \/ life.phase # "terminal"
  \/ \E d \in Ids : life.items[d].type \in {"item.started", "item.updated"}

-----------------------------------------------------------------------------
(* classify_activity                                                       *)

\* Every item that is neither benign nor a diagnostic is a call.
IsCall(e, diagnostic) ==
  IsItem(e) /\ e.kind \notin Benign \cup Unnamed /\ ~diagnostic

\* Faulty form: a rejection item is believed under every protocol.
ConfirmsAnywhere(e) ==
  /\ e.kind = "request_user_input_rejection"
  /\ e.type = "item.completed"
  /\ e.detail = "confirmed"

\* The exact rejection item of the synthetic protocol.
Confirms(e) ==
  /\ protocol = "synthetic"
  /\ e.kind = "request_user_input_rejection"
  /\ e.type = "item.completed"
  /\ e.detail = "confirmed"

\* The state one event adds to its call, given the states it has.
StateOf(e, states) ==
  IF Confirms(e) /\ states = {} THEN Rejected
  ELSE IF ~Supported \/ e.kind \notin Tools THEN Unknown
  ELSE CASE e.kind = "command_execution" /\ e.detail = "declined"
              /\ e.type = "item.completed" /\ states = {} -> Rejected
         [] e.kind = "command_execution" /\ e.detail = "done"
              /\ e.type = "item.completed" -> Executed
         [] e.kind = "command_execution" /\ e.detail = "in_progress"
              /\ e.type # "item.completed" -> Started
         [] e.kind \in {"mcp_tool_call", "collab_tool_call"}
              /\ e.detail = "in_progress" /\ e.type = "item.started" -> Executed
         [] e.kind \in {"mcp_tool_call", "collab_tool_call", "file_change"}
              /\ e.detail = "done" /\ e.type = "item.completed" -> Executed
         [] e.kind = "web_search" /\ e.detail = "done" -> Executed
         [] OTHER -> Unknown

\* A call that changes its tool or goes on after its completion is unknown.
EarlierStates(call, e) ==
  IF call # NoCall /\ (call.tool # e.kind \/ call.closed)
  THEN call.states \cup {Unknown}
  ELSE call.states

CallStep(e, i, diagnostic) ==
  IF ~IsCall(e, diagnostic) \/ e.id = NoId
  THEN UNCHANGED <<calls, exempt>>
  ELSE LET call    == calls[e.id]
           earlier == EarlierStates(call, e)
       IN  /\ calls' = [calls EXCEPT ![e.id] =
                [tool   |-> IF call = NoCall THEN e.kind ELSE call.tool,
                 states |-> earlier \cup {StateOf(e, earlier)},
                 closed |-> call.closed \/ e.type = "item.completed"]]
           /\ exempt' = IF Confirms(e) /\ earlier = {}
                        THEN exempt \cup {i} ELSE exempt

UnknownCall(call) ==
  /\ call # NoCall
  /\ \/ ~call.closed
     \/ Unknown \in call.states
     \/ Rejected \in call.states /\ call.states \cap {Executed, Started} # {}
     \/ call.states = {Started}

Positions == 1..Len(events)

\* An event no rule accounts for, diagnostics aside.
Unaccounted(i) ==
  LET e == events[i]
  IN  /\ i \notin life.diagnostics
      /\ \/ e.type \in {"other", "turn.failed", "error"}
         \/ IsItem(e) /\ e.kind \in Unnamed
         \/ IsItem(e) /\ e.kind \in {"agent_message", "reasoning"} /\ e.detail = "none"
         \/ IsItem(e) /\ e.kind = "todo_list" /\ (e.id = NoId \/ e.detail = "none")
         \/ IsItem(e) /\ e.kind \notin Benign /\ e.id = NoId

\* The last state of a work list leaves a step open.
UnfinishedWork ==
  \E i \in Positions :
    /\ IsItem(events[i]) /\ events[i].kind = "todo_list" /\ events[i].detail # "done"
    /\ \A j \in Positions :
         j > i /\ IsItem(events[j]) /\ events[j].kind = "todo_list" =>
           events[j].id # events[i].id

-----------------------------------------------------------------------------
(* _parse_event_stream and evaluate_capture                                *)

Completions == {i \in Positions : events[i].type = "turn.completed"}

\* Parsed without an error: one terminal event at most, and nothing after it.
Parsed(f) ==
  /\ "unreadable" \notin f.signs
  /\ events # <<>>
  /\ Cardinality(Completions) <= 1
  /\ Completions \subseteq {Len(events)}

ActivityUnknown(f) ==
  \/ ~Supported
  \/ ~Parsed(f) \/ Completions = {}
  \/ LifecycleIssues
  \/ \E i \in Positions : Unaccounted(i)
  \/ \E d \in Ids : UnknownCall(calls[d])
  \/ UnfinishedWork
  \/ f.suspicious

\* Faulty form: the lifecycle is not looked at.
ValidStreamAnyOrder(f) == Parsed(f)

ValidStream(f) ==
  Parsed(f) /\ ~(Supported /\ Completions # {} /\ LifecycleIssues)

\* event_violation: a tool the policy does not grant.  Commands that name
\* Codex count as a tool that is never granted.
NotGranted(e, f) ==
  e.kind \notin f.granted \cap {"command_execution", "mcp_tool_call", "web_search"}

\* _policy_violations of one event; an item is audited in whatever event.
Violates(e, f) ==
  \/ e.type = "other"
  \/ e.kind \notin Benign \cup {"error", "none"} /\ NotGranted(e, f)

DefaultContract(f) == ~f.fence /\ ~f.warn

Exemptions(f) == IF f.warn /\ ~ActivityUnknown(f) THEN exempt ELSE {}

PolicyViolated(f) ==
  \/ \E i \in Positions \ Exemptions(f) : Violates(events[i], f)
  \/ ~DefaultContract(f) /\ ActivityUnknown(f)

Messages == {i \in Positions : /\ events[i].type = "item.completed"
                               /\ events[i].kind = "agent_message"
                               /\ events[i].detail # "none"}

\* The text of the last completed agent message.
FinalText ==
  IF Messages = {} THEN "none"
  ELSE events[CHOOSE i \in Messages : \A j \in Messages : j <= i].detail

\* normalize_output, and exact-once coverage under a non-default contract.
SchemaPasses(f) ==
  \/ FinalText = "valid"
  \/ FinalText = "fenced" /\ f.fence
  \/ FinalText = "uncovered" /\ DefaultContract(f)

\* The reasons a capture fails, in the order in which they are looked for.
Failure(f) ==
  IF "cancelled" \in f.signs THEN "CANCELLED"
  ELSE IF "timed out" \in f.signs THEN "TIMEOUT"
  ELSE IF "rate limited" \in f.signs THEN "PROVIDER_RATE_LIMIT_429"
  ELSE IF "prefill parameter" \in f.signs THEN "PROVIDER_PREFILL_PARAMETER_ERROR"
  ELSE IF "partial parameter" \in f.signs THEN "PROVIDER_PARTIAL_PARAMETER_ERROR"
  ELSE IF "not started" \in f.signs THEN "CLI_NONZERO_EXIT"
  ELSE IF ~ValidStream(f) THEN "EVENT_STREAM_INVALID"
  ELSE IF PolicyViolated(f) THEN "POLICY_VIOLATION"
  ELSE IF "nonzero exit" \in f.signs THEN "CLI_NONZERO_EXIT"
  ELSE IF Completions = {} THEN "TURN_COMPLETED_MISSING"
  ELSE IF f.served = "several" THEN "SILENT_FALLBACK_DETECTED"
  ELSE IF "bad allowlist" \in f.signs THEN "PROFILE_CONFIGURATION_INVALID"
  ELSE IF f.served = "other" THEN "SILENT_FALLBACK_DETECTED"
  ELSE IF FinalText = "none" THEN "FINAL_OUTPUT_MISSING"
  ELSE IF ~SchemaPasses(f) THEN "OUTPUT_SCHEMA_INVALID"
  ELSE "none"

-----------------------------------------------------------------------------
(* revalidate                                                              *)

\* normalize_output and validate_coverage, whatever the contract.
Covers(f) == FinalText = "valid" \/ (FinalText = "fenced" /\ f.fence)

\* Faulty form: a rejected answer counts as an execution failure.
ReinterpretablePolicyOnly(code) == code \in {"none", "POLICY_VIOLATION"}

\* The source failures a new interpretation may lift.
Reinterpretable(code) ==
  code \in {"none", "POLICY_VIOLATION", "OUTPUT_SCHEMA_INVALID"}

\* What the record of an attempt that failed with that code has kept of how
\* its process was ended.
Remembered(f, code) ==
  (f.signs \ {"cancelled", "timed out"})
    \cup {s \in {"cancelled"} : code = "CANCELLED"}
    \cup {s \in {"timed out"} : code = "TIMEOUT"}

\* The verdict of _evaluate on the capture of an attempt, under the options
\* of another contract.
RevalidationPasses(f, fence, warn) ==
  LET code == Failure(f)
      g    == [f EXCEPT !.fence = fence, !.warn = warn,
                        !.signs = Remembered(f, code)]
  IN  Covers(g) /\ Failure(g) = "none" /\ Reinterpretable(code)

-----------------------------------------------------------------------------
Init ==
  /\ protocol \in {"synthetic", "codex-exec", "UNSUPPORTED"}
  /\ events = <<>>
  /\ life = [phase |-> "before_thread", issues |-> 0,
             items |-> [d \in Ids |-> NoItem], diagnostics |-> {}]
  /\ calls = [d \in Ids |-> NoCall]
  /\ exempt = {}

Emit(e) ==
  LET i == Len(events) + 1
  IN  /\ Len(events) < MaxEvents
      /\ life.issues < MaxIssues
      /\ events' = Append(events, e)
      /\ life' = LifeStep(life, e, i)
      /\ CallStep(e, i, i \in LifeStep(life, e, i).diagnostics)
      /\ UNCHANGED protocol

Next == \E e \in Alphabet : Emit(e)

Spec == Init /\ [][Next]_vars

-----------------------------------------------------------------------------
(* What the evaluation promises                                            *)

\* The lifecycle in one piece: a named thread, diagnostics only where they
\* are allowed, one turn that ends the stream, and every item with one kind
\* that is started first if at all, updated only when it exists, completed
\* once and last.
OneTurn ==
  LET n == Len(events)
  IN  /\ n >= 3
      /\ NamesThread(events[1])
      /\ events[n].type \in {"turn.completed", "turn.failed"}
      /\ \E t \in 2..(n - 1) :
           /\ events[t].type = "turn.started"
           /\ \A i \in 2..(t - 1) :
                /\ Supported
                /\ events[i].type = "item.completed"
                /\ events[i].kind = "error"
                /\ events[i].detail # "malformed"
           /\ \A i \in (t + 1)..(n - 1) : events[i].type \in ItemTypes \cup {"other"}
      /\ \A i \in 1..n : IsItem(events[i]) =>
           /\ events[i].id # NoId
           /\ events[i].type = "item.updated" =>
                \E j \in 1..(i - 1) : events[j].id = events[i].id
           /\ \E j \in i..n : events[j].id = events[i].id /\ events[j].type = "item.completed"
      /\ \A i, j \in 1..n :
           i < j /\ IsItem(events[i]) /\ IsItem(events[j]) /\ events[i].id = events[j].id =>
             /\ events[i].kind = events[j].kind
             /\ events[i].type # "item.completed"
             /\ events[j].type # "item.started"

\* The one-pass bookkeeping of _lifecycle_issues finds nothing to complain
\* of exactly in the streams that are one well-formed turn.
LifecycleIsOneTurn == ~LifecycleIssues <=> OneTurn

Succeeds(f) == Failure(f) = "none"

\* A success is earned: one terminal event that ends the stream, a result
\* InvocationResult accepts (turn_completed, schema PASS), and under a known
\* protocol a well-formed turn in which the answer was given.
SuccessIsEarned ==
  \A f \in Facts : Succeeds(f) =>
    /\ f.signs = {}
    /\ Completions = {Len(events)}
    /\ SchemaPasses(f)
    /\ Supported =>
         /\ OneTurn
         /\ \E i, t \in Positions :
              t < i /\ events[t].type = "turn.started" /\ i \in Messages
              /\ \A j \in Messages : j <= i

\* The contract options open exactly two doors: what succeeds with them and
\* fails without them has its answer inside a code fence, or its only policy
\* violations are rejections of the synthetic protocol, each the sole event
\* of its call.  Everything else they can only tighten.
OptInOpensTwoDoors ==
  \A f \in Facts :
    LET plain == [f EXCEPT !.fence = FALSE, !.warn = FALSE]
    IN  Succeeds(f) /\ ~Succeeds(plain) =>
          /\ \A i \in Positions : Violates(events[i], f) =>
               /\ f.warn
               /\ protocol = "synthetic"
               /\ events[i].kind = "request_user_input_rejection"
               /\ \A j \in Positions \ {i} : events[j].id # events[i].id
          /\ \/ \E i \in Positions : Violates(events[i], f)
             \/ f.fence /\ FinalText = "fenced"

\* "Only interpretation changes": a revalidation under another contract passes
\* exactly when the invocation, had it run under that contract, would have
\* succeeded with every planned record answered once.  So it lifts no timeout,
\* cancellation or execution failure, whichever reason the original result
\* named first, and it gives up none that the contract explains.  (Nothing
\* succeeds without a completed turn.)
RevalidationIsLive ==
  Completions # {} => \A f \in Facts, fence, warn \in BOOLEAN :
    LET live == [f EXCEPT !.fence = fence, !.warn = warn]
    IN  RevalidationPasses(f, fence, warn) <=> Covers(live) /\ Succeeds(live)
=============================================================================
