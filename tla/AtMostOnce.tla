----------------------------- MODULE AtMostOnce -----------------------------
(***************************************************************************)
(* What both delivery paths of the dispatcher promise of one item: it is   *)
(* reserved before it is dispatched, dispatched at most once, and an item  *)
(* that was written off is never dispatched.  NotifyLedger implements it   *)
(* for notifications (an item is an event and a sink), BridgeDelivery for  *)
(* wake-ups of the main agent (an item is a completion event).             *)
(***************************************************************************)
EXTENDS Naturals

CONSTANT Items

VARIABLES
  stage,   \* open, reserved or closed
  sent     \* how often the item's dispatch has left the process

Init ==
  /\ stage = [i \in Items |-> "open"]
  /\ sent = [i \in Items |-> 0]

\* The item is committed to one dispatcher, durably.
Reserve(i) ==
  /\ stage[i] = "open"
  /\ stage' = [stage EXCEPT ![i] = "reserved"]
  /\ UNCHANGED sent

\* Decided, or found out, that the item is not to be dispatched (any more).
Close(i) ==
  /\ stage[i] # "closed"
  /\ stage' = [stage EXCEPT ![i] = "closed"]
  /\ UNCHANGED sent

Dispatch(i) ==
  /\ stage[i] = "reserved"
  /\ sent[i] = 0
  /\ sent' = [sent EXCEPT ![i] = 1]
  /\ UNCHANGED stage

Next == \E i \in Items : Reserve(i) \/ Close(i) \/ Dispatch(i)

Spec == Init /\ [][Next]_<<stage, sent>>
=============================================================================
