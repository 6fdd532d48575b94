---------------------------- MODULE AttemptStatus ----------------------------
(***************************************************************************)
(* An attempt as the batch commands want to see it: a status, and readers  *)
(* whose answer is a status it had while they looked.  The status goes     *)
(* forward while its writer is at work, and stands once the writer is      *)
(* over; the one thing that takes a result back is the end of the writer   *)
(* itself.  ShardFiles implements this with files.                         *)
(*                                                                         *)
(* AttemptLedger, CollectBatch and BatchMonitor read an attempt in one     *)
(* step, and know it as terminal only from when its writer is over: what a *)
(* reader without a lock may see between the last byte of a manifest and   *)
(* its fsync is kept here and nowhere else.                                *)
(***************************************************************************)
EXTENDS Naturals

CONSTANT Readers

VARIABLES
  status,   \* 0 PLANNED, 1 RUNNING_OR_INCOMPLETE, 2 terminal
  final,    \* the writer is over: the status stands
  held,     \* the statuses the attempt has had since a reader began to look
  answer    \* what a reader concluded, NoAnswer while it looks

NoAnswer == 3

Init ==
  /\ status = 0
  /\ final = FALSE
  /\ held = [r \in Readers |-> {}]
  /\ answer = [r \in Readers |-> 0]

\* The readers that are looking have the new status before them.
Observe ==
  held' = [r \in Readers |->
             IF answer[r] = NoAnswer THEN held[r] \cup {status'} ELSE held[r]]

Advance ==
  /\ ~final
  /\ status < 2
  /\ status' = status + 1
  /\ Observe
  /\ UNCHANGED <<final, answer>>

\* The writer ends: with what it has, or taking back its result.
Settle ==
  /\ ~final
  /\ status > 0
  /\ final' = TRUE
  /\ status' \in {1, status}
  /\ Observe
  /\ UNCHANGED answer

Begin(r) ==
  /\ answer[r] # NoAnswer
  /\ held' = [held EXCEPT ![r] = {status}]
  /\ answer' = [answer EXCEPT ![r] = NoAnswer]
  /\ UNCHANGED <<status, final>>

Conclude(r) ==
  /\ answer[r] = NoAnswer
  /\ \E s \in held[r] : answer' = [answer EXCEPT ![r] = s]
  /\ held' = [held EXCEPT ![r] = {}]
  /\ UNCHANGED <<status, final>>

Next == Advance \/ Settle \/ \E r \in Readers : Begin(r) \/ Conclude(r)

Spec == Init /\ [][Next]_<<status, final, held, answer>>
=============================================================================
