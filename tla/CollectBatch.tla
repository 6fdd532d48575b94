---------------------------- MODULE CollectBatch ----------------------------
(***************************************************************************)
(* collect_batch (agent_harness/batch.py) beside the runner.  A collector  *)
(* takes no lock: it lists the attempts, classifies them one by one for    *)
(* the successes, lists them again, builds its rows, classifies every      *)
(* attempt a second time for failed_shards.tsv, and only then makes its    *)
(* directory, all while runs and retry plans go on.  revalidate            *)
(* (revalidation.py) runs beside both and writes a derivative of a sealed  *)
(* attempt.  What the runner does is its abstraction AttemptLedger.        *)
(*                                                                         *)
(* All collectors use one collection id: the competition for a directory   *)
(* is part of the model, and different ids do not meet.                    *)
(***************************************************************************)
EXTENDS AttemptLedger

CONSTANTS
  Nobody,       \* "no collector"
  Collectors,   \* processes running dca batch collect with the same id
  Inexact       \* attempts whose output, if they have one, does not answer
                \* every planned record of its shard exactly once

ASSUME CollectAssumption ==
  /\ Inexact \subseteq Attempts
  /\ Nobody \notin Collectors

VARIABLES
  derived,      \* the best derivative of an attempt: none, fail or pass
  step,         \* where a collector is
  listed,       \* attempts its present listing holds
  rest,         \* attempts of the listing it has not yet classified
  good,         \* attempts the first pass found SUCCESS
  taken,        \* the attempt whose output each pair contributes, or NoTake
  failed,       \* attempts with a row in failed_shards.tsv
  collection    \* the directory: its writer and what it says

readers == <<derived, step, listed, rest, good, taken, failed, collection>>
allVars == <<ledger, readers>>

NoTake == [plan |-> -1, source |-> "none"]
Takes  == [plan : Plans, source : {"original", "revalidation"}] \cup {NoTake}

\* The result of a collection that is not there or has no manifest.
NoResult == [status |-> "none", listed |-> {}, failed |-> {},
             taken |-> [k \in Keys |-> NoTake]]

Results == [status : {"none", "PASS", "FAIL"}, listed : SUBSET Attempts,
            failed : SUBSET Attempts, taken : [Keys -> Takes]]

CollectTypeOK ==
  /\ derived \in [Attempts -> {"none", "pass", "fail"}]
  /\ step \in [Collectors -> {"idle", "scan", "choose", "failed", "write"}]
  /\ {listed, rest, good, failed} \subseteq [Collectors -> SUBSET Attempts]
  /\ \A c \in Collectors : rest[c] \cup good[c] \cup failed[c] \subseteq listed[c]
  /\ taken \in [Collectors -> [Keys -> Takes]]
  /\ collection \in [writer : Collectors \cup {Nobody}, result : Results]

\* Faulty form: the work list survives a failed command.
EmptyButRest(c) ==
  /\ step' = [step EXCEPT ![c] = "idle"]
  /\ listed' = [listed EXCEPT ![c] = {}]
  /\ good' = [good EXCEPT ![c] = {}]
  /\ taken' = [taken EXCEPT ![c] = [k \in Keys |-> NoTake]]
  /\ failed' = [failed EXCEPT ![c] = {}]
  /\ UNCHANGED rest

\* The command is over: its local state is gone.
Empty(c) ==
  /\ step' = [step EXCEPT ![c] = "idle"]
  /\ listed' = [listed EXCEPT ![c] = {}]
  /\ rest' = [rest EXCEPT ![c] = {}]
  /\ good' = [good EXCEPT ![c] = {}]
  /\ taken' = [taken EXCEPT ![c] = [k \in Keys |-> NoTake]]
  /\ failed' = [failed EXCEPT ![c] = {}]

CollectInit ==
  /\ LedgerInit
  /\ derived = [a \in Attempts |-> "none"]
  /\ step = [c \in Collectors |-> "idle"]
  /\ listed = [c \in Collectors |-> {}]
  /\ rest = [c \in Collectors |-> {}]
  /\ good = [c \in Collectors |-> {}]
  /\ taken = [c \in Collectors |-> [k \in Keys |-> NoTake]]
  /\ failed = [c \in Collectors |-> {}]
  /\ collection = [writer |-> Nobody, result |-> NoResult]

-----------------------------------------------------------------------------
(* revalidate                                                              *)

\* A derivative is computed from a sealed attempt and written to a directory of
\* its own.  Whether it passes follows from the immutable source and the
\* interpretation asked for, which may change from one id to the next; one whose
\* writer died verifies no better than one that failed.
Revalidate(a, verdict) ==
  /\ shard[a] \in Terminal
  /\ derived[a] # "pass"
  /\ derived' = [derived EXCEPT ![a] = verdict]
  /\ UNCHANGED <<ledger, step, listed, rest, good, taken, failed, collection>>

-----------------------------------------------------------------------------
(* collect_batch                                                           *)

IsFirst(c, a) == FirstOf(rest[c], a)

\* destination.exists() and the first listing.
Open(c) ==
  /\ step[c] = "idle"
  /\ collection.writer = Nobody
  /\ PlansReadable
  /\ step' = [step EXCEPT ![c] = "scan"]
  /\ listed' = [listed EXCEPT ![c] = planned]
  /\ rest' = [rest EXCEPT ![c] = planned]
  /\ UNCHANGED <<ledger, derived, good, taken, failed, collection>>

\* _successful_attempts_by_shard, one attempt after the other.
ScanSuccess(c, a) ==
  /\ step[c] = "scan"
  /\ IsFirst(c, a)
  /\ rest' = [rest EXCEPT ![c] = @ \ {a}]
  /\ good' = [good EXCEPT ![c] = IF shard[a] = "SUCCESS" THEN @ \cup {a} ELSE @]
  /\ UNCHANGED <<ledger, derived, step, listed, taken, failed, collection>>

\* The second listing: retry plans made since the first one appear here.
ListAgain(c) ==
  /\ step[c] = "scan"
  /\ rest[c] = {}
  /\ PlansReadable
  /\ step' = [step EXCEPT ![c] = "choose"]
  /\ listed' = [listed EXCEPT ![c] = planned]
  /\ UNCHANGED <<ledger, derived, rest, good, taken, failed, collection>>

\* validate_coverage on an output; a passing derivative has passed it already.
Contribution(k, r, source) ==
  IF source = "revalidation" \/ <<k, r>> \notin Inexact
  THEN [plan |-> r, source |-> source]
  ELSE NoTake

\* Without a selection a pair contributes its one success, if the first pass
\* found exactly one and its output answers the shard exactly.
TakenFrom(c, k) ==
  LET found == {r \in Plans : <<k, r>> \in good[c]}
  IN  IF Cardinality(found) = 1
      THEN Contribution(k, CHOOSE r \in found : TRUE, "original")
      ELSE NoTake

TakeSuccesses(c) ==
  /\ step[c] = "choose"
  /\ taken' = [taken EXCEPT ![c] = [k \in Keys |-> TakenFrom(c, k)]]
  /\ step' = [step EXCEPT ![c] = "failed"]
  /\ rest' = [rest EXCEPT ![c] = listed[c]]
  /\ UNCHANGED <<ledger, derived, listed, good, failed, collection>>

\* Faulty form: a derivative is believed without its verdict.
EligibleUnverified(c, k, t) ==
  /\ <<k, t.plan>> \in listed[c]
  /\ t.source = "original" => shard[<<k, t.plan>>] = "SUCCESS"
  /\ t.source = "revalidation" => derived[<<k, t.plan>>] # "none"

\* One entry of an explicit selection: a listed attempt that is SUCCESS, or
\* one whose derivative verifies and passes.
EligibleChoice(c, k, t) ==
  /\ <<k, t.plan>> \in listed[c]
  /\ t.source = "original" => shard[<<k, t.plan>>] = "SUCCESS"
  /\ t.source = "revalidation" => derived[<<k, t.plan>>] = "pass"

\* An explicit selection names every pair exactly once; anything else raises.
TakeSelection(c, choice) ==
  /\ step[c] = "choose"
  /\ \A k \in Keys : EligibleChoice(c, k, choice[k])
  /\ taken' = [taken EXCEPT ![c] =
                 [k \in Keys |-> Contribution(k, choice[k].plan, choice[k].source)]]
  /\ step' = [step EXCEPT ![c] = "failed"]
  /\ rest' = [rest EXCEPT ![c] = listed[c]]
  /\ UNCHANGED <<ledger, derived, listed, good, failed, collection>>

\* Faulty form: the rows are made from what the first pass found.
ClassifyFromFirstPass(c, a) ==
  /\ step[c] = "failed"
  /\ IsFirst(c, a)
  /\ rest' = [rest EXCEPT ![c] = @ \ {a}]
  /\ failed' = [failed EXCEPT ![c] = IF a \in good[c] THEN @ ELSE @ \cup {a}]
  /\ UNCHANGED <<ledger, derived, step, listed, good, taken, collection>>

\* The second classification: every attempt that is not SUCCESS gets a row.
ClassifyAgain(c, a) ==
  /\ step[c] = "failed"
  /\ IsFirst(c, a)
  /\ rest' = [rest EXCEPT ![c] = @ \ {a}]
  /\ failed' = [failed EXCEPT ![c] =
                  IF shard[a] # "SUCCESS" THEN @ \cup {a} ELSE @]
  /\ UNCHANGED <<ledger, derived, step, listed, good, taken, collection>>

\* destination.mkdir without exist_ok: the loser of a race raises.
MakeDirectory(c) ==
  /\ step[c] = "failed"
  /\ rest[c] = {}
  /\ collection.writer = Nobody
  /\ collection' = [collection EXCEPT !.writer = c]
  /\ step' = [step EXCEPT ![c] = "write"]
  /\ UNCHANGED <<ledger, derived, listed, rest, good, taken, failed>>

\* Faulty form: pairs without an output are not counted as missing.
VerdictOfFound(c) ==
  IF \E k \in Keys : taken[c][k] # NoTake THEN "PASS" ELSE "FAIL"

\* coverage_status of every profile: no validation error and every planned
\* record observed once, that is, every pair contributes an exact output.
Verdict(c) ==
  IF \A k \in Keys : taken[c][k] # NoTake THEN "PASS" ELSE "FAIL"

\* The tables, the summary and the manifest are written and sealed.
SealCollection(c) ==
  /\ step[c] = "write"
  /\ collection' = [collection EXCEPT !.result =
       [status |-> Verdict(c), listed |-> listed[c], failed |-> failed[c],
        taken |-> taken[c]]]
  /\ Empty(c)
  /\ UNCHANGED <<ledger, derived>>

\* An exception, or the death of the process: the directory, if it was made,
\* stays without a manifest and its id is used up.
GiveUp(c) ==
  /\ step[c] # "idle"
  /\ Empty(c)
  /\ UNCHANGED <<ledger, derived, collection>>

Collect(c) ==
  \/ Open(c)
  \/ \E a \in Attempts : ScanSuccess(c, a) \/ ClassifyAgain(c, a)
  \/ ListAgain(c)
  \/ TakeSuccesses(c)
  \/ \E choice \in [Keys -> Takes \ {NoTake}] : TakeSelection(c, choice)
  \/ MakeDirectory(c)
  \/ SealCollection(c)
  \/ GiveUp(c)

CollectNext ==
  \/ LedgerNext /\ UNCHANGED readers
  \/ \E a \in Attempts, verdict \in {"pass", "fail"} : Revalidate(a, verdict)
  \/ \E c \in Collectors : Collect(c)

CollectSpec == CollectInit /\ [][CollectNext]_allVars

-----------------------------------------------------------------------------
(* What a collection promises                                              *)

result == collection.result

Original(k) == result.taken[k].source = "original"

\* "Collect only successful schema-valid shards and fail closed on coverage":
\* a sealed PASS has for every pair an exact output, and where it is an
\* original one it comes from the only attempt of the pair that has
\* succeeded or ever will, whatever ran while the collector read; where it
\* is not, it comes from a derivative that passed.
PassIsComplete ==
  result.status = "PASS" =>
    \A k \in Keys :
      /\ result.taken[k] # NoTake
      /\ Original(k) =>
           /\ <<k, result.taken[k].plan>> \notin Inexact
           /\ \A r \in Plans : shard[<<k, r>>] = "SUCCESS" <=> r = result.taken[k].plan
      /\ ~Original(k) => derived[<<k, result.taken[k].plan>>] = "pass"

\* failed_shards.tsv "still describes the original attempt ledger": although
\* the two classifications are made at different times, no original that
\* contributes records has a row, and every attempt that contributes through
\* a derivative of a failure keeps its row.
LedgerKeepsOriginals ==
  \A k \in Keys :
    result.taken[k] # NoTake =>
      LET a == <<k, result.taken[k].plan>>
      IN  /\ Original(k) => a \notin result.failed
          /\ shard[a] # "SUCCESS" => ~Original(k) /\ a \in result.failed
=============================================================================
