--------------------------- MODULE AttemptLedger ----------------------------
(***************************************************************************)
(* What the attempts of a batch look like to whoever only reads the plan   *)
(* root: which attempts are planned, which retry plans can be read, and    *)
(* what _classify_attempt answers for each attempt.  The runner            *)
(* (BatchExecution) implements this module; the readers that take no lock  *)
(* are modelled on top of it.                                              *)
(***************************************************************************)
EXTENDS Integers, FiniteSets

CONSTANTS
  Profiles,       \* profiles of the plan
  Shards,         \* shards of the plan
  LastRetry       \* retry plans are 1..LastRetry, in name order

ASSUME LedgerAssumption ==
  /\ Profiles \subseteq Nat
  /\ Shards \subseteq Nat
  /\ LastRetry \in Nat

VARIABLES
  plan,      \* retry-plan directory: absent, partial (no manifest), sealed
  planned,   \* the attempts the base plan and the retry plans name
  shard      \* the status of each attempt

ledger == <<plan, planned, shard>>

Base     == 0
Retries  == 1..LastRetry
Plans    == 0..LastRetry
Keys     == Profiles \X Shards
Attempts == Keys \X Plans
Terminal == {"SUCCESS", "FAILED"}

PlansReadable == \A r \in Retries : plan[r] # "partial"

Succeeded(k) == \E r \in Plans : shard[<<k, r>>] = "SUCCESS"

\* The order of _all_attempt_specs: the base plan, then the retry plans by
\* name; profile and shard order within each.
Before(a, b) ==
  \/ a[2] < b[2]
  \/ a[2] = b[2] /\ a[1][1] < b[1][1]
  \/ a[2] = b[2] /\ a[1][1] = b[1][1] /\ a[1][2] < b[1][2]

FirstOf(S, a) == a \in S /\ \A b \in S \ {a} : Before(a, b)

LedgerInit ==
  /\ plan = [r \in Retries |-> "absent"]
  /\ planned = {a \in Attempts : a[2] = Base}
  /\ shard = [a \in Attempts |-> "PLANNED"]

\* A retry plan names new attempts for pairs that have not succeeded.
PlanRetries(r, K) ==
  /\ plan[r] = "absent"
  /\ PlansReadable
  /\ \A k \in K : ~Succeeded(k)
  /\ plan' = [plan EXCEPT ![r] = "partial"]
  /\ planned' = planned \cup {a \in Attempts : a[1] \in K /\ a[2] = r}
  /\ UNCHANGED shard

SealRetries(r) ==
  /\ plan[r] = "partial"
  /\ plan' = [plan EXCEPT ![r] = "sealed"]
  /\ UNCHANGED <<planned, shard>>

StartAttempt(a) ==
  /\ a \in planned
  /\ a[2] # Base => plan[a[2]] = "sealed"
  /\ shard[a] = "PLANNED"
  /\ shard' = [shard EXCEPT ![a] = "RUNNING_OR_INCOMPLETE"]
  /\ UNCHANGED <<plan, planned>>

\* An attempt may stay incomplete for ever; its result comes at most once,
\* and a pair succeeds at most once.
EndAttempt(a, status) ==
  /\ shard[a] = "RUNNING_OR_INCOMPLETE"
  /\ status = "SUCCESS" => ~Succeeded(a[1])
  /\ shard' = [shard EXCEPT ![a] = status]
  /\ UNCHANGED <<plan, planned>>

LedgerNext ==
  \/ \E r \in Retries, K \in SUBSET Keys : PlanRetries(r, K)
  \/ \E r \in Retries : SealRetries(r)
  \/ \E a \in Attempts : StartAttempt(a) \/ \E s \in Terminal : EndAttempt(a, s)

LedgerSpec == LedgerInit /\ [][LedgerNext]_ledger
=============================================================================
