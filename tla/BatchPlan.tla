----------------------------- MODULE BatchPlan ------------------------------
(***************************************************************************)
(* plan_batch and load_batch_plan (agent_harness/batch.py): the partition  *)
(* of a batch's records into shards, the plan directory it is written to,  *)
(* and what every later command checks before it believes that directory.  *)
(*                                                                         *)
(* Several processes may plan the same output root; each may die anywhere. *)
(* A record id is a number, in the order of the ids as text.  The files of *)
(* a plan are abstracted to the rows of shard_plan.tsv, the ids that are   *)
(* read back from the shard inputs, and the counts of the snapshot; its    *)
(* configuration (columns, profiles, prompt, schema, tasks) is copied into *)
(* it and compared with itself, and taken as one that reads back as it was *)
(* written.                                                                *)
(***************************************************************************)
EXTENDS Integers, Sequences, FiniteSets

CONSTANTS
  Planners,   \* processes running dca batch plan for one output root
  Records,    \* record ids of the source TSV
  Untidy,     \* those whose source row may read back otherwise from a copy
  MaxSize,    \* bound on the shard size asked for
  MaxRows,    \* bound on the rows of the batch's membership
  Radix,      \* radix of a shard number; the code's is 10
  Width       \* a shard number is padded to this many digits; the code's is 4

ASSUME PlanAssumption ==
  /\ Records \subseteq Nat
  /\ Untidy \subseteq Records
  /\ MaxSize \in Nat
  /\ MaxRows \in Nat
  /\ Radix \in Nat \ {0, 1, 2}
  /\ Width \in Nat \ {0}

VARIABLES
  phase,      \* where a planner is
  request,    \* the membership and shard size it has accepted
  folder      \* the plan directory

planVars == <<phase, request, folder>>

Stray     == -1   \* an id that no member of the batch has
NoRequest == [ids |-> {}, untidy |-> {}, rows |-> 0, size |-> 1]
NoFolder  == [stage |-> "none", asked |-> {}, untidy |-> {}, count |-> 0,
              size |-> 1, shards |-> <<>>, inputs |-> <<>>]

\* The number of record_ids up to r.
Rank(ids, r) == Cardinality({q \in ids : q <= r})

\* Faulty form: the last shard is forgotten unless it is full.
ShardCountRoundedDown(rows, size) == rows \div size

ShardCount(rows, size) == (rows + size - 1) \div size

\* record_ids[(i - 1) * size : i * size]
Slice(ids, size, i) ==
  {r \in ids : (i - 1) * size < Rank(ids, r) /\ Rank(ids, r) <= i * size}

\* What a shard input says of some members: it has the rows of the source as
\* they are, while the lookup of the ids, and shard_plan.tsv, have them without
\* the blanks around them; and csv ends a row at a bare carriage return.
ReadBack(ids, untidy) == {IF r \in untidy THEN Stray ELSE r : r \in ids}

Requests == [ids : SUBSET Records, untidy : SUBSET Untidy, rows : Nat,
             size : Nat \ {0}]
Folders  == [stage : {"none", "made", "written", "sealed"},
             asked : SUBSET Records, untidy : SUBSET Untidy, count : Nat,
             size : Nat \ {0}, shards : Seq(SUBSET Records),
             inputs : Seq(SUBSET (Records \cup {Stray}))]

PlanTypeOK ==
  /\ phase \in [Planners -> {"idle", "accepted", "write", "manifest"}]
  /\ request \in [Planners -> Requests]
  /\ folder \in Folders

PlanInit ==
  /\ phase = [p \in Planners |-> "idle"]
  /\ request = [p \in Planners |-> NoRequest]
  /\ folder = NoFolder

-----------------------------------------------------------------------------
(* plan_batch                                                              *)

\* Member ids are unique and in the source; anything else raises.
Acceptable(rows) ==
  LET ids == {rows[i] : i \in 1..Len(rows)}
  IN  ids # {} /\ ids \subseteq Records /\ Cardinality(ids) = Len(rows)

\* The inputs are read and checked, last that the output root is not there.
Accept(p) ==
  /\ phase[p] = "idle"
  /\ folder.stage = "none"
  /\ \E n \in 1..MaxRows, size \in 1..MaxSize :
       \E rows \in [1..n -> Records \cup {Stray}] :
         /\ Acceptable(rows)
         /\ \E untidy \in SUBSET (Untidy \cap {rows[i] : i \in 1..n}) :
              request' = [request EXCEPT ![p] =
                [ids |-> {rows[i] : i \in 1..n}, untidy |-> untidy,
                 rows |-> n, size |-> size]]
  /\ phase' = [phase EXCEPT ![p] = "accepted"]
  /\ UNCHANGED folder

\* output.mkdir without exist_ok: of two planners one raises.
MakeFolder(p) ==
  /\ phase[p] = "accepted"
  /\ folder.stage = "none"
  /\ folder' = [folder EXCEPT !.stage = "made"]
  /\ phase' = [phase EXCEPT ![p] = "write"]
  /\ UNCHANGED request

\* The snapshot, the shard inputs, the tasks and shard_plan.tsv.
WritePlan(p) ==
  LET q      == request[p]
      shards == [i \in 1..ShardCount(q.rows, q.size) |-> Slice(q.ids, q.size, i)]
  IN  /\ phase[p] = "write"
      /\ folder' = [stage |-> "written", asked |-> q.ids, untidy |-> q.untidy,
                    count |-> q.rows, size |-> q.size, shards |-> shards,
                    inputs |-> [i \in DOMAIN shards |->
                                  ReadBack(shards[i], q.untidy)]]
      /\ phase' = [phase EXCEPT ![p] = "manifest"]
      /\ UNCHANGED request

\* plan_sha256.tsv is the last file: the plan is sealed from when its last row
\* is there, with or without its newline, and a shorter prefix seals nothing.
\* A failing write or fsync leaves it (unlike an attempt's manifest).
SealPlan(p) ==
  /\ phase[p] = "manifest"
  /\ folder' = [folder EXCEPT !.stage = "sealed"]
  /\ phase' = [phase EXCEPT ![p] = "idle"]
  /\ request' = [request EXCEPT ![p] = NoRequest]

\* An exception or the death of the planner: what it has made stays.
Abandon(p) ==
  /\ phase[p] # "idle"
  /\ phase' = [phase EXCEPT ![p] = "idle"]
  /\ request' = [request EXCEPT ![p] = NoRequest]
  /\ UNCHANGED folder

PlanNext ==
  \E p \in Planners :
    \/ Accept(p)
    \/ MakeFolder(p)
    \/ WritePlan(p)
    \/ SealPlan(p)
    \/ Abandon(p)

PlanSpec == PlanInit /\ [][PlanNext]_planVars

-----------------------------------------------------------------------------
(* load_batch_plan                                                         *)

Power[n \in Nat] == IF n = 0 THEN 1 ELSE Radix * Power[n - 1]

\* The digits of f"{i:04d}".
Digits(i) ==
  LET length == CHOOSE n \in Width..(Width + i) :
                  /\ i < Power[n]
                  /\ n > Width => i >= Power[n - 1]
  IN  [k \in 1..length |-> (i \div Power[length - k]) % Radix]

\* i's shard id comes before j's in the order of texts.
TextBefore(i, j) ==
  LET s == Digits(i)
      t == Digits(j)
  IN  \E k \in 1..Len(t) :
        /\ \A m \in 1..(k - 1) : m <= Len(s) /\ s[m] = t[m]
        /\ k > Len(s) \/ s[k] < t[k]

\* The place of shard i when the ids are sorted as text.
Place(i, shards) == Cardinality({j \in DOMAIN shards : TextBefore(j, i)}) + 1

\* The directory is believed only with a manifest that covers it, its shards
\* numbered in the order of their names, none empty or too large, their
\* inputs of the same records as planned, these ascending from shard to shard,
\* and as many as were counted.
Loads(f) ==
  /\ f.stage = "sealed"
  /\ \A i \in DOMAIN f.shards :
       /\ Place(i, f.shards) = i
       /\ f.shards[i] # {}
       /\ Cardinality(f.shards[i]) <= f.size
       /\ f.inputs[i] = f.shards[i]
  /\ \A i, j \in DOMAIN f.shards : i < j =>
       \A q \in f.shards[i], r \in f.shards[j] : q < r
  /\ Cardinality(UNION {f.shards[i] : i \in DOMAIN f.shards}) = f.count

-----------------------------------------------------------------------------
(* What a plan promises                                                    *)

\* A plan that was created can be used ("sealed deterministic batch execution
\* plan"), whoever competed for its directory and whatever partition was asked
\* for, except in two cases: the shard numbers outgrow the width of their names,
\* or a row of the source does not read back under the id it was planned with.
SealedPlanLoads ==
  folder.stage = "sealed" =>
    (Loads(folder) <=>
       Len(folder.shards) < Power[Width] /\ folder.untidy = {})
=============================================================================
