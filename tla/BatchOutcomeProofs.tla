------------------------ MODULE BatchOutcomeProofs --------------------------
(***************************************************************************)
(* Proofs about a batch from its plan to its collections, for any records, *)
(* shard sizes, planners, profiles, shards, retry plans and collectors:    *)
(*   - BatchPlan: the slices partition what one planner was asked for, and *)
(*     the plan loads as long as its shard numbers fit their names and its *)
(*     shard inputs read back as the records that were planned;            *)
(*   - CollectBatch: what a sealed collection says stays true;             *)
(*   - BatchOutcome implements both, so both hold of it, and together they *)
(*     give coverage of the batch that was planned.                        *)
(***************************************************************************)
EXTENDS BatchOutcome, FiniteSetTheorems, WellFoundedInduction, TLAPS

-----------------------------------------------------------------------------
(* The partition                                                           *)

\* The records up to r are r and those before it.
LEMMA RankBounds ==
  ASSUME NEW ids \in SUBSET Nat, IsFiniteSet(ids), NEW r \in ids
  PROVE  Rank(ids, r) \in 1..Cardinality(ids)
<1> DEFINE upTo == {q \in ids : q <= r}
<1>1. upTo \subseteq ids /\ r \in upTo
  OBVIOUS
<1>2. IsFiniteSet(upTo) /\ Cardinality(upTo) <= Cardinality(ids)
  BY <1>1, FS_Subset
<1>3. Cardinality(upTo) \in Nat /\ Cardinality(ids) \in Nat
  BY <1>2, FS_CardinalityType
<1>4. Cardinality(upTo) # 0
  BY <1>1, <1>2, FS_EmptySet
<1> QED BY <1>2, <1>3, <1>4 DEF Rank

\* Ranks ascend with the records.
LEMMA RankAscends ==
  ASSUME NEW ids \in SUBSET Nat, IsFiniteSet(ids), NEW q \in ids, NEW r \in ids, q < r
  PROVE  Rank(ids, q) < Rank(ids, r)
<1> DEFINE upToQ == {y \in ids : y <= q}
           upToR == {y \in ids : y <= r}
<1>1. upToQ \subseteq upToR /\ r \in upToR /\ r \notin upToQ
  <2>1. q \in Nat /\ r \in Nat /\ ids \subseteq Nat
    OBVIOUS
  <2>2. \A y \in ids : y <= q => y <= r
    BY <2>1
  <2>3. r <= r /\ ~(r <= q)
    BY <2>1
  <2> QED BY <2>2, <2>3
<1>2. IsFiniteSet(upToR) /\ IsFiniteSet(upToQ)
  BY FS_Subset
<1>3. /\ Cardinality(upToQ) <= Cardinality(upToR)
      /\ Cardinality(upToQ) # Cardinality(upToR)
  BY <1>1, <1>2, FS_Subset
<1>4. Cardinality(upToQ) \in Nat /\ Cardinality(upToR) \in Nat
  BY <1>2, FS_CardinalityType
<1> QED BY <1>3, <1>4 DEF Rank

\* Every place in the sorted list is some record's.
LEMMA RankReaches ==
  ASSUME NEW ids \in SUBSET Nat, IsFiniteSet(ids), NEW k \in 1..Cardinality(ids)
  PROVE  \E r \in ids : Rank(ids, r) = k
<1> DEFINE n == Cardinality(ids)
           f == [r \in ids |-> Rank(ids, r)]
<1>1. n \in Nat
  BY FS_CardinalityType
<1>2. IsFiniteSet(1..n) /\ Cardinality(1..n) = n
  BY <1>1, FS_Interval
<1>3. \A r \in ids : f[r] \in 1..n
  BY RankBounds
<1>4. \A q, r \in ids : f[q] = f[r] => q = r
  <2>1. \A q, r \in ids : q < r => f[q] < f[r]
    BY RankAscends
  <2>2. \A q \in ids : q \in Nat /\ f[q] \in Nat
    BY <1>3
  <2> HIDE DEF f
  <2> QED BY <2>1, <2>2
<1>5. f \in Injection(ids, 1..n)
  BY <1>3, <1>4 DEF Injection, IsInjective
<1>6. f \in Surjection(ids, 1..n)
  <2> HIDE DEF f
  <2> QED BY <1>2, <1>5, FS_Injection
<1> QED BY <1>6 DEF Surjection

\* Division with remainder, as plan_batch uses it.
LEMMA Ceiling ==
  ASSUME NEW n \in Nat, NEW s \in Nat \ {0}
  PROVE  /\ ShardCount(n, s) \in Nat
         /\ (ShardCount(n, s) - 1) * s < n
         /\ n <= ShardCount(n, s) * s
<1> DEFINE m == n + s - 1
           c == m \div s
<1>1. m \in Nat /\ s > 0
  OBVIOUS
<1>2. c \in Int /\ m = s * c + (m % s) /\ m % s \in 0..(s - 1)
  BY <1>1
<1> QED BY <1>1, <1>2 DEF ShardCount

\* Every place in the sorted list falls into exactly one slice.
LEMMA OneSlice ==
  ASSUME NEW n \in Nat, NEW s \in Nat \ {0}, NEW k \in 1..n
  PROVE  /\ \E i \in 1..ShardCount(n, s) : (i - 1) * s < k /\ k <= i * s
         /\ \A i, j \in Int :
              (i - 1) * s < k /\ k <= i * s /\ (j - 1) * s < k /\ k <= j * s => i = j
<1> DEFINE c == ShardCount(k, s)
           m == ShardCount(n, s)
<1>1. c \in Nat /\ (c - 1) * s < k /\ k <= c * s
  BY Ceiling
<1>2. m \in Nat /\ n <= m * s
  BY Ceiling
<1> HIDE DEF c, m
<1>3. \A i, j \in Int : (i - 1) * s < j * s => i <= j
  <2> SUFFICES ASSUME NEW i \in Int, NEW j \in Int, i > j PROVE j * s <= (i - 1) * s
    OBVIOUS
  <2>1. j <= i - 1 /\ (i - 1) - j \in Nat
    OBVIOUS
  <2>2. ((i - 1) - j) * s >= 0
    BY <2>1
  <2> QED BY <2>2
<1>4. c <= m
  <2>1. (c - 1) * s < m * s
    BY <1>1, <1>2
  <2> QED BY <1>1, <1>2, <1>3, <2>1
<1>5. c >= 1
  <2>1. c # 0
    BY <1>1
  <2> QED BY <1>1, <2>1
<1>6. c \in 1..m
  BY <1>1, <1>2, <1>4, <1>5
<1>7. \E i \in 1..m : (i - 1) * s < k /\ k <= i * s
  BY <1>1, <1>6
<1>8. ASSUME NEW i \in Int, NEW j \in Int,
             (i - 1) * s < k, k <= i * s, (j - 1) * s < k, k <= j * s
      PROVE  i = j
  <2>1. (i - 1) * s < j * s /\ (j - 1) * s < i * s
    BY <1>8
  <2> QED BY <1>3, <2>1
<1> QED BY <1>7, <1>8 DEF m

\* The shards of a batch are a partition of its records.
PartitionOf(shards, ids, size) ==
  /\ \A r \in ids : \E i \in DOMAIN shards : r \in shards[i]
  /\ \A i, j \in DOMAIN shards : \A r \in shards[i] : r \in shards[j] => i = j
  /\ \A i \in DOMAIN shards :
       shards[i] \subseteq ids /\ shards[i] # {} /\ Cardinality(shards[i]) <= size
  /\ \A i, j \in DOMAIN shards : i < j =>
       \A q \in shards[i], r \in shards[j] : q < r

\* The ceiling and the slices of plan_batch: every record is in exactly one
\* shard, no shard is empty or exceeds the shard size, and the records ascend
\* from shard to shard, for every batch and every shard size.
THEOREM SlicesPartition ==
  ASSUME NEW ids \in SUBSET Nat, IsFiniteSet(ids), NEW size \in Nat \ {0}
  PROVE  PartitionOf([i \in 1..ShardCount(Cardinality(ids), size) |->
                        Slice(ids, size, i)], ids, size)
<1> DEFINE n == Cardinality(ids)
           m == ShardCount(n, size)
           shards == [i \in 1..m |-> Slice(ids, size, i)]
<1>1. n \in Nat /\ m \in Nat
  BY FS_CardinalityType, Ceiling
<1>2. \A r \in ids : Rank(ids, r) \in 1..n
  BY RankBounds
<1>3. \A r \in ids : \E i \in 1..m : r \in Slice(ids, size, i)
  BY <1>1, <1>2, OneSlice DEF Slice
<1>4. \A i, j \in 1..m : \A r \in Slice(ids, size, i) :
        r \in Slice(ids, size, j) => i = j
  BY <1>1, <1>2, OneSlice DEF Slice
<1>5. ASSUME NEW i \in 1..m
      PROVE  Slice(ids, size, i) \subseteq ids /\ Cardinality(Slice(ids, size, i)) <= size
  <2> DEFINE S == Slice(ids, size, i)
             lo == (i - 1) * size + 1
             hi == i * size
             f == [r \in S |-> Rank(ids, r)]
  <2>1. S \subseteq ids
    BY DEF Slice
  <2>2. lo \in Int /\ hi \in Int /\ hi - lo + 1 = size
    BY <1>1
  <2>3. IsFiniteSet(lo..hi) /\ Cardinality(lo..hi) = size
    BY <2>2, FS_Interval
  <2>4. \A r \in S : f[r] \in lo..hi
    BY <1>2, <2>1, <2>2 DEF Slice
  <2>5. \A q, r \in S : q < r => f[q] < f[r]
    BY <2>1, RankAscends
  <2>6. \A q, r \in S : f[q] = f[r] => q = r
    <3>0. S \subseteq Nat
      BY <2>1
    <3>1. \A q \in S : q \in Nat /\ f[q] \in Int
      <4> HIDE DEF f, S, lo, hi
      <4> QED BY <2>2, <2>4, <3>0
    <3>2. \A q, r \in S : q # r => q < r \/ r < q
      BY <3>1
    <3>3. \A q, r \in S : f[q] < f[r] => f[q] # f[r]
      BY <3>1
    <3> HIDE DEF f
    <3> QED BY <2>5, <3>2, <3>3
  <2>7. f \in Injection(S, lo..hi)
    BY <2>4, <2>6 DEF Injection, IsInjective
  <2>8. Cardinality(S) <= Cardinality(lo..hi)
    BY <2>3, <2>7, FS_Injection
  <2> QED BY <2>1, <2>3, <2>8
<1>6. ASSUME NEW i \in 1..m, NEW j \in 1..m, i < j,
             NEW q \in Slice(ids, size, i), NEW r \in Slice(ids, size, j)
      PROVE  q < r
  <2>1. i * size <= (j - 1) * size
    <3>1. (j - 1) - i \in Nat
      BY <1>1, <1>6
    <3>2. ((j - 1) - i) * size >= 0
      BY <3>1
    <3> QED BY <1>1, <3>2
  <2>2. q \in ids /\ r \in ids /\ Rank(ids, q) < Rank(ids, r)
    BY <1>1, <1>2, <2>1 DEF Slice
  <2>3. q \in Nat /\ r \in Nat
    BY <2>2
  <2>4. ~(r < q) /\ q # r
    BY <1>2, <2>2, RankAscends
  <2> QED BY <2>3, <2>4
<1>7. ASSUME NEW i \in 1..m
      PROVE  Slice(ids, size, i) # {}
  <2> DEFINE k == (i - 1) * size + 1
  <2>1. k \in 1..n
    <3>0. (m - 1) * size < n
      BY <1>1, Ceiling
    <3> HIDE DEF m, n
    <3>1. (i - 1) \in Nat /\ (m - i) \in Nat /\ (m - 1) * size < n
      BY <1>1, <3>0
    <3>2. (i - 1) * size >= 0 /\ (m - i) * size >= 0
      BY <3>1
    <3>3. (i - 1) * size + (m - i) * size = (m - 1) * size
      BY <1>1
    <3>4. (i - 1) * size \in Int /\ (m - i) * size \in Int /\ (m - 1) * size \in Int
      BY <1>1
    <3> QED BY <1>1, <3>1, <3>2, <3>3, <3>4
  <2>2. PICK r \in ids : Rank(ids, r) = k
    BY <2>1, RankReaches
  <2>3. (i - 1) * size < k /\ k <= i * size
    BY <1>1
  <2> QED BY <2>2, <2>3 DEF Slice
<1> QED BY <1>3, <1>4, <1>5, <1>6, <1>7 DEF PartitionOf

-----------------------------------------------------------------------------
(* The planners                                                            *)

\* What a planner has accepted is a set of records and its number; at most one
\* planner has the folder, and what is written in it is a partition of what
\* that planner was asked for.
PlanInv ==
  /\ PlanTypeOK
  /\ \A p \in Planners : phase[p] # "idle" =>
       /\ IsFiniteSet(request[p].ids)
       /\ request[p].rows = Cardinality(request[p].ids)
       /\ request[p].untidy \subseteq request[p].ids
  /\ \A p \in Planners :
       /\ phase[p] = "write" => folder.stage = "made"
       /\ phase[p] = "manifest" => folder.stage = "written"
  /\ \A p, q \in Planners :
       phase[p] \in {"write", "manifest"} /\ phase[q] \in {"write", "manifest"} => p = q
  /\ folder.stage \in {"written", "sealed"} =>
       /\ PartitionOf(folder.shards, folder.asked, folder.size)
       /\ folder.count = Cardinality(folder.asked)
       /\ folder.untidy \subseteq folder.asked
       /\ DOMAIN folder.inputs = DOMAIN folder.shards
       /\ \A i \in DOMAIN folder.shards :
            folder.inputs[i] = ReadBack(folder.shards[i], folder.untidy)

\* Nothing is planned and no planner has started.
LEMMA PlanInitInv == PlanInit => PlanInv
BY PlanAssumption
DEF PlanInit, PlanInv, PlanTypeOK, Requests, Folders, NoRequest, NoFolder

\* The rows plan_batch accepts are as many as their records.
LEMMA AcceptedRows ==
  ASSUME NEW n \in Nat, NEW rows \in [1..n -> Records \cup {Stray}], Acceptable(rows)
  PROVE  /\ IsFiniteSet({rows[i] : i \in 1..n})
         /\ {rows[i] : i \in 1..n} \subseteq Records
         /\ Cardinality({rows[i] : i \in 1..n}) = n
<1> DEFINE ids == {rows[i] : i \in 1..n}
<1>1. Len(rows) = n
  OBVIOUS
<1>2. rows \in Surjection(1..n, ids)
  BY DEF Surjection
<1>3. IsFiniteSet(1..n)
  BY FS_Interval
<1>4. IsFiniteSet(ids)
  BY <1>2, <1>3, FS_Surjection
<1> QED BY <1>1, <1>4 DEF Acceptable

\* Every step of a planner keeps PlanInv: mkdir chooses one writer, and what it
\* writes is the partition of what it accepted.
LEMMA PlanStep == PlanInv /\ [PlanNext]_planVars => PlanInv'
<1> SUFFICES ASSUME PlanInv, [PlanNext]_planVars PROVE PlanInv'
  OBVIOUS
<1> USE DEF PlanInv, PlanTypeOK
<1>1. ASSUME NEW p \in Planners, Accept(p) PROVE PlanInv'
  <2>1. PICK n \in 1..MaxRows, size \in 1..MaxSize :
          \E rows \in [1..n -> Records \cup {Stray}] :
            /\ Acceptable(rows)
            /\ \E untidy \in SUBSET (Untidy \cap {rows[i] : i \in 1..n}) :
                 request' = [request EXCEPT ![p] =
                   [ids |-> {rows[i] : i \in 1..n}, untidy |-> untidy,
                    rows |-> n, size |-> size]]
    BY <1>1 DEF Accept
  <2>2. n \in Nat /\ size \in Nat \ {0}
    BY PlanAssumption
  <2>3. PICK rows \in [1..n -> Records \cup {Stray}] :
          /\ Acceptable(rows)
          /\ \E untidy \in SUBSET (Untidy \cap {rows[i] : i \in 1..n}) :
               request' = [request EXCEPT ![p] =
                 [ids |-> {rows[i] : i \in 1..n}, untidy |-> untidy,
                  rows |-> n, size |-> size]]
    BY <2>1
  <2> DEFINE ids == {rows[i] : i \in 1..n}
  <2>7. PICK untidy \in SUBSET (Untidy \cap ids) :
          request' = [request EXCEPT ![p] =
            [ids |-> ids, untidy |-> untidy, rows |-> n, size |-> size]]
    BY <2>3
  <2>4. IsFiniteSet(ids) /\ ids \subseteq Records /\ Cardinality(ids) = n
    BY <2>2, <2>3, AcceptedRows
  <2> HIDE DEF ids
  <2> DEFINE q == [ids |-> ids, untidy |-> untidy, rows |-> n, size |-> size]
  <2>5. request' = [request EXCEPT ![p] = q]
    BY <2>7
  <2>6. q \in Requests /\ q.ids = ids /\ q.rows = n /\ q.untidy \subseteq q.ids
    BY <2>2, <2>4, PlanAssumption DEF Requests
  <2> HIDE DEF q
  <2> QED BY <1>1, <2>4, <2>5, <2>6 DEF Accept
<1>2. ASSUME NEW p \in Planners, MakeFolder(p) PROVE PlanInv'
  <2>1. [folder EXCEPT !.stage = "made"] \in Folders
    BY DEF Folders
  <2> QED BY <1>2, <2>1 DEF MakeFolder
<1>3. ASSUME NEW p \in Planners, WritePlan(p) PROVE PlanInv'
  <2> DEFINE q == request[p]
             shards == [i \in 1..ShardCount(q.rows, q.size) |->
                          Slice(q.ids, q.size, i)]
             inputs == [i \in DOMAIN shards |-> ReadBack(shards[i], q.untidy)]
  <2>1. /\ q.ids \in SUBSET Nat /\ IsFiniteSet(q.ids)
        /\ q.rows = Cardinality(q.ids) /\ q.rows \in Nat /\ q.size \in Nat \ {0}
        /\ q.ids \subseteq Records /\ q.untidy \subseteq q.ids
        /\ q.untidy \in SUBSET Untidy
    BY <1>3, PlanAssumption DEF WritePlan, Requests
  <2>2. PartitionOf(shards, q.ids, q.size)
    BY <2>1, SlicesPartition
  <2>3. folder' = [stage |-> "written", asked |-> q.ids, untidy |-> q.untidy,
                   count |-> q.rows, size |-> q.size, shards |-> shards,
                   inputs |-> inputs]
    BY <1>3 DEF WritePlan
  <2> HIDE DEF q, shards, inputs
  <2>4. shards \in Seq(SUBSET Records)
    <3> DEFINE m == ShardCount(q.rows, q.size)
    <3>1. m \in Nat
      BY <2>1, Ceiling
    <3>2. \A i \in 1..m : Slice(q.ids, q.size, i) \in SUBSET Records
      BY <2>1 DEF Slice
    <3>3. shards \in [1..m -> SUBSET Records]
      BY <3>2 DEF shards
    <3> HIDE DEF m
    <3> QED BY <3>1, <3>3
  <2>9. inputs \in Seq(SUBSET (Records \cup {Stray}))
    <3> DEFINE m == Len(shards)
    <3>1. m \in Nat /\ DOMAIN shards = 1..m /\ \A i \in 1..m : shards[i] \subseteq Records
      BY <2>4
    <3>2. \A i \in 1..m : ReadBack(shards[i], q.untidy) \in SUBSET (Records \cup {Stray})
      BY <3>1 DEF ReadBack
    <3>3. inputs \in [1..m -> SUBSET (Records \cup {Stray})]
      BY <3>1, <3>2 DEF inputs
    <3> HIDE DEF m
    <3> QED BY <3>1, <3>3
  <2>5. folder' \in Folders
    BY <2>1, <2>3, <2>4, <2>9 DEF Folders
  <2>6. /\ folder'.stage = "written"
        /\ PartitionOf(folder'.shards, folder'.asked, folder'.size)
        /\ folder'.count = Cardinality(folder'.asked)
        /\ folder'.untidy \subseteq folder'.asked
        /\ DOMAIN folder'.inputs = DOMAIN folder'.shards
        /\ \A i \in DOMAIN folder'.shards :
             folder'.inputs[i] = ReadBack(folder'.shards[i], folder'.untidy)
    BY <2>1, <2>2, <2>3 DEF inputs
  <2>7. /\ phase[p] = "write" /\ folder.stage = "made" /\ request' = request
        /\ phase' = [phase EXCEPT ![p] = "manifest"]
    BY <1>3 DEF WritePlan
  <2>8. \A r \in Planners \ {p} : phase'[r] \notin {"write", "manifest"}
    BY <2>7
  <2> QED BY <2>5, <2>6, <2>7, <2>8
<1>4. ASSUME NEW p \in Planners, SealPlan(p) PROVE PlanInv'
  <2>1. /\ folder' = [folder EXCEPT !.stage = "sealed"]
        /\ phase' = [phase EXCEPT ![p] = "idle"]
        /\ request' = [request EXCEPT ![p] = NoRequest]
        /\ phase[p] = "manifest" /\ folder.stage = "written"
    BY <1>4 DEF SealPlan
  <2>2. [folder EXCEPT !.stage = "sealed"] \in Folders
    BY DEF Folders
  <2>3. NoRequest \in Requests
    BY DEF NoRequest, Requests
  <2>4. /\ folder'.stage = "sealed" /\ folder'.shards = folder.shards
        /\ folder'.asked = folder.asked /\ folder'.size = folder.size
        /\ folder'.count = folder.count /\ folder'.untidy = folder.untidy
        /\ folder'.inputs = folder.inputs
    BY <2>1 DEF Folders
  <2>5. \A r \in Planners : phase'[r] \notin {"write", "manifest"}
    BY <2>1
  <2> QED BY <2>1, <2>2, <2>3, <2>4, <2>5
<1>5. ASSUME NEW p \in Planners, Abandon(p) PROVE PlanInv'
  <2>1. NoRequest \in Requests
    BY DEF NoRequest, Requests
  <2> QED BY <1>5, <2>1 DEF Abandon
<1>6. CASE UNCHANGED planVars
  BY <1>6 DEF planVars, PartitionOf
<1> QED BY <1>1, <1>2, <1>3, <1>4, <1>5, <1>6 DEF PlanNext

\* PlanInv holds whatever planners race and die.
THEOREM PlanInvariance == PlanSpec => []PlanInv
BY PlanInitInv, PlanStep, PTL DEF PlanSpec

\* plan_batch and the manifest: a sealed plan partitions exactly the records
\* one planner was asked for, and counts them right.
THEOREM SealedIsPartition ==
  PlanSpec => [](folder.stage = "sealed" =>
                   /\ PartitionOf(folder.shards, folder.asked, folder.size)
                   /\ folder.count = Cardinality(folder.asked))
<1>1. PlanInv => (folder.stage = "sealed" =>
                   /\ PartitionOf(folder.shards, folder.asked, folder.size)
                   /\ folder.count = Cardinality(folder.asked))
  BY DEF PlanInv
<1> QED BY PlanInvariance, <1>1, PTL

\* output.mkdir: once a plan is sealed no planner, late or retried, touches it.
THEOREM SealedIsFinal ==
  PlanSpec => [][folder.stage = "sealed" => folder' = folder]_planVars
<1>1. PlanInv /\ [PlanNext]_planVars =>
        [folder.stage = "sealed" => folder' = folder]_planVars
  BY DEF PlanInv, PlanNext, Accept, MakeFolder, WritePlan, SealPlan, Abandon, planVars
<1> QED BY PlanInvariance, <1>1, PTL DEF PlanSpec

-----------------------------------------------------------------------------
(* The names of the shards                                                 *)

\* Induction by the smallest counterexample.
LEMMA Least ==
  ASSUME NEW T, T \subseteq Nat, T # {}
  PROVE  \E x \in T : \A y \in T : x <= y
<1>1. \E x \in T : \A y \in T : ~(<<y, x>> \in OpToRel(<, Nat))
  BY NatLessThanWellFounded, WFMin
<1>2. PICK x \in T : \A y \in T : ~(<<y, x>> \in OpToRel(<, Nat))
  BY <1>1
<1>3. ASSUME NEW y \in T
      PROVE  x <= y
  <2>1. x \in Nat /\ y \in Nat
    OBVIOUS
  <2>2. ~(y < x)
    BY <1>2, <2>1 DEF OpToRel
  <2> QED BY <2>1, <2>2
<1> QED BY <1>3

\* f is Power up to n.
PowerUpTo(f, n) ==
  \A k \in 0..n : f[k] = IF k = 0 THEN 1 ELSE Radix * f[k - 1]

\* The defining equation of Power has a solution up to every n ...
LEMMA PowersUpTo ==
  ASSUME NEW n \in Nat
  PROVE  \E f \in [0..n -> Nat] : PowerUpTo(f, n)
<1> DEFINE T == {i \in Nat : ~\E f \in [0..i -> Nat] : PowerUpTo(f, i)}
<1> SUFFICES ASSUME T # {} PROVE FALSE
  OBVIOUS
<1>1. PICK x \in T : \A y \in T : x <= y
  <2> HIDE DEF T
  <2>1. T \subseteq Nat
    BY DEF T
  <2> QED BY <2>1, Least
<1>2. x \in Nat /\ ~\E f \in [0..x -> Nat] : PowerUpTo(f, x)
  OBVIOUS
<1>3. CASE x = 0
  <2> DEFINE g == [k \in 0..0 |-> 1]
  <2>1. g \in [0..0 -> Nat] /\ PowerUpTo(g, 0)
    BY DEF PowerUpTo
  <2> QED BY <1>2, <1>3, <2>1
<1>4. CASE x # 0
  <2>1. x - 1 \in Nat /\ x - 1 \notin T
    BY <1>1, <1>2, <1>4
  <2>2. PICK f \in [0..(x - 1) -> Nat] : PowerUpTo(f, x - 1)
    BY <2>1
  <2> DEFINE g == [k \in 0..x |-> IF k = x THEN Radix * f[x - 1] ELSE f[k]]
  <2>3. f[x - 1] \in Nat /\ Radix * f[x - 1] \in Nat
    BY <2>1, PlanAssumption
  <2>4. g \in [0..x -> Nat]
    BY <1>2, <2>3
  <2>5. PowerUpTo(g, x)
    BY <1>2, <1>4, <2>2 DEF PowerUpTo
  <2> QED BY <1>2, <2>4, <2>5
<1> QED BY <1>3, <1>4

\* ... and one only.
LEMMA PowersAgree ==
  ASSUME NEW n \in Nat, NEW m \in Nat, n <= m, NEW f, NEW g,
         PowerUpTo(f, n), PowerUpTo(g, m)
  PROVE  f[n] = g[n]
<1> DEFINE T == {i \in Nat : i <= n /\ f[i] # g[i]}
<1> SUFFICES ASSUME T # {} PROVE FALSE
  OBVIOUS
<1>1. PICK x \in T : \A y \in T : x <= y
  <2> HIDE DEF T
  <2>1. T \subseteq Nat
    BY DEF T
  <2> QED BY <2>1, Least
<1>2. x \in 0..n /\ x \in 0..m /\ f[x] # g[x]
  OBVIOUS
<1>3. x # 0
  BY <1>2 DEF PowerUpTo
<1>4. x - 1 \in 0..n /\ x - 1 \notin T
  BY <1>1, <1>2, <1>3
<1> QED BY <1>2, <1>3, <1>4 DEF PowerUpTo

\* Power is what its definition says.
LEMMA PowerIs ==
  /\ Power \in [Nat -> Nat]
  /\ Power[0] = 1
  /\ \A n \in Nat : Power[n + 1] = Radix * Power[n]
<1> DEFINE F == [n \in Nat |-> (CHOOSE f \in [0..n -> Nat] : PowerUpTo(f, n))[n]]
           G == [n \in Nat |-> IF n = 0 THEN 1 ELSE Radix * F[n - 1]]
<1>1. ASSUME NEW n \in Nat
      PROVE  /\ F[n] \in Nat
             /\ F[n] = IF n = 0 THEN 1 ELSE Radix * F[n - 1]
  <2> DEFINE f == CHOOSE g \in [0..n -> Nat] : PowerUpTo(g, n)
             e == CHOOSE g \in [0..(n - 1) -> Nat] : PowerUpTo(g, n - 1)
  <2>1. f \in [0..n -> Nat] /\ PowerUpTo(f, n)
    BY PowersUpTo
  <2>2. n \in 0..n
    OBVIOUS
  <2>0. F[n] = f[n]
    OBVIOUS
  <2>3. CASE n = 0
    BY <2>0, <2>1, <2>2, <2>3 DEF PowerUpTo
  <2>4. CASE n # 0
    <3>1. n - 1 \in Nat
      BY <2>4
    <3>2. e \in [0..(n - 1) -> Nat] /\ PowerUpTo(e, n - 1)
      BY <3>1, PowersUpTo
    <3>3. F[n - 1] = e[n - 1]
      BY <3>1
    <3> HIDE DEF f, e, F
    <3>4. e[n - 1] = f[n - 1]
      BY <2>1, <3>1, <3>2, PowersAgree
    <3>5. f[n] = Radix * f[n - 1]
      BY <2>1, <2>2, <2>4 DEF PowerUpTo
    <3> QED BY <2>0, <2>1, <2>2, <2>4, <3>3, <3>4, <3>5
  <2> QED BY <2>3, <2>4
<1>2. F = G
  <2> HIDE DEF F
  <2>1. \A n \in Nat : F[n] = G[n]
    BY <1>1
  <2>2. F \in [Nat -> Nat] /\ DOMAIN F = Nat
    BY <1>1 DEF F
  <2> QED BY <2>1, <2>2
<1> HIDE DEF F
<1>3. \E f : f = [n \in Nat |-> IF n = 0 THEN 1 ELSE Radix * f[n - 1]]
  BY <1>2
<1>4. Power = [n \in Nat |-> IF n = 0 THEN 1 ELSE Radix * Power[n - 1]]
  BY <1>3 DEF Power
<1> HIDE DEF G
<1>5. ASSUME NEW n \in Nat
      PROVE  Power[n] \in Nat
  <2>1. PowerUpTo(Power, n) /\ PowerUpTo(F, n)
    BY <1>1, <1>4 DEF PowerUpTo
  <2>2. Power[n] = F[n]
    BY <2>1, PowersAgree
  <2> QED BY <1>1, <2>2
<1>6. Power[0] = 1
  BY <1>4
<1>7. ASSUME NEW n \in Nat
      PROVE  Power[n + 1] = Radix * Power[n]
  <2>1. n + 1 \in Nat /\ n + 1 # 0 /\ (n + 1) - 1 = n
    OBVIOUS
  <2> QED BY <1>4, <2>1
<1>8. Power \in [Nat -> Nat]
  BY <1>4, <1>5
<1> QED BY <1>6, <1>7, <1>8

\* Powers ascend, faster than their exponents.
LEMMA PowersAscend ==
  /\ \A n \in Nat : Power[n] > n
  /\ \A n, m \in Nat : n <= m => Power[n] <= Power[m]
<1>1. \A n \in Nat : Power[n] \in Nat /\ Power[n + 1] = Radix * Power[n]
  BY PowerIs
<1>2. \A n \in Nat : Power[n + 1] >= 3 * Power[n]
  <2>1. \A r, p \in Nat : r >= 3 => r * p >= 3 * p
    OBVIOUS
  <2>2. Radix \in Nat /\ Radix >= 3
    BY PlanAssumption
  <2> QED BY <1>1, <2>1, <2>2
<1>3. ASSUME NEW n \in Nat
      PROVE  Power[n] > n
  <2> DEFINE T == {i \in Nat : ~(Power[i] > i)}
  <2> SUFFICES ASSUME T # {} PROVE FALSE
    OBVIOUS
  <2>1. PICK x \in T : \A y \in T : x <= y
    <3> HIDE DEF T
    <3>1. T \subseteq Nat
      BY DEF T
    <3> QED BY <3>1, Least
  <2>2. x \in Nat /\ ~(Power[x] > x)
    OBVIOUS
  <2>3. x # 0
    BY <2>2, PowerIs
  <2>4. x - 1 \in Nat /\ x - 1 \notin T
    BY <2>1, <2>2, <2>3
  <2>5. Power[x - 1] > x - 1
    BY <2>4
  <2>6. Power[(x - 1) + 1] >= 3 * Power[x - 1]
    BY <1>2, <2>4
  <2>7. (x - 1) + 1 = x
    BY <2>2
  <2> QED BY <1>1, <2>2, <2>4, <2>5, <2>6, <2>7
<1>4. ASSUME NEW n \in Nat, NEW m \in Nat, n <= m
      PROVE  Power[n] <= Power[m]
  <2> DEFINE T == {i \in Nat : n <= i /\ ~(Power[n] <= Power[i])}
  <2> SUFFICES ASSUME T # {} PROVE FALSE
    BY <1>4
  <2>1. PICK x \in T : \A y \in T : x <= y
    <3> HIDE DEF T
    <3>1. T \subseteq Nat
      BY DEF T
    <3> QED BY <3>1, Least
  <2>2. x \in Nat /\ n <= x /\ ~(Power[n] <= Power[x])
    OBVIOUS
  <2>3. x # n
    BY <1>1, <2>2
  <2>4. x - 1 \in Nat /\ n <= x - 1 /\ x - 1 \notin T
    BY <2>1, <2>2, <2>3
  <2>5. Power[n] <= Power[x - 1]
    BY <2>4
  <2>6. Power[(x - 1) + 1] >= 3 * Power[x - 1]
    BY <1>2, <2>4
  <2>7. (x - 1) + 1 = x
    BY <2>2
  <2> QED BY <1>1, <2>2, <2>4, <2>5, <2>6, <2>7
<1> QED BY <1>3, <1>4

\* Division with remainder is determined by the remainder's range.
LEMMA Division ==
  ASSUME NEW a \in Nat, NEW b \in Nat \ {0}
  PROVE  /\ a \div b \in Nat
         /\ a % b \in 0..(b - 1)
         /\ a = b * (a \div b) + (a % b)
<1>1. a \in Int /\ b > 0
  OBVIOUS
<1>2. a \div b \in Int /\ a = b * (a \div b) + (a % b) /\ a % b \in 0..(b - 1)
  BY <1>1
<1>3. a \div b >= 0
  <2> DEFINE q == a \div b
             r == a % b
  <2>1. q \in Int /\ r \in Int /\ a = b * q + r /\ r < b
    BY <1>2
  <2> HIDE DEF q, r
  <2>2. \A c \in Int : c <= -1 => b * c <= -b
    OBVIOUS
  <2>3. q <= -1 => b * q <= -b
    BY <2>1, <2>2
  <2>4. b * q \in Int
    BY <2>1
  <2>5. q >= 0
    BY <2>1, <2>3, <2>4
  <2> QED BY <2>5 DEF q
<1> QED BY <1>2, <1>3

\* A quotient and a remainder in range are the quotient and the remainder.
LEMMA Quotient ==
  ASSUME NEW a \in Nat, NEW b \in Nat \ {0}, NEW q \in Nat, NEW r \in 0..(b - 1),
         a = b * q + r
  PROVE  a \div b = q
<1> DEFINE p == a \div b
           s == a % b
<1>1. p \in Nat /\ s \in 0..(b - 1) /\ a = b * p + s
  BY Division
<1> HIDE DEF p, s
<1>2. \A c, d \in Nat : c < d => b * c + b <= b * d
  <2> SUFFICES ASSUME NEW c \in Nat, NEW d \in Nat, c < d
               PROVE  b * c + b <= b * d
    OBVIOUS
  <2>1. d - (c + 1) \in Nat
    OBVIOUS
  <2>2. b * (d - (c + 1)) >= 0
    BY <2>1
  <2> QED BY <2>2
<1>3. b * p \in Nat /\ b * q \in Nat
  BY <1>1
<1>4. ~(p < q) /\ ~(q < p)
  BY <1>1, <1>2, <1>3
<1>5. p = q
  BY <1>1, <1>4
<1> QED BY <1>5 DEF p

\* n digits are what the format spends on shard i.
Fits(i, n) ==
  /\ n \in Nat /\ n >= Width
  /\ i < Power[n]
  /\ n > Width => i >= Power[n - 1]

\* f"{i:04d}" has one length, and these digits.
LEMMA DigitsOf ==
  ASSUME NEW i \in Nat
  PROVE  /\ \E n \in Nat : Fits(i, n)
         /\ \A n \in Nat : Fits(i, n) =>
              Digits(i) = [k \in 1..n |-> (i \div Power[n - k]) % Radix]
<1> DEFINE Length == CHOOSE n \in Width..(Width + i) :
                       /\ i < Power[n]
                       /\ n > Width => i >= Power[n - 1]
<1>1. Width \in Nat /\ \A n \in Nat : Power[n] \in Nat
  BY PowerIs, PlanAssumption
<1>2. \E n \in Width..(Width + i) : Fits(i, n)
  <2> DEFINE T == {n \in Nat : n >= Width /\ i < Power[n]}
  <2>1. Width + i \in T
    <3>1. Width + i \in Nat /\ Width + i >= i /\ Width + i >= Width
      BY <1>1
    <3>2. Power[Width + i] > Width + i
      BY <3>1, PowersAscend
    <3> QED BY <1>1, <3>1, <3>2
  <2>2. PICK n \in T : \A y \in T : n <= y
    <3> HIDE DEF T
    <3>1. T \subseteq Nat
      BY DEF T
    <3> QED BY <2>1, <3>1, Least
  <2>3. n \in Nat /\ n >= Width /\ i < Power[n] /\ n <= Width + i
    BY <2>1, <2>2
  <2>4. n > Width => i >= Power[n - 1]
    <3>1. SUFFICES ASSUME n > Width PROVE i >= Power[n - 1]
      OBVIOUS
    <3>2. n - 1 \in Nat /\ n - 1 >= Width /\ n - 1 \notin T
      BY <1>1, <2>2, <2>3, <3>1
    <3> QED BY <1>1, <3>2
  <2> QED BY <1>1, <2>3, <2>4 DEF Fits
<1>3. ASSUME NEW n \in Nat, NEW m \in Nat, Fits(i, n), Fits(i, m), n < m
      PROVE  FALSE
  <2>1. m > Width /\ n <= m - 1 /\ m - 1 \in Nat
    BY <1>1, <1>3 DEF Fits
  <2>2. Power[n] <= Power[m - 1] /\ i >= Power[m - 1] /\ i < Power[n]
    BY <1>3, <2>1, PowersAscend DEF Fits
  <2> QED BY <1>1, <2>1, <2>2
<1>4. Fits(i, Length)
  <2>1. \A n \in Width..(Width + i) :
          Fits(i, n) <=> i < Power[n] /\ (n > Width => i >= Power[n - 1])
    BY <1>1 DEF Fits
  <2> QED BY <1>2, <2>1
<1> HIDE DEF Length
<1>5. ASSUME NEW n \in Nat, Fits(i, n)
      PROVE  n = Length
  BY <1>3, <1>4, <1>5 DEF Fits
<1>6. Digits(i) = [k \in 1..Length |-> (i \div Power[Length - k]) % Radix]
  BY DEF Digits, Length
<1>7. \E n \in Nat : Fits(i, n)
  BY <1>4 DEF Fits
<1>8. ASSUME NEW n \in Nat, Fits(i, n)
      PROVE  Digits(i) = [k \in 1..n |-> (i \div Power[n - k]) % Radix]
  <2>1. n = Length
    BY <1>5, <1>8
  <2> QED BY <1>6, <2>1
<1> QED BY <1>7, <1>8

\* A name is a sequence of digits.
LEMMA DigitsType ==
  ASSUME NEW i \in Nat
  PROVE  /\ Len(Digits(i)) \in Nat
         /\ Len(Digits(i)) >= Width
         /\ \A k \in 1..Len(Digits(i)) : Digits(i)[k] \in Nat
<1>1. PICK n \in Nat : Fits(i, n)
  BY DigitsOf
<1>2. Digits(i) = [k \in 1..n |-> (i \div Power[n - k]) % Radix]
  BY <1>1, DigitsOf
<1>3. ASSUME NEW k \in 1..n
      PROVE  (i \div Power[n - k]) % Radix \in Nat
  <2>1. n - k \in Nat
    OBVIOUS
  <2>2. Power[n - k] \in Nat \ {0}
    BY <2>1, PowerIs, PowersAscend
  <2>3. i \div Power[n - k] \in Nat
    BY <2>2, Division
  <2> QED BY <2>3, Division, PlanAssumption
<1>4. Len(Digits(i)) = n
  BY <1>2
<1> QED BY <1>1, <1>2, <1>3, <1>4 DEF Fits

\* The order of names as texts is irreflexive ...
LEMMA NameNotBeforeItself ==
  ASSUME NEW i \in Nat
  PROVE  ~TextBefore(i, i)
<1> DEFINE s == Digits(i)
<1>1. /\ Len(s) \in Nat
      /\ \A k \in 1..Len(s) : s[k] \in Nat
  BY DigitsType
<1>2. TextBefore(i, i) <=> \E k \in 1..Len(s) :
                             /\ \A m \in 1..(k - 1) : m <= Len(s) /\ s[m] = s[m]
                             /\ k > Len(s) \/ s[k] < s[k]
  BY DEF TextBefore
<1> HIDE DEF s
<1>3. \A k \in 1..Len(s) : ~(k > Len(s)) /\ ~(s[k] < s[k])
  BY <1>1
<1> QED BY <1>2, <1>3

\* ... and transitive.
LEMMA NamesTransitive ==
  ASSUME NEW h \in Nat, NEW i \in Nat, NEW j \in Nat, TextBefore(h, i), TextBefore(i, j)
  PROVE  TextBefore(h, j)
<1> DEFINE s == Digits(h)
           t == Digits(i)
           u == Digits(j)
<1>1. /\ Len(s) \in Nat /\ Len(t) \in Nat /\ Len(u) \in Nat
      /\ \A k \in 1..Len(s) : s[k] \in Nat
      /\ \A k \in 1..Len(t) : t[k] \in Nat
      /\ \A k \in 1..Len(u) : u[k] \in Nat
  BY DigitsType
<1>2. PICK k \in 1..Len(t) :
        /\ \A m \in 1..(k - 1) : m <= Len(s) /\ s[m] = t[m]
        /\ k > Len(s) \/ s[k] < t[k]
  BY DEF TextBefore
<1>3. PICK l \in 1..Len(u) :
        /\ \A m \in 1..(l - 1) : m <= Len(t) /\ t[m] = u[m]
        /\ l > Len(t) \/ t[l] < u[l]
  BY DEF TextBefore
<1> SUFFICES \E n \in 1..Len(u) :
               /\ \A m \in 1..(n - 1) : m <= Len(s) /\ s[m] = u[m]
               /\ n > Len(s) \/ s[n] < u[n]
  BY DEF TextBefore
<1> HIDE DEF s, t, u
<1>4. CASE k < l
  <2>1. k \in 1..Len(u) /\ t[k] = u[k]
    BY <1>1, <1>2, <1>3, <1>4
  <2>2. \A m \in 1..(k - 1) : m <= Len(s) /\ s[m] = u[m]
    BY <1>1, <1>2, <1>3, <1>4
  <2> QED BY <1>2, <2>1, <2>2
<1>5. CASE k = l
  <2>1. t[k] < u[k]
    BY <1>1, <1>2, <1>3, <1>5
  <2>2. \A m \in 1..(k - 1) : m <= Len(s) /\ s[m] = u[m]
    BY <1>1, <1>2, <1>3, <1>5
  <2>3. k > Len(s) \/ s[k] < u[k]
    BY <1>1, <1>2, <1>3, <1>5, <2>1
  <2> QED BY <1>3, <1>5, <2>2, <2>3
<1>6. CASE k > l
  <2>1. l <= Len(s) /\ s[l] = t[l] /\ t[l] < u[l]
    BY <1>1, <1>2, <1>3, <1>6
  <2>2. \A m \in 1..(l - 1) : m <= Len(s) /\ s[m] = u[m]
    BY <1>1, <1>2, <1>3, <1>6
  <2> QED BY <1>3, <2>1, <2>2
<1>7. k \in Int /\ l \in Int
  BY <1>1
<1> QED BY <1>4, <1>5, <1>6, <1>7

\* Names of one length are in the order of their numbers: the first quotient
\* that differs decides both.
LEMMA NamesAscend ==
  ASSUME NEW i \in Nat, NEW j \in Nat, i < j, j < Power[Width]
  PROVE  TextBefore(i, j)
<1> DEFINE Q(n, k) == n \div Power[Width - k]
           T == {k \in Nat : k <= Width /\ Q(i, k) # Q(j, k)}
<1>1. Width \in Nat \ {0} /\ Radix \in Nat /\ Radix >= 3
  BY PlanAssumption
<1>2. \A k \in 0..Width : Width - k \in Nat /\ Power[Width - k] \in Nat \ {0}
  <2> TAKE k \in 0..Width
  <2>1. Width - k \in Nat
    BY <1>1
  <2>2. Power[Width - k] \in Nat /\ Power[Width - k] > Width - k
    BY <2>1, PowerIs, PowersAscend
  <2> QED BY <2>1, <2>2
<1>3. \A k \in 0..Width : \A n \in Nat : Q(n, k) \in Nat
  <2> TAKE k \in 0..Width
  <2> TAKE n \in Nat
  <2>1. Power[Width - k] \in Nat \ {0}
    BY <1>2
  <2>2. n \div Power[Width - k] \in Nat
    BY <2>1, Division
  <2> QED BY <2>2
<1>4. Q(i, 0) = 0 /\ Q(j, 0) = 0 /\ Q(i, Width) = i /\ Q(j, Width) = j
  <2>1. \A n \in Nat : n < Power[Width] => n \div Power[Width] = 0
    <3> SUFFICES ASSUME NEW n \in Nat, n < Power[Width] PROVE n \div Power[Width] = 0
      OBVIOUS
    <3>1. Power[Width] \in Nat \ {0} /\ n \in 0..(Power[Width] - 1)
      BY <1>1, <1>2, PowerIs
    <3>2. n = Power[Width] * 0 + n
      BY <3>1
    <3> QED BY <3>1, <3>2, Quotient
  <2>2. \A n \in Nat : n \div Power[0] = n
    <3> SUFFICES ASSUME NEW n \in Nat PROVE n \div Power[0] = n
      OBVIOUS
    <3>1. Power[0] = 1 /\ n = 1 * n + 0
      BY PowerIs
    <3> QED BY <3>1, Quotient
  <2>3. Width - 0 = Width /\ Width - Width = 0 /\ i < Power[Width]
    BY <1>1, PowerIs
  <2> QED BY <2>1, <2>2, <2>3
<1>5. ASSUME NEW n \in Nat, NEW k \in 1..Width
      PROVE  /\ Q(n, k) % Radix \in Nat
             /\ Q(n, k) = Radix * Q(n, k - 1) + (Q(n, k) % Radix)
  <2> DEFINE b == Power[Width - k]
             q == n \div b
             r == n % b
             p == q \div Radix
             d == q % Radix
  <2>1. k \in 0..Width /\ k - 1 \in 0..Width /\ Width - (k - 1) = (Width - k) + 1
    BY <1>1
  <2>2. b \in Nat \ {0} /\ Radix \in Nat \ {0}
    BY <1>1, <1>2, <2>1
  <2>3. q \in Nat /\ r \in 0..(b - 1) /\ n = b * q + r
    BY <2>2, Division
  <2>4. p \in Nat /\ d \in 0..(Radix - 1) /\ q = Radix * p + d
    BY <2>2, <2>3, Division
  <2>5. Power[Width - (k - 1)] = Radix * b
    BY <1>2, <2>1, PowerIs
  <2> HIDE DEF b, q, r, p, d
  <2>6. n = (Radix * b) * p + (b * d + r)
    BY <2>2, <2>3, <2>4
  <2>7. b * d + r \in 0..(Radix * b - 1)
    <3>1. Radix - 1 - d \in Nat
      BY <2>2, <2>4
    <3>2. b * (Radix - 1 - d) >= 0
      BY <2>2, <3>1
    <3>3. b * d >= 0
      BY <2>2, <2>4
    <3> QED BY <2>2, <2>3, <2>4, <3>2, <3>3
  <2>8. Radix * b \in Nat \ {0}
    BY <2>2
  <2>9. n \div (Radix * b) = p
    BY <2>4, <2>6, <2>7, <2>8, Quotient
  <2> QED BY <2>4, <2>5, <2>9 DEF b, q, d
<1>6. Fits(i, Width) /\ Fits(j, Width)
  BY <1>1, PowerIs DEF Fits
<1>7. /\ Digits(i) = [k \in 1..Width |-> Q(i, k) % Radix]
      /\ Digits(j) = [k \in 1..Width |-> Q(j, k) % Radix]
  BY <1>1, <1>6, DigitsOf
<1>8. PICK k \in T : \A y \in T : k <= y
  <2>1. Width \in T
    BY <1>1, <1>4
  <2> HIDE DEF T
  <2>2. T \subseteq Nat
    BY DEF T
  <2> QED BY <2>1, <2>2, Least
<1>9. k \in 1..Width /\ Q(i, k) # Q(j, k)
  BY <1>1, <1>4, <1>8
<1>10. ASSUME NEW m \in 0..(k - 1)
       PROVE  Q(i, m) = Q(j, m)
  <2>1. m \in Nat /\ m <= Width /\ ~(k <= m)
    BY <1>1, <1>9
  <2> QED BY <1>8, <2>1
<1>11. Q(i, k) < Q(j, k)
  <2> DEFINE b == Power[Width - k]
             p == i \div b
             q == j \div b
  <2>1. b \in Nat \ {0}
    BY <1>2, <1>9
  <2>2. /\ p \in Nat /\ i % b \in 0..(b - 1) /\ i = b * p + (i % b)
        /\ q \in Nat /\ j % b \in 0..(b - 1) /\ j = b * q + (j % b)
    BY <2>1, Division
  <2> HIDE DEF b, p, q
  <2>3. ~(q < p)
    <3>1. SUFFICES ASSUME q < p PROVE FALSE
      OBVIOUS
    <3>2. p - (q + 1) \in Nat
      BY <2>2, <3>1
    <3>3. b * (p - (q + 1)) >= 0
      BY <2>1, <3>2
    <3> QED BY <2>1, <2>2, <3>3
  <2>4. p # q
    BY <1>9 DEF p, q, b
  <2>5. p < q
    BY <2>2, <2>3, <2>4
  <2> QED BY <2>5 DEF p, q, b
<1> HIDE DEF Q, T
<1>12. Q(i, k) % Radix < Q(j, k) % Radix
  <2>1. k - 1 \in 0..(k - 1) /\ k \in 0..Width /\ k - 1 \in 0..Width
    BY <1>1, <1>9
  <2>2. Q(i, k - 1) = Q(j, k - 1) /\ Q(i, k - 1) \in Nat
    BY <1>3, <1>10, <2>1
  <2> DEFINE c == Radix * Q(i, k - 1)
  <2>3. c \in Nat
    BY <1>1, <2>2
  <2>4. /\ Q(i, k) = c + (Q(i, k) % Radix) /\ Q(i, k) % Radix \in Nat
        /\ Q(j, k) = c + (Q(j, k) % Radix) /\ Q(j, k) % Radix \in Nat
    BY <1>5, <1>9, <2>2
  <2> HIDE DEF c
  <2> QED BY <1>11, <2>3, <2>4
<1>13. \A m \in 1..(k - 1) : Q(i, m) % Radix = Q(j, m) % Radix
  BY <1>10
<1>14. Len(Digits(i)) = Width /\ Len(Digits(j)) = Width
  BY <1>1, <1>7
<1>15. Digits(i)[k] < Digits(j)[k]
  BY <1>7, <1>9, <1>12
<1>16. \A m \in 1..(k - 1) : m <= Width /\ Digits(i)[m] = Digits(j)[m]
  BY <1>1, <1>7, <1>9, <1>13
<1> QED BY <1>9, <1>14, <1>15, <1>16 DEF TextBefore

\* Below Radix ^ Width the order of the names is the order of the numbers.
LEMMA NamesInOrder ==
  ASSUME NEW i \in Nat, NEW j \in Nat, i < Power[Width], j < Power[Width]
  PROVE  TextBefore(i, j) <=> i < j
<1>1. i < j => TextBefore(i, j)
  BY NamesAscend
<1>2. j < i => ~TextBefore(i, j)
  BY NamesAscend, NamesTransitive, NameNotBeforeItself
<1>3. i = j => ~TextBefore(i, j)
  BY NameNotBeforeItself
<1> QED BY <1>1, <1>2, <1>3

\* The first number with a digit more comes before its predecessor.
LEMMA NamesOverflow == TextBefore(Power[Width], Power[Width] - 1)
<1> DEFINE p == Power[Width - 1]
           a == Power[Width]
           b == a - 1
<1>1. /\ Width \in Nat \ {0} /\ Radix \in Nat /\ Radix >= 3
      /\ Width - 1 \in Nat /\ (Width - 1) + 1 = Width /\ Width + 1 \in Nat
      /\ (Width + 1) - 1 = Width
  BY PlanAssumption
<1>2. p \in Nat /\ p > Width - 1 /\ a = Radix * p /\ a \in Nat
      /\ Power[Width + 1] = Radix * a
  BY <1>1, PowerIs, PowersAscend
<1>3. p >= 1 /\ a >= 3 * p
  <2>1. \A r, q \in Nat : r >= 3 => r * q >= 3 * q
    OBVIOUS
  <2> QED BY <1>1, <1>2, <2>1
<1>4. Radix * a >= 3 * a
  <2>1. \A r, q \in Nat : r >= 3 => r * q >= 3 * q
    OBVIOUS
  <2> QED BY <1>1, <1>2, <2>1
<1> HIDE DEF p, a
<1>5. a < Power[Width + 1] /\ b \in Nat /\ b < a
  BY <1>1, <1>2, <1>3, <1>4
<1>6. Fits(a, Width + 1) /\ Fits(b, Width)
  <2>1. Power[(Width + 1) - 1] = a /\ Power[Width] = a
    BY <1>1 DEF a
  <2>2. Fits(a, Width + 1)
    BY <1>1, <1>2, <1>5, <2>1 DEF Fits
  <2>3. Fits(b, Width)
    BY <1>1, <1>2, <1>5, <2>1 DEF Fits
  <2> QED BY <2>2, <2>3
<1>7. /\ Digits(a) = [k \in 1..(Width + 1) |-> (a \div Power[(Width + 1) - k]) % Radix]
      /\ Digits(b) = [k \in 1..Width |-> (b \div Power[Width - k]) % Radix]
  BY <1>1, <1>2, <1>5, <1>6, DigitsOf
<1>8. Digits(a)[1] = 1
  <2>1. a \div a = 1
    <3>1. a = a * 1 + 0 /\ a \in Nat \ {0}
      BY <1>2, <1>3
    <3> QED BY <3>1, Quotient
  <2>2. 1 % Radix = 1
    <3>1. 1 \div Radix = 0
      <4>1. 1 = Radix * 0 + 1 /\ 1 \in 0..(Radix - 1)
        BY <1>1
      <4> QED BY <1>1, <4>1, Quotient
    <3>2. 1 = Radix * (1 \div Radix) + (1 % Radix) /\ 1 % Radix \in 0..(Radix - 1)
      BY <1>1, Division
    <3> QED BY <1>1, <3>1, <3>2
  <2>3. Power[(Width + 1) - 1] = a
    BY <1>1 DEF a
  <2>4. 1 \in 1..(Width + 1)
    BY <1>1
  <2> QED BY <1>7, <2>1, <2>2, <2>3, <2>4
<1>9. Digits(b)[1] = Radix - 1
  <2>0. Radix - 1 \in Nat /\ Radix \in Nat \ {0}
    BY <1>1
  <2>1. b \div p = Radix - 1
    <3>1. b = p * (Radix - 1) + (p - 1) /\ p - 1 \in 0..(p - 1) /\ p \in Nat \ {0}
      BY <1>1, <1>2, <1>3
    <3> HIDE DEF b
    <3> QED BY <1>5, <2>0, <3>1, Quotient
  <2>2. (Radix - 1) % Radix = Radix - 1
    <3>1. (Radix - 1) \div Radix = 0
      <4>1. Radix - 1 = Radix * 0 + (Radix - 1) /\ Radix - 1 \in 0..(Radix - 1)
        BY <1>1
      <4> QED BY <1>1, <4>1, Quotient
    <3>2. /\ Radix - 1 = Radix * ((Radix - 1) \div Radix) + ((Radix - 1) % Radix)
          /\ (Radix - 1) % Radix \in 0..(Radix - 1)
      BY <2>0, Division
    <3> QED BY <1>1, <3>1, <3>2
  <2>3. Power[Width - 1] = p /\ 1 \in 1..Width
    BY <1>1 DEF p
  <2> QED BY <1>7, <2>1, <2>2, <2>3
<1>10. Len(Digits(a)) = Width + 1 /\ Len(Digits(b)) = Width
  BY <1>1, <1>7
<1>11. TextBefore(a, b)
  <2>1. 1 \in 1..Len(Digits(b)) /\ Digits(a)[1] < Digits(b)[1] /\ 1..(1 - 1) = {}
    BY <1>1, <1>8, <1>9, <1>10
  <2> QED BY <2>1 DEF TextBefore
<1> QED BY <1>11 DEF a

\* The ids of shards are in order as texts exactly as long as their numbers
\* fit the width (load_batch_plan, line 843): plan_batch numbers them from 1.
LEMMA PlacesFit ==
  ASSUME NEW shards, NEW n \in Nat, DOMAIN shards = 1..n
  PROVE  (\A i \in 1..n : Place(i, shards) = i) <=> n < Power[Width]
<1>1. Power[Width] \in Nat /\ Power[Width] >= 3
  <2>1. Width \in Nat \ {0} /\ Width - 1 \in Nat /\ (Width - 1) + 1 = Width
    BY PlanAssumption
  <2>2. Power[Width] = Radix * Power[Width - 1] /\ Power[Width - 1] \in Nat
        /\ Power[Width - 1] > Width - 1
    BY <2>1, PowerIs, PowersAscend
  <2>3. \A r, q \in Nat : r >= 3 /\ q >= 1 => r * q >= 3
    OBVIOUS
  <2> QED BY <2>1, <2>2, <2>3, PlanAssumption
<1>2. ASSUME n < Power[Width], NEW i \in 1..n
      PROVE  Place(i, shards) = i
  <2>1. \A j \in 1..n : TextBefore(j, i) <=> j < i
    BY <1>1, <1>2, NamesInOrder
  <2>2. {j \in 1..n : TextBefore(j, i)} = 1..(i - 1)
    BY <2>1
  <2>3. Cardinality(1..(i - 1)) = i - 1
    BY FS_Interval
  <2>4. Place(i, shards) = Cardinality({j \in 1..n : TextBefore(j, i)}) + 1
    BY DEF Place
  <2>5. Place(i, shards) = Cardinality(1..(i - 1)) + 1
    BY <2>2, <2>4, Zenon
  <2>6. (i - 1) + 1 = i
    OBVIOUS
  <2> QED BY <2>3, <2>5, <2>6
<1>3. ASSUME n >= Power[Width], \A i \in 1..n : Place(i, shards) = i
      PROVE  FALSE
  <2> DEFINE a == Power[Width]
             b == a - 1
             A == {j \in 1..n : TextBefore(j, a)}
             B == {j \in 1..n : TextBefore(j, b)}
  <2>1. a \in 1..n /\ b \in 1..n /\ a \in Nat /\ b \in Nat
    BY <1>1, <1>3
  <2>2. A \subseteq B
    <3> SUFFICES ASSUME NEW j \in 1..n, TextBefore(j, a) PROVE TextBefore(j, b)
      OBVIOUS
    <3> QED BY <2>1, NamesOverflow, NamesTransitive
  <2>3. Cardinality(A) + 1 = a /\ Cardinality(B) + 1 = b
    BY <1>3, <2>1 DEF Place
  <2>4. IsFiniteSet(B)
    <3>1. B \subseteq 1..n /\ IsFiniteSet(1..n)
      BY FS_Interval
    <3> QED BY <3>1, FS_Subset
  <2> HIDE DEF A, B
  <2>5. Cardinality(A) <= Cardinality(B) /\ Cardinality(B) \in Nat /\ Cardinality(A) \in Nat
    BY <2>2, <2>4, FS_Subset, FS_CardinalityType
  <2> QED BY <2>1, <2>3, <2>5
<1> QED BY <1>1, <1>2, <1>3

\* plan_batch and load_batch_plan: a sealed plan is accepted by every later
\* command exactly as long as its last shard number fits its name and every row
\* of its shard inputs reads back under the id it was planned with, for any
\* records, shard sizes, planners, radix and width.
THEOREM SealedLoads == PlanSpec => []SealedPlanLoads
<1>1. ASSUME PlanInv
      PROVE  SealedPlanLoads
  <2> SUFFICES ASSUME folder.stage = "sealed"
               PROVE  Loads(folder) <=>
                        Len(folder.shards) < Power[Width] /\ folder.untidy = {}
    BY DEF SealedPlanLoads
  <2> DEFINE shards == folder.shards
             n == Len(shards)
  <2>1. /\ PartitionOf(shards, folder.asked, folder.size)
        /\ folder.count = Cardinality(folder.asked)
        /\ shards \in Seq(SUBSET Records)
    BY <1>1 DEF PlanInv, PlanTypeOK, Folders
  <2>2. n \in Nat /\ DOMAIN shards = 1..n
    BY <2>1
  <2>3. UNION {shards[i] : i \in DOMAIN shards} = folder.asked
    BY <2>1 DEF PartitionOf
  <2>4. (\A i \in 1..n : Place(i, shards) = i) <=> n < Power[Width]
    BY <2>2, PlacesFit
  <2>5. (\A i \in 1..n : folder.inputs[i] = shards[i]) <=> folder.untidy = {}
    <3>1. \A i \in 1..n : folder.inputs[i] = ReadBack(shards[i], folder.untidy)
      BY <1>1, <2>2 DEF PlanInv
    <3>2. ASSUME folder.untidy = {}, NEW i \in 1..n PROVE folder.inputs[i] = shards[i]
      BY <3>1, <3>2 DEF ReadBack
    <3>3. ASSUME NEW r \in folder.untidy PROVE \E i \in 1..n : folder.inputs[i] # shards[i]
      <4>1. r \in folder.asked
        BY <1>1, <3>3 DEF PlanInv
      <4>2. PICK i \in 1..n : r \in shards[i]
        BY <2>1, <2>2, <4>1 DEF PartitionOf
      <4>3. Stray \in folder.inputs[i]
        BY <3>1, <4>2 DEF ReadBack
      <4>4. Stray \notin shards[i]
        BY <2>1, <2>2, PlanAssumption DEF Stray
      <4> QED BY <4>3, <4>4
    <3> QED BY <3>2, <3>3
  <2> QED BY <2>1, <2>2, <2>3, <2>4, <2>5 DEF Loads, PartitionOf
<1> QED BY <1>1, PlanInvariance, PTL

-----------------------------------------------------------------------------
(* Collections                                                             *)

Statuses == Terminal \cup {"PLANNED", "RUNNING_OR_INCOMPLETE"}

\* The ledger the collectors read: a pair succeeds at most once.
LedgerInv ==
  /\ planned \subseteq Attempts
  /\ shard \in [Attempts -> Statuses]
  /\ \A k \in Keys, r, s \in Plans :
       shard[<<k, r>>] = "SUCCESS" /\ shard[<<k, s>>] = "SUCCESS" => r = s

\* What justifies that pair k contributes through t, whenever t was chosen.
Sound(k, t) ==
  /\ t.source = "original" =>
       <<k, t.plan>> \notin Inexact /\ shard[<<k, t.plan>>] = "SUCCESS"
  /\ t.source = "revalidation" => derived[<<k, t.plan>>] = "pass"

\* What a collector has read so far: it is about planned attempts only, its
\* successes are successes, and what it chose is justified.
ReadInv ==
  \A c \in Collectors :
    /\ listed[c] \subseteq planned
    /\ \A a \in good[c] : shard[a] = "SUCCESS"
    /\ \A k \in Keys : Sound(k, taken[c][k])

\* Where the collector is shows in its rows: none before the second pass,
\* one for every attempt the second pass is done with and that has failed.
RowsInv ==
  \A c \in Collectors :
    /\ step[c] \in {"idle", "scan", "choose"} =>
         failed[c] = {} /\ \A k \in Keys : taken[c][k] = NoTake
    /\ step[c] = "write" => rest[c] = {}
    /\ step[c] \in {"failed", "write"} =>
         \A a \in listed[c] \ rest[c] : shard[a] = "SUCCESS" \/ a \in failed[c]
    /\ \A k \in Keys : taken[c][k] # NoTake =>
         <<k, taken[c][k].plan>> \in listed[c]
    /\ \A k \in Keys : taken[c][k].source = "original" =>
         <<k, taken[c][k].plan>> \notin failed[c]

\* The same of what is sealed.
ResultInv ==
  /\ \A k \in Keys :
       /\ Sound(k, result.taken[k])
       /\ result.taken[k].source = "original" =>
            <<k, result.taken[k].plan>> \notin result.failed
       /\ result.taken[k] # NoTake =>
            \/ shard[<<k, result.taken[k].plan>>] = "SUCCESS"
            \/ <<k, result.taken[k].plan>> \in result.failed
  /\ result.status = "PASS" => \A k \in Keys : result.taken[k] # NoTake

CollectInv == CollectTypeOK /\ LedgerInv /\ ReadInv /\ RowsInv /\ ResultInv

-----------------------------------------------------------------------------
(* Takes                                                                   *)

\* The attempt a take names.
LEMMA TakeNames ==
  ASSUME NEW t \in Takes, NEW k \in Keys
  PROVE  /\ t = NoTake \/ t.source \in {"original", "revalidation"}
         /\ t # NoTake => t.plan \in Plans /\ <<k, t.plan>> \in Attempts
         /\ t.source \in {"original", "revalidation"} => t # NoTake
BY DEF Takes, NoTake, Attempts

\* validate_coverage lets nothing through but an exact output.
LEMMA ContributionIs ==
  ASSUME NEW k \in Keys, NEW r \in Plans, NEW source \in {"original", "revalidation"}
  PROVE  LET t == Contribution(k, r, source)
         IN  /\ t \in Takes
             /\ t # NoTake => t.plan = r /\ t.source = source
             /\ t.source = "original" => <<k, r>> \notin Inexact
BY DEF Contribution, Takes, NoTake

\* Without a selection the contribution is a success of the first pass.
LEMMA TakenFromIs ==
  ASSUME NEW c \in Collectors, NEW k \in Keys
  PROVE  LET t == TakenFrom(c, k)
         IN  /\ t \in Takes
             /\ t # NoTake => /\ t.source = "original" /\ t.plan \in Plans
                              /\ <<k, t.plan>> \in good[c]
                              /\ <<k, t.plan>> \notin Inexact
<1> DEFINE found == {r \in Plans : <<k, r>> \in good[c]}
           first == CHOOSE r \in found : TRUE
<1>1. CASE Cardinality(found) = 1
  <2>1. found # {}
    <3> HIDE DEF found
    <3> QED BY <1>1, FS_EmptySet
  <2>2. first \in found
    BY <2>1
  <2>3. TakenFrom(c, k) = Contribution(k, first, "original")
    BY <1>1 DEF TakenFrom
  <2>4. first \in Plans /\ <<k, first>> \in good[c]
    BY <2>2
  <2> HIDE DEF found, first
  <2> QED BY <2>3, <2>4, ContributionIs DEF Takes, NoTake
<1>2. CASE Cardinality(found) # 1
  BY <1>2 DEF TakenFrom, Takes, NoTake
<1> QED BY <1>1, <1>2

-----------------------------------------------------------------------------
(* The ledger beside the collectors                                        *)

\* What is planned stays planned, and what has succeeded or passed stays so.
Keeps ==
  /\ planned \subseteq planned'
  /\ \A a \in Attempts : shard[a] = "SUCCESS" => shard'[a] = "SUCCESS"
  /\ \A a \in Attempts : derived[a] = "pass" => derived'[a] = "pass"

\* The runner keeps the ledger in order.
LEMMA LedgerStep ==
  ASSUME LedgerInv, LedgerNext, UNCHANGED derived
  PROVE  LedgerInv' /\ Keeps
<1> USE DEF LedgerInv, Keeps
<1>1. ASSUME NEW r \in Retries, NEW K \in SUBSET Keys, PlanRetries(r, K)
      PROVE  LedgerInv' /\ Keeps
  BY <1>1 DEF PlanRetries
<1>2. ASSUME NEW r \in Retries, SealRetries(r) PROVE LedgerInv' /\ Keeps
  BY <1>2 DEF SealRetries
<1>3. ASSUME NEW a \in Attempts, StartAttempt(a) PROVE LedgerInv' /\ Keeps
  <2>1. shard' \in [Attempts -> Statuses]
    BY <1>3 DEF StartAttempt, Statuses
  <2>2. \A b \in Attempts : shard'[b] = "SUCCESS" <=> shard[b] = "SUCCESS"
    BY <1>3 DEF StartAttempt
  <2>3. \A k \in Keys, r \in Plans : <<k, r>> \in Attempts
    BY DEF Attempts
  <2> QED BY <1>3, <2>1, <2>2, <2>3 DEF StartAttempt
<1>4. ASSUME NEW a \in Attempts, NEW s \in Terminal, EndAttempt(a, s)
      PROVE  LedgerInv' /\ Keeps
  <2>1. shard' \in [Attempts -> Statuses]
    BY <1>4 DEF EndAttempt, Statuses
  <2>2. \A b \in Attempts : shard'[b] = "SUCCESS" <=>
           shard[b] = "SUCCESS" \/ (b = a /\ s = "SUCCESS")
    BY <1>4 DEF EndAttempt
  <2>3. \A k \in Keys, r \in Plans : <<k, r>> \in Attempts
    BY DEF Attempts
  <2>4. s = "SUCCESS" => \A r \in Plans : shard[<<a[1], r>>] # "SUCCESS"
    BY <1>4 DEF EndAttempt, Succeeded
  <2>5. \A k \in Keys, r, q \in Plans :
          shard'[<<k, r>>] = "SUCCESS" /\ shard'[<<k, q>>] = "SUCCESS" => r = q
    <3> SUFFICES ASSUME NEW k \in Keys, NEW r \in Plans, NEW q \in Plans,
                        shard'[<<k, r>>] = "SUCCESS", shard'[<<k, q>>] = "SUCCESS",
                        r # q
                 PROVE  FALSE
      OBVIOUS
    <3>1. CASE <<k, r>> = a
      BY <3>1, <2>2, <2>3, <2>4
    <3>2. CASE <<k, q>> = a
      BY <3>2, <2>2, <2>3, <2>4
    <3> QED BY <3>1, <3>2, <2>2, <2>3
  <2> QED BY <1>4, <2>1, <2>2, <2>5 DEF EndAttempt
<1> QED BY <1>1, <1>2, <1>3, <1>4 DEF LedgerNext

\* What was justified stays justified.
LEMMA SoundStays ==
  ASSUME Keeps, NEW k \in Keys, NEW t \in Takes, Sound(k, t)
  PROVE  /\ t.source = "original" =>
              <<k, t.plan>> \notin Inexact /\ shard'[<<k, t.plan>>] = "SUCCESS"
         /\ t.source = "revalidation" => derived'[<<k, t.plan>>] = "pass"
BY TakeNames DEF Keeps, Sound

\* What a collector knows survives whatever the ledger and revalidate do.
LEMMA OthersMove ==
  ASSUME CollectInv, Keeps, LedgerInv', derived' \in [Attempts -> {"none", "pass", "fail"}],
         UNCHANGED <<step, listed, rest, good, taken, failed, collection>>
  PROVE  CollectInv'
<1> USE DEF CollectInv
<1>1. \A c \in Collectors, k \in Keys : taken[c][k] \in Takes
  BY DEF CollectTypeOK
<1>2. \A k \in Keys : result.taken[k] \in Takes
  BY DEF CollectTypeOK, Results, result
<1>3. \A c \in Collectors : listed[c] \subseteq Attempts /\ good[c] \subseteq Attempts
  BY DEF CollectTypeOK
<1>4. CollectTypeOK'
  BY DEF CollectTypeOK
<1>5. ReadInv'
  <2>1. ASSUME NEW c \in Collectors, NEW k \in Keys PROVE Sound(k, taken[c][k])'
    <3>1. Sound(k, taken[c][k])
      BY DEF ReadInv
    <3> QED BY <3>1, <1>1, SoundStays DEF Sound
  <2>2. \A c \in Collectors : listed'[c] \subseteq planned' /\ \A a \in good'[c] : shard'[a] = "SUCCESS"
    BY <1>3 DEF ReadInv, Keeps
  <2> QED BY <2>1, <2>2 DEF ReadInv
<1>6. RowsInv'
  BY <1>3 DEF RowsInv, Keeps
<1>7. ResultInv'
  <2>1. UNCHANGED result
    BY DEF result
  <2>2. ASSUME NEW k \in Keys
        PROVE  /\ Sound(k, result.taken[k])'
               /\ result.taken[k] # NoTake =>
                    \/ shard'[<<k, result.taken[k].plan>>] = "SUCCESS"
                    \/ <<k, result.taken[k].plan>> \in result.failed
    <3>1. Sound(k, result.taken[k])
      BY DEF ResultInv
    <3> QED BY <3>1, <2>1, <1>2, SoundStays, TakeNames DEF Sound, ResultInv, Keeps
  <2> QED BY <2>1, <2>2 DEF ResultInv
<1> QED BY <1>4, <1>5, <1>6, <1>7

-----------------------------------------------------------------------------
(* The collector                                                           *)

\* A command that is over has read and chosen nothing.
LEMMA EmptyKeeps ==
  ASSUME CollectInv, NEW c \in Collectors, Empty(c),
         UNCHANGED <<ledger, derived>>
  PROVE  LedgerInv' /\ ReadInv' /\ RowsInv'
<1>1. UNCHANGED <<plan, planned, shard, derived>>
  BY DEF ledger
<1>2. LedgerInv'
  BY <1>1 DEF CollectInv, LedgerInv
<1>3. NoTake.source = "none"
  BY DEF NoTake
<1>4. ReadInv'
  BY <1>1, <1>3 DEF CollectInv, CollectTypeOK, ReadInv, Empty, Sound
<1>5. RowsInv'
  BY <1>1, <1>3 DEF CollectInv, CollectTypeOK, RowsInv, Empty
<1> QED BY <1>2, <1>4, <1>5

\* A choice keeps the rows of a collector that has none yet in order.
LEMMA ChoiceKeeps ==
  ASSUME CollectInv, NEW c \in Collectors, step[c] = "choose",
         NEW f \in [Keys -> Takes],
         \A k \in Keys : Sound(k, f[k]) /\ (f[k] # NoTake => <<k, f[k].plan>> \in listed[c]),
         taken' = [taken EXCEPT ![c] = f],
         step' = [step EXCEPT ![c] = "failed"],
         rest' = [rest EXCEPT ![c] = listed[c]],
         UNCHANGED <<ledger, derived, listed, good, failed, collection>>
  PROVE  CollectInv'
<1> USE DEF CollectInv
<1>1. UNCHANGED <<plan, planned, shard, derived>>
  BY DEF ledger
<1>2. CollectTypeOK'
  BY DEF CollectTypeOK
<1>3. LedgerInv'
  BY <1>1 DEF LedgerInv
<1>4. ReadInv'
  BY <1>1 DEF CollectTypeOK, ReadInv, Sound
<1>5. RowsInv'
  BY <1>1 DEF CollectTypeOK, RowsInv
<1>6. ResultInv'
  BY <1>1 DEF ResultInv, result, Sound
<1> QED BY <1>2, <1>3, <1>4, <1>5, <1>6

\* Every step of a collector keeps CollectInv.
LEMMA CollectStep ==
  ASSUME CollectInv, NEW c \in Collectors, Collect(c)
  PROVE  CollectInv'
<1> USE DEF CollectInv
<1>1. CASE Open(c)
  <2>1. CollectTypeOK'
    <3>1. failed[c] = {} /\ planned \subseteq Attempts
      BY <1>1 DEF Open, RowsInv, LedgerInv
    <3>2. listed[c] \subseteq planned
      BY DEF ReadInv
    <3> QED BY <1>1, <3>1, <3>2 DEF Open, CollectTypeOK
  <2>2. LedgerInv' /\ ResultInv'
    BY <1>1 DEF Open, ledger, LedgerInv, ResultInv, result, Sound
  <2>3. ReadInv' /\ RowsInv'
    BY <1>1 DEF Open, ledger, CollectTypeOK, ReadInv, RowsInv, Sound, NoTake
  <2> QED BY <2>1, <2>2, <2>3
<1>2. ASSUME NEW a \in Attempts, ScanSuccess(c, a) PROVE CollectInv'
  <2>1. a \in rest[c] /\ a \in listed[c]
    BY <1>2 DEF ScanSuccess, IsFirst, FirstOf, CollectTypeOK
  <2>2. CollectTypeOK'
    BY <1>2, <2>1 DEF ScanSuccess, CollectTypeOK
  <2>3. LedgerInv' /\ ResultInv'
    BY <1>2 DEF ScanSuccess, ledger, LedgerInv, ResultInv, result, Sound
  <2>4. ReadInv' /\ RowsInv'
    BY <1>2 DEF ScanSuccess, ledger, CollectTypeOK, ReadInv, RowsInv, Sound
  <2> QED BY <2>2, <2>3, <2>4
<1>3. ASSUME NEW a \in Attempts, ClassifyAgain(c, a) PROVE CollectInv'
  <2>1. a \in rest[c] /\ a \in listed[c]
    BY <1>3 DEF ClassifyAgain, IsFirst, FirstOf, CollectTypeOK
  <2>2. CollectTypeOK'
    BY <1>3, <2>1 DEF ClassifyAgain, CollectTypeOK
  <2>3. LedgerInv' /\ ReadInv' /\ ResultInv'
    BY <1>3 DEF ClassifyAgain, ledger, LedgerInv, ReadInv, ResultInv, result, Sound
  <2>4. RowsInv'
    <3>1. \A k \in Keys : taken[c][k].source = "original" =>
             shard[<<k, taken[c][k].plan>>] = "SUCCESS"
      BY DEF ReadInv, Sound
    <3> QED BY <1>3, <3>1 DEF ClassifyAgain, ledger, CollectTypeOK, RowsInv
  <2> QED BY <2>2, <2>3, <2>4
<1>4. CASE ListAgain(c)
  <2>1. listed[c] \subseteq planned /\ planned \subseteq Attempts
    BY DEF ReadInv, LedgerInv
  <2>2. CollectTypeOK'
    BY <1>4, <2>1 DEF ListAgain, CollectTypeOK
  <2>3. LedgerInv' /\ ResultInv'
    BY <1>4 DEF ListAgain, ledger, LedgerInv, ResultInv, result, Sound
  <2>4. ReadInv' /\ RowsInv'
    BY <1>4 DEF ListAgain, ledger, CollectTypeOK, ReadInv, RowsInv, Sound, NoTake
  <2> QED BY <2>2, <2>3, <2>4
<1>5. CASE TakeSuccesses(c)
  <2> DEFINE f == [k \in Keys |-> TakenFrom(c, k)]
  <2>1. f \in [Keys -> Takes]
    BY TakenFromIs
  <2>2. ASSUME NEW k \in Keys
        PROVE  Sound(k, f[k]) /\ (f[k] # NoTake => <<k, f[k].plan>> \in listed[c])
    <3>1. f[k] = TakenFrom(c, k)
      OBVIOUS
    <3> HIDE DEF f
    <3>2. CASE f[k] = NoTake
      BY <3>2 DEF Sound, NoTake
    <3>3. CASE f[k] # NoTake
      <4>1. /\ f[k].source = "original"
            /\ <<k, f[k].plan>> \in good[c]
            /\ <<k, f[k].plan>> \notin Inexact
        BY <3>1, <3>3, TakenFromIs
      <4> QED BY <4>1 DEF Sound, ReadInv, CollectTypeOK
    <3> QED BY <3>2, <3>3
  <2>3. taken' = [taken EXCEPT ![c] = f]
    BY <1>5 DEF TakeSuccesses
  <2> HIDE DEF f
  <2> QED BY <1>5, <2>1, <2>2, <2>3, ChoiceKeeps DEF TakeSuccesses
<1>6. ASSUME NEW choice \in [Keys -> Takes \ {NoTake}], TakeSelection(c, choice)
      PROVE  CollectInv'
  <2> DEFINE f == [k \in Keys |-> Contribution(k, choice[k].plan, choice[k].source)]
  <2>1. ASSUME NEW k \in Keys
        PROVE  choice[k].plan \in Plans /\ choice[k].source \in {"original", "revalidation"}
    BY DEF Takes
  <2>2. f \in [Keys -> Takes]
    BY <2>1, ContributionIs
  <2>3. ASSUME NEW k \in Keys
        PROVE  Sound(k, f[k]) /\ (f[k] # NoTake => <<k, f[k].plan>> \in listed[c])
    <3>1. f[k] = Contribution(k, choice[k].plan, choice[k].source)
      OBVIOUS
    <3> HIDE DEF f
    <3>2. CASE f[k] = NoTake
      BY <3>2 DEF Sound, NoTake
    <3>3. CASE f[k] # NoTake
      <4>1. /\ f[k].plan = choice[k].plan
            /\ f[k].source = choice[k].source
            /\ f[k].source = "original" => <<k, choice[k].plan>> \notin Inexact
        BY <2>1, <3>1, <3>3, ContributionIs
      <4>2. EligibleChoice(c, k, choice[k])
        BY <1>6 DEF TakeSelection
      <4> QED BY <4>1, <4>2 DEF Sound, EligibleChoice
    <3> QED BY <3>2, <3>3
  <2>4. taken' = [taken EXCEPT ![c] = f]
    BY <1>6 DEF TakeSelection
  <2> HIDE DEF f
  <2> QED BY <1>6, <2>2, <2>3, <2>4, ChoiceKeeps DEF TakeSelection
<1>7. CASE MakeDirectory(c)
  <2>1. CollectTypeOK'
    BY <1>7 DEF MakeDirectory, CollectTypeOK
  <2>2. collection'.result = collection.result
    BY <1>7 DEF MakeDirectory, CollectTypeOK
  <2>3. LedgerInv' /\ ReadInv' /\ ResultInv'
    BY <1>7, <2>2 DEF MakeDirectory, ledger, LedgerInv, ReadInv, ResultInv, result, Sound
  <2>4. RowsInv'
    BY <1>7 DEF MakeDirectory, ledger, CollectTypeOK, RowsInv
  <2> QED BY <2>1, <2>3, <2>4
<1>8. CASE SealCollection(c)
  <2> DEFINE sealed == [status |-> Verdict(c), listed |-> listed[c],
                        failed |-> failed[c], taken |-> taken[c]]
  <2>1. sealed \in Results
    BY DEF CollectTypeOK, Results, Verdict
  <2>2. collection' = [collection EXCEPT !.result = sealed]
    BY <1>8 DEF SealCollection
  <2>3. result' = sealed
    BY <2>2 DEF result, CollectTypeOK
  <2>4. Empty(c) /\ UNCHANGED <<ledger, derived>>
    BY <1>8 DEF SealCollection
  <2>5. LedgerInv' /\ ReadInv' /\ RowsInv'
    BY <2>4, EmptyKeeps
  <2>6. CollectTypeOK'
    <3> HIDE DEF sealed
    <3>1. collection' \in [writer : Collectors \cup {Nobody}, result : Results]
      BY <2>1, <2>2 DEF CollectTypeOK
    <3>2. [k \in Keys |-> NoTake] \in [Keys -> Takes]
      BY DEF Takes
    <3>3. taken' \in [Collectors -> [Keys -> Takes]]
      BY <2>4, <3>2 DEF Empty, CollectTypeOK
    <3> QED BY <2>4, <3>1, <3>3 DEF Empty, CollectTypeOK
  <2>7. ResultInv'
    <3>1. UNCHANGED <<shard, derived>>
      BY <2>4 DEF ledger
    <3>2. /\ result'.taken = taken[c]
          /\ result'.failed = failed[c]
          /\ result'.status = "PASS" => \A k \in Keys : taken[c][k] # NoTake
      BY <2>3 DEF Verdict
    <3> HIDE DEF sealed
    <3>3. /\ step[c] = "write" /\ rest[c] = {}
      BY <1>8 DEF SealCollection, RowsInv
    <3>4. ASSUME NEW k \in Keys
          PROVE  /\ Sound(k, taken[c][k])
                 /\ taken[c][k].source = "original" =>
                      <<k, taken[c][k].plan>> \notin failed[c]
                 /\ taken[c][k] # NoTake =>
                      \/ shard[<<k, taken[c][k].plan>>] = "SUCCESS"
                      \/ <<k, taken[c][k].plan>> \in failed[c]
      BY <3>3 DEF ReadInv, RowsInv
    <3> QED BY <3>1, <3>2, <3>4 DEF ResultInv, Sound
  <2> QED BY <2>5, <2>6, <2>7
<1>9. CASE GiveUp(c)
  <2>1. Empty(c) /\ UNCHANGED <<ledger, derived>> /\ collection' = collection
    BY <1>9 DEF GiveUp
  <2>2. LedgerInv' /\ ReadInv' /\ RowsInv'
    BY <2>1, EmptyKeeps
  <2>3. CollectTypeOK'
    BY <2>1 DEF Empty, CollectTypeOK, NoTake, Takes
  <2>4. ResultInv'
    BY <2>1 DEF ledger, ResultInv, result, Sound
  <2> QED BY <2>2, <2>3, <2>4
<1> QED BY <1>1, <1>2, <1>3, <1>4, <1>5, <1>6, <1>7, <1>8, <1>9 DEF Collect

-----------------------------------------------------------------------------
(* Theorems about collections                                              *)

\* Before the first command nothing is read, chosen or sealed.
LEMMA CollectInitInv == CollectInit => CollectInv
<1> SUFFICES ASSUME CollectInit PROVE CollectInv
  OBVIOUS
<1> USE DEF CollectInit, LedgerInit
<1>1. NoTake \in Takes /\ NoTake.source = "none"
  BY DEF NoTake, Takes
<1>2. [k \in Keys |-> NoTake] \in [Keys -> Takes]
  BY <1>1
<1>3. NoResult \in Results /\ NoResult.status = "none"
  BY <1>2 DEF NoResult, Results
<1>4. CollectTypeOK
  BY <1>2, <1>3 DEF CollectTypeOK
<1>5. LedgerInv
  <2>1. \A k \in Keys, r \in Plans : shard[<<k, r>>] = "PLANNED"
    BY DEF Attempts
  <2> QED BY <2>1 DEF LedgerInv, Statuses
<1>6. ReadInv /\ RowsInv
  BY <1>1 DEF ReadInv, RowsInv, Sound
<1>7. ResultInv
  BY <1>1 DEF ResultInv, result, NoResult, Sound
<1> QED BY <1>4, <1>5, <1>6, <1>7 DEF CollectInv

\* Every step of the system keeps CollectInv.
LEMMA CollectNextInv == CollectInv /\ [CollectNext]_allVars => CollectInv'
<1> SUFFICES ASSUME CollectInv, [CollectNext]_allVars PROVE CollectInv'
  OBVIOUS
<1>1. CASE LedgerNext /\ UNCHANGED readers
  <2>1. LedgerInv' /\ Keeps
    BY <1>1, LedgerStep DEF CollectInv, readers
  <2> QED BY <1>1, <2>1, OthersMove DEF readers, CollectInv, CollectTypeOK
<1>2. ASSUME NEW a \in Attempts, NEW verdict \in {"pass", "fail"}, Revalidate(a, verdict)
      PROVE  CollectInv'
  <2>1. derived' \in [Attempts -> {"none", "pass", "fail"}]
    BY <1>2 DEF Revalidate, CollectInv, CollectTypeOK
  <2>2. LedgerInv' /\ Keeps
    BY <1>2 DEF Revalidate, ledger, CollectInv, CollectTypeOK, LedgerInv, Keeps
  <2> QED BY <1>2, <2>1, <2>2, OthersMove DEF Revalidate
<1>3. CASE \E c \in Collectors : Collect(c)
  BY <1>3, CollectStep
<1>4. CASE UNCHANGED allVars
  <2>1. UNCHANGED <<plan, planned, shard, derived>> /\ UNCHANGED readers
    BY <1>4 DEF allVars, ledger, readers
  <2>2. LedgerInv' /\ Keeps
    BY <2>1 DEF CollectInv, LedgerInv, Keeps
  <2> QED BY <2>1, <2>2, OthersMove DEF readers, CollectInv, CollectTypeOK
<1> QED BY <1>1, <1>2, <1>3, <1>4 DEF CollectNext

\* CollectInv is invariant, whatever runs beside the collectors.
THEOREM CollectInvariance == CollectSpec => []CollectInv
BY CollectInitInv, CollectNextInv, PTL DEF CollectSpec

\* The variables of revalidate and of collect_batch keep their types; a
\* command that ended took its work list with it.
THEOREM CollectTypeCorrect == CollectSpec => []CollectTypeOK
<1>1. CollectInv => CollectTypeOK
  BY DEF CollectInv
<1> QED BY CollectInvariance, <1>1, PTL

\* What collect_batch's verdict, the sealed justification of every take and the
\* ledger's one success per pair say together.
LEMMA PassJustified == CollectInv => PassIsComplete
<1> SUFFICES ASSUME CollectInv, result.status = "PASS", NEW k \in Keys
             PROVE  /\ result.taken[k] # NoTake
                    /\ Original(k) =>
                         /\ <<k, result.taken[k].plan>> \notin Inexact
                         /\ \A r \in Plans : shard[<<k, r>>] = "SUCCESS" <=>
                                            r = result.taken[k].plan
                    /\ ~Original(k) => derived[<<k, result.taken[k].plan>>] = "pass"
  BY DEF PassIsComplete
<1>1. result.taken[k] \in Takes /\ result.taken[k] # NoTake
  BY DEF CollectInv, CollectTypeOK, Results, result, ResultInv
<1>2. Sound(k, result.taken[k])
  BY DEF CollectInv, ResultInv
<1>3. result.taken[k].plan \in Plans
  BY <1>1, TakeNames
<1> QED BY <1>1, <1>2, <1>3, TakeNames DEF Sound, Original, CollectInv, LedgerInv

\* collect_batch, "fail closed on coverage": a sealed PASS is complete, and
\* stays justified by the ledger whatever runs later.
THEOREM PassComplete == CollectSpec => []PassIsComplete
BY CollectInvariance, PassJustified, PTL

\* What the rows of the second classification say of the takes.
LEMMA RowsJustified == CollectInv => LedgerKeepsOriginals
<1> SUFFICES ASSUME CollectInv, NEW k \in Keys, result.taken[k] # NoTake
             PROVE  LET a == <<k, result.taken[k].plan>>
                    IN  /\ Original(k) => a \notin result.failed
                        /\ shard[a] # "SUCCESS" => ~Original(k) /\ a \in result.failed
  BY DEF LedgerKeepsOriginals
<1>1. Sound(k, result.taken[k])
  BY DEF CollectInv, ResultInv
<1> QED BY <1>1 DEF Sound, Original, CollectInv, ResultInv

\* failed_shards.tsv against the contributions: no original that contributes
\* has a row, every failure that contributes through a derivative has one.
THEOREM LedgerKept == CollectSpec => []LedgerKeepsOriginals
BY CollectInvariance, RowsJustified, PTL

\* The process that is writing made the directory, and nothing is sealed yet.
WriterInv ==
  \A c \in Collectors :
    step[c] = "write" => collection.writer = c /\ result.status = "none"

\* A directory nobody has made says nothing.
EmptyInv == collection.writer = Nobody => result.status = "none"

\* One collector at most writes, and only what has not been sealed.
LEMMA WriterStep ==
  CollectInv /\ WriterInv /\ EmptyInv /\ [CollectNext]_allVars =>
    WriterInv' /\ EmptyInv'
<1> SUFFICES ASSUME CollectInv, WriterInv, EmptyInv, [CollectNext]_allVars
             PROVE  WriterInv' /\ EmptyInv'
  OBVIOUS
<1> USE DEF WriterInv, EmptyInv, result
<1>1. CASE UNCHANGED <<step, collection>>
  BY <1>1
<1>2. ASSUME NEW c \in Collectors, Collect(c) PROVE WriterInv' /\ EmptyInv'
  <2> USE <1>2 DEF CollectInv, CollectTypeOK
  <2>1. CASE MakeDirectory(c)
    <3>1. collection'.writer = c /\ collection'.result = collection.result
      BY <2>1 DEF MakeDirectory
    <3> QED BY <2>1, <3>1, CollectAssumption DEF MakeDirectory
  <2>2. CASE SealCollection(c)
    <3>1. collection'.writer = collection.writer /\ collection.writer = c
      BY <2>2 DEF SealCollection
    <3>2. step' = [step EXCEPT ![c] = "idle"] /\ step[c] = "write"
      BY <2>2 DEF SealCollection, Empty
    <3> QED BY <3>1, <3>2, CollectAssumption
  <2>3. CASE UNCHANGED collection /\ step'[c] # "write"
               /\ \A b \in Collectors \ {c} : step'[b] = step[b]
    BY <2>3
  <2>4. CASE UNCHANGED <<step, collection>>
    BY <2>4
  <2> QED BY <2>1, <2>2, <2>3, <2>4
          DEF Collect, Open, ScanSuccess, ClassifyAgain, ListAgain, TakeSuccesses,
              TakeSelection, GiveUp, Empty
<1> QED BY <1>1, <1>2 DEF CollectNext, Revalidate, readers, allVars

\* destination.mkdir without exist_ok: a sealed collection is never written
\* again, by no collector and no retry of one.
THEOREM SealedCollectionIsFinal ==
  CollectSpec => [][result.status # "none" => collection' = collection]_allVars
<1>1. CollectInit => WriterInv /\ EmptyInv
  BY DEF CollectInit, WriterInv, EmptyInv, result, NoResult
<1>2. CollectInv /\ WriterInv /\ EmptyInv /\ [CollectNext]_allVars =>
        [result.status # "none" => collection' = collection]_allVars
  <2> SUFFICES ASSUME CollectInv, WriterInv, EmptyInv, CollectNext,
                      result.status # "none"
               PROVE  collection' = collection
    BY DEF allVars
  <2> QED BY DEF WriterInv, EmptyInv, CollectNext, Collect, Open, ScanSuccess,
             ClassifyAgain, ListAgain, TakeSuccesses, TakeSelection, MakeDirectory,
             SealCollection, GiveUp, Revalidate, readers
<1> QED BY CollectInvariance, WriterStep, <1>1, <1>2, PTL DEF CollectSpec

-----------------------------------------------------------------------------
(* Composition                                                             *)

\* A step of the batch is a step of each part, or leaves it alone.
LEMMA StepsProject ==
  [OutcomeNext]_outcomeVars => [PlanNext]_planVars /\ [CollectNext]_allVars
BY DEF OutcomeNext, outcomeVars

\* The planners of a batch behave as plan_batch does on its own.
THEOREM ImplementsPlan == OutcomeSpec => PlanSpec
<1>1. OutcomeInit => PlanInit
  BY DEF OutcomeInit
<1> QED BY <1>1, StepsProject, PTL DEF OutcomeSpec, PlanSpec

\* The collectors of a batch behave as collect_batch does on its own.
THEOREM ImplementsCollect == OutcomeSpec => CollectSpec
<1>1. OutcomeInit => CollectInit
  BY DEF OutcomeInit
<1> QED BY <1>1, StepsProject, PTL DEF OutcomeSpec, CollectSpec

\* Plan, ledger, revalidation and collection keep their types together.
THEOREM OutcomeTypeCorrect == OutcomeSpec => []OutcomeTypeOK
<1>1. PlanInv /\ CollectInv => OutcomeTypeOK
  BY DEF PlanInv, CollectInv, OutcomeTypeOK
<1> QED BY <1>1, ImplementsPlan, ImplementsCollect, PlanInvariance, CollectInvariance, PTL

\* load_batch_plan precedes everything collect_batch does: a result exists only
\* for a sealed plan whose shards are those of the ledger.
ResultOfPlan ==
  result.status # "none" => folder.stage = "sealed" /\ DOMAIN folder.shards = Shards

\* ResultOfPlan holds at first, and no step of a planner or a collector ends it.
LEMMA ResultOfPlanStays ==
  /\ OutcomeInit => ResultOfPlan
  /\ PlanInv /\ ResultOfPlan /\ [OutcomeNext]_outcomeVars => ResultOfPlan'
<1>1. OutcomeInit => ResultOfPlan
  BY DEF OutcomeInit, CollectInit, ResultOfPlan, result, NoResult
<1>2. ASSUME PlanInv, ResultOfPlan, [OutcomeNext]_outcomeVars PROVE ResultOfPlan'
  <2>1. CASE PlanNext /\ UNCHANGED allVars
    <3>1. UNCHANGED result
      BY <2>1 DEF allVars, readers, result
    <3>2. folder.stage = "sealed" => folder' = folder
      BY <1>2, <2>1
      DEF PlanInv, PlanNext, Accept, MakeFolder, WritePlan, SealPlan, Abandon
    <3> QED BY <1>2, <3>1, <3>2 DEF ResultOfPlan
  <2>2. CASE Usable /\ CollectNext /\ UNCHANGED planVars
    BY <2>2 DEF Usable, Loads, planVars, ResultOfPlan
  <2>3. CASE UNCHANGED outcomeVars
    BY <1>2, <2>3 DEF outcomeVars, planVars, allVars, readers, result, ResultOfPlan
  <2> QED BY <1>2, <2>1, <2>2, <2>3 DEF OutcomeNext
<1> QED BY <1>1, <1>2

\* A partition whose every part is answered answers every record once.
LEMMA AnswersOnce ==
  ASSUME PlanInv, CollectInv, ResultOfPlan PROVE PassAnswersEveryRecord
<1> SUFFICES ASSUME result.status = "PASS", NEW profile \in Profiles,
                    NEW record \in folder.asked
             PROVE  Cardinality(Answers(profile, record)) = 1
  BY DEF PassAnswersEveryRecord
<1>1. DOMAIN folder.shards = Shards /\ PartitionOf(folder.shards, folder.asked, folder.size)
  BY DEF ResultOfPlan, PlanInv
<1>2. PICK i \in Shards : record \in folder.shards[i]
  BY <1>1 DEF PartitionOf
<1>3. \A s \in Shards : record \in folder.shards[s] => s = i
  BY <1>1, <1>2 DEF PartitionOf
<1>4. result.taken[<<profile, i>>] # NoTake
  BY DEF CollectInv, ResultInv, Keys
<1>5. Answers(profile, record) = {i}
  BY <1>2, <1>3, <1>4 DEF Answers
<1> QED BY <1>5, FS_Singleton

\* plan_batch and collect_batch, "fail closed on coverage", end to end: a sealed
\* PASS answers every record that was asked for exactly once per profile.
THEOREM PassAnswers == OutcomeSpec => []PassAnswersEveryRecord
<1>1. OutcomeSpec => []PlanInv /\ []CollectInv
  BY ImplementsPlan, ImplementsCollect, PlanInvariance, CollectInvariance, PTL
<1> QED BY <1>1, ResultOfPlanStays, AnswersOnce, PTL DEF OutcomeSpec
=============================================================================
