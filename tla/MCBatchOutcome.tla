--------------------------- MODULE MCBatchOutcome ---------------------------
(***************************************************************************)
(* The instance of BatchOutcome for TLC: two planners, up to three records *)
(* in shards of one to three, one digit of radix 3 for a shard number, so  *)
(* that the third shard is one too many, and a third record whose row may  *)
(* read back under another id; then one profile, two shards, one retry     *)
(* plan, a collector, and an attempt whose answer leaves records out.      *)
(***************************************************************************)
EXTENDS BatchOutcome

OneInexact == {<<<<1, 2>>, 0>>}
=============================================================================
