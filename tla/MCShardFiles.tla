----------------------------- MODULE MCShardFiles -----------------------------
(***************************************************************************)
(* Instances of ShardFiles for TLC.                                        *)
(***************************************************************************)
EXTENDS ShardFiles

\* One required data file, without or with the two runtime artifacts, of which
\* one alone is accepted by nobody.
TheLayouts == {1, 3}
=============================================================================
