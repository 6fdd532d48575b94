--------------------------- MODULE MCBatchMonitor ---------------------------
(***************************************************************************)
(* Instances of BatchMonitor for TLC.                                      *)
(***************************************************************************)
EXTENDS BatchMonitor
=============================================================================
