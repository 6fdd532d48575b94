---------------------------- MODULE MCNotifyLedger ----------------------------
(***************************************************************************)
(* Instances of NotifyLedger for TLC: a batch terminal and the completion  *)
(* of the turn it belongs to.                                              *)
(***************************************************************************)
EXTENDS NotifyLedger

CONSTANTS batch, turn

TheEvents == {batch, turn}
TheRun    == {<<turn, batch>>}
=============================================================================
