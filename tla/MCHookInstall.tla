--------------------------- MODULE MCHookInstall ----------------------------
(***************************************************************************)
(* The instance of HookInstall for TLC.                                    *)
(***************************************************************************)
EXTENDS HookInstall, TLC

\* Processes are interchangeable; the run checks safety only.
ProcSymmetry == Permutations(Procs)
=============================================================================
