-------------------------- MODULE MCBatchExecution --------------------------
(***************************************************************************)
(* Instances of BatchExecution for TLC.                                    *)
(***************************************************************************)
EXTENDS BatchExecution, TLC

\* Parents are interchangeable; sound for the safety runs only.
ParentSymmetry == Permutations(Parents)

\* What later steps depend on: nothing reads the published ledgers, so states
\* that differ in them only have the same future.  Sound for the properties
\* that do not mention reported; TypeOK's conjunct on it is seen on one state
\* of each class, and for all of them it is part of TypeCorrect.
WithoutReports == <<lock, disk, child, local, owner>>
=============================================================================
