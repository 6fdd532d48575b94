SPECIFICATION Spec
CONSTANTS
  Procs = {p1, p2}
  NoProc = NoProc
  MaxEdits = 2
SYMMETRY ProcSymmetry
INVARIANTS
  HookTypeOK
  UserHooksKept
  TornIsRecoverable
PROPERTIES
  OverwrittenIsSaved
