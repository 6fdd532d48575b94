------------------------- MODULE HookInstallProofs --------------------------
(***************************************************************************)
(* Proofs about HookInstall, for any processes and any number of edits.    *)
(***************************************************************************)
EXTENDS HookInstall, TLAPS

AtLock   == {"read", "recheck", "copy", "receipt", "check", "open", "write",
             "truncate", "unlink"}

\* Whoever is past the lock holds it, and only it has a file open.
HolderInv ==
  /\ \A p \in Procs : pc[p] \in AtLock => lock = p
  /\ linked => \E p \in Procs : pc[p] \in {"write", "truncate"}

\* A receipt's two contents have the same hooks of the user, and the previous
\* one is on disk unless there was none.
ReceiptInv ==
  \A r \in receipts :
    /\ r.installed.user = r.prev.user
    /\ r.prev = Absent \/ r.prev \in copies

\* So have the two contents of a command, from the moment it has both, and
\* what it is about to overwrite has been saved.
JobInv ==
  \A p \in Procs :
    /\ old[p].user = new[p].user
    /\ \/ pc[p] = "lock" /\ job[p] = "migrate"
       \/ pc[p] = "copy" /\ job[p] # "rollback"
       \/ pc[p] \in {"recheck", "receipt", "check"}
       => new[p].kind = "doc"
    /\ pc[p] \in {"receipt", "check", "open", "write", "truncate", "unlink"} =>
         old[p] = Absent \/ old[p] \in copies
    /\ pc[p] \in {"open", "write", "truncate"} => new[p] # Absent
    /\ pc[p] = "unlink" => job[p] = "rollback" /\ new[p] = Absent

\* Until an edit falls into the window, the file a command has open is what it
\* compared, then what it wrote.
WindowInv ==
  ~late =>
    \A p \in Procs :
      /\ pc[p] = "write" /\ linked =>
           file = IF old[p] = Absent THEN Empty ELSE old[p]
      /\ pc[p] = "truncate" /\ linked => file \in {new[p], Torn, Part}
      /\ pc[p] \in {"copy", "unlink"} /\ job[p] = "rollback" /\ new[p] = Absent =>
           file = old[p]
      /\ pc[p] = "truncate" /\ linked => new[p].user = mine

IInv ==
  /\ HookTypeOK
  /\ HolderInv
  /\ ReceiptInv
  /\ JobInv
  /\ WindowInv
  /\ UserHooksKept
  /\ TornIsRecoverable

-----------------------------------------------------------------------------
(* Contents                                                                *)

\* What tells the contents apart.
LEMMA Kinds ==
  /\ \A f \in Docs : f.kind = "doc" /\ f.user \in Versions
  /\ \A f \in Whole \cup {Torn, Part} : f.user \in Versions
  /\ \A f \in Whole \cup {Torn, Part} : f.kind = "doc" => f \in Docs
  /\ \A f \in Whole \cup {Torn, Part} : f.kind \notin {"torn", "part"} => f \in Whole
  /\ Absent.kind = "absent" /\ Absent.user = 0
  /\ Empty.kind = "empty" /\ Empty.user = 0
  /\ Torn.kind = "torn" /\ Torn.user = 0 /\ Torn.dca = "none"
  /\ Part.kind = "part" /\ Part.user = 0 /\ Part.dca = "none"
  /\ \A f \in Whole : f # Torn /\ f # Part
  /\ Absent # Empty /\ Absent # Torn /\ Empty # Torn /\ Part # Torn
  /\ Docs \subseteq Whole /\ Absent \in Whole /\ Empty \in Whole
BY HookAssumption DEF Docs, Doc, Absent, Empty, Torn, Part, NoHooks, Whole, Versions

\* What the merge leaves is a document with the same hooks of the user.
LEMMA MergeKeepsUser ==
  ASSUME NEW f \in Whole
  PROVE  Registered(f) \in Docs /\ Registered(f).user = f.user
<1>1. f.user \in Versions
  BY Kinds
<1> QED BY <1>1 DEF Registered, Docs, Doc

\* Only a migration's document has an old registration.
LEMMA OldIsDoc == ASSUME NEW f \in Whole \cup {Torn, Part}, f.dca = "old" PROVE f \in Docs
BY DEF Whole, Torn, Part, Absent, Empty, NoHooks

-----------------------------------------------------------------------------
(* Types                                                                   *)

\* Every variable keeps its type; a receipt is written by an install or a
\* migration, whose new content is a document.
LEMMA TypeInvariant == IInv /\ [Next]_vars => HookTypeOK'
<1> SUFFICES ASSUME IInv, [Next]_vars PROVE HookTypeOK'
  OBVIOUS
<1> USE DEF HookTypeOK, IInv
<1>0. Absent \in Whole /\ Empty \in Whole /\ Docs \subseteq Whole
  BY Kinds
<1>1. ASSUME NEW p \in Procs, Start(p) PROVE HookTypeOK'
  <2>1. CASE StartInstall(p)
    BY <2>1 DEF StartInstall, Goto, user
  <2>2. CASE StartMigrate(p)
    <3>1. file \in Docs /\ file \in Whole /\ Registered(file) \in Whole
      BY <2>2, <1>0, OldIsDoc, MergeKeepsUser DEF StartMigrate
    <3> QED BY <2>2, <3>1 DEF StartMigrate, Goto, user
  <2>3. ASSUME NEW r \in receipts, StartRollback(p, r) PROVE HookTypeOK'
    BY <2>3, <1>0 DEF StartRollback, Goto, user
  <2> QED BY <1>1, <2>1, <2>2, <2>3 DEF Start
<1>2. ASSUME NEW p \in Procs, Acquire(p) PROVE HookTypeOK'
  BY <1>2 DEF Acquire, Goto, user
<1>3. ASSUME NEW p \in Procs, ReadInstall(p) PROVE HookTypeOK'
  <2>1. file \in Whole /\ Registered(file) \in Whole
    BY <1>3, <1>0, Kinds, MergeKeepsUser DEF ReadInstall
  <2> QED BY <1>3, <2>1 DEF ReadInstall, Goto, user
<1>4. ASSUME NEW p \in Procs, RecheckMigrate(p) \/ ReadRollback(p) \/ CheckInstall(p)
      PROVE  HookTypeOK'
  BY <1>4 DEF RecheckMigrate, ReadRollback, CheckInstall, Goto, user
<1>5. ASSUME NEW p \in Procs, Save(p) PROVE HookTypeOK'
  BY <1>5 DEF Save, Goto, user
<1>6. ASSUME NEW p \in Procs, WriteReceipt(p) PROVE HookTypeOK'
  <2>1. new[p] \in Docs
    BY <1>6, Kinds DEF WriteReceipt, JobInv
  <2> QED BY <1>6, <2>1 DEF WriteReceipt, Goto, user
<1>7. ASSUME NEW p \in Procs, Open(p) \/ Write(p) PROVE HookTypeOK'
  BY <1>7, <1>0 DEF Open, Write, Goto, user
<1>8. ASSUME NEW p \in Procs, Truncate(p) \/ Unlink(p) \/ Stop(p) PROVE HookTypeOK'
  <2>1. /\ lock' \in Procs \cup {NoProc}
        /\ linked' \in BOOLEAN
        /\ pc' \in [Procs -> {"idle", "lock", "read", "recheck", "copy", "receipt",
                             "check", "open", "write", "truncate", "unlink"}]
        /\ job' \in [Procs -> {"install", "migrate", "rollback"}]
        /\ old' \in [Procs -> Whole]
        /\ new' \in [Procs -> Whole]
    BY <1>8, <1>0 DEF Truncate, Unlink, Stop, End
  <2>2. file' \in Whole \cup {Torn, Part}
    BY <1>8, <1>0 DEF Truncate, Unlink, Stop
  <2>3. UNCHANGED <<copies, receipts, user>>
    BY <1>8 DEF Truncate, Unlink, Stop
  <2> QED BY <2>1, <2>2, <2>3 DEF user
<1>9. ASSUME NEW f \in Whole, NEW inPlace \in BOOLEAN, Edit(f, inPlace)
      PROVE  HookTypeOK'
  BY <1>9, Kinds, HookAssumption DEF Edit, Unguarded, command
<1>10. CASE UNCHANGED vars
  BY <1>10 DEF vars, command, user
<1> QED
  BY <1>1, <1>2, <1>3, <1>4, <1>5, <1>6, <1>7, <1>8, <1>9, <1>10 DEF Next, Work

-----------------------------------------------------------------------------
(* The invariant                                                           *)

\* Whoever is past the lock keeps it.
LEMMA HolderStep == IInv /\ [Next]_vars => HolderInv'
<1> SUFFICES ASSUME IInv, [Next]_vars PROVE HolderInv'
  OBVIOUS
<1> USE DEF HookTypeOK, IInv, HolderInv, AtLock
<1>1. ASSUME NEW p \in Procs, Start(p) PROVE HolderInv'
  BY <1>1 DEF Start, StartInstall, StartMigrate, StartRollback, Goto
<1>2. ASSUME NEW p \in Procs, Acquire(p) PROVE HolderInv'
  BY <1>2, HookAssumption DEF Acquire, Goto
<1>3. ASSUME NEW p \in Procs,
             ReadInstall(p) \/ RecheckMigrate(p) \/ ReadRollback(p) \/ Save(p)
               \/ WriteReceipt(p) \/ CheckInstall(p)
      PROVE  HolderInv'
  BY <1>3 DEF ReadInstall, RecheckMigrate, ReadRollback, Save, WriteReceipt,
              CheckInstall, Goto
<1>4. ASSUME NEW p \in Procs, Open(p) \/ Write(p) PROVE HolderInv'
  BY <1>4 DEF Open, Write, Goto
<1>5. ASSUME NEW p \in Procs, Truncate(p) \/ Unlink(p) \/ Stop(p) PROVE HolderInv'
  <2>1. End(p)
    BY <1>5 DEF Truncate, Unlink, Stop
  <2> QED BY <2>1, HookAssumption DEF End
<1>6. ASSUME NEW f \in Whole, NEW inPlace \in BOOLEAN, Edit(f, inPlace)
      PROVE  HolderInv'
  BY <1>6 DEF Edit, command
<1>7. CASE UNCHANGED vars
  BY <1>7 DEF vars, command
<1> QED BY <1>1, <1>2, <1>3, <1>4, <1>5, <1>6, <1>7 DEF Next, Work

\* A receipt follows the copy of what it names as the previous content.
LEMMA ReceiptStep == IInv /\ [Next]_vars => ReceiptInv'
<1> SUFFICES ASSUME IInv, [Next]_vars PROVE ReceiptInv'
  OBVIOUS
<1> USE DEF IInv, ReceiptInv
<1>1. ASSUME NEW p \in Procs, WriteReceipt(p) PROVE ReceiptInv'
  BY <1>1 DEF WriteReceipt, JobInv
<1>2. ASSUME receipts' = receipts, copies \subseteq copies' PROVE ReceiptInv'
  BY <1>2
<1>3. ASSUME NEW p \in Procs, Save(p) PROVE receipts' = receipts /\ copies \subseteq copies'
  BY <1>3 DEF Save
<1>4. ASSUME NEW p \in Procs,
             Start(p) \/ Acquire(p) \/ ReadInstall(p) \/ RecheckMigrate(p)
               \/ ReadRollback(p) \/ CheckInstall(p) \/ Open(p) \/ Write(p)
               \/ Truncate(p) \/ Unlink(p) \/ Stop(p)
      PROVE  UNCHANGED <<receipts, copies>>
  BY <1>4 DEF Start, StartInstall, StartMigrate, StartRollback, Acquire, ReadInstall,
              RecheckMigrate, ReadRollback, CheckInstall, Open, Write, Truncate,
              Unlink, Stop
<1>5. ASSUME NEW f \in Whole, NEW inPlace \in BOOLEAN, Edit(f, inPlace)
      PROVE  UNCHANGED <<receipts, copies>>
  BY <1>5 DEF Edit
<1>6. ASSUME UNCHANGED vars PROVE UNCHANGED <<receipts, copies>>
  BY <1>6 DEF vars
<1> QED BY <1>1, <1>2, <1>3, <1>4, <1>5, <1>6 DEF Next, Work

\* The two contents of a command agree on the user's hooks, and the first is
\* saved before the second is written.
LEMMA JobStep == IInv /\ [Next]_vars => JobInv'
<1> SUFFICES ASSUME IInv, [Next]_vars PROVE JobInv'
  OBVIOUS
<1> USE DEF HookTypeOK, IInv, JobInv
<1>1. ASSUME NEW p \in Procs, Start(p) PROVE JobInv'
  <2>1. CASE StartInstall(p)
    BY <2>1 DEF StartInstall, Goto
  <2>2. CASE StartMigrate(p)
    <3>1. /\ file \in Whole
          /\ Registered(file).user = file.user
          /\ Registered(file).kind = "doc"
      BY <2>2, Kinds, OldIsDoc, MergeKeepsUser DEF StartMigrate
    <3> QED BY <2>2, <3>1 DEF StartMigrate, Goto
  <2>3. ASSUME NEW r \in receipts, StartRollback(p, r) PROVE JobInv'
    BY <2>3 DEF StartRollback, Goto, ReceiptInv
  <2> QED BY <1>1, <2>1, <2>2, <2>3 DEF Start
<1>2. ASSUME NEW p \in Procs, Acquire(p) PROVE JobInv'
  BY <1>2 DEF Acquire, Goto
<1>3. ASSUME NEW p \in Procs, ReadInstall(p) PROVE JobInv'
  <2>1. /\ file \in Whole
        /\ Registered(file).user = file.user
        /\ Registered(file).kind = "doc"
    BY <1>3, Kinds, MergeKeepsUser DEF ReadInstall
  <2> QED BY <1>3, <2>1 DEF ReadInstall, Goto
<1>4. ASSUME NEW p \in Procs, RecheckMigrate(p) \/ ReadRollback(p) \/ CheckInstall(p)
      PROVE  JobInv'
  BY <1>4, Kinds DEF RecheckMigrate, ReadRollback, CheckInstall, Goto
<1>5. ASSUME NEW p \in Procs, Save(p) PROVE JobInv'
  BY <1>5, Kinds DEF Save, Goto
<1>6. ASSUME NEW p \in Procs, WriteReceipt(p) PROVE JobInv'
  BY <1>6, Kinds DEF WriteReceipt, Goto
<1>7. ASSUME NEW p \in Procs, Open(p) \/ Write(p) PROVE JobInv'
  BY <1>7 DEF Open, Write, Goto
<1>8. ASSUME NEW p \in Procs, Truncate(p) \/ Unlink(p) \/ Stop(p) PROVE JobInv'
  <2>1. End(p) /\ copies' = copies
    BY <1>8 DEF Truncate, Unlink, Stop
  <2> QED BY <2>1 DEF End
<1>9. ASSUME NEW f \in Whole, NEW inPlace \in BOOLEAN, Edit(f, inPlace)
      PROVE  JobInv'
  BY <1>9 DEF Edit, command
<1>10. CASE UNCHANGED vars
  BY <1>10 DEF vars, command
<1> QED
  BY <1>1, <1>2, <1>3, <1>4, <1>5, <1>6, <1>7, <1>8, <1>9, <1>10 DEF Next, Work

\* Outside a window an edit makes late false, in it true.
LEMMA WindowStep == IInv /\ [Next]_vars => WindowInv'
<1> SUFFICES ASSUME IInv, [Next]_vars PROVE WindowInv'
  OBVIOUS
<1> USE DEF HookTypeOK, IInv, WindowInv
<1>1. ASSUME NEW p \in Procs, Start(p) \/ Acquire(p) PROVE WindowInv'
  BY <1>1 DEF Start, StartInstall, StartMigrate, StartRollback, Acquire, Goto, user
<1>2. ASSUME NEW p \in Procs, ReadInstall(p) \/ RecheckMigrate(p) PROVE WindowInv'
  BY <1>2 DEF ReadInstall, RecheckMigrate, Goto, user, JobInv
<1>3. ASSUME NEW p \in Procs, ReadRollback(p) PROVE WindowInv'
  BY <1>3 DEF ReadRollback, Goto, user
<1>4. ASSUME NEW p \in Procs, Save(p) \/ WriteReceipt(p) \/ CheckInstall(p)
      PROVE  WindowInv'
  BY <1>4 DEF Save, WriteReceipt, CheckInstall, Goto, user
<1>5. ASSUME NEW p \in Procs, Open(p) PROVE WindowInv'
  <2>1. \A q \in Procs : q # p => pc[q] \notin AtLock
    BY <1>5 DEF Open, HolderInv, AtLock
  <2> QED BY <1>5, <2>1 DEF Open, Goto, user, AtLock
<1>6. ASSUME NEW p \in Procs, Write(p) PROVE WindowInv'
  <2>1. \A q \in Procs : q # p => pc[q] \notin AtLock
    BY <1>6 DEF Write, HolderInv, AtLock
  <2>2. ~late /\ linked => new[p].user = mine
    BY <1>6, Kinds DEF Write, JobInv, UserHooksKept
  <2> QED BY <1>6, <2>1, <2>2 DEF Write, Goto, user, AtLock
<1>7. ASSUME NEW p \in Procs, Truncate(p) \/ Unlink(p) \/ Stop(p) PROVE WindowInv'
  <2>1. End(p) /\ UNCHANGED user
    BY <1>7 DEF Truncate, Unlink, Stop
  <2>2. file' # file => pc[p] \in AtLock
    BY <1>7 DEF Truncate, Unlink, Stop, AtLock
  <2>3. file' # file => \A q \in Procs : q # p => pc[q] \notin AtLock
    BY <2>2 DEF HolderInv
  <2> QED BY <2>1, <2>3 DEF End, AtLock, user
<1>8. ASSUME NEW f \in Whole, NEW inPlace \in BOOLEAN, Edit(f, inPlace)
      PROVE  WindowInv'
  BY <1>8 DEF Edit, Unguarded, command
<1>9. CASE UNCHANGED vars
  BY <1>9 DEF vars, command, user
<1> QED BY <1>1, <1>2, <1>3, <1>4, <1>5, <1>6, <1>7, <1>8, <1>9 DEF Next, Work

\* A step that touches the file leaves the user's hooks, or a torn file whose
\* old content is saved.
LEMMA KeptStep == IInv /\ [Next]_vars => UserHooksKept' /\ TornIsRecoverable'
<1> DEFINE Kept == UserHooksKept /\ TornIsRecoverable
<1> SUFFICES ASSUME IInv, [Next]_vars PROVE Kept'
  OBVIOUS
<1> USE DEF HookTypeOK, IInv, UserHooksKept, TornIsRecoverable
<1>1. ASSUME UNCHANGED <<file, user>>, copies \subseteq copies' PROVE Kept'
  BY <1>1 DEF user
<1>2. ASSUME NEW p \in Procs,
             Start(p) \/ Acquire(p) \/ ReadInstall(p) \/ RecheckMigrate(p)
               \/ ReadRollback(p) \/ Save(p) \/ WriteReceipt(p) \/ CheckInstall(p)
               \/ Stop(p)
      PROVE  UNCHANGED <<file, user>> /\ copies \subseteq copies'
  BY <1>2 DEF Start, StartInstall, StartMigrate, StartRollback, Acquire, ReadInstall,
              RecheckMigrate, ReadRollback, Save, WriteReceipt, CheckInstall, Stop
<1>3. ASSUME NEW p \in Procs, Open(p) PROVE Kept'
  BY <1>3, Kinds DEF Open, user
<1>4. ASSUME NEW p \in Procs, Write(p) PROVE Kept'
  <2>1. CASE late
    BY <1>4, <2>1 DEF Write, user
  <2>2. CASE ~linked
    BY <1>4, <2>2 DEF Write, user
  <2>3. CASE linked /\ ~late
    <3>1. file = IF old[p] = Absent THEN Empty ELSE old[p]
      BY <1>4, <2>3 DEF Write, WindowInv
    <3>2. file.user = mine /\ new[p].user = mine /\ new[p] # Torn
      BY <2>3, <3>1, Kinds DEF JobInv
    <3>3. \/ file' = new[p]
          \/ file' = Part /\ file = Empty
          \/ file' = Torn /\ file \in copies
      BY <1>4, <2>3, <3>1 DEF Write, JobInv
    <3> QED BY <1>4, <3>2, <3>3, Kinds DEF Write, user
  <2> QED BY <2>1, <2>2, <2>3
<1>5. ASSUME NEW p \in Procs, Truncate(p) PROVE Kept'
  <2>1. linked /\ ~late => file \in {new[p], Torn, Part} /\ new[p].user = mine
    BY <1>5 DEF Truncate, WindowInv
  <2>2. new[p] # Torn
    BY Kinds
  <2> QED BY <1>5, <2>1, <2>2 DEF Truncate, user
<1>6. ASSUME NEW p \in Procs, Unlink(p) PROVE Kept'
  <2>1. ~late => mine = 0
    <3>1. old[p].user = 0
      BY <1>6, Kinds DEF Unlink, JobInv
    <3>2. ~late => file = old[p]
      BY <1>6 DEF Unlink, WindowInv, JobInv
    <3> QED BY <3>1, <3>2, Kinds
  <2> QED BY <1>6, <2>1, Kinds DEF Unlink, user
<1>7. ASSUME NEW f \in Whole, NEW inPlace \in BOOLEAN, Edit(f, inPlace) PROVE Kept'
  BY <1>7, Kinds DEF Edit
<1>8. CASE UNCHANGED vars
  BY <1>1, <1>8 DEF vars
<1> QED BY <1>1, <1>2, <1>3, <1>4, <1>5, <1>6, <1>7, <1>8 DEF Next, Work

-----------------------------------------------------------------------------
(* What the commands promise                                               *)

\* No command runs, nothing is saved, and the user has no hooks yet.
LEMMA InitInvariant == Init => IInv
<1> SUFFICES ASSUME Init PROVE IInv
  OBVIOUS
<1> USE DEF Init
<1>1. 0 \in Versions /\ file \in Docs \cup {Absent}
  BY HookAssumption DEF Docs, Doc, Versions
<1>2. HookTypeOK
  BY <1>1, Kinds DEF HookTypeOK, Versions
<1>3. file.user = 0 /\ file # Torn
  BY <1>1, Kinds DEF Doc
<1>4. HolderInv /\ ReceiptInv /\ JobInv /\ WindowInv
  BY DEF HolderInv, AtLock, ReceiptInv, JobInv, WindowInv
<1> QED BY <1>2, <1>3, <1>4 DEF IInv, UserHooksKept, TornIsRecoverable

\* Every state any commands, deaths and edits can reach satisfies IInv.
THEOREM Invariance == Spec => []IInv
<1>1. IInv /\ [Next]_vars => IInv'
  BY TypeInvariant, HolderStep, ReceiptStep, JobStep, WindowStep, KeptStep DEF IInv
<1> QED BY InitInvariant, <1>1, PTL DEF Spec

\* The lock, the files and every command keep their types: in particular the
\* path of hooks.json always holds a whole document or a torn one.
THEOREM TypeCorrect == Spec => []HookTypeOK
<1>1. IInv => HookTypeOK
  BY DEF IInv
<1> QED BY Invariance, <1>1, PTL

\* install_hooks, migrate_hooks and rollback_hooks, in any number, with any
\* receipts and dying anywhere, keep the user's hooks.
THEOREM HooksKept == Spec => []UserHooksKept
<1>1. IInv => UserHooksKept
  BY DEF IInv
<1> QED BY Invariance, <1>1, PTL

\* A crash of _replace between its write and its truncate loses nothing.
THEOREM TornRecoverable == Spec => []TornIsRecoverable
<1>1. IInv => TornIsRecoverable
  BY DEF IInv
<1> QED BY Invariance, <1>1, PTL

\* Whatever _replace or the unlink of a rollback takes away has been saved.
THEOREM OverwrittenSaved == Spec => OverwrittenIsSaved
<1> DEFINE Saved == edits' = edits /\ file' # file /\ file.kind = "doc" /\ ~late
                      => file \in copies
<1>1. ASSUME IInv, [Next]_vars PROVE [Saved]_vars
  <2> SUFFICES ASSUME Next, edits' = edits, file' # file, file.kind = "doc", ~late
               PROVE  file \in copies
    BY <1>1 DEF vars
  <2> USE <1>1 DEF IInv
  <2>1. ASSUME NEW p \in Procs, Open(p) PROVE FALSE
    BY <2>1, Kinds DEF Open
  <2>2. ASSUME NEW p \in Procs, Write(p) PROVE file \in copies
    <3>1. file = IF old[p] = Absent THEN Empty ELSE old[p]
      BY <2>2 DEF Write, WindowInv
    <3> QED BY <2>2, <3>1, Kinds DEF Write, JobInv
  <2>3. ASSUME NEW p \in Procs, Truncate(p) PROVE FALSE
    BY <2>3, Kinds DEF Truncate, WindowInv
  <2>4. ASSUME NEW p \in Procs, Unlink(p) PROVE file \in copies
    BY <2>4, Kinds DEF Unlink, WindowInv, JobInv
  <2>5. ASSUME NEW f \in Whole, NEW inPlace \in BOOLEAN, Edit(f, inPlace) PROVE FALSE
    BY <2>5, HookAssumption DEF Edit, HookTypeOK
  <2>6. ASSUME NEW p \in Procs,
               Start(p) \/ Acquire(p) \/ ReadInstall(p) \/ RecheckMigrate(p)
                 \/ ReadRollback(p) \/ Save(p) \/ WriteReceipt(p) \/ CheckInstall(p)
                 \/ Stop(p)
        PROVE  FALSE
    BY <2>6 DEF Start, StartInstall, StartMigrate, StartRollback, Acquire,
                ReadInstall, RecheckMigrate, ReadRollback, Save, WriteReceipt,
                CheckInstall, Stop
  <2> QED BY <2>1, <2>2, <2>3, <2>4, <2>5, <2>6 DEF Next, Work
<1> QED BY Invariance, <1>1, PTL DEF Spec, OverwrittenIsSaved
=============================================================================
