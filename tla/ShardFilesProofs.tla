-------------------------- MODULE ShardFilesProofs --------------------------
(***************************************************************************)
(* Proofs about ShardFiles, for any writers, readers and file layouts:     *)
(* the manifest covers whole files, and reading the files without a lock   *)
(* is as good as reading the attempt's status in one step.                 *)
(***************************************************************************)
EXTENDS ShardFiles, TLAPS

\* The data files are whole, as many as the owner was to write, and the
\* manifest's rows describe them.
DataWhole ==
  \A f \in Files \ {Manifest} :
    rows[f] = file[f] /\ file[f] = IF f <= total THEN "full" ELSE "absent"

\* The directory has one owner; before it is made there is nothing, and only its
\* owner writes.  What is partial while it writes is open; once the rows of the
\* manifest are computed no data file is, and none changes any more.
OwnerInv ==
  /\ owner = NoWriter => file = Unread /\ rows = Unread /\ open = {}
  /\ owner # NoWriter => total \in Layouts /\ wpc[owner] # "ready"
  /\ \A w \in Writers : wpc[w] = "writing" =>
       owner = w /\ \A f \in Files : file[f] = "part" => f \in open
  /\ \A f \in Files \ {Manifest} : file[f] # "absent" => f <= total
  /\ rows # Unread => DataWhole /\ open \subseteq {Manifest}
  /\ file[Manifest] # "absent" => rows # Unread

\* What a reader holds: the present status is one it has had before it; once it
\* has listed the files they are the whole ones, and what it holds of the
\* manifest tells which statuses there have been.
ReaderInv ==
  \A r \in Readers :
    /\ rpc[r] = "idle" <=> answer[r] # NoAnswer
    /\ rpc[r] # "idle" => Status \in held[r]
    /\ rpc[r] = "read" =>
         /\ owner # NoWriter /\ rows # Unread
         /\ names[r] = {Manifest} \cup 1..total
    /\ rpc[r] # "read" => got[r] = Unread
    /\ got[r][Manifest] = "part" => 1 \in held[r]
    /\ got[r][Manifest] = "full" => 2 \in held[r]
    /\ \A f \in Files \ {Manifest} : got[r][f] \in {"absent", file[f]}
    /\ \A f \in Files \ names[r] : got[r][f] = "absent"

ShardInv == TypeOK /\ OwnerInv /\ ReaderInv

-----------------------------------------------------------------------------
(* The directory                                                           *)

\* The data files of an accepted layout have names.
LEMMA DataFiles ==
  /\ Manifest \in Files
  /\ \A n \in Layouts : n \in Nat /\ n >= 1 /\ 1..n \subseteq Files \ {Manifest}
  /\ \A f \in Files \ {Manifest} : f \in Nat /\ f >= 1
BY ShardAssumption DEF Files, Manifest

\* A status is one of three.
LEMMA StatusRange == Status \in 0..2
BY DEF Status

\* Under a manifest, whole or not, lie the data files of an accepted layout.
LEMMA ManifestIsLast ==
  ASSUME TypeOK, OwnerInv, file[Manifest] # "absent"
  PROVE  /\ owner # NoWriter /\ rows # Unread
         /\ Accepted(Present) /\ Present = {Manifest} \cup 1..total
<1>1. owner # NoWriter /\ rows # Unread /\ total \in Layouts /\ DataWhole
  BY DataFiles DEF OwnerInv, Unread
<1>2. total \in Nat /\ \A f \in 1..total : f \in Files \ {Manifest}
  BY <1>1, DataFiles
<1>3. Present \ {Manifest} = 1..total
  BY <1>1, <1>2, DataFiles DEF Present, DataWhole
<1>4. Manifest \in Present
  BY DataFiles DEF Present
<1> QED BY <1>1, <1>3, <1>4 DEF Accepted

\* What a step of a writer may do to the files: nothing to the data files once
\* the manifest's rows are computed.
Keeps ==
  /\ owner # NoWriter => owner' = owner /\ total' = total
  /\ rows # Unread => rows' # Unread
  /\ rows # Unread => \A f \in Files \ {Manifest} : file'[f] = file[f]

\* Every variable keeps its type.
LEMMA TypeStep == TypeOK /\ [Next]_vars => TypeOK'
<1> SUFFICES ASSUME TypeOK, [Next]_vars PROVE TypeOK'
  OBVIOUS
<1> USE DEF TypeOK, Contents
<1>1. Unread \in [Files -> Contents]
  BY DEF Unread
<1>2. ASSUME NEW w \in Writers, Write(w), Observe PROVE TypeOK'
  <2>1. held' \in [Readers -> SUBSET (0..2)]
    <3>1. Status' \in 0..2
      BY DEF Status
    <3>2. \A r \in Readers : held[r] \in SUBSET (0..2)
      OBVIOUS
    <3> HIDE DEF TypeOK
    <3> QED BY <1>2, <3>1, <3>2 DEF Observe
  <2>2. CASE MakeDirectory(w)
    BY <2>1, <2>2 DEF MakeDirectory, reading
  <2>3. CASE \E f \in Files : CreateFile(w, f)
    BY <2>1, <2>3 DEF CreateFile, reading
  <2>4. CASE \E f \in Files : FillFile(w, f)
    BY <2>1, <2>4 DEF FillFile, reading
  <2>5. CASE \E f \in Files : SyncFile(w, f)
    BY <2>1, <2>5 DEF SyncFile, reading
  <2>6. CASE \E f \in Files : WriteFails(w, f)
    BY <2>1, <2>6 DEF WriteFails, reading
  <2>7. CASE Seal(w) \/ WriterStops(w)
    BY <2>1, <2>7 DEF Seal, WriterStops, reading
  <2> QED BY <1>2, <2>2, <2>3, <2>4, <2>5, <2>6, <2>7 DEF Write
<1>3. ASSUME NEW r \in Readers, Begin(r) \/ Read(r) PROVE TypeOK'
  <2>1. CASE Begin(r)
    BY <2>1, StatusRange DEF Begin, writing, NoAnswer
  <2>2. ASSUME NEW s \in 0..2, Conclude(r, s) PROVE TypeOK'
    BY <2>2, <1>1 DEF Conclude, writing
  <2>3. CASE NoDirectory(r)
    BY <2>3, <2>2 DEF NoDirectory
  <2>4. CASE List(r)
    <3>1. CASE Accepted(Present)
      <4>1. Present \subseteq Files
        BY DEF Present
      <4> QED BY <2>4, <3>1, <4>1 DEF List, writing
    <3>2. CASE ~Accepted(Present)
      BY <2>4, <3>2, <2>2 DEF List
    <3> QED BY <3>1, <3>2
  <2>5. ASSUME NEW f \in Files, ReadFile(r, f) PROVE TypeOK'
    <3>1. CASE file[f] = "absent"
      BY <2>5, <3>1, <2>2 DEF ReadFile
    <3>2. CASE file[f] # "absent"
      <4>1. got' = [got EXCEPT ![r][f] = file[f]] /\ file[f] \in Contents
        BY <2>5, <3>2 DEF ReadFile
      <4>2. got' \in [Readers -> [Files -> Contents]]
        BY <4>1
      <4> QED BY <2>5, <3>2, <4>2 DEF ReadFile, writing
    <3> QED BY <3>1, <3>2
  <2>6. CASE Verify(r)
    BY <2>6, <2>2 DEF Verify
  <2> QED BY <1>3, <2>1, <2>3, <2>4, <2>5, <2>6 DEF Read
<1>4. CASE UNCHANGED vars
  BY <1>4 DEF vars, writing, reading
<1> QED BY <1>2, <1>3, <1>4 DEF Next

\* A writer keeps the directory in order.
LEMMA WriterStep ==
  ASSUME TypeOK, OwnerInv, NEW w \in Writers, Write(w)
  PROVE  OwnerInv' /\ Keeps /\ UNCHANGED reading
<1> USE DEF TypeOK, Contents, OwnerInv, DataWhole, Keeps
<1>0. w # NoWriter /\ Unread[Manifest] = "absent"
  BY ShardAssumption, DataFiles DEF Unread
<1>1. CASE MakeDirectory(w)
  <2>1. CASE owner = NoWriter
    <3>1. /\ owner' = w /\ total' \in Layouts /\ file' = Unread /\ rows' = Unread
          /\ open' = {} /\ wpc'[w] = "writing" /\ UNCHANGED reading
      BY <1>1, <2>1 DEF MakeDirectory
    <3>2. \A f \in Files : file'[f] = "absent"
      BY <3>1 DEF Unread
    <3>3. \A v \in Writers : wpc'[v] = "writing" => v = w
      BY <1>1, <2>1, <1>0, ShardAssumption DEF MakeDirectory
    <3> QED BY <1>0, <2>1, <3>1, <3>2, <3>3, DataFiles
  <2>2. CASE owner # NoWriter
    BY <1>1, <2>2 DEF MakeDirectory
  <2> QED BY <2>1, <2>2
<1>2. ASSUME NEW f \in Files, CreateFile(w, f)
      PROVE  OwnerInv' /\ Keeps /\ UNCHANGED reading
  <2>1. /\ owner = w /\ total \in Layouts /\ file[f] = "absent" /\ f <= total
        /\ open = {} /\ open' = {f}
        /\ file' = [file EXCEPT ![f] = "part"]
        /\ UNCHANGED <<owner, total, wpc, reading>>
        /\ \A g \in Files : file[g] # "part"
    BY <1>0, <1>2 DEF CreateFile, Turn
  <2>2. CASE f = Manifest
    <3>1. \A g \in Files \ {Manifest} :
            file[g] = IF g <= total THEN "full" ELSE "absent"
      BY <1>2, <2>1, <2>2, DataFiles DEF CreateFile, Turn
    <3>2. rows' = file /\ file # Unread
      <4>1. 1 \in Files \ {Manifest} /\ 1 <= total
        BY <2>1, DataFiles
      <4> QED BY <1>2, <2>2, <3>1, <4>1 DEF CreateFile, Unread
    <3> QED BY <1>0, <2>1, <2>2, <3>1, <3>2, DataFiles
  <2>3. CASE f # Manifest
    <3>1. rows = Unread
      BY <2>1, <2>3
    <3>2. rows' = Unread
      BY <1>2, <2>3, <3>1 DEF CreateFile
    <3> QED BY <1>0, <2>1, <2>3, <3>1, <3>2, DataFiles
  <2> QED BY <2>2, <2>3
<1>3. ASSUME NEW f \in Files, FillFile(w, f)
      PROVE  OwnerInv' /\ Keeps /\ UNCHANGED reading
  <2>1. /\ owner = w /\ file[f] = "part" /\ f \in open
        /\ file' = [file EXCEPT ![f] = "full"]
        /\ UNCHANGED <<owner, total, rows, open, wpc, reading>>
    BY <1>0, <1>3 DEF FillFile
  <2>2. rows # Unread => f = Manifest
    BY <2>1
  <2> QED BY <1>0, <2>1, <2>2, DataFiles
<1>4. ASSUME NEW f \in Files, SyncFile(w, f)
      PROVE  OwnerInv' /\ Keeps /\ UNCHANGED reading
  BY <1>0, <1>4 DEF SyncFile
<1>5. ASSUME NEW f \in Files, WriteFails(w, f)
      PROVE  OwnerInv' /\ Keeps /\ UNCHANGED reading
  <2>1. /\ owner = w /\ f \in open /\ open' = {}
        /\ file' = [file EXCEPT ![f] = "absent"]
        /\ wpc' = [wpc EXCEPT ![w] = "failed"]
        /\ UNCHANGED <<owner, total, rows, reading>>
    BY <1>0, <1>5 DEF WriteFails
  <2>2. rows # Unread => f = Manifest
    BY <2>1
  <2>3. \A v \in Writers : wpc'[v] # "writing"
    BY <2>1
  <2> QED BY <1>0, <2>1, <2>2, <2>3, DataFiles
<1>6. CASE Seal(w) \/ WriterStops(w)
  BY <1>6 DEF Seal, WriterStops
<1> QED BY <1>1, <1>2, <1>3, <1>4, <1>5, <1>6 DEF Write

-----------------------------------------------------------------------------
(* The readers                                                             *)

\* What a reader holds survives a step of a writer.
LEMMA ReadersBesideWriter ==
  ASSUME ShardInv, NEW w \in Writers, Write(w), Observe, TypeOK'
  PROVE  ReaderInv'
<1> USE DEF ShardInv
<1>1. Keeps /\ UNCHANGED <<rpc, names, got, answer>>
  BY WriterStep DEF reading
<1>2. \A r \in Readers : /\ held[r] \subseteq held'[r]
                         /\ rpc[r] # "idle" => Status' \in held'[r]
  BY DEF Observe, TypeOK
<1>3. ASSUME NEW r \in Readers
      PROVE  \A f \in Files \ {Manifest} : got[r][f] \in {"absent", file'[f]}
  <2>1. CASE rpc[r] = "read"
    BY <1>1, <2>1 DEF ReaderInv, Keeps
  <2>2. CASE rpc[r] # "read"
    BY <2>2 DEF ReaderInv, Unread
  <2> QED BY <2>1, <2>2
<1> QED BY <1>1, <1>2, <1>3 DEF ReaderInv, Keeps

\* Whatever ends a look, the status concluded is one the attempt has had since
\* the reader began.
LEMMA AnswerHeld ==
  ASSUME ShardInv, NEW r \in Readers, NEW s \in 0..2,
         \/ NoDirectory(r) /\ s = 0
         \/ List(r) /\ s = 1 /\ ~Accepted(Present)
         \/ \E f \in Files : ReadFile(r, f) /\ s = 1 /\ file[f] = "absent"
         \/ Verify(r) /\ s = IF Verified(r) THEN 2 ELSE 1
  PROVE  rpc[r] # "idle" /\ s \in held[r]
<1> USE DEF ShardInv
<1>1. CASE NoDirectory(r) /\ s = 0
  BY <1>1 DEF NoDirectory, ReaderInv, Status
<1>2. CASE List(r) /\ s = 1 /\ ~Accepted(Present)
  <2>1. rpc[r] = "list" /\ owner # NoWriter /\ file[Manifest] = "absent"
    BY <1>2, ManifestIsLast DEF List
  <2> QED BY <1>2, <2>1 DEF ReaderInv, Status
<1>3. ASSUME NEW f \in Files, ReadFile(r, f), s = 1, file[f] = "absent"
      PROVE  rpc[r] # "idle" /\ s \in held[r]
  <2>1. /\ rpc[r] = "read" /\ owner # NoWriter /\ DataWhole
        /\ f \in {Manifest} \cup 1..total
    BY <1>3 DEF ReadFile, ReaderInv, OwnerInv
  <2>2. f = Manifest
    BY <1>3, <2>1, DataFiles DEF DataWhole, OwnerInv
  <2> QED BY <1>3, <2>1, <2>2 DEF ReaderInv, Status
<1>4. CASE Verify(r) /\ s = IF Verified(r) THEN 2 ELSE 1
  <2>1. /\ rpc[r] = "read" /\ DataWhole /\ total \in Layouts
        /\ names[r] = {Manifest} \cup 1..total
        /\ \A f \in names[r] : got[r][f] # "absent"
    BY <1>4 DEF Verify, ReaderInv, OwnerInv
  <2>2. got[r][Manifest] \in {"part", "full"}
    BY <2>1, DataFiles DEF TypeOK, Contents
  <2>3. \A f \in Files \ {Manifest} : got[r][f] = rows[f]
    BY <2>1, DataFiles DEF ReaderInv, DataWhole
  <2>4. Verified(r) <=> got[r][Manifest] = "full"
    BY <2>3 DEF Verified
  <2> QED BY <1>4, <2>1, <2>2, <2>4 DEF ReaderInv
<1> QED BY <1>1, <1>2, <1>3, <1>4

\* A reader that has concluded holds nothing.
LEMMA ConcludeKeeps ==
  ASSUME ShardInv, NEW r \in Readers, NEW s \in 0..2, Conclude(r, s)
  PROVE  ReaderInv'
<1> USE DEF ShardInv, TypeOK
<1>1. UNCHANGED <<owner, total, file, rows>> /\ Status' = Status
  BY DEF Conclude, writing, Status
<1>2. /\ rpc'[r] = "idle" /\ answer'[r] # NoAnswer /\ got'[r] = Unread
      /\ \A q \in Readers \ {r} : /\ rpc'[q] = rpc[q] /\ answer'[q] = answer[q]
                                   /\ got'[q] = got[q] /\ names'[q] = names[q]
                                   /\ held'[q] = held[q]
  BY DEF Conclude, NoAnswer
<1> QED BY <1>1, <1>2, DataFiles DEF ReaderInv, Unread

\* What a step of a reader does, as AttemptStatus sees it.
LEMMA ReaderStep ==
  ASSUME ShardInv, NEW r \in Readers, Begin(r) \/ Read(r)
  PROVE  /\ ReaderInv' /\ UNCHANGED writing
         /\ \/ Attempt!Begin(r)
            \/ Attempt!Conclude(r)
            \/ UNCHANGED <<held, answer>>
<1> USE DEF ShardInv, TypeOK
<1>0. UNCHANGED writing =>
        /\ Status' = Status /\ Final' = Final
        /\ UNCHANGED <<owner, total, file, rows>>
  BY DEF writing, Status, Final
<1>1. CASE Begin(r)
  <2>1. rpc[r] = "idle" /\ answer[r] # NoAnswer /\ got[r] = Unread
    BY <1>1 DEF Begin, ReaderInv
  <2>2. UNCHANGED writing /\ Attempt!Begin(r)
    BY <1>1, <1>0, <2>1 DEF Begin, Attempt!Begin, Attempt!NoAnswer, NoAnswer
  <2>3. ReaderInv'
    BY <1>0, <1>1, <2>1, DataFiles DEF Begin, ReaderInv, Unread
  <2> QED BY <2>2, <2>3
<1>2. ASSUME NEW s \in 0..2, Conclude(r, s), rpc[r] # "idle", s \in held[r]
      PROVE  ReaderInv' /\ UNCHANGED writing /\ Attempt!Conclude(r)
  <2>1. ReaderInv'
    BY <1>2, ConcludeKeeps
  <2>2. answer[r] = 3 /\ UNCHANGED writing
    BY <1>2 DEF ReaderInv, NoAnswer, Conclude
  <2>3. Attempt!Conclude(r)
    BY <1>0, <1>2, <2>2 DEF Conclude, Attempt!Conclude, Attempt!NoAnswer
  <2> QED BY <2>1, <2>2, <2>3
<1>3. CASE NoDirectory(r)
  <2>1. Conclude(r, 0)
    BY <1>3 DEF NoDirectory
  <2> QED BY <1>2, <1>3, <2>1, AnswerHeld
<1>4. CASE List(r) /\ Accepted(Present)
  <2>1. /\ rpc[r] = "list" /\ owner # NoWriter /\ got[r] = Unread
        /\ names' = [names EXCEPT ![r] = Present]
        /\ rpc' = [rpc EXCEPT ![r] = "read"]
        /\ UNCHANGED <<writing, got, held, answer>>
    BY <1>4 DEF List, ReaderInv
  <2>2. rows # Unread /\ Present = {Manifest} \cup 1..total
    BY <1>4, ManifestIsLast DEF Accepted, Present
  <2> QED BY <1>0, <2>1, <2>2, DataFiles DEF ReaderInv, Unread
<1>5. CASE List(r) /\ ~Accepted(Present)
  <2>1. Conclude(r, 1)
    BY <1>5 DEF List
  <2> QED BY <1>2, <1>5, <2>1, AnswerHeld
<1>6. ASSUME NEW f \in Files, ReadFile(r, f)
      PROVE  /\ ReaderInv' /\ UNCHANGED writing
             /\ Attempt!Conclude(r) \/ UNCHANGED <<held, answer>>
  <2>1. CASE file[f] = "absent"
    <3>1. Conclude(r, 1)
      BY <1>6, <2>1 DEF ReadFile
    <3> QED BY <1>2, <1>6, <2>1, <3>1, AnswerHeld
  <2>2. CASE file[f] # "absent"
    <3>1. /\ rpc[r] = "read" /\ f \in names[r]
          /\ got' = [got EXCEPT ![r][f] = file[f]]
          /\ UNCHANGED <<rpc, names, held, answer, writing>>
      BY <1>6, <2>2 DEF ReadFile
    <3>2. /\ got'[r] = [got[r] EXCEPT ![f] = file[f]]
          /\ \A q \in Readers \ {r} : got'[q] = got[q]
      BY <3>1
    <3>3. owner # NoWriter /\ Status \in held[r]
      BY <3>1 DEF ReaderInv
    <3>4. got'[r][Manifest] = "part" => 1 \in held[r]
      BY <3>2, <3>3, DataFiles DEF ReaderInv, Status
    <3>5. got'[r][Manifest] = "full" => 2 \in held[r]
      BY <3>2, <3>3, DataFiles DEF ReaderInv, Status
    <3> QED BY <1>0, <3>1, <3>2, <3>4, <3>5 DEF ReaderInv
  <2> QED BY <2>1, <2>2
<1>7. CASE Verify(r)
  <2> DEFINE s == IF Verified(r) THEN 2 ELSE 1
  <2>1. s \in 0..2
    OBVIOUS
  <2>2. Conclude(r, s)
    BY <1>7 DEF Verify
  <2> QED BY <1>2, <1>7, <2>1, <2>2, AnswerHeld
<1> QED BY <1>1, <1>3, <1>4, <1>5, <1>6, <1>7 DEF Read

-----------------------------------------------------------------------------
(* The theorems                                                            *)

\* Before the attempt there is no directory, and nobody looks.
LEMMA ShardInit == Init => ShardInv /\ Attempt!Init
BY ShardAssumption, DataFiles
DEF Init, ShardInv, TypeOK, OwnerInv, DataWhole, ReaderInv, Unread,
    Contents, Status, Final, NoAnswer, Attempt!Init

\* Every step keeps ShardInv.
LEMMA ShardStep == ShardInv /\ [Next]_vars => ShardInv'
<1> SUFFICES ASSUME ShardInv, [Next]_vars PROVE ShardInv'
  OBVIOUS
<1>1. TypeOK'
  BY TypeStep DEF ShardInv
<1>2. ASSUME NEW w \in Writers, Write(w), Observe PROVE ShardInv'
  BY <1>1, <1>2, WriterStep, ReadersBesideWriter DEF ShardInv
<1>3. ASSUME NEW r \in Readers, Begin(r) \/ Read(r) PROVE ShardInv'
  <2>1. ReaderInv' /\ UNCHANGED writing
    BY <1>3, ReaderStep
  <2> QED BY <1>1, <2>1 DEF ShardInv, OwnerInv, DataWhole, writing
<1>4. CASE UNCHANGED vars
  <2>1. UNCHANGED <<writing, reading, held>> /\ Status' = Status
    BY <1>4 DEF vars, writing, reading, Status
  <2> QED BY <1>1, <2>1
          DEF ShardInv, OwnerInv, DataWhole, ReaderInv, writing, reading
<1> QED BY <1>2, <1>3, <1>4 DEF Next

\* A status goes forward one step at a time while its writer is at work, and
\* what the writer ends with, or takes back as it ends, stands.
LEMMA WriterAdvances ==
  ASSUME ShardInv, NEW w \in Writers, Write(w)
  PROVE  \/ Status' = Status /\ Final' = Final
         \/ ~Final /\ Final' = Final /\ Status < 2 /\ Status' = Status + 1
         \/ ~Final /\ Final' /\ Status > 0 /\ Status' \in {1, Status}
<1> USE DEF ShardInv, TypeOK, Status, Final
<1>0. w # NoWriter /\ Manifest \in Files
  BY ShardAssumption, DataFiles
<1>1. CASE MakeDirectory(w)
  <2>1. CASE owner = NoWriter
    <3>1. file'[Manifest] = "absent" /\ owner' = w /\ wpc'[w] = "writing"
      BY <1>0, <1>1, <2>1 DEF MakeDirectory, OwnerInv, Unread
    <3> QED BY <1>0, <2>1, <3>1
  <2>2. CASE owner # NoWriter
    <3>1. owner # w
      BY <1>1, <2>2 DEF MakeDirectory, OwnerInv
    <3> QED BY <1>1, <2>2 DEF MakeDirectory
  <2> QED BY <2>1, <2>2
<1>2. ASSUME NEW f \in Files, CreateFile(w, f) \/ FillFile(w, f) \/ SyncFile(w, f)
      PROVE  \/ Status' = Status /\ Final' = Final
             \/ ~Final /\ Final' = Final /\ Status < 2 /\ Status' = Status + 1
  <2>1. owner = w /\ owner' = w /\ wpc' = wpc /\ wpc[w] = "writing"
    BY <1>2 DEF CreateFile, FillFile, SyncFile, OwnerInv
  <2>2. file[Manifest] = "full" => file'[Manifest] = "full"
    BY <1>0, <1>2 DEF CreateFile, FillFile, SyncFile
  <2> QED BY <1>0, <2>1, <2>2
<1>3. CASE (\E f \in Files : WriteFails(w, f)) \/ Seal(w) \/ WriterStops(w)
  <2>1. owner = w /\ owner' = w /\ wpc[w] = "writing" /\ wpc'[w] # "writing"
    BY <1>3 DEF WriteFails, Seal, WriterStops, OwnerInv
  <2>2. file[Manifest] # "full" => file'[Manifest] # "full"
    BY <1>0, <1>3 DEF WriteFails, Seal, WriterStops
  <2> QED BY <1>0, <2>1, <2>2
<1> QED BY <1>1, <1>2, <1>3 DEF Write

\* Every step of the files is a step of the status, or none.
LEMMA StepSimulates ==
  ShardInv /\ [Next]_vars => [Attempt!Next]_<<Status, Final, held, answer>>
<1> SUFFICES ASSUME ShardInv, [Next]_vars
             PROVE  [Attempt!Next]_<<Status, Final, held, answer>>
  OBVIOUS
<1>1. ASSUME NEW w \in Writers, Write(w), Observe
      PROVE  [Attempt!Next]_<<Status, Final, held, answer>>
  <2>1. UNCHANGED <<rpc, answer>>
    BY <1>1, WriterStep DEF ShardInv, reading
  <2>2. Attempt!Observe
    BY <1>1 DEF Observe, Attempt!Observe, Attempt!NoAnswer, NoAnswer, ShardInv, ReaderInv
  <2>3. Status' = Status => held' = held
    BY <1>1 DEF Observe, ShardInv, ReaderInv, TypeOK
  <2>4. CASE Status' = Status /\ Final' = Final
    BY <2>1, <2>3, <2>4
  <2>5. CASE ~Final /\ Final' = Final /\ Status < 2 /\ Status' = Status + 1
    BY <2>1, <2>2, <2>5 DEF Attempt!Next, Attempt!Advance
  <2>6. CASE ~Final /\ Final' /\ Status > 0 /\ Status' \in {1, Status}
    BY <2>1, <2>2, <2>6 DEF Attempt!Next, Attempt!Settle
  <2> QED BY <1>1, <2>4, <2>5, <2>6, WriterAdvances
<1>2. ASSUME NEW r \in Readers, Begin(r) \/ Read(r)
      PROVE  [Attempt!Next]_<<Status, Final, held, answer>>
  <2>1. UNCHANGED <<Status, Final>>
    BY <1>2, ReaderStep DEF Status, Final, writing
  <2> QED BY <1>2, <2>1, ReaderStep DEF Attempt!Next
<1>3. CASE UNCHANGED vars
  BY <1>3 DEF vars, writing, reading, Status, Final
<1> QED BY <1>1, <1>2, <1>3 DEF Next

\* ShardInv holds whatever writers race, fail and die beside the readers.
THEOREM ShardInvariance == Spec => []ShardInv
BY ShardInit, ShardStep, PTL DEF Spec

\* ImmutableShardWriter and its readers keep their types: the number of files
\* is that of an accepted layout.
THEOREM ShardTypeCorrect == Spec => []TypeOK
<1>1. ShardInv => TypeOK
  BY DEF ShardInv
<1> QED BY ShardInvariance, <1>1, PTL

\* ImmutableShardWriter.write: the manifest is written over whole files only and
\* describes them.
THEOREM ManifestCovers == Spec => []ManifestCoversWhole
<1>1. ShardInv => ManifestCoversWhole
  BY DEF ShardInv, OwnerInv, DataWhole, ManifestCoversWhole
<1> QED BY ShardInvariance, <1>1, PTL

\* _classify_attempt reads file by file without a lock, and the writer may take
\* a visible manifest back when its fsync fails, and yet the answer is a status
\* the attempt had while the reader looked; once the writer is over the status
\* the runner and the collector read in one step never changes.
THEOREM FilesImplementStatus == Spec => ImplementsAttemptStatus
<1>1. Init => Attempt!Init
  BY ShardInit
<1> QED BY ShardInvariance, StepSimulates, <1>1, PTL
        DEF Spec, ImplementsAttemptStatus, Attempt!Spec
=============================================================================
