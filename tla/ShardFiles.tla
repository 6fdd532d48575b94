----------------------------- MODULE ShardFiles -----------------------------
(***************************************************************************)
(* One attempt directory: ImmutableShardWriter and read_verified_shard of  *)
(* shard.py, with _classify_attempt of batch.py as its reader.             *)
(*                                                                         *)
(* Writers race for the directory; the one that makes it writes the data   *)
(* files one after the other and the hash manifest last.  It can die, or   *)
(* fail to write, at every step.  Readers take no lock: they list the      *)
(* directory, read each file, and compare the two.                         *)
(*                                                                         *)
(* Data files are numbered in writing order, the manifest is number 0.  A  *)
(* file is "full" when a reader finds it complete: all its bytes, or, for  *)
(* the manifest, all but the newline at its end, which its last row does   *)
(* without.  "part" is any shorter prefix.                                 *)
(***************************************************************************)
EXTENDS Integers

CONSTANTS
  Writers,    \* invocations of the attempt
  NoWriter,   \* "nobody"
  Readers,    \* commands that classify it
  Layouts     \* accepted numbers of data files: legacy, runtime, normalized

ASSUME ShardAssumption ==
  /\ NoWriter \notin Writers
  /\ Layouts \subseteq Nat \ {0}

VARIABLES
  owner,    \* the writer that made the directory
  total,    \* data files the owner is going to write
  file,     \* contents of each file: absent, part, full
  rows,     \* the contents the manifest declares, per data file
  open,     \* files written but not yet fsynced: they may still be unlinked
  wpc,      \* where each writer is: ready, writing, done, failed
  rpc,      \* where each reader is: idle, list, read
  names,    \* the files a reader has listed
  got,      \* the contents it has read of them
  held,     \* the statuses the attempt has had since it began to look
  answer    \* what it concluded: 0 PLANNED, 1 incomplete, 2 terminal

writing == <<owner, total, file, rows, open, wpc>>
reading == <<rpc, names, got, answer>>
vars    == <<writing, reading, held>>

Manifest == 0
Files    == {Manifest} \cup UNION {1..n : n \in Layouts}
Contents == {"absent", "part", "full"}
NoAnswer == 3

Unread == [f \in Files |-> "absent"]

TypeOK ==
  /\ owner \in Writers \cup {NoWriter}
  /\ total \in Layouts \cup {0}
  /\ file \in [Files -> Contents]
  /\ rows \in [Files -> Contents]
  /\ open \subseteq Files
  /\ wpc \in [Writers -> {"ready", "writing", "done", "failed"}]
  /\ rpc \in [Readers -> {"idle", "list", "read"}]
  /\ names \in [Readers -> SUBSET Files]
  /\ got \in [Readers -> [Files -> Contents]]
  /\ held \in [Readers -> SUBSET (0..2)]
  /\ answer \in [Readers -> 0..3]

Init ==
  /\ owner = NoWriter
  /\ total = 0
  /\ file = Unread
  /\ rows = Unread
  /\ open = {}
  /\ wpc = [w \in Writers |-> "ready"]
  /\ rpc = [r \in Readers |-> "idle"]
  /\ names = [r \in Readers |-> {}]
  /\ got = [r \in Readers |-> Unread]
  /\ held = [r \in Readers |-> {}]
  /\ answer = [r \in Readers |-> 0]

\* What the directory is worth: only a whole manifest makes it terminal.
Status ==
  IF owner = NoWriter THEN 0 ELSE IF file[Manifest] = "full" THEN 2 ELSE 1

-----------------------------------------------------------------------------
(* The writer                                                              *)

\* Faulty form: any set of runtime artifacts is written.
MakeDirectoryAnySet(w) ==
  /\ wpc[w] = "ready"
  /\ owner = NoWriter
  /\ owner' = w
  /\ total' \in Files
  /\ wpc' = [wpc EXCEPT ![w] = "writing"]
  /\ UNCHANGED <<file, rows, open, reading>>

\* target.mkdir() without exist_ok: one writer makes it, ShardExistsError
\* for the others.
MakeDirectory(w) ==
  /\ wpc[w] = "ready"
  /\ IF owner = NoWriter
     THEN /\ owner' = w
          /\ total' \in Layouts
          /\ wpc' = [wpc EXCEPT ![w] = "writing"]
     ELSE /\ wpc' = [wpc EXCEPT ![w] = "failed"]
          /\ UNCHANGED <<owner, total>>
  /\ UNCHANGED <<file, rows, open, reading>>

\* Faulty form: the next file is opened while the last is still being written.
TurnOverlapping(f) ==
  \A g \in 1..total : (f = Manifest \/ g < f) => file[g] # "absent"

\* f comes next: the files before it are there, and closed.
Turn(f) ==
  /\ open = {}
  /\ \A g \in 1..total : (f = Manifest \/ g < f) => file[g] # "absent"

\* _write_exclusive opens the file (O_EXCL).  The manifest's rows have been
\* computed from the files' bytes as they are then.
CreateFile(w, f) ==
  /\ wpc[w] = "writing"
  /\ f <= total
  /\ Turn(f)
  /\ file[f] = "absent"
  /\ file' = [file EXCEPT ![f] = "part"]
  /\ rows' = IF f = Manifest THEN file ELSE rows
  /\ open' = open \cup {f}
  /\ UNCHANGED <<owner, total, wpc, reading>>

\* write and flush: readers see the whole file.
FillFile(w, f) ==
  /\ wpc[w] = "writing"
  /\ f \in open
  /\ file[f] = "part"
  /\ file' = [file EXCEPT ![f] = "full"]
  /\ UNCHANGED <<owner, total, rows, open, wpc, reading>>

\* fsync and close: from here on the file stays.
SyncFile(w, f) ==
  /\ wpc[w] = "writing"
  /\ f \in open
  /\ file[f] = "full"
  /\ open' = open \ {f}
  /\ UNCHANGED <<owner, total, file, rows, wpc, reading>>

\* write, flush or fsync fails: the file is unlinked, whole or not, and the
\* exception ends the writer.
WriteFails(w, f) ==
  /\ wpc[w] = "writing"
  /\ f \in open
  /\ file' = [file EXCEPT ![f] = "absent"]
  /\ open' = {}
  /\ wpc' = [wpc EXCEPT ![w] = "failed"]
  /\ UNCHANGED <<owner, total, rows, reading>>

\* All files are there: their modes are changed and the writer returns.
Seal(w) ==
  /\ wpc[w] = "writing"
  /\ open = {}
  /\ file[Manifest] # "absent"
  /\ wpc' = [wpc EXCEPT ![w] = "done"]
  /\ UNCHANGED <<owner, total, file, rows, open, reading>>

\* The process dies, or a call around the writes raises (os.open, chmod); what
\* is in the directory stays.
WriterStops(w) ==
  /\ wpc[w] = "writing"
  /\ open' = {}
  /\ wpc' = [wpc EXCEPT ![w] = "failed"]
  /\ UNCHANGED <<owner, total, file, rows, reading>>

-----------------------------------------------------------------------------
(* The readers                                                             *)

Conclude(r, s) ==
  /\ answer' = [answer EXCEPT ![r] = s]
  /\ rpc' = [rpc EXCEPT ![r] = "idle"]
  /\ names' = [names EXCEPT ![r] = {}]
  /\ got' = [got EXCEPT ![r] = Unread]
  /\ held' = [held EXCEPT ![r] = {}]
  /\ UNCHANGED writing

Begin(r) ==
  /\ rpc[r] = "idle"
  /\ rpc' = [rpc EXCEPT ![r] = "list"]
  /\ held' = [held EXCEPT ![r] = {Status}]
  /\ answer' = [answer EXCEPT ![r] = NoAnswer]
  /\ UNCHANGED <<writing, names, got>>

\* _classify_attempt: no directory, the attempt was never started.
NoDirectory(r) ==
  /\ rpc[r] = "list"
  /\ owner = NoWriter
  /\ Conclude(r, 0)

Present == {f \in Files : file[f] # "absent"}

\* The file sets read_verified_shard accepts.
Accepted(S) == Manifest \in S /\ \E n \in Layouts : S \ {Manifest} = 1..n

\* Faulty form: the reader looks again until the directory is whole.
ListUntilWhole(r) ==
  /\ rpc[r] = "list"
  /\ IF Accepted(Present)
     THEN /\ names' = [names EXCEPT ![r] = Present]
          /\ rpc' = [rpc EXCEPT ![r] = "read"]
     ELSE UNCHANGED <<names, rpc>>
  /\ UNCHANGED <<writing, got, held, answer>>

\* path.iterdir(): the names there are now.
List(r) ==
  /\ rpc[r] = "list"
  /\ owner # NoWriter
  /\ IF Accepted(Present)
     THEN /\ names' = [names EXCEPT ![r] = Present]
          /\ rpc' = [rpc EXCEPT ![r] = "read"]
          /\ UNCHANGED <<writing, got, held, answer>>
     ELSE Conclude(r, 1)

\* item.read_bytes() of one listed file; a file that is gone is an error.
ReadFile(r, f) ==
  /\ rpc[r] = "read"
  /\ f \in names[r]
  /\ got[r][f] = "absent"
  /\ IF file[f] = "absent"
     THEN Conclude(r, 1)
     ELSE /\ got' = [got EXCEPT ![r][f] = file[f]]
          /\ UNCHANGED <<writing, rpc, names, held, answer>>

\* Faulty form: sizes and hashes are not compared.
VerifiedNames(r) == TRUE

\* The manifest's rows cover the names and match the bytes read.
Verified(r) ==
  /\ got[r][Manifest] = "full"
  /\ \A f \in Files \ {Manifest} : got[r][f] = rows[f]

Verify(r) ==
  /\ rpc[r] = "read"
  /\ \A f \in names[r] : got[r][f] # "absent"
  /\ Conclude(r, IF Verified(r) THEN 2 ELSE 1)

-----------------------------------------------------------------------------
Write(w) ==
  \/ MakeDirectory(w)
  \/ \E f \in Files :
       CreateFile(w, f) \/ FillFile(w, f) \/ SyncFile(w, f) \/ WriteFails(w, f)
  \/ Seal(w)
  \/ WriterStops(w)

\* History: the readers that are looking have the new status before them.
Observe ==
  held' = [r \in Readers |->
             IF rpc[r] = "idle" THEN held[r] ELSE held[r] \cup {Status'}]

Read(r) ==
  \/ NoDirectory(r)
  \/ List(r)
  \/ \E f \in Files : ReadFile(r, f)
  \/ Verify(r)

Next ==
  \/ \E w \in Writers : Write(w) /\ Observe
  \/ \E r \in Readers : Begin(r) \/ Read(r)

Spec == Init /\ [][Next]_vars

\* Readers run to their end; nobody owes a write or a reading.
FairSpec == Spec /\ \A r \in Readers : WF_vars(Read(r))

-----------------------------------------------------------------------------
(* What the directory promises                                             *)

\* A manifest is only ever written over whole files, and describes them: as long
\* as it is there, what it covers can be hashed again (write, read_verified_shard).
ManifestCoversWhole ==
  file[Manifest] # "absent" =>
    \A f \in Files \ {Manifest} :
      /\ rows[f] = file[f]
      /\ file[f] = IF f <= total THEN "full" ELSE "absent"

\* The writer is over.
Final == owner # NoWriter /\ wpc[owner] # "writing"

Attempt == INSTANCE AttemptStatus WITH status <- Status, final <- Final

\* Whatever a reader interleaves with, its answer is a status the attempt had
\* while it looked: a half-written or abandoned directory never passes for a
\* result, and one that was whole all the time always does.  Once the writer is
\* over no status changes; before, only its own failing fsync takes a result back.
ImplementsAttemptStatus == Attempt!Spec

\* A reader concludes, whatever became of the writer.
ReadersConclude == \A r \in Readers : rpc[r] # "idle" ~> rpc[r] = "idle"
=============================================================================
