---------------------------- MODULE HookInstall ----------------------------
(***************************************************************************)
(* The user-hooks commands of notifications/hooks.py: install_hooks,       *)
(* migrate_hooks and rollback_hooks with --apply, run by several processes *)
(* that may die anywhere, on a hooks.json the user goes on editing.        *)
(*                                                                         *)
(* The commands exclude each other with the flock of                       *)
(* .denovo-hook-installer; the user's editor takes no lock.  hooks.json    *)
(* lies on another file system than the backups, so it is rewritten in     *)
(* place (_replace): compare, write, truncate.                             *)
(*                                                                         *)
(* A file is abstracted to the user's part of it, the registration of the  *)
(* notifier, and whether it is laid out as the commands dump it.  The      *)
(* registration is of no event, of some events or of all (new), by the     *)
(* handlers an install would add, or one the commands tell apart from      *)
(* those (old).  A file with the tail of an older content after the newer  *)
(* one is torn, one that was empty and holds the beginning of the newer    *)
(* content is partial: both are no JSON and have no known digest.          *)
(***************************************************************************)
EXTENDS Integers, FiniteSets

CONSTANTS
  Procs,     \* processes that run the commands
  NoProc,    \* "nobody"
  MaxEdits   \* bound on the edits of the user

ASSUME HookAssumption ==
  /\ NoProc \notin Procs
  /\ MaxEdits \in Nat

VARIABLES
  lock,      \* holder of the installer's flock
  file,      \* what is at the path of hooks.json
  linked,    \* the descriptor of the running _replace is that file
  copies,    \* backups and "removed" copies, complete and on disk
  receipts,  \* receipts on disk
  pc,        \* where each process is in its command
  job,       \* the command it runs
  old,       \* the content the command has read, or the receipt's installed
  new,       \* the content it will leave, "absent" for an unlink
  edits,     \* edits of the user so far; numbers the versions of their hooks
  mine,      \* the user's hooks as the user last left them
  late       \* that edit fell into a window no check follows

command == <<pc, job, old, new>>
user    == <<edits, mine, late>>
vars    == <<lock, file, linked, copies, receipts, command, user>>

Versions == 0..MaxEdits   \* 0: no hooks of their own
Doc(v, d, s) == [kind |-> "doc", user |-> v, dca |-> d, style |-> s]
NoHooks(k)   == [kind |-> k, user |-> 0, dca |-> "none", style |-> "own"]

Docs   == {Doc(v, d, s) : v \in Versions, d \in {"none", "some", "old", "new"},
                          s \in {"own", "dumped"}}
Absent == NoHooks("absent")
Empty  == NoHooks("empty")
Torn   == NoHooks("torn")
Part   == NoHooks("part")
Whole  == Docs \cup {Absent, Empty}

HookTypeOK ==
  /\ lock \in Procs \cup {NoProc}
  /\ file \in Whole \cup {Torn, Part}
  /\ linked \in BOOLEAN
  /\ copies \subseteq Whole
  /\ receipts \subseteq [prev : Whole, installed : Docs]
  /\ pc \in [Procs -> {"idle", "lock", "read", "recheck", "copy", "receipt",
                       "check", "open", "write", "truncate", "unlink"}]
  /\ job \in [Procs -> {"install", "migrate", "rollback"}]
  /\ old \in [Procs -> Whole]
  /\ new \in [Procs -> Whole]
  /\ edits \in 0..MaxEdits
  /\ mine \in Versions
  /\ late \in BOOLEAN

Init ==
  /\ lock = NoProc
  /\ file \in {Absent} \cup {Doc(0, d, "own") : d \in {"none", "some", "old"}}
  /\ linked = FALSE
  /\ copies = {}
  /\ receipts = {}
  /\ pc = [p \in Procs |-> "idle"]
  /\ job = [p \in Procs |-> "install"]
  /\ old = [p \in Procs |-> Absent]
  /\ new = [p \in Procs |-> Absent]
  /\ edits = 0
  /\ mine = 0
  /\ late = FALSE

\* json.dumps of the document with the notifier's handlers added or renewed.
Registered(f) == Doc(f.user, "new", "dumped")

-----------------------------------------------------------------------------
(* Starting and ending                                                     *)

Goto(p, label) == pc' = [pc EXCEPT ![p] = label]

StartInstall(p) ==
  /\ pc[p] = "idle"
  /\ Goto(p, "lock")
  /\ job' = [job EXCEPT ![p] = "install"]
  /\ UNCHANGED <<lock, file, linked, copies, receipts, old, new, user>>

\* migrate_hooks reads and validates before it takes the lock; the operator
\* has agreed to the digest of exactly this content.
StartMigrate(p) ==
  /\ pc[p] = "idle"
  /\ file.dca = "old"
  /\ Goto(p, "lock")
  /\ job' = [job EXCEPT ![p] = "migrate"]
  /\ old' = [old EXCEPT ![p] = file]
  /\ new' = [new EXCEPT ![p] = Registered(file)]
  /\ UNCHANGED <<lock, file, linked, copies, receipts, user>>

StartRollback(p, r) ==
  /\ pc[p] = "idle"
  /\ r \in receipts
  /\ Goto(p, "lock")
  /\ job' = [job EXCEPT ![p] = "rollback"]
  /\ old' = [old EXCEPT ![p] = r.installed]
  /\ new' = [new EXCEPT ![p] = r.prev]
  /\ UNCHANGED <<lock, file, linked, copies, receipts, user>>

\* The command ends and with it the descriptors that carry its locks.
End(p) ==
  /\ lock' = IF lock = p THEN NoProc ELSE lock
  /\ linked' = IF lock = p THEN FALSE ELSE linked
  /\ pc' = [pc EXCEPT ![p] = "idle"]
  /\ job' = [job EXCEPT ![p] = "install"]
  /\ old' = [old EXCEPT ![p] = Absent]
  /\ new' = [new EXCEPT ![p] = Absent]

\* The process dies, or an exception ends the command: the lock is busy for
\* 0.1 seconds, a check fails, config.toml conflicts or has changed, there is
\* nothing to change, a file cannot be written.
Stop(p) ==
  /\ pc[p] # "idle"
  /\ End(p)
  /\ UNCHANGED <<file, copies, receipts, user>>

Acquire(p) ==
  /\ pc[p] = "lock"
  /\ lock = NoProc
  /\ lock' = p
  /\ Goto(p, IF job[p] = "migrate" THEN "recheck" ELSE "read")
  /\ UNCHANGED <<file, linked, copies, receipts, job, old, new, user>>

-----------------------------------------------------------------------------
(* Reading and saving                                                      *)

\* Faulty form: the bytes are merged without being parsed first.
ReadInstallUnparsed(p) ==
  /\ pc[p] = "read"
  /\ job[p] = "install"
  /\ file.dca \in {"none", "some"}
  /\ Goto(p, "copy")
  /\ old' = [old EXCEPT ![p] = file]
  /\ new' = [new EXCEPT ![p] = Registered(file)]
  /\ UNCHANGED <<lock, file, linked, copies, receipts, job, user>>

\* The handlers of the events that have none are added.  An old registration
\* refuses, and beside a complete new one there is nothing to change.
ReadInstall(p) ==
  /\ pc[p] = "read"
  /\ job[p] = "install"
  /\ file.kind \notin {"torn", "part"}
  /\ file.dca \in {"none", "some"}
  /\ Goto(p, "copy")
  /\ old' = [old EXCEPT ![p] = file]
  /\ new' = [new EXCEPT ![p] = Registered(file)]
  /\ UNCHANGED <<lock, file, linked, copies, receipts, job, user>>

\* CONCURRENT_MIGRATION_CHANGE unless the file is still what was read.
RecheckMigrate(p) ==
  /\ pc[p] = "recheck"
  /\ file = old[p]
  /\ Goto(p, "copy")
  /\ UNCHANGED <<lock, file, linked, copies, receipts, job, old, new, user>>

\* HOOK_CONFIG_CHANGED_REFUSE_ROLLBACK unless the file is what the receipt's
\* command installed.
ReadRollback(p) ==
  /\ pc[p] = "read"
  /\ job[p] = "rollback"
  /\ file = old[p]
  /\ Goto(p, "copy")
  /\ UNCHANGED <<lock, file, linked, copies, receipts, job, old, new, user>>

\* Faulty forms: no copy at all, and none of what a rollback removes.
SaveNothing(p) ==
  /\ pc[p] = "copy"
  /\ Goto(p, IF job[p] # "rollback" THEN "receipt"
             ELSE IF new[p] = Absent THEN "unlink" ELSE "open")
  /\ UNCHANGED <<lock, file, linked, copies, receipts, job, old, new, user>>
SaveBackupOnly(p) ==
  /\ pc[p] = "copy"
  /\ copies' = IF old[p] = Absent \/ job[p] = "rollback" THEN copies
               ELSE copies \cup {old[p]}
  /\ Goto(p, IF job[p] # "rollback" THEN "receipt"
             ELSE IF new[p] = Absent THEN "unlink" ELSE "open")
  /\ UNCHANGED <<lock, file, linked, receipts, job, old, new, user>>

\* _exclusive: the backup of an install or a migration, the "removed" copy of
\* a rollback, written and fsynced.
Save(p) ==
  /\ pc[p] = "copy"
  /\ copies' = IF old[p] = Absent THEN copies ELSE copies \cup {old[p]}
  /\ Goto(p, IF job[p] # "rollback" THEN "receipt"
             ELSE IF new[p] = Absent THEN "unlink" ELSE "open")
  /\ UNCHANGED <<lock, file, linked, receipts, job, old, new, user>>

WriteReceipt(p) ==
  /\ pc[p] = "receipt"
  /\ receipts' = receipts \cup {[prev |-> old[p], installed |-> new[p]]}
  /\ Goto(p, IF job[p] = "install" THEN "check" ELSE "open")
  /\ UNCHANGED <<lock, file, linked, copies, job, old, new, user>>

\* CONCURRENT_HOOK_CONFIGURATION_CHANGE of install_hooks.
CheckInstall(p) ==
  /\ pc[p] = "check"
  /\ file = old[p]
  /\ Goto(p, "open")
  /\ UNCHANGED <<lock, file, linked, copies, receipts, job, old, new, user>>

-----------------------------------------------------------------------------
(* _replace                                                                *)

\* Faulty form: the file is opened without being compared.
OpenUncompared(p) ==
  /\ pc[p] = "open"
  /\ file.kind # "absent" \/ old[p] = Absent
  /\ file' = IF file = Absent THEN Empty ELSE file
  /\ linked' = TRUE
  /\ Goto(p, "write")
  /\ UNCHANGED <<lock, copies, receipts, job, old, new, user>>

\* An absent file is created (O_EXCL); one that was read is opened, locked and
\* compared.
Open(p) ==
  /\ pc[p] = "open"
  /\ file = old[p]
  /\ file' = IF file = Absent THEN Empty ELSE file
  /\ linked' = TRUE
  /\ Goto(p, "write")
  /\ UNCHANGED <<lock, copies, receipts, job, old, new, user>>

\* The new content goes over the old one, whose tail stays if it was longer or
\* if the process dies in the middle.
\* A file renamed or removed in the meantime is not the one written.
Write(p) ==
  /\ pc[p] = "write"
  /\ \/ linked /\ file' = new[p]
     \/ linked /\ file' = IF file = Empty THEN Part ELSE Torn
     \/ ~linked /\ file' = file
  /\ Goto(p, "truncate")
  /\ UNCHANGED <<lock, linked, copies, receipts, job, old, new, user>>

\* What an edit in place has put there since is cut to the wrong length.
Truncate(p) ==
  /\ pc[p] = "truncate"
  /\ \/ linked /\ file \in {new[p], Torn, Part} /\ file' = new[p]
     \/ linked /\ file \notin {new[p], Torn, Part} /\ file' \in {file, Torn}
     \/ ~linked /\ file' = file
  /\ End(p)
  /\ UNCHANGED <<copies, receipts, user>>

\* rollback_hooks of an installation that created the file.
Unlink(p) ==
  /\ pc[p] = "unlink"
  /\ file # Absent
  /\ file' = Absent
  /\ End(p)
  /\ UNCHANGED <<copies, receipts, user>>

-----------------------------------------------------------------------------
(* The user                                                                *)

\* A command that will change whatever is at the path, or in the file it has
\* open, without another look.
Unguarded(stillLinked) ==
  \E p \in Procs :
    \/ pc[p] \in {"write", "truncate"} /\ stillLinked
    \/ pc[p] \in {"copy", "unlink"} /\ job[p] = "rollback" /\ new[p] = Absent

\* The user writes hooks of their own, puts a saved copy back, or removes the
\* file; in place or by renaming another file over it.
Edit(f, inPlace) ==
  /\ edits < MaxEdits
  /\ \/ f.kind = "doc" /\ f.user = edits + 1 /\ f.style = "own"
     \/ f \in copies
     \/ f = Absent
  /\ file' = f
  /\ linked' = (linked /\ inPlace /\ file # Absent /\ f # Absent)
  /\ edits' = edits + 1
  /\ mine' = f.user
  /\ late' = Unguarded(linked')
  /\ UNCHANGED <<lock, copies, receipts, command>>

-----------------------------------------------------------------------------
Work(p) ==
  \/ Acquire(p)
  \/ ReadInstall(p)
  \/ RecheckMigrate(p)
  \/ ReadRollback(p)
  \/ Save(p)
  \/ WriteReceipt(p)
  \/ CheckInstall(p)
  \/ Open(p)
  \/ Write(p)
  \/ Truncate(p)
  \/ Unlink(p)

Start(p) ==
  \/ StartInstall(p)
  \/ StartMigrate(p)
  \/ \E r \in receipts : StartRollback(p, r)

Next ==
  \/ \E p \in Procs : Start(p) \/ Work(p) \/ Stop(p)
  \/ \E f \in Whole, inPlace \in BOOLEAN : Edit(f, inPlace)

Spec == Init /\ [][Next]_vars

-----------------------------------------------------------------------------
(* What the commands promise                                               *)

\* However installs, migrations and rollbacks (with fresh or stale receipts)
\* race, repeat and die, the user's own hooks are as the user last left them
\* ("unrelated hooks survive": the merge keeps them, and every write follows a
\* comparison with what was read).  Exempt are an edit made while a command is
\* past its last comparison and a file a crash has left torn; a partial file
\* was created by the command or empty before, and is not exempt.
UserHooksKept == late \/ file = Torn \/ file.user = mine

\* A torn hooks.json can be repaired: the user's hooks are in a saved copy.
TornIsRecoverable ==
  file = Torn /\ ~late => \E c \in copies : c.user = mine

\* Byte for byte: whatever a command overwrites or removes is in a backup or a
\* "removed" copy ("recoverable_copy"), unless it was edited past the check.
OverwrittenIsSaved ==
  [][edits' = edits /\ file' # file /\ file.kind = "doc" /\ ~late
       => file \in copies]_vars
=============================================================================
