----------------------------- MODULE BackupJobs -----------------------------
(* Backup generation, cancellation and removal (backups.service.ts): rows of  *)
(* backup_records, the archives in the storage directory, the background jobs *)
(* of the API process with their work directories, and its in-memory registry *)
(* activeBackupProcesses. Node runs one callback at a time: what lies between *)
(* two awaits is one step, together with the effect of the await before it.   *)
EXTENDS Integers, FiniteSets

CONSTANTS Clients,     \* request slots of administrators
          MaxBackups,  \* bound: backups ever requested
          MaxSecond,   \* bound: seconds that pass
          Kinds,       \* backup types in use: "full", "category"
          NoBackup, Mixed

ASSUME BackupAssumption ==
  /\ MaxBackups \in Nat /\ MaxSecond \in Nat
  /\ Kinds \subseteq {"full", "category"}
  /\ NoBackup \notin Nat /\ Mixed \notin Nat /\ NoBackup # Mixed

Backups == 1..MaxBackups
Files == Kinds \X (0..MaxSecond)   \* grehasoft-backup-<type>-<second>.zip

VARIABLES second,                       \* the clock the file names are made of
          created,                      \* autoincrement: ids given out so far
          status, message, filename,    \* backup_records, by id
          archive,                      \* storage directory, by file name
          jobpc,                        \* the await each job is at
          registered, cancelled,        \* activeBackupProcesses and isCancelled
          workDir,                      \* the job's directory in tmp exists
          pc, ctx                       \* requests: next await, what they read

records == <<created, status, message, filename>>
memory == <<registered, cancelled, workDir>>
requests == <<pc, ctx>>
vars == <<second, records, archive, jobpc, memory, requests>>

NoFile == [by |-> NoBackup, whole |-> FALSE]
NoContext == [id |-> 0, kind |-> "none"]

Active == {"PENDING", "RUNNING"}
Cancelling == "Operation cancelled by administrator."
Failure == "error"

Exists(b) == status[b] # "absent"
Working == {"markRunning", "dump", "export", "lookup", "zip"}
Failing == {"failCancelled", "failError"}
Alive(b) == jobpc[b] \in Working \cup Failing \cup {"commit"}

JobGoto(b, where) == jobpc' = [jobpc EXCEPT ![b] = where]
Answer(r) == pc' = [pc EXCEPT ![r] = "idle"] /\ ctx' = [ctx EXCEPT ![r] = NoContext]
Await(r, where) == pc' = [pc EXCEPT ![r] = where] /\ UNCHANGED ctx
----------------------------------------------------------------------------
Init ==
  /\ second = 0 /\ created = 0
  /\ status = [b \in Backups |-> "absent"]
  /\ message = [b \in Backups |-> "none"]
  /\ filename = [b \in Backups |-> <<"none", 0>>]
  /\ archive = [f \in Files |-> NoFile]
  /\ jobpc = [b \in Backups |-> "none"]
  /\ registered = [b \in Backups |-> FALSE]
  /\ cancelled = [b \in Backups |-> FALSE]
  /\ workDir = [b \in Backups |-> FALSE]
  /\ pc = [r \in Clients |-> "idle"]
  /\ ctx = [r \in Clients |-> NoContext]

(* POST generate: a plain read inside a transaction, which locks nothing,     *)
(* then the insert. A conflict answers at once and changes nothing.           *)
GenerateCheck(r, kind) ==
  /\ pc[r] = "idle"
  /\ \A b \in Backups : status[b] \notin Active
  /\ pc' = [pc EXCEPT ![r] = "insert"]
  /\ ctx' = [ctx EXCEPT ![r] = [id |-> 0, kind |-> kind]]
  /\ UNCHANGED <<second, records, archive, jobpc, memory>>

\* The row commits and setImmediate schedules the job.
GenerateInsert(r) ==
  /\ pc[r] = "insert"
  /\ created < MaxBackups
  /\ created' = created + 1
  /\ status' = [status EXCEPT ![created'] = "PENDING"]
  /\ filename' = [filename EXCEPT ![created'] = <<ctx[r].kind, second>>]
  /\ JobGoto(created', "scheduled")
  /\ Answer(r)
  /\ UNCHANGED <<second, message, archive, memory>>
----------------------------------------------------------------------------
\* The background job, from the top of executeBackupJob to its finally block.
JobStart(b) ==
  /\ jobpc[b] = "scheduled"
  /\ workDir' = [workDir EXCEPT ![b] = TRUE]
  /\ registered' = [registered EXCEPT ![b] = TRUE]
  /\ JobGoto(b, "markRunning")
  /\ UNCHANGED <<second, records, archive, cancelled, requests>>

\* The next stage, unless the flag says that the backup was cancelled.
Continue(b, next) == JobGoto(b, IF cancelled[b] THEN "failCancelled" ELSE next)

(* The row becomes RUNNING whatever it was before; the sub-directories are    *)
(* created even when a cancellation has removed the work directory.           *)
MarkRunning(b) ==
  /\ jobpc[b] = "markRunning"
  /\ IF Exists(b)
       THEN /\ status' = [status EXCEPT ![b] = "RUNNING"]
            /\ workDir' = [workDir EXCEPT ![b] = TRUE]
            /\ Continue(b, IF filename[b][1] = "full" THEN "dump" ELSE "export")
       ELSE JobGoto(b, "failError") /\ UNCHANGED <<status, workDir>>
  /\ UNCHANGED <<second, created, message, filename, archive, registered, cancelled, requests>>

\* mysqldump ends well; the media tree is copied (which recreates directories).
Dump(b) ==
  /\ jobpc[b] = "dump"
  /\ Continue(b, "export")
  /\ workDir' = IF cancelled[b] THEN workDir ELSE [workDir EXCEPT ![b] = TRUE]
  /\ UNCHANGED <<second, records, archive, registered, cancelled, requests>>

\* A cancellation killed mysqldump: its exit code rejects the await before the
\* flag is looked at.
DumpKilled(b) ==
  /\ jobpc[b] = "dump" /\ cancelled[b]
  /\ JobGoto(b, "failError")
  /\ UNCHANGED <<second, records, archive, memory, requests>>

\* The snapshots are exported; the exports create their own directories.
Export(b) ==
  /\ jobpc[b] = "export"
  /\ workDir' = [workDir EXCEPT ![b] = TRUE]
  /\ Continue(b, "lookup")
  /\ UNCHANGED <<second, records, archive, registered, cancelled, requests>>

\* The record is read for its file name and the archive is opened for writing:
\* truncated, unless another job has the same file open.
Lookup(b) ==
  LET f == filename[b]
      open == archive[f] # NoFile /\ \E c \in Backups : jobpc[c] = "zip" /\ filename[c] = f
  IN  /\ jobpc[b] = "lookup"
      /\ IF Exists(b)
           THEN /\ archive' = [archive EXCEPT ![f] =
                                [by |-> IF open THEN Mixed ELSE b, whole |-> FALSE]]
                /\ JobGoto(b, "zip")
           ELSE JobGoto(b, "failError") /\ UNCHANGED archive
      /\ UNCHANGED <<second, records, memory, requests>>

\* The archive is complete, if it is still this job's; a late cancellation
\* removes it.
ZipIgnoringCancel(b) ==
  LET f == filename[b]
  IN  /\ jobpc[b] = "zip"
      /\ JobGoto(b, "commit")
      /\ archive' = IF archive[f].by = b THEN [archive EXCEPT ![f].whole = TRUE] ELSE archive
      /\ UNCHANGED <<second, records, memory, requests>>

ZipUnfinished(b) ==
  LET f == filename[b]
  IN  /\ jobpc[b] = "zip"
      /\ Continue(b, "commit")
      /\ archive' = IF cancelled[b] THEN [archive EXCEPT ![f] = NoFile] ELSE archive
      /\ UNCHANGED <<second, records, memory, requests>>

Zip(b) ==
  LET f == filename[b]
  IN  /\ jobpc[b] = "zip"
      /\ Continue(b, "commit")
      /\ archive' = IF cancelled[b] THEN [archive EXCEPT ![f] = NoFile]
                    ELSE IF archive[f].by = b THEN [archive EXCEPT ![f].whole = TRUE]
                    ELSE archive
      /\ UNCHANGED <<second, records, memory, requests>>

\* The finally block.
EndLeavingFiles(b) ==
  /\ JobGoto(b, "done")
  /\ registered' = [registered EXCEPT ![b] = FALSE]
  /\ UNCHANGED <<cancelled, workDir>>

End(b) ==
  /\ JobGoto(b, "done")
  /\ registered' = [registered EXCEPT ![b] = FALSE]
  /\ workDir' = [workDir EXCEPT ![b] = FALSE]
  /\ UNCHANGED cancelled

Commit(b) ==
  /\ jobpc[b] = "commit"
  /\ IF Exists(b)
       THEN status' = [status EXCEPT ![b] = "COMPLETED"] /\ End(b)
       ELSE JobGoto(b, "failError") /\ UNCHANGED <<status, memory>>
  /\ UNCHANGED <<second, created, message, filename, archive, requests>>

\* Anything may throw at an await: a failing mysqldump, a full disk, a removed
\* work directory, the database.
JobError(b) ==
  /\ jobpc[b] \in Working \cup {"commit"}
  /\ JobGoto(b, "failError")
  /\ UNCHANGED <<second, records, archive, memory, requests>>

\* The catch block: the failure is written, if the row is still there.
FailSilently(b) ==
  /\ jobpc[b] \in Failing
  /\ End(b)
  /\ UNCHANGED <<second, records, archive, requests>>

Fail(b) ==
  /\ jobpc[b] \in Failing
  /\ IF Exists(b)
       THEN /\ status' = [status EXCEPT ![b] = "FAILED"]
            /\ message' = [message EXCEPT ![b] =
                             IF jobpc[b] = "failCancelled" THEN Cancelling ELSE Failure]
       ELSE UNCHANGED <<status, message>>
  /\ End(b)
  /\ UNCHANGED <<second, created, filename, archive, requests>>
----------------------------------------------------------------------------
(* POST cancel reads the record; a settled backup is answered without change. *)
CancelRead(r, b) ==
  /\ pc[r] = "idle"
  /\ status[b] \in Active
  /\ pc' = [pc EXCEPT ![r] = "cancel"]
  /\ ctx' = [ctx EXCEPT ![r] = [id |-> b, kind |-> "none"]]
  /\ UNCHANGED <<second, records, archive, jobpc, memory>>

\* A registered job is flagged, its child killed (see DumpKilled), its work
\* directory removed and its registration dropped. The update is on its way.
CancelStayingRegistered(r) ==
  LET b == ctx[r].id
  IN  /\ pc[r] = "cancel"
      /\ cancelled' = [cancelled EXCEPT ![b] = @ \/ registered[b]]
      /\ workDir' = IF registered[b] THEN [workDir EXCEPT ![b] = FALSE] ELSE workDir
      /\ Await(r, "cancelUpdate")
      /\ UNCHANGED <<second, records, archive, jobpc, registered>>

Cancel(r) ==
  LET b == ctx[r].id
  IN  /\ pc[r] = "cancel"
      /\ cancelled' = [cancelled EXCEPT ![b] = @ \/ registered[b]]
      /\ workDir' = IF registered[b] THEN [workDir EXCEPT ![b] = FALSE] ELSE workDir
      /\ registered' = [registered EXCEPT ![b] = FALSE]
      /\ Await(r, "cancelUpdate")
      /\ UNCHANGED <<second, records, archive, jobpc>>

\* FAILED is written whatever the row has become meanwhile.
CancelUpdateOutsideEnum(r) ==
  LET b == ctx[r].id
  IN  /\ pc[r] = "cancelUpdate"
      /\ status' = [status EXCEPT ![b] = "CANCELLED"]
      /\ message' = [message EXCEPT ![b] = Cancelling]
      /\ Await(r, "cancelUnlink")
      /\ UNCHANGED <<second, created, filename, archive, jobpc, memory>>

CancelUpdate(r) ==
  LET b == ctx[r].id
  IN  /\ pc[r] = "cancelUpdate"
      /\ IF Exists(b)
           THEN /\ status' = [status EXCEPT ![b] = "FAILED"]
                /\ message' = [message EXCEPT ![b] = Cancelling]
                /\ Await(r, "cancelUnlink")
           ELSE Answer(r) /\ UNCHANGED <<status, message>>
      /\ UNCHANGED <<second, created, filename, archive, jobpc, memory>>

Unlink(r) == archive' = [archive EXCEPT ![filename[ctx[r].id]] = NoFile]

CancelUnlink(r) ==
  /\ pc[r] = "cancelUnlink"
  /\ Unlink(r)
  /\ Answer(r)
  /\ UNCHANGED <<second, records, jobpc, memory>>

\* DELETE: the archive goes first, then the row, whatever its status.
RemoveRead(r, b) ==
  /\ pc[r] = "idle"
  /\ Exists(b)
  /\ pc' = [pc EXCEPT ![r] = "removeUnlink"]
  /\ ctx' = [ctx EXCEPT ![r] = [id |-> b, kind |-> "none"]]
  /\ UNCHANGED <<second, records, archive, jobpc, memory>>

RemoveUnlink(r) ==
  /\ pc[r] = "removeUnlink"
  /\ Unlink(r)
  /\ Await(r, "removeDelete")
  /\ UNCHANGED <<second, records, jobpc, memory>>

RemoveDelete(r) ==
  /\ pc[r] = "removeDelete"
  /\ status' = [status EXCEPT ![ctx[r].id] = "absent"]
  /\ message' = [message EXCEPT ![ctx[r].id] = "none"]
  /\ Answer(r)
  /\ UNCHANGED <<second, created, filename, archive, jobpc, memory>>
----------------------------------------------------------------------------
Tick ==
  /\ second < MaxSecond
  /\ second' = second + 1
  /\ UNCHANGED <<records, archive, jobpc, memory, requests>>

\* The process dies and starts again: jobs, registry and requests are gone,
\* rows, archives and work directories stay. Nothing looks at them on start.
Crash ==
  /\ \/ \E b \in Backups : jobpc[b] = "scheduled" \/ Alive(b)
     \/ \E r \in Clients : pc[r] # "idle"
  /\ jobpc' = [b \in Backups |-> "none"]
  /\ registered' = [b \in Backups |-> FALSE]
  /\ cancelled' = [b \in Backups |-> FALSE]
  /\ pc' = [r \in Clients |-> "idle"]
  /\ ctx' = [r \in Clients |-> NoContext]
  /\ UNCHANGED <<second, records, archive, workDir>>

\* The work directory cannot be created. That is before the try block: nothing
\* writes the failure, and the row stays PENDING.
StartFails(b) ==
  /\ jobpc[b] = "scheduled"
  /\ JobGoto(b, "done")
  /\ UNCHANGED <<second, records, archive, memory, requests>>

\* The update in the catch block fails too; the error is only logged.
FailureLost(b) ==
  /\ jobpc[b] \in Failing
  /\ End(b)
  /\ UNCHANGED <<second, records, archive, requests>>

JobStep(b) ==
  \/ JobStart(b) \/ MarkRunning(b) \/ Dump(b) \/ DumpKilled(b) \/ Export(b) \/ Lookup(b)
  \/ Zip(b) \/ Commit(b) \/ Fail(b)

Request(r) ==
  \/ \E kind \in Kinds : GenerateCheck(r, kind)
  \/ \E b \in Backups : CancelRead(r, b) \/ RemoveRead(r, b)
  \/ GenerateInsert(r)
  \/ Cancel(r) \/ CancelUpdate(r) \/ CancelUnlink(r)
  \/ RemoveUnlink(r) \/ RemoveDelete(r)

\* Jobs may fail and say so; jobs may fail silently and the process may die as well.
NextUninterrupted ==
  \/ \E b \in Backups : JobStep(b) \/ JobError(b)
  \/ \E r \in Clients : Request(r)
  \/ Tick

Next == NextUninterrupted \/ Crash \/ \E b \in Backups : StartFails(b) \/ FailureLost(b)

Spec == Init /\ [][Next]_vars
SpecUninterrupted == Init /\ [][NextUninterrupted]_vars

(* The event loop runs what is due, child processes exit and the database     *)
(* answers. Nobody has to send a request.                                     *)
FairSpec == SpecUninterrupted /\ \A b \in Backups : WF_vars(JobStep(b))
----------------------------------------------------------------------------
TypeOK ==
  /\ second \in 0..MaxSecond
  /\ created \in 0..MaxBackups
  /\ status \in [Backups -> {"absent", "PENDING", "RUNNING", "COMPLETED", "FAILED"}]
  /\ message \in [Backups -> {"none", Cancelling, Failure}]
  /\ filename \in [Backups -> Files \cup {<<"none", 0>>}]
  /\ archive \in [Files -> [by : Backups \cup {NoBackup, Mixed}, whole : BOOLEAN]]
  /\ jobpc \in [Backups -> {"none", "scheduled", "commit", "done"} \cup Working \cup Failing]
  /\ registered \in [Backups -> BOOLEAN]
  /\ cancelled \in [Backups -> BOOLEAN]
  /\ workDir \in [Backups -> BOOLEAN]
  /\ pc \in [Clients -> {"idle", "insert", "cancel", "cancelUpdate", "cancelUnlink",
                         "removeUnlink", "removeDelete"}]
  /\ ctx \in [Clients -> [id : 0..MaxBackups, kind : Kinds \cup {"none"}]]

(* A cancellation can reach exactly the jobs that run and have not been       *)
(* cancelled yet: activeBackupProcesses holds those and nothing else, though  *)
(* both the job and the request delete from it.                               *)
RegistryMatchesJobs ==
  \A b \in Backups : registered[b] <=> Alive(b) /\ ~cancelled[b]

(* While the process does not die, no work directory outlives its job, even   *)
(* though a cancelled job recreates the directory the request removed.        *)
NothingLeftInTmp ==
  \A b \in Backups : workDir[b] => Alive(b)

(* A backup that is cancelled before its job's last look at the flag never    *)
(* becomes COMPLETED, not even later.                                         *)
EarlyCancelNeverCompletes ==
  \A b \in Backups :
    [](cancelled[b] /\ jobpc[b] \in Working => [](status[b] # "COMPLETED"))

\* No other record, present or deleted, was given the same file name.
Unshared(b) == \A c \in Backups : filename[c] = filename[b] => c = b

(* A record that says COMPLETED has the whole archive its job wrote, unless   *)
(* it was cancelled, is being removed, or its name is not its own.            *)
CompletedHasArchive ==
  \A b \in Backups :
    status[b] = "COMPLETED" /\ message[b] # Cancelling /\ Unshared(b) =>
      \/ archive[filename[b]] = [by |-> b, whole |-> TRUE]
      \/ \E r \in Clients : ctx[r].id = b

(* A backup never stays PENDING or RUNNING, so it never blocks the next one   *)
(* for good.                                                                  *)
EveryBackupSettles ==
  \A b \in Backups : status[b] \in Active ~> status[b] \notin Active
=============================================================================
