--------------------------- MODULE BackupRestore ---------------------------
(* Restores (backups.service.ts): a restore looks for a running backup, opens *)
(* the archive in a cache that the explorer uses too, waits for a safety      *)
(* backup, and replays the dump. The table backup_records is part of what is  *)
(* dumped and replayed, and of the database nothing else is told apart. Jobs, *)
(* cancellation and removal are those of BackupJobs in fewer steps; backups   *)
(* are FULL_SYSTEM, and no two are made in one second.                        *)
EXTENDS Integers, Sequences

CONSTANTS Requests,    \* request slots of administrators
          MaxBackups   \* bound: backups ever made

ASSUME RestoreAssumption == MaxBackups \in Nat

Ids == 1..MaxBackups
Files == Ids   \* the n-th backup ever made has the n-th file name

VARIABLES db,        \* the table backup_records and its next id
          archives,  \* the storage directory: the dump in each archive
          cache,     \* cache/backups/backup_<id>: the dump unpacked there
          jobs,      \* background jobs, in the order of their file names
          pc, ctx,   \* requests: next await, what they keep
          replaced,  \* history: how often the records were replaced
          discarded  \* history: archives an administrator removed or cancelled

files == <<archives, cache>>
requests == <<pc, ctx>>
history == <<replaced, discarded>>
vars == <<db, files, jobs, requests, history>>

NoRow == [status |-> "absent", file |-> 0]
NoDump == [rows |-> << >>, next |-> 0]
\* id: the backup asked for; safety, file: the safety backup and its archive;
\* made: how many backups there had been when the request came.
Request(b, kind) ==
  [id |-> b, kind |-> kind, safety |-> 0, file |-> 0, source |-> NoDump, made |-> 0]
Idle == Request(0, "none")

Exists(b) == db.rows[b].status # "absent"
Completed == {b \in Ids : db.rows[b].status = "COMPLETED"}
Active == {b \in Ids : db.rows[b].status \in {"PENDING", "RUNNING"}}
Alive(j) == jobs[j].stage # "done"
Writing == {"replay", "replayRest", "rows"}

SetStatus(b, s) == db' = [db EXCEPT !.rows[b].status = s]
Goto(r, where) == pc' = [pc EXCEPT ![r] = where]
Keep(r, request, where) == ctx' = [ctx EXCEPT ![r] = request] /\ Goto(r, where)
Answer(r) == Keep(r, Idle, "idle")
----------------------------------------------------------------------------
Init ==
  /\ db = [rows |-> [b \in Ids |-> NoRow], next |-> 1]
  /\ archives = [f \in Files |-> NoDump]
  /\ cache = [b \in Ids |-> NoDump]
  /\ jobs = << >>
  /\ pc = [r \in Requests |-> "idle"]
  /\ ctx = [r \in Requests |-> Idle]
  /\ replaced = 0
  /\ discarded = {}

(* generateBackup, asked for or as a safety backup: the look for an active    *)
(* backup and the insert are two statements.                                  *)
BeginGenerate(r) ==
  /\ pc[r] = "idle"
  /\ Keep(r, Request(0, "generate"), "check")
  /\ UNCHANGED <<db, files, jobs, history>>

Check(r) ==
  /\ pc[r] = "check"
  /\ IF Active = {} THEN Goto(r, "insert") /\ UNCHANGED ctx ELSE Answer(r)
  /\ UNCHANGED <<db, files, jobs, history>>

Insert(r) ==
  /\ pc[r] = "insert" /\ Len(jobs) < MaxBackups
  /\ db' = [db EXCEPT !.next = @ + 1,
                      !.rows[db.next] = [status |-> "PENDING", file |-> Len(jobs) + 1]]
  /\ jobs' = Append(jobs, [id |-> db.next, stage |-> "start", dump |-> NoDump, cancelled |-> FALSE])
  /\ IF ctx[r].kind = "generate" THEN Answer(r)
     ELSE Keep(r, [ctx[r] EXCEPT !.safety = db.next], "poll")
  /\ UNCHANGED <<files, history>>
----------------------------------------------------------------------------
(* The background job writes to the record of its id, if there is one.        *)
Stage(j, stage) == jobs' = [jobs EXCEPT ![j].stage = stage]
Done(j) == jobs' = [jobs EXCEPT ![j] = [@ EXCEPT !.stage = "done", !.dump = NoDump]]

MarkRunning(j) ==
  /\ jobs[j].stage = "start"
  /\ IF Exists(jobs[j].id) THEN SetStatus(jobs[j].id, "RUNNING") /\ Stage(j, "dump")
                           ELSE UNCHANGED db /\ Done(j)
  /\ UNCHANGED <<files, requests, history>>

\* mysqldump takes one consistent snapshot of every table.
Dump(j) ==
  /\ jobs[j].stage = "dump" /\ ~jobs[j].cancelled
  /\ jobs' = [jobs EXCEPT ![j].stage = "zip", ![j].dump = db]
  /\ UNCHANGED <<db, files, requests, history>>

\* The archive gets the name that the record has now.
Zip(j) ==
  /\ jobs[j].stage = "zip" /\ ~jobs[j].cancelled /\ Exists(jobs[j].id)
  /\ archives' = [archives EXCEPT ![db.rows[jobs[j].id].file] = jobs[j].dump]
  /\ Stage(j, "commit")
  /\ UNCHANGED <<db, cache, requests, history>>

Settle(j, s) ==
  /\ IF Exists(jobs[j].id) THEN SetStatus(jobs[j].id, s) ELSE UNCHANGED db
  /\ Done(j)
  /\ UNCHANGED <<files, requests, history>>
Commit(j) == jobs[j].stage = "commit" /\ Settle(j, "COMPLETED")
JobFails(j) == Alive(j) /\ Settle(j, "FAILED")
----------------------------------------------------------------------------
(* ensureExtractedCache: caches older than half an hour go, a cache that is   *)
(* there is used, whatever the archive is now; otherwise it is unpacked.      *)
InHand(b) == \E q \in Requests : ctx[q].id = b /\ ctx[q].kind \in {"full", "category"}
Available(b) == b \in Completed /\ archives[db.rows[b].file] # NoDump
Extract(b) ==
  \E old \in SUBSET {c \in Ids : ~InHand(c)} :
    LET kept == [c \in Ids |-> IF c \in old THEN NoDump ELSE cache[c]]
    IN  cache' = IF kept[b] # NoDump THEN kept
                 ELSE [kept EXCEPT ![b] = archives[db.rows[b].file]]

\* The explorer and the preview of a restore read the cache and no more.
Explore(r, b) ==
  /\ pc[r] = "idle" /\ Available(b)
  /\ Extract(b)
  /\ UNCHANGED <<db, archives, jobs, requests, history>>

(* executeRestore. The backup must have completed; no other may be active.    *)
BeginRestore(r, b, kind) ==
  /\ pc[r] = "idle" /\ b \in Completed
  /\ Keep(r, [Request(b, kind) EXCEPT !.made = Len(jobs)], "checkActive")
  /\ UNCHANGED <<db, files, jobs, history>>

CheckActive(r) ==
  /\ pc[r] = "checkActive"
  /\ IF Active = {} THEN Goto(r, "open") /\ UNCHANGED ctx ELSE Answer(r)
  /\ UNCHANGED <<db, files, jobs, history>>

Open(r) ==
  /\ pc[r] = "open" /\ Available(ctx[r].id)
  /\ Extract(ctx[r].id)
  /\ Goto(r, "check")
  /\ UNCHANGED <<db, archives, jobs, ctx, history>>

\* A missing archive, or one that cannot be unpacked.
OpenFails(r) ==
  /\ pc[r] = "open"
  /\ Answer(r)
  /\ UNCHANGED <<db, files, jobs, history>>

(* The safety backup is polled once a second, sixty times at most. As soon as *)
(* it has completed the dump is opened, if the cache is still there.          *)
Usable(r) == cache[ctx[r].id] # NoDump
StartWriting(r) ==
  Keep(r, [ctx[r] EXCEPT !.file = db.rows[ctx[r].safety].file, !.source = cache[ctx[r].id]],
       IF ctx[r].kind = "full" THEN "replay" ELSE "rows")

PollWithoutCache(r) ==
  /\ pc[r] = "poll"
  /\ db.rows[ctx[r].safety].status = "COMPLETED"
  /\ StartWriting(r)
  /\ UNCHANGED <<db, files, jobs, history>>
PollUntilSettled(r) ==
  /\ pc[r] = "poll"
  /\ db.rows[ctx[r].safety].status \in {"COMPLETED", "FAILED"}
  /\ IF Usable(r) THEN StartWriting(r) ELSE Answer(r)
  /\ UNCHANGED <<db, files, jobs, history>>
Poll(r) ==
  /\ pc[r] = "poll"
  /\ db.rows[ctx[r].safety].status = "COMPLETED"
  /\ IF Usable(r) THEN StartWriting(r) ELSE Answer(r)
  /\ UNCHANGED <<db, files, jobs, history>>

\* It failed, its record is gone, or the minute is over.
GiveUp(r) ==
  /\ pc[r] = "poll"
  /\ db.rows[ctx[r].safety].status # "COMPLETED"
  /\ Answer(r)
  /\ UNCHANGED <<db, files, jobs, history>>

(* mysql replays the dump table by table, backup_records among them, outside  *)
(* any transaction, and may stop anywhere.                                    *)
ReplayRecords(r) ==
  /\ pc[r] = "replay"
  /\ db' = ctx[r].source
  /\ replaced' = replaced + 1
  /\ Goto(r, "replayRest")
  /\ UNCHANGED <<files, jobs, ctx, discarded>>

ReplayRest(r) ==
  /\ pc[r] = "replayRest"
  /\ Answer(r)
  /\ UNCHANGED <<db, files, jobs, history>>

ReplayFails(r) ==
  /\ pc[r] \in {"replay", "replayRest"}
  /\ Answer(r)
  /\ UNCHANGED <<db, files, jobs, history>>

\* A category restore writes rows of other tables one by one; some may fail.
RestoreRows(r) ==
  /\ pc[r] = "rows"
  /\ Answer(r)
  /\ UNCHANGED <<db, files, jobs, history>>
----------------------------------------------------------------------------
(* DELETE: archive and cache, then the row.                                   *)
Remove(r, b) ==
  /\ pc[r] = "idle" /\ Exists(b)
  /\ archives' = [archives EXCEPT ![db.rows[b].file] = NoDump]
  /\ cache' = [cache EXCEPT ![b] = NoDump]
  /\ discarded' = discarded \cup {db.rows[b].file}
  /\ Keep(r, Request(b, "remove"), "delete")
  /\ UNCHANGED <<db, jobs, replaced>>

Delete(r) ==
  /\ pc[r] = "delete"
  /\ db' = [db EXCEPT !.rows[ctx[r].id] = NoRow]
  /\ Answer(r)
  /\ UNCHANGED <<files, jobs, history>>

(* POST cancel: the job, if it is registered by now; then row and archive.    *)
Cancel(r, b) ==
  /\ pc[r] = "idle" /\ b \in Active
  /\ LET mine == {j \in DOMAIN jobs : jobs[j].id = b /\ Alive(j)}
     IN  \E flagged \in {mine, {j \in mine : jobs[j].stage # "start"}} :
           jobs' = [j \in DOMAIN jobs |-> [jobs[j] EXCEPT !.cancelled = @ \/ j \in flagged]]
  /\ Keep(r, [Request(b, "cancel") EXCEPT !.file = db.rows[b].file], "cancel")
  /\ UNCHANGED <<db, files, history>>

CancelWrite(r) ==
  /\ pc[r] = "cancel"
  /\ IF Exists(ctx[r].id)
       THEN /\ SetStatus(ctx[r].id, "FAILED")
            /\ archives' = [archives EXCEPT ![ctx[r].file] = NoDump]
            /\ discarded' = discarded \cup {ctx[r].file}
       ELSE UNCHANGED <<db, archives, discarded>>
  /\ Answer(r)
  /\ UNCHANGED <<cache, jobs, replaced>>
----------------------------------------------------------------------------
JobStep(j) == MarkRunning(j) \/ Dump(j) \/ Zip(j) \/ Commit(j) \/ JobFails(j)
Generate(r) == BeginGenerate(r) \/ Check(r) \/ Insert(r)
Restore(r) ==
  \/ \E b \in Completed, kind \in {"full", "category"} : BeginRestore(r, b, kind)
  \/ CheckActive(r) \/ Open(r) \/ OpenFails(r) \/ Poll(r) \/ GiveUp(r)
  \/ ReplayRecords(r) \/ ReplayRest(r) \/ ReplayFails(r) \/ RestoreRows(r)
Discard(r) == (\E b \in Ids : Remove(r, b) \/ Cancel(r, b)) \/ Delete(r) \/ CancelWrite(r)

Next ==
  \/ \E j \in DOMAIN jobs : JobStep(j)
  \/ \E r \in Requests : Generate(r) \/ Restore(r) \/ Discard(r) \/ \E b \in Ids : Explore(r, b)

Spec == Init /\ [][Next]_vars
----------------------------------------------------------------------------
Statuses == {"absent", "PENDING", "RUNNING", "COMPLETED", "FAILED"}
Rows == [status : Statuses, file : 0..MaxBackups]
Databases == [rows : [Ids -> Rows], next : 1..(MaxBackups + 1)]
Dumps == Databases \cup {NoDump}
Jobs == [id : Ids, stage : {"start", "dump", "zip", "commit", "done"}, dump : Dumps,
         cancelled : BOOLEAN]
Places == {"idle", "check", "insert", "poll", "checkActive", "open", "delete", "cancel"} \cup Writing
Contexts == [id : 0..MaxBackups,
             kind : {"none", "generate", "full", "category", "remove", "cancel"},
             safety : 0..MaxBackups, file : 0..MaxBackups, source : Dumps, made : 0..MaxBackups]

\* The records of a database are those of backups that were made.
Sound(d) ==
  /\ d.next <= Len(jobs) + 1
  /\ \A b \in Ids : d.rows[b].status # "absent" => b < d.next /\ d.rows[b].file \in 1..Len(jobs)

TypeOK ==
  /\ db \in Databases /\ Sound(db)
  /\ archives \in [Files -> Dumps] /\ cache \in [Ids -> Dumps]
  /\ jobs \in Seq(Jobs) /\ Len(jobs) <= MaxBackups
  /\ pc \in [Requests -> Places] /\ ctx \in [Requests -> Contexts]
  /\ replaced \in Nat /\ discarded \subseteq Files
  /\ \A r \in Requests : /\ pc[r] \in Writing => ctx[r].source # NoDump
                         /\ pc[r] \in Writing \cup {"poll"} => ctx[r].safety \in Ids

(* A restore writes nothing before the whole archive of a safety backup is in *)
(* storage that was made after the restore was requested, and the archive     *)
(* stays there while it writes, unless an administrator removes it            *)
(* (executeRestore, step 7). This is promised until a full restore has        *)
(* replaced the records: then ids are given out again, and a job from before  *)
(* may complete a record that is not its own.                                 *)
Kept(f) == archives[f] # NoDump \/ f \in discarded
FirstRestore(r) == replaced = IF pc[r] = "replayRest" THEN 1 ELSE 0
SafetyFirst ==
  \A r \in Requests :
    pc[r] \in Writing /\ FirstRestore(r) => Kept(ctx[r].file) /\ ctx[r].file > ctx[r].made
----------------------------------------------------------------------------
(* "A pre-restore safety backup exists to revert the database state": what an *)
(* administrator is told when a restore fails.                                *)
SafetyBackupCanRevert ==
  [][\A r \in Requests :
       ReplayFails(r) =>
         \/ ctx[r].file \in discarded
         \/ db.rows[ctx[r].safety] = [status |-> "COMPLETED", file |-> ctx[r].file]]_vars
=============================================================================
