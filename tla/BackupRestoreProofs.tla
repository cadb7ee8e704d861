------------------------ MODULE BackupRestoreProofs ------------------------
(* BackupRestore for any number of administrators and backups: types, and     *)
(* that a restore writes nothing before its safety backup is in storage.      *)
EXTENDS BackupRestore, TLAPS

\* Sound, for a number of backups made, so that it can be said of two states.
SoundFor(d, n) ==
  /\ d.next <= n + 1
  /\ \A b \in Ids : d.rows[b].status # "absent" => b < d.next /\ d.rows[b].file \in 1..n
HoldsFor(d, n) == d \in Dumps /\ (d # NoDump => SoundFor(d, n))

FilesTyped ==
  /\ archives \in [Files -> Dumps] /\ cache \in [Ids -> Dumps] /\ discarded \subseteq Files
  /\ \A f \in Files : HoldsFor(archives[f], Len(jobs))
  /\ \A b \in Ids : HoldsFor(cache[b], Len(jobs))
JobsTyped ==
  /\ jobs \in Seq(Jobs) /\ Len(jobs) <= MaxBackups
  /\ \A j \in DOMAIN jobs :
       /\ HoldsFor(jobs[j].dump, Len(jobs))
       /\ jobs[j].stage \in {"zip", "commit"} => jobs[j].dump # NoDump
DatabaseTyped == db \in Databases /\ SoundFor(db, Len(jobs)) /\ replaced \in Nat

\* What a request has in hand at an await, when n backups were made.
Fits(c, where, n) ==
  /\ c \in Contexts /\ where \in Places /\ HoldsFor(c.source, n) /\ c.made <= n
  /\ where = "idle" => c = Idle
  /\ where \in {"check", "insert"} => c.kind \in {"generate", "full", "category"}
  /\ where \in {"checkActive", "open", "poll"} \cup Writing => c.kind \in {"full", "category"}
  /\ c.kind \in {"full", "category", "cancel", "remove"} => c.id \in Ids
  /\ where = "cancel" => c.kind = "cancel" /\ c.file \in Files
  /\ where = "delete" => c.kind = "remove"
  /\ where \in {"poll"} \cup Writing => c.safety \in Ids
  /\ where \in Writing => c.source # NoDump /\ c.file \in Files
RequestsTyped ==
  /\ pc \in [Requests -> Places] /\ ctx \in [Requests -> Contexts]
  /\ \A r \in Requests : Fits(ctx[r], pc[r], Len(jobs))

TypeInv == FilesTyped /\ JobsTyped /\ DatabaseTyped /\ RequestsTyped
----------------------------------------------------------------------------
(* What was sound stays sound when more backups have been made.               *)
LEMMA SoundGrows ==
  ASSUME NEW d, NEW n \in Nat, NEW m \in Nat, n <= m, d \in Databases, SoundFor(d, n)
  PROVE  SoundFor(d, m)
BY DEF SoundFor, Databases, Ids, Rows

LEMMA HoldsGrows ==
  ASSUME NEW d, NEW n \in Nat, NEW m \in Nat, n <= m, HoldsFor(d, n)
  PROVE  HoldsFor(d, m)
BY SoundGrows DEF HoldsFor, Dumps

LEMMA FitsGrows ==
  ASSUME NEW c, NEW w, NEW n \in Nat, NEW m \in Nat, n <= m, Fits(c, w, n)
  PROVE  Fits(c, w, m)
<1>1. HoldsFor(c.source, m)
  BY HoldsGrows DEF Fits
<1>2. c.made <= m
  BY RestoreAssumption DEF Fits, Contexts
<1> QED BY <1>1, <1>2 DEF Fits

LEMMA NoDumpIsNone == NoDump \notin Databases
BY RestoreAssumption DEF NoDump, Databases

LEMMA DatabaseHolds ==
  ASSUME NEW n, db \in Databases, SoundFor(db, n)
  PROVE  HoldsFor(db, n) /\ db # NoDump
BY NoDumpIsNone DEF HoldsFor, Dumps

LEMMA LenIsNat ==
  ASSUME JobsTyped PROVE Len(jobs) \in Nat /\ DOMAIN jobs = 1..Len(jobs)
BY DEF JobsTyped

(* A request that moves leaves the others where they are.                     *)
LEMMA RequestMoves ==
  ASSUME RequestsTyped, JobsTyped, Len(jobs') \in Nat, Len(jobs) <= Len(jobs'),
         NEW r \in Requests, NEW c, NEW w, Fits(c, w, Len(jobs')), Keep(r, c, w)
  PROVE  RequestsTyped'
<1>1. ctx' = [ctx EXCEPT ![r] = c] /\ pc' = [pc EXCEPT ![r] = w]
  BY DEF Keep, Goto
<1>2. c \in Contexts /\ w \in Places
  BY DEF Fits
<1>3. pc' \in [Requests -> Places] /\ ctx' \in [Requests -> Contexts]
  BY <1>1, <1>2 DEF RequestsTyped
<1>4. ASSUME NEW q \in Requests PROVE Fits(ctx'[q], pc'[q], Len(jobs'))
  <2>1. CASE q = r
    BY <1>1, <2>1 DEF RequestsTyped
  <2>2. CASE q # r
    <3>1. ctx'[q] = ctx[q] /\ pc'[q] = pc[q]
      BY <1>1, <2>2 DEF RequestsTyped
    <3>2. Fits(ctx[q], pc[q], Len(jobs'))
      BY FitsGrows, LenIsNat DEF RequestsTyped
    <3> QED BY <3>1, <3>2
  <2> QED BY <2>1, <2>2
<1> QED BY <1>3, <1>4 DEF RequestsTyped

LEMMA RequestsStay ==
  ASSUME RequestsTyped, JobsTyped, Len(jobs') \in Nat, Len(jobs) <= Len(jobs'), UNCHANGED requests
  PROVE  RequestsTyped'
<1>1. \A q \in Requests : Fits(ctx[q], pc[q], Len(jobs'))
  BY FitsGrows, LenIsNat DEF RequestsTyped
<1> QED BY <1>1 DEF RequestsTyped, requests

LEMMA GotoKeeps ==
  ASSUME RequestsTyped, NEW r \in Requests, NEW w, Goto(r, w), UNCHANGED ctx
  PROVE  Keep(r, ctx[r], w)
BY DEF RequestsTyped, Keep, Goto

LEMMA IdleFits ==
  ASSUME NEW n \in Nat PROVE Fits(Idle, "idle", n)
BY RestoreAssumption DEF Fits, Idle, Request, Contexts, Places, Writing, HoldsFor, Dumps, NoDump

LEMMA AnswerTyped ==
  ASSUME RequestsTyped, JobsTyped, Len(jobs') \in Nat, Len(jobs) <= Len(jobs'),
         NEW r \in Requests, Answer(r)
  PROVE  RequestsTyped'
BY RequestMoves, IdleFits DEF Answer

(* Files and records keep their types while more backups are made.            *)
LEMMA FilesStay ==
  ASSUME FilesTyped, JobsTyped, Len(jobs') \in Nat, Len(jobs) <= Len(jobs'), UNCHANGED <<files, discarded>>
  PROVE  FilesTyped'
BY HoldsGrows, LenIsNat DEF FilesTyped, files

LEMMA StatusTyped ==
  ASSUME DatabaseTyped, JobsTyped, NEW b \in Ids, NEW s \in Statuses, Exists(b), SetStatus(b, s)
  PROVE  /\ db' \in Databases /\ db'.next = db.next
         /\ \A c \in Ids : db'.rows[c].file = db.rows[c].file
         /\ \A c \in Ids \ {b} : db'.rows[c] = db.rows[c]
         /\ db'.rows[b].status = s
         /\ SoundFor(db', Len(jobs))
<1> DEFINE row == [db.rows[b] EXCEPT !.status = s]
<1>1. db \in Databases /\ db.rows \in [Ids -> Rows] /\ db.rows[b] \in Rows
  BY DEF DatabaseTyped, Databases
<1>2. row \in Rows /\ row.file = db.rows[b].file /\ row.status = s
  BY <1>1 DEF Rows
<1>3. db' = [db EXCEPT !.rows = [db.rows EXCEPT ![b] = row]]
  BY <1>1 DEF SetStatus, Databases, Rows
<1> HIDE DEF row
<1>4. db'.rows = [db.rows EXCEPT ![b] = row] /\ db'.next = db.next /\ db' \in Databases
  BY <1>1, <1>2, <1>3 DEF Databases
<1>5. \A c \in Ids : db'.rows[c] = IF c = b THEN row ELSE db.rows[c]
  BY <1>1, <1>4
<1>6. SoundFor(db', Len(jobs))
  BY <1>2, <1>4, <1>5 DEF DatabaseTyped, SoundFor, Exists
<1> QED BY <1>2, <1>4, <1>5, <1>6
LEMMA RestStays ==
  ASSUME TypeInv, UNCHANGED <<db, files, jobs, history>>
  PROVE  FilesTyped' /\ JobsTyped' /\ DatabaseTyped'
BY DEF TypeInv, FilesTyped, JobsTyped, DatabaseTyped, files, history

\* The file of a record that is there is one that was made.
LEMMA FileOfRecord ==
  ASSUME DatabaseTyped, JobsTyped, NEW b \in Ids, Exists(b)
  PROVE  db.rows[b].file \in Files /\ db.rows[b].file <= Len(jobs)
<1>1. db.rows[b].file \in 1..Len(jobs)
  BY DEF DatabaseTyped, SoundFor, Exists
<1> QED BY <1>1, LenIsNat, RestoreAssumption DEF JobsTyped, Files, Ids
----------------------------------------------------------------------------
(* Steps of requests that change nothing else.                                *)
LEMMA RequestStepTyped ==
  ASSUME TypeInv, NEW r \in Requests,
         \/ BeginGenerate(r) \/ Check(r) \/ CheckActive(r) \/ OpenFails(r) \/ Poll(r) \/ GiveUp(r)
         \/ ReplayRest(r) \/ ReplayFails(r) \/ RestoreRows(r)
         \/ \E b \in Completed, kind \in {"full", "category"} : BeginRestore(r, b, kind)
  PROVE  TypeInv'
<1> DEFINE n == Len(jobs)
<1>1. n \in Nat /\ n <= MaxBackups /\ UNCHANGED jobs
  BY LenIsNat DEF TypeInv, JobsTyped, BeginGenerate, Check, CheckActive, OpenFails, Poll, GiveUp,
     ReplayRest, ReplayFails, RestoreRows, BeginRestore
<1>2. FilesTyped' /\ JobsTyped' /\ DatabaseTyped'
  BY RestStays DEF BeginGenerate, Check, CheckActive, OpenFails, Poll, GiveUp, ReplayRest,
     ReplayFails, RestoreRows, BeginRestore
<1>3. Fits(ctx[r], pc[r], n)
  BY DEF TypeInv, RequestsTyped
<1>4. CASE Answer(r)
  BY <1>1, <1>2, <1>4, AnswerTyped DEF TypeInv
<1>5. CASE BeginGenerate(r)
  <2>1. Fits(Request(0, "generate"), "check", n)
    BY <1>1, RestoreAssumption
    DEF Fits, Request, Contexts, Places, Writing, HoldsFor, Dumps, NoDump
  <2> QED BY <1>1, <1>2, <1>5, <2>1, RequestMoves DEF TypeInv, BeginGenerate
<1>6. CASE Check(r) /\ ~Answer(r)
  <2>1. Fits(ctx[r], "insert", n)
    BY <1>3, <1>6 DEF Check, Fits, Places, Writing
  <2>2. Keep(r, ctx[r], "insert")
    BY <1>6, GotoKeeps DEF TypeInv, Check
  <2> QED BY <1>1, <1>2, <2>1, <2>2, RequestMoves DEF TypeInv
<1>7. CASE CheckActive(r) /\ ~Answer(r)
  <2>1. Fits(ctx[r], "open", n)
    BY <1>3, <1>7 DEF CheckActive, Fits, Places, Writing
  <2>2. Keep(r, ctx[r], "open")
    BY <1>7, GotoKeeps DEF TypeInv, CheckActive
  <2> QED BY <1>1, <1>2, <2>1, <2>2, RequestMoves DEF TypeInv
<1>8. ASSUME NEW b \in Completed, NEW kind \in {"full", "category"}, BeginRestore(r, b, kind)
      PROVE  TypeInv'
  <2>1. Fits([Request(b, kind) EXCEPT !.made = n], "checkActive", n)
    BY <1>1, RestoreAssumption
    DEF Fits, Request, Contexts, Places, Writing, HoldsFor, Dumps, NoDump, Completed, Ids
  <2> QED BY <1>1, <1>2, <1>8, <2>1, RequestMoves DEF TypeInv, BeginRestore
<1>9. CASE Poll(r) /\ ~Answer(r)
  <2> DEFINE b == ctx[r].safety
             where == IF ctx[r].kind = "full" THEN "replay" ELSE "rows"
             c == [ctx[r] EXCEPT !.file = db.rows[b].file, !.source = cache[ctx[r].id]]
  <2>1. b \in Ids /\ ctx[r].id \in Ids /\ ctx[r] \in Contexts
    BY <1>3, <1>9 DEF Poll, Fits
  <2>2. Exists(b) /\ cache[ctx[r].id] # NoDump /\ Keep(r, c, where)
    BY <1>9 DEF Poll, Exists, Usable, StartWriting
  <2>3. db.rows[b].file \in Files
    BY <2>1, <2>2, FileOfRecord DEF TypeInv
  <2>4. HoldsFor(cache[ctx[r].id], n)
    BY <2>1 DEF TypeInv, FilesTyped
  <2> DEFINE c1 == [ctx[r] EXCEPT !.file = db.rows[b].file]
  <2>5. /\ c1 \in Contexts /\ c1.file = db.rows[b].file
        /\ c1.id = ctx[r].id /\ c1.kind = ctx[r].kind /\ c1.safety = b /\ c1.made = ctx[r].made
    BY <2>1, <2>3, RestoreAssumption DEF Contexts, Files, Ids
  <2>6. c = [c1 EXCEPT !.source = cache[ctx[r].id]]
    OBVIOUS
  <2> HIDE DEF c1, c
  <2>7. /\ c \in Contexts /\ c.file = c1.file /\ c.source = cache[ctx[r].id]
        /\ c.id = c1.id /\ c.kind = c1.kind /\ c.safety = c1.safety /\ c.made = c1.made
    BY <2>4, <2>5, <2>6 DEF Contexts, HoldsFor
  <2>8. c.kind \in {"full", "category"} /\ c.made <= n
    BY <1>3, <1>9, <2>5, <2>7 DEF Poll, Fits
  <2> HIDE DEF b
  <2>9. Fits(c, where, n)
    BY <2>1, <2>2, <2>3, <2>4, <2>5, <2>8, <2>7 DEF Fits, Places, Writing
  <2> QED BY <1>1, <1>2, <2>2, <2>9, RequestMoves DEF TypeInv
<1>10. CASE OpenFails(r) \/ GiveUp(r) \/ ReplayRest(r) \/ ReplayFails(r) \/ RestoreRows(r)
  BY <1>4, <1>10 DEF OpenFails, GiveUp, ReplayRest, ReplayFails, RestoreRows
<1> QED BY <1>4, <1>5, <1>6, <1>7, <1>8, <1>9, <1>10
----------------------------------------------------------------------------
(* A new backup: its record and its job.                                      *)
LEMMA InsertTyped ==
  ASSUME TypeInv, NEW r \in Requests, Insert(r)
  PROVE  TypeInv'
<1> DEFINE n == Len(jobs)
           job == [id |-> db.next, stage |-> "start", dump |-> NoDump, cancelled |-> FALSE]
           row == [status |-> "PENDING", file |-> n + 1]
<1>1. n \in Nat /\ n < MaxBackups /\ MaxBackups \in Nat
  BY LenIsNat, RestoreAssumption DEF TypeInv, Insert
<1>2. db \in Databases /\ db.next \in Ids /\ db.next <= n + 1
  BY <1>1 DEF TypeInv, DatabaseTyped, SoundFor, Databases, Ids
<1>3. jobs' = Append(jobs, job) /\ job \in Jobs
  BY <1>2 DEF Insert, Jobs, Dumps
<1>4. jobs' \in Seq(Jobs) /\ Len(jobs') = n + 1
      /\ \A j \in 1..(n + 1) : jobs'[j] = IF j = n + 1 THEN job ELSE jobs[j]
  BY <1>1, <1>3 DEF TypeInv, JobsTyped
<1>5. db' = [rows |-> [db.rows EXCEPT ![db.next] = row], next |-> db.next + 1]
  BY <1>2 DEF Insert, Databases
<1>6. row \in Rows
  BY <1>1 DEF Rows, Statuses
<1> HIDE DEF n, job, row
<1>7. DatabaseTyped'
  <2>1. db' \in Databases
    BY <1>1, <1>2, <1>5, <1>6 DEF Databases, Ids
  <2>2. SoundFor(db', n + 1)
    <3>1. SoundFor(db, n)
      BY DEF TypeInv, DatabaseTyped, n
    <3>2. db'.next = db.next + 1
          /\ \A b \in Ids : db'.rows[b] = IF b = db.next THEN row ELSE db.rows[b]
      BY <1>2, <1>5 DEF Databases
    <3> QED BY <1>1, <1>2, <3>1, <3>2 DEF SoundFor, row, Ids
  <2> QED BY <1>4, <2>1, <2>2 DEF DatabaseTyped, TypeInv, Insert, history
<1>8. JobsTyped'
  <2>1. \A j \in 1..n : HoldsFor(jobs[j].dump, n + 1)
                        /\ (jobs[j].stage \in {"zip", "commit"} => jobs[j].dump # NoDump)
    BY <1>1, HoldsGrows, LenIsNat DEF TypeInv, JobsTyped, n
  <2>2. HoldsFor(job.dump, n + 1) /\ job.stage = "start"
    BY DEF job, HoldsFor, Dumps
  <2> QED BY <1>1, <1>4, <2>1, <2>2 DEF JobsTyped
<1>9. FilesTyped'
  BY <1>1, <1>4, FilesStay DEF TypeInv, Insert, history, n
<1>10. RequestsTyped'
  <2>1. Len(jobs') \in Nat /\ Len(jobs) <= Len(jobs')
    BY <1>1, <1>4 DEF n
  <2>2. CASE Answer(r)
    BY <2>1, <2>2, AnswerTyped DEF TypeInv
  <2>3. CASE ctx[r].kind # "generate" /\ Keep(r, [ctx[r] EXCEPT !.safety = db.next], "poll")
    <3>1. Fits(ctx[r], "insert", n + 1)
      <4>1. Fits(ctx[r], "insert", n)
        BY DEF TypeInv, RequestsTyped, Insert, n
      <4> QED BY <1>1, <4>1, FitsGrows
    <3>2. Fits([ctx[r] EXCEPT !.safety = db.next], "poll", Len(jobs'))
      BY <1>2, <1>4, <2>3, <3>1 DEF Fits, Contexts, Places, Writing, Ids
    <3> QED BY <2>1, <2>3, <3>2, RequestMoves DEF TypeInv
  <2> QED BY <2>2, <2>3 DEF Insert
<1> QED BY <1>7, <1>8, <1>9, <1>10 DEF TypeInv
----------------------------------------------------------------------------
(* Jobs: the list keeps its length, so what was typed for it is still typed.  *)
LEMMA JobChanges ==
  ASSUME JobsTyped, NEW j \in DOMAIN jobs, NEW job, job \in Jobs, HoldsFor(job.dump, Len(jobs)),
         job.stage \in {"zip", "commit"} => job.dump # NoDump,
         jobs' = [jobs EXCEPT ![j] = job]
  PROVE  JobsTyped' /\ Len(jobs') = Len(jobs)
<1>1. jobs' \in Seq(Jobs) /\ Len(jobs') = Len(jobs) /\ DOMAIN jobs' = DOMAIN jobs
  BY DEF JobsTyped
<1>2. \A i \in DOMAIN jobs : jobs'[i] = IF i = j THEN job ELSE jobs[i]
  BY DEF JobsTyped
<1> QED BY <1>1, <1>2 DEF JobsTyped

LEMMA JobFields ==
  ASSUME JobsTyped, NEW j \in DOMAIN jobs
  PROVE  jobs[j] \in Jobs /\ jobs[j].id \in Ids /\ HoldsFor(jobs[j].dump, Len(jobs))
<1>1. jobs[j] \in Jobs
  BY DEF JobsTyped
<1> QED BY <1>1 DEF JobsTyped, Jobs

LEMMA JobWith ==
  ASSUME NEW job \in Jobs, NEW s \in {"zip", "done"}, NEW d \in Dumps
  PROVE  [job EXCEPT !.stage = s, !.dump = d] \in
           {x \in Jobs : x.stage = s /\ x.dump = d /\ x.id = job.id}
<1> DEFINE staged == [job EXCEPT !.stage = s]
           both == [staged EXCEPT !.dump = d]
<1>1. staged \in Jobs /\ staged.stage = s /\ staged.id = job.id
  BY DEF Jobs
<1>2. both = [job EXCEPT !.stage = s, !.dump = d]
  OBVIOUS
<1> HIDE DEF staged
<1>3. both \in Jobs /\ both.stage = s /\ both.dump = d /\ both.id = job.id
  BY <1>1 DEF Jobs
<1> HIDE DEF both
<1> QED BY <1>2, <1>3

LEMMA StageTyped ==
  ASSUME JobsTyped, NEW j \in DOMAIN jobs, NEW s \in {"dump", "commit"}, Stage(j, s),
         s = "commit" => jobs[j].stage = "zip"
  PROVE  JobsTyped' /\ Len(jobs') = Len(jobs)
<1> DEFINE job == [jobs[j] EXCEPT !.stage = s]
<1>1. job \in Jobs /\ job.dump = jobs[j].dump /\ job.stage = s
  BY JobFields DEF Jobs
<1>2. jobs' = [jobs EXCEPT ![j] = job]
  BY DEF Stage
<1>3. s = "commit" => job.dump # NoDump
  BY <1>1 DEF JobsTyped
<1> HIDE DEF job
<1> QED BY <1>1, <1>2, <1>3, JobChanges, JobFields

LEMMA DoneTyped ==
  ASSUME JobsTyped, NEW j \in DOMAIN jobs, Done(j)
  PROVE  JobsTyped' /\ Len(jobs') = Len(jobs)
<1> DEFINE job == [jobs[j] EXCEPT !.stage = "done", !.dump = NoDump]
<1>1. job \in Jobs /\ job.dump = NoDump /\ job.stage = "done"
  BY JobFields, JobWith DEF Dumps
<1>2. jobs' = [jobs EXCEPT ![j] = job]
  BY DEF Done
<1> HIDE DEF job
<1> QED BY <1>1, <1>2, JobChanges DEF HoldsFor, Dumps

LEMMA DumpIsOneChange ==
  ASSUME JobsTyped, NEW j \in DOMAIN jobs
  PROVE  [jobs EXCEPT ![j].stage = "zip", ![j].dump = db]
         = [jobs EXCEPT ![j] = [jobs[j] EXCEPT !.stage = "zip", !.dump = db]]
<1> DEFINE staged == [jobs EXCEPT ![j].stage = "zip"]
           job == [jobs[j] EXCEPT !.stage = "zip"]
<1>1. staged = [jobs EXCEPT ![j] = job]
  OBVIOUS
<1>2. DOMAIN staged = DOMAIN jobs /\ staged[j] = job
  BY <1>1 DEF JobsTyped
<1> QED BY <1>1, <1>2 DEF JobsTyped

LEMMA JobStepTyped ==
  ASSUME TypeInv, NEW j \in DOMAIN jobs, JobStep(j)
  PROVE  TypeInv'
<1> DEFINE b == jobs[j].id
<1>1. b \in Ids /\ jobs[j] \in Jobs
  BY JobFields DEF TypeInv
<1>2. Len(jobs) \in Nat
  BY LenIsNat DEF TypeInv
\* It suffices to look at jobs, records and archives.
<1>3. ASSUME JobsTyped', Len(jobs') = Len(jobs), db' \in Databases, SoundFor(db', Len(jobs)),
             UNCHANGED <<cache, requests, history>>,
             \/ UNCHANGED archives
             \/ \E f \in Files, d \in Dumps :
                  HoldsFor(d, Len(jobs)) /\ archives' = [archives EXCEPT ![f] = d]
      PROVE  TypeInv'
  <2>1. RequestsTyped'
    BY <1>2, <1>3, RequestsStay DEF TypeInv
  <2>2. FilesTyped'
    BY <1>3 DEF TypeInv, FilesTyped, history
  <2>3. DatabaseTyped'
    BY <1>3 DEF TypeInv, DatabaseTyped, history
  <2> QED BY <1>3, <2>1, <2>2, <2>3 DEF TypeInv
<1>4. db \in Databases /\ SoundFor(db, Len(jobs))
  BY DEF TypeInv, DatabaseTyped
<1>5. CASE MarkRunning(j)
  <2>1. JobsTyped' /\ Len(jobs') = Len(jobs)
    BY <1>5, StageTyped, DoneTyped DEF TypeInv, MarkRunning
  <2>2. db' \in Databases /\ SoundFor(db', Len(jobs))
    BY <1>1, <1>4, <1>5, StatusTyped DEF TypeInv, MarkRunning, Statuses
  <2> QED BY <1>3, <1>5, <2>1, <2>2 DEF MarkRunning, files
<1>6. CASE Dump(j)
  <2> DEFINE job == [jobs[j] EXCEPT !.stage = "zip", !.dump = db]
  <2>1. HoldsFor(db, Len(jobs)) /\ db # NoDump /\ db \in Dumps
    BY <1>4, DatabaseHolds DEF HoldsFor
  <2>2. job \in Jobs /\ job.dump = db /\ job.stage = "zip"
    BY <1>1, <2>1, JobWith
  <2>3. jobs' = [jobs EXCEPT ![j] = job]
    BY <1>6, DumpIsOneChange DEF Dump, TypeInv
  <2> HIDE DEF job
  <2>4. JobsTyped' /\ Len(jobs') = Len(jobs)
    BY <2>1, <2>2, <2>3, JobChanges DEF TypeInv
  <2> QED BY <1>3, <1>4, <1>6, <2>4 DEF Dump, files
<1>7. CASE Zip(j)
  <2>1. JobsTyped' /\ Len(jobs') = Len(jobs)
    BY <1>7, StageTyped DEF TypeInv, Zip
  <2>2. db.rows[b].file \in Files
    BY <1>1, <1>7, FileOfRecord DEF TypeInv, Zip
  <2>3. HoldsFor(jobs[j].dump, Len(jobs)) /\ jobs[j].dump \in Dumps
    BY JobFields DEF TypeInv, HoldsFor
  <2> QED BY <1>3, <1>4, <1>7, <2>1, <2>2, <2>3 DEF Zip
<1>8. ASSUME NEW s \in {"COMPLETED", "FAILED"}, Settle(j, s)
      PROVE  TypeInv'
  <2>1. JobsTyped' /\ Len(jobs') = Len(jobs)
    BY <1>8, DoneTyped DEF TypeInv, Settle
  <2>2. db' \in Databases /\ SoundFor(db', Len(jobs))
    BY <1>1, <1>4, <1>8, StatusTyped DEF TypeInv, Settle, Statuses
  <2> QED BY <1>3, <1>8, <2>1, <2>2 DEF Settle, files
<1> QED BY <1>5, <1>6, <1>7, <1>8 DEF JobStep, Commit, JobFails
----------------------------------------------------------------------------
(* The cache takes the dump of an archive, and only of one that is there.     *)
LEMMA ExtractTyped ==
  ASSUME TypeInv, NEW b \in Ids, Available(b), Extract(b)
  PROVE  cache' \in [Ids -> Dumps] /\ \A c \in Ids : HoldsFor(cache'[c], Len(jobs))
<1>1. b \in Ids /\ Exists(b)
  BY DEF Available, Completed, Exists
<1>2. db.rows[b].file \in Files
  BY <1>1, FileOfRecord DEF TypeInv
<1> DEFINE dump == archives[db.rows[b].file]
<1>3. HoldsFor(dump, Len(jobs)) /\ dump \in Dumps
  BY <1>2 DEF TypeInv, FilesTyped
<1>4. HoldsFor(NoDump, Len(jobs)) /\ NoDump \in Dumps
  BY DEF HoldsFor, Dumps
<1>5. PICK old \in SUBSET {c \in Ids : ~InHand(c)} :
        LET kept == [c \in Ids |-> IF c \in old THEN NoDump ELSE cache[c]]
        IN  cache' = IF kept[b] # NoDump THEN kept ELSE [kept EXCEPT ![b] = dump]
  BY DEF Extract
<1> HIDE DEF dump
<1> DEFINE kept == [c \in Ids |-> IF c \in old THEN NoDump ELSE cache[c]]
<1>6. kept \in [Ids -> Dumps] /\ \A c \in Ids : HoldsFor(kept[c], Len(jobs))
  BY <1>4 DEF TypeInv, FilesTyped
<1>7. cache' = kept \/ cache' = [kept EXCEPT ![b] = dump]
  BY <1>5
<1> HIDE DEF kept
<1> QED BY <1>3, <1>6, <1>7
LEMMA OpeningTyped ==
  ASSUME TypeInv, NEW r \in Requests, Open(r) \/ \E b \in Ids : Explore(r, b)
  PROVE  TypeInv'
<1>1. Len(jobs) \in Nat /\ UNCHANGED jobs
  BY LenIsNat DEF TypeInv, Open, Explore
<1>2. JobsTyped' /\ DatabaseTyped'
  BY DEF TypeInv, JobsTyped, DatabaseTyped, Open, Explore, history
<1>3. PICK b \in Ids : Available(b) /\ Extract(b)
  <2>1. CASE Open(r)
    <3>1. ctx[r].id \in Ids
      BY <2>1 DEF TypeInv, RequestsTyped, Fits, Open
    <3> QED BY <2>1, <3>1 DEF Open
  <2> QED BY <2>1 DEF Explore
<1>4. FilesTyped'
  BY <1>1, <1>3, ExtractTyped DEF TypeInv, FilesTyped, Open, Explore, history
<1>5. RequestsTyped'
  <2>1. CASE Open(r)
    <3>1. Fits(ctx[r], "check", Len(jobs))
      <4>1. Fits(ctx[r], "open", Len(jobs))
        BY <2>1 DEF TypeInv, RequestsTyped, Open
      <4> QED BY <4>1 DEF Fits, Places, Writing
    <3>2. Keep(r, ctx[r], "check")
      BY <2>1, GotoKeeps DEF TypeInv, Open
    <3> QED BY <1>1, <3>1, <3>2, RequestMoves DEF TypeInv
  <2>2. CASE \E c \in Ids : Explore(r, c)
    BY <1>1, <2>2, RequestsStay DEF TypeInv, Explore
  <2> QED BY <2>1, <2>2
<1> QED BY <1>2, <1>4, <1>5 DEF TypeInv
----------------------------------------------------------------------------
(* The records are replaced by those of a dump.                               *)
LEMMA ReplayTyped ==
  ASSUME TypeInv, NEW r \in Requests, ReplayRecords(r)
  PROVE  TypeInv'
<1>1. Len(jobs) \in Nat /\ UNCHANGED jobs
  BY LenIsNat DEF TypeInv, ReplayRecords
<1>2. Fits(ctx[r], "replay", Len(jobs))
  BY DEF TypeInv, RequestsTyped, ReplayRecords
<1>3. DatabaseTyped'
  BY <1>1, <1>2 DEF TypeInv, DatabaseTyped, ReplayRecords, Fits, Writing, HoldsFor, Dumps
<1>4. FilesTyped' /\ JobsTyped'
  BY DEF TypeInv, FilesTyped, JobsTyped, ReplayRecords, files
<1>5. Fits(ctx[r], "replayRest", Len(jobs))
  BY <1>2 DEF Fits, Places, Writing
<1>6. Keep(r, ctx[r], "replayRest")
  BY GotoKeeps DEF TypeInv, ReplayRecords
<1> QED BY <1>1, <1>3, <1>4, <1>5, <1>6, RequestMoves DEF TypeInv

(* Removal and cancellation.                                                  *)
LEMMA RemoveTyped ==
  ASSUME TypeInv, NEW r \in Requests, NEW b \in Ids, Remove(r, b)
  PROVE  TypeInv'
<1>1. Len(jobs) \in Nat /\ UNCHANGED jobs
  BY LenIsNat DEF TypeInv, Remove
<1>2. db.rows[b].file \in Files
  BY FileOfRecord DEF TypeInv, Remove
<1>3. HoldsFor(NoDump, Len(jobs)) /\ NoDump \in Dumps
  BY DEF HoldsFor, Dumps
<1>4. FilesTyped'
  BY <1>1, <1>2, <1>3 DEF TypeInv, FilesTyped, Remove
<1>5. JobsTyped' /\ DatabaseTyped'
  BY DEF TypeInv, JobsTyped, DatabaseTyped, Remove
<1>6. Fits(Request(b, "remove"), "delete", Len(jobs))
  BY <1>1, RestoreAssumption
  DEF Fits, Request, Contexts, Places, Writing, HoldsFor, Dumps, NoDump, Ids
<1> QED BY <1>1, <1>4, <1>5, <1>6, RequestMoves DEF TypeInv, Remove

LEMMA DeleteTyped ==
  ASSUME TypeInv, NEW r \in Requests, Delete(r)
  PROVE  TypeInv'
<1> DEFINE b == ctx[r].id
           rows == [db.rows EXCEPT ![b] = NoRow]
<1>1. Len(jobs) \in Nat /\ UNCHANGED jobs
  BY LenIsNat DEF TypeInv, Delete
<1>2. b \in Ids
  BY DEF TypeInv, RequestsTyped, Fits, Delete
<1>3. db \in Databases /\ SoundFor(db, Len(jobs)) /\ NoRow \in Rows
  BY RestoreAssumption DEF TypeInv, DatabaseTyped, NoRow, Rows, Statuses
<1>4. db' = [db EXCEPT !.rows = rows]
  BY DEF Delete
<1>5. rows \in [Ids -> Rows] /\ \A c \in Ids : rows[c] = IF c = b THEN NoRow ELSE db.rows[c]
  BY <1>2, <1>3 DEF Databases
<1> HIDE DEF rows
<1>6. db' \in Databases /\ db'.rows = rows /\ db'.next = db.next
  BY <1>3, <1>4, <1>5 DEF Databases
<1>7. SoundFor(db', Len(jobs))
  BY <1>3, <1>5, <1>6 DEF SoundFor, NoRow
<1>8. DatabaseTyped' /\ FilesTyped' /\ JobsTyped'
  BY <1>1, <1>6, <1>7 DEF TypeInv, DatabaseTyped, FilesTyped, JobsTyped, Delete, files, history
<1> QED BY <1>1, <1>8, AnswerTyped DEF TypeInv, Delete

LEMMA CancelTyped ==
  ASSUME TypeInv, NEW r \in Requests, NEW b \in Ids, Cancel(r, b)
  PROVE  TypeInv'
<1>1. Len(jobs) \in Nat
  BY LenIsNat DEF TypeInv
<1>2. PICK flagged : jobs' = [j \in DOMAIN jobs |-> [jobs[j] EXCEPT !.cancelled = @ \/ j \in flagged]]
  BY DEF Cancel
<1>3. ASSUME NEW j \in DOMAIN jobs
      PROVE  /\ jobs'[j] \in Jobs
             /\ jobs'[j].dump = jobs[j].dump /\ jobs'[j].stage = jobs[j].stage
  <2> DEFINE flag == jobs[j].cancelled \/ j \in flagged
  <2>1. jobs'[j] = [jobs[j] EXCEPT !.cancelled = flag] /\ flag \in BOOLEAN
    BY <1>2
  <2> HIDE DEF flag
  <2> QED BY <2>1, JobFields DEF TypeInv, Jobs
<1>4. jobs' \in Seq(Jobs) /\ Len(jobs') = Len(jobs) /\ DOMAIN jobs' = DOMAIN jobs
  <2>1. DOMAIN jobs' = 1..Len(jobs)
    BY <1>2, LenIsNat DEF TypeInv
  <2>2. jobs' \in [1..Len(jobs) -> Jobs]
    BY <1>2, <1>3, <2>1, LenIsNat DEF TypeInv
  <2> QED BY <1>1, <2>1, <2>2, LenIsNat DEF TypeInv
<1>5. JobsTyped'
  BY <1>3, <1>4 DEF TypeInv, JobsTyped
<1>6. FilesTyped' /\ DatabaseTyped'
  BY <1>4 DEF TypeInv, FilesTyped, DatabaseTyped, Cancel, files, history
<1>7. Fits([Request(b, "cancel") EXCEPT !.file = db.rows[b].file], "cancel", Len(jobs))
  <2>1. db.rows[b].file \in Files
    BY FileOfRecord DEF TypeInv, Cancel, Active, Exists
  <2> QED BY <1>1, <2>1, RestoreAssumption
      DEF Fits, Request, Contexts, Places, Writing, HoldsFor, Dumps, NoDump, Ids, Files
<1> QED BY <1>1, <1>4, <1>5, <1>6, <1>7, RequestMoves DEF TypeInv, Cancel

LEMMA CancelWriteTyped ==
  ASSUME TypeInv, NEW r \in Requests, CancelWrite(r)
  PROVE  TypeInv'
<1>1. Len(jobs) \in Nat /\ UNCHANGED jobs
  BY LenIsNat DEF TypeInv, CancelWrite
<1>2. ctx[r].file \in Files /\ ctx[r].id \in Ids
  BY DEF TypeInv, RequestsTyped, Fits, CancelWrite
<1>3. FilesTyped'
  BY <1>1, <1>2 DEF TypeInv, FilesTyped, CancelWrite, HoldsFor, Dumps
<1>4. DatabaseTyped'
  BY <1>1, <1>2, StatusTyped DEF TypeInv, CancelWrite, DatabaseTyped, Statuses
<1>5. JobsTyped'
  BY DEF TypeInv, JobsTyped, CancelWrite
<1> QED BY <1>1, <1>3, <1>4, <1>5, AnswerTyped DEF TypeInv, CancelWrite
----------------------------------------------------------------------------
LEMMA InitTyped == Init => TypeInv
<1> SUFFICES ASSUME Init PROVE TypeInv
  OBVIOUS
<1>1. Len(jobs) = 0 /\ jobs \in Seq(Jobs)
  BY DEF Init
<1>2. NoDump \in Dumps /\ HoldsFor(NoDump, 0)
  BY DEF HoldsFor, Dumps
<1>3. FilesTyped
  BY <1>1, <1>2 DEF Init, FilesTyped
<1>4. JobsTyped
  BY <1>1, RestoreAssumption DEF Init, JobsTyped
<1>5. NoRow \in Rows /\ NoRow.status = "absent"
  BY RestoreAssumption DEF NoRow, Rows, Statuses
<1>6. DatabaseTyped
  BY <1>1, <1>5, RestoreAssumption DEF Init, DatabaseTyped, Databases, SoundFor
<1>7. Fits(Idle, "idle", 0)
  BY IdleFits
<1>8. RequestsTyped
  BY <1>1, <1>7 DEF Init, RequestsTyped, Fits
<1> QED BY <1>3, <1>4, <1>6, <1>8 DEF TypeInv

LEMMA NextTyped == TypeInv /\ [Next]_vars => TypeInv'
<1> SUFFICES ASSUME TypeInv, [Next]_vars PROVE TypeInv'
  OBVIOUS
<1>1. CASE UNCHANGED vars
  BY <1>1 DEF vars, files, requests, history, TypeInv, FilesTyped, JobsTyped, DatabaseTyped,
     RequestsTyped
<1>2. ASSUME NEW j \in DOMAIN jobs, JobStep(j) PROVE TypeInv'
  BY <1>2, JobStepTyped
<1>3. ASSUME NEW r \in Requests, Generate(r) PROVE TypeInv'
  BY <1>3, RequestStepTyped, InsertTyped DEF Generate
<1>4. ASSUME NEW r \in Requests, Restore(r) PROVE TypeInv'
  BY <1>4, RequestStepTyped, OpeningTyped, ReplayTyped DEF Restore
<1>5. ASSUME NEW r \in Requests, Discard(r) PROVE TypeInv'
  BY <1>5, RemoveTyped, DeleteTyped, CancelTyped, CancelWriteTyped DEF Discard
<1>6. ASSUME NEW r \in Requests, NEW b \in Ids, Explore(r, b) PROVE TypeInv'
  BY <1>6, OpeningTyped
<1> QED BY <1>1, <1>2, <1>3, <1>4, <1>5, <1>6 DEF Next

(* Tables, archives, caches and requests keep their types, and records are    *)
(* those of backups that were made.                                           *)
THEOREM TypeCorrect == Spec => []TypeOK
<1>1. TypeInv => TypeOK
  <2> SUFFICES ASSUME TypeInv PROVE TypeOK
    OBVIOUS
  <2>1. Sound(db)
    BY DEF TypeInv, DatabaseTyped, SoundFor, Sound
  <2>2. \A r \in Requests : /\ pc[r] \in Writing => ctx[r].source # NoDump
                            /\ pc[r] \in Writing \cup {"poll"} => ctx[r].safety \in Ids
    BY DEF TypeInv, RequestsTyped, Fits
  <2> QED BY <2>1, <2>2 DEF TypeInv, FilesTyped, JobsTyped, DatabaseTyped, RequestsTyped, TypeOK
<1> QED BY <1>1, InitTyped, NextTyped, PTL DEF Spec
----------------------------------------------------------------------------
(* What SafetyFirst rests on while the records have not been replaced: ids,   *)
(* jobs and file names count the same backups; what has completed, or is      *)
(* about to, is in storage; a request polls a backup made after it came.      *)
Aligned ==
  replaced = 0 =>
    /\ db.next = Len(jobs) + 1
    /\ \A j \in DOMAIN jobs : jobs[j].id = j
    /\ \A b \in Ids : Exists(b) => db.rows[b].file = b
Stored ==
  replaced = 0 =>
    /\ \A b \in Ids : db.rows[b].status = "COMPLETED" => Kept(b)
    /\ \A j \in DOMAIN jobs : jobs[j].stage = "commit" => Kept(j)
Later(r) == /\ pc[r] = "poll" /\ replaced = 0 => ctx[r].safety > ctx[r].made
            /\ pc[r] = "replayRest" => replaced >= 1
Secured(r) == pc[r] \in Writing /\ FirstRestore(r) => Kept(ctx[r].file) /\ ctx[r].file > ctx[r].made
Ahead == \A r \in Requests : Later(r) /\ Secured(r)
Inv == TypeInv /\ Aligned /\ Stored /\ Ahead

\* An archive that is in storage stays until an administrator discards it.
LEMMA KeptStays ==
  ASSUME Inv, Next, NEW f \in Files, Kept(f)
  PROVE  Kept(f)'
<1>1. CASE UNCHANGED <<archives, discarded>>
  BY <1>1 DEF Kept
<1>2. ASSUME NEW j \in DOMAIN jobs, Zip(j) PROVE Kept(f)'
  <2>1. jobs[j].dump # NoDump
    BY <1>2 DEF Inv, TypeInv, JobsTyped, Zip
  <2> QED BY <1>2, <2>1 DEF Inv, TypeInv, FilesTyped, Zip, Kept, history
<1>3. ASSUME NEW r \in Requests, NEW b \in Ids, Remove(r, b) PROVE Kept(f)'
  BY <1>3 DEF Inv, TypeInv, FilesTyped, Remove, Kept
<1>4. ASSUME NEW r \in Requests, CancelWrite(r) PROVE Kept(f)'
  BY <1>4 DEF Inv, TypeInv, FilesTyped, CancelWrite, Kept
<1>5. ASSUME NEW j \in DOMAIN jobs, JobStep(j), ~Zip(j) PROVE UNCHANGED <<archives, discarded>>
  BY <1>5 DEF JobStep, MarkRunning, Dump, Commit, JobFails, Settle, files, history
<1>6. ASSUME NEW r \in Requests, Generate(r) PROVE UNCHANGED <<archives, discarded>>
  BY <1>6 DEF Generate, BeginGenerate, Check, Insert, files, history
<1>7. ASSUME NEW r \in Requests, Restore(r) PROVE UNCHANGED <<archives, discarded>>
  BY <1>7 DEF Restore, BeginRestore, CheckActive, Open, OpenFails, Poll, GiveUp, ReplayRecords,
     ReplayRest, ReplayFails, RestoreRows, files, history
<1>8. ASSUME NEW r \in Requests, NEW b \in Ids, Explore(r, b) \/ Cancel(r, b)
      PROVE  UNCHANGED <<archives, discarded>>
  BY <1>8 DEF Explore, Cancel, files, history
<1>9. ASSUME NEW r \in Requests, Delete(r) PROVE UNCHANGED <<archives, discarded>>
  BY <1>9 DEF Delete, files, history
<1> QED BY <1>1, <1>2, <1>3, <1>4, <1>5, <1>6, <1>7, <1>8, <1>9 DEF Next, Discard

(* A step that leaves records, jobs and the count of replays alone, or has    *)
(* replayed.                                                                  *)
LEMMA TableStays ==
  ASSUME Inv, Next, UNCHANGED <<db, jobs, replaced>>
  PROVE  Aligned' /\ Stored'
<1>1. Aligned'
  BY DEF Inv, Aligned, Exists
<1>2. ASSUME NEW b \in Ids, Kept(b) PROVE Kept(b)'
  BY <1>2, KeptStays DEF Files
<1>3. \A j \in DOMAIN jobs : j \in Ids
  BY LenIsNat, RestoreAssumption DEF Inv, TypeInv, JobsTyped, Ids
<1>4. Stored'
  BY <1>2, <1>3 DEF Inv, Stored
<1> QED BY <1>1, <1>4

\* A request that stays where it is keeps what it has.
LEMMA OthersStay ==
  ASSUME Inv, Next, NEW q \in Requests, UNCHANGED <<ctx[q], pc[q]>>,
         replaced' \in {replaced, replaced + 1}
  PROVE  Later(q)' /\ Secured(q)'
<1>1. Later(q) /\ Secured(q) /\ replaced \in Nat
  BY DEF Inv, Ahead, TypeInv, DatabaseTyped
<1>2. Later(q)'
  BY <1>1 DEF Later
<1>3. Secured(q)'
  <2> SUFFICES ASSUME pc[q] \in Writing, FirstRestore(q)'
               PROVE  Kept(ctx[q].file)' /\ ctx[q].file > ctx[q].made
    BY DEF Secured
  <2>1. FirstRestore(q)
    BY <1>1 DEF FirstRestore, Later
  <2>2. Kept(ctx[q].file) /\ ctx[q].file > ctx[q].made
    BY <1>1, <2>1 DEF Secured
  <2>3. ctx[q].file \in Files
    BY DEF Inv, TypeInv, RequestsTyped, Fits
  <2> QED BY <2>2, <2>3, KeptStays
<1> QED BY <1>2, <1>3

\* A request that goes anywhere but to a poll or to writing promises nothing.
LEMMA OneMoves ==
  ASSUME Inv, Next, NEW r \in Requests, NEW c, NEW w \in Places \ (Writing \cup {"poll"}), Keep(r, c, w),
         replaced' = replaced
  PROVE  Ahead'
<1>1. ctx' = [ctx EXCEPT ![r] = c] /\ pc' = [pc EXCEPT ![r] = w]
  BY DEF Keep, Goto
<1>2. ASSUME NEW q \in Requests, q # r PROVE Later(q)' /\ Secured(q)'
  BY <1>1, <1>2, OthersStay DEF Inv, TypeInv, RequestsTyped
<1>3. pc'[r] = w
  BY <1>1 DEF Inv, TypeInv, RequestsTyped
<1>4. Later(r)' /\ Secured(r)'
  BY <1>3 DEF Later, Secured, Writing
<1> QED BY <1>2, <1>4 DEF Ahead
----------------------------------------------------------------------------
(* A job moves on, and with it perhaps the status of its record.              *)
LEMMA JobMoves ==
  ASSUME TypeInv, NEW j \in DOMAIN jobs, JobStep(j)
  PROVE  /\ DOMAIN jobs' = DOMAIN jobs /\ Len(jobs') = Len(jobs)
         /\ \A i \in DOMAIN jobs : jobs'[i].id = jobs[i].id
         /\ \A i \in DOMAIN jobs : i # j => jobs'[i] = jobs[i]
         /\ jobs'[j].stage = "commit" => Zip(j)
<1>1. jobs[j] \in Jobs /\ jobs \in Seq(Jobs)
  BY JobFields DEF TypeInv, JobsTyped
<1>2. ASSUME NEW s \in {"dump", "commit"}, Stage(j, s), s = "commit" => Zip(j)
      PROVE  /\ DOMAIN jobs' = DOMAIN jobs /\ Len(jobs') = Len(jobs)
             /\ \A i \in DOMAIN jobs : jobs'[i].id = jobs[i].id
             /\ \A i \in DOMAIN jobs : i # j => jobs'[i] = jobs[i]
             /\ jobs'[j].stage = "commit" => Zip(j)
  BY <1>1, <1>2 DEF Stage, Jobs
<1>3. ASSUME NEW job, job.id = jobs[j].id, job.stage # "commit", jobs' = [jobs EXCEPT ![j] = job]
      PROVE  /\ DOMAIN jobs' = DOMAIN jobs /\ Len(jobs') = Len(jobs)
             /\ \A i \in DOMAIN jobs : jobs'[i].id = jobs[i].id
             /\ \A i \in DOMAIN jobs : i # j => jobs'[i] = jobs[i]
             /\ jobs'[j].stage = "commit" => Zip(j)
  BY <1>1, <1>3
<1>4. CASE Done(j)
  <2> DEFINE job == [jobs[j] EXCEPT !.stage = "done", !.dump = NoDump]
  <2>1. job.id = jobs[j].id /\ job.stage = "done"
    BY <1>1, JobWith DEF Dumps
  <2>2. jobs' = [jobs EXCEPT ![j] = job]
    BY <1>4 DEF Done
  <2> HIDE DEF job
  <2> QED BY <1>3, <2>1, <2>2
<1>5. CASE Dump(j)
  <2> DEFINE job == [jobs[j] EXCEPT !.stage = "zip", !.dump = db]
  <2>1. db \in Dumps
    BY DEF TypeInv, DatabaseTyped, Dumps
  <2>2. job.id = jobs[j].id /\ job.stage = "zip"
    BY <1>1, <2>1, JobWith
  <2>3. jobs' = [jobs EXCEPT ![j] = job]
    BY <1>5, DumpIsOneChange DEF Dump, TypeInv
  <2> HIDE DEF job
  <2> QED BY <1>3, <2>2, <2>3
<1>6. CASE Zip(j)
  BY <1>2, <1>6 DEF Zip
<1>7. CASE MarkRunning(j)
  BY <1>2, <1>4, <1>7 DEF MarkRunning
<1> QED BY <1>4, <1>5, <1>6, <1>7 DEF JobStep, Commit, JobFails, Settle

LEMMA StatusMoves ==
  ASSUME TypeInv, NEW j \in DOMAIN jobs, JobStep(j)
  PROVE  /\ db'.next = db.next
         /\ \A b \in Ids : /\ db'.rows[b].file = db.rows[b].file
                           /\ Exists(b)' => Exists(b)
                           /\ db'.rows[b].status = "COMPLETED" =>
                                db.rows[b].status = "COMPLETED" \/ (Commit(j) /\ b = jobs[j].id)
<1>1. jobs[j].id \in Ids
  BY JobFields DEF TypeInv
<1>2. CASE UNCHANGED db
  BY <1>2 DEF Exists
<1>3. CASE MarkRunning(j) /\ db' # db
  BY <1>1, <1>3, StatusTyped DEF TypeInv, MarkRunning, Exists, Statuses
<1>4. CASE Commit(j) /\ db' # db
  BY <1>1, <1>4, StatusTyped DEF TypeInv, Commit, Settle, Exists, Statuses
<1>5. CASE JobFails(j) /\ db' # db
  BY <1>1, <1>5, StatusTyped DEF TypeInv, JobFails, Settle, Exists, Statuses
<1> QED BY <1>2, <1>3, <1>4, <1>5 DEF JobStep, Dump, Zip

LEMMA JobStepStored ==
  ASSUME Inv, Next, NEW j \in DOMAIN jobs, JobStep(j)
  PROVE  Aligned' /\ Stored' /\ Ahead'
<1>1. UNCHANGED <<requests, replaced>>
  BY DEF JobStep, MarkRunning, Dump, Zip, Commit, JobFails, Settle, history
<1>2. Aligned'
  BY <1>1, JobMoves, StatusMoves DEF Inv, Aligned
<1>3. \A i \in DOMAIN jobs : i \in Files
  BY LenIsNat, RestoreAssumption DEF Inv, TypeInv, JobsTyped, Ids, Files
<1>4. ASSUME replaced = 0, NEW b \in Ids, db'.rows[b].status = "COMPLETED"
      PROVE  Kept(b)'
  <2>1. Kept(b)
    BY <1>4, StatusMoves DEF Inv, Aligned, Stored, Commit
  <2> QED BY <2>1, KeptStays DEF Files
<1>5. ASSUME replaced = 0, NEW i \in DOMAIN jobs, jobs'[i].stage = "commit"
      PROVE  Kept(i)'
  <2>1. CASE i # j
    <3>1. Kept(i)
      BY <1>5, <2>1, JobMoves DEF Inv, Stored
    <3> QED BY <1>3, <3>1, KeptStays
  <2>2. CASE i = j
    <3>1. Zip(j)
      BY <1>5, <2>2, JobMoves DEF Inv
    <3>2. db.rows[j].file = j /\ jobs[j].id = j
      BY <1>3, <1>5, <3>1 DEF Inv, Aligned, Zip, Files
    <3>3. archives'[j] = jobs[j].dump
      BY <1>3, <3>1, <3>2 DEF Inv, TypeInv, FilesTyped, Zip
    <3>4. jobs[j].dump # NoDump
      BY <3>1 DEF Inv, TypeInv, JobsTyped, Zip
    <3> QED BY <2>2, <3>3, <3>4 DEF Kept
  <2> QED BY <2>1, <2>2
<1>6. Stored'
  BY <1>1, <1>4, <1>5, JobMoves DEF Inv, Stored
<1>7. Ahead'
  BY <1>1, OthersStay DEF Ahead, requests
<1> QED BY <1>2, <1>6, <1>7
----------------------------------------------------------------------------
LEMMA InsertStored ==
  ASSUME Inv, Next, NEW r \in Requests, Insert(r)
  PROVE  Aligned' /\ Stored' /\ Ahead'
<1> DEFINE n == Len(jobs)
           job == [id |-> db.next, stage |-> "start", dump |-> NoDump, cancelled |-> FALSE]
           row == [status |-> "PENDING", file |-> n + 1]
<1>1. n \in Nat /\ n < MaxBackups /\ MaxBackups \in Nat /\ UNCHANGED replaced
  BY LenIsNat, RestoreAssumption DEF Inv, TypeInv, Insert, history
<1>2. db \in Databases /\ db.next \in Ids
  BY <1>1 DEF Inv, TypeInv, DatabaseTyped, SoundFor, Databases, Ids
<1>3. jobs' = Append(jobs, job)
  BY DEF Insert
<1>4. Len(jobs') = n + 1 /\ DOMAIN jobs' = 1..(n + 1) /\ DOMAIN jobs = 1..n
      /\ \A j \in 1..(n + 1) : jobs'[j] = IF j = n + 1 THEN job ELSE jobs[j]
  BY <1>1, <1>3 DEF Inv, TypeInv, JobsTyped
<1>5. db'.next = db.next + 1
      /\ \A b \in Ids : db'.rows[b] = IF b = db.next THEN row ELSE db.rows[b]
  BY <1>2 DEF Insert, Databases
<1>6. row.file = n + 1 /\ row.status = "PENDING" /\ job.id = db.next /\ job.stage = "start"
  OBVIOUS
<1> HIDE DEF n, job, row
<1>7. Aligned'
  <2> SUFFICES ASSUME replaced = 0
               PROVE  /\ db'.next = Len(jobs') + 1
                      /\ \A j \in DOMAIN jobs' : jobs'[j].id = j
                      /\ \A b \in Ids : Exists(b)' => db'.rows[b].file = b
    BY <1>1 DEF Aligned
  <2>1. /\ db.next = n + 1 /\ \A j \in 1..n : jobs[j].id = j
        /\ \A b \in Ids : Exists(b) => db.rows[b].file = b
    BY <1>4 DEF Inv, Aligned, n
  <2> QED BY <1>1, <1>4, <1>5, <1>6, <2>1 DEF Exists
<1>8. Stored'
  <2>1. ASSUME replaced = 0, NEW b \in Ids, db'.rows[b].status = "COMPLETED" PROVE Kept(b)'
    <3>1. Kept(b)
      BY <1>5, <1>6, <2>1 DEF Inv, Stored
    <3> QED BY <3>1, KeptStays DEF Files
  <2>2. ASSUME replaced = 0, NEW j \in 1..(n + 1), jobs'[j].stage = "commit" PROVE Kept(j)'
    <3>1. j \in 1..n /\ jobs[j].stage = "commit"
      BY <1>1, <1>4, <1>6, <2>2
    <3>2. Kept(j) /\ j \in Files
      BY <1>1, <1>4, <2>2, <3>1 DEF Inv, Stored, Files, Ids
    <3> QED BY <3>2, KeptStays
  <2> QED BY <1>1, <1>4, <2>1, <2>2 DEF Stored
<1>9. Ahead'
  <2>1. CASE Answer(r)
    BY <1>1, <2>1, OneMoves DEF Answer, Places, Writing
  <2>2. CASE Keep(r, [ctx[r] EXCEPT !.safety = db.next], "poll")
    <3>1. pc' = [pc EXCEPT ![r] = "poll"] /\ ctx' = [ctx EXCEPT ![r] = [ctx[r] EXCEPT !.safety = db.next]]
      BY <2>2 DEF Keep, Goto
    <3>2. ctx[r] \in Contexts /\ ctx[r].made <= n
      BY DEF Inv, TypeInv, RequestsTyped, Fits, n
    <3>3. pc'[r] = "poll" /\ ctx'[r].safety = db.next /\ ctx'[r].made = ctx[r].made
      BY <3>1, <3>2 DEF Inv, TypeInv, RequestsTyped, Contexts
    <3>4. replaced = 0 => db.next = n + 1
      BY DEF Inv, Aligned, n
    <3>5. Later(r)' /\ Secured(r)'
      BY <1>1, <3>2, <3>3, <3>4 DEF Later, Secured, Writing, Contexts
    <3>6. ASSUME NEW q \in Requests, q # r PROVE Later(q)' /\ Secured(q)'
      BY <1>1, <3>1, <3>6, OthersStay DEF Inv, TypeInv, RequestsTyped
    <3> QED BY <3>5, <3>6 DEF Ahead
  <2> QED BY <2>1, <2>2 DEF Insert
<1> QED BY <1>7, <1>8, <1>9
----------------------------------------------------------------------------
(* A poll that succeeds: the safety backup has completed, so its archive is   *)
(* in storage, and it was made after the request came.                        *)
LEMMA PollSecures ==
  ASSUME Inv, Next, NEW r \in Requests, Poll(r)
  PROVE  Ahead'
<1>1. UNCHANGED <<db, jobs, replaced>>
  BY DEF Poll, history
<1>2. CASE Answer(r)
  BY <1>1, <1>2, OneMoves DEF Answer, Places, Writing
<1>3. CASE StartWriting(r)
  <2> PICK b : b = ctx[r].safety
    OBVIOUS
  <2> PICK f : f = db.rows[b].file
    OBVIOUS
  <2> DEFINE c == [ctx[r] EXCEPT !.file = f, !.source = cache[ctx[r].id]]
             where == IF ctx[r].kind = "full" THEN "replay" ELSE "rows"
  <2>1. ctx' = [ctx EXCEPT ![r] = c] /\ pc' = [pc EXCEPT ![r] = where]
    BY <1>3 DEF StartWriting, Keep, Goto
  <2>2. b \in Ids /\ ctx[r] \in Contexts /\ pc[r] = "poll" /\ Exists(b)
        /\ db.rows[b].status = "COMPLETED"
    BY DEF Inv, TypeInv, RequestsTyped, Fits, Poll, Exists
  <2>3. c.file = f /\ c.made = ctx[r].made
    BY <2>2 DEF Contexts
  <2>4. replaced = 0 => f = b /\ b > ctx[r].made /\ Kept(b)
    BY <2>2 DEF Inv, Aligned, Stored, Ahead, Later
  <2>5. replaced = 0 => Kept(b)'
    BY <2>2, <2>4, KeptStays DEF Files
  <2> HIDE DEF c
  <2>6. ctx'[r] = c /\ pc'[r] = where
    BY <2>1 DEF Inv, TypeInv, RequestsTyped
  <2>7. Later(r)' /\ Secured(r)'
    BY <1>1, <2>3, <2>4, <2>5, <2>6 DEF Later, Secured, FirstRestore
  <2>8. ASSUME NEW q \in Requests, q # r PROVE Later(q)' /\ Secured(q)'
    BY <1>1, <2>1, <2>8, OthersStay DEF Inv, TypeInv, RequestsTyped
  <2> QED BY <2>7, <2>8 DEF Ahead
<1> QED BY <1>2, <1>3 DEF Poll

LEMMA ReplaySecures ==
  ASSUME Inv, Next, NEW r \in Requests, ReplayRecords(r)
  PROVE  Aligned' /\ Stored' /\ Ahead'
<1>1. replaced \in Nat /\ replaced' = replaced + 1 /\ ctx' = ctx
      /\ pc' = [pc EXCEPT ![r] = "replayRest"] /\ pc[r] = "replay"
  BY DEF Inv, TypeInv, DatabaseTyped, ReplayRecords, Goto
<1>2. Aligned' /\ Stored'
  BY <1>1 DEF Aligned, Stored
<1>3. ASSUME NEW q \in Requests, q # r PROVE Later(q)' /\ Secured(q)'
  BY <1>1, <1>3, OthersStay DEF Inv, TypeInv, RequestsTyped
<1>4. pc'[r] = "replayRest"
  BY <1>1 DEF Inv, TypeInv, RequestsTyped
<1>5. Later(r)' /\ Secured(r)'
  <2> SUFFICES ASSUME replaced' = 1
               PROVE  Kept(ctx[r].file)' /\ ctx[r].file > ctx[r].made
    BY <1>1, <1>4 DEF Later, Secured, FirstRestore
  <2>1. Kept(ctx[r].file) /\ ctx[r].file > ctx[r].made
    BY <1>1 DEF Inv, Ahead, Secured, FirstRestore, Writing
  <2>2. PICK f \in Files : f = ctx[r].file
    BY <1>1 DEF Inv, TypeInv, RequestsTyped, Fits, Writing
  <2>3. Kept(f)'
    BY <2>1, <2>2, KeptStays
  <2> QED BY <1>1, <2>1, <2>2, <2>3 DEF Kept
<1> QED BY <1>2, <1>3, <1>5 DEF Ahead
----------------------------------------------------------------------------
LEMMA DiscardStored ==
  ASSUME Inv, Next, NEW r \in Requests, Discard(r)
  PROVE  Aligned' /\ Stored' /\ Ahead'
<1> USE DEF Places, Writing
<1>1. ASSUME NEW b \in Ids, Remove(r, b) PROVE Aligned' /\ Stored' /\ Ahead'
  BY <1>1, TableStays, OneMoves DEF Remove
<1>2. ASSUME NEW b \in Ids, Cancel(r, b) PROVE Aligned' /\ Stored' /\ Ahead'
  <2>1. DOMAIN jobs' = DOMAIN jobs /\ Len(jobs') = Len(jobs) /\ UNCHANGED <<db, replaced>>
    <3>1. DOMAIN jobs' = DOMAIN jobs /\ UNCHANGED <<db, replaced>>
      BY <1>2 DEF Cancel, history
    <3>2. TypeInv'
      BY <1>2, CancelTyped DEF Inv
    <3> QED BY <3>1, <3>2 DEF Inv, TypeInv, JobsTyped
  <2>2. \A j \in DOMAIN jobs : jobs'[j].id = jobs[j].id /\ jobs'[j].stage = jobs[j].stage
    <3>1. PICK flagged : jobs' = [j \in DOMAIN jobs |-> [jobs[j] EXCEPT !.cancelled = @ \/ j \in flagged]]
      BY <1>2 DEF Cancel
    <3>2. \A j \in DOMAIN jobs : jobs[j] \in Jobs
      BY JobFields DEF Inv, TypeInv
    <3> QED BY <3>1, <3>2 DEF Jobs
  <2>3. Aligned'
    BY <2>1, <2>2 DEF Inv, Aligned, Exists
  <2>4. \A f \in Files : Kept(f) => Kept(f)'
    BY KeptStays
  <2>5. \A j \in DOMAIN jobs : j \in Files
    BY LenIsNat, RestoreAssumption DEF Inv, TypeInv, JobsTyped, Ids, Files
  <2>6. Stored'
    BY <2>1, <2>2, <2>4, <2>5 DEF Inv, Stored, Files
  <2> QED BY <1>2, <2>1, <2>3, <2>6, OneMoves DEF Cancel
<1>3. ASSUME Delete(r) \/ CancelWrite(r) PROVE Aligned' /\ Stored' /\ Ahead'
  <2>1. UNCHANGED <<jobs, replaced>> /\ Answer(r)
    BY <1>3 DEF Delete, CancelWrite, history
  <2>2. /\ db'.next = db.next
        /\ \A b \in Ids : /\ Exists(b)' => Exists(b) /\ db'.rows[b].file = db.rows[b].file
                          /\ db'.rows[b].status = "COMPLETED" => db.rows[b].status = "COMPLETED"
    <3>1. db \in Databases
      BY DEF Inv, TypeInv, DatabaseTyped
    <3>2. CASE Delete(r)
      BY <3>1, <3>2 DEF Delete, Databases, Exists, NoRow
    <3>3. CASE CancelWrite(r)
      <4>1. ctx[r].id \in Ids
        BY <3>3 DEF Inv, TypeInv, RequestsTyped, Fits, CancelWrite
      <4> QED BY <3>3, <4>1, StatusTyped DEF Inv, TypeInv, CancelWrite, Exists, Statuses
    <3> QED BY <1>3, <3>2, <3>3
  <2>3. Aligned'
    BY <2>1, <2>2 DEF Inv, Aligned
  <2>4. \A f \in Files : Kept(f) => Kept(f)'
    BY KeptStays
  <2>5. \A j \in DOMAIN jobs : j \in Files
    BY LenIsNat, RestoreAssumption DEF Inv, TypeInv, JobsTyped, Ids, Files
  <2>6. Stored'
    BY <2>1, <2>2, <2>4, <2>5 DEF Inv, Stored, Files
  <2> QED BY <2>1, <2>3, <2>6, OneMoves DEF Answer
<1> QED BY <1>1, <1>2, <1>3 DEF Discard
----------------------------------------------------------------------------
LEMMA InitInv == Init => Inv
<1> SUFFICES ASSUME Init PROVE Inv
  OBVIOUS
<1>1. TypeInv
  BY InitTyped
<1>2. DOMAIN jobs = {} /\ Len(jobs) = 0
  BY DEF Init
<1>3. Aligned /\ Stored
  BY <1>2 DEF Init, Aligned, Stored, NoRow, Exists
<1>4. Ahead
  BY DEF Init, Ahead, Later, Secured, Writing
<1> QED BY <1>1, <1>3, <1>4 DEF Inv

LEMMA NextInv == Inv /\ [Next]_vars => Inv'
<1> SUFFICES ASSUME Inv, [Next]_vars PROVE Inv'
  OBVIOUS
<1>1. TypeInv'
  BY NextTyped DEF Inv
<1>2. CASE UNCHANGED vars
  BY <1>1, <1>2 DEF vars, files, requests, history, Inv, Aligned, Stored, Ahead, Later, Secured,
     FirstRestore, Kept, Exists
<1>3. ASSUME Next, NEW j \in DOMAIN jobs, JobStep(j) PROVE Inv'
  BY <1>1, <1>3, JobStepStored DEF Inv
<1>4. ASSUME Next, NEW r \in Requests, Discard(r) PROVE Inv'
  BY <1>1, <1>4, DiscardStored DEF Inv
<1>5. ASSUME Next, NEW r \in Requests, Insert(r) PROVE Inv'
  BY <1>1, <1>5, InsertStored DEF Inv
<1>6. ASSUME Next, NEW r \in Requests, ReplayRecords(r) PROVE Inv'
  BY <1>1, <1>6, ReplaySecures DEF Inv
<1>7. ASSUME Next, NEW r \in Requests, Poll(r) PROVE Inv'
  BY <1>1, <1>7, TableStays, PollSecures DEF Poll, history, Inv
<1>8. ASSUME Next, NEW r \in Requests, NEW b \in Ids, Explore(r, b) PROVE Inv'
  <2>1. UNCHANGED <<db, jobs, replaced, requests>>
    BY <1>8 DEF Explore, history
  <2>2. Ahead'
    BY <1>8, <2>1, OthersStay DEF Ahead, requests
  <2> QED BY <1>1, <1>8, <2>1, <2>2, TableStays DEF Inv
<1>9. ASSUME Next, NEW r \in Requests,
             \/ BeginGenerate(r) \/ Check(r) \/ CheckActive(r) \/ Open(r) \/ OpenFails(r) \/ GiveUp(r)
             \/ ReplayRest(r) \/ ReplayFails(r) \/ RestoreRows(r)
             \/ \E b \in Completed, kind \in {"full", "category"} : BeginRestore(r, b, kind)
      PROVE  Inv'
  <2>1. UNCHANGED <<db, jobs, replaced>>
    BY <1>9 DEF BeginGenerate, Check, CheckActive, Open, OpenFails, GiveUp, ReplayRest, ReplayFails,
       RestoreRows, BeginRestore, history
  <2>2. \E c : \E w \in Places \ (Writing \cup {"poll"}) : Keep(r, c, w)
    <3>1. CASE Answer(r)
      BY <3>1 DEF Answer, Places, Writing
    <3>2. ASSUME NEW w \in {"insert", "open", "check"}, Goto(r, w), UNCHANGED ctx
          PROVE  \E c : \E x \in Places \ (Writing \cup {"poll"}) : Keep(r, c, x)
      <4>1. Keep(r, ctx[r], w)
        BY <3>2, GotoKeeps DEF Inv, TypeInv
      <4> QED BY <4>1 DEF Places, Writing
    <3>3. CASE BeginGenerate(r)
      BY <3>3 DEF BeginGenerate, Places, Writing
    <3>4. CASE \E b \in Completed, kind \in {"full", "category"} : BeginRestore(r, b, kind)
      BY <3>4 DEF BeginRestore, Places, Writing
    <3>5. CASE Check(r) \/ CheckActive(r) \/ Open(r)
      BY <3>1, <3>2, <3>5 DEF Check, CheckActive, Open
    <3>6. CASE OpenFails(r) \/ GiveUp(r) \/ ReplayRest(r) \/ ReplayFails(r) \/ RestoreRows(r)
      BY <3>1, <3>6 DEF OpenFails, GiveUp, ReplayRest, ReplayFails, RestoreRows
    <3> QED BY <1>9, <3>3, <3>4, <3>5, <3>6
  <2>3. Ahead'
    BY <1>9, <2>1, <2>2, OneMoves
  <2> QED BY <1>1, <1>9, <2>1, <2>3, TableStays DEF Inv
<1> QED BY <1>2, <1>3, <1>4, <1>5, <1>6, <1>7, <1>8, <1>9 DEF Next, Generate, Restore

(* A restore writes nothing before the whole archive of a safety backup made  *)
(* after the request is in storage, and it stays there unless an              *)
(* administrator removes it, until records have been replaced once.           *)
THEOREM SafetyComesFirst == Spec => []SafetyFirst
<1>1. Inv => SafetyFirst
  BY DEF Inv, Ahead, Secured, SafetyFirst
<1> QED BY <1>1, InitInv, NextInv, PTL DEF Spec
=============================================================================
