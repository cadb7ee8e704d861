-------------------------- MODULE BackupJobsProofs --------------------------
(* Type correctness, the registry of running jobs and early cancellations,    *)
(* for any number of administrators and backups, with failures and restarts   *)
(* at any moment; work directories and archives, while the process lives.     *)
EXTENDS BackupJobs, TLAPS

\* What a request about to insert a row remembers.
InsertKnowsKind == \A r \in Clients : pc[r] = "insert" => ctx[r].kind \in Kinds
TypeInv == TypeOK /\ InsertKnowsKind

\* Ids not given out have no job, and a job that has not started cannot have
\* been cancelled: that is what makes the registry exact.
Unstarted ==
  \A b \in Backups : /\ b > created => jobpc[b] = "none"
                     /\ jobpc[b] \in {"none", "scheduled"} => ~cancelled[b]
RegistryInv == RegistryMatchesJobs /\ Unstarted
----------------------------------------------------------------------------
LEMMA ExceptType ==
  ASSUME NEW S, NEW T, NEW f \in [S -> T], NEW x, NEW v \in T
  PROVE  [f EXCEPT ![x] = v] \in [S -> T]
  OBVIOUS

LEMMA InitTypeInv == Init => TypeInv
<1> SUFFICES ASSUME Init PROVE TypeInv
  OBVIOUS
<1>1. second \in 0..MaxSecond /\ created \in 0..MaxBackups
  BY BackupAssumption DEF Init
<1>2. ctx \in [Clients -> [id : 0..MaxBackups, kind : Kinds \cup {"none"}]]
  BY BackupAssumption DEF Init, NoContext
<1>3. archive \in [Files -> [by : Backups \cup {NoBackup, Mixed}, whole : BOOLEAN]]
  BY DEF Init, NoFile
<1> QED BY <1>1, <1>2, <1>3 DEF Init, TypeInv, TypeOK, InsertKnowsKind

JobPlaces == {"none", "scheduled", "commit", "done"} \cup Working \cup Failing
RequestPlaces == {"idle", "insert", "cancel", "cancelUpdate", "cancelUnlink",
                  "removeUnlink", "removeDelete"}
JobsTyped == jobpc \in [Backups -> JobPlaces]
MemoryTyped ==
  /\ registered \in [Backups -> BOOLEAN]
  /\ cancelled \in [Backups -> BOOLEAN]
  /\ workDir \in [Backups -> BOOLEAN]
RecordsTyped ==
  /\ created \in 0..MaxBackups
  /\ status \in [Backups -> {"absent", "PENDING", "RUNNING", "COMPLETED", "FAILED"}]
  /\ message \in [Backups -> {"none", Cancelling, Failure}]
  /\ filename \in [Backups -> Files \cup {<<"none", 0>>}]
ArchiveTyped == archive \in [Files -> [by : Backups \cup {NoBackup, Mixed}, whole : BOOLEAN]]
RequestsTyped ==
  /\ pc \in [Clients -> RequestPlaces]
  /\ ctx \in [Clients -> [id : 0..MaxBackups, kind : Kinds \cup {"none"}]]
  /\ InsertKnowsKind

LEMMA TypeParts ==
  TypeInv <=> /\ second \in 0..MaxSecond
              /\ RecordsTyped /\ ArchiveTyped /\ JobsTyped /\ MemoryTyped /\ RequestsTyped
  BY DEF TypeInv, TypeOK, RecordsTyped, ArchiveTyped, JobsTyped, MemoryTyped, RequestsTyped,
         JobPlaces, RequestPlaces

LEMMA PartsMakeTypes ==
  ASSUME second' \in 0..MaxSecond, RecordsTyped', ArchiveTyped', JobsTyped', MemoryTyped',
         RequestsTyped'
  PROVE  TypeInv'
  BY DEF TypeInv, TypeOK, RecordsTyped, ArchiveTyped, JobsTyped, MemoryTyped, RequestsTyped,
         JobPlaces, RequestPlaces

(* The building blocks of the actions keep their part of the types.           *)
LEMMA JobGotoType ==
  ASSUME JobsTyped, NEW b, NEW where \in JobPlaces, JobGoto(b, where)
  PROVE  JobsTyped'
  BY ExceptType DEF JobsTyped, JobGoto

LEMMA EndType ==
  ASSUME JobsTyped, MemoryTyped, NEW b, End(b)
  PROVE  JobsTyped' /\ MemoryTyped'
<1>1. JobsTyped'
  BY JobGotoType DEF End, JobPlaces
<1>2. MemoryTyped'
  BY ExceptType DEF End, MemoryTyped
<1> QED BY <1>1, <1>2

LEMMA AnswerType ==
  ASSUME RequestsTyped, NEW r \in Clients, Answer(r)
  PROVE  RequestsTyped'
<1>1. NoContext \in [id : 0..MaxBackups, kind : Kinds \cup {"none"}]
  BY BackupAssumption DEF NoContext
<1> QED BY <1>1 DEF RequestsTyped, InsertKnowsKind, Answer, RequestPlaces

LEMMA AwaitType ==
  ASSUME RequestsTyped, NEW r \in Clients, NEW where \in RequestPlaces, where # "insert",
         Await(r, where)
  PROVE  RequestsTyped'
  BY DEF RequestsTyped, InsertKnowsKind, Await

LEMMA OpenType ==
  ASSUME RequestsTyped, NEW r \in Clients, NEW where \in RequestPlaces,
         NEW id \in 0..MaxBackups, NEW kind \in Kinds \cup {"none"},
         where = "insert" => kind \in Kinds,
         pc' = [pc EXCEPT ![r] = where],
         ctx' = [ctx EXCEPT ![r] = [id |-> id, kind |-> kind]]
  PROVE  RequestsTyped'
  BY DEF RequestsTyped, InsertKnowsKind

LEMMA UnchangedTypes ==
  /\ RecordsTyped /\ UNCHANGED records => RecordsTyped'
  /\ ArchiveTyped /\ UNCHANGED archive => ArchiveTyped'
  /\ JobsTyped /\ UNCHANGED jobpc => JobsTyped'
  /\ MemoryTyped /\ UNCHANGED memory => MemoryTyped'
  /\ RequestsTyped /\ UNCHANGED requests => RequestsTyped'
  BY DEF RecordsTyped, ArchiveTyped, JobsTyped, MemoryTyped, RequestsTyped, InsertKnowsKind,
         records, memory, requests
----------------------------------------------------------------------------
LEMMA JobKeepsTypes ==
  ASSUME TypeInv, NEW b \in Backups,
         JobStep(b) \/ JobError(b) \/ StartFails(b) \/ FailureLost(b)
  PROVE  TypeInv'
<1>0. /\ second \in 0..MaxSecond
      /\ RecordsTyped /\ ArchiveTyped /\ JobsTyped /\ MemoryTyped /\ RequestsTyped
  BY TypeParts
<1> USE DEF JobPlaces, Working, Failing
<1>1. CASE JobStart(b)
  <2>1. JobsTyped'
    BY <1>0, <1>1, JobGotoType DEF JobStart
  <2>2. MemoryTyped'
    BY <1>0, <1>1, ExceptType DEF JobStart, MemoryTyped
  <2> QED BY <1>0, <1>1, <2>1, <2>2, PartsMakeTypes, UnchangedTypes DEF JobStart
<1>2. CASE MarkRunning(b)
  <2>1. JobsTyped'
    BY <1>0, <1>2, JobGotoType DEF MarkRunning, Continue
  <2>2. MemoryTyped'
    BY <1>0, <1>2, ExceptType DEF MarkRunning, MemoryTyped
  <2>3. RecordsTyped'
    BY <1>0, <1>2, ExceptType DEF MarkRunning, RecordsTyped
  <2> QED BY <1>0, <1>2, <2>1, <2>2, <2>3, PartsMakeTypes, UnchangedTypes DEF MarkRunning
<1>3. CASE Dump(b) \/ Export(b)
  <2>1. JobsTyped'
    BY <1>0, <1>3, JobGotoType DEF Dump, Export, Continue
  <2>2. MemoryTyped'
    <3>1. /\ UNCHANGED <<registered, cancelled>>
          /\ workDir' = workDir \/ workDir' = [workDir EXCEPT ![b] = TRUE]
      BY <1>3 DEF Dump, Export
    <3>2. workDir \in [Backups -> BOOLEAN]
      BY <1>0 DEF MemoryTyped
    <3>3. workDir' \in [Backups -> BOOLEAN]
      BY <3>1, <3>2
    <3> QED BY <1>0, <3>1, <3>3 DEF MemoryTyped
  <2> QED BY <1>0, <1>3, <2>1, <2>2, PartsMakeTypes, UnchangedTypes DEF Dump, Export
<1>4. CASE DumpKilled(b) \/ JobError(b) \/ StartFails(b)
  <2>1. JobsTyped'
    BY <1>0, <1>4, JobGotoType DEF DumpKilled, JobError, StartFails
  <2> QED BY <1>0, <1>4, <2>1, PartsMakeTypes, UnchangedTypes
      DEF DumpKilled, JobError, StartFails
<1>5. CASE Lookup(b)
  <2>1. JobsTyped'
    BY <1>0, <1>5, JobGotoType DEF Lookup
  <2>2. ArchiveTyped'
    <3>1. \/ UNCHANGED archive
          \/ \E who \in {b, Mixed} :
               archive' = [archive EXCEPT ![filename[b]] = [by |-> who, whole |-> FALSE]]
      BY <1>5 DEF Lookup
    <3>2. \A who \in {b, Mixed} : [by |-> who, whole |-> FALSE] \in
            [by : Backups \cup {NoBackup, Mixed}, whole : BOOLEAN]
      OBVIOUS
    <3>3. archive \in [Files -> [by : Backups \cup {NoBackup, Mixed}, whole : BOOLEAN]]
      BY <1>0 DEF ArchiveTyped
    <3>4. archive' \in [Files -> [by : Backups \cup {NoBackup, Mixed}, whole : BOOLEAN]]
      <4>1. CASE UNCHANGED archive
        BY <3>3, <4>1
      <4>2. ASSUME NEW who \in {b, Mixed},
                   archive' = [archive EXCEPT ![filename[b]] = [by |-> who, whole |-> FALSE]]
            PROVE  archive' \in [Files -> [by : Backups \cup {NoBackup, Mixed}, whole : BOOLEAN]]
        BY <3>2, <3>3, <4>2, ExceptType
      <4> QED BY <3>1, <4>1, <4>2
    <3> QED BY <3>4 DEF ArchiveTyped
  <2> QED BY <1>0, <1>5, <2>1, <2>2, PartsMakeTypes, UnchangedTypes DEF Lookup
<1>6. CASE Zip(b)
  <2>1. JobsTyped'
    BY <1>0, <1>6, JobGotoType DEF Zip, Continue
  <2>2. ArchiveTyped'
    <3>1. NoFile \in [by : Backups \cup {NoBackup, Mixed}, whole : BOOLEAN]
      BY DEF NoFile
    <3> QED BY <1>0, <1>6, <3>1 DEF Zip, ArchiveTyped
  <2> QED BY <1>0, <1>6, <2>1, <2>2, PartsMakeTypes, UnchangedTypes DEF Zip
<1>7. CASE Commit(b)
  <2>1. JobsTyped' /\ MemoryTyped'
    BY <1>0, <1>7, EndType, JobGotoType, UnchangedTypes DEF Commit
  <2>2. RecordsTyped'
    BY <1>0, <1>7, ExceptType DEF Commit, RecordsTyped
  <2> QED BY <1>0, <1>7, <2>1, <2>2, PartsMakeTypes, UnchangedTypes DEF Commit
<1>8. CASE Fail(b)
  <2>1. JobsTyped' /\ MemoryTyped'
    BY <1>0, <1>8, EndType DEF Fail
  <2>2. /\ UNCHANGED <<created, filename>>
        /\ \/ UNCHANGED <<status, message>>
           \/ /\ status' = [status EXCEPT ![b] = "FAILED"]
              /\ \E m \in {Cancelling, Failure} : message' = [message EXCEPT ![b] = m]
    BY <1>8 DEF Fail
  <2>3. RecordsTyped'
    BY <1>0, <2>2 DEF RecordsTyped
  <2> QED BY <1>0, <1>8, <2>1, <2>3, PartsMakeTypes, UnchangedTypes DEF Fail
<1>9. CASE FailureLost(b)
  <2>1. JobsTyped' /\ MemoryTyped'
    BY <1>0, <1>9, EndType DEF FailureLost
  <2> QED BY <1>0, <1>9, <2>1, PartsMakeTypes, UnchangedTypes DEF FailureLost
<1> QED BY <1>1, <1>2, <1>3, <1>4, <1>5, <1>6, <1>7, <1>8, <1>9 DEF JobStep

LEMMA RequestKeepsTypes ==
  ASSUME TypeInv, NEW r \in Clients, Request(r)
  PROVE  TypeInv'
<1>0. /\ second \in 0..MaxSecond
      /\ RecordsTyped /\ ArchiveTyped /\ JobsTyped /\ MemoryTyped /\ RequestsTyped
  BY TypeParts
<1> USE DEF RequestPlaces
<1>1. ASSUME NEW kind \in Kinds, GenerateCheck(r, kind) PROVE TypeInv'
  <2>1. RequestsTyped'
    <3>1. /\ pc' = [pc EXCEPT ![r] = "insert"]
          /\ ctx' = [ctx EXCEPT ![r] = [id |-> 0, kind |-> kind]]
      BY <1>1 DEF GenerateCheck
    <3>2. 0 \in 0..MaxBackups /\ "insert" \in RequestPlaces /\ kind \in Kinds \cup {"none"}
      BY BackupAssumption
    <3> QED BY <1>0, <3>1, <3>2, OpenType
  <2> QED BY <1>0, <1>1, <2>1, PartsMakeTypes, UnchangedTypes DEF GenerateCheck
<1>2. ASSUME NEW b \in Backups, CancelRead(r, b) \/ RemoveRead(r, b) PROVE TypeInv'
  <2>1. b \in 0..MaxBackups
    BY BackupAssumption DEF Backups
  <2>2. RequestsTyped'
    BY <1>0, <1>2, <2>1, OpenType DEF CancelRead, RemoveRead
  <2> QED BY <1>0, <1>2, <2>2, PartsMakeTypes, UnchangedTypes DEF CancelRead, RemoveRead
<1>3. CASE GenerateInsert(r)
  <2>1. created' \in 0..MaxBackups
    BY <1>0, <1>3, BackupAssumption DEF GenerateInsert, RecordsTyped
  <2>2. <<ctx[r].kind, second>> \in Files
    BY <1>0, <1>3 DEF GenerateInsert, RequestsTyped, InsertKnowsKind, Files
  <2>3. RecordsTyped'
    BY <1>0, <1>3, <2>1, <2>2, ExceptType DEF GenerateInsert, RecordsTyped
  <2>4. JobsTyped'
    BY <1>0, <1>3 DEF GenerateInsert, JobGoto, JobsTyped, JobPlaces
  <2>5. RequestsTyped'
    BY <1>0, <1>3, AnswerType DEF GenerateInsert
  <2> QED BY <1>0, <1>3, <2>3, <2>4, <2>5, PartsMakeTypes, UnchangedTypes DEF GenerateInsert
<1>4. CASE Cancel(r)
  <2>1. MemoryTyped'
    BY <1>0, <1>4 DEF Cancel, MemoryTyped
  <2>2. RequestsTyped'
    BY <1>0, <1>4, AwaitType DEF Cancel
  <2> QED BY <1>0, <1>4, <2>1, <2>2, PartsMakeTypes, UnchangedTypes DEF Cancel
<1>5. CASE CancelUpdate(r)
  <2>1. RecordsTyped'
    BY <1>0, <1>5, ExceptType DEF CancelUpdate, RecordsTyped
  <2>2. RequestsTyped'
    BY <1>0, <1>5, AwaitType, AnswerType DEF CancelUpdate
  <2> QED BY <1>0, <1>5, <2>1, <2>2, PartsMakeTypes, UnchangedTypes DEF CancelUpdate
<1>6. ASSUME Unlink(r) PROVE ArchiveTyped'
  <2>1. NoFile \in [by : Backups \cup {NoBackup, Mixed}, whole : BOOLEAN]
    BY DEF NoFile
  <2> QED BY <1>0, <1>6, <2>1 DEF Unlink, ArchiveTyped
<1>7. CASE CancelUnlink(r) \/ RemoveUnlink(r)
  <2>1. RequestsTyped'
    BY <1>0, <1>7, AwaitType, AnswerType DEF CancelUnlink, RemoveUnlink
  <2> QED BY <1>0, <1>6, <1>7, <2>1, PartsMakeTypes, UnchangedTypes DEF CancelUnlink, RemoveUnlink
<1>8. CASE RemoveDelete(r)
  <2>1. RecordsTyped'
    BY <1>0, <1>8, ExceptType DEF RemoveDelete, RecordsTyped
  <2>2. RequestsTyped'
    BY <1>0, <1>8, AnswerType DEF RemoveDelete
  <2> QED BY <1>0, <1>8, <2>1, <2>2, PartsMakeTypes, UnchangedTypes DEF RemoveDelete
<1> QED BY <1>1, <1>2, <1>3, <1>4, <1>5, <1>7, <1>8 DEF Request

LEMMA NextTypeInv == TypeInv /\ [Next]_vars => TypeInv'
<1> SUFFICES ASSUME TypeInv, [Next]_vars PROVE TypeInv'
  OBVIOUS
<1>0. /\ second \in 0..MaxSecond
      /\ RecordsTyped /\ ArchiveTyped /\ JobsTyped /\ MemoryTyped /\ RequestsTyped
  BY TypeParts
<1>1. CASE Crash
  <2>1. JobsTyped' /\ MemoryTyped'
    BY <1>0, <1>1 DEF Crash, JobsTyped, JobPlaces, MemoryTyped
  <2>2. NoContext \in [id : 0..MaxBackups, kind : Kinds \cup {"none"}]
    BY BackupAssumption DEF NoContext
  <2>3. RequestsTyped'
    BY <1>1, <2>2 DEF Crash, RequestsTyped, RequestPlaces, InsertKnowsKind
  <2> QED BY <1>0, <1>1, <2>1, <2>3, PartsMakeTypes, UnchangedTypes DEF Crash
<1>2. CASE Tick
  <2>1. second' \in 0..MaxSecond
    BY <1>0, <1>2, BackupAssumption DEF Tick
  <2> QED BY <1>0, <1>2, <2>1, PartsMakeTypes, UnchangedTypes DEF Tick
<1>3. CASE UNCHANGED vars
  BY <1>0, <1>3, PartsMakeTypes, UnchangedTypes DEF vars
<1> QED BY <1>1, <1>2, <1>3, JobKeepsTypes, RequestKeepsTypes
        DEF Next, NextUninterrupted

(* The rows, files, jobs and requests of backups.service.ts stay well-typed   *)
(* through failures and restarts.                                             *)
THEOREM TypeCorrect == Spec => []TypeOK
<1>1. Spec => []TypeInv
  BY InitTypeInv, NextTypeInv, PTL DEF Spec
<1> QED BY <1>1, PTL DEF TypeInv
----------------------------------------------------------------------------
(* The registry: only the job itself and a cancellation take an entry away,   *)
(* and each does it when the job ends or is flagged.                          *)
LEMMA RegistryStays ==
  ASSUME RegistryInv, UNCHANGED <<created, registered, cancelled>>,
         \A b \in Backups : \/ jobpc'[b] = jobpc[b]
                            \/ Alive(b) /\ Alive(b)'
  PROVE  RegistryInv'
<1>1. RegistryMatchesJobs'
  BY DEF RegistryInv, RegistryMatchesJobs, Alive
<1>2. Unstarted'
  BY DEF RegistryInv, Unstarted, Alive, Working, Failing
<1> QED BY <1>1, <1>2 DEF RegistryInv

LEMMA RegistryEnd ==
  ASSUME TypeOK, RegistryInv, UNCHANGED created, NEW b \in Backups, Alive(b), End(b)
  PROVE  RegistryInv'
<1>1. /\ jobpc'[b] = "done" /\ ~registered'[b] /\ UNCHANGED cancelled
      /\ \A c \in Backups : c # b => jobpc'[c] = jobpc[c] /\ registered'[c] = registered[c]
  BY DEF End, JobGoto, TypeOK
<1>2. ~Alive(b)'
  BY <1>1 DEF Alive, Working, Failing
<1>3. RegistryMatchesJobs'
  BY <1>1, <1>2 DEF RegistryInv, RegistryMatchesJobs, Alive
<1>4. Unstarted'
  BY <1>1 DEF RegistryInv, Unstarted, Alive, Working, Failing
<1> QED BY <1>3, <1>4 DEF RegistryInv

LEMMA JobKeepsRegistry ==
  ASSUME TypeOK, RegistryInv, NEW b \in Backups,
         JobStep(b) \/ JobError(b) \/ StartFails(b) \/ FailureLost(b)
  PROVE  RegistryInv'
<1>1. CASE JobStart(b)
  <2>1. /\ jobpc[b] = "scheduled" /\ jobpc'[b] = "markRunning" /\ registered'[b]
        /\ UNCHANGED <<created, cancelled>>
        /\ \A c \in Backups : c # b => jobpc'[c] = jobpc[c] /\ registered'[c] = registered[c]
    BY <1>1 DEF JobStart, JobGoto, TypeOK, records
  <2>2. ~cancelled'[b] /\ Alive(b)'
    BY <2>1 DEF RegistryInv, Unstarted, Alive, Working
  <2>3. RegistryMatchesJobs'
    BY <2>1, <2>2 DEF RegistryInv, RegistryMatchesJobs, Alive
  <2>4. Unstarted'
    BY <2>1 DEF RegistryInv, Unstarted
  <2> QED BY <2>3, <2>4 DEF RegistryInv
<1>2. ASSUME UNCHANGED <<created, registered, cancelled>>, Alive(b),
             NEW where \in Working \cup Failing \cup {"commit"}, JobGoto(b, where)
      PROVE  RegistryInv'
  <2>1. jobpc'[b] = where /\ \A c \in Backups : c # b => jobpc'[c] = jobpc[c]
    BY <1>2 DEF JobGoto, TypeOK
  <2> QED BY <1>2, <2>1, RegistryStays DEF Alive
<1>3. CASE MarkRunning(b) \/ Dump(b) \/ DumpKilled(b) \/ Export(b)
  <2>1. UNCHANGED <<created, registered, cancelled>> /\ Alive(b)
    BY <1>3 DEF MarkRunning, Dump, DumpKilled, Export, records, memory, Alive, Working
  <2>2. \E where \in Working \cup Failing : JobGoto(b, where)
    BY <1>3 DEF MarkRunning, Dump, DumpKilled, Export, Continue, Working, Failing
  <2> QED BY <1>2, <2>1, <2>2
<1>4. CASE Lookup(b) \/ Zip(b) \/ JobError(b)
  <2>1. UNCHANGED <<created, registered, cancelled>> /\ Alive(b)
    BY <1>4 DEF Lookup, Zip, JobError, records, memory, Alive, Working
  <2>2. \E where \in Working \cup Failing \cup {"commit"} : JobGoto(b, where)
    BY <1>4 DEF Lookup, Zip, JobError, Continue, Working, Failing
  <2> QED BY <1>2, <2>1, <2>2
<1>5. CASE Commit(b)
  <2>1. Alive(b) /\ UNCHANGED created
    BY <1>5 DEF Commit, Alive
  <2>2. CASE Exists(b)
    BY <1>5, <2>1, <2>2, RegistryEnd DEF Commit
  <2>3. CASE ~Exists(b)
    BY <1>2, <1>5, <2>1, <2>3 DEF Commit, memory, Failing
  <2> QED BY <2>2, <2>3
<1>6. CASE Fail(b) \/ FailureLost(b)
  <2>1. Alive(b) /\ UNCHANGED created /\ End(b)
    BY <1>6 DEF Fail, FailureLost, Alive, records
  <2> QED BY <2>1, RegistryEnd
<1>7. CASE StartFails(b)
  <2>1. /\ jobpc[b] = "scheduled" /\ jobpc'[b] = "done"
        /\ UNCHANGED <<created, registered, cancelled>>
        /\ \A c \in Backups : c # b => jobpc'[c] = jobpc[c]
    BY <1>7 DEF StartFails, JobGoto, TypeOK, records, memory
  <2>2. RegistryMatchesJobs'
    BY <2>1 DEF RegistryInv, RegistryMatchesJobs, Alive, Working, Failing
  <2>3. Unstarted'
    BY <2>1 DEF RegistryInv, Unstarted
  <2> QED BY <2>2, <2>3 DEF RegistryInv
<1> QED BY <1>1, <1>3, <1>4, <1>5, <1>6, <1>7 DEF JobStep

LEMMA RequestKeepsRegistry ==
  ASSUME TypeOK, RegistryInv, NEW r \in Clients, Request(r)
  PROVE  RegistryInv'
<1>1. CASE GenerateInsert(r)
  <2>1. PICK b \in Backups : b = created' /\ b > created
    BY <1>1, BackupAssumption DEF GenerateInsert, TypeOK, Backups
  <2>2. /\ jobpc'[b] = "scheduled" /\ UNCHANGED <<registered, cancelled>>
        /\ \A c \in Backups : c # b => jobpc'[c] = jobpc[c]
    BY <1>1, <2>1 DEF GenerateInsert, JobGoto, memory, TypeOK
  <2>3. jobpc[b] = "none"
    BY <2>1 DEF RegistryInv, Unstarted
  <2>4. ~Alive(b) /\ ~Alive(b)' /\ ~cancelled[b]
    BY <2>2, <2>3 DEF Alive, Working, Failing, RegistryInv, Unstarted
  <2>5. RegistryMatchesJobs'
    BY <2>2, <2>4 DEF RegistryInv, RegistryMatchesJobs, Alive
  <2>6. \A c \in Backups : c > created' => c > created /\ c # b
    BY <1>1, <2>1, BackupAssumption DEF GenerateInsert, TypeOK, Backups
  <2>7. Unstarted'
    BY <2>2, <2>4, <2>6 DEF RegistryInv, Unstarted
  <2> QED BY <2>5, <2>7 DEF RegistryInv
<1>2. CASE Cancel(r)
  <2> DEFINE b == ctx[r].id
  <2>1. /\ UNCHANGED <<created, jobpc>>
        /\ b \in Backups => ~registered'[b] /\ (cancelled'[b] <=> cancelled[b] \/ registered[b])
        /\ \A c \in Backups : c # b =>
              registered'[c] = registered[c] /\ cancelled'[c] = cancelled[c]
    BY <1>2 DEF Cancel, records, TypeOK
  <2>2. RegistryMatchesJobs'
    BY <2>1 DEF RegistryInv, RegistryMatchesJobs, Alive
  <2>3. Unstarted'
    BY <2>1 DEF RegistryInv, RegistryMatchesJobs, Unstarted, Alive, Working, Failing
  <2> QED BY <2>2, <2>3 DEF RegistryInv
<1>3. ASSUME UNCHANGED <<created, jobpc, registered, cancelled>> PROVE RegistryInv'
  BY <1>3, RegistryStays
<1>4. ASSUME NEW kind \in Kinds, GenerateCheck(r, kind) PROVE RegistryInv'
  BY <1>3, <1>4 DEF GenerateCheck, records, memory
<1>5. ASSUME NEW b \in Backups, CancelRead(r, b) \/ RemoveRead(r, b) PROVE RegistryInv'
  BY <1>3, <1>5 DEF CancelRead, RemoveRead, records, memory
<1>6. CASE CancelUpdate(r) \/ CancelUnlink(r) \/ RemoveUnlink(r) \/ RemoveDelete(r)
  BY <1>3, <1>6 DEF CancelUpdate, CancelUnlink, RemoveUnlink, RemoveDelete, records, memory
<1> QED BY <1>1, <1>2, <1>4, <1>5, <1>6 DEF Request

LEMMA InitRegistryInv == Init => RegistryInv
  BY DEF Init, RegistryInv, RegistryMatchesJobs, Unstarted, Alive, Working, Failing

LEMMA NextRegistryInv == TypeInv /\ RegistryInv /\ [Next]_vars => RegistryInv'
<1> SUFFICES ASSUME TypeOK, RegistryInv, [Next]_vars PROVE RegistryInv'
  BY DEF TypeInv
<1>1. CASE Crash
  <2>1. \A b \in Backups : jobpc'[b] = "none" /\ ~registered'[b] /\ ~cancelled'[b]
    BY <1>1 DEF Crash
  <2> QED BY <2>1 DEF RegistryInv, RegistryMatchesJobs, Unstarted, Alive, Working, Failing
<1>2. CASE Tick \/ UNCHANGED vars
  BY <1>2, RegistryStays DEF Tick, vars, records, memory
<1> QED BY <1>1, <1>2, JobKeepsRegistry, RequestKeepsRegistry
        DEF Next, NextUninterrupted

(* A cancellation finds exactly the running jobs nobody has cancelled yet in  *)
(* activeBackupProcesses, whatever fails and whenever the process restarts.   *)
THEOREM RegistryCorrect == Spec => []RegistryMatchesJobs
<1>1. Spec => [](TypeInv /\ RegistryInv)
  BY InitRegistryInv, InitTypeInv, NextTypeInv, NextRegistryInv, PTL DEF Spec
<1> QED BY <1>1, PTL DEF RegistryInv
-----------------------------------------------------------------------------
(* Work directories: whatever a cancellation removes, the job may create once *)
(* more, but only while it runs, and its finally block comes last.            *)
LEMMA NextLeavesNothing == TypeInv /\ RegistryInv /\ NothingLeftInTmp /\ [NextUninterrupted]_vars => NothingLeftInTmp'
<1> SUFFICES ASSUME TypeOK, RegistryInv, NothingLeftInTmp, [NextUninterrupted]_vars PROVE NothingLeftInTmp'
  BY DEF TypeInv
<1> USE DEF NothingLeftInTmp
<1>1. ASSUME NEW b \in Backups, Alive(b)', \A c \in Backups \ {b} : UNCHANGED <<workDir[c], jobpc[c]>>
      PROVE  NothingLeftInTmp'
  BY <1>1 DEF Alive
<1>2. ASSUME NEW b \in Backups, End(b)
      PROVE  NothingLeftInTmp'
  <2>1. ~workDir'[b] /\ \A c \in Backups \ {b} : UNCHANGED <<workDir[c], jobpc[c]>>
    BY <1>2 DEF End, JobGoto, TypeOK
  <2> QED BY <2>1 DEF Alive
<1>3. ASSUME NEW b \in Backups, NEW where \in Working \cup Failing \cup {"commit"}, JobGoto(b, where),
             workDir' \in {workDir, [workDir EXCEPT ![b] = TRUE]}
      PROVE  NothingLeftInTmp'
  <2>1. jobpc'[b] = where /\ \A c \in Backups \ {b} : UNCHANGED <<workDir[c], jobpc[c]>>
    BY <1>3 DEF JobGoto, TypeOK
  <2> QED BY <1>1, <1>3, <2>1 DEF Alive
<1>4. ASSUME UNCHANGED jobpc, \A c \in Backups : workDir'[c] => workDir[c]
      PROVE  NothingLeftInTmp'
  BY <1>4 DEF Alive
<1>5. ASSUME NEW b \in Backups, JobStep(b) \/ JobError(b)
      PROVE  NothingLeftInTmp'
  <2>1. CASE JobStart(b) \/ MarkRunning(b) \/ Dump(b) \/ DumpKilled(b) \/ Export(b) \/ JobError(b)
    BY <1>3, <2>1 DEF JobStart, MarkRunning, Dump, DumpKilled, Export, JobError, Continue, memory, Working, Failing
  <2>2. CASE Lookup(b) \/ Zip(b)
    BY <1>3, <2>2 DEF Lookup, Zip, Continue, memory, Working, Failing
  <2>3. CASE Commit(b)
    BY <1>2, <1>3, <2>3 DEF Commit, memory, Failing
  <2>4. CASE Fail(b)
    BY <1>2, <2>4 DEF Fail
  <2> QED BY <1>5, <2>1, <2>2, <2>3, <2>4 DEF JobStep
<1>6. ASSUME NEW r \in Clients, Request(r)
      PROVE  NothingLeftInTmp'
  <2>1. CASE GenerateInsert(r)
    <3>1. PICK b \in Backups : b = created' /\ b > created
      BY <2>1, BackupAssumption DEF GenerateInsert, TypeOK, Backups
    <3>2. ~workDir[b]
      BY <3>1 DEF RegistryInv, Unstarted, Alive, Working, Failing
    <3> QED BY <2>1, <3>1, <3>2 DEF GenerateInsert, JobGoto, memory, TypeOK, Alive
  <2>2. CASE Cancel(r)
    BY <1>4, <2>2 DEF Cancel, TypeOK
  <2>3. ASSUME UNCHANGED <<jobpc, workDir>> PROVE NothingLeftInTmp'
    BY <1>4, <2>3
  <2> QED BY <1>6, <2>1, <2>2, <2>3
          DEF Request, GenerateCheck, CancelRead, RemoveRead, CancelUpdate, CancelUnlink, RemoveUnlink,
              RemoveDelete, memory
<1>7. CASE Tick \/ UNCHANGED vars
  BY <1>4, <1>7 DEF Tick, vars, memory
<1> QED BY <1>5, <1>6, <1>7 DEF NextUninterrupted

LEMMA UninterruptedIsSafe == SpecUninterrupted => [](TypeInv /\ RegistryInv)
<1>1. SpecUninterrupted => Spec
  <2>1. NextUninterrupted => Next
    BY DEF Next
  <2> QED BY <2>1, PTL DEF SpecUninterrupted, Spec
<1>2. Spec => [](TypeInv /\ RegistryInv)
  BY InitRegistryInv, InitTypeInv, NextTypeInv, NextRegistryInv, PTL DEF Spec
<1> QED BY <1>1, <1>2, PTL

(* While the process lives, a job that ends, however it was cancelled or      *)
(* failed, leaves nothing in tmp.                                             *)
THEOREM NothingIsLeft == SpecUninterrupted => []NothingLeftInTmp
<1>1. Init => NothingLeftInTmp
  BY DEF Init, NothingLeftInTmp
<1> QED BY <1>1, UninterruptedIsSafe, NextLeavesNothing, PTL DEF SpecUninterrupted
-----------------------------------------------------------------------------
(* Early cancellations. Once a job is flagged before its last look at the     *)
(* flag it can only fail: no step of its own completes its record, and nobody *)
(* else writes COMPLETED, not even after a restart.                           *)
Completers == \A b \in Backups : status[b] = "COMPLETED" => jobpc[b] \in {"none", "done"}
Doomed(b) ==
  /\ b <= created /\ status[b] # "COMPLETED"
  /\ \/ jobpc[b] \in {"none", "done"} \cup Failing
     \/ cancelled[b] /\ jobpc[b] \in Working

(* What any step may do to one backup: complete it, which is the job's last   *)
(* step but one, or leave it uncompleted.                                     *)
LEMMA OneBackup ==
  ASSUME TypeOK, RegistryInv, [Next]_vars, NEW b \in Backups, b <= created
  PROVE  /\ b <= created'
         /\ \/ Commit(b) /\ jobpc[b] = "commit" /\ jobpc'[b] \in {"done", "failError"}
            \/ /\ status'[b] = "COMPLETED" => status[b] = "COMPLETED"
               /\ \/ jobpc'[b] = jobpc[b] /\ (cancelled[b] => cancelled'[b])
                  \/ jobpc[b] = "scheduled" /\ jobpc'[b] = "markRunning" /\ status'[b] = status[b]
                  \/ jobpc'[b] = "none"
                  \/ /\ jobpc[b] \in Working /\ (status[b] # "COMPLETED" => status'[b] # "COMPLETED")
                     /\ \/ cancelled' = cancelled /\ jobpc'[b] \in Working
                        \/ jobpc'[b] \in Failing
                        \/ ~cancelled[b] /\ jobpc[b] = "zip" /\ jobpc'[b] = "commit"
                  \/ jobpc'[b] \in Failing \cup {"done"} /\ jobpc[b] \notin {"none", "done"}
<1>1. CASE Crash
  BY <1>1 DEF Crash, records
<1>2. CASE Tick \/ UNCHANGED vars
  BY <1>2 DEF Tick, vars, records, memory
<1>3. ASSUME NEW c \in Backups, JobStep(c) \/ JobError(c) \/ StartFails(c) \/ FailureLost(c)
      PROVE  /\ created' = created
             /\ c # b => status'[b] = status[b] /\ jobpc'[b] = jobpc[b] /\ cancelled'[b] = cancelled[b]
  <2> USE DEF TypeOK, JobGoto, Continue, End, records, memory
  <2>1. CASE JobStart(c) \/ MarkRunning(c) \/ Dump(c) \/ DumpKilled(c) \/ Export(c)
    BY <2>1 DEF JobStart, MarkRunning, Dump, DumpKilled, Export
  <2>2. CASE Lookup(c) \/ Zip(c) \/ Commit(c) \/ Fail(c)
    BY <2>2 DEF Lookup, Zip, Commit, Fail
  <2>3. CASE JobError(c) \/ StartFails(c) \/ FailureLost(c)
    BY <2>3 DEF JobError, StartFails, FailureLost
  <2> QED BY <1>3, <2>1, <2>2, <2>3 DEF JobStep
<1>4. ASSUME NEW c \in Backups, c # b, JobStep(c) \/ JobError(c) \/ StartFails(c) \/ FailureLost(c)
      PROVE  UNCHANGED created /\ status'[b] = status[b] /\ jobpc'[b] = jobpc[b] /\ cancelled'[b] = cancelled[b]
  BY <1>3, <1>4
<1>5. CASE JobStep(b) \/ JobError(b) \/ StartFails(b) \/ FailureLost(b)
  <2>0. UNCHANGED created
    BY <1>3, <1>5
  <2> USE <2>0 DEF TypeOK, JobGoto, Continue, End, records, memory, Working, Failing
  <2>1. CASE JobStart(b)
    BY <2>1 DEF JobStart
  <2>2. CASE MarkRunning(b)
    BY <2>2 DEF MarkRunning
  <2>3. CASE Dump(b) \/ DumpKilled(b) \/ Export(b) \/ JobError(b)
    BY <2>3 DEF Dump, DumpKilled, Export, JobError
  <2>4. CASE Lookup(b) \/ Zip(b)
    BY <2>4 DEF Lookup, Zip
  <2>5. CASE Commit(b)
    BY <2>5 DEF Commit
  <2>6. CASE Fail(b) \/ StartFails(b) \/ FailureLost(b)
    BY <2>6 DEF Fail, StartFails, FailureLost
  <2> QED BY <1>5, <2>1, <2>2, <2>3, <2>4, <2>5, <2>6 DEF JobStep
<1>6. ASSUME NEW r \in Clients, Request(r)
      PROVE  /\ b <= created' /\ (status'[b] = "COMPLETED" => status[b] = "COMPLETED")
             /\ jobpc'[b] = jobpc[b] /\ (cancelled[b] => cancelled'[b])
  <2>1. CASE GenerateInsert(r)
    <3>1. created' = created + 1 /\ created' \in Backups /\ b # created'
      BY <2>1, BackupAssumption DEF GenerateInsert, TypeOK, Backups
    <3> QED BY <2>1, <3>1, BackupAssumption DEF GenerateInsert, JobGoto, memory, TypeOK, Backups
  <2>2. CASE Cancel(r)
    BY <2>2 DEF Cancel, records, TypeOK
  <2>3. CASE CancelUpdate(r) \/ RemoveDelete(r)
    BY <2>3 DEF CancelUpdate, RemoveDelete, memory, TypeOK
  <2>4. ASSUME UNCHANGED <<records, jobpc, memory>>
        PROVE  UNCHANGED <<created, status, jobpc, cancelled>>
    BY <2>4 DEF records, memory
  <2> QED BY <1>6, <2>1, <2>2, <2>3, <2>4
          DEF Request, GenerateCheck, CancelRead, RemoveRead, CancelUnlink, RemoveUnlink
<1> QED BY <1>1, <1>2, <1>4, <1>5, <1>6 DEF Next, NextUninterrupted

LEMMA NewBackupPending ==
  ASSUME TypeOK, [Next]_vars, NEW b \in Backups, b > created, b <= created'
  PROVE  status'[b] = "PENDING"
<1>1. created' # created
  BY BackupAssumption DEF TypeOK, Backups
<1>2. PICK r \in Clients : GenerateInsert(r)
  <2> USE <1>1 DEF records
  <2>1. \A c \in Backups : ~(JobStep(c) \/ JobError(c) \/ StartFails(c) \/ FailureLost(c))
    BY DEF JobStep, JobStart, MarkRunning, Dump, DumpKilled, Export, Lookup, Zip, Commit, Fail, JobError,
           StartFails, FailureLost
  <2>2. ~Tick /\ ~Crash /\ ~(UNCHANGED vars)
    BY DEF Tick, Crash, vars
  <2>3. \A r \in Clients : Request(r) => GenerateInsert(r)
    BY DEF Request, GenerateCheck, CancelRead, RemoveRead, Cancel, CancelUpdate, CancelUnlink, RemoveUnlink,
           RemoveDelete
  <2> QED BY <2>1, <2>2, <2>3 DEF Next, NextUninterrupted
<1>3. b = created'
  BY <1>2, BackupAssumption DEF GenerateInsert, TypeOK, Backups
<1> QED BY <1>2, <1>3 DEF GenerateInsert, TypeOK

LEMMA NextCompleters == TypeInv /\ RegistryInv /\ RegistryInv' /\ Completers /\ [Next]_vars => Completers'
<1> SUFFICES ASSUME TypeOK, RegistryInv, RegistryInv', Completers, [Next]_vars,
                    NEW b \in Backups, status'[b] = "COMPLETED"
             PROVE  jobpc'[b] \in {"none", "done"}
  BY DEF TypeInv, Completers
<1>1. CASE b <= created
  BY <1>1, OneBackup DEF Completers, Commit, Exists, End, JobGoto, TypeOK, Working
<1>2. CASE b > created /\ b <= created'
  BY <1>2, NewBackupPending
<1>3. CASE b > created'
  BY <1>3 DEF RegistryInv, Unstarted
<1>4. created \in Nat /\ created' \in Nat
  <2>1. created' = created \/ created' = created + 1
    BY BackupAssumption DEF Next, NextUninterrupted, JobStep, JobStart, MarkRunning, Dump, DumpKilled, Export,
       Lookup, Zip, Commit, Fail, JobError, StartFails, FailureLost, Request, GenerateCheck, GenerateInsert,
       CancelRead, RemoveRead, Cancel, CancelUpdate, CancelUnlink, RemoveUnlink, RemoveDelete, Tick, Crash,
       vars, records
  <2> QED BY <2>1, BackupAssumption DEF TypeOK
<1> QED BY <1>1, <1>2, <1>3, <1>4 DEF Backups

LEMMA DoomedStays ==
  ASSUME NEW b \in Backups
  PROVE  TypeInv /\ RegistryInv /\ Doomed(b) /\ [Next]_vars => Doomed(b)'
<1> SUFFICES ASSUME TypeOK, RegistryInv, Doomed(b), [Next]_vars PROVE Doomed(b)'
  BY DEF TypeInv
<1> QED BY OneBackup DEF Doomed, Working, Failing

(* EarlyCancelNeverCompletes, for any number of administrators and backups,   *)
(* and however jobs fail and the process restarts.                            *)
THEOREM EarlyCancelsHold == Spec => EarlyCancelNeverCompletes
<1> SUFFICES ASSUME NEW b \in Backups
             PROVE  Spec => [](cancelled[b] /\ jobpc[b] \in Working => [](status[b] # "COMPLETED"))
  BY DEF EarlyCancelNeverCompletes
<1>1. Init => Completers
  BY DEF Init, Completers
<1>2. Spec => [](TypeInv /\ RegistryInv /\ Completers)
  BY <1>1, InitRegistryInv, InitTypeInv, NextTypeInv, NextRegistryInv, NextCompleters, PTL DEF Spec
<1>3. TypeInv /\ RegistryInv /\ Completers /\ cancelled[b] /\ jobpc[b] \in Working => Doomed(b)
  BY BackupAssumption DEF RegistryInv, Unstarted, Completers, Doomed, Working, TypeInv, TypeOK, Backups
<1>4. Doomed(b) => status[b] # "COMPLETED"
  BY DEF Doomed
<1> QED BY <1>2, <1>3, <1>4, DoomedStays, PTL DEF Spec
-----------------------------------------------------------------------------
(* Archives. A backup whose file name is its own has its archive from the     *)
(* moment its job closes it. Only a cancellation or a removal takes it away;  *)
(* while it is at it, the request is the excuse, and afterwards the message   *)
(* of the record, its absence, or the failure that was written later.         *)
Excused(b) == message[b] = Cancelling \/ status[b] = "absent" \/ \E r \in Clients : ctx[r].id = b
Settled(b) == status[b] = "FAILED" /\ jobpc[b] = "done"

IdsGivenOut ==
  /\ \A b \in Backups : IF b > created THEN filename[b] = <<"none", 0>> /\ status[b] = "absent"
                        ELSE filename[b] \in Files
  /\ \A r \in Clients : IF pc[r] \in {"idle", "insert"} THEN ctx[r].id = 0
                        ELSE ctx[r].id \in Backups /\ ctx[r].id <= created
CancellationsTold ==
  \A r \in Clients : pc[r] = "cancelUnlink" =>
    \/ message[ctx[r].id] = Cancelling \/ status[ctx[r].id] = "absent" \/ Settled(ctx[r].id)
ArchiveKept(b) ==
  b <= created /\ Unshared(b) =>
    /\ jobpc[b] = "zip" => archive[filename[b]].by = b \/ Excused(b)
    /\ jobpc[b] = "commit" \/ status[b] = "COMPLETED" =>
         archive[filename[b]] = [by |-> b, whole |-> TRUE] \/ Excused(b)
ArchiveInv == IdsGivenOut /\ CancellationsTold /\ \A b \in Backups : ArchiveKept(b)

(* Job steps: ids, requests and file names stay, and so do the records of     *)
(* other backups.                                                             *)
LEMMA JobTouchesItsOwn ==
  ASSUME TypeOK, NEW b \in Backups, JobStep(b) \/ JobError(b)
  PROVE  /\ UNCHANGED <<created, filename, requests>>
         /\ \A c \in Backups \ {b} : UNCHANGED <<status[c], message[c], jobpc[c]>>
         /\ \A f \in Files : f # filename[b] => archive'[f] = archive[f]
         /\ status[b] = "absent" => status'[b] = "absent"
<1> USE DEF TypeOK, JobGoto, Continue, End, records, memory, Exists
<1>1. CASE JobStart(b) \/ MarkRunning(b) \/ Dump(b) \/ DumpKilled(b) \/ Export(b) \/ JobError(b)
  BY <1>1 DEF JobStart, MarkRunning, Dump, DumpKilled, Export, JobError
<1>2. CASE Lookup(b) \/ Zip(b)
  BY <1>2 DEF Lookup, Zip
<1>3. CASE Commit(b) \/ Fail(b)
  BY <1>3 DEF Commit, Fail
<1> QED BY <1>1, <1>2, <1>3 DEF JobStep

LEMMA JobKeepsIds ==
  ASSUME TypeOK, RegistryInv, IdsGivenOut, NEW b \in Backups, JobStep(b) \/ JobError(b)
  PROVE  IdsGivenOut'
<1>1. UNCHANGED <<created, filename, requests>>
  BY JobTouchesItsOwn
<1>2. \A c \in Backups : c > created => status'[c] = "absent"
  BY JobTouchesItsOwn DEF IdsGivenOut
<1> QED BY <1>1, <1>2 DEF IdsGivenOut, requests

\* Failing is the only way a job takes back what a cancellation wrote.
LEMMA JobKeepsMessage ==
  ASSUME TypeOK, NEW b \in Backups, JobStep(b) \/ JobError(b)
  PROVE  \/ message'[b] = message[b]
         \/ status'[b] = "FAILED" /\ jobpc'[b] = "done"
<1> USE DEF TypeOK, JobGoto, End, records
<1>1. CASE Fail(b)
  BY <1>1 DEF Fail
<1>2. CASE JobError(b) \/ JobStart(b) \/ MarkRunning(b) \/ Dump(b) \/ DumpKilled(b) \/ Export(b) \/ Lookup(b)
           \/ Zip(b) \/ Commit(b)
  BY <1>2 DEF JobError, JobStart, MarkRunning, Dump, DumpKilled, Export, Lookup, Zip, Commit
<1> QED BY <1>1, <1>2 DEF JobStep

LEMMA JobKeepsTold ==
  ASSUME TypeOK, IdsGivenOut, CancellationsTold, NEW b \in Backups, JobStep(b) \/ JobError(b)
  PROVE  CancellationsTold'
<1> SUFFICES ASSUME NEW r \in Clients, pc'[r] = "cancelUnlink"
             PROVE  \/ message'[ctx'[r].id] = Cancelling \/ status'[ctx'[r].id] = "absent"
                    \/ Settled(ctx[r].id)'
  BY DEF CancellationsTold, Settled
<1>1. pc[r] = "cancelUnlink" /\ ctx'[r].id = ctx[r].id /\ ctx[r].id \in Backups
  BY JobTouchesItsOwn DEF requests, IdsGivenOut
<1>2. CASE ctx[r].id # b
  BY <1>1, <1>2, JobTouchesItsOwn DEF CancellationsTold, Settled
<1>3. CASE ctx[r].id = b
  <2>1. jobpc[b] # "done"
    BY DEF JobStep, JobError, JobStart, MarkRunning, Dump, DumpKilled, Export, Lookup, Zip, Commit, Fail,
           Working, Failing
  <2> QED BY <1>1, <1>3, <2>1, JobTouchesItsOwn, JobKeepsMessage DEF CancellationsTold, Settled
<1> QED BY <1>2, <1>3

LEMMA JobKeepsArchives ==
  ASSUME TypeOK, Completers, IdsGivenOut, NEW b \in Backups, JobStep(b) \/ JobError(b),
         \A c \in Backups : ArchiveKept(c)
  PROVE  \A c \in Backups : ArchiveKept(c)'
<1> SUFFICES ASSUME NEW c \in Backups, c <= created, Unshared(c) PROVE ArchiveKept(c)'
  BY JobTouchesItsOwn DEF ArchiveKept, Unshared
<1>0. filename' = filename /\ ctx' = ctx /\ created' = created /\ filename[c] \in Files
  BY JobTouchesItsOwn, BackupAssumption DEF requests, IdsGivenOut, TypeOK, Backups
<1>1. CASE c # b
  <2>1. filename[c] # filename[b]
    BY <1>1 DEF Unshared
  <2>2. archive'[filename[c]] = archive[filename[c]] /\ UNCHANGED <<status[c], message[c], jobpc[c]>>
    BY <1>0, <1>1, <2>1, JobTouchesItsOwn
  <2> QED BY <1>0, <2>2 DEF ArchiveKept, Excused, Unshared
<1>2. CASE c = b
  <2> SUFFICES /\ jobpc'[b] = "zip" => archive'[filename[b]].by = b \/ Excused(b)'
               /\ jobpc'[b] = "commit" \/ status'[b] = "COMPLETED" =>
                    archive'[filename[b]] = [by |-> b, whole |-> TRUE] \/ Excused(b)'
    BY <1>0, <1>2 DEF ArchiveKept
  <2>1. b <= created /\ Unshared(b) /\ ArchiveKept(b) /\ filename[b] \in Files
    BY <1>0, <1>2
  <2>2. status[b] # "COMPLETED"
    BY DEF Completers, JobStep, JobError, JobStart, MarkRunning, Dump, DumpKilled, Export, Lookup, Zip, Commit,
           Fail, Working, Failing
  <2> USE DEF TypeOK, JobGoto, Continue, End, records, Exists
  <2>3. CASE JobStart(b) \/ MarkRunning(b) \/ Dump(b) \/ DumpKilled(b) \/ Export(b) \/ JobError(b) \/ Fail(b)
    BY <2>2, <2>3 DEF JobStart, MarkRunning, Dump, DumpKilled, Export, JobError, Fail
  <2>4. CASE Lookup(b)
    <3>1. ~\E d \in Backups : jobpc[d] = "zip" /\ filename[d] = filename[b]
      BY <2>1, <2>4 DEF Lookup, Unshared
    <3> QED BY <2>1, <2>2, <2>4, <3>1 DEF Lookup
  <2>5. CASE Zip(b)
    <3>1. archive[filename[b]] \in [by : Backups \cup {NoBackup, Mixed}, whole : BOOLEAN]
      BY <2>1
    <3>2. CASE cancelled[b]
      BY <2>2, <2>5, <3>2 DEF Zip
    <3>3. CASE ~cancelled[b] /\ archive[filename[b]].by = b
      BY <2>1, <2>2, <2>5, <3>1, <3>3 DEF Zip
    <3>4. CASE ~cancelled[b] /\ archive[filename[b]].by # b
      <4>1. Excused(b) /\ UNCHANGED <<message, status, ctx>> /\ jobpc'[b] = "commit"
        BY <1>0, <2>1, <2>5, <3>4 DEF Zip, ArchiveKept
      <4> QED BY <4>1 DEF Excused
    <3> QED BY <3>2, <3>3, <3>4
  <2>6. CASE Commit(b)
    <3>1. UNCHANGED <<message, archive, ctx>> /\ jobpc[b] = "commit" /\ jobpc'[b] # "zip" /\ jobpc'[b] # "commit"
      BY <1>0, <2>6 DEF Commit
    <3>2. CASE Exists(b)
      BY <2>1, <3>1, <3>2 DEF ArchiveKept, Excused
    <3>3. CASE ~Exists(b)
      BY <2>2, <2>6, <3>1, <3>3 DEF Commit
    <3> QED BY <3>2, <3>3
  <2> QED BY <2>3, <2>4, <2>5, <2>6 DEF JobStep
<1> QED BY <1>1, <1>2

LEMMA InsertKeepsArchives ==
  ASSUME TypeInv, RegistryInv, ArchiveInv, NEW r \in Clients, GenerateInsert(r)
  PROVE  ArchiveInv'
<1> USE DEF TypeInv, TypeOK
<1>1. PICK n \in Backups : n = created' /\ created' = created + 1 /\ n > created
  BY BackupAssumption DEF GenerateInsert, Backups
<1>2. /\ status' = [status EXCEPT ![n] = "PENDING"] /\ jobpc' = [jobpc EXCEPT ![n] = "scheduled"]
      /\ filename' = [filename EXCEPT ![n] = <<ctx[r].kind, second>>]
      /\ UNCHANGED <<message, archive>>
      /\ pc' = [pc EXCEPT ![r] = "idle"] /\ ctx' = [ctx EXCEPT ![r] = NoContext] /\ ctx[r].id = 0
  BY <1>1 DEF GenerateInsert, JobGoto, Answer, ArchiveInv, IdsGivenOut
<1>3. <<ctx[r].kind, second>> \in Files
  BY DEF GenerateInsert, InsertKnowsKind, Files
<1>4. \A c \in Backups : c <= created' <=> c <= created \/ c = n
  BY <1>1, BackupAssumption DEF Backups
<1>5. IdsGivenOut'
  <2>1. \A c \in Backups : IF c > created' THEN filename'[c] = <<"none", 0>> /\ status'[c] = "absent"
                           ELSE filename'[c] \in Files
    BY <1>1, <1>2, <1>3, <1>4, BackupAssumption DEF ArchiveInv, IdsGivenOut, Backups
  <2>2. \A q \in Clients : IF pc'[q] \in {"idle", "insert"} THEN ctx'[q].id = 0
                           ELSE ctx'[q].id \in Backups /\ ctx'[q].id <= created'
    BY <1>2, <1>4 DEF ArchiveInv, IdsGivenOut, NoContext
  <2> QED BY <2>1, <2>2 DEF IdsGivenOut
<1>6. CancellationsTold'
  <2> SUFFICES ASSUME NEW q \in Clients, pc'[q] = "cancelUnlink"
               PROVE  \/ message'[ctx'[q].id] = Cancelling \/ status'[ctx'[q].id] = "absent"
                      \/ Settled(ctx[q].id)'
    BY <1>2 DEF CancellationsTold, Settled
  <2>1. pc[q] = "cancelUnlink" /\ ctx'[q] = ctx[q] /\ ctx[q].id \in Backups /\ ctx[q].id <= created
    BY <1>2 DEF ArchiveInv, IdsGivenOut
  <2>2. ctx[q].id # n
    BY <1>1, <2>1, BackupAssumption DEF Backups
  <2> QED BY <1>2, <2>1, <2>2 DEF ArchiveInv, CancellationsTold, Settled
<1>7. ASSUME NEW c \in Backups, c <= created', Unshared(c)' PROVE ArchiveKept(c)'
  <2>1. CASE c = n
    BY <1>2, <2>1 DEF ArchiveKept
  <2>2. CASE c # n
    <3>1. c <= created /\ filename'[c] = filename[c] /\ filename[c] \in Files
      BY <1>2, <1>4, <1>7, <2>2, BackupAssumption DEF ArchiveInv, IdsGivenOut, Backups
    <3>2. filename[n] = <<"none", 0>> /\ filename[c] # filename[n]
      BY <1>1, <3>1, BackupAssumption DEF ArchiveInv, IdsGivenOut, Files
    <3>3. Unshared(c)
      BY <1>2, <1>7, <3>1, <3>2 DEF Unshared
    <3>4. Excused(c) => Excused(c)'
      <4>1. \A q \in Clients : ctx[q].id = c => ctx'[q].id = c
        BY <1>2, BackupAssumption DEF Backups
      <4> QED BY <1>2, <2>2, <4>1 DEF Excused
    <3> QED BY <1>2, <2>2, <3>1, <3>3, <3>4 DEF ArchiveInv, ArchiveKept
  <2> QED BY <2>1, <2>2
<1> QED BY <1>5, <1>6, <1>7 DEF ArchiveInv, ArchiveKept

(* A request with one backup in its hands: it changes the record and the file *)
(* of that backup at most, and is its excuse until it answers.                *)
LEMMA RequestKeepsArchives ==
  ASSUME TypeInv, ArchiveInv, NEW r \in Clients, Request(r), ~GenerateInsert(r)
  PROVE  ArchiveInv'
<1> USE DEF TypeInv, TypeOK
<1> DEFINE mine == ctx'[r].id
<1>1. UNCHANGED <<created, filename, jobpc>> /\ \A q \in Clients \ {r} : UNCHANGED <<pc[q], ctx[q]>>
  BY DEF Request, GenerateCheck, CancelRead, RemoveRead, Cancel, CancelUpdate, CancelUnlink, RemoveUnlink,
         RemoveDelete, records, memory, Answer, Await
<1>2. IF pc'[r] \in {"idle", "insert"} THEN mine = 0 ELSE mine \in Backups /\ mine <= created
  <2>1. ASSUME NEW kind \in Kinds, GenerateCheck(r, kind) PROVE pc'[r] = "insert" /\ mine = 0
    BY <2>1 DEF GenerateCheck
  <2>2. ASSUME NEW b \in Backups, CancelRead(r, b) \/ RemoveRead(r, b)
        PROVE  pc'[r] \notin {"idle", "insert"} /\ mine = b /\ b <= created
    <3>1. status[b] # "absent"
      BY <2>2 DEF CancelRead, RemoveRead, Active, Exists
    <3>2. b <= created
      BY <3>1, BackupAssumption DEF ArchiveInv, IdsGivenOut, Backups
    <3> QED BY <2>2, <3>2 DEF CancelRead, RemoveRead
  <2>3. CASE Cancel(r) \/ CancelUpdate(r) \/ CancelUnlink(r) \/ RemoveUnlink(r) \/ RemoveDelete(r)
    BY <2>3 DEF Cancel, CancelUpdate, CancelUnlink, RemoveUnlink, RemoveDelete, Answer, Await, NoContext,
                ArchiveInv, IdsGivenOut
  <2> QED BY <2>1, <2>2, <2>3 DEF Request
<1>3. /\ \A b \in Backups : b # ctx[r].id => UNCHANGED <<status[b], message[b]>>
      /\ \A f \in Files : (ctx[r].id \in Backups /\ f = filename[ctx[r].id]) \/ archive'[f] = archive[f]
      /\ \A b \in Backups : status[b] = "absent" => status'[b] = "absent"
      /\ \A b \in Backups : status'[b] = "COMPLETED" => status[b] = "COMPLETED"
  BY DEF Request, GenerateCheck, CancelRead, RemoveRead, Cancel, CancelUpdate, CancelUnlink, RemoveUnlink,
         RemoveDelete, Unlink, records, memory, ArchiveInv, IdsGivenOut, Exists
<1>4. IdsGivenOut'
  <2>1. \A b \in Backups : b > created => status'[b] = "absent"
    BY <1>3 DEF ArchiveInv, IdsGivenOut
  <2>2. \A q \in Clients : IF pc'[q] \in {"idle", "insert"} THEN ctx'[q].id = 0
                           ELSE ctx'[q].id \in Backups /\ ctx'[q].id <= created
    BY <1>1, <1>2 DEF ArchiveInv, IdsGivenOut
  <2> QED BY <1>1, <2>1, <2>2 DEF ArchiveInv, IdsGivenOut
<1> DEFINE Told(b) == message[b] = Cancelling \/ status[b] = "absent" \/ Settled(b)
<1>5. \A b \in Backups : Told(b) => Told(b)'
  <2>1. CASE CancelUpdate(r) \/ RemoveDelete(r)
    BY <1>1, <2>1 DEF CancelUpdate, RemoveDelete, Settled, Exists, ArchiveInv, IdsGivenOut
  <2>2. CASE UNCHANGED <<status, message>>
    BY <1>1, <2>2 DEF Settled
  <2> QED BY <2>1, <2>2 DEF Request, GenerateCheck, CancelRead, RemoveRead, Cancel, CancelUnlink, RemoveUnlink,
             records
<1>6. pc'[r] = "cancelUnlink" => Told(ctx[r].id)'
  <2> SUFFICES ASSUME pc'[r] = "cancelUnlink" PROVE CancelUpdate(r) /\ Exists(ctx[r].id)
    BY DEF CancelUpdate, Await, ArchiveInv, IdsGivenOut
  <2> QED BY DEF Request, GenerateCheck, CancelRead, RemoveRead, Cancel, CancelUpdate, CancelUnlink, RemoveUnlink,
                 RemoveDelete, Answer, Await
<1>7. CancellationsTold'
  BY <1>1, <1>5, <1>6 DEF ArchiveInv, CancellationsTold, IdsGivenOut
<1>8. ASSUME NEW b \in Backups, b <= created, Unshared(b) PROVE ArchiveKept(b)'
  <2>1. CASE ctx[r].id # b
    <3>1. Excused(b) => Excused(b)'
      BY <1>1, <1>3, <2>1 DEF Excused
    <3>2. filename[b] \in Files /\ archive'[filename[b]] = archive[filename[b]]
      BY <1>3, <1>8, <2>1, BackupAssumption DEF Unshared, ArchiveInv, IdsGivenOut, Backups
    <3> QED BY <1>1, <1>3, <1>8, <2>1, <3>1, <3>2 DEF ArchiveInv, ArchiveKept
  <2>2. CASE ctx[r].id = b /\ ctx'[r].id = b
    BY <2>2 DEF ArchiveKept, Excused
  <2>3. CASE ctx[r].id = b /\ ctx'[r].id # b
    <3>1. pc[r] \notin {"idle", "insert"}
      BY <2>3, BackupAssumption DEF ArchiveInv, IdsGivenOut, Backups
    <3>2. (CancelUpdate(r) /\ ~Exists(b)) \/ CancelUnlink(r) \/ RemoveDelete(r)
      BY <2>3, <3>1 DEF Request, GenerateCheck, CancelRead, RemoveRead, Cancel, CancelUpdate, RemoveUnlink, Await
    <3>3. Told(b)'
      BY <1>5, <2>3, <3>2 DEF CancelUpdate, CancelUnlink, RemoveDelete, ArchiveInv, CancellationsTold, Exists
    <3> QED BY <3>3 DEF ArchiveKept, Excused, Settled
  <2> QED BY <2>1, <2>2, <2>3
<1> QED BY <1>1, <1>4, <1>7, <1>8 DEF ArchiveInv, ArchiveKept, Unshared

LEMMA NextKeepsArchives ==
  TypeInv /\ RegistryInv /\ Completers /\ ArchiveInv /\ [NextUninterrupted]_vars => ArchiveInv'
<1> SUFFICES ASSUME TypeInv, RegistryInv, Completers, ArchiveInv, [NextUninterrupted]_vars PROVE ArchiveInv'
  OBVIOUS
<1>1. ASSUME NEW b \in Backups, JobStep(b) \/ JobError(b) PROVE ArchiveInv'
  BY <1>1, JobKeepsIds, JobKeepsTold, JobKeepsArchives DEF ArchiveInv, TypeInv
<1>2. ASSUME NEW r \in Clients, Request(r) PROVE ArchiveInv'
  BY <1>2, InsertKeepsArchives, RequestKeepsArchives
<1>3. CASE Tick \/ UNCHANGED vars
  BY <1>3 DEF Tick, vars, records, memory, requests, ArchiveInv, IdsGivenOut, CancellationsTold, Settled,
              ArchiveKept, Excused, Unshared
<1> QED BY <1>1, <1>2, <1>3 DEF NextUninterrupted

(* A completed backup has its archive, whatever is cancelled and removed      *)
(* beside it, as long as no other backup was given its file name.             *)
THEOREM CompletedKeepsArchive == SpecUninterrupted => []CompletedHasArchive
<1>1. Init => Completers /\ ArchiveInv
  BY BackupAssumption DEF Init, Completers, ArchiveInv, IdsGivenOut, CancellationsTold, ArchiveKept, NoContext,
                          Backups
<1>2. TypeInv /\ RegistryInv /\ RegistryInv' /\ Completers /\ [NextUninterrupted]_vars => Completers'
  BY NextCompleters DEF Next
<1>3. SpecUninterrupted => [](TypeInv /\ Completers /\ ArchiveInv)
  BY <1>1, <1>2, UninterruptedIsSafe, NextKeepsArchives, PTL DEF SpecUninterrupted
<1>4. TypeInv /\ Completers /\ ArchiveInv => CompletedHasArchive
  <2> SUFFICES ASSUME TypeInv, ArchiveInv, NEW b \in Backups,
                      status[b] = "COMPLETED", message[b] # Cancelling, Unshared(b)
               PROVE  archive[filename[b]] = [by |-> b, whole |-> TRUE] \/ \E r \in Clients : ctx[r].id = b
    BY DEF CompletedHasArchive
  <2>1. b <= created
    BY BackupAssumption DEF ArchiveInv, IdsGivenOut, TypeInv, TypeOK, Backups
  <2> QED BY <2>1 DEF ArchiveInv, ArchiveKept, Excused
<1> QED BY <1>3, <1>4, PTL
=============================================================================
