----------------------------- MODULE TaskFiles -----------------------------
(* Uploads to one task (task-files.service.ts). The content goes to disk      *)
(* first, then the earlier revisions of the name are counted, then the row is *)
(* made; only the failure of that last step removes the file again. Who may   *)
(* do all this is the matter of ProjectScopes.                                *)
EXTENDS Integers, Sequences, FiniteSets

CONSTANTS Names,      \* display names: uploads of one name are its revisions
          Requests,   \* bound: requests running at a time
          MaxUploads, \* bound: uploads ever begun
          NoContent

VARIABLES files,    \* task_files in id order; raced: history, see Insert
          disk,     \* media/task_files, whose names are never used again
          uploads,  \* how many uploads were begun
          pc, ctx,  \* requests: next await, what they keep
          lost      \* history: content of uploads that failed to count

vars == <<files, disk, uploads, pc, ctx, lost>>

Idle == [op |-> "none"]
Goto(r, where, what) == pc' = [pc EXCEPT ![r] = where] /\ ctx' = [ctx EXCEPT ![r] = what]
Answer(r) == Goto(r, "idle", Idle)
Revisions(name) == {i \in DOMAIN files : files[i].name = name}

Init ==
  /\ files = << >> /\ disk = {} /\ uploads = 0
  /\ pc = [r \in Requests |-> "idle"]
  /\ ctx = [r \in Requests |-> Idle]
  /\ lost = {}
----------------------------------------------------------------------------
\* A body without a file makes a row without content.
Upload(r, name, withFile) ==
  /\ pc[r] = "idle" /\ uploads < MaxUploads
  /\ uploads' = uploads + 1
  /\ disk' = IF withFile THEN disk \cup {uploads'} ELSE disk
  /\ Goto(r, "count", [name |-> name, content |-> IF withFile THEN uploads' ELSE NoContent])
  /\ UNCHANGED <<files, lost>>

\* Revisions that were deleted count as well.
NumberOfLive(name) == Cardinality({i \in Revisions(name) : ~files[i].deleted}) + 1
Number(name) == Cardinality(Revisions(name)) + 1
Count(r) ==
  /\ pc[r] = "count"
  /\ Goto(r, "insert", [name |-> ctx[r].name, content |-> ctx[r].content,
                       revision |-> Number(ctx[r].name), seen |-> Revisions(ctx[r].name)])
  /\ UNCHANGED <<files, disk, uploads, lost>>
CountFails(r) ==
  /\ pc[r] = "count"
  /\ Answer(r)
  /\ lost' = lost \cup {ctx[r].content}
  /\ UNCHANGED <<files, disk, uploads>>

\* raced: a row of the same name has come since the count.
Insert(r) ==
  /\ pc[r] = "insert"
  /\ files' = Append(files, [name |-> ctx[r].name, revision |-> ctx[r].revision, content |-> ctx[r].content,
                             deleted |-> FALSE, raced |-> Revisions(ctx[r].name) # ctx[r].seen])
  /\ Answer(r)
  /\ UNCHANGED <<disk, uploads, lost>>
InsertFails(r) ==
  /\ pc[r] = "insert"
  /\ disk' = disk \ {ctx[r].content}
  /\ Answer(r)
  /\ UNCHANGED <<files, uploads, lost>>

\* The row only: the content stays.
Remove(i) ==
  /\ files' = [files EXCEPT ![i].deleted = TRUE]
  /\ UNCHANGED <<disk, uploads, pc, ctx, lost>>

Next ==
  \/ \E r \in Requests :
       \/ \E name \in Names, withFile \in BOOLEAN : Upload(r, name, withFile)
       \/ Count(r) \/ CountFails(r) \/ Insert(r) \/ InsertFails(r)
  \/ \E i \in DOMAIN files : Remove(i)
Spec == Init /\ [][Next]_vars
----------------------------------------------------------------------------
(* Each row keeps its content; content without a row belongs to an upload     *)
(* that still runs or that failed to count; and the revisions of a name       *)
(* differ, unless another upload of it got in between count and row.          *)
Contents == {files[i].content : i \in DOMAIN files}
InFlight == {ctx[r].content : r \in {q \in Requests : pc[q] # "idle"}}
RevisionsAreKept ==
  /\ Contents \subseteq disk \cup {NoContent}
  /\ disk \subseteq Contents \cup InFlight \cup lost
  /\ \A i, j \in DOMAIN files : i < j /\ files[i].name = files[j].name /\ ~files[j].raced
       => files[i].revision < files[j].revision
=============================================================================
