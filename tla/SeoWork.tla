------------------------------ MODULE SeoWork ------------------------------
(* SEO tasks and daily work logs (seo.service.ts). Executives log their work, *)
(* managers approve or reject it, and the approval of the last log completes  *)
(* a task. Apart from the items of a log nothing is written in a transaction. *)
(* Items, times and scores are left out; what matters is who decides a log.   *)
(* What a client sends is chosen where the code first uses it; a check of     *)
(* something that never changes is one step with the write it guards. Any     *)
(* user may have several requests running.                                    *)
EXTENDS Integers, Sequences

CONSTANTS Managers,    \* SUPER_ADMIN and SEO_MANAGER
          Executives,  \* SEO_EXECUTIVE
          Days,        \* a website and a date
          Tasks,       \* ids of SEO tasks
          NoTask,
          Requests,    \* bound: requests running at a time
          MaxLogs      \* bound: daily logs ever made

Users == Managers \cup Executives
TaskStatuses == {"pending", "in_progress", "ready_for_review", "completed"}
NotSent == "not_sent"  \* an optional field that the client leaves out

VARIABLES logs,    \* seo_daily_work_logs in id order
          tasks,   \* seo_tasks
          pc, ctx, \* requests: next await, who sent it and what it keeps
          cleared  \* history: logs that a manager once approved

vars == <<logs, tasks, pc, ctx, cleared>>

NoRow == [status |-> "absent"]
Ids == DOMAIN logs
Exists(l) == logs[l].status # "absent"
TaskExists(t) == tasks[t].status # "absent"
OfDay(u, d) == {l \in Ids : Exists(l) /\ logs[l].exec = u /\ logs[l].day = d}
OfTask(t) == {l \in Ids : Exists(l) /\ logs[l].task = t}

Idle == [op |-> "none"]
Goto(r, where, what) == pc' = [pc EXCEPT ![r] = where] /\ ctx' = [ctx EXCEPT ![r] = what]
Answer(r) == Goto(r, "idle", Idle)
who(r) == ctx[r].user
IsPrivileged(u) == u \in Managers
\* assertLogStatusAllowed: the statuses that a user may send.
MaySendAnything(u) == {NotSent, "draft", "submitted", "approved", "rejected"}
MaySend(u) == {NotSent, "draft", "submitted"} \cup IF IsPrivileged(u) THEN {"approved", "rejected"} ELSE {}
Or(s, default) == IF s = NotSent THEN default ELSE s
Clearing(u, ids, s) == cleared' = IF s = "approved" /\ IsPrivileged(u) THEN cleared \cup ids ELSE cleared

Init ==
  /\ logs = << >>
  /\ tasks = [t \in Tasks |-> NoRow]
  /\ pc = [r \in Requests |-> "idle"]
  /\ ctx = [r \in Requests |-> Idle]
  /\ cleared = {}
----------------------------------------------------------------------------
(* createDailyLog. A log of the same executive and day takes the items        *)
(* instead, but the one of the caller, on whosever behalf the request was.    *)
Create(r, u, exec, d) ==
  /\ pc[r] = "idle"
  /\ IsPrivileged(u) \/ exec = u
  /\ IF OfDay(exec, d) = {} THEN Goto(r, "insert", [user |-> u, exec |-> exec, day |-> d])
     ELSE Goto(r, "find", [user |-> u, exec |-> u, day |-> d])
  /\ UNCHANGED <<logs, tasks, cleared>>

\* Log and items in one transaction; the unique key of executive, website and
\* date refuses the second of two that found none.
NewLog(u, exec, d, t, sent, default) ==
  IF OfDay(exec, d) # {} \/ (t # NoTask /\ ~TaskExists(t)) THEN UNCHANGED <<logs, cleared>>
  ELSE /\ Len(logs) < MaxLogs
       /\ logs' = Append(logs, [exec |-> exec, day |-> d, task |-> t, status |-> Or(sent, default)])
       /\ Clearing(u, {Len(logs) + 1}, sent)
Insert(r) ==
  /\ pc[r] = "insert"
  /\ \E t \in Tasks \cup {NoTask}, s \in MaySend(who(r)) : NewLog(who(r), ctx[r].exec, ctx[r].day, t, s, "draft")
  /\ Answer(r)
  /\ UNCHANGED tasks

(* addItemsToDailyLog: a status that is not sent is the one that was read at  *)
(* the start of the transaction, and it is written back at its end.           *)
AddItems(r, u, d) ==
  /\ pc[r] = "idle"
  /\ Goto(r, "find", [user |-> u, exec |-> u, day |-> d])
  /\ UNCHANGED <<logs, tasks, cleared>>

Find(r) ==
  /\ pc[r] = "find"
  /\ LET own == OfDay(ctx[r].exec, ctx[r].day)
     IN  IF own = {}
           THEN /\ \E t \in Tasks \cup {NoTask}, s \in MaySend(who(r)) :
                     NewLog(who(r), ctx[r].exec, ctx[r].day, t, s, "submitted")
                /\ Answer(r)
           ELSE /\ \E l \in own : Goto(r, "add", [user |-> who(r), log |-> l, status |-> logs[l].status])
                /\ UNCHANGED <<logs, cleared>>
  /\ UNCHANGED tasks

Add(r) ==
  /\ pc[r] = "add"
  /\ LET l == ctx[r].log
     IN  IF ~Exists(l) THEN UNCHANGED <<logs, cleared>>
         ELSE \E s \in MaySend(who(r)) :
                /\ logs' = [logs EXCEPT ![l].status = Or(s, ctx[r].status)]
                /\ Clearing(who(r), {l}, s)
  /\ Answer(r)
  /\ UNCHANGED tasks
----------------------------------------------------------------------------
(* updateDailyLog: what an executive may edit is decided before the write.    *)
Edit(r, u, l) ==
  /\ pc[r] = "idle" /\ Exists(l)
  /\ IsPrivileged(u) \/ (logs[l].exec = u /\ logs[l].status \in {"draft", "rejected"})
  /\ Goto(r, "update", [user |-> u, log |-> l])
  /\ UNCHANGED <<logs, tasks, cleared>>
Update(r) ==
  /\ pc[r] = "update"
  /\ LET l == ctx[r].log
     IN  IF ~Exists(l) THEN UNCHANGED <<logs, cleared>>
         ELSE \E s \in MaySend(who(r)) : /\ logs' = [logs EXCEPT ![l].status = Or(s, @)]
                                    /\ Clearing(who(r), {l}, s)
  /\ Answer(r)
  /\ UNCHANGED tasks

\* The items and their proofs cascade.
Delete(r, u, l) ==
  /\ pc[r] = "idle" /\ Exists(l)
  /\ IsPrivileged(u) \/ logs[l].exec = u
  /\ logs' = [logs EXCEPT ![l] = NoRow]
  /\ UNCHANGED <<tasks, pc, ctx, cleared>>

(* approveDailyLog and rejectDailyLog: the log, then its task.                *)
Decide(r, u, l, s) ==
  /\ pc[r] = "idle" /\ Exists(l)
  /\ IsPrivileged(u)
  /\ logs' = [logs EXCEPT ![l].status = s]
  /\ Clearing(u, {l}, s)
  /\ IF logs[l].task = NoTask THEN UNCHANGED <<pc, ctx>>
     ELSE Goto(r, IF s = "approved" THEN "others" ELSE "return", [user |-> u, log |-> l, task |-> logs[l].task])
  /\ UNCHANGED tasks

\* The task is complete when no other log of it waits for a manager or was
\* sent back; the timeline entry before it fails if the task has gone.
Others(r) ==
  /\ pc[r] = "others"
  /\ IF /\ TaskExists(ctx[r].task)
        /\ \A l \in OfTask(ctx[r].task) \ {ctx[r].log} : logs[l].status \notin {"submitted", "rejected"}
       THEN Goto(r, "complete", [user |-> who(r), task |-> ctx[r].task]) ELSE Answer(r)
  /\ UNCHANGED <<logs, tasks, cleared>>

TaskBecomes(t, s) == IF TaskExists(t) THEN tasks' = [tasks EXCEPT ![t].status = s] ELSE UNCHANGED tasks
Settle(r, where, s) ==
  /\ pc[r] = where
  /\ TaskBecomes(ctx[r].task, s)
  /\ Answer(r)
  /\ UNCHANGED <<logs, cleared>>
Complete(r) == Settle(r, "complete", "completed")
Return(r) == Settle(r, "return", "in_progress")
----------------------------------------------------------------------------
(* Tasks. Whoever may edit one sets status and executive to anything.         *)
Rest == UNCHANGED <<logs, pc, ctx, cleared>>
MayEdit(u, t) == IsPrivileged(u) \/ tasks[t].exec = u

CreateTask(r, u, t, exec) ==
  /\ pc[r] = "idle" /\ IsPrivileged(u) /\ ~TaskExists(t)
  /\ tasks' = [tasks EXCEPT ![t] = [status |-> "pending", exec |-> exec]]
  /\ Rest
EditTask(r, u, t, s, exec) ==
  /\ pc[r] = "idle" /\ TaskExists(t) /\ MayEdit(u, t)
  /\ tasks' = [tasks EXCEPT ![t] = [status |-> s, exec |-> exec]]
  /\ Rest
MarkReady(r, u, t) ==
  /\ pc[r] = "idle" /\ TaskExists(t) /\ MayEdit(u, t)
  /\ TaskBecomes(t, "ready_for_review")
  /\ Rest

\* reviewTask: the task, then every submitted log of it.
Review(r, u, t, s) ==
  /\ pc[r] = "idle" /\ TaskExists(t) /\ IsPrivileged(u)
  /\ TaskBecomes(t, IF s = "approved" THEN "completed" ELSE "in_progress")
  /\ Goto(r, "reviewLogs", [user |-> u, task |-> t, status |-> s])
  /\ UNCHANGED <<logs, cleared>>
ReviewLogs(r) ==
  /\ pc[r] = "reviewLogs"
  /\ LET waiting == {l \in OfTask(ctx[r].task) : logs[l].status = "submitted"}
     IN  /\ logs' = [l \in Ids |-> IF l \in waiting THEN [logs[l] EXCEPT !.status = ctx[r].status] ELSE logs[l]]
         /\ Clearing(who(r), waiting, ctx[r].status)
  /\ Answer(r)
  /\ UNCHANGED tasks

\* The logs of a deleted task stay, without a task.
DeleteTask(r, u, t) ==
  /\ pc[r] = "idle" /\ IsPrivileged(u) /\ TaskExists(t)
  /\ tasks' = [tasks EXCEPT ![t] = NoRow]
  /\ logs' = [l \in Ids |-> IF l \in OfTask(t) THEN [logs[l] EXCEPT !.task = NoTask] ELSE logs[l]]
  /\ UNCHANGED <<pc, ctx, cleared>>
----------------------------------------------------------------------------
LogStep(r) ==
  \/ \E u \in Users :
       \/ \E d \in Days : AddItems(r, u, d) \/ \E exec \in Executives \cup {u} : Create(r, u, exec, d)
       \/ \E l \in Ids : \/ Edit(r, u, l) \/ Delete(r, u, l)
                         \/ \E s \in {"approved", "rejected"} : Decide(r, u, l, s)
  \/ Insert(r) \/ Find(r) \/ Add(r) \/ Update(r) \/ Others(r) \/ Complete(r) \/ Return(r)
TaskStep(r) ==
  \/ \E u \in Users, t \in Tasks :
       \/ DeleteTask(r, u, t) \/ MarkReady(r, u, t)
       \/ \E s \in {"approved", "rejected"} : Review(r, u, t, s)
       \/ \E exec \in Executives : CreateTask(r, u, t, exec) \/ \E s \in TaskStatuses : EditTask(r, u, t, s, exec)
  \/ ReviewLogs(r)

Next == \E r \in Requests : LogStep(r) \/ TaskStep(r)
Spec == Init /\ [][Next]_vars
----------------------------------------------------------------------------
(* "No self-approval" (assertLogStatusAllowed): a log is approved only if     *)
(* some manager has approved this very log, at whatever time. That a status   *)
(* read before is written back can restore an approval, never invent one.     *)
NoSelfApproval == \A l \in Ids : Exists(l) /\ logs[l].status = "approved" => l \in cleared
=============================================================================
