---------------------------- MODULE ProjectWork ----------------------------
(* One project: its members, milestones and tasks, who is assigned to them,   *)
(* and the figures that are worked out from them (projects.service.ts,        *)
(* members.service.ts, milestones.service.ts, tasks.service.ts,               *)
(* progress-aggregation.service.ts). Nothing runs in a transaction: a request *)
(* writes its row, then the assignments one by one, then reads and stores the *)
(* figures, while others do the same. A check is one step with the write that *)
(* follows it where nothing it looks at is used any later.                    *)
EXTENDS Integers, FiniteSets, Functions

CONSTANTS Milestones, Tasks,
          People,     \* staff that may become members
          NoMilestone,
          TaskStatuses,  \* of "todo", "in_progress", "done" and "blocked"
          Typed,      \* milestone and project progress that is typed in
          Requests    \* bound: requests running at a time

NotSent == "not_sent"  \* an optional field that the client leaves out

VARIABLES project,    \* the row: deleted or not, status, progress
          milestones, \* by id: exists, status, progress
          tasks,      \* by id: "absent", "active" or "deleted" (deleted_at)
          assigned,   \* task_assignments: one row at most by task and employee
          members,    \* project_members
          pc, ctx,    \* requests: next await, what they keep
          disturbed   \* history: requests during which another one acted

vars == <<project, milestones, tasks, assigned, members, pc, ctx, disturbed>>

Active(t) == tasks[t].is = "active"
Live(m) == milestones[m].exists
Assignees(t) == {p \in People : assigned[t][p] = "active"}
OfMilestone(m) == {t \in Tasks : Active(t) /\ tasks[t].milestone = m}

Idle == [op |-> "none"]
Busy == {r \in Requests : pc[r] # "idle"}
Goto(r, where, what) == pc' = [pc EXCEPT ![r] = where] /\ ctx' = [ctx EXCEPT ![r] = what]
Answer(r) == Goto(r, "idle", Idle)
\* A request begins: it and those that run already disturb each other.
Meanwhile(r) == disturbed' = IF Busy = {} THEN {} ELSE Busy \cup {r}

Init ==
  /\ project = [deleted |-> FALSE, status |-> "not_started", progress |-> 0]
  /\ milestones = [m \in Milestones |-> [exists |-> FALSE, status |-> "not_started", progress |-> 0]]
  /\ tasks = [t \in Tasks |-> [is |-> "absent", status |-> "todo", milestone |-> NoMilestone]]
  /\ assigned = [t \in Tasks |-> [p \in People |-> "never"]]
  /\ members = {}
  /\ pc = [r \in Requests |-> "idle"]
  /\ ctx = [r \in Requests |-> Idle]
  /\ disturbed = {}
----------------------------------------------------------------------------
(* The figures (taskProgressMap and the statuses that follow from them).      *)
Worth(status) == CASE status = "in_progress" -> 50 [] status = "done" -> 100 [] OTHER -> 0
Average(f) == IF DOMAIN f = {} THEN 0 ELSE SumFunction(f) \div Cardinality(DOMAIN f)
StatusFor(progress, blocked) ==
  IF blocked THEN "blocked"
  ELSE CASE progress = 0 -> "not_started" [] progress = 100 -> "completed" [] OTHER -> "in_progress"
Figures(progress, blocked) == [status |-> StatusFor(progress, blocked), progress |-> progress]
Shows(figures) == [exists |-> TRUE, status |-> figures.status, progress |-> figures.progress]
MilestoneFigures(m) ==
  Figures(Average([t \in OfMilestone(m) |-> Worth(tasks[t].status)]),
          \E t \in OfMilestone(m) : tasks[t].status = "blocked")
ProjectFigures ==
  LET S == {m \in Milestones : Live(m)}
  IN  Figures(Average([m \in S |-> milestones[m].progress]), \E m \in S : milestones[m].status = "blocked")

(* recalculateMilestoneProgress, then recalculateProjectProgress: each reads  *)
(* and later stores. A milestone that has gone ends the request.              *)
Recalculate(r, m, what) == Goto(r, IF m = NoMilestone THEN "readProject" ELSE "readMilestone", what)
Rows == <<project, milestones, tasks, assigned, members, disturbed>>

ReadMilestone(r) ==
  /\ pc[r] = "readMilestone"
  /\ LET m == ctx[r].milestone
     IN  IF Live(m) THEN Goto(r, "storeMilestone", [ctx[r] EXCEPT !.figures = MilestoneFigures(m)]) ELSE Answer(r)
  /\ UNCHANGED Rows
StoreMilestone(r) ==
  /\ pc[r] = "storeMilestone"
  /\ LET m == ctx[r].milestone
     IN  IF Live(m) THEN /\ milestones' = [milestones EXCEPT ![m] = Shows(ctx[r].figures)]
                         /\ Goto(r, "readProject", ctx[r])
         ELSE Answer(r) /\ UNCHANGED milestones
  /\ UNCHANGED <<project, tasks, assigned, members, disturbed>>
ReadProject(r) ==
  /\ pc[r] = "readProject"
  /\ Goto(r, "storeProject", [ctx[r] EXCEPT !.figures = ProjectFigures])
  /\ UNCHANGED Rows
StoreProject(r) ==
  /\ pc[r] = "storeProject"
  /\ project' = [project EXCEPT !.status = ctx[r].figures.status, !.progress = ctx[r].figures.progress]
  /\ Answer(r)
  /\ UNCHANGED <<milestones, tasks, assigned, members, disturbed>>
----------------------------------------------------------------------------
(* Tasks. What a request keeps: its task, the milestone it will recalculate   *)
(* and who shall be assigned: {} if that was not sent, else {assigneeIds}.    *)
InProject == ~project.deleted
Request(t, m, wanted) == [op |-> "task", task |-> t, milestone |-> m, wanted |-> wanted, todo |-> {}, figures |-> Idle]
References(m, wanted) == (m \in Milestones => Live(m)) /\ \A ids \in wanted : ids \subseteq members
Continue(r, t, m, wanted) ==
  IF wanted = {} THEN Recalculate(r, m, Request(t, m, wanted))
  ELSE Goto(r, "readAssignments", Request(t, m, wanted))

Create(r, t, m, s, wanted) ==
  /\ pc[r] = "idle" /\ InProject /\ tasks[t].is = "absent"
  /\ References(m, wanted)
  /\ tasks' = [tasks EXCEPT ![t] = [is |-> "active", status |-> s, milestone |-> m]]
  /\ Continue(r, t, m, wanted)
  /\ Meanwhile(r)
  /\ UNCHANGED <<project, milestones, assigned, members>>

\* A manager's update. The milestone recalculated is the one the task has now;
\* one that it was moved away from keeps the figures it had.
After(m, t) == IF m = NotSent THEN tasks[t].milestone ELSE m
RecalculatedBefore(m, t) == tasks[t].milestone
Recalculated(m, t) == After(m, t)
Update(r, t, m, s, wanted) ==
  /\ pc[r] = "idle" /\ InProject /\ Active(t)
  /\ References(m, wanted)
  /\ tasks' = [tasks EXCEPT ![t].status = s, ![t].milestone = After(m, t)]
  /\ Continue(r, t, Recalculated(m, t), wanted)
  /\ Meanwhile(r)
  /\ UNCHANGED <<project, milestones, assigned, members>>

\* Anyone else: own tasks in a project in scope, status and progress only.
UpdateOwn(r, p, t, s) ==
  /\ p \in members /\ p \in Assignees(t)
  /\ Update(r, t, NotSent, s, {})

Remove(r, t) ==
  /\ pc[r] = "idle" /\ InProject /\ Active(t)
  /\ tasks' = [tasks EXCEPT ![t].is = "deleted"]
  /\ Recalculate(r, tasks[t].milestone, Request(t, tasks[t].milestone, {}))
  /\ Meanwhile(r)
  /\ UNCHANGED <<project, milestones, assigned, members>>

(* syncAssignments: the rows are read once, deleted ones included; each write *)
(* is an await of its own. A row that another request inserted meanwhile is a *)
(* duplicate key, which fails the request before anything is recalculated.    *)
Todo(t, wanted) ==
  {<<p, "restore">> : p \in {q \in wanted : assigned[t][q] = "deleted"}}
    \cup {<<p, "end">> : p \in Assignees(t) \ wanted}
    \cup {<<p, "insert">> : p \in {q \in wanted : assigned[t][q] = "never"}}
ReadAssignments(r) ==
  /\ pc[r] = "readAssignments"
  /\ Goto(r, "assign", [ctx[r] EXCEPT !.todo = Todo(ctx[r].task, UNION ctx[r].wanted)])
  /\ UNCHANGED Rows

Assign(r) ==
  /\ pc[r] = "assign"
  /\ LET t == ctx[r].task todo == ctx[r].todo IN
     IF todo = {} THEN Recalculate(r, ctx[r].milestone, ctx[r]) /\ UNCHANGED assigned
     ELSE \E do \in todo :
            /\ do[2] = "insert" => \A other \in todo : other[2] = "insert"
            /\ IF do[2] = "insert" /\ assigned[t][do[1]] # "never" THEN Answer(r) /\ UNCHANGED assigned
               ELSE /\ assigned' = [assigned EXCEPT ![t][do[1]] = IF do[2] = "end" THEN "deleted" ELSE "active"]
                    /\ Goto(r, "assign", [ctx[r] EXCEPT !.todo = todo \ {do}])
  /\ UNCHANGED <<project, milestones, tasks, members, disturbed>>
----------------------------------------------------------------------------
(* Milestones are given any figures; deleting one leaves its tasks without.   *)
MilestoneRequest == [op |-> "milestone", figures |-> Idle]
WriteMilestone(r, m, exists, figures) ==
  /\ pc[r] = "idle" /\ InProject /\ Live(m) = exists
  /\ milestones' = [milestones EXCEPT ![m] = Shows(figures)]
  /\ Goto(r, "readProject", MilestoneRequest)
  /\ Meanwhile(r)
  /\ UNCHANGED <<project, tasks, assigned, members>>
CreateMilestone(r, m, figures) == WriteMilestone(r, m, FALSE, figures)
UpdateMilestone(r, m, figures) == WriteMilestone(r, m, TRUE, figures)
RemoveMilestone(r, m) ==
  /\ pc[r] = "idle" /\ InProject /\ Live(m)
  /\ milestones' = [milestones EXCEPT ![m] = [exists |-> FALSE, status |-> "not_started", progress |-> 0]]
  /\ tasks' = [t \in Tasks |-> IF tasks[t].milestone = m THEN [tasks[t] EXCEPT !.milestone = NoMilestone] ELSE tasks[t]]
  /\ Goto(r, "readProject", MilestoneRequest)
  /\ Meanwhile(r)
  /\ UNCHANGED <<project, assigned, members>>

(* The project itself may be given any figures as well. Members come and go;  *)
(* their assignments are left as they are.                                    *)
Quick(r) == pc[r] = "idle" /\ Meanwhile(r) /\ UNCHANGED <<milestones, tasks, assigned, pc, ctx>>
UpdateProject(r, figures) ==
  /\ Quick(r) /\ InProject
  /\ project' = [project EXCEPT !.status = figures.status, !.progress = figures.progress]
  /\ UNCHANGED members
RemoveProject(r) ==
  /\ Quick(r) /\ InProject
  /\ project' = [project EXCEPT !.deleted = TRUE]
  /\ UNCHANGED members
AddMember(r, p) == Quick(r) /\ InProject /\ p \notin members /\ members' = members \cup {p} /\ UNCHANGED project
RemoveMember(r, p) == Quick(r) /\ InProject /\ p \in members /\ members' = members \ {p} /\ UNCHANGED project
----------------------------------------------------------------------------
GivenFigures == {Figures(progress, FALSE) : progress \in Typed}
Next == \E r \in Requests :
  \/ \E t \in Tasks :
       \/ Remove(r, t)
       \/ \E s \in TaskStatuses :
            \/ \E p \in People : UpdateOwn(r, p, t, s)
            \/ \E wanted \in {{}} \cup {{ids} : ids \in SUBSET People} :
                 \/ \E m \in Milestones \cup {NoMilestone} : Create(r, t, m, s, wanted)
                 \/ \E m \in Milestones \cup {NoMilestone, NotSent} : Update(r, t, m, s, wanted)
  \/ ReadAssignments(r) \/ Assign(r)
  \/ ReadMilestone(r) \/ StoreMilestone(r) \/ ReadProject(r) \/ StoreProject(r)
  \/ \E m \in Milestones :
       \/ RemoveMilestone(r, m)
       \/ \E figures \in GivenFigures : CreateMilestone(r, m, figures) \/ UpdateMilestone(r, m, figures)
  \/ RemoveProject(r)
  \/ \E figures \in GivenFigures : UpdateProject(r, figures)
  \/ \E p \in People : AddMember(r, p) \/ RemoveMember(r, p)
Spec == Init /\ [][Next]_vars
----------------------------------------------------------------------------
(* "Makes the task's active assignments match assigneeIds" and "Recalculates  *)
(* overall progress": when a request has succeeded during which nothing else  *)
(* happened, the assignees of its task are those that were asked for, and the *)
(* figures of the task's milestone and of the project are what they should    *)
(* be now, whatever rows and figures earlier races have left behind.          *)
Agrees(row, figures) == row.status = figures.status /\ row.progress = figures.progress
Succeeds(r) == pc[r] = "storeProject" /\ pc'[r] = "idle" /\ r \notin disturbed
TookEffect(c) ==
  /\ \A ids \in c.wanted : Assignees(c.task) = ids
  /\ Active(c.task) /\ tasks[c.task].milestone # NoMilestone =>
       Agrees(milestones[tasks[c.task].milestone], MilestoneFigures(tasks[c.task].milestone))
UndisturbedRequestTakesEffect ==
  [][\A r \in Requests : Succeeds(r) =>
       /\ Agrees(project', ProjectFigures')
       /\ \A c \in {ctx[r]} : c.op = "task" => TookEffect(c)']_vars
=============================================================================
