--------------------------- MODULE WorkSessions ---------------------------
(* The work sessions of one user (tracking.service.ts): heartbeats of the     *)
(* portal and of desktop trackers, batches that a tracker collected off line, *)
(* and logouts. Nothing is locked and nothing is a transaction: a request is  *)
(* a chain of statements that other devices of the user interleave with.      *)
(* Users share nothing. Productive and idle seconds, the moves and the keys   *)
(* are counted together as one unit of tracked time per report.               *)
EXTENDS Sums, Sequences, FiniteSets

CONSTANTS Requests,     \* request slots
          Portal,       \* the device id "default"
          Trackers,     \* the other device ids
          NoDevice,
          Apps,         \* application and window title of a report
          MaxBatch,     \* reports in a batch
          Timeout,      \* five minutes
          Tolerance,    \* the two seconds within which a heartbeat is a duplicate
          MaxTime, MaxSessions, MaxReports  \* bounds: clock, rows, requests

Devices == Trackers \cup {Portal}

ASSUME TrackingAssumption ==
  /\ Portal \notin Trackers /\ NoDevice \notin Devices
  /\ {Timeout, Tolerance, MaxTime, MaxSessions, MaxReports, MaxBatch} \subseteq Nat

VARIABLES now,        \* the clock
          sessions,   \* tracking_work_session, in id order
          activities, \* tracking_app_activity, in id order
          reports,    \* how much was sent (bounds the model)
          pc, ctx,    \* requests: next statement, what they keep
          torn,       \* history: sessions on which a request died half-way
          latest      \* history: the last heartbeat a device got an answer to

rows == <<sessions, activities>>
requestState == <<pc, ctx>>
vars == <<now, rows, reports, requestState, torn, latest>>

NoTime == -1
SessionIds == 1..Len(sessions)
ActivityIds == 1..Len(activities)

NewSession(device, login, ping, logout) ==
  [device |-> device, login |-> login, ping |-> ping, logout |-> logout,
   active |-> logout = NoTime, tracked |-> 0]
Report(app, at) == [app |-> app, at |-> at]
NoReport == [sess |-> 0, items |-> << >>]

\* others: sessions to close, with the ping read; sess: the session found or
\* created; ping, tracked, dur: columns read; act: the activity found; fresh: how
\* many reports of a batch were not there yet.
Request(device, kind, items, started) ==
  [device |-> device, kind |-> kind, started |-> started, items |-> items, others |-> {}, sess |-> 0,
   ping |-> 0, tracked |-> 0, act |-> 0, dur |-> 0, fresh |-> 0]
Idle == Request(NoDevice, "none", << >>, 0)

Active(s) == sessions[s].active
Of(device) == {s \in SessionIds : sessions[s].device = device}
LatestOf(S) == {s \in S : \A t \in S : sessions[t].login <= sessions[s].login}
\* findFirst ... orderBy login_time desc; equal times leave the choice open.
FirstOf(S) == IF S = {} THEN {0} ELSE LatestOf(S)
Silent(time, ping) == time - ping > Timeout

Goto(r, where) == pc' = [pc EXCEPT ![r] = where]
Keep(r, request, where) == ctx' = [ctx EXCEPT ![r] = request] /\ Goto(r, where)
Write(s, row) == sessions' = [sessions EXCEPT ![s] = row]
Insert(row) == sessions' = Append(sessions, row)
Busy == Cardinality({r \in Requests : pc[r] # "idle"})
\* Every request creates at most one session.
Room == Len(sessions) + Busy < MaxSessions

\* The answer: a heartbeat that was answered may be sent again.
Done(r) ==
  /\ Keep(r, Idle, "idle")
  /\ latest' = [latest EXCEPT ![ctx[r].device] =
       IF ctx[r].kind = "heartbeat" THEN [sess |-> ctx[r].sess, items |-> ctx[r].items]
                                    ELSE NoReport]

\* When the session of a heartbeat is known, a tracker's report is counted; the
\* portal reports nothing.
Telemetry(r, request) ==
  IF request.device = Portal THEN Done(r)
  ELSE Keep(r, request, "touch") /\ UNCHANGED latest
----------------------------------------------------------------------------
Init ==
  /\ now = 0 /\ reports = 0
  /\ sessions = << >> /\ activities = << >>
  /\ pc = [r \in Requests |-> "idle"]
  /\ ctx = [r \in Requests |-> Idle]
  /\ torn = {}
  /\ latest = [device \in Devices |-> NoReport]

Tick == now < MaxTime /\ now' = now + 1 /\ UNCHANGED <<rows, reports, requestState, torn, latest>>

\* A time stamp of the future is replaced by the time of arrival.
Stamp(at) == IF at <= now THEN at ELSE now

\* What a request adds to the bound.
Weight(items) == IF items = << >> THEN 1 ELSE Len(items)

\* A device sends its next request when it has the answer to the last one.
Begin(r, device, kind, items, where) ==
  /\ pc[r] = "idle" /\ Room /\ reports + Weight(items) <= MaxReports
  /\ \A q \in Requests : ctx[q].device # device
  /\ reports' = reports + Weight(items)
  /\ Keep(r, Request(device, kind, items, now), where)
  /\ UNCHANGED <<now, rows, torn, latest>>

BeginPortal(r) == Begin(r, Portal, "heartbeat", << >>, "findDesktop")
BeginHeartbeat(r, device, app, at) ==
  Begin(r, device, "heartbeat", <<Report(app, Stamp(at))>>, "listOthers")
\* The reports of a batch are sorted by time.
BeginBatch(r, device, items) ==
  /\ \A n \in 2..Len(items) : items[n - 1].at <= items[n].at
  /\ Begin(r, device, "batch", items, "findTarget")
BeginLogout(r, device) == Begin(r, device, "logout", << >>, "findAny")
----------------------------------------------------------------------------
(* handleHeartbeat. The portal joins the tracker's session, unless the        *)
(* tracker has been silent.                                                   *)
FindDesktop(r) ==
  /\ pc[r] = "findDesktop"
  /\ \E s \in FirstOf({t \in SessionIds : Active(t) /\ sessions[t].device # Portal}) :
       IF s = 0 THEN Goto(r, "findOwn") /\ UNCHANGED ctx
       ELSE LET found == [ctx[r] EXCEPT !.sess = s, !.ping = sessions[s].ping]
            IN  Keep(r, found, IF Silent(found.started, found.ping) THEN "closeDesktop"
                                                                    ELSE "ping")
  /\ UNCHANGED <<now, rows, reports, torn, latest>>

\* A session ends when it was last heard of.
Closed(s, at) == [sessions[s] EXCEPT !.active = FALSE, !.logout = at]

CloseDesktop(r) ==
  /\ pc[r] = "closeDesktop"
  /\ Write(ctx[r].sess, Closed(ctx[r].sess, ctx[r].ping))
  /\ Keep(r, [ctx[r] EXCEPT !.sess = 0], "findOwn")
  /\ UNCHANGED <<now, activities, reports, torn, latest>>

\* A tracker ends the sessions of every other device, one statement each.
ListOthers(r) ==
  /\ pc[r] = "listOthers"
  /\ LET others == {s \in SessionIds \ Of(ctx[r].device) : Active(s)}
     IN  Keep(r, [ctx[r] EXCEPT !.others = {<<s, sessions[s].ping>> : s \in others}],
              IF others = {} THEN "findOwn" ELSE "closeOther")
  /\ UNCHANGED <<now, rows, reports, torn, latest>>

CloseOther(r) ==
  /\ pc[r] = "closeOther"
  /\ \E o \in ctx[r].others :
       LET rest == ctx[r].others \ {o}
       IN  /\ Write(o[1], Closed(o[1], o[2]))
           /\ Keep(r, [ctx[r] EXCEPT !.others = rest], IF rest = {} THEN "findOwn" ELSE "closeOther")
  /\ UNCHANGED <<now, activities, reports, torn, latest>>

FindOwn(r) ==
  /\ pc[r] = "findOwn"
  /\ \E s \in FirstOf({t \in Of(ctx[r].device) : Active(t)}) :
       LET found == [ctx[r] EXCEPT !.sess = s, !.ping = IF s = 0 THEN 0 ELSE sessions[s].ping]
       IN  Keep(r, found, IF s = 0 THEN "create"
                          ELSE IF Silent(found.started, found.ping) THEN "rollover" ELSE "ping")
  /\ UNCHANGED <<now, rows, reports, torn, latest>>

\* After five silent minutes the session ends and the next statement creates one.
RolloverLeavingOpen(r) ==
  /\ pc[r] = "rollover"
  /\ Goto(r, "create")
  /\ UNCHANGED <<now, rows, reports, ctx, torn, latest>>
Rollover(r) ==
  /\ pc[r] = "rollover"
  /\ Write(ctx[r].sess, Closed(ctx[r].sess, ctx[r].ping))
  /\ Goto(r, "create")
  /\ UNCHANGED <<now, activities, reports, ctx, torn, latest>>

Earlier(a, b) == IF a < b THEN a ELSE b
Create(r) ==
  /\ pc[r] = "create"
  /\ LET c == ctx[r]
         login == IF c.items = << >> THEN c.started ELSE Earlier(c.items[1].at, c.started)
     IN  /\ Insert(NewSession(c.device, login, c.started, NoTime))
         /\ Telemetry(r, [c EXCEPT !.sess = Len(sessions) + 1])
  /\ UNCHANGED <<now, activities, reports, torn>>

PingReopening(r) ==
  /\ pc[r] = "ping"
  /\ Write(ctx[r].sess, [sessions[ctx[r].sess] EXCEPT !.ping = ctx[r].started, !.active = TRUE])
  /\ Telemetry(r, ctx[r])
  /\ UNCHANGED <<now, activities, reports, torn>>
Ping(r) ==
  /\ pc[r] = "ping"
  /\ Write(ctx[r].sess, [sessions[ctx[r].sess] EXCEPT !.ping = ctx[r].started])
  /\ Telemetry(r, ctx[r])
  /\ UNCHANGED <<now, activities, reports, torn>>

\* The update of the live status returns the row: its counters are read here.
Touch(r) ==
  /\ pc[r] = "touch"
  /\ Keep(r, [ctx[r] EXCEPT !.tracked = sessions[ctx[r].sess].tracked], "dup")
  /\ UNCHANGED <<now, rows, reports, torn, latest>>

Near(a, b) == a - b <= Tolerance /\ b - a <= Tolerance
InSession(r) == {n \in ActivityIds : activities[n].sess = ctx[r].sess}
Same(n, item) == activities[n].app = item.app

DuplicateNever(r) ==
  /\ pc[r] = "dup"
  /\ Goto(r, "count")
  /\ UNCHANGED <<now, rows, reports, ctx, torn, latest>>
Duplicate(r) ==
  /\ pc[r] = "dup"
  /\ LET item == ctx[r].items[1]
     IN  IF \E n \in InSession(r) : Same(n, item) /\ Near(activities[n].at, item.at)
           THEN Done(r)
           ELSE Goto(r, "count") /\ UNCHANGED <<ctx, latest>>
  /\ UNCHANGED <<now, rows, reports, torn>>

Count(r) ==
  /\ pc[r] = "count"
  /\ Write(ctx[r].sess, [sessions[ctx[r].sess] EXCEPT !.tracked = ctx[r].tracked + 1])
  /\ Goto(r, "last")
  /\ UNCHANGED <<now, activities, reports, ctx, torn, latest>>
----------------------------------------------------------------------------
(* A report prolongs the latest activity if it is of the same application,    *)
(* and moves its time stamp; otherwise it becomes an activity of its own.     *)
LatestActivity(r) ==
  {n \in InSession(r) : \A k \in InSession(r) : activities[k].at <= activities[n].at}

Last(r) ==
  /\ pc[r] = "last"
  /\ IF InSession(r) = {} THEN Goto(r, "record") /\ UNCHANGED ctx
     ELSE \E n \in LatestActivity(r) :
            IF Same(n, ctx[r].items[1])
              THEN Keep(r, [ctx[r] EXCEPT !.act = n, !.dur = activities[n].dur], "merge")
              ELSE Goto(r, "record") /\ UNCHANGED ctx
  /\ UNCHANGED <<now, rows, reports, torn, latest>>

\* A batch goes on with its next report, a heartbeat is answered.
NextReport(r) ==
  IF ctx[r].kind = "heartbeat" THEN Done(r)
  ELSE /\ Keep(r, [ctx[r] EXCEPT !.items = Tail(@), !.fresh = @ + 1],
               IF Len(ctx[r].items) = 1 THEN "readTotal" ELSE "item")
       /\ UNCHANGED latest

Merge(r) ==
  /\ pc[r] = "merge"
  /\ activities' = [activities EXCEPT ![ctx[r].act].dur = ctx[r].dur + 1,
                                      ![ctx[r].act].at = ctx[r].items[1].at]
  /\ NextReport(r)
  /\ UNCHANGED <<now, sessions, reports, torn>>

Record(r) ==
  /\ pc[r] = "record"
  /\ activities' = Append(activities, [sess |-> ctx[r].sess, app |-> ctx[r].items[1].app,
                                       at |-> ctx[r].items[1].at, dur |-> 1])
  /\ NextReport(r)
  /\ UNCHANGED <<now, sessions, reports, torn>>
----------------------------------------------------------------------------
(* handleActivityBatchSync. Old reports go to a session that had ended and    *)
(* spans them, recent ones to the active session of the device.               *)
Historical(r) == Silent(ctx[r].started, ctx[r].items[Len(ctx[r].items)].at)

FindTarget(r) ==
  /\ pc[r] = "findTarget"
  /\ LET c == ctx[r]
         first == c.items[1].at
         last == c.items[Len(c.items)].at
         spans == {s \in Of(ctx[r].device) : /\ sessions[s].login <= last
                                           /\ sessions[s].logout # NoTime
                                           /\ sessions[s].logout >= first}
         live == {s \in Of(ctx[r].device) : Active(s)}
     IN  \E s \in FirstOf(IF Historical(r) THEN spans ELSE live) :
           Keep(r, [c EXCEPT !.sess = s],
                IF s = 0 THEN "createTarget" ELSE IF Historical(r) THEN "item" ELSE "pingTarget")
  /\ UNCHANGED <<now, rows, reports, torn, latest>>

CreateTarget(r) ==
  /\ pc[r] = "createTarget"
  /\ LET c == ctx[r]
         first == c.items[1].at
         last == c.items[Len(c.items)].at
     IN  /\ Insert(IF Historical(r) THEN NewSession(ctx[r].device, first, last, last)
                                    ELSE NewSession(ctx[r].device, first, c.started, NoTime))
         /\ Keep(r, [c EXCEPT !.sess = Len(sessions) + 1], "item")
  /\ UNCHANGED <<now, activities, reports, torn, latest>>

PingTarget(r) ==
  /\ pc[r] = "pingTarget"
  /\ Write(ctx[r].sess, [sessions[ctx[r].sess] EXCEPT !.ping = ctx[r].started])
  /\ Goto(r, "item")
  /\ UNCHANGED <<now, activities, reports, ctx, torn, latest>>

\* A report with exactly this time stamp is skipped.
Item(r) ==
  /\ pc[r] = "item"
  /\ LET item == ctx[r].items[1]
     IN  IF \E n \in InSession(r) : Same(n, item) /\ activities[n].at = item.at
           THEN Keep(r, [ctx[r] EXCEPT !.items = Tail(@)],
                     IF Len(ctx[r].items) = 1 THEN "readTotal" ELSE "item")
           ELSE Goto(r, "last") /\ UNCHANGED ctx
  /\ UNCHANGED <<now, rows, reports, torn, latest>>

ReadTotal(r) ==
  /\ pc[r] = "readTotal"
  /\ IF ctx[r].fresh > 0
       THEN /\ Keep(r, [ctx[r] EXCEPT !.tracked = sessions[ctx[r].sess].tracked], "writeTotal")
            /\ UNCHANGED latest
       ELSE Done(r)
  /\ UNCHANGED <<now, rows, reports, torn>>

WriteTotalOfBatch(r) ==
  /\ pc[r] = "writeTotal"
  /\ Write(ctx[r].sess, [sessions[ctx[r].sess] EXCEPT !.tracked = ctx[r].fresh])
  /\ Done(r)
  /\ UNCHANGED <<now, activities, reports, torn>>
WriteTotal(r) ==
  /\ pc[r] = "writeTotal"
  /\ Write(ctx[r].sess, [sessions[ctx[r].sess] EXCEPT !.tracked = ctx[r].tracked + ctx[r].fresh])
  /\ Done(r)
  /\ UNCHANGED <<now, activities, reports, torn>>
----------------------------------------------------------------------------
(* handleLogout ends the latest active session, of whichever device.          *)
FindAny(r) ==
  /\ pc[r] = "findAny"
  /\ \E s \in FirstOf({t \in SessionIds : Active(t)}) :
       IF s = 0 THEN Done(r)
       ELSE Keep(r, [ctx[r] EXCEPT !.sess = s, !.started = now], "logout") /\ UNCHANGED latest
  /\ UNCHANGED <<now, rows, reports, torn>>

Logout(r) ==
  /\ pc[r] = "logout"
  /\ LET c == ctx[r]
     IN  Write(c.sess, [Closed(c.sess, c.started) EXCEPT !.ping = c.started])
  /\ Done(r)
  /\ UNCHANGED <<now, activities, reports, torn>>

\* The counters of the session and its activities are written one after the other.
HalfCounted(r) == pc[r] \in {"last", "merge", "record"} \/ ctx[r].fresh > 0

\* A request dies between two statements: what it wrote stays.
Abort(r) ==
  /\ pc[r] # "idle"
  /\ Keep(r, Idle, "idle")
  /\ latest' = [latest EXCEPT ![ctx[r].device] = NoReport]
  /\ torn' = IF HalfCounted(r) THEN torn \cup {ctx[r].sess} ELSE torn
  /\ UNCHANGED <<now, rows, reports>>
----------------------------------------------------------------------------
Heartbeat(r) ==
  \/ FindDesktop(r) \/ CloseDesktop(r) \/ ListOthers(r) \/ CloseOther(r)
  \/ FindOwn(r) \/ Rollover(r) \/ Create(r) \/ Ping(r)
  \/ Touch(r) \/ Duplicate(r) \/ Count(r)
Recording(r) == Last(r) \/ Merge(r) \/ Record(r)
Batch(r) ==
  FindTarget(r) \/ CreateTarget(r) \/ PingTarget(r) \/ Item(r) \/ ReadTotal(r) \/ WriteTotal(r)
LoggingOut(r) == FindAny(r) \/ Logout(r)

BatchItems(n) == [1..n -> [app : Apps, at : 0..now]]
Send(r) ==
  \/ BeginPortal(r)
  \/ \E device \in Trackers :
       \/ \E app \in Apps, at \in 0..MaxTime : BeginHeartbeat(r, device, app, at)
       \/ \E n \in 1..MaxBatch : \E items \in BatchItems(n) : BeginBatch(r, device, items)
  \/ \E device \in Devices : BeginLogout(r, device)

Next ==
  \/ Tick
  \/ \E r \in Requests :
       Send(r) \/ Heartbeat(r) \/ Recording(r) \/ Batch(r) \/ LoggingOut(r) \/ Abort(r)

Spec == Init /\ [][Next]_vars
----------------------------------------------------------------------------
(* A device that waits for its answers has one active session at most,        *)
(* whatever its user's other devices do meanwhile (handleHeartbeat and        *)
(* handleActivityBatchSync look for one before they create one).              *)
OneActivePerDevice ==
  \A device \in Devices : Cardinality({s \in Of(device) : Active(s)}) <= 1

\* The time of the activities of a session.
ActivityTime(s) ==
  SumTo([n \in ActivityIds |-> IF activities[n].sess = s THEN activities[n].dur ELSE 0],
        Len(activities))

(* The time a session has tracked is the time of its activities, although the *)
(* one is kept by reading and adding in several statements, the other by      *)
(* merging rows, and other devices ping and close the session meanwhile. Only *)
(* a request that died half-way may leave them apart.                         *)
TimeAddsUp ==
  \A s \in SessionIds \ torn :
    (\A r \in Requests : ctx[r].sess = s => ~HalfCounted(r)) => ActivityTime(s) = sessions[s].tracked

(* A session that has ended stays ended and stays what it was: a heartbeat    *)
(* that found it active before it was closed does not open it again, and a    *)
(* late report is counted for the device and the login it belongs to.         *)
EndedSessionsStayEnded ==
  [][\A s \in SessionIds :
       ~Active(s) => /\ ~Active(s)'
                     /\ sessions'[s].device = sessions[s].device
                     /\ sessions'[s].login = sessions[s].login]_vars

(* A heartbeat that is sent again after its answer, the answer having been    *)
(* lost, adds no time to the session a second time (the look for a recent     *)
(* duplicate), although merging has moved the activity that shows it.         *)
ResentHeartbeatCountsOnce ==
  [][\A r \in Requests :
       /\ ctx[r].kind = "heartbeat" /\ pc[r] = "count"
       /\ latest[ctx[r].device] = [sess |-> ctx[r].sess, items |-> ctx[r].items]
       => UNCHANGED sessions]_vars
=============================================================================
