------------------------ MODULE WorkSessionsProofs ------------------------
(* The work sessions of a user with any number of trackers and requests: no   *)
(* lock protects a row, so the argument is about whose row it is. A device    *)
(* has one request under way, counters and activities of a session are        *)
(* written for its own device only, and what others write leaves both alone.  *)
EXTENDS WorkSessions, SumsProofs, SequenceTheorems, FiniteSetTheorems, TLAPS

\* Where a request can be.
OfDesktop == {"findDesktop", "closeDesktop"}
OfHeartbeat == OfDesktop \cup {"listOthers", "closeOther", "findOwn", "rollover", "create",
                               "ping", "touch", "dup", "count"}
OfRecording == {"last", "merge", "record"}
OfBatch == {"findTarget", "createTarget", "pingTarget", "item", "readTotal", "writeTotal"}
OfLogout == {"findAny", "logout"}
Places == {"idle"} \cup OfHeartbeat \cup OfRecording \cup OfBatch \cup OfLogout

\* A report is counted for a session of the device that sent it.
Counting == {"touch", "dup", "count"} \cup OfRecording \cup {"item", "readTotal", "writeTotal"}
InOwnSession == Counting \cup {"rollover", "pingTarget"}
InSomeSession == InOwnSession \cup {"closeDesktop", "ping", "logout"}

ReportRow == [app : Apps, at : Nat]
SessionRow == [device : Devices, login : Nat, ping : Nat, logout : Int,
               active : BOOLEAN, tracked : Int]
ActivityRow == [sess : Nat, app : Apps, at : Nat, dur : Int]
RequestRow ==
  [device : Devices \cup {NoDevice}, kind : {"none", "heartbeat", "batch", "logout"},
   started : Nat, items : Seq(ReportRow), others : SUBSET (Nat \X Nat), sess : Nat,
   ping : Nat, tracked : Int, act : Nat, dur : Int, fresh : Nat]

TypeOK ==
  /\ now \in Nat
  /\ sessions \in Seq(SessionRow)
  /\ activities \in Seq(ActivityRow)
  /\ pc \in [Requests -> Places]
  /\ ctx \in [Requests -> RequestRow]
  /\ torn \subseteq Nat
  /\ latest \in [Devices -> [sess : Nat, items : Seq(ReportRow)]]

\* What a request is about.
Purpose(r) ==
  LET c == ctx[r]
  IN  /\ pc[r] = "idle" => c = Idle
      /\ pc[r] # "idle" => c.device \in Devices
      /\ pc[r] \in OfHeartbeat => c.kind = "heartbeat"
      /\ pc[r] \in OfRecording => c.kind \in {"heartbeat", "batch"}
      /\ pc[r] \in OfBatch => c.kind = "batch"
      /\ pc[r] \in OfLogout => c.kind = "logout"
      /\ pc[r] \in Counting => c.device # Portal
      /\ pc[r] \in OfDesktop => c.device = Portal
      /\ c.kind = "batch" => c.device # Portal
      /\ c.kind = "heartbeat" /\ c.device # Portal => Len(c.items) = 1
      /\ c.kind = "batch" /\ pc[r] \notin {"readTotal", "writeTotal"} => c.items # << >>
      /\ c.fresh = 0 \/ (c.kind = "batch" /\ pc[r] \in Counting)

\* What it read of the session it found still holds.
Reads(r) ==
  LET c == ctx[r]
  IN  /\ pc[r] \in InSomeSession => c.sess \in SessionIds
      /\ pc[r] \in InOwnSession => sessions[c.sess].device = c.device
      /\ pc[r] = "ping" /\ c.device # Portal => sessions[c.sess].device = c.device
      /\ pc[r] \in {"dup", "count", "writeTotal"} => c.tracked = sessions[c.sess].tracked
      /\ \A o \in c.others : o[1] \in SessionIds

\* What it read of the activities.
ReadsActivity(r) ==
  LET c == ctx[r]
  IN  /\ pc[r] = "merge" =>
           /\ c.act \in ActivityIds /\ activities[c.act].sess = c.sess
           /\ activities[c.act].app = c.items[1].app /\ activities[c.act].dur = c.dur
      /\ pc[r] = "count" =>
           \A n \in InSession(r) : Same(n, c.items[1]) => ~Near(activities[n].at, c.items[1].at)

\* Whoever is about to create a session leaves no other of its device active.
Creates(r) ==
  LET c == ctx[r]
  IN  /\ pc[r] = "create" \/ (pc[r] = "createTarget" /\ ~Historical(r)) =>
           \A s \in Of(c.device) : ~Active(s)
      /\ pc[r] = "rollover" => \A s \in Of(c.device) : Active(s) => s = c.sess

Knows(r) == Purpose(r) /\ Reads(r) /\ ReadsActivity(r) /\ Creates(r)

\* One request of a device at a time.
OneRequestPerDevice ==
  \A q, r \in Requests : q # r /\ ctx[q].device = ctx[r].device => ctx[q].device = NoDevice

ActivitiesBelong == \A n \in ActivityIds : activities[n].sess \in SessionIds

Single == \A s, t \in SessionIds :
  Active(s) /\ Active(t) /\ sessions[s].device = sessions[t].device => s = t

Inv ==
  /\ TypeOK
  /\ \A r \in Requests : Knows(r)
  /\ OneRequestPerDevice
  /\ ActivitiesBelong
  /\ Single

----------------------------------------------------------------------------
(* What a step of request r may do to the rows: a session keeps its device    *)
(* and login and is not opened again; counters and activities are touched for *)
(* r's own device; a new active session is the only one of its device.        *)
SessionsKept(r) ==
  /\ Len(sessions) <= Len(sessions') /\ Len(sessions') <= Len(sessions) + 1
  /\ \A s \in SessionIds :
       /\ sessions'[s].device = sessions[s].device
       /\ sessions'[s].login = sessions[s].login
       /\ sessions'[s].active => sessions[s].active
       /\ sessions[s].device # ctx[r].device \/ pc[r] \notin {"count", "writeTotal"} =>
            sessions'[s].tracked = sessions[s].tracked
  /\ \A s \in 1..Len(sessions') : s \notin SessionIds =>
       /\ sessions'[s].device = ctx[r].device
       /\ sessions'[s].tracked = 0
       /\ sessions'[s].active =>
            \A t \in SessionIds : sessions[t].device = ctx[r].device => ~sessions[t].active

ActivitiesKept(r) ==
  /\ pc[r] \notin {"merge", "record"} => UNCHANGED activities
  /\ Len(activities) <= Len(activities')
  /\ \A n \in ActivityIds :
       /\ activities'[n].sess = activities[n].sess
       /\ activities'[n].app = activities[n].app
       /\ sessions[activities[n].sess].device # ctx[r].device => activities'[n] = activities[n]
  /\ \A n \in 1..Len(activities') : n \notin ActivityIds =>
       /\ activities'[n].sess \in SessionIds
       /\ sessions[activities'[n].sess].device = ctx[r].device

\* The other requests stay where they are; r keeps its device, ends, or begins
\* for a device nobody is serving.
OnlyMoves(r) ==
  /\ \A q \in Requests : q # r => pc'[q] = pc[q] /\ ctx'[q] = ctx[q]
  /\ \/ ctx'[r].device \in {ctx[r].device, NoDevice}
     \/ ctx[r].device = NoDevice /\ \A q \in Requests : ctx[q].device # ctx'[r].device

Kept(r) == SessionsKept(r) /\ ActivitiesKept(r) /\ OnlyMoves(r)
----------------------------------------------------------------------------
USE DEF Places, OfDesktop, OfHeartbeat, OfRecording, OfBatch, OfLogout

(* Writing one row of a table, and appending one.                             *)
LEMMA WriteEffect ==
  ASSUME sessions \in Seq(SessionRow), NEW s \in SessionIds, NEW row \in SessionRow, Write(s, row)
  PROVE  /\ sessions' \in Seq(SessionRow) /\ Len(sessions') = Len(sessions)
         /\ \A t \in SessionIds : sessions'[t] = IF t = s THEN row ELSE sessions[t]
  BY ExceptSeq DEF Write, SessionIds

LEMMA InsertEffect ==
  ASSUME sessions \in Seq(SessionRow), NEW row \in SessionRow, Insert(row)
  PROVE  /\ sessions' \in Seq(SessionRow) /\ Len(sessions') = Len(sessions) + 1
         /\ \A t \in SessionIds : sessions'[t] = sessions[t]
         /\ sessions'[Len(sessions) + 1] = row
  BY AppendProperties DEF Insert, SessionIds

LEMMA RowTypes ==
  ASSUME TypeOK
  PROVE  /\ Len(sessions) \in Nat /\ Len(activities) \in Nat
         /\ \A s \in SessionIds : sessions[s] \in SessionRow
         /\ \A n \in ActivityIds : activities[n] \in ActivityRow
  BY ElementOfSeq, LenProperties DEF TypeOK, SessionIds, ActivityIds

LEMMA IdleType == Idle \in RequestRow
  BY EmptySeq DEF Idle, Request, RequestRow

\* A step that writes no row.
LEMMA NothingWritten ==
  ASSUME TypeOK, NEW r, UNCHANGED rows
  PROVE  SessionsKept(r) /\ ActivitiesKept(r)
  BY RowTypes DEF rows, SessionsKept, ActivitiesKept, SessionIds, ActivityIds

LEMMA SessionWritten ==
  ASSUME TypeOK, NEW r, NEW s \in SessionIds, NEW row \in SessionRow, Write(s, row),
         UNCHANGED activities,
         row.device = sessions[s].device, row.login = sessions[s].login,
         row.active => sessions[s].active,
         sessions[s].device # ctx[r].device \/ pc[r] \notin {"count", "writeTotal"} =>
           row.tracked = sessions[s].tracked
  PROVE  /\ SessionsKept(r) /\ ActivitiesKept(r) /\ sessions' \in Seq(SessionRow)
         /\ Len(sessions') = Len(sessions)
         /\ \A t \in SessionIds : sessions'[t] = IF t = s THEN row ELSE sessions[t]
<1>1. /\ sessions' \in Seq(SessionRow) /\ Len(sessions') = Len(sessions)
      /\ \A t \in SessionIds : sessions'[t] = IF t = s THEN row ELSE sessions[t]
  BY WriteEffect DEF TypeOK
<1>2. ActivitiesKept(r)
  BY RowTypes DEF ActivitiesKept, ActivityIds
<1>3. SessionsKept(r)
  BY <1>1, RowTypes DEF SessionsKept, SessionIds
<1> QED BY <1>1, <1>2, <1>3

LEMMA SessionInserted ==
  ASSUME TypeOK, NEW r, NEW row \in SessionRow, Insert(row), UNCHANGED activities,
         row.device = ctx[r].device, row.tracked = 0,
         row.active => \A t \in SessionIds : sessions[t].device = ctx[r].device => ~sessions[t].active
  PROVE  /\ SessionsKept(r) /\ ActivitiesKept(r) /\ sessions' \in Seq(SessionRow)
         /\ Len(sessions') = Len(sessions) + 1
         /\ \A t \in SessionIds : sessions'[t] = sessions[t]
         /\ sessions'[Len(sessions) + 1] = row
<1>1. /\ sessions' \in Seq(SessionRow) /\ Len(sessions') = Len(sessions) + 1
      /\ \A t \in SessionIds : sessions'[t] = sessions[t]
      /\ sessions'[Len(sessions) + 1] = row
  BY InsertEffect DEF TypeOK
<1>2. ActivitiesKept(r)
  BY RowTypes DEF ActivitiesKept, ActivityIds
<1>3. \A s \in 1..Len(sessions') : s \notin SessionIds => s = Len(sessions) + 1
  BY <1>1, RowTypes DEF SessionIds
<1>4. SessionsKept(r)
  BY <1>1, <1>3, RowTypes DEF SessionsKept, SessionIds
<1> QED BY <1>1, <1>2, <1>4

\* Where a request goes.
LEMMA Going ==
  ASSUME TypeOK, NEW r \in Requests, NEW where \in Places, Goto(r, where), UNCHANGED ctx
  PROVE  /\ pc' \in [Requests -> Places] /\ ctx' \in [Requests -> RequestRow]
         /\ pc'[r] = where /\ ctx'[r] = ctx[r] /\ OnlyMoves(r)
  BY DEF TypeOK, Goto, OnlyMoves

LEMMA Keeping ==
  ASSUME TypeOK, NEW r \in Requests, NEW where \in Places, NEW c \in RequestRow, Keep(r, c, where),
         c.device = ctx[r].device
  PROVE  /\ pc' \in [Requests -> Places] /\ ctx' \in [Requests -> RequestRow]
         /\ pc'[r] = where /\ ctx'[r] = c /\ OnlyMoves(r)
  BY DEF TypeOK, Keep, Goto, OnlyMoves

LEMMA IdleKnows ==
  ASSUME NEW r \in Requests, pc'[r] = "idle", ctx'[r] = Idle
  PROVE  Knows(r)'
<1>1. /\ Idle.kind = "none" /\ Idle.fresh = 0 /\ Idle.others = {}
  BY DEF Idle, Request
<1>2. Purpose(r)'
  BY <1>1 DEF Purpose, Counting
<1>3. Reads(r)'
  BY <1>1 DEF Reads, InSomeSession, InOwnSession, Counting
<1>4. ReadsActivity(r)' /\ Creates(r)'
  BY DEF ReadsActivity, Creates
<1> QED BY <1>2, <1>3, <1>4 DEF Knows

LEMMA Answering ==
  ASSUME TypeOK, NEW r \in Requests, ctx[r].device \in Devices, Done(r)
  PROVE  /\ pc' \in [Requests -> Places] /\ ctx' \in [Requests -> RequestRow]
         /\ latest' \in [Devices -> [sess : Nat, items : Seq(ReportRow)]]
         /\ pc'[r] = "idle" /\ ctx'[r] = Idle /\ OnlyMoves(r) /\ Knows(r)'
<1>1. /\ pc' = [pc EXCEPT ![r] = "idle"] /\ ctx' = [ctx EXCEPT ![r] = Idle]
  BY DEF Done, Keep, Goto
<1>2. /\ pc' \in [Requests -> Places] /\ ctx' \in [Requests -> RequestRow]
      /\ pc'[r] = "idle" /\ ctx'[r] = Idle
      /\ \A q \in Requests : q # r => pc'[q] = pc[q] /\ ctx'[q] = ctx[q]
  BY <1>1, IdleType DEF TypeOK
<1>3. Knows(r)'
  BY <1>2, IdleKnows
<1>4. OnlyMoves(r)
  BY <1>2 DEF OnlyMoves, Idle, Request
<1>5. ctx[r].sess \in Nat /\ ctx[r].items \in Seq(ReportRow)
  BY DEF TypeOK, RequestRow
<1>6. NoReport \in [sess : Nat, items : Seq(ReportRow)]
  BY EmptySeq DEF NoReport
<1>7. latest' \in [Devices -> [sess : Nat, items : Seq(ReportRow)]]
  BY <1>5, <1>6 DEF Done, TypeOK
<1> QED BY <1>2, <1>3, <1>4, <1>7
----------------------------------------------------------------------------
(* What the others know survives a step.                                      *)
LEMMA OthersStillKnow ==
  ASSUME Inv, TypeOK', NEW r \in Requests, Kept(r), NEW q \in Requests, q # r
  PROVE  Knows(q)'
<1> USE DEF Inv, Kept
<1>0. pc'[q] = pc[q] /\ ctx'[q] = ctx[q]
  BY DEF OnlyMoves
<1>1. Knows(q) /\ Knows(r)
  OBVIOUS
<1>2. Len(sessions) \in Nat /\ Len(activities) \in Nat /\ Len(sessions') \in Nat /\ Len(activities') \in Nat
  BY RowTypes, LenProperties DEF TypeOK
<1>3. SessionIds \subseteq SessionIds' /\ ActivityIds \subseteq ActivityIds'
  BY <1>2 DEF SessionIds, ActivityIds, SessionsKept, ActivitiesKept
<1>4. pc[q] # "idle" => ctx[q].device \in Devices /\ ctx[q].device # ctx[r].device
  BY <1>1, TrackingAssumption DEF OneRequestPerDevice, Knows, Purpose
<1>5. Purpose(q)'
  BY <1>0, <1>1 DEF Knows, Purpose
<1>6. Reads(q)'
  BY <1>0, <1>1, <1>3, <1>4 DEF Knows, Reads, SessionsKept, InSomeSession, InOwnSession, Counting
<1>7. ReadsActivity(q)'
  <2>1. CASE pc[q] = "merge"
    <3>1. ctx[q].act \in ActivityIds /\ sessions[activities[ctx[q].act].sess].device # ctx[r].device
      BY <2>1, <1>1, <1>4 DEF Knows, Reads, ReadsActivity, InOwnSession, Counting
    <3>2. activities'[ctx[q].act] = activities[ctx[q].act]
      BY <3>1 DEF ActivitiesKept
    <3> QED BY <2>1, <3>1, <3>2, <1>0, <1>1, <1>3 DEF Knows, ReadsActivity
  <2>2. CASE pc[q] = "count"
    <3>1. ctx[q].sess \in SessionIds /\ sessions[ctx[q].sess].device # ctx[r].device
      BY <2>2, <1>1, <1>4 DEF Knows, Reads, InSomeSession, InOwnSession, Counting
    <3>2. \A n \in ActivityIds' : activities'[n].sess = ctx[q].sess =>
            n \in ActivityIds /\ activities'[n] = activities[n]
      BY <3>1 DEF ActivitiesKept, ActivityIds
    <3>3. InSession(q)' \subseteq InSession(q)
      BY <3>2, <1>0 DEF InSession
    <3> QED BY <2>2, <3>2, <3>3, <1>0, <1>1 DEF Knows, ReadsActivity, InSession, Same
  <2> QED BY <2>1, <2>2, <1>0 DEF ReadsActivity
<1>8. Creates(q)'
  <2>1. CASE pc[q] \in {"create", "createTarget", "rollover"}
    <3>1. \A s \in Of(ctx[q].device)' : s \in Of(ctx[q].device) /\ (Active(s)' => Active(s))
      <4>1. ctx'[q] = ctx[q] /\ ctx[q].device # ctx[r].device
        BY <1>0, <1>4, <2>1
      <4>2. \A s \in SessionIds' : sessions'[s].device = ctx[q].device =>
              s \in SessionIds /\ sessions[s].device = ctx[q].device
        BY <4>1, <1>2 DEF SessionsKept, SessionIds
      <4> QED BY <4>1, <4>2 DEF SessionsKept, Of, Active
    <3>2. Historical(q)' = Historical(q)
      BY <1>0 DEF Historical
    <3> QED BY <1>0, <1>1, <3>1, <3>2 DEF Knows, Creates
  <2> QED BY <2>1, <1>0 DEF Creates
<1> QED BY <1>5, <1>6, <1>7, <1>8 DEF Knows

(* So it is enough to look at the request that takes the step.                *)
LEMMA StepKeepsInv ==
  ASSUME Inv, TypeOK', NEW r \in Requests, Kept(r), Knows(r)'
  PROVE  Inv'
<1> USE DEF Inv, Kept
<1>1. \A q \in Requests : Knows(q)'
  BY OthersStillKnow
<1>2. Len(sessions) \in Nat /\ Len(activities) \in Nat /\ Len(sessions') \in Nat /\ Len(activities') \in Nat
  BY RowTypes, LenProperties DEF TypeOK
<1>3. OneRequestPerDevice'
  BY DEF OnlyMoves, OneRequestPerDevice
<1>4. ActivitiesBelong'
  BY <1>2 DEF ActivitiesBelong, SessionsKept, ActivitiesKept, SessionIds, ActivityIds
<1>5. Single'
  <2> SUFFICES ASSUME NEW s \in SessionIds', NEW t \in SessionIds', Active(s)', Active(t)',
                      sessions'[s].device = sessions'[t].device
               PROVE  s = t
    BY DEF Single
  <2>1. CASE s \in SessionIds /\ t \in SessionIds
    BY <2>1 DEF Single, SessionsKept, Active
  <2>2. CASE s \notin SessionIds /\ t \in SessionIds
    BY <2>2 DEF SessionsKept, Active, SessionIds
  <2>3. CASE s \in SessionIds /\ t \notin SessionIds
    BY <2>3 DEF SessionsKept, Active, SessionIds
  <2>4. CASE s \notin SessionIds /\ t \notin SessionIds
    BY <2>4, <1>2 DEF SessionsKept, SessionIds
  <2> QED BY <2>1, <2>2, <2>3, <2>4
<1> QED BY <1>1, <1>3, <1>4, <1>5
----------------------------------------------------------------------------
\* What each statement of request r has to show.
Keeps(r) == TypeOK' /\ Knows(r)' /\ Kept(r)

LEMMA FirstIsOne ==
  ASSUME NEW S, NEW s \in FirstOf(S)
  PROVE  (S = {} /\ s = 0) \/ (S # {} /\ s \in S)
  BY DEF FirstOf, LatestOf

LEMMA RequestType ==
  ASSUME TypeOK, NEW r \in Requests
  PROVE  ctx[r] \in RequestRow
  BY DEF TypeOK

LEMMA BeginKeeps ==
  ASSUME Inv, NEW r \in Requests, NEW device \in Devices, NEW items \in Seq(ReportRow),
         NEW kind \in {"heartbeat", "batch", "logout"},
         NEW where \in {"findDesktop", "listOthers", "findTarget", "findAny"},
         where = "findDesktop" => device = Portal,
         where \in {"findDesktop", "listOthers"} => kind = "heartbeat",
         where = "findTarget" => kind = "batch", where = "findAny" => kind = "logout",
         kind = "heartbeat" /\ device # Portal => Len(items) = 1,
         kind = "batch" => items # << >> /\ device # Portal,
         Begin(r, device, kind, items, where)
  PROVE  Keeps(r)
<1> DEFINE c == Request(device, kind, items, now)
<1>1. TypeOK /\ Knows(r) /\ pc[r] = "idle"
  BY DEF Inv, Begin
<1>2. c \in RequestRow
  BY <1>1 DEF TypeOK, Request, RequestRow
<1>3. /\ c.device = device /\ c.kind = kind /\ c.items = items /\ c.others = {} /\ c.fresh = 0
  BY DEF Request
<1>4. pc' = [pc EXCEPT ![r] = where] /\ ctx' = [ctx EXCEPT ![r] = c]
  BY DEF Begin, Keep, Goto
<1> HIDE DEF c
<1>5. pc'[r] = where /\ ctx'[r] = c
  BY <1>1, <1>4 DEF TypeOK
<1>6. TypeOK'
  BY <1>1, <1>2, <1>4 DEF TypeOK, Begin, rows
<1>7. Knows(r)'
  BY <1>3, <1>5 DEF Knows, Purpose, Reads, ReadsActivity, Creates,
                    InSomeSession, InOwnSession, Counting
<1>8. OnlyMoves(r)
  <2>1. ctx[r].device = NoDevice
    BY <1>1 DEF Knows, Purpose, Idle, Request
  <2>2. \A q \in Requests : ctx[q].device # device
    BY DEF Begin
  <2> QED BY <1>1, <1>3, <1>4, <1>5, <2>1, <2>2 DEF OnlyMoves, TypeOK
<1>9. SessionsKept(r) /\ ActivitiesKept(r)
  BY <1>1, NothingWritten DEF Begin
<1> QED BY <1>6, <1>7, <1>8, <1>9 DEF Keeps, Kept

LEMMA SendKeeps ==
  ASSUME Inv, NEW r \in Requests, Send(r)
  PROVE  Keeps(r)
<1>0. TypeOK /\ now \in Nat
  BY DEF Inv, TypeOK
<1>1. CASE BeginPortal(r)
  <2>1. << >> \in Seq(ReportRow) /\ Portal \in Devices
    BY EmptySeq DEF Devices
  <2> QED BY <1>1, <2>1, BeginKeeps DEF BeginPortal
<1>2. ASSUME NEW device \in Trackers, NEW app \in Apps, NEW at \in 0..MaxTime,
             BeginHeartbeat(r, device, app, at)
      PROVE  Keeps(r)
  <2>1. Report(app, Stamp(at)) \in ReportRow
    BY <1>0, TrackingAssumption DEF Report, Stamp, ReportRow
  <2>2. <<Report(app, Stamp(at))>> \in Seq(ReportRow) /\ Len(<<Report(app, Stamp(at))>>) = 1
    BY <2>1
  <2>3. device \in Devices
    BY DEF Devices
  <2> QED BY <1>2, <2>2, <2>3, BeginKeeps DEF BeginHeartbeat
<1>3. ASSUME NEW device \in Trackers, NEW n \in 1..MaxBatch, NEW items \in BatchItems(n),
             BeginBatch(r, device, items)
      PROVE  Keeps(r)
  <2>1. items \in [1..n -> ReportRow] /\ n \in Nat /\ n > 0
    BY <1>0, TrackingAssumption DEF BatchItems, ReportRow
  <2>2. items \in Seq(ReportRow) /\ Len(items) = n
    BY <2>1
  <2>3. items # << >>
    BY <2>1, <2>2, EmptySeq
  <2>4. device \in Devices /\ device # Portal
    BY TrackingAssumption DEF Devices
  <2> QED BY <1>3, <2>2, <2>3, <2>4, BeginKeeps DEF BeginBatch
<1>4. ASSUME NEW device \in Devices, BeginLogout(r, device)
      PROVE  Keeps(r)
  <2>1. << >> \in Seq(ReportRow)
    BY EmptySeq
  <2> QED BY <1>4, <2>1, BeginKeeps DEF BeginLogout
<1> QED BY <1>1, <1>2, <1>3, <1>4 DEF Send

LEMMA FindDesktopKeeps ==
  ASSUME Inv, NEW r \in Requests, FindDesktop(r)
  PROVE  Keeps(r)
<1>1. TypeOK /\ Knows(r) /\ pc[r] = "findDesktop" /\ ctx[r] \in RequestRow
  BY RequestType DEF Inv, FindDesktop
<1>2. SessionsKept(r) /\ ActivitiesKept(r)
  BY <1>1, NothingWritten DEF FindDesktop
<1>3. PICK s \in FirstOf({t \in SessionIds : Active(t) /\ sessions[t].device # Portal}) :
        IF s = 0 THEN Goto(r, "findOwn") /\ UNCHANGED ctx
        ELSE LET found == [ctx[r] EXCEPT !.sess = s, !.ping = sessions[s].ping]
             IN  Keep(r, found, IF Silent(found.started, found.ping) THEN "closeDesktop" ELSE "ping")
  BY DEF FindDesktop
<1>4. CASE s = 0
  <2>1. Goto(r, "findOwn") /\ UNCHANGED ctx
    BY <1>3, <1>4
  <2>2. /\ pc' \in [Requests -> Places] /\ ctx' \in [Requests -> RequestRow]
        /\ pc'[r] = "findOwn" /\ ctx'[r] = ctx[r] /\ OnlyMoves(r)
    BY <1>1, <2>1, Going
  <2>3. TypeOK'
    BY <1>1, <2>2 DEF FindDesktop, TypeOK, rows
  <2>4. Knows(r)'
    BY <1>1, <2>2 DEF FindDesktop, rows, SessionIds, Knows, Purpose, Reads, ReadsActivity, Creates,
                      InSomeSession, InOwnSession, Counting
  <2> QED BY <1>2, <2>2, <2>3, <2>4 DEF Keeps, Kept
<1>5. CASE s # 0
  <2>1. s \in SessionIds
    BY <1>5, FirstIsOne
  <2> DEFINE found == [ctx[r] EXCEPT !.sess = s, !.ping = sessions[s].ping]
             where == IF Silent(found.started, found.ping) THEN "closeDesktop" ELSE "ping"
  <2>2. s \in Nat /\ sessions[s].ping \in Nat
    BY <1>1, <2>1, RowTypes DEF SessionIds, SessionRow
  <2>3. found \in RequestRow /\ found.device = ctx[r].device /\ where \in {"closeDesktop", "ping"}
    BY <1>1, <2>2 DEF RequestRow
  <2>4. Keep(r, found, where)
    BY <1>3, <1>5
  <2>5. /\ found.sess = s /\ found.kind = ctx[r].kind /\ found.items = ctx[r].items
        /\ found.others = ctx[r].others /\ found.fresh = ctx[r].fresh
    BY <1>1 DEF RequestRow
  <2> HIDE DEF found, where
  <2>6. /\ pc' \in [Requests -> Places] /\ ctx' \in [Requests -> RequestRow]
        /\ pc'[r] = where /\ ctx'[r] = found /\ OnlyMoves(r)
    BY <1>1, <2>3, <2>4, Keeping
  <2>7. TypeOK'
    BY <1>1, <2>6 DEF FindDesktop, TypeOK, rows
  <2>8. Knows(r)'
    BY <1>1, <2>1, <2>3, <2>5, <2>6 DEF FindDesktop, rows, SessionIds, Knows, Purpose, Reads,
       ReadsActivity, Creates, InSomeSession, InOwnSession, Counting
  <2> QED BY <1>2, <2>6, <2>7, <2>8 DEF Keeps, Kept
<1> QED BY <1>4, <1>5

\* The rows that are written.
LEMMA ClosedRow ==
  ASSUME TypeOK, NEW s \in SessionIds, NEW at \in Nat
  PROVE  /\ Closed(s, at) \in SessionRow /\ ~Closed(s, at).active
         /\ Closed(s, at).device = sessions[s].device /\ Closed(s, at).login = sessions[s].login
         /\ Closed(s, at).tracked = sessions[s].tracked
<1>1. sessions[s] \in SessionRow
  BY RowTypes
<1>2. Closed(s, at) = [sessions[s] EXCEPT !.active = FALSE, !.logout = at] /\ at \in Int
  BY DEF Closed
<1> DEFINE row == [sessions[s] EXCEPT !.active = FALSE, !.logout = at]
<1>3. /\ row \in SessionRow /\ row.active = FALSE
      /\ row.device = sessions[s].device /\ row.login = sessions[s].login
      /\ row.tracked = sessions[s].tracked
  BY <1>1, <1>2 DEF SessionRow
<1> QED BY <1>2, <1>3

LEMMA PingedRow ==
  ASSUME TypeOK, NEW s \in SessionIds, NEW at \in Nat
  PROVE  LET row == [sessions[s] EXCEPT !.ping = at]
         IN  /\ row \in SessionRow /\ row.active = sessions[s].active
             /\ row.device = sessions[s].device /\ row.login = sessions[s].login
             /\ row.tracked = sessions[s].tracked
<1>1. sessions[s] \in SessionRow
  BY RowTypes
<1> QED BY <1>1 DEF SessionRow

LEMMA CountedRow ==
  ASSUME TypeOK, NEW s \in SessionIds, NEW n \in Int
  PROVE  LET row == [sessions[s] EXCEPT !.tracked = n]
         IN  /\ row \in SessionRow /\ row.active = sessions[s].active
             /\ row.device = sessions[s].device /\ row.login = sessions[s].login
             /\ row.tracked = n
<1>1. sessions[s] \in SessionRow
  BY RowTypes
<1> QED BY <1>1 DEF SessionRow

LEMMA CloseDesktopKeeps ==
  ASSUME Inv, NEW r \in Requests, CloseDesktop(r)
  PROVE  Keeps(r)
<1> DEFINE c == [ctx[r] EXCEPT !.sess = 0]
           s == ctx[r].sess
<1>1. TypeOK /\ Knows(r) /\ pc[r] = "closeDesktop" /\ ctx[r] \in RequestRow
  BY RequestType DEF Inv, CloseDesktop
<1>2. s \in SessionIds /\ ctx[r].ping \in Nat
  BY <1>1 DEF Knows, Reads, InSomeSession, RequestRow
<1>3. /\ c \in RequestRow /\ c.device = ctx[r].device /\ c.kind = ctx[r].kind /\ c.items = ctx[r].items
      /\ c.others = ctx[r].others /\ c.fresh = ctx[r].fresh
  BY <1>1 DEF RequestRow
<1>4. Keep(r, c, "findOwn") /\ Write(s, Closed(s, ctx[r].ping)) /\ UNCHANGED activities
  BY DEF CloseDesktop
<1> HIDE DEF c
<1>5. SessionsKept(r) /\ ActivitiesKept(r) /\ sessions' \in Seq(SessionRow) /\ Len(sessions') = Len(sessions)
  BY <1>1, <1>2, <1>4, ClosedRow, SessionWritten
<1>6. /\ pc' \in [Requests -> Places] /\ ctx' \in [Requests -> RequestRow]
      /\ pc'[r] = "findOwn" /\ ctx'[r] = c /\ OnlyMoves(r)
  BY <1>1, <1>3, <1>4, Keeping
<1>7. TypeOK'
  BY <1>1, <1>5, <1>6 DEF CloseDesktop, TypeOK
<1>8. Knows(r)'
  BY <1>1, <1>3, <1>5, <1>6 DEF SessionIds, Knows, Purpose, Reads,
       ReadsActivity, Creates, InSomeSession, InOwnSession, Counting
<1> QED BY <1>5, <1>6, <1>7, <1>8 DEF Keeps, Kept

LEMMA ListOthersKeeps ==
  ASSUME Inv, NEW r \in Requests, ListOthers(r)
  PROVE  Keeps(r)
<1> DEFINE others == {s \in SessionIds \ Of(ctx[r].device) : Active(s)}
           pairs == {<<s, sessions[s].ping>> : s \in others}
           c == [ctx[r] EXCEPT !.others = pairs]
           where == IF others = {} THEN "findOwn" ELSE "closeOther"
<1>1. TypeOK /\ Knows(r) /\ pc[r] = "listOthers" /\ ctx[r] \in RequestRow
  BY RequestType DEF Inv, ListOthers
<1>2. SessionsKept(r) /\ ActivitiesKept(r)
  BY <1>1, NothingWritten DEF ListOthers
<1>3. others \subseteq SessionIds
  OBVIOUS
<1>4. where \in {"findOwn", "closeOther"} /\ Keep(r, c, where)
  BY DEF ListOthers
<1> HIDE DEF others, where
<1>5. pairs \in SUBSET (Nat \X Nat) /\ \A o \in pairs : o[1] \in SessionIds
  BY <1>1, <1>3, RowTypes DEF SessionIds, SessionRow
<1> HIDE DEF pairs
<1>6. /\ c \in RequestRow /\ c.device = ctx[r].device /\ c.kind = ctx[r].kind /\ c.items = ctx[r].items
      /\ c.others = pairs /\ c.fresh = ctx[r].fresh
  BY <1>1, <1>5 DEF RequestRow
<1> HIDE DEF c
<1>7. /\ pc' \in [Requests -> Places] /\ ctx' \in [Requests -> RequestRow]
      /\ pc'[r] = where /\ ctx'[r] = c /\ OnlyMoves(r)
  BY <1>1, <1>4, <1>6, Keeping
<1>8. TypeOK'
  BY <1>1, <1>7 DEF ListOthers, TypeOK, rows
<1>9. Knows(r)'
  BY <1>1, <1>4, <1>5, <1>6, <1>7 DEF ListOthers, rows, SessionIds, Knows, Purpose, Reads,
       ReadsActivity, Creates, InSomeSession, InOwnSession, Counting
<1> QED BY <1>2, <1>7, <1>8, <1>9 DEF Keeps, Kept

LEMMA CloseOtherKeeps ==
  ASSUME Inv, NEW r \in Requests, CloseOther(r)
  PROVE  Keeps(r)
<1>1. TypeOK /\ Knows(r) /\ pc[r] = "closeOther" /\ ctx[r] \in RequestRow
  BY RequestType DEF Inv, CloseOther
<1>2. PICK o \in ctx[r].others :
        LET rest == ctx[r].others \ {o}
        IN  /\ Write(o[1], Closed(o[1], o[2]))
            /\ Keep(r, [ctx[r] EXCEPT !.others = rest], IF rest = {} THEN "findOwn" ELSE "closeOther")
  BY DEF CloseOther
<1> DEFINE rest == ctx[r].others \ {o}
           c == [ctx[r] EXCEPT !.others = rest]
           where == IF rest = {} THEN "findOwn" ELSE "closeOther"
<1>3. o[1] \in SessionIds /\ o[2] \in Nat /\ UNCHANGED activities
  BY <1>1 DEF Knows, Reads, RequestRow, CloseOther
<1>4. rest \in SUBSET (Nat \X Nat) /\ \A x \in rest : x[1] \in SessionIds
  BY <1>1 DEF Knows, Reads, RequestRow
<1>5. where \in {"findOwn", "closeOther"} /\ Keep(r, c, where) /\ Write(o[1], Closed(o[1], o[2]))
  BY <1>2
<1> HIDE DEF rest, where
<1>6. /\ c \in RequestRow /\ c.device = ctx[r].device /\ c.kind = ctx[r].kind /\ c.items = ctx[r].items
      /\ c.others = rest /\ c.fresh = ctx[r].fresh
  BY <1>1, <1>4 DEF RequestRow
<1> HIDE DEF c
<1>7. SessionsKept(r) /\ ActivitiesKept(r) /\ sessions' \in Seq(SessionRow) /\ Len(sessions') = Len(sessions)
  BY <1>1, <1>3, <1>5, ClosedRow, SessionWritten
<1>8. /\ pc' \in [Requests -> Places] /\ ctx' \in [Requests -> RequestRow]
      /\ pc'[r] = where /\ ctx'[r] = c /\ OnlyMoves(r)
  BY <1>1, <1>5, <1>6, Keeping
<1>9. TypeOK'
  BY <1>1, <1>7, <1>8 DEF CloseOther, TypeOK
<1>10. Knows(r)'
  BY <1>1, <1>4, <1>5, <1>6, <1>7, <1>8 DEF SessionIds, Knows, Purpose, Reads,
       ReadsActivity, Creates, InSomeSession, InOwnSession, Counting
<1> QED BY <1>7, <1>8, <1>9, <1>10 DEF Keeps, Kept

LEMMA FindOwnKeeps ==
  ASSUME Inv, NEW r \in Requests, FindOwn(r)
  PROVE  Keeps(r)
<1>1. TypeOK /\ Knows(r) /\ pc[r] = "findOwn" /\ ctx[r] \in RequestRow
  BY RequestType DEF Inv, FindOwn
<1>2. SessionsKept(r) /\ ActivitiesKept(r) /\ UNCHANGED <<sessions, activities>>
  BY <1>1, NothingWritten DEF FindOwn, rows
<1> DEFINE own == {t \in Of(ctx[r].device) : Active(t)}
<1>3. PICK s \in FirstOf(own) :
        LET found == [ctx[r] EXCEPT !.sess = s, !.ping = IF s = 0 THEN 0 ELSE sessions[s].ping]
        IN  Keep(r, found, IF s = 0 THEN "create"
                           ELSE IF Silent(found.started, found.ping) THEN "rollover" ELSE "ping")
  BY DEF FindOwn
<1>4. IF s = 0 THEN own = {} ELSE s \in own
  <2>1. 0 \notin own
    BY DEF Of, SessionIds
  <2> HIDE DEF own
  <2> QED BY <2>1, FirstIsOne
<1> DEFINE c == [ctx[r] EXCEPT !.sess = s, !.ping = IF s = 0 THEN 0 ELSE sessions[s].ping]
           where == IF s = 0 THEN "create"
                    ELSE IF Silent(c.started, c.ping) THEN "rollover" ELSE "ping"
<1>5. s # 0 => s \in SessionIds /\ sessions[s].device = ctx[r].device /\ Active(s)
  BY <1>4 DEF Of
<1>6. s \in Nat /\ (s # 0 => sessions[s].ping \in Nat)
  <2>1. CASE s = 0
    BY <2>1
  <2>2. CASE s # 0
    BY <1>1, <1>5, <2>2, RowTypes DEF SessionIds, SessionRow
  <2> QED BY <2>1, <2>2
<1>7. /\ c \in RequestRow /\ c.device = ctx[r].device /\ c.kind = ctx[r].kind /\ c.items = ctx[r].items
      /\ c.others = ctx[r].others /\ c.fresh = ctx[r].fresh /\ c.sess = s
  BY <1>1, <1>6 DEF RequestRow
<1>8. /\ Keep(r, c, where) /\ where \in {"create", "rollover", "ping"}
      /\ where = "create" <=> s = 0
  BY <1>3
<1> HIDE DEF c, where
<1>9. /\ pc' \in [Requests -> Places] /\ ctx' \in [Requests -> RequestRow]
      /\ pc'[r] = where /\ ctx'[r] = c /\ OnlyMoves(r)
  BY <1>1, <1>7, <1>8, Keeping
<1>10. TypeOK'
  BY <1>1, <1>9 DEF FindOwn, TypeOK, rows
<1>11. Creates(r)'
  <2>1. CASE s = 0
    <3>1. \A t \in Of(ctx[r].device) : ~Active(t)
      BY <1>4, <2>1
    <3> QED BY <1>2, <1>7, <1>8, <1>9, <2>1, <3>1 DEF Creates, Of, SessionIds, Active
  <2>2. CASE s # 0
    <3>1. \A t \in Of(ctx[r].device) : Active(t) => t = s
      BY <1>5, <2>2 DEF Inv, Single, Of
    <3> QED BY <1>2, <1>7, <1>8, <1>9, <2>2, <3>1 DEF Creates, Of, SessionIds, Active
  <2> QED BY <2>1, <2>2
<1>12. Purpose(r)' /\ Reads(r)' /\ ReadsActivity(r)'
  BY <1>1, <1>2, <1>5, <1>7, <1>8, <1>9 DEF SessionIds, Knows, Purpose, Reads,
       ReadsActivity, Creates, InSomeSession, InOwnSession, Counting
<1> QED BY <1>2, <1>9, <1>10, <1>11, <1>12 DEF Keeps, Kept, Knows

LEMMA RolloverKeeps ==
  ASSUME Inv, NEW r \in Requests, Rollover(r)
  PROVE  Keeps(r)
<1> DEFINE s == ctx[r].sess
<1>1. TypeOK /\ Knows(r) /\ pc[r] = "rollover" /\ ctx[r] \in RequestRow
  BY RequestType DEF Inv, Rollover
<1>2. s \in SessionIds /\ ctx[r].ping \in Nat
  BY <1>1 DEF Knows, Reads, InSomeSession, InOwnSession, RequestRow
<1>3. Goto(r, "create") /\ Write(s, Closed(s, ctx[r].ping)) /\ UNCHANGED <<ctx, activities>>
  BY DEF Rollover
<1>4. /\ SessionsKept(r) /\ ActivitiesKept(r) /\ sessions' \in Seq(SessionRow) /\ Len(sessions') = Len(sessions)
      /\ \A t \in SessionIds : sessions'[t] = IF t = s THEN Closed(s, ctx[r].ping) ELSE sessions[t]
      /\ ~Closed(s, ctx[r].ping).active
  <2>1. /\ Closed(s, ctx[r].ping) \in SessionRow /\ ~Closed(s, ctx[r].ping).active
        /\ Closed(s, ctx[r].ping).device = sessions[s].device
        /\ Closed(s, ctx[r].ping).login = sessions[s].login
        /\ Closed(s, ctx[r].ping).tracked = sessions[s].tracked
    BY <1>1, <1>2, ClosedRow
  <2> QED BY <1>1, <1>2, <1>3, <2>1, SessionWritten
<1>5. /\ pc' \in [Requests -> Places] /\ ctx' \in [Requests -> RequestRow]
      /\ pc'[r] = "create" /\ ctx'[r] = ctx[r] /\ OnlyMoves(r)
  BY <1>1, <1>3, Going
<1>6. TypeOK'
  BY <1>1, <1>4, <1>5 DEF Rollover, TypeOK
<1>7. Creates(r)'
  <2>1. \A t \in Of(ctx[r].device) : Active(t) => t = s
    BY <1>1 DEF Knows, Creates
  <2>2. \A t \in SessionIds : sessions'[t].device = ctx[r].device => ~sessions'[t].active
    BY <1>4, <2>1 DEF Of, Active, SessionsKept
  <2> QED BY <1>4, <1>5, <2>2 DEF Creates, Of, SessionIds, Active
<1>8. Purpose(r)' /\ Reads(r)' /\ ReadsActivity(r)'
  BY <1>1, <1>4, <1>5 DEF SessionIds, Knows, Purpose, Reads,
       ReadsActivity, Creates, InSomeSession, InOwnSession, Counting
<1> QED BY <1>4, <1>5, <1>6, <1>7, <1>8 DEF Keeps, Kept, Knows

\* The portal is answered at once; a tracker's report is counted.
LEMMA TelemetryGoes ==
  ASSUME TypeOK, NEW r \in Requests, NEW c \in RequestRow, c.device = ctx[r].device,
         ctx[r].device \in Devices, Telemetry(r, c)
  PROVE  /\ pc' \in [Requests -> Places] /\ ctx' \in [Requests -> RequestRow]
         /\ latest' \in [Devices -> [sess : Nat, items : Seq(ReportRow)]] /\ OnlyMoves(r)
         /\ IF c.device = Portal THEN Knows(r)'
                                 ELSE pc'[r] = "touch" /\ ctx'[r] = c
<1>1. CASE c.device = Portal
  <2>1. Done(r)
    BY <1>1 DEF Telemetry
  <2> QED BY <1>1, <2>1, Answering
<1>2. CASE c.device # Portal
  <2>1. Keep(r, c, "touch") /\ UNCHANGED latest
    BY <1>2 DEF Telemetry
  <2>2. /\ pc' \in [Requests -> Places] /\ ctx' \in [Requests -> RequestRow]
        /\ pc'[r] = "touch" /\ ctx'[r] = c /\ OnlyMoves(r)
    BY <2>1, Keeping
  <2> QED BY <1>2, <2>1, <2>2 DEF TypeOK
<1> QED BY <1>1, <1>2

LEMMA ItemTypes ==
  ASSUME TypeOK, NEW r \in Requests
  PROVE  /\ ctx[r].items \in Seq(ReportRow) /\ Len(ctx[r].items) \in Nat
         /\ \A n \in 1..Len(ctx[r].items) : ctx[r].items[n] \in ReportRow
         /\ ctx[r].items # << >> => Len(ctx[r].items) >= 1
<1>1. ctx[r].items \in Seq(ReportRow)
  BY DEF TypeOK, RequestRow
<1> QED BY <1>1, ElementOfSeq, EmptySeq, LenProperties

LEMMA CreateKeeps ==
  ASSUME Inv, NEW r \in Requests, Create(r)
  PROVE  Keeps(r)
<1> DEFINE c == [ctx[r] EXCEPT !.sess = Len(sessions) + 1]
           login == IF ctx[r].items = << >> THEN ctx[r].started
                    ELSE Earlier(ctx[r].items[1].at, ctx[r].started)
           row == NewSession(ctx[r].device, login, ctx[r].started, NoTime)
<1>1. TypeOK /\ Knows(r) /\ pc[r] = "create" /\ ctx[r] \in RequestRow
  BY RequestType DEF Inv, Create
<1>2. /\ Len(sessions) \in Nat /\ ctx[r].device \in Devices /\ ctx[r].started \in Nat
  BY <1>1, RowTypes DEF Knows, Purpose, RequestRow
<1>3. login \in Nat
  BY <1>1, <1>2, ItemTypes DEF Earlier, ReportRow
<1>4. Insert(row) /\ Telemetry(r, c) /\ UNCHANGED activities
  BY DEF Create
<1> HIDE DEF login
<1>5. row \in SessionRow /\ row.device = ctx[r].device /\ row.tracked = 0
  <2>1. NoTime \in Int
    BY DEF NoTime
  <2>2. /\ NewSession(ctx[r].device, login, ctx[r].started, NoTime) \in SessionRow
        /\ NewSession(ctx[r].device, login, ctx[r].started, NoTime).device = ctx[r].device
        /\ NewSession(ctx[r].device, login, ctx[r].started, NoTime).tracked = 0
    BY <1>2, <1>3, <2>1 DEF NewSession, SessionRow
  <2> QED BY <2>2
<1>6. \A t \in SessionIds : sessions[t].device = ctx[r].device => ~sessions[t].active
  BY <1>1 DEF Knows, Creates, Of, Active
<1>7. /\ c \in RequestRow /\ c.device = ctx[r].device /\ c.kind = ctx[r].kind /\ c.items = ctx[r].items
      /\ c.others = ctx[r].others /\ c.fresh = ctx[r].fresh /\ c.sess = Len(sessions) + 1
  <2>1. Len(sessions) + 1 \in Nat
    BY <1>2
  <2> QED BY <1>1, <2>1 DEF RequestRow
<1> HIDE DEF row, c
<1>8. /\ SessionsKept(r) /\ ActivitiesKept(r) /\ sessions' \in Seq(SessionRow)
      /\ Len(sessions') = Len(sessions) + 1
      /\ \A t \in SessionIds : sessions'[t] = sessions[t]
      /\ sessions'[Len(sessions) + 1] = row
  BY <1>1, <1>4, <1>5, <1>6, SessionInserted
<1>9. /\ pc' \in [Requests -> Places] /\ ctx' \in [Requests -> RequestRow]
      /\ latest' \in [Devices -> [sess : Nat, items : Seq(ReportRow)]] /\ OnlyMoves(r)
      /\ IF c.device = Portal THEN Knows(r)' ELSE pc'[r] = "touch" /\ ctx'[r] = c
  BY <1>1, <1>2, <1>4, <1>7, TelemetryGoes
<1>10. TypeOK'
  BY <1>1, <1>8, <1>9 DEF Create, TypeOK
<1>11. Knows(r)'
  <2>1. CASE c.device # Portal
    <3>1. /\ pc'[r] = "touch" /\ ctx'[r] = c /\ c.sess \in SessionIds'
          /\ sessions'[c.sess].device = c.device /\ SessionIds \subseteq SessionIds'
      BY <1>2, <1>5, <1>7, <1>8, <1>9, <2>1 DEF SessionIds
    <3> QED BY <1>1, <1>7, <2>1, <3>1 DEF Knows, Purpose, Reads,
       ReadsActivity, Creates, InSomeSession, InOwnSession, Counting
  <2> QED BY <1>9, <2>1
<1> QED BY <1>8, <1>9, <1>10, <1>11 DEF Keeps, Kept

LEMMA PingKeeps ==
  ASSUME Inv, NEW r \in Requests, Ping(r)
  PROVE  Keeps(r)
<1> DEFINE s == ctx[r].sess
           row == [sessions[s] EXCEPT !.ping = ctx[r].started]
<1>1. TypeOK /\ Knows(r) /\ pc[r] = "ping" /\ ctx[r] \in RequestRow
  BY RequestType DEF Inv, Ping
<1>2. s \in SessionIds /\ ctx[r].started \in Nat /\ ctx[r].device \in Devices
  BY <1>1 DEF Knows, Purpose, Reads, InSomeSession, RequestRow
<1>3. Write(s, row) /\ Telemetry(r, ctx[r]) /\ UNCHANGED activities
  BY DEF Ping
<1>4. /\ row \in SessionRow /\ row.active = sessions[s].active /\ row.device = sessions[s].device
      /\ row.login = sessions[s].login /\ row.tracked = sessions[s].tracked
      /\ row.active => sessions[s].active
  BY <1>1, <1>2, PingedRow
<1> HIDE DEF row
<1>5. /\ SessionsKept(r) /\ ActivitiesKept(r) /\ sessions' \in Seq(SessionRow) /\ Len(sessions') = Len(sessions)
      /\ \A t \in SessionIds : sessions'[t] = IF t = s THEN row ELSE sessions[t]
  BY <1>1, <1>2, <1>3, <1>4, SessionWritten
<1>6. /\ pc' \in [Requests -> Places] /\ ctx' \in [Requests -> RequestRow]
      /\ latest' \in [Devices -> [sess : Nat, items : Seq(ReportRow)]] /\ OnlyMoves(r)
      /\ IF ctx[r].device = Portal THEN Knows(r)' ELSE pc'[r] = "touch" /\ ctx'[r] = ctx[r]
  BY <1>1, <1>2, <1>3, TelemetryGoes
<1>7. TypeOK'
  BY <1>1, <1>5, <1>6 DEF Ping, TypeOK
<1>8. Knows(r)'
  <2>1. CASE ctx[r].device # Portal
    <3>1. sessions[s].device = ctx[r].device
      BY <1>1, <2>1 DEF Knows, Reads
    <3> QED BY <1>1, <1>2, <1>4, <1>5, <1>6, <2>1, <3>1 DEF SessionIds, Knows, Purpose, Reads,
       ReadsActivity, Creates, InSomeSession, InOwnSession, Counting
  <2> QED BY <1>6, <2>1
<1> QED BY <1>5, <1>6, <1>7, <1>8 DEF Keeps, Kept

LEMMA TouchKeeps ==
  ASSUME Inv, NEW r \in Requests, Touch(r)
  PROVE  Keeps(r)
<1> DEFINE c == [ctx[r] EXCEPT !.tracked = sessions[ctx[r].sess].tracked]
<1>1. TypeOK /\ Knows(r) /\ pc[r] = "touch" /\ ctx[r] \in RequestRow
  BY RequestType DEF Inv, Touch
<1>2. SessionsKept(r) /\ ActivitiesKept(r) /\ UNCHANGED <<sessions, activities>> /\ Keep(r, c, "dup")
  BY <1>1, NothingWritten DEF Touch, rows
<1>3. ctx[r].sess \in SessionIds
  BY <1>1 DEF Knows, Reads, InSomeSession, InOwnSession, Counting
<1>4. sessions[ctx[r].sess].tracked \in Int
  BY <1>1, <1>3, RowTypes DEF SessionRow
<1>5. /\ c \in RequestRow /\ c.device = ctx[r].device /\ c.kind = ctx[r].kind /\ c.items = ctx[r].items
      /\ c.others = ctx[r].others /\ c.fresh = ctx[r].fresh /\ c.sess = ctx[r].sess
      /\ c.tracked = sessions[c.sess].tracked
  BY <1>1, <1>4 DEF RequestRow
<1> HIDE DEF c
<1>6. /\ pc' \in [Requests -> Places] /\ ctx' \in [Requests -> RequestRow]
      /\ pc'[r] = "dup" /\ ctx'[r] = c /\ OnlyMoves(r)
  BY <1>1, <1>2, <1>5, Keeping
<1>7. TypeOK'
  BY <1>1, <1>6 DEF Touch, TypeOK, rows
<1>8. Knows(r)'
  BY <1>1, <1>2, <1>5, <1>6 DEF SessionIds, Knows, Purpose, Reads,
       ReadsActivity, Creates, InSomeSession, InOwnSession, Counting
<1> QED BY <1>2, <1>6, <1>7, <1>8 DEF Keeps, Kept

LEMMA DuplicateKeeps ==
  ASSUME Inv, NEW r \in Requests, Duplicate(r)
  PROVE  Keeps(r)
<1>1. TypeOK /\ Knows(r) /\ pc[r] = "dup" /\ ctx[r] \in RequestRow /\ ctx[r].device \in Devices
  BY RequestType DEF Inv, Duplicate, Knows, Purpose
<1>2. SessionsKept(r) /\ ActivitiesKept(r) /\ UNCHANGED <<sessions, activities>>
  BY <1>1, NothingWritten DEF Duplicate, rows
<1>3. CASE \E n \in InSession(r) : Same(n, ctx[r].items[1]) /\ Near(activities[n].at, ctx[r].items[1].at)
  <2>1. Done(r)
    BY <1>3 DEF Duplicate
  <2>2. /\ pc' \in [Requests -> Places] /\ ctx' \in [Requests -> RequestRow]
        /\ latest' \in [Devices -> [sess : Nat, items : Seq(ReportRow)]]
        /\ OnlyMoves(r) /\ Knows(r)'
    BY <1>1, <2>1, Answering
  <2>3. TypeOK'
    BY <1>1, <2>2 DEF Duplicate, TypeOK, rows
  <2> QED BY <1>2, <2>2, <2>3 DEF Keeps, Kept
<1>4. CASE ~\E n \in InSession(r) : Same(n, ctx[r].items[1]) /\ Near(activities[n].at, ctx[r].items[1].at)
  <2>1. Goto(r, "count") /\ UNCHANGED <<ctx, latest>>
    BY <1>4 DEF Duplicate
  <2>2. /\ pc' \in [Requests -> Places] /\ ctx' \in [Requests -> RequestRow]
        /\ pc'[r] = "count" /\ ctx'[r] = ctx[r] /\ OnlyMoves(r)
    BY <1>1, <2>1, Going
  <2>3. TypeOK'
    BY <1>1, <2>1, <2>2 DEF Duplicate, TypeOK, rows
  <2>4. ReadsActivity(r)'
    <3>1. \A n \in InSession(r)' : n \in InSession(r)
      BY <1>2, <2>2 DEF InSession, ActivityIds
    <3> QED BY <1>2, <1>4, <2>2, <3>1 DEF ReadsActivity, Same
  <2>5. Purpose(r)' /\ Reads(r)' /\ Creates(r)'
    BY <1>1, <1>2, <2>2 DEF SessionIds, Knows, Purpose, Reads,
       ReadsActivity, Creates, InSomeSession, InOwnSession, Counting
  <2> QED BY <1>2, <2>2, <2>3, <2>4, <2>5 DEF Keeps, Kept, Knows
<1> QED BY <1>3, <1>4

LEMMA CountKeeps ==
  ASSUME Inv, NEW r \in Requests, Count(r)
  PROVE  Keeps(r)
<1> DEFINE s == ctx[r].sess
           row == [sessions[s] EXCEPT !.tracked = ctx[r].tracked + 1]
<1>1. TypeOK /\ Knows(r) /\ pc[r] = "count" /\ ctx[r] \in RequestRow
  BY RequestType DEF Inv, Count
<1>2. s \in SessionIds /\ ctx[r].tracked + 1 \in Int /\ sessions[s].device = ctx[r].device
  BY <1>1 DEF Knows, Reads, InSomeSession, InOwnSession, Counting, RequestRow
<1>3. Goto(r, "last") /\ Write(s, row) /\ UNCHANGED <<ctx, activities>>
  BY DEF Count
<1>4. /\ row \in SessionRow /\ row.active = sessions[s].active /\ row.device = sessions[s].device
      /\ row.login = sessions[s].login /\ row.tracked = ctx[r].tracked + 1
      /\ row.active => sessions[s].active
  BY <1>1, <1>2, CountedRow
<1> HIDE DEF row
<1>5. /\ SessionsKept(r) /\ ActivitiesKept(r) /\ sessions' \in Seq(SessionRow) /\ Len(sessions') = Len(sessions)
      /\ \A t \in SessionIds : sessions'[t] = IF t = s THEN row ELSE sessions[t]
  <2>1. ~(sessions[s].device # ctx[r].device \/ pc[r] \notin {"count", "writeTotal"})
    BY <1>1, <1>2
  <2>2. /\ sessions' \in Seq(SessionRow) /\ Len(sessions') = Len(sessions)
        /\ \A t \in SessionIds : sessions'[t] = IF t = s THEN row ELSE sessions[t]
    BY <1>1, <1>2, <1>3, <1>4, WriteEffect DEF TypeOK
  <2>3. SessionsKept(r) /\ ActivitiesKept(r)
    BY <1>1, <1>2, <1>3, <1>4, <2>1, SessionWritten
  <2> QED BY <2>2, <2>3
<1>6. /\ pc' \in [Requests -> Places] /\ ctx' \in [Requests -> RequestRow]
      /\ pc'[r] = "last" /\ ctx'[r] = ctx[r] /\ OnlyMoves(r)
  BY <1>1, <1>3, Going
<1>7. TypeOK'
  BY <1>1, <1>5, <1>6 DEF Count, TypeOK
<1>8. Knows(r)'
  BY <1>1, <1>2, <1>4, <1>5, <1>6 DEF SessionIds, Knows, Purpose, Reads,
       ReadsActivity, Creates, InSomeSession, InOwnSession, Counting
<1> QED BY <1>5, <1>6, <1>7, <1>8 DEF Keeps, Kept

LEMMA LastKeeps ==
  ASSUME Inv, NEW r \in Requests, Last(r)
  PROVE  Keeps(r)
<1>1. TypeOK /\ Knows(r) /\ pc[r] = "last" /\ ctx[r] \in RequestRow
  BY RequestType DEF Inv, Last
<1>2. SessionsKept(r) /\ ActivitiesKept(r) /\ UNCHANGED <<sessions, activities>>
  BY <1>1, NothingWritten DEF Last, rows
<1>3. CASE Goto(r, "record") /\ UNCHANGED ctx
  <2>1. /\ pc' \in [Requests -> Places] /\ ctx' \in [Requests -> RequestRow]
        /\ pc'[r] = "record" /\ ctx'[r] = ctx[r] /\ OnlyMoves(r)
    BY <1>1, <1>3, Going
  <2>2. TypeOK'
    BY <1>1, <2>1 DEF Last, TypeOK, rows
  <2>3. Knows(r)'
    BY <1>1, <1>2, <2>1 DEF SessionIds, Knows, Purpose, Reads,
       ReadsActivity, Creates, InSomeSession, InOwnSession, Counting
  <2> QED BY <1>2, <2>1, <2>2, <2>3 DEF Keeps, Kept
<1>4. ASSUME NEW n \in LatestActivity(r), Same(n, ctx[r].items[1]),
             Keep(r, [ctx[r] EXCEPT !.act = n, !.dur = activities[n].dur], "merge")
      PROVE  Keeps(r)
  <2> DEFINE c == [ctx[r] EXCEPT !.act = n, !.dur = activities[n].dur]
  <2>1. n \in ActivityIds /\ activities[n].sess = ctx[r].sess /\ activities[n].app = ctx[r].items[1].app
    BY <1>4 DEF LatestActivity, InSession, Same
  <2>2. n \in Nat /\ activities[n].dur \in Int
    BY <1>1, <2>1, RowTypes DEF ActivityIds, ActivityRow
  <2>3. /\ c \in RequestRow /\ c.device = ctx[r].device /\ c.kind = ctx[r].kind /\ c.items = ctx[r].items
        /\ c.others = ctx[r].others /\ c.fresh = ctx[r].fresh /\ c.sess = ctx[r].sess
        /\ c.act = n /\ c.dur = activities[n].dur
    BY <1>1, <2>2 DEF RequestRow
  <2> HIDE DEF c
  <2>4. /\ pc' \in [Requests -> Places] /\ ctx' \in [Requests -> RequestRow]
        /\ pc'[r] = "merge" /\ ctx'[r] = c /\ OnlyMoves(r)
    BY <1>1, <1>4, <2>3, Keeping DEF c
  <2>5. TypeOK'
    BY <1>1, <2>4 DEF Last, TypeOK, rows
  <2>6. Knows(r)'
    BY <1>1, <1>2, <2>1, <2>3, <2>4 DEF SessionIds, ActivityIds, Knows, Purpose, Reads,
       ReadsActivity, Creates, InSomeSession, InOwnSession, Counting
  <2> QED BY <1>2, <2>4, <2>5, <2>6 DEF Keeps, Kept
<1> QED
  <2>1. \/ Goto(r, "record") /\ UNCHANGED ctx
        \/ \E n \in LatestActivity(r) :
             IF Same(n, ctx[r].items[1])
               THEN Keep(r, [ctx[r] EXCEPT !.act = n, !.dur = activities[n].dur], "merge")
               ELSE Goto(r, "record") /\ UNCHANGED ctx
    BY DEF Last
  <2> QED BY <1>3, <1>4, <2>1

\* After a report is recorded.
LEMMA NextReportGoes ==
  ASSUME Inv, NEW r \in Requests, pc[r] \in {"merge", "record"}, NextReport(r),
         SessionsKept(r), ActivitiesKept(r), UNCHANGED sessions
  PROVE  /\ pc' \in [Requests -> Places] /\ ctx' \in [Requests -> RequestRow]
         /\ latest' \in [Devices -> [sess : Nat, items : Seq(ReportRow)]]
         /\ OnlyMoves(r) /\ Knows(r)'
<1>1. TypeOK /\ Knows(r) /\ ctx[r] \in RequestRow /\ ctx[r].device \in Devices
  BY RequestType DEF Inv, Knows, Purpose
<1>2. CASE ctx[r].kind = "heartbeat"
  <2>1. Done(r)
    BY <1>2 DEF NextReport
  <2> QED BY <1>1, <2>1, Answering
<1>3. CASE ctx[r].kind # "heartbeat"
  <2> DEFINE c == [ctx[r] EXCEPT !.items = Tail(@), !.fresh = @ + 1]
             where == IF Len(ctx[r].items) = 1 THEN "readTotal" ELSE "item"
  <2>1. Keep(r, c, where) /\ UNCHANGED latest /\ where \in {"readTotal", "item"}
        /\ (where = "item" => Len(ctx[r].items) # 1)
    BY <1>3 DEF NextReport
  <2>2. ctx[r].kind = "batch" /\ ctx[r].items # << >>
    BY <1>1, <1>3 DEF Knows, Purpose
  <2>3. /\ Tail(ctx[r].items) \in Seq(ReportRow) /\ ctx[r].fresh + 1 \in Nat
        /\ Len(Tail(ctx[r].items)) = Len(ctx[r].items) - 1 /\ Len(ctx[r].items) >= 1
        /\ Len(ctx[r].items) \in Nat
    <3>1. /\ ctx[r].items \in Seq(ReportRow) /\ Len(ctx[r].items) \in Nat
          /\ Len(ctx[r].items) >= 1
      BY <1>1, <2>2, ItemTypes
    <3>2. /\ Tail(ctx[r].items) \in Seq(ReportRow)
          /\ Len(Tail(ctx[r].items)) = Len(ctx[r].items) - 1
      BY <2>2, <3>1, HeadTailProperties
    <3>3. ctx[r].fresh + 1 \in Nat
      BY <1>1 DEF RequestRow
    <3> QED BY <3>1, <3>2, <3>3
  <2>4. where = "item" => Tail(ctx[r].items) # << >>
    <3>1. Len(<< >>) = 0
      OBVIOUS
    <3>2. where = "item" => Len(Tail(ctx[r].items)) # 0
      <4> HIDE DEF where
      <4> QED BY <2>1, <2>3
    <3> QED BY <3>1, <3>2
  <2>5. /\ c \in RequestRow /\ c.device = ctx[r].device /\ c.kind = ctx[r].kind
        /\ c.items = Tail(ctx[r].items) /\ c.others = ctx[r].others /\ c.sess = ctx[r].sess
    BY <1>1, <2>3 DEF RequestRow
  <2> HIDE DEF c, where
  <2>6. /\ pc' \in [Requests -> Places] /\ ctx' \in [Requests -> RequestRow]
        /\ pc'[r] = where /\ ctx'[r] = c /\ OnlyMoves(r)
    BY <1>1, <2>1, <2>5, Keeping
  <2>7. Knows(r)'
    BY <1>1, <2>1, <2>2, <2>4, <2>5, <2>6 DEF SessionIds, Knows, Purpose, Reads,
       ReadsActivity, Creates, InSomeSession, InOwnSession, Counting
  <2> QED BY <1>1, <2>1, <2>6, <2>7 DEF TypeOK
<1> QED BY <1>2, <1>3

LEMMA ReportLeft ==
  ASSUME NEW r, Knows(r), pc[r] \in OfRecording
  PROVE  ctx[r].items # << >>
<1>1. \/ ctx[r].kind = "batch" /\ ctx[r].items # << >>
      \/ ctx[r].kind = "heartbeat" /\ Len(ctx[r].items) = 1
  BY DEF Knows, Purpose, Counting
<1>2. Len(<< >>) # 1
  OBVIOUS
<1>3. Len(ctx[r].items) = 1 => ctx[r].items # << >>
  BY <1>2, Zenon
<1> QED BY <1>1, <1>3

LEMMA MergeEffect ==
  ASSUME Inv, NEW r \in Requests, Merge(r)
  PROVE  /\ activities' \in Seq(ActivityRow) /\ Len(activities') = Len(activities)
         /\ ctx[r].act \in ActivityIds /\ activities[ctx[r].act].sess = ctx[r].sess
         /\ activities'[ctx[r].act].sess = ctx[r].sess
         /\ activities'[ctx[r].act].app = activities[ctx[r].act].app
         /\ activities[ctx[r].act].app = ctx[r].items[1].app
         /\ activities'[ctx[r].act].at = ctx[r].items[1].at
         /\ activities'[ctx[r].act].dur = activities[ctx[r].act].dur + 1
         /\ \A n \in ActivityIds : n # ctx[r].act => activities'[n] = activities[n]
<1> DEFINE a == ctx[r].act
           row == [activities[a] EXCEPT !.dur = ctx[r].dur + 1, !.at = ctx[r].items[1].at]
<1>1. TypeOK /\ Knows(r) /\ pc[r] = "merge" /\ ctx[r] \in RequestRow
  BY RequestType DEF Inv, Merge
<1>2. /\ a \in ActivityIds /\ activities[a].sess = ctx[r].sess /\ activities[a].dur = ctx[r].dur
      /\ activities[a].app = ctx[r].items[1].app
  BY <1>1 DEF Knows, ReadsActivity
<1>3. ctx[r].items # << >>
  BY <1>1, ReportLeft
<1>4. ctx[r].items[1].at \in Nat /\ ctx[r].dur + 1 \in Int
  BY <1>1, <1>3, ItemTypes DEF ReportRow, RequestRow
<1>5. activities[a] \in ActivityRow
  BY <1>1, <1>2, RowTypes
<1>6. /\ row \in ActivityRow /\ row.sess = activities[a].sess /\ row.app = activities[a].app
      /\ row.dur = ctx[r].dur + 1 /\ row.at = ctx[r].items[1].at
  BY <1>4, <1>5 DEF ActivityRow
<1>7. activities' = [activities EXCEPT ![a] = row]
  BY <1>5 DEF Merge, ActivityRow
<1> HIDE DEF row
<1>8. /\ activities' \in Seq(ActivityRow) /\ Len(activities') = Len(activities)
      /\ \A n \in ActivityIds : activities'[n] = IF n = a THEN row ELSE activities[n]
  BY <1>1, <1>2, <1>6, <1>7, ExceptSeq DEF TypeOK, ActivityIds
<1> QED BY <1>2, <1>6, <1>8

LEMMA MergeKeeps ==
  ASSUME Inv, NEW r \in Requests, Merge(r)
  PROVE  Keeps(r)
<1>1. TypeOK /\ Knows(r) /\ pc[r] = "merge" /\ UNCHANGED sessions /\ NextReport(r)
  BY DEF Inv, Merge
<1>2. sessions[ctx[r].sess].device = ctx[r].device
  BY <1>1 DEF Knows, Reads, InOwnSession, Counting
<1>3. ActivitiesKept(r)
  BY <1>1, <1>2, MergeEffect, RowTypes DEF ActivitiesKept, ActivityIds
<1>4. SessionsKept(r)
  BY <1>1, RowTypes DEF SessionsKept, SessionIds
<1>5. /\ pc' \in [Requests -> Places] /\ ctx' \in [Requests -> RequestRow]
      /\ latest' \in [Devices -> [sess : Nat, items : Seq(ReportRow)]]
      /\ OnlyMoves(r) /\ Knows(r)'
  BY <1>1, <1>3, <1>4, NextReportGoes
<1>6. TypeOK'
  BY <1>1, <1>5, MergeEffect DEF Merge, TypeOK
<1> QED BY <1>3, <1>4, <1>5, <1>6 DEF Keeps, Kept

LEMMA RecordEffect ==
  ASSUME Inv, NEW r \in Requests, Record(r)
  PROVE  /\ activities' \in Seq(ActivityRow) /\ Len(activities') = Len(activities) + 1
         /\ \A n \in ActivityIds : activities'[n] = activities[n]
         /\ LET row == activities'[Len(activities) + 1]
            IN  /\ row.sess = ctx[r].sess /\ row.app = ctx[r].items[1].app
                /\ row.at = ctx[r].items[1].at /\ row.dur = 1
<1> DEFINE row == [sess |-> ctx[r].sess, app |-> ctx[r].items[1].app,
                   at |-> ctx[r].items[1].at, dur |-> 1]
<1>1. TypeOK /\ Knows(r) /\ pc[r] = "record" /\ ctx[r] \in RequestRow
  BY RequestType DEF Inv, Record
<1>2. ctx[r].items # << >>
  BY <1>1, ReportLeft
<1>3. ctx[r].items[1] \in ReportRow /\ ctx[r].sess \in Nat
  BY <1>1, <1>2, ItemTypes DEF RequestRow
<1>4. row \in ActivityRow
  BY <1>3 DEF ActivityRow, ReportRow
<1>5. activities' = Append(activities, row)
  BY DEF Record
<1> HIDE DEF row
<1>6. /\ activities' \in Seq(ActivityRow) /\ Len(activities') = Len(activities) + 1
      /\ \A n \in ActivityIds : activities'[n] = activities[n]
      /\ activities'[Len(activities) + 1] = row
  BY <1>1, <1>4, <1>5, AppendProperties DEF TypeOK, ActivityIds
<1> QED BY <1>6 DEF row

LEMMA RecordKeeps ==
  ASSUME Inv, NEW r \in Requests, Record(r)
  PROVE  Keeps(r)
<1>1. TypeOK /\ Knows(r) /\ pc[r] = "record" /\ UNCHANGED sessions /\ NextReport(r)
  BY DEF Inv, Record
<1>2. sessions[ctx[r].sess].device = ctx[r].device /\ ctx[r].sess \in SessionIds
  BY <1>1 DEF Knows, Reads, InSomeSession, InOwnSession, Counting
<1>3. ActivitiesKept(r)
  <2>1. \A n \in 1..Len(activities') : n \notin ActivityIds => n = Len(activities) + 1
    BY <1>1, RecordEffect, RowTypes DEF ActivityIds
  <2> QED BY <1>1, <1>2, <2>1, RecordEffect, RowTypes DEF ActivitiesKept, ActivityIds
<1>4. SessionsKept(r)
  BY <1>1, RowTypes DEF SessionsKept, SessionIds
<1>5. /\ pc' \in [Requests -> Places] /\ ctx' \in [Requests -> RequestRow]
      /\ latest' \in [Devices -> [sess : Nat, items : Seq(ReportRow)]]
      /\ OnlyMoves(r) /\ Knows(r)'
  BY <1>1, <1>3, <1>4, NextReportGoes
<1>6. TypeOK'
  BY <1>1, <1>5, RecordEffect DEF Record, TypeOK
<1> QED BY <1>3, <1>4, <1>5, <1>6 DEF Keeps, Kept

LEMMA FindTargetKeeps ==
  ASSUME Inv, NEW r \in Requests, FindTarget(r)
  PROVE  Keeps(r)
<1>1. TypeOK /\ Knows(r) /\ pc[r] = "findTarget" /\ ctx[r] \in RequestRow
  BY RequestType DEF Inv, FindTarget
<1>2. SessionsKept(r) /\ ActivitiesKept(r) /\ UNCHANGED <<sessions, activities>>
  BY <1>1, NothingWritten DEF FindTarget, rows
<1> DEFINE first == ctx[r].items[1].at
           last == ctx[r].items[Len(ctx[r].items)].at
           spans == {s \in Of(ctx[r].device) : /\ sessions[s].login <= last
                                               /\ sessions[s].logout # NoTime
                                               /\ sessions[s].logout >= first}
           live == {s \in Of(ctx[r].device) : Active(s)}
           found == IF Historical(r) THEN spans ELSE live
<1>3. PICK s \in FirstOf(found) :
        Keep(r, [ctx[r] EXCEPT !.sess = s],
             IF s = 0 THEN "createTarget" ELSE IF Historical(r) THEN "item" ELSE "pingTarget")
  BY DEF FindTarget
<1>4. IF s = 0 THEN found = {} ELSE s \in found
  <2>1. 0 \notin found
    BY DEF Of, SessionIds
  <2> HIDE DEF found
  <2> QED BY <2>1, FirstIsOne
<1>5. s # 0 => s \in SessionIds /\ sessions[s].device = ctx[r].device
  BY <1>4 DEF Of
<1>6. s = 0 /\ ~Historical(r) => \A t \in Of(ctx[r].device) : ~Active(t)
  BY <1>4
<1> DEFINE c == [ctx[r] EXCEPT !.sess = s]
           where == IF s = 0 THEN "createTarget" ELSE IF Historical(r) THEN "item" ELSE "pingTarget"
<1> HIDE DEF found
<1>7. s \in Nat
  BY <1>1, <1>5, RowTypes DEF SessionIds
<1>8. /\ c \in RequestRow /\ c.device = ctx[r].device /\ c.kind = ctx[r].kind /\ c.items = ctx[r].items
      /\ c.others = ctx[r].others /\ c.fresh = ctx[r].fresh /\ c.sess = s /\ c.started = ctx[r].started
  BY <1>1, <1>7 DEF RequestRow
<1>9. /\ Keep(r, c, where) /\ where \in {"createTarget", "item", "pingTarget"}
      /\ (where = "createTarget") <=> (s = 0)
  BY <1>3
<1> HIDE DEF c, where
<1>10. /\ pc' \in [Requests -> Places] /\ ctx' \in [Requests -> RequestRow]
       /\ pc'[r] = where /\ ctx'[r] = c /\ OnlyMoves(r)
  BY <1>1, <1>8, <1>9, Keeping
<1>11. TypeOK'
  BY <1>1, <1>10 DEF FindTarget, TypeOK, rows
<1>12. Creates(r)'
  <2>1. Historical(r)' = Historical(r)
    BY <1>8, <1>10 DEF Historical
  <2> QED BY <1>2, <1>6, <1>8, <1>9, <1>10, <2>1 DEF Creates, Of, SessionIds, Active
<1>13. Purpose(r)' /\ Reads(r)' /\ ReadsActivity(r)'
  BY <1>1, <1>2, <1>5, <1>8, <1>9, <1>10 DEF SessionIds, Knows, Purpose, Reads,
       ReadsActivity, Creates, InSomeSession, InOwnSession, Counting
<1> QED BY <1>2, <1>10, <1>11, <1>12, <1>13 DEF Keeps, Kept, Knows

LEMMA CreateTargetKeeps ==
  ASSUME Inv, NEW r \in Requests, CreateTarget(r)
  PROVE  Keeps(r)
<1> DEFINE c == [ctx[r] EXCEPT !.sess = Len(sessions) + 1]
           first == ctx[r].items[1].at
           last == ctx[r].items[Len(ctx[r].items)].at
           row == IF Historical(r) THEN NewSession(ctx[r].device, first, last, last)
                                   ELSE NewSession(ctx[r].device, first, ctx[r].started, NoTime)
<1>1. TypeOK /\ Knows(r) /\ pc[r] = "createTarget" /\ ctx[r] \in RequestRow
  BY RequestType DEF Inv, CreateTarget
<1>2. /\ Len(sessions) \in Nat /\ Len(sessions) + 1 \in Nat
      /\ ctx[r].device \in Devices /\ ctx[r].started \in Nat
      /\ ctx[r].items # << >> /\ ctx[r].kind = "batch"
  BY <1>1, RowTypes DEF Knows, Purpose, RequestRow
<1>3. first \in Nat /\ last \in Nat
  BY <1>1, <1>2, ItemTypes DEF ReportRow
<1>4. Insert(row) /\ Keep(r, c, "item") /\ UNCHANGED activities
  BY DEF CreateTarget
<1> HIDE DEF first, last
<1>5. /\ row \in SessionRow /\ row.device = ctx[r].device /\ row.tracked = 0
      /\ row.active => ~Historical(r)
  <2>1. CASE Historical(r)
    <3>1. row = NewSession(ctx[r].device, first, last, last)
      BY <2>1
    <3> HIDE DEF row
    <3>2. last # NoTime /\ last \in Int
      BY <1>3 DEF NoTime
    <3>3. row = [device |-> ctx[r].device, login |-> first, ping |-> last, logout |-> last,
                 active |-> FALSE, tracked |-> 0]
      BY <3>1, <3>2 DEF NewSession
    <3> QED BY <1>2, <1>3, <3>2, <3>3 DEF SessionRow
  <2>2. CASE ~Historical(r)
    <3>1. row = NewSession(ctx[r].device, first, ctx[r].started, NoTime)
      BY <2>2
    <3> HIDE DEF row
    <3>2. NoTime \in Int
      BY DEF NoTime
    <3> QED BY <1>2, <1>3, <2>2, <3>1, <3>2 DEF NewSession, SessionRow
  <2> QED BY <2>1, <2>2
<1>6. row.active => \A t \in SessionIds : sessions[t].device = ctx[r].device => ~sessions[t].active
  BY <1>1, <1>5 DEF Knows, Creates, Of, Active
<1>7. /\ c \in RequestRow /\ c.device = ctx[r].device /\ c.kind = ctx[r].kind /\ c.items = ctx[r].items
      /\ c.others = ctx[r].others /\ c.fresh = ctx[r].fresh /\ c.sess = Len(sessions) + 1
  BY <1>1, <1>2 DEF RequestRow
<1> HIDE DEF row, c
<1>8. /\ SessionsKept(r) /\ ActivitiesKept(r) /\ sessions' \in Seq(SessionRow)
      /\ Len(sessions') = Len(sessions) + 1
      /\ \A t \in SessionIds : sessions'[t] = sessions[t]
      /\ sessions'[Len(sessions) + 1] = row
  BY <1>1, <1>4, <1>5, <1>6, SessionInserted
<1>9. /\ pc' \in [Requests -> Places] /\ ctx' \in [Requests -> RequestRow]
      /\ pc'[r] = "item" /\ ctx'[r] = c /\ OnlyMoves(r)
  BY <1>1, <1>4, <1>7, Keeping
<1>10. TypeOK'
  BY <1>1, <1>8, <1>9 DEF CreateTarget, TypeOK
<1>11. Knows(r)'
  <2>1. /\ c.sess \in SessionIds' /\ sessions'[c.sess].device = c.device /\ SessionIds \subseteq SessionIds'
    BY <1>2, <1>5, <1>7, <1>8 DEF SessionIds
  <2> QED BY <1>1, <1>2, <1>7, <1>9, <2>1 DEF Knows, Purpose, Reads,
       ReadsActivity, Creates, InSomeSession, InOwnSession, Counting
<1> QED BY <1>8, <1>9, <1>10, <1>11 DEF Keeps, Kept

LEMMA PingTargetKeeps ==
  ASSUME Inv, NEW r \in Requests, PingTarget(r)
  PROVE  Keeps(r)
<1> DEFINE s == ctx[r].sess
           row == [sessions[s] EXCEPT !.ping = ctx[r].started]
<1>1. TypeOK /\ Knows(r) /\ pc[r] = "pingTarget" /\ ctx[r] \in RequestRow
  BY RequestType DEF Inv, PingTarget
<1>2. s \in SessionIds /\ ctx[r].started \in Nat /\ sessions[s].device = ctx[r].device
  BY <1>1 DEF Knows, Reads, InSomeSession, InOwnSession, RequestRow
<1>3. Write(s, row) /\ Goto(r, "item") /\ UNCHANGED <<ctx, activities>>
  BY DEF PingTarget
<1>4. /\ row \in SessionRow /\ row.active = sessions[s].active /\ row.device = sessions[s].device
      /\ row.login = sessions[s].login /\ row.tracked = sessions[s].tracked
      /\ row.active => sessions[s].active
  BY <1>1, <1>2, PingedRow
<1> HIDE DEF row
<1>5. /\ SessionsKept(r) /\ ActivitiesKept(r) /\ sessions' \in Seq(SessionRow) /\ Len(sessions') = Len(sessions)
      /\ \A t \in SessionIds : sessions'[t] = IF t = s THEN row ELSE sessions[t]
  BY <1>1, <1>2, <1>3, <1>4, SessionWritten
<1>6. /\ pc' \in [Requests -> Places] /\ ctx' \in [Requests -> RequestRow]
      /\ pc'[r] = "item" /\ ctx'[r] = ctx[r] /\ OnlyMoves(r)
  BY <1>1, <1>3, Going
<1>7. TypeOK'
  BY <1>1, <1>5, <1>6 DEF PingTarget, TypeOK
<1>8. Knows(r)'
  BY <1>1, <1>2, <1>4, <1>5, <1>6 DEF SessionIds, Knows, Purpose, Reads,
       ReadsActivity, Creates, InSomeSession, InOwnSession, Counting
<1> QED BY <1>5, <1>6, <1>7, <1>8 DEF Keeps, Kept

LEMMA ItemKeeps ==
  ASSUME Inv, NEW r \in Requests, Item(r)
  PROVE  Keeps(r)
<1>1. TypeOK /\ Knows(r) /\ pc[r] = "item" /\ ctx[r] \in RequestRow
  BY RequestType DEF Inv, Item
<1>2. SessionsKept(r) /\ ActivitiesKept(r) /\ UNCHANGED <<sessions, activities>>
  BY <1>1, NothingWritten DEF Item, rows
<1>3. CASE Goto(r, "last") /\ UNCHANGED ctx
  <2>1. /\ pc' \in [Requests -> Places] /\ ctx' \in [Requests -> RequestRow]
        /\ pc'[r] = "last" /\ ctx'[r] = ctx[r] /\ OnlyMoves(r)
    BY <1>1, <1>3, Going
  <2>2. TypeOK'
    BY <1>1, <2>1 DEF Item, TypeOK, rows
  <2>3. Knows(r)'
    BY <1>1, <1>2, <2>1 DEF SessionIds, Knows, Purpose, Reads,
       ReadsActivity, Creates, InSomeSession, InOwnSession, Counting
  <2> QED BY <1>2, <2>1, <2>2, <2>3 DEF Keeps, Kept
<1> DEFINE c == [ctx[r] EXCEPT !.items = Tail(@)]
           where == IF Len(ctx[r].items) = 1 THEN "readTotal" ELSE "item"
<1>4. CASE Keep(r, c, where)
  <2>1. where \in {"readTotal", "item"} /\ (where = "item" => Len(ctx[r].items) # 1)
    OBVIOUS
  <2>2. ctx[r].kind = "batch" /\ ctx[r].items # << >>
    BY <1>1 DEF Knows, Purpose
  <2>3. /\ ctx[r].items \in Seq(ReportRow) /\ Len(ctx[r].items) \in Nat /\ Len(ctx[r].items) >= 1
    BY <1>1, <2>2, ItemTypes
  <2>4. /\ Tail(ctx[r].items) \in Seq(ReportRow)
        /\ Len(Tail(ctx[r].items)) = Len(ctx[r].items) - 1
    BY <2>2, <2>3, HeadTailProperties
  <2>5. /\ c \in RequestRow /\ c.device = ctx[r].device /\ c.kind = ctx[r].kind
        /\ c.items = Tail(ctx[r].items) /\ c.others = ctx[r].others /\ c.sess = ctx[r].sess
        /\ c.fresh = ctx[r].fresh
    BY <1>1, <2>4 DEF RequestRow
  <2> HIDE DEF c, where
  <2>6. where = "item" => Tail(ctx[r].items) # << >>
    <3>1. Len(<< >>) = 0
      OBVIOUS
    <3>2. where = "item" => Len(Tail(ctx[r].items)) # 0
      BY <2>1, <2>3, <2>4
    <3> QED BY <3>1, <3>2
  <2>7. /\ pc' \in [Requests -> Places] /\ ctx' \in [Requests -> RequestRow]
        /\ pc'[r] = where /\ ctx'[r] = c /\ OnlyMoves(r)
    BY <1>1, <1>4, <2>1, <2>5, Keeping
  <2>8. TypeOK'
    BY <1>1, <2>7 DEF Item, TypeOK, rows
  <2>9. Knows(r)'
    BY <1>1, <1>2, <2>1, <2>2, <2>5, <2>6, <2>7 DEF SessionIds, Knows, Purpose, Reads,
       ReadsActivity, Creates, InSomeSession, InOwnSession, Counting
  <2> QED BY <1>2, <2>7, <2>8, <2>9 DEF Keeps, Kept
<1> QED BY <1>3, <1>4 DEF Item

LEMMA ReadTotalKeeps ==
  ASSUME Inv, NEW r \in Requests, ReadTotal(r)
  PROVE  Keeps(r)
<1> DEFINE c == [ctx[r] EXCEPT !.tracked = sessions[ctx[r].sess].tracked]
<1>1. TypeOK /\ Knows(r) /\ pc[r] = "readTotal" /\ ctx[r] \in RequestRow /\ ctx[r].device \in Devices
  BY RequestType DEF Inv, ReadTotal, Knows, Purpose
<1>2. SessionsKept(r) /\ ActivitiesKept(r) /\ UNCHANGED <<sessions, activities>>
  BY <1>1, NothingWritten DEF ReadTotal, rows
<1>3. ctx[r].sess \in SessionIds
  BY <1>1 DEF Knows, Reads, InSomeSession, InOwnSession, Counting
<1>4. sessions[ctx[r].sess].tracked \in Int
  BY <1>1, <1>3, RowTypes DEF SessionRow
<1>5. CASE Keep(r, c, "writeTotal") /\ UNCHANGED latest
  <2>1. /\ c \in RequestRow /\ c.device = ctx[r].device /\ c.kind = ctx[r].kind /\ c.items = ctx[r].items
        /\ c.others = ctx[r].others /\ c.fresh = ctx[r].fresh /\ c.sess = ctx[r].sess
        /\ c.tracked = sessions[c.sess].tracked
    BY <1>1, <1>4 DEF RequestRow
  <2> HIDE DEF c
  <2>2. /\ pc' \in [Requests -> Places] /\ ctx' \in [Requests -> RequestRow]
        /\ pc'[r] = "writeTotal" /\ ctx'[r] = c /\ OnlyMoves(r)
    BY <1>1, <1>5, <2>1, Keeping
  <2>3. TypeOK'
    BY <1>1, <1>5, <2>2 DEF ReadTotal, TypeOK, rows
  <2>4. Knows(r)'
    BY <1>1, <1>2, <2>1, <2>2 DEF SessionIds, Knows, Purpose, Reads,
       ReadsActivity, Creates, InSomeSession, InOwnSession, Counting
  <2> QED BY <1>2, <2>2, <2>3, <2>4 DEF Keeps, Kept
<1>6. CASE Done(r)
  <2>1. /\ pc' \in [Requests -> Places] /\ ctx' \in [Requests -> RequestRow]
        /\ latest' \in [Devices -> [sess : Nat, items : Seq(ReportRow)]]
        /\ OnlyMoves(r) /\ Knows(r)'
    BY <1>1, <1>6, Answering
  <2>2. TypeOK'
    BY <1>1, <2>1 DEF ReadTotal, TypeOK, rows
  <2> QED BY <1>2, <2>1, <2>2 DEF Keeps, Kept
<1> QED BY <1>5, <1>6 DEF ReadTotal

LEMMA WriteTotalKeeps ==
  ASSUME Inv, NEW r \in Requests, WriteTotal(r)
  PROVE  Keeps(r)
<1> DEFINE s == ctx[r].sess
           row == [sessions[s] EXCEPT !.tracked = ctx[r].tracked + ctx[r].fresh]
<1>1. TypeOK /\ Knows(r) /\ pc[r] = "writeTotal" /\ ctx[r] \in RequestRow /\ ctx[r].device \in Devices
  BY RequestType DEF Inv, WriteTotal, Knows, Purpose
<1>2. s \in SessionIds /\ ctx[r].tracked + ctx[r].fresh \in Int /\ sessions[s].device = ctx[r].device
  BY <1>1 DEF Knows, Reads, InSomeSession, InOwnSession, Counting, RequestRow
<1>3. Write(s, row) /\ Done(r) /\ UNCHANGED activities
  BY DEF WriteTotal
<1>4. /\ row \in SessionRow /\ row.active = sessions[s].active /\ row.device = sessions[s].device
      /\ row.login = sessions[s].login
      /\ row.active => sessions[s].active
  BY <1>1, <1>2, CountedRow
<1> HIDE DEF row
<1>5. /\ SessionsKept(r) /\ ActivitiesKept(r) /\ sessions' \in Seq(SessionRow)
  BY <1>1, <1>2, <1>3, <1>4, SessionWritten
<1>6. /\ pc' \in [Requests -> Places] /\ ctx' \in [Requests -> RequestRow]
      /\ latest' \in [Devices -> [sess : Nat, items : Seq(ReportRow)]]
      /\ OnlyMoves(r) /\ Knows(r)'
  BY <1>1, <1>3, Answering
<1>7. TypeOK'
  BY <1>1, <1>5, <1>6 DEF WriteTotal, TypeOK
<1> QED BY <1>5, <1>6, <1>7 DEF Keeps, Kept

LEMMA FindAnyKeeps ==
  ASSUME Inv, NEW r \in Requests, FindAny(r)
  PROVE  Keeps(r)
<1>1. TypeOK /\ Knows(r) /\ pc[r] = "findAny" /\ ctx[r] \in RequestRow /\ ctx[r].device \in Devices
  BY RequestType DEF Inv, FindAny, Knows, Purpose
<1>2. SessionsKept(r) /\ ActivitiesKept(r) /\ UNCHANGED <<sessions, activities>>
  BY <1>1, NothingWritten DEF FindAny, rows
<1>3. CASE Done(r)
  <2>1. /\ pc' \in [Requests -> Places] /\ ctx' \in [Requests -> RequestRow]
        /\ latest' \in [Devices -> [sess : Nat, items : Seq(ReportRow)]]
        /\ OnlyMoves(r) /\ Knows(r)'
    BY <1>1, <1>3, Answering
  <2>2. TypeOK'
    BY <1>1, <2>1 DEF FindAny, TypeOK, rows
  <2> QED BY <1>2, <2>1, <2>2 DEF Keeps, Kept
<1>4. ASSUME NEW s \in SessionIds, Keep(r, [ctx[r] EXCEPT !.sess = s, !.started = now], "logout"),
             UNCHANGED latest
      PROVE  Keeps(r)
  <2> DEFINE c == [ctx[r] EXCEPT !.sess = s, !.started = now]
  <2>1. s \in Nat /\ now \in Nat
    BY <1>1, RowTypes DEF SessionIds, TypeOK
  <2>2. /\ c \in RequestRow /\ c.device = ctx[r].device /\ c.kind = ctx[r].kind /\ c.items = ctx[r].items
        /\ c.others = ctx[r].others /\ c.fresh = ctx[r].fresh /\ c.sess = s
    BY <1>1, <2>1 DEF RequestRow
  <2>3. Keep(r, c, "logout")
    BY <1>4
  <2> HIDE DEF c
  <2>4. /\ pc' \in [Requests -> Places] /\ ctx' \in [Requests -> RequestRow]
        /\ pc'[r] = "logout" /\ ctx'[r] = c /\ OnlyMoves(r)
    BY <1>1, <2>2, <2>3, Keeping
  <2>5. TypeOK'
    BY <1>1, <1>4, <2>4 DEF FindAny, TypeOK, rows
  <2>6. Knows(r)'
    BY <1>1, <1>2, <2>2, <2>4 DEF SessionIds, Knows, Purpose, Reads,
       ReadsActivity, Creates, InSomeSession, InOwnSession, Counting
  <2> QED BY <1>2, <2>4, <2>5, <2>6 DEF Keeps, Kept
<1> QED
  <2> DEFINE active == {t \in SessionIds : Active(t)}
  <2>1. PICK s \in FirstOf(active) :
          IF s = 0 THEN Done(r)
          ELSE Keep(r, [ctx[r] EXCEPT !.sess = s, !.started = now], "logout") /\ UNCHANGED latest
    BY DEF FindAny
  <2>2. s = 0 \/ s \in SessionIds
    <3>1. s = 0 \/ s \in active
      <4> HIDE DEF active
      <4> QED BY FirstIsOne
    <3> QED BY <3>1
  <2>3. CASE s = 0
    BY <1>3, <2>1, <2>3
  <2>4. CASE s # 0
    BY <1>4, <2>1, <2>2, <2>4
  <2> QED BY <2>3, <2>4

LEMMA LogoutKeeps ==
  ASSUME Inv, NEW r \in Requests, Logout(r)
  PROVE  Keeps(r)
<1> DEFINE s == ctx[r].sess
           row == [Closed(s, ctx[r].started) EXCEPT !.ping = ctx[r].started]
<1>1. TypeOK /\ Knows(r) /\ pc[r] = "logout" /\ ctx[r] \in RequestRow /\ ctx[r].device \in Devices
  BY RequestType DEF Inv, Logout, Knows, Purpose
<1>2. s \in SessionIds /\ ctx[r].started \in Nat
  BY <1>1 DEF Knows, Reads, InSomeSession, RequestRow
<1>3. Write(s, row) /\ Done(r) /\ UNCHANGED activities
  BY DEF Logout
<1>4. /\ Closed(s, ctx[r].started) \in SessionRow /\ ~Closed(s, ctx[r].started).active
      /\ Closed(s, ctx[r].started).device = sessions[s].device
      /\ Closed(s, ctx[r].started).login = sessions[s].login
      /\ Closed(s, ctx[r].started).tracked = sessions[s].tracked
  BY <1>1, <1>2, ClosedRow
<1>5. /\ row \in SessionRow /\ ~row.active /\ row.device = sessions[s].device
      /\ row.login = sessions[s].login /\ row.tracked = sessions[s].tracked
  BY <1>2, <1>4 DEF SessionRow
<1> HIDE DEF row
<1>6. /\ SessionsKept(r) /\ ActivitiesKept(r) /\ sessions' \in Seq(SessionRow)
  BY <1>1, <1>2, <1>3, <1>5, SessionWritten
<1>7. /\ pc' \in [Requests -> Places] /\ ctx' \in [Requests -> RequestRow]
      /\ latest' \in [Devices -> [sess : Nat, items : Seq(ReportRow)]]
      /\ OnlyMoves(r) /\ Knows(r)'
  BY <1>1, <1>3, Answering
<1>8. TypeOK'
  BY <1>1, <1>6, <1>7 DEF Logout, TypeOK
<1> QED BY <1>6, <1>7, <1>8 DEF Keeps, Kept

LEMMA AbortKeeps ==
  ASSUME Inv, NEW r \in Requests, Abort(r)
  PROVE  Keeps(r)
<1>1. TypeOK /\ Knows(r) /\ ctx[r] \in RequestRow /\ ctx[r].device \in Devices
  BY RequestType DEF Inv, Abort, Knows, Purpose
<1>2. SessionsKept(r) /\ ActivitiesKept(r)
  BY <1>1, NothingWritten DEF Abort
<1>3. /\ pc' = [pc EXCEPT ![r] = "idle"] /\ ctx' = [ctx EXCEPT ![r] = Idle]
  BY DEF Abort, Keep, Goto
<1>4. /\ pc' \in [Requests -> Places] /\ ctx' \in [Requests -> RequestRow]
      /\ pc'[r] = "idle" /\ ctx'[r] = Idle
      /\ \A q \in Requests : q # r => pc'[q] = pc[q] /\ ctx'[q] = ctx[q]
  BY <1>1, <1>3, IdleType DEF TypeOK
<1>5. OnlyMoves(r) /\ Knows(r)'
  BY <1>4, IdleKnows DEF OnlyMoves, Idle, Request
<1>6. latest' \in [Devices -> [sess : Nat, items : Seq(ReportRow)]]
  <2>1. NoReport \in [sess : Nat, items : Seq(ReportRow)]
    BY EmptySeq DEF NoReport
  <2> QED BY <1>1, <2>1 DEF Abort, TypeOK
<1>7. torn' \subseteq Nat
  BY <1>1 DEF Abort, TypeOK, RequestRow
<1>8. TypeOK'
  BY <1>1, <1>4, <1>6, <1>7 DEF Abort, TypeOK, rows
<1> QED BY <1>2, <1>5, <1>8 DEF Keeps, Kept

(* Every step of a request keeps its hands off the other devices' rows.       *)
LEMMA RequestKeeps ==
  ASSUME Inv, NEW r \in Requests,
         Send(r) \/ Heartbeat(r) \/ Recording(r) \/ Batch(r) \/ LoggingOut(r) \/ Abort(r)
  PROVE  Keeps(r)
<1>1. Send(r) \/ Abort(r) => Keeps(r)
  BY SendKeeps, AbortKeeps
<1>2. Heartbeat(r) => Keeps(r)
  BY FindDesktopKeeps, CloseDesktopKeeps, ListOthersKeeps, CloseOtherKeeps, FindOwnKeeps,
     RolloverKeeps, CreateKeeps, PingKeeps, TouchKeeps, DuplicateKeeps, CountKeeps DEF Heartbeat
<1>3. Recording(r) => Keeps(r)
  BY LastKeeps, MergeKeeps, RecordKeeps DEF Recording
<1>4. Batch(r) => Keeps(r)
  BY FindTargetKeeps, CreateTargetKeeps, PingTargetKeeps, ItemKeeps, ReadTotalKeeps, WriteTotalKeeps
     DEF Batch
<1>5. LoggingOut(r) => Keeps(r)
  BY FindAnyKeeps, LogoutKeeps DEF LoggingOut
<1> QED BY <1>1, <1>2, <1>3, <1>4, <1>5

LEMMA InitInv == Init => Inv
<1> SUFFICES ASSUME Init PROVE Inv
  OBVIOUS
<1>1. sessions \in Seq(SessionRow) /\ activities \in Seq(ActivityRow)
  BY EmptySeq DEF Init
<1>2. Len(sessions) = 0 /\ Len(activities) = 0
  BY DEF Init
<1>3. NoReport \in [sess : Nat, items : Seq(ReportRow)]
  BY EmptySeq DEF NoReport
<1>4. TypeOK
  BY <1>1, <1>3, IdleType DEF Init, TypeOK
<1>5. /\ Idle.kind = "none" /\ Idle.fresh = 0 /\ Idle.others = {} /\ Idle.device = NoDevice
  BY DEF Idle, Request
<1>6. \A r \in Requests : Knows(r)
  BY <1>5 DEF Init, Knows, Purpose, Reads,
       ReadsActivity, Creates, InSomeSession, InOwnSession, Counting
<1>7. OneRequestPerDevice /\ ActivitiesBelong /\ Single
  BY <1>2, <1>5 DEF Init, OneRequestPerDevice, ActivitiesBelong, Single, SessionIds, ActivityIds
<1> QED BY <1>4, <1>6, <1>7 DEF Inv

\* The clock, or nothing at all, leaves everything as it was.
LEMMA ClockKeepsInv ==
  ASSUME Inv, now' \in Nat, UNCHANGED <<rows, requestState, torn, latest>>
  PROVE  Inv'
<1>0. UNCHANGED <<sessions, activities, pc, ctx, torn, latest>>
  BY DEF rows, requestState
<1>1. TypeOK'
  BY <1>0 DEF Inv, TypeOK
<1>2. \A r \in Requests : Knows(r)'
  BY <1>0 DEF Inv, Knows, Purpose, Reads, ReadsActivity, Creates, SessionIds, ActivityIds,
              InSession, Same, Of, Active, Historical
<1>3. OneRequestPerDevice' /\ ActivitiesBelong' /\ Single'
  BY <1>0 DEF Inv, OneRequestPerDevice, ActivitiesBelong, Single, SessionIds, ActivityIds, Active
<1> QED BY <1>1, <1>2, <1>3 DEF Inv

LEMMA NextKeepsInv == Inv /\ [Next]_vars => Inv'
<1> SUFFICES ASSUME Inv, [Next]_vars PROVE Inv'
  OBVIOUS
<1>1. CASE UNCHANGED vars
  <2>1. now' \in Nat /\ UNCHANGED <<rows, requestState, torn, latest>>
    BY <1>1 DEF vars, Inv, TypeOK
  <2> QED BY <2>1, ClockKeepsInv
<1>2. CASE Tick
  <2>1. now' \in Nat /\ UNCHANGED <<rows, requestState, torn, latest>>
    BY <1>2 DEF Tick, Inv, TypeOK
  <2> QED BY <2>1, ClockKeepsInv
<1>3. ASSUME NEW r \in Requests,
             Send(r) \/ Heartbeat(r) \/ Recording(r) \/ Batch(r) \/ LoggingOut(r) \/ Abort(r)
      PROVE  Inv'
  BY <1>3, RequestKeeps, StepKeepsInv DEF Keeps
<1> QED BY <1>1, <1>2, <1>3 DEF Next

LEMMA AlwaysInv == Spec => []Inv
  BY InitInv, NextKeepsInv, PTL DEF Spec
----------------------------------------------------------------------------
(* Sessions, activities and requests have their types, whatever is sent.      *)
THEOREM TypeCorrect == Spec => []TypeOK
<1>1. Inv => TypeOK
  BY DEF Inv
<1> QED BY <1>1, AlwaysInv, PTL

(* Whatever the other devices do, a device has one active session at most     *)
(* (handleHeartbeat, handleActivityBatchSync).                                *)
THEOREM OneSessionEach == Spec => []OneActivePerDevice
<1>1. Inv => OneActivePerDevice
  <2> SUFFICES ASSUME Inv, NEW device \in Devices
               PROVE  Cardinality({s \in Of(device) : Active(s)}) <= 1
    BY DEF OneActivePerDevice
  <2> DEFINE S == {s \in Of(device) : Active(s)}
  <2>1. \A s, t \in S : s = t
    BY DEF Inv, Single, Of
  <2>2. Cardinality(S) <= 1
    <3> HIDE DEF S
    <3>1. CASE S = {}
      BY <3>1, FS_EmptySet
    <3>2. CASE S # {}
      <4>1. PICK s \in S : S = {s}
        BY <2>1, <3>2
      <4>2. Cardinality({s}) = 1
        BY FS_Singleton
      <4> QED BY <4>1, <4>2
    <3> QED BY <3>1, <3>2
  <2> QED BY <2>2
<1> QED BY <1>1, AlwaysInv, PTL

(* No heartbeat or report of a batch opens a session that has ended, or gives *)
(* it to another device or login.                                             *)
THEOREM EndedStaysEnded == Spec => EndedSessionsStayEnded
<1> DEFINE Stays == \A s \in SessionIds :
                      ~Active(s) => /\ ~Active(s)'
                                    /\ sessions'[s].device = sessions[s].device
                                    /\ sessions'[s].login = sessions[s].login
<1>1. Inv /\ [Next]_vars => [Stays]_vars
  <2> SUFFICES ASSUME Inv, Next PROVE Stays
    OBVIOUS
  <2>1. CASE Tick
    BY <2>1 DEF Tick, rows, Active
  <2>2. ASSUME NEW r \in Requests,
               Send(r) \/ Heartbeat(r) \/ Recording(r) \/ Batch(r) \/ LoggingOut(r) \/ Abort(r)
        PROVE  Stays
    <3>1. SessionsKept(r)
      BY <2>2, RequestKeeps DEF Keeps, Kept
    <3> QED BY <3>1 DEF SessionsKept, Active
  <2> QED BY <2>1, <2>2 DEF Next
<1> QED BY <1>1, AlwaysInv, PTL DEF Spec, EndedSessionsStayEnded
----------------------------------------------------------------------------
\* Request r is between the counters of session s and its activities, and how
\* much the activities are ahead of the counters meanwhile.
Half(r, s) == ctx[r].sess = s /\ HalfCounted(r)
Ahead(r) == IF ctx[r].kind = "heartbeat" THEN -1 ELSE ctx[r].fresh

TimeAt(s) ==
  /\ (\A r \in Requests : ~Half(r, s)) => ActivityTime(s) = sessions[s].tracked
  /\ \A r \in Requests : Half(r, s) => ActivityTime(s) = sessions[s].tracked + Ahead(r)

TimeInv == \A s \in SessionIds \ torn : TimeAt(s)

\* The last answer of a tracker, while it sends no batch, is shown by an
\* activity of the session it was counted for.
Shown(report) ==
  /\ report.sess \in SessionIds
  /\ \E n \in ActivityIds : /\ activities[n].sess = report.sess
                            /\ activities[n].app = report.items[1].app
                            /\ Near(activities[n].at, report.items[1].at)
Batching(device) == \E r \in Requests : ctx[r].device = device /\ ctx[r].kind = "batch"
LatestInv ==
  \A device \in Trackers :
    latest[device].sess # 0 /\ ~Batching(device) =>
      Shown(latest[device]) /\ sessions[latest[device].sess].device = device

HalfPlaces == OfRecording \cup {"item", "readTotal", "writeTotal"}

LEMMA HalfIsOwn ==
  ASSUME Inv, NEW r \in Requests, NEW s, Half(r, s)
  PROVE  /\ s \in SessionIds /\ sessions[s].device = ctx[r].device /\ ctx[r].device # NoDevice
         /\ pc[r] \in HalfPlaces
<1>1. Knows(r) /\ ctx[r] \in RequestRow
  BY RequestType DEF Inv
<1>2. pc[r] \in Counting
  BY <1>1 DEF Half, HalfCounted, Knows, Purpose, Counting, RequestRow
<1>3. pc[r] \in OfRecording \/ ctx[r].kind = "batch"
  BY <1>1 DEF Half, HalfCounted, Knows, Purpose, RequestRow
<1>4. pc[r] \in HalfPlaces
  BY <1>1, <1>2, <1>3 DEF HalfPlaces, Counting, Knows, Purpose
<1>5. ctx[r].device \in Devices
  BY <1>1, <1>2 DEF Knows, Purpose, Counting
<1> QED BY <1>1, <1>2, <1>4, <1>5, TrackingAssumption
       DEF Half, Knows, Reads, InSomeSession, InOwnSession

\* A session is half counted by one request at most, of its own device.
LEMMA OneIsHalf ==
  ASSUME Inv, NEW q \in Requests, NEW r \in Requests, NEW s, Half(q, s),
         ctx[r].device = sessions[s].device
  PROVE  q = r
  BY HalfIsOwn DEF Inv, OneRequestPerDevice

LEMMA TimesType ==
  ASSUME TypeOK, NEW s
  PROVE  /\ ActivityTime(s) \in Int
         /\ [n \in ActivityIds |-> IF activities[n].sess = s THEN activities[n].dur ELSE 0]
              \in [1..Len(activities) -> Int]
<1>1. [n \in ActivityIds |-> IF activities[n].sess = s THEN activities[n].dur ELSE 0]
        \in [1..Len(activities) -> Int]
  BY RowTypes DEF ActivityIds, ActivityRow
<1>2. Len(activities) \in Nat
  BY RowTypes
<1> QED BY <1>1, <1>2, SumToType DEF ActivityTime

LEMMA SameTimes ==
  ASSUME UNCHANGED activities, NEW s
  PROVE  ActivityTime(s)' = ActivityTime(s)
  BY DEF ActivityTime, ActivityIds

\* Recording a report makes the activities of its session one unit longer.
LEMMA MergedTime ==
  ASSUME Inv, TypeOK', NEW r \in Requests, Merge(r), NEW s
  PROVE  ActivityTime(s)' = ActivityTime(s) + (IF s = ctx[r].sess THEN 1 ELSE 0)
<1> DEFINE a == ctx[r].act
           f == [n \in ActivityIds |-> IF activities[n].sess = s THEN activities[n].dur ELSE 0]
           g == [n \in ActivityIds' |-> IF activities'[n].sess = s THEN activities'[n].dur ELSE 0]
<1>1. TypeOK
  BY DEF Inv
<1>2. f \in [1..Len(activities) -> Int] /\ Len(activities) \in Nat
  BY <1>1, TimesType, RowTypes
<1>3. Len(activities') = Len(activities) /\ ActivityIds' = ActivityIds /\ a \in 1..Len(activities)
  BY MergeEffect DEF ActivityIds
<1>4. \A n \in ActivityIds : activities'[n] \in ActivityRow
  BY <1>2, <1>3, MergeEffect, ElementOfSeq DEF ActivityIds
<1>5. g \in [1..Len(activities) -> Int]
  BY <1>2, <1>3, <1>4 DEF ActivityIds, ActivityRow
<1>6. \A n \in 1..Len(activities) : n # a => f[n] = g[n]
  BY <1>3, MergeEffect DEF ActivityIds
<1>7. g[a] - f[a] = IF s = ctx[r].sess THEN 1 ELSE 0
  <2>1. activities[a].dur \in Int
    BY <1>1, <1>3, RowTypes DEF ActivityIds, ActivityRow
  <2>2. /\ activities[a].sess = ctx[r].sess /\ activities'[a].sess = ctx[r].sess
        /\ activities'[a].dur = activities[a].dur + 1
    BY MergeEffect
  <2>3. /\ f[a] = IF activities[a].sess = s THEN activities[a].dur ELSE 0
        /\ g[a] = IF activities'[a].sess = s THEN activities'[a].dur ELSE 0
    BY <1>3 DEF ActivityIds
  <2> HIDE DEF f, g
  <2> QED BY <2>1, <2>2, <2>3
<1>8. ActivityTime(s) = SumTo(f, Len(activities)) /\ ActivityTime(s)' = SumTo(g, Len(activities))
  BY <1>3 DEF ActivityTime
<1>9. f[a] \in Int /\ g[a] \in Int /\ SumTo(f, Len(activities)) \in Int
  BY <1>2, <1>3, <1>5, SumToType
<1> HIDE DEF f, g, a
<1>10. SumTo(g, Len(activities)) = SumTo(f, Len(activities)) + g[a] - f[a]
  BY <1>2, <1>3, <1>5, <1>6, SumToUpdate
<1> QED BY <1>7, <1>8, <1>9, <1>10

LEMMA RecordedTime ==
  ASSUME Inv, TypeOK', NEW r \in Requests, Record(r), NEW s
  PROVE  ActivityTime(s)' = ActivityTime(s) + (IF s = ctx[r].sess THEN 1 ELSE 0)
<1> DEFINE k == Len(activities)
           f == [n \in ActivityIds |-> IF activities[n].sess = s THEN activities[n].dur ELSE 0]
           g == [n \in ActivityIds' |-> IF activities'[n].sess = s THEN activities'[n].dur ELSE 0]
<1>1. TypeOK
  BY DEF Inv
<1>2. f \in [1..k -> Int] /\ k \in Nat
  BY <1>1, TimesType, RowTypes
<1>3. Len(activities') = k + 1 /\ ActivityIds' = 1..(k + 1) /\ k + 1 \in 1..(k + 1)
  BY <1>2, RecordEffect DEF ActivityIds
<1>4. \A n \in 1..(k + 1) : activities'[n] \in ActivityRow
  BY <1>2, <1>3, RecordEffect, ElementOfSeq
<1>5. g \in [1..(k + 1) -> Int]
  BY <1>3, <1>4 DEF ActivityRow
<1>6. \A n \in 1..k : f[n] = g[n]
  BY <1>2, <1>3, RecordEffect DEF ActivityIds
<1>7. g[k + 1] = IF s = ctx[r].sess THEN 1 ELSE 0
  BY <1>3, RecordEffect
<1>8. ActivityTime(s) = SumTo(f, k) /\ ActivityTime(s)' = SumTo(g, k + 1)
  BY <1>3 DEF ActivityTime
<1> HIDE DEF f, g, k
<1> QED BY <1>2, <1>5, <1>6, <1>7, <1>8, SumToAppend

(* So a step can only disturb the balance of the session it is about.         *)
LEMMA StepKeepsTimes ==
  ASSUME Inv, Inv', TimeInv, NEW r \in Requests, Kept(r), torn \subseteq torn',
         NEW x, x = ctx[r].sess,
         HalfCounted(r)' => ctx'[r].sess = x /\ x \in SessionIds,
         \A s \in SessionIds : s # x =>
           ActivityTime(s)' = ActivityTime(s) /\ sessions'[s].tracked = sessions[s].tracked,
         x \in SessionIds \ torn' => TimeAt(x)'
  PROVE  TimeInv'
<1>1. TypeOK /\ TypeOK'
  BY DEF Inv
<1>2. Len(sessions) \in Nat /\ Len(activities) \in Nat /\ Len(sessions') \in Nat /\ Len(activities') \in Nat
  BY <1>1, RowTypes, LenProperties DEF TypeOK
<1>3. \A q \in Requests : q # r => pc'[q] = pc[q] /\ ctx'[q] = ctx[q]
  BY DEF Kept, OnlyMoves
<1> SUFFICES ASSUME NEW s \in SessionIds' \ torn', s # x \/ s \notin SessionIds
             PROVE  TimeAt(s)'
  BY DEF TimeInv
<1>4. CASE s \in SessionIds
  <2>1. TimeAt(s) /\ s # x
    BY <1>4 DEF TimeInv
  <2>2. ActivityTime(s)' = ActivityTime(s) /\ sessions'[s].tracked = sessions[s].tracked
    BY <1>4, <2>1
  <2>3. ~Half(r, s) /\ ~Half(r, s)'
    BY <2>1 DEF Half
  <2>4. \A q \in Requests : q # r => /\ Half(q, s)' <=> Half(q, s)
                                     /\ Ahead(q)' = Ahead(q)
    BY <1>3 DEF Half, HalfCounted, Ahead
  <2> QED BY <2>1, <2>2, <2>3, <2>4 DEF TimeAt
<1>5. CASE s \notin SessionIds
  <2>1. \A n \in 1..Len(activities') : activities'[n].sess # s
    <3>1. \A n \in ActivityIds : activities'[n].sess \in SessionIds
      BY DEF Inv, ActivitiesBelong, Kept, ActivitiesKept
    <3> QED BY <1>5, <3>1 DEF Kept, ActivitiesKept
  <2>2. ActivityTime(s)' = 0
    <3> DEFINE g == [n \in ActivityIds' |-> IF activities'[n].sess = s THEN activities'[n].dur ELSE 0]
    <3>1. \A n \in 1..Len(activities') : g[n] = 0
      BY <2>1 DEF ActivityIds
    <3>2. g \in [1..Len(activities') -> Int]
      BY <3>1 DEF ActivityIds
    <3>3. ActivityTime(s)' = SumTo(g, Len(activities'))
      BY DEF ActivityTime
    <3> HIDE DEF g
    <3> QED BY <1>2, <3>1, <3>2, <3>3, SumToZero
  <2>3. sessions'[s].tracked = 0
    BY <1>5 DEF Kept, SessionsKept, SessionIds
  <2>4. \A q \in Requests : ~Half(q, s)'
    <3> SUFFICES ASSUME NEW q \in Requests, Half(q, s)' PROVE FALSE
      OBVIOUS
    <3>1. CASE q = r
      BY <1>5, <3>1 DEF Half
    <3>2. CASE q # r
      <4>1. Half(q, s)
        BY <1>3, <3>2 DEF Half, HalfCounted
      <4> QED BY <1>5, <4>1, HalfIsOwn
    <3> QED BY <3>1, <3>2
  <2> QED BY <2>2, <2>3, <2>4 DEF TimeAt
<1> QED BY <1>4, <1>5

\* A step outside of counting.
LEMMA QuietKeepsTimes ==
  ASSUME Inv, Inv', TimeInv, NEW r \in Requests, Kept(r), UNCHANGED torn,
         pc[r] \notin {"count", "writeTotal", "merge", "record"},
         ~HalfCounted(r), ~HalfCounted(r)'
  PROVE  TimeInv'
<1>1. /\ \A q \in Requests : q # r => pc'[q] = pc[q] /\ ctx'[q] = ctx[q]
      /\ UNCHANGED activities
      /\ \A s \in SessionIds : sessions'[s].tracked = sessions[s].tracked
  BY DEF Kept, OnlyMoves, SessionsKept, ActivitiesKept
<1>2. \A s : ActivityTime(s)' = ActivityTime(s)
  BY <1>1, SameTimes
<1>3. PICK x : x = ctx[r].sess
  OBVIOUS
<1>4. ASSUME x \in SessionIds \ torn' PROVE TimeAt(x)'
  <2>1. TimeAt(x)
    BY <1>4 DEF TimeInv
  <2>2. ~Half(r, x) /\ ~Half(r, x)'
    BY DEF Half
  <2>3. \A q \in Requests : q # r => /\ Half(q, x)' <=> Half(q, x)
                                     /\ Ahead(q)' = Ahead(q)
    BY <1>1 DEF Half, HalfCounted, Ahead
  <2>4. ActivityTime(x)' = ActivityTime(x) /\ sessions'[x].tracked = sessions[x].tracked
    BY <1>1, <1>2, <1>4
  <2> QED BY <2>1, <2>2, <2>3, <2>4 DEF TimeAt
<1> QED BY <1>1, <1>2, <1>3, <1>4, StepKeepsTimes

\* A step of counting is about a session of the device's own.
LEMMA OwnKeepsTimes ==
  ASSUME Inv, Inv', TimeInv, NEW r \in Requests, Kept(r), UNCHANGED torn,
         pc[r] \in InOwnSession, NEW x, x = ctx[r].sess,
         HalfCounted(r)' => ctx'[r].sess = x,
         \A s \in SessionIds : s # x =>
           ActivityTime(s)' = ActivityTime(s) /\ sessions'[s].tracked = sessions[s].tracked,
         ActivityTime(x) = sessions[x].tracked + (IF HalfCounted(r) THEN Ahead(r) ELSE 0) =>
           ActivityTime(x)' = sessions'[x].tracked + (IF HalfCounted(r)' THEN Ahead(r)' ELSE 0)
  PROVE  TimeInv'
<1>1. \A q \in Requests : q # r => pc'[q] = pc[q] /\ ctx'[q] = ctx[q]
  BY DEF Kept, OnlyMoves
<1>2. x \in SessionIds /\ sessions[x].device = ctx[r].device
  BY DEF Inv, Knows, Reads, InSomeSession
<1>3. \A q \in Requests : q # r => ~Half(q, x) /\ ~Half(q, x)'
  <2>1. \A q \in Requests : q # r => ~Half(q, x)
    BY <1>2, OneIsHalf
  <2> QED BY <1>1, <2>1 DEF Half, HalfCounted
<1>4. ASSUME x \notin torn PROVE TimeAt(x)'
  <2>1. TimeAt(x)
    BY <1>2, <1>4 DEF TimeInv
  <2>2. Half(r, x) <=> HalfCounted(r)
    BY DEF Half
  <2>3. Half(r, x)' <=> HalfCounted(r)'
    BY DEF Half
  <2>4. sessions[x].tracked \in Int /\ sessions'[x].tracked \in Int
    <3>1. sessions[x] \in SessionRow
      BY <1>2, RowTypes DEF Inv
    <3>2. x \in 1..Len(sessions') /\ sessions' \in Seq(SessionRow)
      <4>1. Len(sessions) \in Nat /\ Len(sessions') \in Nat
        BY LenProperties DEF Inv, TypeOK
      <4> QED BY <1>2, <4>1 DEF Inv, TypeOK, Kept, SessionsKept, SessionIds
    <3>3. sessions'[x] \in SessionRow
      BY <3>2, ElementOfSeq
    <3> QED BY <3>1, <3>3 DEF SessionRow
  <2>5. ActivityTime(x) = sessions[x].tracked + (IF HalfCounted(r) THEN Ahead(r) ELSE 0)
    <3>1. CASE HalfCounted(r)
      BY <2>1, <2>2, <3>1 DEF TimeAt
    <3>2. CASE ~HalfCounted(r)
      BY <1>3, <2>1, <2>2, <2>4, <3>2 DEF TimeAt
    <3> QED BY <3>1, <3>2
  <2>6. ActivityTime(x)' = sessions'[x].tracked + (IF HalfCounted(r)' THEN Ahead(r)' ELSE 0)
    BY <2>5
  <2>7. CASE HalfCounted(r)'
    BY <1>3, <2>3, <2>6, <2>7 DEF TimeAt
  <2>8. CASE ~HalfCounted(r)'
    BY <1>3, <2>3, <2>4, <2>6, <2>8 DEF TimeAt
  <2> QED BY <2>7, <2>8
<1> QED BY <1>2, <1>4, StepKeepsTimes

\* Who is outside of counting has counted nothing yet.
LEMMA FreshOutside ==
  ASSUME Inv, NEW r \in Requests, pc[r] \notin Counting
  PROVE  ctx[r].fresh = 0 /\ ~HalfCounted(r)
<1>1. ctx[r].fresh = 0
  BY DEF Inv, Knows, Purpose
<1> QED BY <1>1 DEF HalfCounted, Counting

LEMMA NotHalf ==
  ASSUME Inv', NEW r \in Requests, pc'[r] \notin HalfPlaces
  PROVE  ~HalfCounted(r)'
<1>1. ~(pc'[r] \in OfRecording)
  BY DEF HalfPlaces
<1>2. ctx'[r].fresh = 0
  <2>1. ctx'[r].fresh = 0 \/ (ctx'[r].kind = "batch" /\ pc'[r] \in Counting)
    BY DEF Inv, Knows, Purpose
  <2>2. pc'[r] \in {"touch", "dup", "count"} => ctx'[r].kind = "heartbeat"
    BY DEF Inv, Knows, Purpose
  <2> QED BY <2>1, <2>2 DEF Counting, HalfPlaces
<1> QED BY <1>1, <1>2 DEF HalfCounted

\* The statements that go nowhere near the counters.
LEMMA QuietSteps ==
  ASSUME Inv, Inv', TimeInv, NEW r \in Requests, Kept(r),
         \/ Send(r) \/ FindDesktop(r) \/ CloseDesktop(r) \/ ListOthers(r) \/ CloseOther(r)
         \/ FindOwn(r) \/ Rollover(r) \/ Create(r) \/ Ping(r) \/ Touch(r) \/ Duplicate(r)
         \/ FindAny(r) \/ Logout(r)
  PROVE  TimeInv'
<1>0. pc \in [Requests -> Places]
  BY DEF Inv, TypeOK
<1>1. CASE Send(r)
  <2>1. \E where \in {"findDesktop", "listOthers", "findTarget", "findAny"} :
          pc' = [pc EXCEPT ![r] = where] /\ pc[r] = "idle" /\ UNCHANGED torn
    BY <1>1 DEF Send, BeginPortal, BeginHeartbeat, BeginBatch, BeginLogout, Begin, Keep, Goto
  <2>2. pc[r] \notin Counting /\ pc'[r] \notin HalfPlaces
    BY <1>0, <2>1 DEF Counting, HalfPlaces
  <2> QED BY <2>1, <2>2, FreshOutside, NotHalf, QuietKeepsTimes
<1>2. CASE FindDesktop(r) \/ CloseDesktop(r) \/ ListOthers(r) \/ CloseOther(r)
  <2>1. /\ \E where \in {"findOwn", "closeDesktop", "ping", "closeOther"} :
             pc' = [pc EXCEPT ![r] = where]
        /\ pc[r] \in {"findDesktop", "closeDesktop", "listOthers", "closeOther"} /\ UNCHANGED torn
    BY <1>2 DEF FindDesktop, CloseDesktop, ListOthers, CloseOther, Keep, Goto
  <2>2. pc[r] \notin Counting /\ pc'[r] \notin HalfPlaces
    BY <1>0, <2>1 DEF Counting, HalfPlaces
  <2> QED BY <2>1, <2>2, FreshOutside, NotHalf, QuietKeepsTimes
<1>3. CASE FindOwn(r) \/ Rollover(r)
  <2>1. /\ \E where \in {"create", "rollover", "ping"} : pc' = [pc EXCEPT ![r] = where]
        /\ pc[r] \in {"findOwn", "rollover"} /\ UNCHANGED torn
    BY <1>3 DEF FindOwn, Rollover, Keep, Goto
  <2>2. pc[r] \notin Counting /\ pc'[r] \notin HalfPlaces
    BY <1>0, <2>1 DEF Counting, HalfPlaces
  <2> QED BY <2>1, <2>2, FreshOutside, NotHalf, QuietKeepsTimes
<1>4. CASE Create(r) \/ Ping(r)
  <2>1. /\ \E where \in {"touch", "idle"} : pc' = [pc EXCEPT ![r] = where]
        /\ pc[r] \in {"create", "ping"} /\ UNCHANGED torn
    BY <1>4 DEF Create, Ping, Telemetry, Done, Keep, Goto
  <2>2. pc[r] \notin Counting /\ pc'[r] \notin HalfPlaces
    BY <1>0, <2>1 DEF Counting, HalfPlaces
  <2> QED BY <2>1, <2>2, FreshOutside, NotHalf, QuietKeepsTimes
<1>5. CASE Touch(r) \/ Duplicate(r)
  <2>1. /\ \E where \in {"dup", "count", "idle"} : pc' = [pc EXCEPT ![r] = where]
        /\ pc[r] \in {"touch", "dup"} /\ UNCHANGED torn
    BY <1>5 DEF Touch, Duplicate, Done, Keep, Goto
  <2>2. ctx[r].fresh = 0
    BY <2>1 DEF Inv, Knows, Purpose
  <2>3. ~HalfCounted(r) /\ pc'[r] \notin HalfPlaces
    BY <1>0, <2>1, <2>2 DEF HalfCounted, HalfPlaces
  <2> QED BY <2>1, <2>3, NotHalf, QuietKeepsTimes
<1>6. CASE FindAny(r) \/ Logout(r)
  <2>1. /\ \E where \in {"logout", "idle"} : pc' = [pc EXCEPT ![r] = where]
        /\ pc[r] \in {"findAny", "logout"} /\ UNCHANGED torn
    BY <1>6 DEF FindAny, Logout, Done, Keep, Goto
  <2>2. pc[r] \notin Counting /\ pc'[r] \notin HalfPlaces
    BY <1>0, <2>1 DEF Counting, HalfPlaces
  <2> QED BY <2>1, <2>2, FreshOutside, NotHalf, QuietKeepsTimes
<1> QED BY <1>1, <1>2, <1>3, <1>4, <1>5, <1>6

\* A batch finds its session before it has counted anything.
LEMMA TargetSteps ==
  ASSUME Inv, Inv', TimeInv, NEW r \in Requests, Kept(r),
         FindTarget(r) \/ CreateTarget(r) \/ PingTarget(r)
  PROVE  TimeInv'
<1>0. pc \in [Requests -> Places] /\ ctx \in [Requests -> RequestRow]
  BY DEF Inv, TypeOK
<1>1. /\ \E where \in {"createTarget", "item", "pingTarget"} : pc' = [pc EXCEPT ![r] = where]
      /\ pc[r] \in {"findTarget", "createTarget", "pingTarget"} /\ UNCHANGED torn
  BY DEF FindTarget, CreateTarget, PingTarget, Keep, Goto
<1>2. pc[r] \notin Counting
  BY <1>1 DEF Counting
<1>3. ctx[r].fresh = 0 /\ ~HalfCounted(r)
  BY <1>2, FreshOutside
<1>4. ctx'[r].fresh = ctx[r].fresh
  <2>1. CASE FindTarget(r)
    <3>1. \E s : ctx' = [ctx EXCEPT ![r] = [ctx[r] EXCEPT !.sess = s]]
      BY <2>1 DEF FindTarget, Keep
    <3> QED BY <1>0, <3>1 DEF RequestRow
  <2>2. CASE CreateTarget(r)
    <3>1. ctx' = [ctx EXCEPT ![r] = [ctx[r] EXCEPT !.sess = Len(sessions) + 1]]
      BY <2>2 DEF CreateTarget, Keep
    <3> QED BY <1>0, <3>1 DEF RequestRow
  <2>3. CASE PingTarget(r)
    BY <2>3 DEF PingTarget
  <2> QED BY <2>1, <2>2, <2>3
<1>5. ~HalfCounted(r)'
  BY <1>0, <1>1, <1>3, <1>4 DEF HalfCounted
<1> QED BY <1>1, <1>3, <1>5, QuietKeepsTimes

LEMMA CountSteps ==
  ASSUME Inv, Inv', TimeInv, NEW r \in Requests, Kept(r), Count(r)
  PROVE  TimeInv'
<1> DEFINE row == [sessions[ctx[r].sess] EXCEPT !.tracked = ctx[r].tracked + 1]
<1>0. TypeOK /\ Knows(r) /\ pc[r] = "count" /\ ctx[r] \in RequestRow
  BY RequestType DEF Inv, Count
<1>1. PICK x : x = ctx[r].sess
  OBVIOUS
<1>2. /\ x \in SessionIds /\ ctx[r].tracked = sessions[x].tracked /\ ctx[r].fresh = 0
      /\ ctx[r].kind = "heartbeat" /\ ctx[r].tracked + 1 \in Int
  BY <1>0, <1>1 DEF Knows, Purpose, Reads, InSomeSession, InOwnSession, Counting, RequestRow
<1>3. Write(x, row) /\ UNCHANGED <<ctx, activities, torn>> /\ pc' = [pc EXCEPT ![r] = "last"]
  BY <1>1 DEF Count, Goto
<1>4. row \in SessionRow /\ row.tracked = ctx[r].tracked + 1
  BY <1>0, <1>1, <1>2, CountedRow
<1> HIDE DEF row
<1>5. \A t \in SessionIds : sessions'[t] = IF t = x THEN row ELSE sessions[t]
  BY <1>0, <1>2, <1>3, <1>4, WriteEffect DEF TypeOK
<1>6. \A s : ActivityTime(s)' = ActivityTime(s)
  BY <1>3, SameTimes
<1>7. ~HalfCounted(r) /\ HalfCounted(r)' /\ Ahead(r)' = -1
  BY <1>0, <1>2, <1>3 DEF HalfCounted, Ahead, TypeOK
<1>8. ActivityTime(x) \in Int /\ sessions'[x].tracked = sessions[x].tracked + 1 /\ sessions[x].tracked \in Int
  BY <1>0, <1>2, <1>4, <1>5, TimesType DEF RequestRow
<1>9. pc[r] \in InOwnSession
  BY <1>0 DEF InOwnSession, Counting
<1> QED BY <1>1, <1>3, <1>5, <1>6, <1>7, <1>8, <1>9, OwnKeepsTimes

\* Looking for the activity to prolong, and skipping what is there already.
LEMMA LookSteps ==
  ASSUME Inv, Inv', TimeInv, NEW r \in Requests, Kept(r), Last(r) \/ Item(r) \/ ReadTotal(r)
  PROVE  TimeInv'
<1>0. TypeOK /\ Knows(r) /\ ctx[r] \in RequestRow /\ pc[r] \in {"last", "item", "readTotal"}
  BY RequestType DEF Inv, Last, Item, ReadTotal
<1>1. PICK x : x = ctx[r].sess
  OBVIOUS
<1>2. UNCHANGED <<sessions, activities, torn>> /\ pc[r] \in InOwnSession
  BY <1>0 DEF Last, Item, ReadTotal, rows, InOwnSession, Counting
<1>3. x \in SessionIds
  BY <1>0, <1>1, <1>2 DEF Knows, Reads, InSomeSession
<1>4. \A s : ActivityTime(s)' = ActivityTime(s)
  BY <1>2, SameTimes
<1>5. \/ /\ ctx'[r].sess = x /\ ctx'[r].kind = ctx[r].kind /\ ctx'[r].fresh = ctx[r].fresh
         /\ HalfCounted(r) => HalfCounted(r)'
         /\ HalfCounted(r)' /\ ~HalfCounted(r) => pc[r] = "item" /\ ctx[r].fresh = 0
      \/ ~HalfCounted(r) /\ ~HalfCounted(r)'
  <2>1. CASE Last(r)
    <3>1. /\ pc' = [pc EXCEPT ![r] = "record"] \/ pc' = [pc EXCEPT ![r] = "merge"]
          /\ \/ UNCHANGED ctx
             \/ \E n, d : ctx' = [ctx EXCEPT ![r] = [ctx[r] EXCEPT !.act = n, !.dur = d]]
      BY <2>1 DEF Last, Keep, Goto
    <3>2. /\ ctx'[r].sess = x /\ ctx'[r].kind = ctx[r].kind /\ ctx'[r].fresh = ctx[r].fresh
          /\ pc'[r] \in OfRecording
      <4>1. pc'[r] \in OfRecording
        BY <1>0, <3>1 DEF TypeOK
      <4>2. CASE UNCHANGED ctx
        BY <1>1, <4>1, <4>2
      <4>3. ASSUME NEW n, NEW d,
                   ctx' = [ctx EXCEPT ![r] = [ctx[r] EXCEPT !.act = n, !.dur = d]]
            PROVE  ctx'[r].sess = x /\ ctx'[r].kind = ctx[r].kind /\ ctx'[r].fresh = ctx[r].fresh
        <5>1. ctx'[r] = [ctx[r] EXCEPT !.act = n, !.dur = d]
          BY <1>0, <4>3 DEF TypeOK
        <5> QED BY <1>0, <1>1, <5>1 DEF RequestRow
      <4> QED BY <3>1, <4>1, <4>2, <4>3
    <3>3. HalfCounted(r)'
      BY <3>2 DEF HalfCounted
    <3>4. HalfCounted(r)
      BY <2>1 DEF Last, HalfCounted
    <3> QED BY <3>2, <3>3, <3>4
  <2>2. CASE Item(r)
    <3>1. \/ pc' = [pc EXCEPT ![r] = "last"] /\ UNCHANGED ctx
          \/ /\ \E where \in {"readTotal", "item"} : pc' = [pc EXCEPT ![r] = where]
             /\ ctx' = [ctx EXCEPT ![r] = [ctx[r] EXCEPT !.items = Tail(@)]]
      BY <2>2 DEF Item, Keep, Goto
    <3>2. /\ ctx'[r].sess = x /\ ctx'[r].kind = ctx[r].kind /\ ctx'[r].fresh = ctx[r].fresh
          /\ ctx[r].fresh \in Nat /\ pc[r] = "item"
      BY <1>0, <1>1, <2>2, <3>1 DEF TypeOK, RequestRow, Item
    <3> QED BY <3>2 DEF HalfCounted
  <2>3. CASE ReadTotal(r)
    <3>1. CASE ctx[r].fresh > 0
      <4>1. /\ ctx' = [ctx EXCEPT ![r] = [ctx[r] EXCEPT !.tracked = sessions[ctx[r].sess].tracked]]
            /\ pc' = [pc EXCEPT ![r] = "writeTotal"]
        BY <2>3, <3>1 DEF ReadTotal, Keep, Goto
      <4>2. ctx'[r].sess = x /\ ctx'[r].kind = ctx[r].kind /\ ctx'[r].fresh = ctx[r].fresh
        BY <1>0, <1>1, <4>1 DEF TypeOK, RequestRow
      <4> QED BY <3>1, <4>2 DEF HalfCounted
    <3>2. CASE ~(ctx[r].fresh > 0)
      <4>1. pc' = [pc EXCEPT ![r] = "idle"]
        BY <2>3, <3>2 DEF ReadTotal, Done, Keep, Goto
      <4>2. pc'[r] \notin HalfPlaces
        BY <1>0, <4>1 DEF TypeOK, HalfPlaces
      <4>3. pc[r] = "readTotal"
        BY <2>3 DEF ReadTotal
      <4> QED BY <3>2, <4>2, <4>3, NotHalf DEF HalfCounted
    <3> QED BY <3>1, <3>2
  <2> QED BY <2>1, <2>2, <2>3
<1>6. HalfCounted(r)' => ctx'[r].sess = x
  BY <1>5
<1>7. (IF HalfCounted(r)' THEN Ahead(r)' ELSE 0) = (IF HalfCounted(r) THEN Ahead(r) ELSE 0)
  <2>1. pc[r] = "item" => ctx[r].kind = "batch"
    BY <1>0 DEF Knows, Purpose
  <2> QED BY <1>5, <2>1 DEF Ahead
<1> QED BY <1>1, <1>2, <1>3, <1>4, <1>6, <1>7, OwnKeepsTimes

LEMMA RecordSteps ==
  ASSUME Inv, Inv', TimeInv, NEW r \in Requests, Kept(r), Merge(r) \/ Record(r)
  PROVE  TimeInv'
<1>0. TypeOK /\ TypeOK' /\ Knows(r) /\ ctx[r] \in RequestRow /\ pc[r] \in {"merge", "record"}
  BY RequestType DEF Inv, Merge, Record
<1>1. PICK x : x = ctx[r].sess
  OBVIOUS
<1>2. UNCHANGED <<sessions, torn>> /\ pc[r] \in InOwnSession /\ NextReport(r)
  BY <1>0 DEF Merge, Record, InOwnSession, Counting
<1>3. x \in SessionIds
  BY <1>0, <1>1, <1>2 DEF Knows, Reads, InSomeSession
<1>4. \A s : ActivityTime(s)' = ActivityTime(s) + (IF s = x THEN 1 ELSE 0)
  BY <1>0, <1>1, MergedTime, RecordedTime
<1>5. \A s : ActivityTime(s) \in Int
  BY <1>0, TimesType
<1>6. sessions[x].tracked \in Int /\ ctx[r].fresh \in Nat
  BY <1>0, <1>3, RowTypes DEF SessionRow, RequestRow
<1>7. HalfCounted(r)
  BY <1>0 DEF HalfCounted
<1>8. CASE ctx[r].kind = "heartbeat"
  <2>1. pc' = [pc EXCEPT ![r] = "idle"]
    BY <1>2, <1>8 DEF NextReport, Done, Keep, Goto
  <2>2. pc'[r] \notin HalfPlaces
    BY <1>0, <2>1 DEF TypeOK, HalfPlaces
  <2>3. ~HalfCounted(r)'
    BY <2>2, NotHalf
  <2>4. Ahead(r) = -1
    BY <1>8 DEF Ahead
  <2>5. ActivityTime(x) = sessions[x].tracked + -1 => ActivityTime(x)' = sessions'[x].tracked + 0
    BY <1>2, <1>4, <1>5, <1>6
  <2> QED BY <1>1, <1>2, <1>3, <1>4, <1>5, <1>7, <2>3, <2>4, <2>5, OwnKeepsTimes
<1>9. CASE ctx[r].kind # "heartbeat"
  <2>1. ctx' = [ctx EXCEPT ![r] = [ctx[r] EXCEPT !.items = Tail(@), !.fresh = @ + 1]]
    BY <1>2, <1>9 DEF NextReport, Keep
  <2>2. ctx'[r].sess = x /\ ctx'[r].kind = ctx[r].kind /\ ctx'[r].fresh = ctx[r].fresh + 1
    BY <1>0, <1>1, <2>1 DEF TypeOK, RequestRow
  <2>3. HalfCounted(r)'
    BY <1>6, <2>2 DEF HalfCounted
  <2>4. Ahead(r) = ctx[r].fresh /\ Ahead(r)' = ctx[r].fresh + 1
    BY <1>9, <2>2 DEF Ahead
  <2>5. ActivityTime(x) = sessions[x].tracked + ctx[r].fresh =>
          ActivityTime(x)' = sessions'[x].tracked + (ctx[r].fresh + 1)
    BY <1>2, <1>4, <1>5, <1>6
  <2> QED BY <1>1, <1>2, <1>3, <1>4, <1>5, <1>7, <2>2, <2>3, <2>4, <2>5, OwnKeepsTimes
<1> QED BY <1>8, <1>9

LEMMA TotalSteps ==
  ASSUME Inv, Inv', TimeInv, NEW r \in Requests, Kept(r), WriteTotal(r)
  PROVE  TimeInv'
<1> DEFINE row == [sessions[ctx[r].sess] EXCEPT !.tracked = ctx[r].tracked + ctx[r].fresh]
<1>0. TypeOK /\ Knows(r) /\ pc[r] = "writeTotal" /\ ctx[r] \in RequestRow
  BY RequestType DEF Inv, WriteTotal
<1>1. PICK x : x = ctx[r].sess
  OBVIOUS
<1>2. /\ x \in SessionIds /\ ctx[r].tracked = sessions[x].tracked /\ ctx[r].fresh \in Nat
      /\ ctx[r].kind = "batch" /\ ctx[r].tracked \in Int /\ ctx[r].tracked + ctx[r].fresh \in Int
  BY <1>0, <1>1 DEF Knows, Purpose, Reads, InSomeSession, InOwnSession, Counting, RequestRow
<1>3. Write(x, row) /\ UNCHANGED <<activities, torn>> /\ pc' = [pc EXCEPT ![r] = "idle"]
  BY <1>1 DEF WriteTotal, Done, Keep, Goto
<1>4. row \in SessionRow /\ row.tracked = ctx[r].tracked + ctx[r].fresh
  BY <1>0, <1>1, <1>2, CountedRow
<1> HIDE DEF row
<1>5. \A t \in SessionIds : sessions'[t] = IF t = x THEN row ELSE sessions[t]
  BY <1>0, <1>2, <1>3, <1>4, WriteEffect DEF TypeOK
<1>6. \A s : ActivityTime(s)' = ActivityTime(s)
  BY <1>3, SameTimes
<1>7. HalfCounted(r) <=> ctx[r].fresh > 0
  BY <1>0 DEF HalfCounted
<1>8. ~HalfCounted(r)'
  <2>1. pc'[r] \notin HalfPlaces
    BY <1>0, <1>3 DEF TypeOK, HalfPlaces
  <2> QED BY <2>1, NotHalf
<1>9. (IF HalfCounted(r) THEN Ahead(r) ELSE 0) = ctx[r].fresh
  BY <1>2, <1>7 DEF Ahead
<1>10. ActivityTime(x) \in Int /\ sessions'[x].tracked = sessions[x].tracked + ctx[r].fresh
  BY <1>0, <1>2, <1>4, <1>5, TimesType
<1>11. ActivityTime(x) = sessions[x].tracked + ctx[r].fresh => ActivityTime(x)' = sessions'[x].tracked + 0
  BY <1>2, <1>6, <1>10
<1>12. pc[r] \in InOwnSession
  BY <1>0 DEF InOwnSession, Counting
<1> QED BY <1>1, <1>3, <1>5, <1>6, <1>8, <1>9, <1>11, <1>12, OwnKeepsTimes

\* Who dies half-way leaves a session the promise is not about.
LEMMA AbortSteps ==
  ASSUME Inv, Inv', TimeInv, NEW r \in Requests, Kept(r), Abort(r)
  PROVE  TimeInv'
<1>0. TypeOK /\ ctx[r] \in RequestRow
  BY RequestType DEF Inv
<1>1. PICK x : x = ctx[r].sess
  OBVIOUS
<1>2. UNCHANGED <<sessions, activities>> /\ pc' = [pc EXCEPT ![r] = "idle"]
  BY DEF Abort, rows, Keep, Goto
<1>3. torn' = IF HalfCounted(r) THEN torn \cup {x} ELSE torn
  BY <1>1 DEF Abort
<1>4. ~HalfCounted(r)'
  <2>1. pc'[r] \notin HalfPlaces
    BY <1>0, <1>2 DEF TypeOK, HalfPlaces
  <2> QED BY <2>1, NotHalf
<1>5. \A s : ActivityTime(s)' = ActivityTime(s)
  BY <1>2, SameTimes
<1>6. CASE HalfCounted(r)
  BY <1>1, <1>2, <1>3, <1>4, <1>5, <1>6, StepKeepsTimes
<1>7. CASE ~HalfCounted(r)
  <2>1. ASSUME x \in SessionIds \ torn PROVE TimeAt(x)'
    <3>1. TimeAt(x)
      BY <2>1 DEF TimeInv
    <3>2. \A q \in Requests : q # r => /\ Half(q, x)' <=> Half(q, x)
                                       /\ Ahead(q)' = Ahead(q)
      BY DEF Half, HalfCounted, Ahead, Kept, OnlyMoves
    <3> QED BY <1>2, <1>4, <1>5, <1>7, <3>1, <3>2 DEF TimeAt, Half
  <2> QED BY <1>1, <1>2, <1>3, <1>4, <1>5, <1>7, <2>1, StepKeepsTimes
<1> QED BY <1>6, <1>7

LEMMA NextKeepsTimes == Inv /\ Inv' /\ TimeInv /\ [Next]_vars => TimeInv'
<1> SUFFICES ASSUME Inv, Inv', TimeInv, [Next]_vars PROVE TimeInv'
  OBVIOUS
<1>1. CASE Tick \/ UNCHANGED vars
  <2>1. UNCHANGED <<sessions, activities, pc, ctx, torn>>
    BY <1>1 DEF Tick, vars, rows, requestState
  <2>2. \A s : ActivityTime(s)' = ActivityTime(s)
    BY <2>1, SameTimes
  <2> QED BY <2>1, <2>2 DEF TimeInv, TimeAt, Half, HalfCounted, Ahead, SessionIds
<1>2. ASSUME NEW r \in Requests,
             Send(r) \/ Heartbeat(r) \/ Recording(r) \/ Batch(r) \/ LoggingOut(r) \/ Abort(r)
      PROVE  TimeInv'
  <2>1. Kept(r)
    BY <1>2, RequestKeeps DEF Keeps
  <2>2. Heartbeat(r) \/ LoggingOut(r) \/ Send(r) => TimeInv'
    BY <2>1, QuietSteps, CountSteps DEF Heartbeat, LoggingOut
  <2>3. Recording(r) \/ Batch(r) => TimeInv'
    BY <2>1, LookSteps, RecordSteps, TargetSteps, TotalSteps DEF Recording, Batch
  <2> QED BY <1>2, <2>1, <2>2, <2>3, AbortSteps
<1> QED BY <1>1, <1>2 DEF Next

(* The seconds of a session are the seconds of its activities, whatever       *)
(* devices do meanwhile, unless a request died between the two.               *)
THEOREM TrackedTimeAddsUp == Spec => []TimeAddsUp
<1>1. Init => TimeInv
  <2>1. Init => Len(sessions) = 0
    BY DEF Init
  <2> QED BY <2>1 DEF TimeInv, SessionIds
<1>2. TimeInv => TimeAddsUp
  BY DEF TimeInv, TimeAt, TimeAddsUp, Half
<1> QED BY <1>1, <1>2, AlwaysInv, NextKeepsTimes, PTL DEF Spec
----------------------------------------------------------------------------
(* What a step of request r does to the last answer of its device: nothing,   *)
(* and then a heartbeat records nothing and a batch goes on; or it answers    *)
(* something else than a heartbeat; or it answers a heartbeat whose report an *)
(* activity shows.                                                            *)
Answers(r) ==
  \/ /\ UNCHANGED latest
     /\ ctx[r].kind # "batch" => UNCHANGED activities
     /\ ctx[r].kind = "batch" => ctx'[r].kind = "batch" /\ ctx'[r].device = ctx[r].device
  \/ latest' = [latest EXCEPT ![ctx[r].device] = NoReport]
  \/ /\ latest' = [latest EXCEPT ![ctx[r].device] = [sess |-> ctx[r].sess, items |-> ctx[r].items]]
     /\ \/ ctx[r].device = Portal
        \/ /\ ctx[r].sess \in SessionIds /\ sessions[ctx[r].sess].device = ctx[r].device
           /\ \E n \in ActivityIds' : /\ activities'[n].sess = ctx[r].sess
                                      /\ activities'[n].app = ctx[r].items[1].app
                                      /\ Near(activities'[n].at, ctx[r].items[1].at)

\* A step that answers nothing.
LEMMA AnswersNothing ==
  ASSUME Inv, Inv', NEW r \in Requests, Kept(r), UNCHANGED latest,
         ctx[r].kind = "batch" => ctx'[r].kind = "batch", pc[r] \notin {"merge", "record"}
  PROVE  Answers(r)
<1>1. UNCHANGED activities
  BY DEF Kept, ActivitiesKept
<1>2. ASSUME ctx[r].kind = "batch"
      PROVE  ctx'[r].kind = "batch" /\ ctx'[r].device = ctx[r].device
  <2>1. ctx'[r].kind = "batch" /\ ctx'[r].device \in Devices
    <3>1. Idle.kind = "none"
      BY DEF Idle, Request
    <3>2. Purpose(r)' /\ ctx'[r].kind = "batch"
      BY <1>2 DEF Inv, Knows
    <3>3. pc'[r] # "idle"
      BY <3>1, <3>2 DEF Purpose
    <3> QED BY <3>2, <3>3 DEF Purpose
  <2>2. ctx[r].device # NoDevice
    <3>1. Idle.kind = "none"
      BY DEF Idle, Request
    <3>2. pc[r] # "idle"
      BY <1>2, <3>1 DEF Inv, Knows, Purpose
    <3> QED BY <3>2, TrackingAssumption DEF Inv, Knows, Purpose
  <2>3. ctx'[r].device # NoDevice
    BY <2>1, TrackingAssumption
  <2> QED BY <2>1, <2>2, <2>3 DEF Kept, OnlyMoves
<1> QED BY <1>1, <1>2 DEF Answers

\* An answer to something else than a heartbeat.
LEMMA AnswersOther ==
  ASSUME NEW r \in Requests, Done(r), ctx[r].kind # "heartbeat"
  PROVE  Answers(r)
  BY DEF Done, Answers

LEMMA AnswersPortal ==
  ASSUME NEW r \in Requests, Done(r), ctx[r].device = Portal
  PROVE  Answers(r)
  BY DEF Done, Answers

\* The answer to a tracker's heartbeat is the report it sent.
LEMMA AnswersShown ==
  ASSUME Inv, Inv', NEW r \in Requests, Kept(r), Done(r), pc[r] \in Counting, ctx[r].kind = "heartbeat",
         NEW n \in ActivityIds', activities'[n].sess = ctx[r].sess,
         activities'[n].app = ctx[r].items[1].app, Near(activities'[n].at, ctx[r].items[1].at)
  PROVE  Answers(r)
<1>1. /\ ctx[r].sess \in SessionIds /\ sessions[ctx[r].sess].device = ctx[r].device
  BY DEF Inv, Knows, Reads, InSomeSession, InOwnSession, Counting
<1>2. latest' = [latest EXCEPT ![ctx[r].device] = [sess |-> ctx[r].sess, items |-> ctx[r].items]]
  BY DEF Done
<1> QED BY <1>1, <1>2 DEF Answers

LEMMA HeartbeatAnswers ==
  ASSUME Inv, Inv', NEW r \in Requests, Kept(r), Heartbeat(r)
  PROVE  Answers(r)
<1>0. TypeOK /\ Knows(r)
  BY DEF Inv
<1>1. pc[r] \in OfHeartbeat
  BY DEF Heartbeat, FindDesktop, CloseDesktop, ListOthers, CloseOther, FindOwn, Rollover, Create,
         Ping, Touch, Duplicate, Count
<1>2. ctx[r].kind = "heartbeat" /\ pc[r] \notin {"merge", "record"}
  BY <1>0, <1>1 DEF Knows, Purpose
<1>3. CASE UNCHANGED latest
  BY <1>2, <1>3, AnswersNothing
<1>4. CASE FindDesktop(r) \/ CloseDesktop(r) \/ ListOthers(r) \/ CloseOther(r) \/ FindOwn(r)
           \/ Rollover(r) \/ Touch(r) \/ Count(r)
  <2>1. UNCHANGED latest
    BY <1>4 DEF FindDesktop, CloseDesktop, ListOthers, CloseOther, FindOwn, Rollover, Touch, Count
  <2> QED BY <1>3, <2>1
<1>5. CASE Create(r)
  <2>1. Telemetry(r, [ctx[r] EXCEPT !.sess = Len(sessions) + 1])
    BY <1>5 DEF Create
  <2>2. [ctx[r] EXCEPT !.sess = Len(sessions) + 1].device = ctx[r].device
    BY <1>0, RequestType DEF RequestRow
  <2>3. (ctx[r].device = Portal /\ Done(r)) \/ UNCHANGED latest
    BY <2>1, <2>2 DEF Telemetry
  <2> QED BY <1>3, <2>3, AnswersPortal
<1>6. CASE Ping(r)
  <2>1. (ctx[r].device = Portal /\ Done(r)) \/ UNCHANGED latest
    BY <1>6 DEF Ping, Telemetry
  <2> QED BY <1>3, <2>1, AnswersPortal
<1>7. CASE Duplicate(r)
  <2>1. CASE \E n \in InSession(r) : Same(n, ctx[r].items[1]) /\ Near(activities[n].at, ctx[r].items[1].at)
    <3>1. PICK n \in InSession(r) : Same(n, ctx[r].items[1]) /\ Near(activities[n].at, ctx[r].items[1].at)
      BY <2>1
    <3>2. Done(r) /\ UNCHANGED activities /\ pc[r] = "dup"
      BY <1>7, <2>1 DEF Duplicate, rows
    <3>3. /\ n \in ActivityIds' /\ activities'[n].sess = ctx[r].sess
          /\ activities'[n].app = ctx[r].items[1].app
          /\ Near(activities'[n].at, ctx[r].items[1].at)
      BY <3>1, <3>2 DEF InSession, Same, ActivityIds
    <3> QED BY <1>2, <3>2, <3>3, AnswersShown DEF Counting
  <2>2. CASE UNCHANGED latest
    BY <1>3, <2>2
  <2> QED BY <1>7, <2>1, <2>2 DEF Duplicate
<1> QED BY <1>4, <1>5, <1>6, <1>7 DEF Heartbeat

LEMMA RecordingAnswers ==
  ASSUME Inv, Inv', NEW r \in Requests, Kept(r), Recording(r)
  PROVE  Answers(r)
<1>0. TypeOK /\ TypeOK' /\ Knows(r) /\ ctx[r] \in RequestRow
  BY RequestType DEF Inv
<1>1. CASE Last(r)
  <2>1. /\ UNCHANGED latest /\ pc[r] = "last"
        /\ \/ UNCHANGED ctx
           \/ \E n, d : ctx' = [ctx EXCEPT ![r] = [ctx[r] EXCEPT !.act = n, !.dur = d]]
    BY <1>1 DEF Last, Keep
  <2>2. ctx'[r].kind = ctx[r].kind
    <3>1. ASSUME NEW n, NEW d,
                 ctx' = [ctx EXCEPT ![r] = [ctx[r] EXCEPT !.act = n, !.dur = d]]
          PROVE  ctx'[r].kind = ctx[r].kind
      <4>1. ctx'[r] = [ctx[r] EXCEPT !.act = n, !.dur = d]
        BY <1>0, <3>1 DEF TypeOK
      <4> QED BY <1>0, <4>1 DEF RequestRow
    <3> QED BY <2>1, <3>1
  <2> QED BY <2>1, <2>2, AnswersNothing
<1>2. CASE Merge(r) \/ Record(r)
  <2>1. NextReport(r) /\ pc[r] \in {"merge", "record"}
    BY <1>2 DEF Merge, Record
  <2>2. CASE ctx[r].kind = "heartbeat"
    <3>1. Done(r)
      BY <2>1, <2>2 DEF NextReport
    <3>2. ctx[r].items[1].at \in Nat
      <4>1. ctx[r].items # << >>
        BY <1>0, <2>1, ReportLeft
      <4> QED BY <1>0, <4>1, ItemTypes DEF ReportRow
    <3>3. Near(ctx[r].items[1].at, ctx[r].items[1].at)
      BY <3>2, TrackingAssumption DEF Near
    <3>4. \E n \in ActivityIds' : /\ activities'[n].sess = ctx[r].sess
                                  /\ activities'[n].app = ctx[r].items[1].app
                                  /\ activities'[n].at = ctx[r].items[1].at
      <4>1. Len(activities) \in Nat
        BY <1>0, RowTypes
      <4>2. CASE Merge(r)
        BY <4>1, <4>2, MergeEffect DEF ActivityIds
      <4>3. CASE Record(r)
        <5>1. Len(activities) + 1 \in ActivityIds'
          BY <4>1, <4>3, RecordEffect DEF ActivityIds
        <5> QED BY <4>3, <5>1, RecordEffect
      <4> QED BY <1>2, <4>2, <4>3
    <3>5. pc[r] \in Counting
      BY <2>1 DEF Counting
    <3> QED BY <2>2, <3>1, <3>3, <3>4, <3>5, AnswersShown
  <2>3. CASE ctx[r].kind # "heartbeat"
    <3>1. UNCHANGED latest /\ ctx' = [ctx EXCEPT ![r] = [ctx[r] EXCEPT !.items = Tail(@), !.fresh = @ + 1]]
      BY <2>1, <2>3 DEF NextReport, Keep
    <3>2. ctx'[r].kind = ctx[r].kind /\ ctx'[r].device = ctx[r].device
      BY <1>0, <3>1 DEF TypeOK, RequestRow
    <3>3. ctx[r].kind = "batch"
      BY <1>0, <2>1, <2>3 DEF Knows, Purpose
    <3> QED BY <3>1, <3>2, <3>3 DEF Answers
  <2> QED BY <2>2, <2>3
<1> QED BY <1>1, <1>2 DEF Recording

LEMMA BatchAnswers ==
  ASSUME Inv, Inv', NEW r \in Requests, Kept(r), Batch(r)
  PROVE  Answers(r)
<1>0. pc \in [Requests -> Places] /\ pc[r] \in OfBatch /\ pc[r] \notin {"merge", "record"}
  BY DEF Inv, TypeOK, Batch, FindTarget, CreateTarget, PingTarget, Item, ReadTotal, WriteTotal
<1>1. ctx[r].kind = "batch"
  BY <1>0 DEF Inv, Knows, Purpose
<1>2. CASE UNCHANGED latest /\ pc'[r] \in OfBatch
  <2>1. ctx'[r].kind = "batch"
    BY <1>2 DEF Inv, Knows, Purpose
  <2> QED BY <1>0, <1>2, <2>1, AnswersNothing
<1>3. CASE FindTarget(r) \/ CreateTarget(r) \/ PingTarget(r)
  <2>1. UNCHANGED latest /\ \E where \in {"createTarget", "item", "pingTarget"} : pc' = [pc EXCEPT ![r] = where]
    BY <1>3 DEF FindTarget, CreateTarget, PingTarget, Keep, Goto
  <2> QED BY <1>0, <1>2, <2>1
<1>4. CASE Item(r)
  <2>1. /\ UNCHANGED latest
        /\ \/ UNCHANGED ctx
           \/ \E where \in {"readTotal", "item"} : pc' = [pc EXCEPT ![r] = where]
    BY <1>4 DEF Item, Keep, Goto
  <2>2. CASE UNCHANGED ctx
    BY <1>0, <1>1, <2>1, <2>2, AnswersNothing
  <2>3. CASE \E where \in {"readTotal", "item"} : pc' = [pc EXCEPT ![r] = where]
    BY <1>0, <1>2, <2>1, <2>3
  <2> QED BY <2>1, <2>2, <2>3
<1>5. CASE ReadTotal(r)
  <2>1. Done(r) \/ (UNCHANGED latest /\ pc' = [pc EXCEPT ![r] = "writeTotal"])
    BY <1>5 DEF ReadTotal, Keep, Goto
  <2> QED BY <1>0, <1>1, <1>2, <2>1, AnswersOther
<1>6. CASE WriteTotal(r)
  BY <1>1, <1>6, AnswersOther DEF WriteTotal
<1> QED BY <1>3, <1>4, <1>5, <1>6 DEF Batch

LEMMA StepAnswers ==
  ASSUME Inv, Inv', NEW r \in Requests, Kept(r),
         Send(r) \/ Heartbeat(r) \/ Recording(r) \/ Batch(r) \/ LoggingOut(r) \/ Abort(r)
  PROVE  Answers(r)
<1>1. CASE Send(r)
  <2>1. UNCHANGED latest /\ pc[r] = "idle"
    BY <1>1 DEF Send, BeginPortal, BeginHeartbeat, BeginBatch, BeginLogout, Begin
  <2>2. ctx[r].kind # "batch"
    BY <2>1 DEF Inv, Knows, Purpose, Idle, Request
  <2> QED BY <2>1, <2>2, AnswersNothing
<1>2. CASE LoggingOut(r)
  <2>1. (Done(r) \/ UNCHANGED latest) /\ pc[r] \in OfLogout
    BY <1>2 DEF LoggingOut, FindAny, Logout
  <2>2. ctx[r].kind = "logout" /\ pc[r] \notin {"merge", "record"}
    BY <2>1 DEF Inv, Knows, Purpose
  <2> QED BY <2>1, <2>2, AnswersOther, AnswersNothing
<1>3. CASE Abort(r)
  BY <1>3 DEF Abort, Answers
<1> QED BY <1>1, <1>2, <1>3, HeartbeatAnswers, RecordingAnswers, BatchAnswers

LEMMA StepKeepsLatest ==
  ASSUME Inv, Inv', LatestInv, NEW r \in Requests, Kept(r), Answers(r)
  PROVE  LatestInv'
<1> SUFFICES ASSUME NEW d \in Trackers, latest'[d].sess # 0, ~Batching(d)'
             PROVE  Shown(latest[d])' /\ (sessions[latest[d].sess].device = d)'
  BY DEF LatestInv
<1>0. /\ TypeOK /\ TypeOK' /\ d \in Devices /\ d # Portal /\ d # NoDevice
      /\ Len(sessions) \in Nat /\ Len(sessions') \in Nat
      /\ Len(activities) \in Nat /\ Len(activities') \in Nat
  BY TrackingAssumption, LenProperties DEF Inv, TypeOK, Devices
<1>1. SessionIds \subseteq SessionIds' /\ ActivityIds \subseteq ActivityIds'
  BY <1>0 DEF Kept, SessionsKept, ActivitiesKept, SessionIds, ActivityIds
<1>2. \A s \in SessionIds : sessions'[s].device = sessions[s].device
  BY DEF Kept, SessionsKept
\* What was shown stays shown while its activities stay.
<1>3. ASSUME latest'[d] = latest[d], ~Batching(d),
             \A n \in ActivityIds : sessions[activities[n].sess].device = d => activities'[n] = activities[n]
      PROVE  Shown(latest[d])' /\ (sessions[latest[d].sess].device = d)'
  <2>1. Shown(latest[d]) /\ sessions[latest[d].sess].device = d
    BY <1>3 DEF LatestInv
  <2>2. PICK n \in ActivityIds : /\ activities[n].sess = latest[d].sess
                                 /\ activities[n].app = latest[d].items[1].app
                                 /\ Near(activities[n].at, latest[d].items[1].at)
    BY <2>1 DEF Shown
  <2>3. activities'[n] = activities[n]
    BY <1>3, <2>1, <2>2
  <2> QED BY <1>1, <1>2, <1>3, <2>1, <2>2, <2>3 DEF Shown
<1>4. CASE ctx[r].device = d
  <2>1. CASE /\ UNCHANGED latest
             /\ ctx[r].kind # "batch" => UNCHANGED activities
             /\ ctx[r].kind = "batch" => ctx'[r].kind = "batch" /\ ctx'[r].device = ctx[r].device
    <3>1. ctx[r].kind # "batch"
      BY <1>4, <2>1 DEF Batching
    <3>2. ~Batching(d)
      BY <1>0, <1>4, <3>1 DEF Batching, Inv, OneRequestPerDevice
    <3> QED BY <1>3, <2>1, <3>1, <3>2
  <2>2. CASE latest' = [latest EXCEPT ![ctx[r].device] = NoReport]
    <3>1. latest'[d] = NoReport
      BY <1>0, <1>4, <2>2 DEF TypeOK
    <3> QED BY <3>1 DEF NoReport
  <2>3. CASE /\ latest' = [latest EXCEPT ![ctx[r].device] = [sess |-> ctx[r].sess, items |-> ctx[r].items]]
             /\ ctx[r].sess \in SessionIds /\ sessions[ctx[r].sess].device = ctx[r].device
             /\ \E n \in ActivityIds' : /\ activities'[n].sess = ctx[r].sess
                                        /\ activities'[n].app = ctx[r].items[1].app
                                        /\ Near(activities'[n].at, ctx[r].items[1].at)
    <3>1. latest'[d].sess = ctx[r].sess /\ latest'[d].items = ctx[r].items
      BY <1>0, <1>4, <2>3 DEF TypeOK
    <3> QED BY <1>1, <1>2, <1>4, <2>3, <3>1 DEF Shown
  <2> QED BY <1>0, <1>4, <2>1, <2>2, <2>3 DEF Answers
<1>5. CASE ctx[r].device # d
  <2>1. latest'[d] = latest[d]
    BY <1>0, <1>5 DEF Answers, TypeOK
  <2>2. ~Batching(d)
    BY <1>5 DEF Batching, Kept, OnlyMoves
  <2>3. \A n \in ActivityIds : sessions[activities[n].sess].device = d => activities'[n] = activities[n]
    BY <1>5 DEF Kept, ActivitiesKept
  <2> QED BY <1>3, <2>1, <2>2, <2>3
<1> QED BY <1>4, <1>5

LEMMA NextKeepsLatest == Inv /\ Inv' /\ LatestInv /\ [Next]_vars => LatestInv'
<1> SUFFICES ASSUME Inv, Inv', LatestInv, [Next]_vars PROVE LatestInv'
  OBVIOUS
<1>1. CASE Tick \/ UNCHANGED vars
  <2>1. UNCHANGED <<sessions, activities, ctx, latest>>
    BY <1>1 DEF Tick, vars, rows, requestState
  <2> QED BY <2>1 DEF LatestInv, Batching, Shown, SessionIds, ActivityIds
<1>2. ASSUME NEW r \in Requests,
             Send(r) \/ Heartbeat(r) \/ Recording(r) \/ Batch(r) \/ LoggingOut(r) \/ Abort(r)
      PROVE  LatestInv'
  <2>1. Kept(r)
    BY <1>2, RequestKeeps DEF Keeps
  <2> QED BY <1>2, <2>1, StepAnswers, StepKeepsLatest
<1> QED BY <1>1, <1>2 DEF Next

(* A heartbeat that was answered and is sent again finds its own activity and *)
(* is not counted a second time (the duplicate check of handleHeartbeat).     *)
THEOREM ResentCountsOnce == Spec => ResentHeartbeatCountsOnce
<1>1. Init => LatestInv
  BY DEF Init, LatestInv, NoReport, Devices
<1>2. ASSUME Inv, LatestInv, NEW r \in Requests, ctx[r].kind = "heartbeat", pc[r] = "count",
             latest[ctx[r].device] = [sess |-> ctx[r].sess, items |-> ctx[r].items]
      PROVE  FALSE
  <2> DEFINE d == ctx[r].device
  <2>1. /\ d \in Trackers /\ d # NoDevice /\ ctx[r].sess \in SessionIds
    BY <1>2, TrackingAssumption
       DEF Inv, Knows, Purpose, Reads, InSomeSession, InOwnSession, Counting, Devices
  <2>2. ~Batching(d)
    BY <1>2, <2>1 DEF Batching, Inv, OneRequestPerDevice
  <2>3. ctx[r].sess # 0
    BY <2>1 DEF SessionIds
  <2>4. latest[d].sess = ctx[r].sess /\ latest[d].items = ctx[r].items
    BY <1>2
  <2>5. Shown(latest[d])
    BY <1>2, <2>1, <2>2, <2>3, <2>4 DEF LatestInv
  <2>6. \A n \in InSession(r) : Same(n, ctx[r].items[1]) => ~Near(activities[n].at, ctx[r].items[1].at)
    BY <1>2 DEF Inv, Knows, ReadsActivity
  <2> QED BY <2>4, <2>5, <2>6 DEF Shown, InSession, Same
<1> DEFINE Once == \A r \in Requests :
                     /\ ctx[r].kind = "heartbeat" /\ pc[r] = "count"
                     /\ latest[ctx[r].device] = [sess |-> ctx[r].sess, items |-> ctx[r].items]
                     => UNCHANGED sessions
<1>3. Inv /\ LatestInv => Once
  BY <1>2
<1>4. Inv /\ LatestInv /\ [Next]_vars => [Once]_vars
  BY <1>3
<1> QED BY <1>1, <1>4, AlwaysInv, NextKeepsLatest, PTL DEF Spec, ResentHeartbeatCountsOnce
============================================================================
