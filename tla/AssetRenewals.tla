--------------------------- MODULE AssetRenewals ---------------------------
(* Renewals of domains and servers (asset-renewals.service.ts) against the    *)
(* ordinary edits of their expiry date (infrastructure.service.ts) and the    *)
(* reminders a renewal completes. Requests are sequences of database          *)
(* statements; a renewal, a failed attempt and an edit that changes the date  *)
(* lock the asset row (SELECT ... FOR UPDATE) until their transaction ends.   *)
(* What a transaction writes is seen by nobody before it commits, but a       *)
(* unique key it has inserted makes other inserts of that key wait.           *)
EXTENDS Integers, Sequences, FiniteSets

CONSTANTS Requests, Assets, Keys, Reminders,
          Dates,        \* dates that users see and send
          Expectations, \* what an edit form says it loaded: dates, NoExpiry, NotSent
          Periods,      \* renewal periods, in months
          Today,
          MaxHistory,   \* bound: rows of asset_renewals
          NoAsset, NoKey, NoReminder, NoExpiry, NotSent, NoRequest

\* A date is 31 * month + day - 1, and a month is 12 * year + its index.
Month(date) == date \div 31
Day(date) == (date % 31) + 1
DateOf(month, day) == 31 * month + day - 1

Leap(year) == year % 4 = 0 /\ (year % 100 # 0 \/ year % 400 = 0)
DaysInMonth(month) ==
  CASE month % 12 = 1             -> IF Leap(month \div 12) THEN 29 ELSE 28
    [] month % 12 \in {3, 5, 8, 10} -> 30
    [] OTHER                      -> 31

ASSUME RenewalAssumption ==
  /\ Dates \subseteq Nat /\ Today \in Nat /\ MaxHistory \in Nat
  /\ Periods \subseteq Nat \ {0}
  /\ Expectations \subseteq Dates \cup {NoExpiry, NotSent}
  /\ NoExpiry \notin Nat /\ NotSent \notin Nat /\ NoExpiry # NotSent
  /\ NoAsset \notin Assets /\ NoKey \notin Keys
  /\ NoReminder \notin Reminders /\ NoRequest \notin Requests

VARIABLES exists, expiry,  \* domains and servers, by id
          history,         \* asset_renewals, in id order
          link, open,      \* reminders: the asset they are about, not completed
          lock,            \* which transaction holds the asset row
          pc, ctx,         \* requests: next statement, what they keep
          answered         \* the last request of the slot was given a result

assetRows == <<exists, expiry>>
reminderRows == <<link, open>>
requestState == <<pc, ctx, answered>>
vars == <<assetRows, history, reminderRows, lock, requestState>>

Request(event, asset, key, expected, next, reminder) ==
  [event |-> event, asset |-> asset, key |-> key, expected |-> expected,
   next |-> next, reminder |-> reminder, attempt |-> 0]
Idle == Request("none", NoAsset, NoKey, NotSent, NoExpiry, NoReminder)

\* The day is kept, or clamped to the last day of a shorter month.
AddRenewalPeriod(date, months) ==
  LET month == Month(date) + months
      last == DaysInMonth(month)
  IN  DateOf(month, IF Day(date) <= last THEN Day(date) ELSE last)

Rows == {history[n] : n \in 1..Len(history)}
Recorded(key) == \E row \in Rows : row.key = key
Renewed(asset, date) ==
  \E row \in Rows : row.event = "renewed" /\ row.asset = asset /\ row.prev = date

Row(event, asset, prev, next, key) ==
  [event |-> event, asset |-> asset, prev |-> prev, next |-> next, key |-> key]

InTransaction == {"check", "insert", "write", "writeEdit"}
Active == {r \in Requests : pc[r] # "idle"}
Room == Len(history) + Cardinality(Active) < MaxHistory

Goto(r, where) == pc' = [pc EXCEPT ![r] = where]
Answer(r, what) ==
  /\ Goto(r, "idle")
  /\ ctx' = [ctx EXCEPT ![r] = Idle]
  /\ answered' = [answered EXCEPT ![r] = what = "result"]
\* A new request takes the slot.
Start(r, request, where) ==
  /\ pc[r] = "idle" /\ Room
  /\ ctx' = [ctx EXCEPT ![r] = request]
  /\ Goto(r, where)
  /\ answered' = [answered EXCEPT ![r] = FALSE]
  /\ UNCHANGED <<assetRows, history, reminderRows, lock>>
Take(r) == lock' = [lock EXCEPT ![ctx[r].asset] = r]
Unlock(r) == lock' = [a \in Assets |-> IF lock[a] = r THEN NoRequest ELSE lock[a]]

\* A recorded key answers with its row, if it is of the same asset and event.
RecordedFor(r) ==
  \E row \in Rows : /\ row.key = ctx[r].key /\ row.asset = ctx[r].asset
                    /\ row.event = ctx[r].event
ReplayAnything(r) == Answer(r, "result")
ReplayUntilItFits(r) ==
  IF RecordedFor(r) THEN Answer(r, "result")
                    ELSE Goto(r, "lookup") /\ UNCHANGED <<ctx, answered>>
Replay(r) == Answer(r, IF RecordedFor(r) THEN "result" ELSE "error")
----------------------------------------------------------------------------
Init ==
  /\ exists = [a \in Assets |-> TRUE]
  /\ expiry \in [Assets -> Dates \cup {NoExpiry}]
  /\ history = << >>
  /\ link \in [Reminders -> Assets \cup {NoAsset}]
  /\ open = [m \in Reminders |-> TRUE]
  /\ lock = [a \in Assets |-> NoRequest]
  /\ pc = [r \in Requests |-> "idle"]
  /\ ctx = [r \in Requests |-> Idle]
  /\ answered = [r \in Requests |-> FALSE]

(* POST renew states the expiry being renewed; POST renewal-failed need not.  *)
(* A client that got no answer sends the same key again.                      *)
BeginRenewal(r, a, key, expected, m) ==
  Start(r, Request("renewed", a, key, expected, NoExpiry, m), "lookup")

BeginFailure(r, a, key, expected, m) ==
  Start(r, Request("failed", a, key, expected, NoExpiry, m), "lookup")

\* The key is looked up before the transaction.
Lookup(r) ==
  /\ pc[r] = "lookup"
  /\ IF Recorded(ctx[r].key)
       THEN Replay(r)
       ELSE /\ Goto(r, "lock")
            /\ ctx' = [ctx EXCEPT ![r].attempt = 1]
            /\ UNCHANGED answered
  /\ UNCHANGED <<assetRows, history, reminderRows, lock>>

LockAsset(r) ==
  LET a == ctx[r].asset
  IN  /\ pc[r] = "lock"
      /\ lock[a] = NoRequest
      /\ IF exists[a] THEN Goto(r, "check") /\ Take(r) /\ UNCHANGED <<ctx, answered>>
                      ELSE Answer(r, "error") /\ UNCHANGED lock
      /\ UNCHANGED <<assetRows, history, reminderRows>>

\* The reminder is open and linked to this very asset, or none was named.
ReminderOpen(r) == ctx[r].reminder = NoReminder \/ open[ctx[r].reminder]

ReminderFits(r) ==
  LET m == ctx[r].reminder
  IN  m = NoReminder \/ (open[m] /\ link[m] = ctx[r].asset)

\* The expiry is still the one the request is about.
ExpectationMet(r) ==
  LET current == expiry[ctx[r].asset]
  IN  IF ctx[r].event = "renewed"
        THEN current # NoExpiry /\ current = ctx[r].expected
        ELSE ctx[r].expected # NotSent => current = ctx[r].expected

\* A date that is still past needs the caller's confirmation of that date.
NewExpiry(r, months, confirmed) ==
  LET next == AddRenewalPeriod(expiry[ctx[r].asset], months)
  IN  IF next >= Today \/ confirmed THEN next ELSE NotSent

(* Under the lock: the key once more, then the request against the asset and  *)
(* the reminder. Period and confirmation matter nowhere else, so they are     *)
(* picked here.                                                               *)
Check(r) ==
  /\ pc[r] = "check"
  /\ IF Recorded(ctx[r].key)
       THEN Replay(r) /\ Unlock(r)
       ELSE \E months \in Periods, confirmed \in BOOLEAN :
              LET next == IF ctx[r].event = "failed" THEN NoExpiry
                          ELSE NewExpiry(r, months, confirmed)
              IN  IF ExpectationMet(r) /\ ReminderFits(r) /\ next # NotSent
                    THEN /\ Goto(r, "insert")
                         /\ ctx' = [ctx EXCEPT ![r].next = next]
                         /\ UNCHANGED <<lock, answered>>
                    ELSE Answer(r, "error") /\ Unlock(r)
  /\ UNCHANGED <<assetRows, history, reminderRows>>

(* INSERT: waits for a transaction that has inserted the same key. A key that *)
(* is recorded by now is a replay, a cycle that was renewed before is refused.*)
InsertWithoutCycleKey(r) ==
  LET c == ctx[r]
  IN  /\ pc[r] = "insert"
      /\ \A s \in Requests : pc[s] = "write" => ctx[s].key # c.key
      /\ \/ Recorded(c.key) /\ Goto(r, "replay") /\ Unlock(r) /\ UNCHANGED <<ctx, answered>>
         \/ ~Recorded(c.key) /\ Goto(r, "write") /\ UNCHANGED <<lock, ctx, answered>>
      /\ UNCHANGED <<assetRows, history, reminderRows>>

Insert(r) ==
  LET c == ctx[r]
      cycleUsed == c.event = "renewed" /\ Renewed(c.asset, expiry[c.asset])
  IN  /\ pc[r] = "insert"
      /\ \A s \in Requests : pc[s] = "write" => ctx[s].key # c.key
      /\ \/ Recorded(c.key) /\ Goto(r, "replay") /\ Unlock(r) /\ UNCHANGED <<ctx, answered>>
         \/ cycleUsed /\ Answer(r, "error") /\ Unlock(r)
         \/ /\ ~Recorded(c.key) /\ ~cycleUsed
            /\ Goto(r, "write") /\ UNCHANGED <<lock, ctx, answered>>
      /\ UNCHANGED <<assetRows, history, reminderRows>>

\* After the rollback the recorded row is read.
ReadRecorded(r) ==
  /\ pc[r] = "replay"
  /\ Replay(r)
  /\ UNCHANGED <<assetRows, history, reminderRows, lock>>

\* The expiry and the reminder are updated and the transaction commits.
Commit(r) ==
  LET c == ctx[r]
      renewing == c.event = "renewed"
  IN  /\ pc[r] = "write"
      /\ history' = Append(history, Row(c.event, c.asset, expiry[c.asset], c.next, c.key))
      /\ expiry' = IF renewing THEN [expiry EXCEPT ![c.asset] = c.next] ELSE expiry
      /\ open' = IF renewing /\ c.reminder # NoReminder
                   THEN [open EXCEPT ![c.reminder] = FALSE] ELSE open
      /\ Answer(r, "result") /\ Unlock(r)
      /\ UNCHANGED <<exists, link>>

\* InnoDB makes the transaction a deadlock victim: rolled back, three attempts.
RetryForever(r) ==
  /\ pc[r] \in {"check", "insert", "write"}
  /\ Unlock(r)
  /\ Goto(r, "lock")
  /\ ctx' = [ctx EXCEPT ![r].attempt = @ + 1, ![r].next = NoExpiry]
  /\ UNCHANGED <<assetRows, history, reminderRows, answered>>

Deadlock(r) ==
  /\ pc[r] \in {"check", "insert", "write"}
  /\ Unlock(r)
  /\ IF ctx[r].attempt < 3
       THEN /\ Goto(r, "lock")
            /\ ctx' = [ctx EXCEPT ![r].attempt = @ + 1, ![r].next = NoExpiry]
            /\ UNCHANGED answered
       ELSE Answer(r, "error")
  /\ UNCHANGED <<assetRows, history, reminderRows>>
----------------------------------------------------------------------------
(* PUT/PATCH reads the asset, then decides how to write the date (expiryWrite)*)
(* An untouched date is not written (and not modelled further). A date the    *)
(* form did not load, or one that differs from what was just read, is written *)
(* under the lock. What is left is the date just read, sent back by a client  *)
(* that states no expectation: it is written as it is, without the lock.      *)
BeginEdit(r, a, submitted, expected) ==
  LET locked == expected # NotSent \/ submitted # expiry[a]
      baseline == IF expected # NotSent THEN expected ELSE expiry[a]
  IN  /\ exists[a]
      /\ submitted # expected
      /\ Start(r, Request("manual_change", a, NoKey, baseline, submitted, NoReminder),
               IF locked THEN "lockEdit" ELSE "overwrite")

\* lockUnchangedExpiry: the stored date is still the baseline.
LockEditByReading(r) ==
  LET a == ctx[r].asset
  IN  /\ pc[r] = "lockEdit"
      /\ IF exists[a] /\ expiry[a] = ctx[r].expected
           THEN Goto(r, "writeEdit") /\ UNCHANGED <<ctx, answered>>
           ELSE Answer(r, "error")
      /\ UNCHANGED <<assetRows, history, reminderRows, lock>>

LockEdit(r) ==
  LET a == ctx[r].asset
  IN  /\ pc[r] = "lockEdit"
      /\ lock[a] = NoRequest
      /\ IF exists[a] /\ expiry[a] = ctx[r].expected
           THEN Goto(r, "writeEdit") /\ Take(r) /\ UNCHANGED <<ctx, answered>>
           ELSE Answer(r, "error") /\ UNCHANGED lock
      /\ UNCHANGED <<assetRows, history, reminderRows>>

\* The update and its history row commit together.
CommitEditUnrecorded(r) ==
  LET a == ctx[r].asset
  IN  /\ pc[r] = "writeEdit"
      /\ expiry' = [expiry EXCEPT ![a] = ctx[r].next]
      /\ Answer(r, "result") /\ Unlock(r)
      /\ UNCHANGED <<exists, history, reminderRows>>

CommitEdit(r) ==
  LET a == ctx[r].asset
  IN  /\ pc[r] = "writeEdit"
      /\ history' = Append(history, Row("manual_change", a, expiry[a], ctx[r].next, NoKey))
      /\ expiry' = [expiry EXCEPT ![a] = ctx[r].next]
      /\ Answer(r, "result") /\ Unlock(r)
      /\ UNCHANGED <<exists, reminderRows>>

Overwrite(r) ==
  LET a == ctx[r].asset
  IN  /\ pc[r] = "overwrite"
      /\ lock[a] = NoRequest
      /\ expiry' = IF exists[a] THEN [expiry EXCEPT ![a] = ctx[r].next] ELSE expiry
      /\ Answer(r, IF exists[a] THEN "result" ELSE "error")
      /\ UNCHANGED <<exists, history, reminderRows, lock>>
----------------------------------------------------------------------------
\* DELETE domain or server: one statement, which waits for the row lock. The
\* history stays, the links are cleared.
DeleteAssetUnlocked(a) ==
  /\ exists[a]
  /\ exists' = [exists EXCEPT ![a] = FALSE]
  /\ expiry' = [expiry EXCEPT ![a] = NoExpiry]
  /\ link' = [m \in Reminders |-> IF link[m] = a THEN NoAsset ELSE link[m]]
  /\ UNCHANGED <<history, open, lock, requestState>>

DeleteAsset(a) ==
  /\ exists[a] /\ lock[a] = NoRequest
  /\ exists' = [exists EXCEPT ![a] = FALSE]
  /\ expiry' = [expiry EXCEPT ![a] = NoExpiry]
  /\ link' = [m \in Reminders |-> IF link[m] = a THEN NoAsset ELSE link[m]]
  /\ UNCHANGED <<history, open, lock, requestState>>

\* The owner of a reminder completes or reopens it, whatever renewals do.
UpdateReminder(m) ==
  /\ open' = [open EXCEPT ![m] = ~@]
  /\ UNCHANGED <<assetRows, history, link, lock, requestState>>

\* A request dies anywhere: its transaction is rolled back, nothing is answered.
Abort(r) ==
  /\ pc[r] # "idle"
  /\ Answer(r, "nothing") /\ Unlock(r)
  /\ UNCHANGED <<assetRows, history, reminderRows>>

Step(r) ==
  \/ Lookup(r) \/ LockAsset(r) \/ Check(r) \/ Insert(r) \/ ReadRecorded(r) \/ Commit(r)
  \/ Deadlock(r) \/ LockEdit(r) \/ CommitEdit(r) \/ Overwrite(r)

Begin(r) ==
  \E a \in Assets :
    \/ \E key \in Keys, date \in Dates, m \in Reminders \cup {NoReminder} :
         BeginRenewal(r, a, key, date, m)
    \/ \E key \in Keys, date \in Dates \cup {NotSent}, m \in Reminders \cup {NoReminder} :
         BeginFailure(r, a, key, date, m)
    \/ \E submitted \in Dates \cup {NoExpiry}, expected \in Expectations :
         BeginEdit(r, a, submitted, expected)

Next ==
  \/ \E r \in Requests : Begin(r) \/ Step(r) \/ Abort(r)
  \/ \E a \in Assets : DeleteAsset(a)
  \/ \E m \in Reminders : UpdateReminder(m)

Spec == Init /\ [][Next]_vars

\* Statements are executed, and InnoDB serves the waiters of a row in turn.
FairSpec == Spec /\ \A r \in Requests : SF_vars(Step(r))
----------------------------------------------------------------------------
Statements == {"idle", "lookup", "lock", "replay", "lockEdit", "overwrite"} \cup InTransaction
ExpiryDates == Nat \cup {NoExpiry}
Contexts == [event : {"none", "renewed", "failed", "manual_change"},
             asset : Assets \cup {NoAsset}, key : Keys \cup {NoKey},
             expected : ExpiryDates \cup {NotSent}, next : ExpiryDates,
             reminder : Reminders \cup {NoReminder}, attempt : 0..3]
HistoryRows == [event : {"renewed", "failed", "manual_change"}, asset : Assets,
                prev : ExpiryDates, next : ExpiryDates, key : Keys \cup {NoKey}]

TypeOK ==
  /\ exists \in [Assets -> BOOLEAN]
  /\ expiry \in [Assets -> ExpiryDates]
  /\ history \in Seq(HistoryRows)
  /\ link \in [Reminders -> Assets \cup {NoAsset}]
  /\ open \in [Reminders -> BOOLEAN]
  /\ lock \in [Assets -> Requests \cup {NoRequest}]
  /\ pc \in [Requests -> Statements]
  /\ ctx \in [Requests -> Contexts]
  /\ answered \in [Requests -> BOOLEAN]

(* Exactly the requests inside a transaction hold a row lock, that of their   *)
(* own asset, so renewals and edits of one asset run one after the other.     *)
LockDiscipline ==
  \A r \in Requests, a \in Assets :
    lock[a] = r <=> pc[r] \in InTransaction /\ ctx[r].asset = a

(* What was checked still holds when it is written. A renewal extends the     *)
(* date its caller named, to a later one; neither its key nor its cycle was   *)
(* used meanwhile, by this asset or by another one. An edit replaces the date *)
(* it compared.                                                               *)
AcceptedWritesStillFit ==
  \A r \in Requests :
    LET c == ctx[r]
    IN  /\ pc[r] \in {"insert", "write"} /\ c.event = "renewed" =>
             exists[c.asset] /\ expiry[c.asset] = c.expected /\ c.next > c.expected
        /\ pc[r] = "writeEdit" =>
             exists[c.asset] /\ expiry[c.asset] = c.expected /\ c.next # c.expected
        /\ pc[r] = "write" =>
             /\ ~Recorded(c.key)
             /\ c.event = "renewed" => ~Renewed(c.asset, c.expected)
             /\ \A s \in Requests \ {r} : pc[s] = "write" => ctx[s].key # c.key

\* The rows of an asset that moved its expiry date.
Moves(a) == {n \in 1..Len(history) : history[n].asset = a /\ history[n].event # "failed"}
Later(a, n) == {m \in Moves(a) : n < m}

(* The history of an asset is a chain of dates that ends in its expiry date,  *)
(* whatever renewals and edits raced.                                         *)
HistoryExplainsExpiry ==
  \A a \in Assets : \A n \in Moves(a) :
    \/ Later(a, n) = {} /\ (exists[a] => history[n].next = expiry[a])
    \/ \E m \in Later(a, n) : /\ history[m].prev = history[n].next
                             /\ \A k \in Later(a, n) : m <= k

(* An idempotency key is worth one row: a request that gets its row or        *)
(* a recorded one finds exactly one row of its key, and that row is of its    *)
(* own asset and event.                                                       *)
RetryIsHarmless ==
  [][\A r \in Requests :
       pc[r] # "idle" /\ pc'[r] = "idle" /\ answered'[r] /\ ctx[r].key # NoKey =>
       LET mine == {n \in 1..Len(history') : history'[n].key = ctx[r].key}
       IN  /\ Cardinality(mine) = 1
           /\ \A n \in mine : /\ history'[n].asset = ctx[r].asset
                              /\ history'[n].event = ctx[r].event]_vars

(* A transaction closes a reminder only together with a renewal of the asset  *)
(* the reminder is about: not with a failed attempt, not for another asset.   *)
ReminderClosesWithItsRenewal ==
  [][\A m \in Reminders :
       open[m] /\ ~open'[m] /\ history' # history =>
       LET row == history'[Len(history')]
       IN  row.event = "renewed" /\ row.asset = link[m]]_vars

(* Every request is answered, although it waits for rows and keys.            *)
EveryRequestEnds ==
  \A r \in Requests : pc[r] # "idle" ~> pc[r] = "idle"

(* "Nothing is silently overwritten": an edit that sends back the date it     *)
(* read does not move the expiry date.                                        *)
NothingSilentlyOverwritten ==
  [][\A r \in Requests : pc[r] = "overwrite" /\ pc'[r] = "idle" => UNCHANGED expiry]_vars

\* What renewals promise, without requests and locks.
Book == INSTANCE RenewalBook WITH UnrecordedEdits <- NotSent \in Expectations
RefinesBook == Book!Spec
=============================================================================
