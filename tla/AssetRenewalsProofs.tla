-------------------------- MODULE AssetRenewalsProofs --------------------------
(* Renewals, failed attempts and edits of expiry dates, for any number of     *)
(* requests, assets, keys and reminders and for any history: the types, the   *)
(* row locks, what a transaction may still rely on when it writes, what a     *)
(* retry is answered, which reminders a renewal closes, that an asset's       *)
(* history is a chain of dates, and that all of it implements RenewalBook.    *)
EXTENDS AssetRenewals, FiniteSetTheorems, TLAPS

\* Where a renewal or a failed attempt can be.
Keyed == {"lookup", "lock", "check", "insert", "write", "replay"}
LockedEdit == {"lockEdit", "writeEdit"}

\* What a request knows about itself, by where it is.
Knows(r) ==
  /\ pc[r] # "idle" => ctx[r].asset \in Assets
  /\ pc[r] \in Keyed => ctx[r].event \in {"renewed", "failed"} /\ ctx[r].key \in Keys
  /\ pc[r] \notin Keyed => ctx[r].key = NoKey
  /\ pc[r] \in LockedEdit => ctx[r].next # ctx[r].expected

RowsTyped == exists \in [Assets -> BOOLEAN] /\ expiry \in [Assets -> ExpiryDates]
HistoryTyped == history \in Seq(HistoryRows)
RemindersTyped ==
  /\ link \in [Reminders -> Assets \cup {NoAsset}]
  /\ open \in [Reminders -> BOOLEAN]
LockTyped == lock \in [Assets -> Requests \cup {NoRequest}]
RequestsTyped ==
  /\ pc \in [Requests -> Statements]
  /\ ctx \in [Requests -> Contexts]
  /\ answered \in [Requests -> BOOLEAN]
  /\ \A r \in Requests : Knows(r)
TypeInv == RowsTyped /\ HistoryTyped /\ RemindersTyped /\ LockTyped /\ RequestsTyped
----------------------------------------------------------------------------
(* Dates: a period takes a date to a later one.                               *)
LEMMA MonthLength ==
  ASSUME NEW month \in Nat
  PROVE  DaysInMonth(month) \in 28..31
  BY DEF DaysInMonth

LEMMA PeriodMovesForward ==
  ASSUME NEW date \in Nat, NEW months \in Nat \ {0}
  PROVE  /\ AddRenewalPeriod(date, months) \in Nat
         /\ AddRenewalPeriod(date, months) > date
<1> DEFINE month == Month(date) + months
           last == DaysInMonth(month)
           day == IF Day(date) <= last THEN Day(date) ELSE last
<1>1. /\ Month(date) \in Nat /\ Day(date) \in 1..31
      /\ date = 31 * Month(date) + Day(date) - 1
  BY DEF Month, Day
<1>2. month \in Nat /\ month >= Month(date) + 1
  BY <1>1
<1>3. last \in 28..31
  BY <1>2, MonthLength
<1>4. day \in 1..31 /\ (day = Day(date) \/ day >= 28)
  BY <1>1, <1>3
<1>5. AddRenewalPeriod(date, months) = 31 * month + day - 1
  BY DEF AddRenewalPeriod, DateOf
<1> HIDE DEF month, day
<1> QED BY <1>1, <1>2, <1>4, <1>5
----------------------------------------------------------------------------
(* The building blocks of the actions keep their part of the types.           *)
LEMMA ExceptType ==
  ASSUME NEW S, NEW T, NEW f \in [S -> T], NEW x, NEW v \in T
  PROVE  [f EXCEPT ![x] = v] \in [S -> T]
  OBVIOUS

LEMMA IdleType == Idle \in Contexts
  BY DEF Idle, Request, Contexts, ExpiryDates

LEMMA AnswerType ==
  ASSUME RequestsTyped, NEW r \in Requests, NEW what, Answer(r, what)
  PROVE  RequestsTyped'
<1>1. pc' \in [Requests -> Statements]
  BY ExceptType DEF RequestsTyped, Answer, Goto, Statements
<1>2. ctx' \in [Requests -> Contexts]
  BY IdleType, ExceptType DEF RequestsTyped, Answer
<1>3. answered' \in [Requests -> BOOLEAN]
  BY ExceptType DEF RequestsTyped, Answer
<1>4. pc'[r] = "idle" /\ ctx'[r] = Idle
  BY DEF RequestsTyped, Answer, Goto
<1>5. Knows(r)'
  BY <1>4 DEF Knows, Idle, Request, Keyed, LockedEdit
<1>6. ASSUME NEW q \in Requests, q # r PROVE Knows(q)'
  <2>1. pc'[q] = pc[q] /\ ctx'[q] = ctx[q]
    BY <1>6 DEF RequestsTyped, Answer, Goto
  <2>2. Knows(q)
    BY DEF RequestsTyped
  <2> QED BY <2>1, <2>2 DEF Knows
<1> QED BY <1>1, <1>2, <1>3, <1>5, <1>6 DEF RequestsTyped

LEMMA MoveType ==
  ASSUME RequestsTyped, NEW r \in Requests, NEW where \in Statements, Goto(r, where),
         NEW c \in Contexts, ctx' = [ctx EXCEPT ![r] = c],
         answered' \in [Requests -> BOOLEAN],
         c.asset \in Assets,
         where \in Keyed => c.event \in {"renewed", "failed"} /\ c.key \in Keys,
         where \notin Keyed => c.key = NoKey,
         where \in LockedEdit => c.next # c.expected
  PROVE  RequestsTyped'
<1>1. pc' \in [Requests -> Statements]
  BY ExceptType DEF RequestsTyped, Goto
<1>2. ctx' \in [Requests -> Contexts]
  BY ExceptType DEF RequestsTyped
<1>3. pc'[r] = where /\ ctx'[r] = c
  BY DEF RequestsTyped, Goto
<1>4. Knows(r)'
  BY <1>3 DEF Knows
<1>5. ASSUME NEW q \in Requests, q # r PROVE Knows(q)'
  <2>1. pc'[q] = pc[q] /\ ctx'[q] = ctx[q]
    BY <1>5 DEF RequestsTyped, Goto
  <2>2. Knows(q)
    BY DEF RequestsTyped
  <2> QED BY <2>1, <2>2 DEF Knows
<1> QED BY <1>1, <1>2, <1>4, <1>5 DEF RequestsTyped

\* A renewal or failed attempt goes on, its context kept.
LEMMA GotoKeyed ==
  ASSUME RequestsTyped, NEW r \in Requests, NEW where \in Keyed, pc[r] \in Keyed,
         Goto(r, where), UNCHANGED <<ctx, answered>>
  PROVE  RequestsTyped'
<1>1. /\ ctx[r] \in Contexts /\ ctx' = [ctx EXCEPT ![r] = ctx[r]]
      /\ answered' \in [Requests -> BOOLEAN]
  BY DEF RequestsTyped
<1>2. Knows(r) /\ pc[r] # "idle"
  BY DEF RequestsTyped, Keyed
<1>3. where \in Statements /\ where \notin LockedEdit
  BY DEF Keyed, LockedEdit, Statements, InTransaction
<1> QED BY <1>1, <1>2, <1>3, MoveType DEF Knows

LEMMA UnlockType ==
  ASSUME LockTyped, NEW r, Unlock(r)
  PROVE  LockTyped'
  BY DEF LockTyped, Unlock

LEMMA TakeType ==
  ASSUME LockTyped, NEW r \in Requests, Take(r)
  PROVE  LockTyped'
  BY ExceptType DEF LockTyped, Take

LEMMA AppendType ==
  ASSUME HistoryTyped, NEW row \in HistoryRows, history' = Append(history, row)
  PROVE  HistoryTyped'
  BY DEF HistoryTyped

LEMMA UnchangedTypes ==
  /\ RowsTyped /\ UNCHANGED assetRows => RowsTyped'
  /\ HistoryTyped /\ UNCHANGED history => HistoryTyped'
  /\ RemindersTyped /\ UNCHANGED reminderRows => RemindersTyped'
  /\ LockTyped /\ UNCHANGED lock => LockTyped'
  /\ RequestsTyped /\ UNCHANGED requestState => RequestsTyped'
  BY DEF RowsTyped, HistoryTyped, RemindersTyped, LockTyped, RequestsTyped, Knows,
         assetRows, reminderRows, requestState
----------------------------------------------------------------------------
LEMMA InitTypeInv == Init => TypeInv
<1> SUFFICES ASSUME Init PROVE TypeInv
  OBVIOUS
<1> USE RenewalAssumption DEF Init
<1>1. RowsTyped
  BY DEF RowsTyped, ExpiryDates
<1>2. HistoryTyped
  BY DEF HistoryTyped
<1>3. RemindersTyped
  BY DEF RemindersTyped
<1>4. LockTyped
  BY DEF LockTyped
<1>5. RequestsTyped
  BY IdleType DEF RequestsTyped, Knows, Statements, Keyed, LockedEdit, Idle, Request
<1> QED BY <1>1, <1>2, <1>3, <1>4, <1>5 DEF TypeInv

LEMMA BeginKeepsTypes ==
  ASSUME TypeInv, NEW r \in Requests, Begin(r)
  PROVE  TypeInv'
<1>0. RowsTyped /\ HistoryTyped /\ RemindersTyped /\ LockTyped /\ RequestsTyped
  BY DEF TypeInv
<1>1. ASSUME NEW c \in Contexts, NEW where \in Statements, Start(r, c, where),
             c.asset \in Assets,
             where \in Keyed => c.event \in {"renewed", "failed"} /\ c.key \in Keys,
             where \notin Keyed => c.key = NoKey,
             where \in LockedEdit => c.next # c.expected
      PROVE  TypeInv'
  <2>1. answered' \in [Requests -> BOOLEAN]
    BY <1>0, <1>1, ExceptType DEF RequestsTyped, Start
  <2>2. Goto(r, where) /\ ctx' = [ctx EXCEPT ![r] = c]
        /\ UNCHANGED <<assetRows, history, reminderRows, lock>>
    BY <1>1 DEF Start
  <2>3. RequestsTyped'
    BY <1>0, <1>1, <2>1, <2>2, MoveType
  <2> QED BY <1>0, <2>2, <2>3, UnchangedTypes DEF TypeInv
<1>2. ASSUME NEW a \in Assets, NEW key \in Keys, NEW expected \in Dates \cup {NotSent},
             NEW m \in Reminders \cup {NoReminder}, NEW event \in {"renewed", "failed"},
             Start(r, Request(event, a, key, expected, NoExpiry, m), "lookup")
      PROVE  TypeInv'
  <2> DEFINE c == Request(event, a, key, expected, NoExpiry, m)
  <2>1. c \in Contexts /\ c.asset = a /\ c.event = event /\ c.key = key
    BY RenewalAssumption DEF Request, Contexts, ExpiryDates
  <2>2. "lookup" \in Statements /\ "lookup" \in Keyed /\ "lookup" \notin LockedEdit
    BY DEF Statements, Keyed, LockedEdit
  <2> HIDE DEF c
  <2> QED BY <1>1, <1>2, <2>1, <2>2 DEF c
<1>3. ASSUME NEW a \in Assets, NEW submitted \in Dates \cup {NoExpiry},
             NEW expected \in Expectations, BeginEdit(r, a, submitted, expected)
      PROVE  TypeInv'
  <2> DEFINE locked == expected # NotSent \/ submitted # expiry[a]
             baseline == IF expected # NotSent THEN expected ELSE expiry[a]
             c == Request("manual_change", a, NoKey, baseline, submitted, NoReminder)
             where == IF locked THEN "lockEdit" ELSE "overwrite"
  <2>1. Start(r, c, where) /\ submitted # expected
    BY <1>3 DEF BeginEdit
  <2>2. baseline \in ExpiryDates /\ submitted \in ExpiryDates
    BY <1>0, RenewalAssumption DEF RowsTyped, ExpiryDates
  <2>3. locked => submitted # baseline
    BY <2>1
  <2> HIDE DEF baseline, locked
  <2>4. /\ c \in Contexts /\ c.asset = a /\ c.key = NoKey
        /\ c.next = submitted /\ c.expected = baseline
    BY <2>2 DEF Request, Contexts
  <2>5. /\ where \in Statements /\ where \notin Keyed
        /\ where \in LockedEdit => locked
    BY DEF Statements, Keyed, LockedEdit
  <2> HIDE DEF c, where
  <2> QED BY <1>1, <2>1, <2>3, <2>4, <2>5
<1>4. CASE \E a \in Assets, key \in Keys, date \in Dates, m \in Reminders \cup {NoReminder} :
             BeginRenewal(r, a, key, date, m)
  BY <1>2, <1>4 DEF BeginRenewal
<1>5. CASE \E a \in Assets, key \in Keys, date \in Dates \cup {NotSent},
              m \in Reminders \cup {NoReminder} : BeginFailure(r, a, key, date, m)
  BY <1>2, <1>5 DEF BeginFailure
<1>6. CASE \E a \in Assets, submitted \in Dates \cup {NoExpiry}, expected \in Expectations :
             BeginEdit(r, a, submitted, expected)
  BY <1>3, <1>6
<1> QED BY <1>4, <1>5, <1>6 DEF Begin

LEMMA ReplayType ==
  ASSUME RequestsTyped, NEW r \in Requests, Replay(r)
  PROVE  RequestsTyped'
  BY AnswerType DEF Replay

\* A renewal or failed attempt goes on with another date or attempt.
LEMMA GotoWith ==
  ASSUME RequestsTyped, NEW r \in Requests, NEW where \in Keyed, pc[r] \in Keyed,
         Goto(r, where), UNCHANGED answered, NEW n \in ExpiryDates, NEW k \in 0..3,
         ctx' = [ctx EXCEPT ![r] = [ctx[r] EXCEPT !.next = n, !.attempt = k]]
  PROVE  RequestsTyped'
<1> DEFINE c == [ctx[r] EXCEPT !.next = n, !.attempt = k]
<1>1. /\ ctx[r] \in Contexts /\ answered' \in [Requests -> BOOLEAN]
  BY DEF RequestsTyped
<1>2. /\ c \in Contexts /\ c.asset = ctx[r].asset
      /\ c.event = ctx[r].event /\ c.key = ctx[r].key
  BY <1>1 DEF Contexts
<1>3. Knows(r) /\ pc[r] # "idle"
  BY DEF RequestsTyped, Keyed
<1>4. where \in Statements /\ where \notin LockedEdit
  BY DEF Keyed, LockedEdit, Statements, InTransaction
<1> HIDE DEF c
<1> QED BY <1>1, <1>2, <1>3, <1>4, MoveType DEF Knows, c

LEMMA RenewalKeepsTypes ==
  ASSUME TypeInv, NEW r \in Requests,
         Lookup(r) \/ LockAsset(r) \/ Check(r) \/ Insert(r) \/ ReadRecorded(r) \/ Deadlock(r)
  PROVE  TypeInv'
<1>0. RowsTyped /\ HistoryTyped /\ RemindersTyped /\ LockTyped /\ RequestsTyped
  BY DEF TypeInv
<1>a. ctx[r] \in Contexts
  BY <1>0 DEF RequestsTyped
<1>1. ASSUME UNCHANGED <<assetRows, history, reminderRows>>, RequestsTyped',
             UNCHANGED lock \/ Unlock(r) \/ Take(r)
      PROVE  TypeInv'
  BY <1>0, <1>1, UnlockType, TakeType, UnchangedTypes DEF TypeInv
<1>2. CASE Lookup(r)
  <2>1. CASE Recorded(ctx[r].key)
    BY <1>0, <1>1, <1>2, <2>1, ReplayType DEF Lookup
  <2>2. CASE ~Recorded(ctx[r].key)
    <3>1. ctx' = [ctx EXCEPT ![r] = [ctx[r] EXCEPT !.next = ctx[r].next, !.attempt = 1]]
      BY <1>0, <1>2, <1>a, <2>2 DEF Lookup, RequestsTyped, Contexts
    <3>2. ctx[r].next \in ExpiryDates /\ 1 \in 0..3
      BY <1>a DEF Contexts
    <3>3. /\ Goto(r, "lock") /\ UNCHANGED answered /\ pc[r] \in Keyed /\ "lock" \in Keyed
      BY <1>2, <2>2 DEF Lookup, Keyed
    <3>4. RequestsTyped'
      BY <1>0, <3>1, <3>2, <3>3, GotoWith
    <3> QED BY <1>1, <1>2, <3>4 DEF Lookup
  <2> QED BY <2>1, <2>2
<1>3. CASE LockAsset(r)
  <2>1. RequestsTyped'
    BY <1>0, <1>3, GotoKeyed, AnswerType DEF LockAsset, Keyed
  <2> QED BY <1>1, <1>3, <2>1 DEF LockAsset
<1>4. CASE Check(r)
  <2>1. CASE Recorded(ctx[r].key)
    BY <1>0, <1>1, <1>4, <2>1, ReplayType DEF Check
  <2>2. CASE Answer(r, "error") /\ Unlock(r)
    BY <1>0, <1>1, <1>4, <2>2, AnswerType DEF Check
  <2>3. ASSUME NEW months \in Periods, NEW confirmed \in BOOLEAN,
               NEW n, n = IF ctx[r].event = "failed" THEN NoExpiry
                          ELSE NewExpiry(r, months, confirmed),
               ExpectationMet(r), n # NotSent,
               Goto(r, "insert"), ctx' = [ctx EXCEPT ![r].next = n],
               UNCHANGED <<lock, answered>>
        PROVE  TypeInv'
    <3>1. n \in ExpiryDates
      <4>1. CASE ctx[r].event = "failed"
        BY <2>3, <4>1 DEF ExpiryDates
      <4>2. CASE ctx[r].event = "renewed"
        <5>1. ctx[r].asset \in Assets
          BY <1>0, <1>4 DEF RequestsTyped, Knows, Check
        <5>2. expiry[ctx[r].asset] \in Nat
          BY <1>0, <2>3, <4>2, <5>1 DEF RowsTyped, ExpectationMet, ExpiryDates
        <5>3. AddRenewalPeriod(expiry[ctx[r].asset], months) \in Nat
          BY <5>2, PeriodMovesForward, RenewalAssumption
        <5> QED BY <2>3, <4>2, <5>3 DEF NewExpiry, ExpiryDates
      <4> QED BY <1>0, <1>4, <4>1, <4>2 DEF RequestsTyped, Knows, Check, Keyed
    <3>2. ctx' = [ctx EXCEPT ![r] = [ctx[r] EXCEPT !.next = n, !.attempt = ctx[r].attempt]]
      BY <1>0, <1>a, <2>3 DEF RequestsTyped, Contexts
    <3>3. pc[r] \in Keyed /\ "insert" \in Keyed /\ ctx[r].attempt \in 0..3
      BY <1>4, <1>a DEF Check, Keyed, Contexts
    <3>4. Goto(r, "insert") /\ UNCHANGED answered
      BY <2>3
    <3>5. RequestsTyped'
      BY <1>0, <3>1, <3>2, <3>3, <3>4, GotoWith
    <3> QED BY <1>1, <1>4, <2>3, <3>5 DEF Check
  <2> QED BY <1>4, <2>1, <2>2, <2>3 DEF Check
<1>5. CASE Insert(r)
  <2>1. RequestsTyped'
    BY <1>0, <1>5, GotoKeyed, AnswerType DEF Insert, Keyed
  <2> QED BY <1>1, <1>5, <2>1 DEF Insert
<1>6. CASE ReadRecorded(r)
  BY <1>0, <1>1, <1>6, ReplayType DEF ReadRecorded
<1>7. CASE Deadlock(r)
  <2>1. CASE ctx[r].attempt < 3
    <3>1. ctx' = [ctx EXCEPT ![r] = [ctx[r] EXCEPT !.next = NoExpiry,
                                                   !.attempt = ctx[r].attempt + 1]]
      BY <1>0, <1>7, <1>a, <2>1 DEF Deadlock, RequestsTyped, Contexts
    <3>2. NoExpiry \in ExpiryDates /\ ctx[r].attempt + 1 \in 0..3
      BY <1>a, <2>1 DEF Contexts, ExpiryDates
    <3>3. Goto(r, "lock") /\ UNCHANGED answered /\ pc[r] \in Keyed /\ "lock" \in Keyed
      BY <1>7, <2>1 DEF Deadlock, Keyed
    <3>4. RequestsTyped'
      BY <1>0, <3>1, <3>2, <3>3, GotoWith
    <3> QED BY <1>1, <1>7, <3>4 DEF Deadlock
  <2>2. CASE ~(ctx[r].attempt < 3)
    BY <1>0, <1>1, <1>7, <2>2, AnswerType DEF Deadlock
  <2> QED BY <2>1, <2>2
<1> QED BY <1>2, <1>3, <1>4, <1>5, <1>6, <1>7

LEMMA WritingKeepsTypes ==
  ASSUME TypeInv, NEW r \in Requests,
         Commit(r) \/ LockEdit(r) \/ CommitEdit(r) \/ Overwrite(r) \/ Abort(r)
  PROVE  TypeInv'
<1>0. RowsTyped /\ HistoryTyped /\ RemindersTyped /\ LockTyped /\ RequestsTyped
  BY DEF TypeInv
<1>a. ctx[r] \in Contexts /\ Knows(r) /\ pc[r] # "idle"
  BY <1>0 DEF RequestsTyped, Commit, LockEdit, CommitEdit, Overwrite, Abort
<1>b. ctx[r].asset \in Assets /\ expiry[ctx[r].asset] \in ExpiryDates
  BY <1>0, <1>a DEF Knows, RowsTyped
<1>1. ASSUME Commit(r) \/ CommitEdit(r) \/ Overwrite(r) \/ Abort(r) PROVE RequestsTyped'
  <2>1. \E what \in {"result", "error", "nothing"} : Answer(r, what)
    BY <1>1 DEF Commit, CommitEdit, Overwrite, Abort
  <2> QED BY <1>0, <2>1, AnswerType
<1>2. ASSUME UNCHANGED exists,
             UNCHANGED expiry \/ expiry' = [expiry EXCEPT ![ctx[r].asset] = ctx[r].next]
      PROVE  RowsTyped'
  BY <1>0, <1>a, <1>2 DEF RowsTyped, Contexts
<1>3. CASE Commit(r)
  <2>1. Row(ctx[r].event, ctx[r].asset, expiry[ctx[r].asset], ctx[r].next, ctx[r].key)
          \in HistoryRows
    BY <1>3, <1>a, <1>b DEF Commit, Knows, Keyed, Contexts, Row, HistoryRows
  <2>2. HistoryTyped'
    BY <1>0, <1>3, <2>1, AppendType DEF Commit
  <2>3. RowsTyped'
    BY <1>2, <1>3 DEF Commit
  <2>4. RemindersTyped'
    BY <1>0, <1>3, ExceptType DEF Commit, RemindersTyped
  <2>5. LockTyped'
    BY <1>0, <1>3, UnlockType DEF Commit
  <2> QED BY <1>1, <1>3, <2>2, <2>3, <2>4, <2>5 DEF TypeInv
<1>4. CASE LockEdit(r)
  <2>1. CASE Goto(r, "writeEdit") /\ Take(r) /\ UNCHANGED <<ctx, answered>>
    <3>1. ctx' = [ctx EXCEPT ![r] = ctx[r]] /\ answered' \in [Requests -> BOOLEAN]
      BY <1>0, <2>1 DEF RequestsTyped
    <3>2. "writeEdit" \in Statements /\ "writeEdit" \notin Keyed
      BY DEF Statements, InTransaction, Keyed
    <3>3. ctx[r].key = NoKey /\ ctx[r].next # ctx[r].expected
      BY <1>4, <1>a DEF LockEdit, Knows, Keyed, LockedEdit
    <3>4. RequestsTyped'
      BY <1>0, <1>a, <1>b, <2>1, <3>1, <3>2, <3>3, MoveType
    <3> QED BY <1>0, <1>4, <2>1, <3>4, TakeType, UnchangedTypes DEF LockEdit, TypeInv
  <2>2. CASE Answer(r, "error") /\ UNCHANGED lock
    BY <1>0, <1>4, <2>2, AnswerType, UnchangedTypes DEF LockEdit, TypeInv
  <2> QED BY <1>4, <2>1, <2>2 DEF LockEdit
<1>5. CASE CommitEdit(r)
  <2>1. Row("manual_change", ctx[r].asset, expiry[ctx[r].asset], ctx[r].next, NoKey)
          \in HistoryRows
    BY <1>a, <1>b DEF Contexts, Row, HistoryRows
  <2>2. HistoryTyped'
    BY <1>0, <1>5, <2>1, AppendType DEF CommitEdit
  <2>3. RowsTyped'
    BY <1>2, <1>5 DEF CommitEdit
  <2>4. LockTyped' /\ RemindersTyped'
    BY <1>0, <1>5, UnlockType, UnchangedTypes DEF CommitEdit
  <2> QED BY <1>1, <1>5, <2>2, <2>3, <2>4 DEF TypeInv
<1>6. CASE Overwrite(r)
  <2>1. RowsTyped'
    BY <1>2, <1>6 DEF Overwrite
  <2>2. HistoryTyped' /\ RemindersTyped' /\ LockTyped'
    BY <1>0, <1>6, UnchangedTypes DEF Overwrite
  <2> QED BY <1>1, <1>6, <2>1, <2>2 DEF TypeInv
<1>7. CASE Abort(r)
  BY <1>0, <1>1, <1>7, UnlockType, UnchangedTypes DEF Abort, TypeInv
<1> QED BY <1>3, <1>4, <1>5, <1>6, <1>7

LEMMA NextTypeInv == TypeInv /\ [Next]_vars => TypeInv'
<1> SUFFICES ASSUME TypeInv, [Next]_vars PROVE TypeInv'
  OBVIOUS
<1>0. RowsTyped /\ HistoryTyped /\ RemindersTyped /\ LockTyped /\ RequestsTyped
  BY DEF TypeInv
<1>1. ASSUME NEW a \in Assets, DeleteAsset(a) PROVE TypeInv'
  <2>1. RowsTyped'
    BY <1>0, <1>1, ExceptType DEF DeleteAsset, RowsTyped, ExpiryDates
  <2>2. RemindersTyped'
    BY <1>0, <1>1 DEF DeleteAsset, RemindersTyped
  <2>3. UNCHANGED <<history, lock, requestState>>
    BY <1>1 DEF DeleteAsset
  <2> QED BY <1>0, <2>1, <2>2, <2>3, UnchangedTypes DEF TypeInv
<1>2. ASSUME NEW m \in Reminders, UpdateReminder(m) PROVE TypeInv'
  <2>1. RemindersTyped'
    BY <1>0, <1>2, ExceptType DEF UpdateReminder, RemindersTyped
  <2>2. UNCHANGED <<assetRows, history, lock, requestState>>
    BY <1>2 DEF UpdateReminder
  <2> QED BY <1>0, <2>1, <2>2, UnchangedTypes DEF TypeInv
<1>3. CASE UNCHANGED vars
  BY <1>0, <1>3, UnchangedTypes DEF vars, TypeInv
<1> QED BY <1>1, <1>2, <1>3, BeginKeepsTypes, RenewalKeepsTypes, WritingKeepsTypes DEF Next, Step

LEMMA TypeInvIsType == TypeInv => TypeOK
  BY DEF TypeInv, TypeOK, RowsTyped, HistoryTyped, RemindersTyped, LockTyped, RequestsTyped

(* Domains, servers, reminders, history and requests of                       *)
(* asset-renewals.service.ts stay well-typed: in particular no renewal is     *)
(* tried more than three times, and every computed date is a date.            *)
THEOREM TypeCorrect == Spec => []TypeOK
<1>1. Spec => []TypeInv
  BY InitTypeInv, NextTypeInv, PTL DEF Spec
<1> QED BY <1>1, TypeInvIsType, PTL
----------------------------------------------------------------------------
(* The row locks. A step of r changes r's own place and context only, and     *)
(* takes or frees the lock as it enters or leaves its transaction.            *)
OthersKept(r) == \A q \in Requests : q # r => pc'[q] = pc[q] /\ ctx'[q] = ctx[q]

LEMMA GotoKeepsOthers ==
  ASSUME RequestsTyped, NEW r \in Requests, NEW where, Goto(r, where),
         \/ UNCHANGED ctx
         \/ \E c : ctx' = [ctx EXCEPT ![r] = c]
  PROVE  OthersKept(r) /\ pc'[r] = where
  BY DEF RequestsTyped, Goto, OthersKept

LEMMA AnswerPlaces ==
  ASSUME RequestsTyped, NEW r \in Requests, NEW what, Answer(r, what)
  PROVE  OthersKept(r) /\ pc'[r] = "idle" /\ ctx'[r] = Idle
  BY DEF RequestsTyped, Answer, Goto, OthersKept

LEMMA UnlockedStays ==
  ASSUME TypeInv, LockDiscipline, NEW r \in Requests, OthersKept(r), UNCHANGED lock,
         pc'[r] \in InTransaction <=> pc[r] \in InTransaction,
         pc'[r] \in InTransaction => ctx'[r].asset = ctx[r].asset
  PROVE  LockDiscipline'
  BY DEF LockDiscipline, OthersKept

LEMMA UnlockFrees ==
  ASSUME TypeInv, LockDiscipline, NEW r \in Requests, OthersKept(r), Unlock(r),
         pc'[r] \notin InTransaction
  PROVE  LockDiscipline'
<1>1. ASSUME NEW q \in Requests, NEW a \in Assets
      PROVE  lock'[a] = q <=> pc'[q] \in InTransaction /\ ctx'[q].asset = a
  <2>1. lock'[a] = IF lock[a] = r THEN NoRequest ELSE lock[a]
    BY DEF Unlock
  <2>2. q # NoRequest
    BY RenewalAssumption
  <2>3. lock[a] = q <=> pc[q] \in InTransaction /\ ctx[q].asset = a
    BY DEF LockDiscipline
  <2> QED BY <2>1, <2>2, <2>3 DEF OthersKept
<1> QED BY <1>1 DEF LockDiscipline

LEMMA TakeLocks ==
  ASSUME TypeInv, LockDiscipline, NEW r \in Requests, OthersKept(r), Take(r),
         ctx[r].asset \in Assets, lock[ctx[r].asset] = NoRequest,
         pc[r] \notin InTransaction, pc'[r] \in InTransaction, ctx'[r].asset = ctx[r].asset
  PROVE  LockDiscipline'
<1>1. ASSUME NEW q \in Requests, NEW a \in Assets
      PROVE  lock'[a] = q <=> pc'[q] \in InTransaction /\ ctx'[q].asset = a
  <2>1. lock'[a] = IF a = ctx[r].asset THEN r ELSE lock[a]
    BY DEF Take, TypeInv, LockTyped
  <2>2. q # NoRequest
    BY RenewalAssumption
  <2>3. lock[a] = q <=> pc[q] \in InTransaction /\ ctx[q].asset = a
    BY DEF LockDiscipline
  <2> QED BY <2>1, <2>2, <2>3 DEF OthersKept
<1> QED BY <1>1 DEF LockDiscipline

LEMMA StepKeepsLocks ==
  ASSUME TypeInv, LockDiscipline, NEW r \in Requests, Begin(r) \/ Step(r) \/ Abort(r)
  PROVE  LockDiscipline' /\ OthersKept(r)
<1>0. RequestsTyped /\ Knows(r)
  BY DEF TypeInv, RequestsTyped
<1> USE DEF InTransaction
<1>1. ASSUME NEW what, Answer(r, what), Unlock(r) PROVE LockDiscipline' /\ OthersKept(r)
  BY <1>0, <1>1, AnswerPlaces, UnlockFrees
<1>2. ASSUME NEW what, Answer(r, what), UNCHANGED lock, pc[r] \notin InTransaction
      PROVE  LockDiscipline' /\ OthersKept(r)
  BY <1>0, <1>2, AnswerPlaces, UnlockedStays
<1>3. CASE Begin(r)
  <2>1. /\ pc[r] = "idle" /\ UNCHANGED lock
        /\ \E c : ctx' = [ctx EXCEPT ![r] = c]
        /\ \E where \in {"lookup", "lockEdit", "overwrite"} : Goto(r, where)
    BY <1>3 DEF Begin, BeginRenewal, BeginFailure, BeginEdit, Start
  <2> QED BY <1>0, <2>1, GotoKeepsOthers, UnlockedStays
<1>4. CASE Lookup(r)
  <2>1. CASE Recorded(ctx[r].key)
    BY <1>2, <1>4, <2>1 DEF Lookup, Replay
  <2>2. CASE ~Recorded(ctx[r].key)
    <3>1. pc[r] = "lookup" /\ pc'[r] = "lock" /\ UNCHANGED lock
      BY <1>0, <1>4, <2>2 DEF Lookup, Goto, RequestsTyped
    <3>2. OthersKept(r)
      BY <1>0, <1>4, <2>2 DEF Lookup, Goto, RequestsTyped, OthersKept
    <3> QED BY <3>1, <3>2, UnlockedStays
  <2> QED BY <2>1, <2>2
<1>5. CASE LockAsset(r) \/ LockEdit(r)
  <2>1. pc[r] \notin InTransaction /\ pc[r] # "idle"
    BY <1>5 DEF LockAsset, LockEdit
  <2>2. CASE Answer(r, "error") /\ UNCHANGED lock
    BY <1>2, <2>1, <2>2
  <2>3. ASSUME NEW where \in {"check", "writeEdit"}, Goto(r, where), Take(r), UNCHANGED ctx
        PROVE  LockDiscipline' /\ OthersKept(r)
    <3>1. lock[ctx[r].asset] = NoRequest /\ ctx[r].asset \in Assets
      BY <1>0, <1>5, <2>1 DEF LockAsset, LockEdit, Knows
    <3>2. OthersKept(r) /\ pc'[r] \in InTransaction
      BY <1>0, <2>3, GotoKeepsOthers
    <3>3. ctx'[r].asset = ctx[r].asset
      BY <2>3
    <3> QED BY <2>1, <2>3, <3>1, <3>2, <3>3, TakeLocks
  <2> QED BY <1>5, <2>2, <2>3 DEF LockAsset, LockEdit
<1>6. CASE Check(r)
  <2>1. CASE Goto(r, "insert") /\ UNCHANGED lock /\ \E n : ctx' = [ctx EXCEPT ![r].next = n]
    <3>1. OthersKept(r) /\ pc'[r] = "insert"
      BY <1>0, <2>1, GotoKeepsOthers
    <3>2. ctx'[r].asset = ctx[r].asset
      BY <1>0, <2>1 DEF RequestsTyped, Contexts
    <3> QED BY <1>6, <2>1, <3>1, <3>2, UnlockedStays DEF Check
  <2> QED BY <1>1, <1>6, <2>1 DEF Check, Replay
<1>7. CASE Insert(r)
  <2>1. CASE Goto(r, "replay") /\ Unlock(r) /\ UNCHANGED ctx
    BY <1>0, <2>1, GotoKeepsOthers, UnlockFrees
  <2>2. CASE Goto(r, "write") /\ UNCHANGED <<lock, ctx>>
    BY <1>0, <1>7, <2>2, GotoKeepsOthers, UnlockedStays DEF Insert
  <2>3. CASE Answer(r, "error") /\ Unlock(r)
    BY <1>1, <2>3
  <2> QED BY <1>7, <2>1, <2>2, <2>3 DEF Insert
<1>8. CASE ReadRecorded(r) \/ Overwrite(r)
  BY <1>2, <1>8 DEF ReadRecorded, Replay, Overwrite
<1>9. CASE Commit(r) \/ CommitEdit(r) \/ Abort(r)
  BY <1>1, <1>9 DEF Commit, CommitEdit, Abort
<1>10. CASE Deadlock(r)
  <2>1. CASE ctx[r].attempt < 3
    <3>1. OthersKept(r) /\ pc'[r] = "lock" /\ Unlock(r)
      BY <1>0, <1>10, <2>1 DEF Deadlock, Goto, RequestsTyped, OthersKept
    <3> QED BY <3>1, UnlockFrees
  <2> QED BY <1>1, <1>10, <2>1 DEF Deadlock
<1> QED BY <1>3, <1>4, <1>5, <1>6, <1>7, <1>8, <1>9, <1>10 DEF Step

LEMMA NextLock == TypeInv /\ LockDiscipline /\ [Next]_vars => LockDiscipline'
<1> SUFFICES ASSUME TypeInv, LockDiscipline, [Next]_vars PROVE LockDiscipline'
  OBVIOUS
<1>1. CASE UNCHANGED <<lock, requestState>>
  BY <1>1 DEF LockDiscipline, requestState
<1> QED BY <1>1, StepKeepsLocks DEF Next, DeleteAsset, UpdateReminder, vars

LEMMA InitLock == Init => LockDiscipline
  BY RenewalAssumption DEF Init, LockDiscipline, InTransaction

(* Renewals and edits of one asset are serialised: exactly the requests inside*)
(* a transaction hold the lock, that of their own asset (lockAsset,           *)
(* lockUnchangedExpiry).                                                      *)
THEOREM LockCorrect == Spec => []LockDiscipline
<1>1. Spec => [](TypeInv /\ LockDiscipline)
  BY InitTypeInv, NextTypeInv, InitLock, NextLock, PTL DEF Spec
<1> QED BY <1>1, PTL
----------------------------------------------------------------------------
(* What a transaction may rely on until it commits. None of this is inductive *)
(* alone: the asset must exist and the reminder stay linked as well.          *)
HoldsAsset(r) == pc[r] \in InTransaction => exists[ctx[r].asset]

Fits(r) ==
  LET c == ctx[r]
  IN  /\ pc[r] \in {"insert", "write"} /\ c.event = "renewed" =>
           expiry[c.asset] = c.expected /\ c.next > c.expected
      /\ pc[r] = "writeEdit" => expiry[c.asset] = c.expected
      /\ pc[r] \in {"insert", "write"} /\ c.reminder # NoReminder =>
           link[c.reminder] = c.asset
      /\ pc[r] = "write" /\ c.event = "renewed" => ~Renewed(c.asset, c.expected)

FreshKey(r) ==
  pc[r] = "write" =>
    /\ ~Recorded(ctx[r].key)
    /\ \A s \in Requests \ {r} : pc[s] = "write" => ctx[s].key # ctx[r].key

RequestsFit == \A r \in Requests : HoldsAsset(r) /\ Fits(r) /\ FreshKey(r)

FitInv == TypeInv /\ LockDiscipline /\ RequestsFit

LEMMA FitInvImplies == FitInv => AcceptedWritesStillFit
<1> SUFFICES ASSUME FitInv, NEW r \in Requests
             PROVE  LET c == ctx[r]
                    IN  /\ pc[r] \in {"insert", "write"} /\ c.event = "renewed" =>
                             exists[c.asset] /\ expiry[c.asset] = c.expected /\ c.next > c.expected
                        /\ pc[r] = "writeEdit" =>
                             exists[c.asset] /\ expiry[c.asset] = c.expected /\ c.next # c.expected
                        /\ pc[r] = "write" =>
                             /\ ~Recorded(c.key)
                             /\ c.event = "renewed" => ~Renewed(c.asset, c.expected)
                             /\ \A s \in Requests \ {r} : pc[s] = "write" => ctx[s].key # c.key
  BY DEF AcceptedWritesStillFit
<1>1. HoldsAsset(r) /\ Fits(r) /\ FreshKey(r) /\ Knows(r)
  BY DEF FitInv, RequestsFit, TypeInv, RequestsTyped
<1> QED BY <1>1 DEF HoldsAsset, Fits, FreshKey, Knows, InTransaction, LockedEdit

\* How the history grows.
LEMMA RowsGrow ==
  ASSUME HistoryTyped, NEW row, history' = Append(history, row)
  PROVE  Rows' = Rows \cup {row}
  BY DEF HistoryTyped, Rows

LEMMA HistoryStep ==
  ASSUME TypeInv, NEW r \in Requests, Begin(r) \/ Step(r) \/ Abort(r)
  PROVE  \/ Rows' = Rows
         \/ \E row : /\ Rows' = Rows \cup {row} /\ row.asset = ctx[r].asset
                     /\ pc[r] \in {"write", "writeEdit"} /\ pc'[r] = "idle"
                     /\ row.key = IF pc[r] = "write" THEN ctx[r].key ELSE NoKey
<1>0. HistoryTyped /\ RequestsTyped
  BY DEF TypeInv
<1>1. CASE Commit(r)
  <2> DEFINE row == Row(ctx[r].event, ctx[r].asset, expiry[ctx[r].asset], ctx[r].next, ctx[r].key)
  <2>1. Rows' = Rows \cup {row} /\ pc[r] = "write" /\ pc'[r] = "idle"
    BY <1>0, <1>1, RowsGrow, AnswerPlaces DEF Commit
  <2>2. row.asset = ctx[r].asset /\ row.key = ctx[r].key
    BY DEF Row
  <2> QED BY <2>1, <2>2
<1>2. CASE CommitEdit(r)
  <2> DEFINE row == Row("manual_change", ctx[r].asset, expiry[ctx[r].asset], ctx[r].next, NoKey)
  <2>1. Rows' = Rows \cup {row} /\ pc[r] = "writeEdit" /\ pc'[r] = "idle"
    BY <1>0, <1>2, RowsGrow, AnswerPlaces DEF CommitEdit
  <2>2. row.asset = ctx[r].asset /\ row.key = NoKey
    BY DEF Row
  <2> QED BY <2>1, <2>2
<1>3. CASE ~Commit(r) /\ ~CommitEdit(r)
  <2>1. UNCHANGED history
    BY <1>3 DEF Begin, BeginRenewal, BeginFailure, BeginEdit, Start, Step, Abort, Lookup,
         LockAsset, Check, Insert, ReadRecorded, Deadlock, LockEdit, Overwrite
  <2> QED BY <2>1 DEF Rows
<1> QED BY <1>1, <1>2, <1>3

(* An asset whose row is locked is out of the other requests' reach.          *)
LeavesAlone(a) ==
  /\ exists'[a] = exists[a] /\ expiry'[a] = expiry[a]
  /\ \A m \in Reminders : link[m] = a => link'[m] = a
  /\ \A date : Renewed(a, date)' => Renewed(a, date)

LEMMA LockedIsLeftAlone ==
  ASSUME TypeInv, LockDiscipline, NEW r \in Requests, Begin(r) \/ Step(r) \/ Abort(r),
         NEW a \in Assets, lock[a] # NoRequest, lock[a] # r
  PROVE  LeavesAlone(a)
<1>0. RowsTyped /\ Knows(r)
  BY DEF TypeInv, RequestsTyped
<1>1. pc[r] \in InTransaction => ctx[r].asset # a
  BY DEF LockDiscipline
<1>2. \A date : Renewed(a, date)' => Renewed(a, date)
  <2>1. \/ Rows' = Rows
        \/ \E row : Rows' = Rows \cup {row} /\ row.asset = ctx[r].asset
                    /\ pc[r] \in {"write", "writeEdit"}
    BY HistoryStep
  <2>2. ASSUME NEW row, Rows' = Rows \cup {row}, row.asset # a
        PROVE  \A date : Renewed(a, date)' => Renewed(a, date)
    BY <2>2 DEF Renewed
  <2>3. CASE Rows' = Rows
    BY <2>3 DEF Renewed
  <2> QED BY <1>1, <2>1, <2>2, <2>3 DEF InTransaction
<1>3. exists' = exists /\ link' = link
  BY DEF Begin, BeginRenewal, BeginFailure, BeginEdit, Start, Step, Abort, Lookup, LockAsset,
         Check, Insert, ReadRecorded, Commit, Deadlock, LockEdit, CommitEdit, Overwrite,
         assetRows, reminderRows
<1>4. expiry'[a] = expiry[a]
  <2>1. CASE Commit(r) \/ CommitEdit(r)
    BY <1>0, <1>1, <2>1 DEF Commit, CommitEdit, RowsTyped, InTransaction
  <2>2. CASE Overwrite(r)
    BY <1>0, <2>2 DEF Overwrite, RowsTyped
  <2>3. CASE ~Commit(r) /\ ~CommitEdit(r) /\ ~Overwrite(r)
    <3>1. UNCHANGED expiry
      BY <2>3 DEF Begin, BeginRenewal, BeginFailure, BeginEdit, Start, Step, Abort, Lookup,
           LockAsset, Check, Insert, ReadRecorded, Deadlock, LockEdit, assetRows
    <3> QED BY <3>1
  <2> QED BY <2>1, <2>2, <2>3
<1> QED BY <1>2, <1>3, <1>4 DEF LeavesAlone

(* Only the insert takes a request to its write, and no step stays there.     *)
LEMMA WriteOnlyByInsert ==
  ASSUME TypeInv, NEW r \in Requests, Begin(r) \/ Step(r) \/ Abort(r), ~Insert(r)
  PROVE  pc'[r] # "write"
<1>0. RequestsTyped
  BY DEF TypeInv
<1>1. ASSUME NEW what, Answer(r, what) PROVE pc'[r] # "write"
  BY <1>0, <1>1, AnswerPlaces
<1>2. ASSUME NEW where, Goto(r, where), where # "write" PROVE pc'[r] # "write"
  BY <1>0, <1>2 DEF RequestsTyped, Goto
<1>3. CASE Begin(r)
  <2>1. \E where \in {"lookup", "lockEdit", "overwrite"} : Goto(r, where)
    BY <1>3 DEF Begin, BeginRenewal, BeginFailure, BeginEdit, Start
  <2> QED BY <1>2, <2>1
<1>4. CASE Lookup(r) \/ Check(r) \/ ReadRecorded(r)
  BY <1>1, <1>2, <1>4 DEF Lookup, Check, ReadRecorded, Replay
<1>5. CASE LockAsset(r) \/ LockEdit(r) \/ Deadlock(r)
  BY <1>1, <1>2, <1>5 DEF LockAsset, LockEdit, Deadlock
<1>6. CASE Commit(r) \/ CommitEdit(r) \/ Overwrite(r) \/ Abort(r)
  BY <1>1, <1>6 DEF Commit, CommitEdit, Overwrite, Abort
<1> QED BY <1>3, <1>4, <1>5, <1>6 DEF Step

LEMMA OthersFit ==
  ASSUME FitInv, NEW r \in Requests, Begin(r) \/ Step(r) \/ Abort(r),
         NEW q \in Requests, q # r
  PROVE  HoldsAsset(q)' /\ Fits(q)' /\ FreshKey(q)'
<1>1. /\ TypeInv /\ LockDiscipline
      /\ HoldsAsset(q) /\ Fits(q) /\ FreshKey(q) /\ FreshKey(r) /\ Knows(q)
  BY DEF FitInv, RequestsFit, TypeInv, RequestsTyped
<1>2. pc'[q] = pc[q] /\ ctx'[q] = ctx[q] /\ OthersKept(r)
  BY <1>1, StepKeepsLocks DEF OthersKept
<1>3. CASE pc[q] \notin InTransaction
  BY <1>2, <1>3 DEF HoldsAsset, Fits, FreshKey, InTransaction
<1>4. CASE pc[q] \in InTransaction
  <2> DEFINE a == ctx[q].asset
  <2>1. a \in Assets /\ lock[a] = q /\ q # NoRequest
    BY <1>1, <1>4, RenewalAssumption DEF Knows, LockDiscipline, InTransaction
  <2>2. LeavesAlone(a)
    BY <1>1, <2>1, LockedIsLeftAlone
  <2>3. HoldsAsset(q)'
    BY <1>1, <1>2, <2>2 DEF HoldsAsset, LeavesAlone
  <2>4. ctx[q].reminder \in Reminders \cup {NoReminder}
    BY <1>1 DEF TypeInv, RequestsTyped, Contexts
  <2>5. Fits(q)'
    BY <1>1, <1>2, <2>2, <2>4 DEF Fits, LeavesAlone
  <2>6. FreshKey(q)'
    <3> SUFFICES ASSUME pc[q] = "write" PROVE FreshKey(q)'
      BY <1>2 DEF FreshKey
    <3>1. ctx[q].key \in Keys /\ ~Recorded(ctx[q].key)
      BY <1>1 DEF Knows, Keyed, FreshKey
    <3>2. ~Recorded(ctx[q].key)'
      <4>1. \/ Rows' = Rows
            \/ \E row : /\ Rows' = Rows \cup {row}
                        /\ row.key = IF pc[r] = "write" THEN ctx[r].key ELSE NoKey
        BY <1>1, HistoryStep
      <4>2. pc[r] = "write" => ctx[r].key # ctx[q].key
        BY <1>1 DEF FreshKey
      <4>3. ctx[q].key # NoKey
        BY <3>1, RenewalAssumption
      <4> QED BY <1>2, <3>1, <4>1, <4>2, <4>3 DEF Recorded
    <3>3. pc'[r] = "write" => ctx'[r].key # ctx[q].key
      <4>1. CASE Insert(r)
        BY <1>1, <4>1, AnswerPlaces DEF Insert, Goto, TypeInv, RequestsTyped
      <4>2. CASE ~Insert(r)
        BY <1>1, <4>2, WriteOnlyByInsert
      <4> QED BY <4>1, <4>2
    <3> QED BY <1>1, <1>2, <3>2, <3>3 DEF FreshKey, OthersKept
  <2> QED BY <2>3, <2>5, <2>6
<1> QED BY <1>3, <1>4

LEMMA ActorFits ==
  ASSUME FitInv, NEW r \in Requests, Begin(r) \/ Step(r) \/ Abort(r)
  PROVE  HoldsAsset(r)' /\ Fits(r)' /\ FreshKey(r)'
<1>1. /\ RequestsTyped /\ RowsTyped
      /\ HoldsAsset(r) /\ Fits(r) /\ Knows(r)
  BY DEF FitInv, RequestsFit, TypeInv, RequestsTyped
<1>2. ASSUME pc'[r] \notin InTransaction PROVE HoldsAsset(r)' /\ Fits(r)' /\ FreshKey(r)'
  BY <1>2 DEF HoldsAsset, Fits, FreshKey, InTransaction
<1>3. ASSUME NEW what, Answer(r, what) PROVE HoldsAsset(r)' /\ Fits(r)' /\ FreshKey(r)'
  BY <1>1, <1>2, <1>3, AnswerPlaces DEF InTransaction
<1>4. ASSUME NEW where, Goto(r, where), where \notin InTransaction
      PROVE  HoldsAsset(r)' /\ Fits(r)' /\ FreshKey(r)'
  BY <1>1, <1>2, <1>4 DEF Goto, RequestsTyped
<1>5. CASE Begin(r)
  <2>1. \E where \in {"lookup", "lockEdit", "overwrite"} : Goto(r, where)
    BY <1>5 DEF Begin, BeginRenewal, BeginFailure, BeginEdit, Start
  <2> QED BY <1>4, <2>1 DEF InTransaction
<1>6. CASE Lookup(r) \/ ReadRecorded(r) \/ Deadlock(r)
  BY <1>3, <1>4, <1>6 DEF Lookup, ReadRecorded, Replay, Deadlock, InTransaction
<1>7. CASE Commit(r) \/ CommitEdit(r) \/ Overwrite(r) \/ Abort(r)
  BY <1>3, <1>7 DEF Commit, CommitEdit, Overwrite, Abort
<1>8. CASE LockAsset(r)
  <2>1. CASE exists[ctx[r].asset]
    <3>1. pc'[r] = "check" /\ ctx' = ctx /\ exists' = exists
      BY <1>1, <1>8, <2>1 DEF LockAsset, Goto, RequestsTyped, assetRows
    <3> QED BY <2>1, <3>1 DEF HoldsAsset, Fits, FreshKey
  <2> QED BY <1>3, <1>8, <2>1 DEF LockAsset
<1>9. CASE LockEdit(r)
  <2>1. CASE exists[ctx[r].asset] /\ expiry[ctx[r].asset] = ctx[r].expected
    <3>1. pc'[r] = "writeEdit" /\ ctx' = ctx /\ exists' = exists /\ expiry' = expiry
      BY <1>1, <1>9, <2>1 DEF LockEdit, Goto, RequestsTyped, assetRows
    <3> QED BY <2>1, <3>1 DEF HoldsAsset, Fits, FreshKey
  <2> QED BY <1>3, <1>9, <2>1 DEF LockEdit
<1>10. CASE Check(r)
  <2>1. ASSUME NEW months \in Periods, NEW confirmed \in BOOLEAN,
               NEW n, n = IF ctx[r].event = "failed" THEN NoExpiry
                          ELSE NewExpiry(r, months, confirmed),
               ExpectationMet(r), ReminderFits(r), n # NotSent,
               Goto(r, "insert"), ctx' = [ctx EXCEPT ![r].next = n]
        PROVE  HoldsAsset(r)' /\ Fits(r)' /\ FreshKey(r)'
    <3> DEFINE a == ctx[r].asset
    <3>1. /\ pc'[r] = "insert" /\ exists' = exists /\ expiry' = expiry /\ link' = link
          /\ pc[r] = "check"
      BY <1>1, <1>10, <2>1 DEF Check, Goto, RequestsTyped, assetRows, reminderRows
    <3>2. /\ ctx'[r].asset = a /\ ctx'[r].event = ctx[r].event /\ ctx'[r].next = n
          /\ ctx'[r].expected = ctx[r].expected /\ ctx'[r].reminder = ctx[r].reminder
      BY <1>1, <2>1 DEF RequestsTyped, Contexts
    <3>3. exists[a]
      BY <1>1, <3>1 DEF HoldsAsset, InTransaction
    <3>4. a \in Assets
      BY <1>1, <3>1 DEF Knows
    <3>5. ASSUME ctx[r].event = "renewed"
          PROVE  expiry[a] = ctx[r].expected /\ n > ctx[r].expected
      <4>1. expiry[a] = ctx[r].expected /\ expiry[a] \in Nat
        BY <1>1, <2>1, <3>4, <3>5 DEF ExpectationMet, RowsTyped, ExpiryDates
      <4>2. n = AddRenewalPeriod(expiry[a], months)
        BY <2>1, <3>5 DEF NewExpiry
      <4>3. n > expiry[a]
        BY <4>1, <4>2, PeriodMovesForward, RenewalAssumption
      <4> QED BY <4>1, <4>3
    <3>6. ctx[r].reminder # NoReminder => link[ctx[r].reminder] = a
      BY <2>1 DEF ReminderFits
    <3>7. HoldsAsset(r)'
      BY <3>1, <3>2, <3>3 DEF HoldsAsset
    <3>8. Fits(r)'
      BY <3>1, <3>2, <3>5, <3>6 DEF Fits
    <3> QED BY <3>1, <3>7, <3>8 DEF FreshKey
  <2> QED BY <1>3, <1>10, <2>1 DEF Check, Replay
<1>11. CASE Insert(r)
  <2>1. CASE Goto(r, "replay")
    BY <1>4, <2>1 DEF InTransaction
  <2>2. ASSUME ~Recorded(ctx[r].key), Goto(r, "write"), UNCHANGED ctx,
               ~(ctx[r].event = "renewed" /\ Renewed(ctx[r].asset, expiry[ctx[r].asset]))
        PROVE  HoldsAsset(r)' /\ Fits(r)' /\ FreshKey(r)'
    <3>1. /\ pc[r] = "insert" /\ pc'[r] = "write"
          /\ exists' = exists /\ expiry' = expiry /\ link' = link /\ history' = history
          /\ \A s \in Requests : s # r => pc'[s] = pc[s]
          /\ \A s \in Requests : pc[s] = "write" => ctx[s].key # ctx[r].key
      BY <1>1, <1>11, <2>2 DEF Insert, Goto, RequestsTyped, assetRows, reminderRows
    <3>2. HoldsAsset(r)'
      BY <1>1, <2>2, <3>1 DEF HoldsAsset, InTransaction
    <3>3. Rows' = Rows
      BY <3>1 DEF Rows
    <3>4. Fits(r)'
      BY <1>1, <2>2, <3>1, <3>3 DEF Fits, Renewed
    <3>5. FreshKey(r)'
      BY <2>2, <3>1, <3>3 DEF FreshKey, Recorded
    <3> QED BY <3>2, <3>4, <3>5
  <2> QED BY <1>3, <1>11, <2>1, <2>2 DEF Insert
<1> QED BY <1>5, <1>6, <1>7, <1>8, <1>9, <1>10, <1>11 DEF Step

LEMMA NextFit == FitInv /\ [Next]_vars => FitInv'
<1> SUFFICES ASSUME FitInv, [Next]_vars PROVE FitInv'
  OBVIOUS
<1>0. TypeInv' /\ LockDiscipline'
  BY NextTypeInv, NextLock DEF FitInv
<1>1. ASSUME NEW r \in Requests, Begin(r) \/ Step(r) \/ Abort(r) PROVE RequestsFit'
  BY <1>1, OthersFit, ActorFits DEF RequestsFit
<1>2. ASSUME NEW a \in Assets, DeleteAsset(a) PROVE RequestsFit'
  <2> SUFFICES ASSUME NEW q \in Requests PROVE HoldsAsset(q)' /\ Fits(q)' /\ FreshKey(q)'
    BY DEF RequestsFit
  <2>1. HoldsAsset(q) /\ Fits(q) /\ FreshKey(q) /\ Knows(q) /\ RowsTyped /\ RemindersTyped
    BY DEF FitInv, RequestsFit, TypeInv, RequestsTyped
  <2>2. ctx[q].reminder \in Reminders \cup {NoReminder}
    BY DEF FitInv, TypeInv, RequestsTyped, Contexts
  <2>3. pc[q] \in InTransaction => ctx[q].asset # a /\ ctx[q].asset \in Assets
    BY <1>2, <2>1, RenewalAssumption DEF FitInv, LockDiscipline, DeleteAsset, Knows, InTransaction
  <2>4. UNCHANGED <<history, pc, ctx>> /\ Rows' = Rows
    BY <1>2 DEF DeleteAsset, requestState, Rows
  <2>5. \A b \in Assets : b # a => exists'[b] = exists[b] /\ expiry'[b] = expiry[b]
    BY <1>2, <2>1 DEF DeleteAsset, RowsTyped
  <2>6. \A m \in Reminders : link[m] # a => link'[m] = link[m]
    BY <1>2, <2>1 DEF DeleteAsset, RemindersTyped
  <2>7. HoldsAsset(q)'
    BY <2>1, <2>3, <2>4, <2>5 DEF HoldsAsset
  <2>8. Fits(q)'
    BY <2>1, <2>2, <2>3, <2>4, <2>5, <2>6 DEF Fits, Renewed, InTransaction
  <2>9. FreshKey(q)'
    BY <2>1, <2>4 DEF FreshKey, Recorded
  <2> QED BY <2>7, <2>8, <2>9
<1>3. ASSUME UNCHANGED <<assetRows, history, link, requestState>> PROVE RequestsFit'
  BY <1>3 DEF FitInv, RequestsFit, HoldsAsset, Fits, FreshKey, Recorded, Renewed, Rows,
       assetRows, requestState
<1>4. RequestsFit'
  BY <1>1, <1>2, <1>3 DEF Next, UpdateReminder, vars, reminderRows
<1> QED BY <1>0, <1>4 DEF FitInv

LEMMA InitFit == Init => FitInv
<1> SUFFICES ASSUME Init PROVE FitInv
  OBVIOUS
<1>1. RequestsFit
  BY DEF Init, RequestsFit, HoldsAsset, Fits, FreshKey, InTransaction
<1> QED BY <1>1, InitTypeInv, InitLock DEF FitInv

LEMMA FitCorrect == Spec => []FitInv
  BY InitFit, NextFit, PTL DEF Spec

(* What renew and expiryWrite checked under the row lock still holds when it  *)
(* is written: the date, the key and the cycle, whatever other requests did.  *)
THEOREM AcceptedStillFits == Spec => []AcceptedWritesStillFit
  BY FitCorrect, FitInvImplies, PTL
----------------------------------------------------------------------------
(* The box of the property, in two parts: what a step does to the reminders.  *)
ReminderStep ==
  \A m \in Reminders :
    open[m] /\ ~open'[m] /\ history' # history =>
    LET row == history'[Len(history')]
    IN  row.event = "renewed" /\ row.asset = link[m]

LEMMA LastRow ==
  ASSUME HistoryTyped, NEW row, history' = Append(history, row)
  PROVE  /\ Len(history') = Len(history) + 1
         /\ history'[Len(history')] = row
         /\ \A n \in 1..Len(history) : history'[n] = history[n]
  BY DEF HistoryTyped

LEMMA CommitClosesItsReminder ==
  ASSUME FitInv, NEW r \in Requests, Commit(r)
  PROVE  ReminderStep
<1> SUFFICES ASSUME NEW m \in Reminders, open[m], ~open'[m]
             PROVE  LET row == history'[Len(history')]
                    IN  row.event = "renewed" /\ row.asset = link[m]
  BY DEF ReminderStep
<1> DEFINE row == Row(ctx[r].event, ctx[r].asset, expiry[ctx[r].asset], ctx[r].next, ctx[r].key)
<1>1. HistoryTyped /\ RemindersTyped /\ Fits(r)
  BY DEF FitInv, TypeInv, RequestsFit
<1>2. ctx[r].event = "renewed" /\ ctx[r].reminder # NoReminder /\ m = ctx[r].reminder
  BY <1>1 DEF Commit, RemindersTyped
<1>3. link[m] = ctx[r].asset
  BY <1>1, <1>2 DEF Fits, Commit
<1>4. history'[Len(history')] = row
  BY <1>1, LastRow DEF Commit
<1>5. row.event = ctx[r].event /\ row.asset = ctx[r].asset
  BY DEF Row
<1> HIDE DEF row
<1> QED BY <1>2, <1>3, <1>4, <1>5

LEMMA NextReminder == FitInv /\ [Next]_vars => ReminderStep
<1> SUFFICES ASSUME FitInv, [Next]_vars PROVE ReminderStep
  OBVIOUS
<1>1. ASSUME UNCHANGED open \/ UNCHANGED history PROVE ReminderStep
  BY <1>1 DEF ReminderStep
<1>2. ASSUME NEW r \in Requests, Begin(r) \/ Step(r) \/ Abort(r) PROVE ReminderStep
  <2>1. CASE ~Commit(r)
    <3>1. UNCHANGED open
      BY <1>2, <2>1 DEF Begin, BeginRenewal, BeginFailure, BeginEdit, Start, Step, Abort, Lookup,
         LockAsset, Check, Insert, ReadRecorded, Deadlock, LockEdit, CommitEdit, Overwrite,
         reminderRows
    <3> QED BY <1>1, <3>1
  <2> QED BY <2>1, CommitClosesItsReminder
<1> QED BY <1>1, <1>2 DEF Next, DeleteAsset, UpdateReminder, vars

(* A transaction completes a reminder only with a renewal of the asset the    *)
(* reminder is linked to at that very moment (assertRenewalReminder, renew),  *)
(* although its owner and the deletion of assets change reminders meanwhile.  *)
THEOREM RemindersCloseWithRenewals == Spec => ReminderClosesWithItsRenewal
<1>1. FitInv /\ [Next]_vars => [ReminderStep]_vars
  BY NextReminder
<1>2. Spec => [][ReminderStep]_vars
  BY <1>1, FitCorrect, PTL DEF Spec
<1> QED BY <1>2 DEF ReminderClosesWithItsRenewal, ReminderStep
----------------------------------------------------------------------------
(* Idempotency keys. One row per key makes a replay unambiguous.              *)
KeysUnique ==
  \A m, n \in 1..Len(history) :
    history[m].key = history[n].key /\ history[m].key # NoKey => m = n

LEMMA AppendUnique ==
  ASSUME HistoryTyped, KeysUnique, NEW row, history' = Append(history, row),
         row.key = NoKey \/ ~Recorded(row.key)
  PROVE  KeysUnique'
<1>1. /\ Len(history') = Len(history) + 1 /\ Len(history) \in Nat
      /\ history'[Len(history) + 1] = row
      /\ \A n \in 1..Len(history) : history'[n] = history[n]
  BY LastRow DEF HistoryTyped
<1>2. row.key # NoKey => \A n \in 1..Len(history) : history[n].key # row.key
  BY DEF Recorded, Rows
<1> SUFFICES ASSUME NEW m \in 1..Len(history'), NEW n \in 1..Len(history'),
                    history'[m].key = history'[n].key, history'[m].key # NoKey
             PROVE  m = n
  BY DEF KeysUnique
<1>3. CASE m \in 1..Len(history) /\ n \in 1..Len(history)
  BY <1>1, <1>3 DEF KeysUnique
<1>4. CASE m = Len(history) + 1 \/ n = Len(history) + 1
  BY <1>1, <1>2, <1>4
<1> QED BY <1>1, <1>3, <1>4

LEMMA NextUnique == FitInv /\ KeysUnique /\ [Next]_vars => KeysUnique'
<1> SUFFICES ASSUME FitInv, KeysUnique, [Next]_vars PROVE KeysUnique'
  OBVIOUS
<1>0. HistoryTyped
  BY DEF FitInv, TypeInv
<1>1. ASSUME UNCHANGED history PROVE KeysUnique'
  BY <1>1 DEF KeysUnique
<1>2. ASSUME NEW r \in Requests, Begin(r) \/ Step(r) \/ Abort(r) PROVE KeysUnique'
  <2>1. CASE Commit(r)
    <3>1. ~Recorded(ctx[r].key)
      BY <2>1 DEF Commit, FitInv, RequestsFit, FreshKey
    <3> DEFINE row == Row(ctx[r].event, ctx[r].asset, expiry[ctx[r].asset], ctx[r].next, ctx[r].key)
    <3>2. history' = Append(history, row) /\ row.key = ctx[r].key
      BY <2>1 DEF Commit, Row
    <3> HIDE DEF row
    <3> QED BY <1>0, <3>1, <3>2, AppendUnique
  <2>2. CASE CommitEdit(r)
    <3> DEFINE row == Row("manual_change", ctx[r].asset, expiry[ctx[r].asset], ctx[r].next, NoKey)
    <3>1. history' = Append(history, row) /\ row.key = NoKey
      BY <2>2 DEF CommitEdit, Row
    <3> HIDE DEF row
    <3> QED BY <1>0, <3>1, AppendUnique
  <2>3. CASE ~Commit(r) /\ ~CommitEdit(r)
    <3>1. UNCHANGED history
      BY <1>2, <2>3 DEF Begin, BeginRenewal, BeginFailure, BeginEdit, Start, Step, Abort, Lookup,
         LockAsset, Check, Insert, ReadRecorded, Deadlock, LockEdit, Overwrite
    <3> QED BY <1>1, <3>1
  <2> QED BY <2>1, <2>2, <2>3
<1> QED BY <1>1, <1>2 DEF Next, DeleteAsset, UpdateReminder, vars

LEMMA InitUnique == Init => KeysUnique
  BY DEF Init, KeysUnique

KeyInv == FitInv /\ KeysUnique

LEMMA KeyCorrect == Spec => []KeyInv
<1>1. Init => KeyInv
  BY InitFit, InitUnique DEF KeyInv
<1>2. KeyInv /\ [Next]_vars => KeyInv'
  BY NextFit, NextUnique DEF KeyInv
<1> QED BY <1>1, <1>2, PTL DEF Spec

(* The one row of its key answers a request: it is of its asset and event.    *)
OwnRow(key, asset, event) ==
  LET mine == {n \in 1..Len(history') : history'[n].key = key}
  IN  /\ Cardinality(mine) = 1
      /\ \A n \in mine : history'[n].asset = asset /\ history'[n].event = event

LEMMA FoundRowIsOwn ==
  ASSUME KeysUnique', NEW n \in 1..Len(history'), history'[n].key # NoKey
  PROVE  OwnRow(history'[n].key, history'[n].asset, history'[n].event)
<1> DEFINE mine == {k \in 1..Len(history') : history'[k].key = history'[n].key}
<1>1. mine = {n}
  BY DEF KeysUnique
<1>2. Cardinality(mine) = 1
  BY <1>1, FS_Singleton
<1> QED BY <1>1, <1>2 DEF OwnRow

RetryStep ==
  \A r \in Requests :
    pc[r] # "idle" /\ pc'[r] = "idle" /\ answered'[r] /\ ctx[r].key # NoKey =>
      OwnRow(ctx[r].key, ctx[r].asset, ctx[r].event)

LEMMA AnswerValue ==
  ASSUME RequestsTyped, NEW r \in Requests, NEW what, Answer(r, what), answered'[r]
  PROVE  what = "result"
  BY DEF RequestsTyped, Answer

LEMMA ReplayIsOwn ==
  ASSUME KeyInv, KeysUnique', NEW r \in Requests, Replay(r), UNCHANGED history, answered'[r],
         ctx[r].key # NoKey
  PROVE  OwnRow(ctx[r].key, ctx[r].asset, ctx[r].event)
<1>1. PICK n \in 1..Len(history) :
        /\ history[n].key = ctx[r].key /\ history[n].asset = ctx[r].asset
        /\ history[n].event = ctx[r].event
  BY AnswerValue DEF Replay, RecordedFor, Rows, KeyInv, FitInv, TypeInv
<1>2. n \in 1..Len(history') /\ history'[n] = history[n]
  OBVIOUS
<1> QED BY <1>1, <1>2, FoundRowIsOwn

LEMMA CommitIsOwn ==
  ASSUME KeyInv, KeysUnique', NEW r \in Requests, Commit(r), ctx[r].key # NoKey
  PROVE  OwnRow(ctx[r].key, ctx[r].asset, ctx[r].event)
<1> DEFINE row == Row(ctx[r].event, ctx[r].asset, expiry[ctx[r].asset], ctx[r].next, ctx[r].key)
<1>1. HistoryTyped /\ history' = Append(history, row)
  BY DEF KeyInv, FitInv, TypeInv, Commit
<1>2. row.key = ctx[r].key /\ row.asset = ctx[r].asset /\ row.event = ctx[r].event
  BY DEF Row
<1> HIDE DEF row
<1>3. Len(history') \in 1..Len(history') /\ history'[Len(history')] = row
  BY <1>1, LastRow DEF HistoryTyped
<1> QED BY <1>2, <1>3, FoundRowIsOwn

LEMMA NextRetry == KeyInv /\ KeyInv' /\ [Next]_vars => RetryStep
<1> SUFFICES ASSUME KeyInv, KeyInv', [Next]_vars, NEW q \in Requests,
                    pc[q] # "idle", pc'[q] = "idle", answered'[q], ctx[q].key # NoKey
             PROVE  OwnRow(ctx[q].key, ctx[q].asset, ctx[q].event)
  BY DEF RetryStep
<1>0. KeysUnique' /\ RequestsTyped /\ Knows(q)
  BY DEF KeyInv, FitInv, TypeInv, RequestsTyped
<1>1. pc[q] \in Keyed
  BY <1>0 DEF Knows
<1>2. Begin(q) \/ Step(q) \/ Abort(q)
  <2>1. PICK r \in Requests : Begin(r) \/ Step(r) \/ Abort(r)
    BY DEF Next, DeleteAsset, UpdateReminder, vars, requestState
  <2>2. OthersKept(r)
    BY <2>1, StepKeepsLocks DEF KeyInv, FitInv
  <2>3. q = r
    BY <2>2 DEF OthersKept
  <2> QED BY <2>1, <2>3
<1>3. ASSUME NEW where, Goto(q, where), where # "idle" PROVE FALSE
  BY <1>0, <1>3 DEF Goto, RequestsTyped
<1>4. ASSUME NEW what, Answer(q, what), what # "result" PROVE FALSE
  BY <1>0, <1>4, AnswerValue
<1>5. CASE Begin(q)
  BY <1>5 DEF Begin, BeginRenewal, BeginFailure, BeginEdit, Start
<1>6. CASE Lookup(q) \/ Check(q) \/ ReadRecorded(q)
  <2>1. Replay(q) /\ UNCHANGED history
    BY <1>3, <1>4, <1>6 DEF Lookup, Check, ReadRecorded
  <2> QED BY <1>0, <2>1, ReplayIsOwn
<1>7. CASE LockAsset(q) \/ Insert(q) \/ Deadlock(q)
  BY <1>3, <1>4, <1>7 DEF LockAsset, Insert, Deadlock
<1>8. CASE Commit(q)
  BY <1>0, <1>8, CommitIsOwn
<1>9. CASE LockEdit(q) \/ CommitEdit(q) \/ Overwrite(q)
  BY <1>1, <1>9 DEF LockEdit, CommitEdit, Overwrite, Keyed
<1>10. CASE Abort(q)
  BY <1>4, <1>10 DEF Abort
<1> QED BY <1>2, <1>5, <1>6, <1>7, <1>8, <1>9, <1>10 DEF Step

(* A retry is harmless: whoever is answered with a result, first or again,    *)
(* before, under or after the lock, finds exactly one row of its key, of its  *)
(* own asset and event (replay, runTransaction).                              *)
THEOREM RetriesAreHarmless == Spec => RetryIsHarmless
<1> DEFINE mine(r) == {n \in 1..Len(history') : history'[n].key = ctx[r].key}
<1>1. KeyInv /\ KeyInv' /\ [Next]_vars =>
        [\A r \in Requests :
           pc[r] # "idle" /\ pc'[r] = "idle" /\ answered'[r] /\ ctx[r].key # NoKey =>
             /\ Cardinality(mine(r)) = 1
             /\ \A n \in mine(r) : /\ history'[n].asset = ctx[r].asset
                                   /\ history'[n].event = ctx[r].event]_vars
  BY NextRetry DEF RetryStep, OwnRow
<1> QED BY <1>1, KeyCorrect, PTL DEF Spec, RetryIsHarmless
----------------------------------------------------------------------------
(* The chain of dates. Where every edit states the date it loaded, a date     *)
(* moves only with its row of history.                                        *)
NotOverwriting == \A r \in Requests : pc[r] = "overwrite" => NotSent \in Expectations

LEMMA NextNotOverwriting == TypeInv /\ NotOverwriting /\ [Next]_vars => NotOverwriting'
<1> SUFFICES ASSUME TypeInv, NotOverwriting, [Next]_vars, NEW q \in Requests, pc'[q] = "overwrite",
                    pc[q] # "overwrite"
             PROVE  NotSent \in Expectations
  BY DEF NotOverwriting
<1>0. RequestsTyped
  BY DEF TypeInv
<1>1. PICK r \in Requests : Begin(r) \/ Step(r) \/ Abort(r)
  BY DEF Next, DeleteAsset, UpdateReminder, vars, requestState
<1>2. ASSUME NEW where, Goto(r, where), where # "overwrite" PROVE FALSE
  BY <1>0, <1>2 DEF Goto, RequestsTyped
<1>3. ASSUME NEW what, Answer(r, what) PROVE FALSE
  BY <1>2, <1>3 DEF Answer
<1>4. CASE Begin(r)
  BY <1>2, <1>4 DEF Begin, BeginRenewal, BeginFailure, BeginEdit, Start
<1>5. CASE Lookup(r) \/ LockAsset(r) \/ Check(r) \/ Insert(r) \/ ReadRecorded(r) \/ Deadlock(r)
  BY <1>2, <1>3, <1>5 DEF Lookup, LockAsset, Check, Insert, ReadRecorded, Deadlock, Replay
<1>6. CASE Commit(r) \/ LockEdit(r) \/ CommitEdit(r) \/ Overwrite(r) \/ Abort(r)
  BY <1>2, <1>3, <1>6 DEF Commit, LockEdit, CommitEdit, Overwrite, Abort
<1> QED BY <1>1, <1>4, <1>5, <1>6 DEF Step

\* A row is appended that finds the expiry date and leaves another one.
Recording(r, row) ==
  /\ history' = Append(history, row)
  /\ row.asset = ctx[r].asset /\ ctx[r].asset \in Assets /\ exists[ctx[r].asset]
  /\ row.prev = expiry[row.asset]
  /\ UNCHANGED exists
  /\ expiry' = IF row.event = "failed" THEN expiry ELSE [expiry EXCEPT ![row.asset] = row.next]

(* What a step does to an account of dates.                                   *)
LEMMA BookStep ==
  ASSUME FitInv, NotOverwriting, [Next]_vars
  PROVE  \/ UNCHANGED <<exists, expiry, history>>
         \/ \E r \in Requests :
              \/ Commit(r) /\ \E row : /\ Recording(r, row) /\ row.event = ctx[r].event
                                       /\ row.key = ctx[r].key /\ row.next = ctx[r].next
              \/ CommitEdit(r) /\ \E row : /\ Recording(r, row) /\ row.event = "manual_change"
                                           /\ row.next = ctx[r].next
              \/ Overwrite(r) /\ NotSent \in Expectations /\ exists[ctx[r].asset]
         \/ \E a \in Assets : DeleteAsset(a)
<1>1. ASSUME NEW r \in Requests, Begin(r) \/ Step(r) \/ Abort(r), ~Commit(r), ~CommitEdit(r),
             ~Overwrite(r)
      PROVE  UNCHANGED <<exists, expiry, history>>
  BY <1>1 DEF Begin, BeginRenewal, BeginFailure, BeginEdit, Start, Step, Abort, Lookup,
     LockAsset, Check, Insert, ReadRecorded, Deadlock, LockEdit, assetRows
<1>2. ASSUME NEW r \in Requests, Commit(r)
      PROVE  \E row : /\ Recording(r, row) /\ row.event = ctx[r].event
                      /\ row.key = ctx[r].key /\ row.next = ctx[r].next
  <2> DEFINE row == Row(ctx[r].event, ctx[r].asset, expiry[ctx[r].asset], ctx[r].next, ctx[r].key)
  <2>1. HoldsAsset(r) /\ Knows(r) /\ pc[r] = "write"
    BY <1>2 DEF FitInv, RequestsFit, TypeInv, RequestsTyped, Commit
  <2>2. /\ row.event = ctx[r].event /\ row.asset = ctx[r].asset /\ row.key = ctx[r].key
        /\ row.prev = expiry[ctx[r].asset] /\ row.next = ctx[r].next
    BY DEF Row
  <2>3. ctx[r].asset \in Assets /\ exists[ctx[r].asset] /\ ctx[r].event \in {"renewed", "failed"}
    BY <2>1 DEF HoldsAsset, Knows, InTransaction, Keyed
  <2>4. /\ history' = Append(history, row) /\ UNCHANGED exists
        /\ expiry' = IF ctx[r].event = "renewed" THEN [expiry EXCEPT ![ctx[r].asset] = ctx[r].next]
                                                 ELSE expiry
    BY <1>2 DEF Commit
  <2> HIDE DEF row
  <2>5. Recording(r, row)
    BY <2>2, <2>3, <2>4 DEF Recording
  <2> QED BY <2>2, <2>5
<1>3. ASSUME NEW r \in Requests, CommitEdit(r)
      PROVE  \E row : Recording(r, row) /\ row.event = "manual_change" /\ row.next = ctx[r].next
  <2> DEFINE row == Row("manual_change", ctx[r].asset, expiry[ctx[r].asset], ctx[r].next, NoKey)
  <2>1. HoldsAsset(r) /\ Knows(r) /\ pc[r] = "writeEdit"
    BY <1>3 DEF FitInv, RequestsFit, TypeInv, RequestsTyped, CommitEdit
  <2>2. /\ row.event = "manual_change" /\ row.asset = ctx[r].asset
        /\ row.prev = expiry[ctx[r].asset] /\ row.next = ctx[r].next
    BY DEF Row
  <2>3. ctx[r].asset \in Assets /\ exists[ctx[r].asset]
    BY <2>1 DEF HoldsAsset, Knows, InTransaction
  <2>4. /\ history' = Append(history, row) /\ UNCHANGED exists
        /\ expiry' = [expiry EXCEPT ![ctx[r].asset] = ctx[r].next]
    BY <1>3 DEF CommitEdit
  <2> HIDE DEF row
  <2>5. Recording(r, row)
    BY <2>2, <2>3, <2>4 DEF Recording
  <2> QED BY <2>2, <2>5
<1>4. ASSUME NEW r \in Requests, Overwrite(r)
      PROVE  NotSent \in Expectations /\ (UNCHANGED <<exists, expiry, history>> \/ exists[ctx[r].asset])
  BY <1>4 DEF Overwrite, NotOverwriting
<1> QED BY <1>1, <1>2, <1>3, <1>4 DEF Next, UpdateReminder, vars, assetRows

LEMMA RecordingExtendsChain ==
  ASSUME TypeInv, HistoryExplainsExpiry, NEW r \in Requests, NEW row, Recording(r, row)
  PROVE  HistoryExplainsExpiry'
<1>0. RowsTyped /\ HistoryTyped
  BY DEF TypeInv
<1>1. /\ Len(history') = Len(history) + 1 /\ Len(history) \in Nat
      /\ history'[Len(history) + 1] = row
      /\ \A n \in 1..Len(history) : history'[n] = history[n]
  BY <1>0, LastRow DEF Recording, HistoryTyped
<1> SUFFICES ASSUME NEW a \in Assets, NEW n \in Moves(a)'
             PROVE  \/ Later(a, n)' = {} /\ (exists'[a] => history'[n].next = expiry'[a])
                    \/ \E m \in Later(a, n)' : /\ history'[m].prev = history'[n].next
                                              /\ \A k \in Later(a, n)' : m <= k
  BY DEF HistoryExplainsExpiry
<1>2. CASE row.asset # a \/ row.event = "failed"
  <2>1. Moves(a)' = Moves(a)
    BY <1>1, <1>2 DEF Moves
  <2>2. Later(a, n)' = Later(a, n) /\ Later(a, n) \subseteq Moves(a)
    BY <2>1 DEF Later
  <2>3. \A k \in Moves(a) : history'[k] = history[k]
    BY <1>1 DEF Moves
  <2>4. exists'[a] = exists[a] /\ expiry'[a] = expiry[a]
    BY <1>0, <1>2 DEF Recording, RowsTyped
  <2>5. \/ Later(a, n) = {} /\ (exists[a] => history[n].next = expiry[a])
        \/ \E m \in Later(a, n) : /\ history[m].prev = history[n].next
                                  /\ \A k \in Later(a, n) : m <= k
    BY <2>1 DEF HistoryExplainsExpiry
  <2> QED BY <2>1, <2>2, <2>3, <2>4, <2>5
<1>3. CASE row.asset = a /\ row.event # "failed"
  <2> DEFINE last == Len(history) + 1
  <2>1. Moves(a)' = Moves(a) \cup {last} /\ Moves(a) \subseteq 1..Len(history)
    BY <1>1, <1>3 DEF Moves
  <2>2. expiry'[a] = row.next /\ exists[a] /\ row.prev = expiry[a]
    BY <1>0, <1>3 DEF Recording, RowsTyped
  <2>3. CASE n = last
    <3>1. Later(a, n)' = {}
      BY <1>1, <2>1, <2>3 DEF Later
    <3> QED BY <1>1, <2>2, <2>3, <3>1
  <2>4. CASE n # last
    <3>1. /\ n \in Moves(a) /\ n \in 1..Len(history)
          /\ Later(a, n)' = Later(a, n) \cup {last}
      BY <1>1, <2>1, <2>4 DEF Later
    <3>2. history'[n] = history[n] /\ Later(a, n) \subseteq 1..Len(history)
      BY <1>1, <2>1, <3>1 DEF Later
    <3>3. CASE Later(a, n) = {}
      <4>1. history[n].next = expiry[a]
        BY <2>2, <3>1, <3>3 DEF HistoryExplainsExpiry
      <4> QED BY <1>1, <2>2, <3>1, <3>2, <3>3, <4>1
    <3>4. CASE Later(a, n) # {}
      <4>1. PICK m \in Later(a, n) : history[m].prev = history[n].next
                                     /\ \A k \in Later(a, n) : m <= k
        BY <3>1, <3>4 DEF HistoryExplainsExpiry
      <4>2. m \in 1..Len(history) /\ history'[m] = history[m] /\ m <= last
        BY <1>1, <3>2
      <4> QED BY <3>1, <3>2, <4>1, <4>2
    <3> QED BY <3>3, <3>4
  <2> QED BY <2>3, <2>4
<1> QED BY <1>2, <1>3

BookInv == FitInv /\ NotOverwriting

LEMMA BookCorrect == Spec => []BookInv
<1>1. Init => NotOverwriting
  BY DEF Init, NotOverwriting
<1>2. FitInv => TypeInv
  BY DEF FitInv
<1>3. BookInv /\ [Next]_vars => BookInv'
  BY <1>2, NextFit, NextNotOverwriting DEF BookInv
<1> QED BY <1>1, <1>3, InitFit, PTL DEF Spec, BookInv

LEMMA NextExplained ==
  ASSUME NotSent \notin Expectations, BookInv, HistoryExplainsExpiry, [Next]_vars
  PROVE  HistoryExplainsExpiry'
<1>0. FitInv /\ NotOverwriting /\ TypeInv /\ RowsTyped
  BY DEF BookInv, FitInv, TypeInv
<1>1. CASE UNCHANGED <<exists, expiry, history>>
  BY <1>1 DEF HistoryExplainsExpiry, Moves, Later
<1>2. ASSUME NEW r \in Requests, NEW row, Recording(r, row) PROVE HistoryExplainsExpiry'
  BY <1>0, <1>2, RecordingExtendsChain
<1>3. ASSUME NEW a \in Assets, DeleteAsset(a) PROVE HistoryExplainsExpiry'
  <2>1. \A b \in Assets : /\ Moves(b)' = Moves(b) /\ \A n : Later(b, n)' = Later(b, n)
                          /\ exists'[b] => exists[b] /\ expiry'[b] = expiry[b]
    BY <1>0, <1>3 DEF DeleteAsset, Moves, Later, RowsTyped
  <2>2. UNCHANGED history
    BY <1>3 DEF DeleteAsset
  <2> QED BY <2>1, <2>2 DEF HistoryExplainsExpiry
<1> QED BY <1>0, <1>1, <1>2, <1>3, BookStep

(* Where every edit states the date it loaded, the history of an asset is a   *)
(* chain of dates that ends in its expiry date (renew, expiryWrite), for any  *)
(* number of requests and rows.                                               *)
THEOREM HistoryIsComplete ==
  ASSUME NotSent \notin Expectations
  PROVE  Spec => []HistoryExplainsExpiry
<1>1. Init => HistoryExplainsExpiry
  BY DEF Init, HistoryExplainsExpiry, Moves
<1>2. BookInv /\ HistoryExplainsExpiry /\ [Next]_vars => HistoryExplainsExpiry'
  BY NextExplained
<1> QED BY <1>1, <1>2, BookCorrect, PTL DEF Spec
----------------------------------------------------------------------------
(* The book: a commit is its only step, with the row that says why.           *)
LEMMA RecordingIsWritten ==
  ASSUME TypeInv, NEW r \in Requests, NEW row, Recording(r, row)
  PROVE  /\ Len(history') = Len(history) + 1 /\ Book!NewRow = row
         /\ Book!Written(row.asset, Book!NewRow) /\ row.asset \in Assets
<1>1. HistoryTyped
  BY DEF TypeInv
<1>2. Len(history') = Len(history) + 1 /\ history'[Len(history')] = row
  BY <1>1, LastRow DEF Recording
<1> QED BY <1>2 DEF Recording, Book!NewRow, Book!Written

LEMMA NewKeyInBook ==
  ASSUME NEW row, row.key \in Keys, ~Recorded(row.key)
  PROVE  Book!KeyIsNew(row)
  BY DEF Recorded, Rows, Book!KeyIsNew

LEMMA NextKeepsBook ==
  ASSUME BookInv, [Next]_vars
  PROVE  [Book!Next]_(Book!book)
<1> USE DEF Book!Next
<1>0. FitInv /\ NotOverwriting /\ TypeInv /\ RowsTyped /\ HistoryTyped
  BY DEF BookInv, FitInv, TypeInv
<1>1. CASE UNCHANGED <<exists, expiry, history>>
  BY <1>1 DEF Book!book
<1>2. ASSUME NEW r \in Requests, Commit(r), NEW row, Recording(r, row), row.event = ctx[r].event,
             row.key = ctx[r].key, row.next = ctx[r].next
      PROVE  Book!Next
  <2>1. HoldsAsset(r) /\ Fits(r) /\ FreshKey(r) /\ Knows(r) /\ pc[r] = "write"
    BY <1>0, <1>2 DEF FitInv, RequestsFit, TypeInv, RequestsTyped, Commit
  <2>2. row.event \in {"renewed", "failed"} /\ row.key \in Keys /\ ~Recorded(row.key)
    BY <1>2, <2>1 DEF Knows, FreshKey, Keyed
  <2>3. /\ Len(history') = Len(history) + 1 /\ Book!NewRow = row
        /\ Book!Written(row.asset, Book!NewRow) /\ row.asset \in Assets
        /\ Book!KeyIsNew(row)
    BY <1>0, <1>2, <2>2, RecordingIsWritten, NewKeyInBook
  <2>4. CASE row.event = "failed"
    <3>1. Book!Attempt(row.asset)
      BY <1>2, <2>3, <2>4 DEF Book!Attempt, Recording
    <3> QED BY <2>3, <3>1
  <2>5. CASE row.event = "renewed"
    <3>1. /\ row.asset = ctx[r].asset /\ row.prev = ctx[r].expected /\ row.next > row.prev
          /\ ~Renewed(row.asset, row.prev)
      BY <1>2, <2>1, <2>5 DEF Recording, Fits
    <3>2. ~Book!UsedBefore(row)
      BY <3>1 DEF Renewed, Rows, Book!UsedBefore
    <3>3. expiry' = [expiry EXCEPT ![row.asset] = row.next]
      BY <1>2, <2>5 DEF Recording
    <3>4. Book!Renew(row.asset)
      BY <2>3, <2>5, <3>1, <3>2, <3>3 DEF Book!Renew
    <3> QED BY <2>3, <3>4
  <2> QED BY <2>2, <2>4, <2>5
<1>3. ASSUME NEW r \in Requests, CommitEdit(r), NEW row, Recording(r, row),
             row.event = "manual_change", row.next = ctx[r].next
      PROVE  Book!Next
  <2>1. Fits(r) /\ Knows(r) /\ pc[r] = "writeEdit"
    BY <1>0, <1>3 DEF FitInv, RequestsFit, TypeInv, RequestsTyped, CommitEdit
  <2>2. row.next # row.prev /\ expiry' = [expiry EXCEPT ![row.asset] = row.next]
    BY <1>3, <2>1 DEF Fits, Knows, LockedEdit, Recording
  <2>3. /\ Len(history') = Len(history) + 1 /\ Book!NewRow = row
        /\ Book!Written(row.asset, Book!NewRow) /\ row.asset \in Assets
    BY <1>0, <1>3, RecordingIsWritten
  <2>4. Book!Edit(row.asset)
    BY <1>3, <2>2, <2>3 DEF Book!Edit
  <2> QED BY <2>3, <2>4
<1>4. ASSUME NEW r \in Requests, Overwrite(r), NotSent \in Expectations, exists[ctx[r].asset]
      PROVE  Book!Next
  <2>1. PICK a \in Assets : a = ctx[r].asset
    BY <1>0, <1>4 DEF TypeInv, RequestsTyped, Knows, Overwrite
  <2>2. expiry' = [expiry EXCEPT ![a] = expiry'[a]] /\ UNCHANGED <<exists, history>>
    BY <1>0, <1>4, <2>1 DEF Overwrite, RowsTyped
  <2>3. Book!EditUnrecorded(a)
    BY <1>4, <2>1, <2>2 DEF Book!EditUnrecorded
  <2> QED BY <2>3
<1>5. ASSUME NEW a \in Assets, DeleteAsset(a) PROVE Book!Next
  <2>1. Book!Remove(a)
    BY <1>5 DEF DeleteAsset, Book!Remove
  <2> QED BY <2>1
<1> QED BY <1>0, <1>1, <1>2, <1>3, <1>4, <1>5, BookStep

(* Renewals, failed attempts, edits and deletions, retried and interleaved in *)
(* any number, are what RenewalBook promises: each date moves in one step     *)
(* with its row, extends the date it found, and no cycle is renewed twice.    *)
THEOREM RenewalsKeepTheBook == Spec => RefinesBook
<1>1. Init => Book!Init
  BY DEF Init, Book!Init
<1>2. BookInv /\ [Next]_vars => [Book!Next]_(Book!book)
  BY NextKeepsBook
<1> QED BY <1>1, <1>2, BookCorrect, PTL DEF Spec, RefinesBook, Book!Spec
=============================================================================
