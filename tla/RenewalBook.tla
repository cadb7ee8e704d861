---------------------------- MODULE RenewalBook ----------------------------
(* What renewals promise: the expiry date of an asset moves in one step with  *)
(* the history row that says why, a renewal extends the date it finds, and no *)
(* date of an asset is ever renewed twice, not even when an edit restores it. *)
EXTENDS Integers, Sequences

CONSTANTS Assets, Keys, NoKey, NoExpiry,
          UnrecordedEdits  \* some edits move the date without a row
VARIABLES exists, expiry, history

book == <<exists, expiry, history>>

Init ==
  /\ exists = [a \in Assets |-> TRUE]
  /\ history = << >>

\* The row that is being written: prev is the date it finds.
Written(a, row) ==
  /\ exists[a] /\ UNCHANGED exists
  /\ history' = Append(history, row)
  /\ row.asset = a /\ row.prev = expiry[a]

NewRow == history'[Len(history')]

UsedBefore(row) ==
  \E n \in 1..Len(history) :
    /\ history[n].event = "renewed" /\ history[n].asset = row.asset
    /\ history[n].prev = row.prev

KeyIsNew(row) ==
  row.key \in Keys /\ \A n \in 1..Len(history) : history[n].key # row.key

Renew(a) ==
  /\ Len(history') = Len(history) + 1
  /\ Written(a, NewRow) /\ NewRow.event = "renewed"
  /\ KeyIsNew(NewRow) /\ ~UsedBefore(NewRow)
  /\ NewRow.next > NewRow.prev
  /\ expiry' = [expiry EXCEPT ![a] = NewRow.next]

\* A failed attempt is recorded only.
Attempt(a) ==
  /\ Len(history') = Len(history) + 1
  /\ Written(a, NewRow) /\ NewRow.event = "failed"
  /\ KeyIsNew(NewRow)
  /\ UNCHANGED expiry

Edit(a) ==
  /\ Len(history') = Len(history) + 1
  /\ Written(a, NewRow) /\ NewRow.event = "manual_change"
  /\ NewRow.next # NewRow.prev
  /\ expiry' = [expiry EXCEPT ![a] = NewRow.next]

EditUnrecorded(a) ==
  /\ UnrecordedEdits
  /\ exists[a]
  /\ \E date \in {expiry'[a]} : expiry' = [expiry EXCEPT ![a] = date]
  /\ UNCHANGED <<exists, history>>

\* The asset goes, its history stays.
Remove(a) ==
  /\ exists[a]
  /\ exists' = [exists EXCEPT ![a] = FALSE]
  /\ expiry' = [expiry EXCEPT ![a] = NoExpiry]
  /\ UNCHANGED history

Next == \E a \in Assets : Renew(a) \/ Attempt(a) \/ Edit(a) \/ EditUnrecorded(a) \/ Remove(a)

Spec == Init /\ [][Next]_book
=============================================================================
