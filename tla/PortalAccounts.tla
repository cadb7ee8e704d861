--------------------------- MODULE PortalAccounts ---------------------------
(* The portal accounts of a client and the audit trail of them                *)
(* (clients.service.ts). Only the creation of an account is a transaction:    *)
(* every other change is a write, and its audit row another one, which the    *)
(* failure of a query or the deletion of the account may prevent.             *)
CONSTANTS Accounts,  \* usernames, each of which is given out once
          Requests   \* bound: requests running at a time

VARIABLES client,   \* "active" or "deleted"
          accounts, \* users with that client_id
          trail,    \* portal_user_audit: which rows there are
          pc, ctx   \* requests: next await, what they keep

vars == <<client, accounts, trail, pc, ctx>>

Exists(a) == accounts[a] \in {"active", "inactive"}
Idle == [op |-> "none"]
Goto(r, where, what) == pc' = [pc EXCEPT ![r] = where] /\ ctx' = [ctx EXCEPT ![r] = what]
Answer(r) == Goto(r, "idle", Idle)
Row(a, action) == [user |-> a, action |-> action]
Same == "same"

Init ==
  /\ client = "active"
  /\ accounts = [a \in Accounts |-> "never"]
  /\ trail = {}
  /\ pc = [r \in Requests |-> "idle"]
  /\ ctx = [r \in Requests |-> Idle]
----------------------------------------------------------------------------
\* createPortalAccount: the client is looked up before the password is hashed.
Create(r, a) ==
  /\ pc[r] = "idle" /\ client = "active"
  /\ Goto(r, "create", [user |-> a])
  /\ UNCHANGED <<client, accounts, trail>>
Insert(r) ==
  /\ pc[r] = "create"
  /\ LET a == ctx[r].user
     IN  IF accounts[a] = "never"
           THEN /\ accounts' = [accounts EXCEPT ![a] = "active"]
                /\ trail' = trail \cup {Row(a, "created")}
           ELSE UNCHANGED <<accounts, trail>>
  /\ Answer(r)
  /\ UNCHANGED client

\* Username, password and status: read, written, recorded. A new status is the
\* opposite of the one that was read; Same leaves it as it is.
Change(r, a, action, status) ==
  /\ pc[r] = "idle" /\ Exists(a)
  /\ Goto(r, "update", [user |-> a, action |-> action, status |-> status])
  /\ UNCHANGED <<client, accounts, trail>>
Toggle(r, a) ==
  IF accounts[a] = "active" THEN Change(r, a, "deactivated", "inactive")
  ELSE Change(r, a, "activated", "active")
ChangeLogin(r, a) == \E action \in {"renamed", "reset"} : Change(r, a, action, Same)
Update(r) ==
  /\ pc[r] = "update"
  /\ LET a == ctx[r].user
     IN  IF Exists(a) THEN /\ accounts' = [accounts EXCEPT ![a] = IF ctx[r].status = Same THEN @ ELSE ctx[r].status]
                           /\ Goto(r, "record", ctx[r])
         ELSE UNCHANGED accounts /\ Answer(r)
  /\ UNCHANGED <<client, trail>>
\* A row names an existing user, or is not written.
Record(r) ==
  /\ pc[r] = "record"
  /\ trail' = IF Exists(ctx[r].user) THEN trail \cup {Row(ctx[r].user, ctx[r].action)} ELSE trail
  /\ Answer(r)
  /\ UNCHANGED <<client, accounts>>

\* An invitation is its audit row. A deletion is recorded first.
Invite(r, a) ==
  /\ pc[r] = "idle" /\ Exists(a)
  /\ Goto(r, "record", [user |-> a, action |-> "invited"])
  /\ UNCHANGED <<client, accounts, trail>>
DeleteUnrecorded(r, a) ==
  /\ pc[r] = "idle" /\ Exists(a)
  /\ Goto(r, "delete", [user |-> a])
  /\ UNCHANGED <<client, accounts, trail>>
Delete(r, a) ==
  /\ pc[r] = "idle" /\ Exists(a)
  /\ trail' = trail \cup {Row(a, "deleted")}
  /\ Goto(r, "delete", [user |-> a])
  /\ UNCHANGED <<client, accounts>>
Remove(r) ==
  /\ pc[r] = "delete"
  /\ accounts' = [accounts EXCEPT ![ctx[r].user] = "gone"]
  /\ Answer(r)
  /\ UNCHANGED <<client, trail>>

\* Refused while an account is active, unless a super admin insists.
RemoveClient(force) ==
  /\ force \/ \A a \in Accounts : accounts[a] # "active"
  /\ client' = "deleted"
  /\ UNCHANGED <<accounts, trail, pc, ctx>>
Fail(r) ==
  /\ pc[r] # "idle"
  /\ Answer(r)
  /\ UNCHANGED <<client, accounts, trail>>

Next ==
  \/ \E r \in Requests :
       \/ \E a \in Accounts : Create(r, a) \/ Toggle(r, a) \/ ChangeLogin(r, a) \/ Invite(r, a) \/ Delete(r, a)
       \/ Insert(r) \/ Update(r) \/ Record(r) \/ Remove(r) \/ Fail(r)
  \/ \E force \in BOOLEAN : RemoveClient(force)
Spec == Init /\ [][Next]_vars
----------------------------------------------------------------------------
(* Every account that there ever was has the row of its creation, and every   *)
(* account that was deleted here the row of its deletion, whatever fails and  *)
(* whatever else happens to it meanwhile.                                     *)
PortalTrailComplete == \A a \in Accounts :
  /\ accounts[a] # "never" => Row(a, "created") \in trail
  /\ accounts[a] = "gone" => Row(a, "deleted") \in trail
=============================================================================
