-------------------------- MODULE CredentialVault --------------------------
(* The stored passwords. Five stores keep them: company, website, server and  *)
(* SEO credentials and the items of work logs. Values are encrypted under a   *)
(* versioned key and bound to their record (credential-crypto.service.ts);    *)
(* every change of a secret, and every secret handed out, has its row in the  *)
(* audit trail (credential-audit.service.ts). Who is in scope of a record     *)
(* (members of its project, the executive of its website or log) changes      *)
(* outside this module.                                                       *)
EXTENDS Integers, Sequences

CONSTANTS Users,
          Admins,     \* super admins; SEO managers for the SEO stores, and
                      \* whoever manages credentials for the company's
          Revealers,  \* may reveal: super admins, roles with REVEAL_CREDENTIALS
          Keys,       \* versions that CREDENTIAL_KEYS may list
          FirstKey,
          Requests,   \* bound: requests to reveal running at a time
          MaxRecords, \* bound: records ever made
          MaxRows     \* bound: audit rows

Legacy == "legacy"    \* key of the formats written before, read only
Nothing == [key |-> "none"]
Nobody == "nobody"

VARIABLES records,  \* in id order: stored value, who may read and write the record
          listed, active, \* CREDENTIAL_KEYS, CREDENTIAL_ACTIVE_KEY_VERSION
          trail,    \* credential_audit_logs
          pc, ctx,  \* reveal requests: next await, what they keep
          given,    \* history: the reveals that were answered with a secret
          setBy     \* history: who last changed the secret of a record

vars == <<records, listed, active, trail, pc, ctx, given, setBy>>

Ids == DOMAIN records
Exists(c) == records[c].exists
In(store, c) == Exists(c) /\ records[c].store = store
\* Whoever may reveal at all may reveal company credentials.
InScope(u, c) == u \in Admins \/ records[c].store = "company" \/ u \in records[c].readers
MayWrite(u, c) == u \in Admins \/ (records[c].store \notin {"company", "seo"} /\ u \in records[c].writers)
Idle == [op |-> "none"]
Goto(r, where, what) == pc' = [pc EXCEPT ![r] = where] /\ ctx' = [ctx EXCEPT ![r] = what]
Answer(r) == Goto(r, "idle", Idle)

\* The value is bound to the id of its record.
EncryptWithoutRecord(c) == [key |-> active, of |-> 0]
Encrypt(c) == [key |-> active, of |-> c]
IsSet(value) == value # Nothing
\* The legacy formats are bound to nothing; each store reads those it has held.
Decrypts(value, c) == value.key = Legacy \/ (value.key \in listed /\ value.of = c)
Record(u, c, action) ==
  /\ Len(trail) < MaxRows
  /\ trail' = Append(trail, [user |-> u, id |-> c, action |-> action])

\* Django left records behind, with passwords in its own format.
Stores == {"company", "website", "server", "seo", "logItem"}
Row(store, value, circle) == [exists |-> TRUE, store |-> store, value |-> value, readers |-> circle, writers |-> circle]
Init ==
  /\ records \in {<< >>} \cup {<<Row(store, [key |-> Legacy, of |-> 0], {})>> : store \in Stores}
  /\ listed = {FirstKey} /\ active = FirstKey
  /\ trail = << >>
  /\ pc = [r \in Requests |-> "idle"]
  /\ ctx = [r \in Requests |-> Idle]
  /\ given = {}
  /\ setBy = [c \in 1..MaxRecords |-> Nobody]
----------------------------------------------------------------------------
Quiet == UNCHANGED <<listed, active, pc, ctx, given>>

(* Record, secret and audit row in one transaction. The id is needed for the  *)
(* encryption, so the row is made first.                                      *)
Create(u, store, withSecret, audited) ==
  LET c == Len(records) + 1 IN
  /\ c <= MaxRecords
  /\ \E circle \in {{}, Users} :
       records' = Append(records, Row(store, IF withSecret THEN Encrypt(c) ELSE Nothing, circle))
  /\ IF audited THEN Record(u, c, "CREATE") ELSE UNCHANGED trail
  /\ setBy' = IF withSecret THEN [setBy EXCEPT ![c] = u] ELSE setBy
  /\ Quiet
CreateCompany(u, withSecret) == u \in Admins /\ Create(u, "company", withSecret, TRUE)
CreateWebsite(u, withSecret) == Create(u, "website", withSecret, TRUE)
CreateServer(u, withSecret) == Create(u, "server", withSecret, withSecret)
CreateSeo(u, withSecret) == u \in Admins /\ Create(u, "seo", withSecret, TRUE)
CreateLogItem(u, withSecret) == Create(u, "logItem", withSecret, withSecret)

UpdateUnaudited(u, c, withSecret) ==
  /\ MayWrite(u, c)
  /\ records' = [records EXCEPT ![c].value = IF withSecret THEN Encrypt(c) ELSE Nothing]
  /\ setBy' = [setBy EXCEPT ![c] = u]
  /\ UNCHANGED trail
  /\ Quiet

\* A new secret, or none; the mask and an omitted field change nothing.
UpdateSecret(u, c, withSecret) ==
  /\ MayWrite(u, c)
  /\ records' = [records EXCEPT ![c].value = IF withSecret THEN Encrypt(c) ELSE Nothing]
  /\ Record(u, c, "UPDATE_SECRET")
  /\ setBy' = [setBy EXCEPT ![c] = u]
  /\ Quiet
UpdateCompany(u, c, withSecret) == In("company", c) /\ UpdateSecret(u, c, withSecret)
UpdateWebsite(u, c, withSecret) == In("website", c) /\ UpdateSecret(u, c, withSecret)
UpdateServer(u, c, withSecret) == In("server", c) /\ UpdateSecret(u, c, withSecret)
UpdateSeo(u, c, withSecret) == In("seo", c) /\ UpdateSecret(u, c, withSecret)

Gone(c) == records' = [records EXCEPT ![c].exists = FALSE, ![c].value = Nothing]
Delete(u, c, audited) ==
  /\ Gone(c)
  /\ IF audited THEN Record(u, c, "DELETE") ELSE UNCHANGED trail
  /\ setBy' = [setBy EXCEPT ![c] = Nobody]
DeleteCompany(u, c) == In("company", c) /\ MayWrite(u, c) /\ Delete(u, c, TRUE) /\ Quiet
DeleteWebsite(u, c) == In("website", c) /\ MayWrite(u, c) /\ Delete(u, c, TRUE) /\ Quiet
DeleteSeo(u, c) == In("seo", c) /\ MayWrite(u, c) /\ Delete(u, c, TRUE) /\ Quiet
\* With its log. Whether there is a password is asked in the transaction.
DeleteLogItem(u, c) == In("logItem", c) /\ MayWrite(u, c) /\ Delete(u, c, IsSet(records[c].value)) /\ Quiet

\* Of a server, this is read before the transaction.
DeleteServer(r, u, c) ==
  /\ pc[r] = "idle" /\ In("server", c) /\ MayWrite(u, c)
  /\ Goto(r, "delete", [user |-> u, id |-> c, value |-> records[c].value])
  /\ UNCHANGED <<records, listed, active, trail, given, setBy>>
FinishDelete(r) ==
  /\ pc[r] = "delete"
  /\ IF Exists(ctx[r].id) THEN Delete(ctx[r].user, ctx[r].id, IsSet(ctx[r].value))
     ELSE UNCHANGED <<records, trail, setBy>>
  /\ Answer(r)
  /\ UNCHANGED <<listed, active, given>>

\* With its website, domain or project (onDelete: Cascade): nothing is audited.
Cascade(c) ==
  /\ Exists(c) /\ records[c].store \notin {"company", "server"}
  /\ Gone(c)
  /\ setBy' = [setBy EXCEPT ![c] = Nobody]
  /\ UNCHANGED trail
  /\ Quiet

ScopeChanges(c, u) ==
  /\ Exists(c)
  /\ records' = [records EXCEPT ![c].readers = IF u \in @ THEN @ \ {u} ELSE @ \cup {u},
                                ![c].writers = @ \ {u}]
  /\ UNCHANGED <<trail, setBy>>
  /\ Quiet
----------------------------------------------------------------------------
(* Reveal. A refusal is recorded if it can be (deny ignores failures) and     *)
(* answered in any case.                                                      *)
Unchanged == UNCHANGED <<records, listed, active, setBy>>
Deny(r, u, c) ==
  /\ Record(u, c, "REVEAL_DENIED") \/ UNCHANGED trail
  /\ Answer(r)
  /\ UNCHANGED given

Reveal(r, u, c, store) ==
  /\ pc[r] = "idle"
  /\ IF u \notin Revealers THEN Deny(r, u, c)
     ELSE /\ In(store, c)
          /\ Goto(r, "scope", [user |-> u, id |-> c, value |-> records[c].value])
          /\ UNCHANGED <<trail, given>>
  /\ Unchanged
RevealCompany(r, u, c) == Reveal(r, u, c, "company")
RevealWebsite(r, u, c) == Reveal(r, u, c, "website")
RevealServer(r, u, c) == Reveal(r, u, c, "server")
RevealSeo(r, u, c) == Reveal(r, u, c, "seo")
RevealLogItem(r, u, c) == Reveal(r, u, c, "logItem")

Scope(r) ==
  /\ pc[r] = "scope"
  /\ LET u == ctx[r].user c == ctx[r].id value == ctx[r].value
     IN  IF ~InScope(u, c) THEN Deny(r, u, c)
         ELSE /\ IF IsSet(value) => Decrypts(value, c) THEN Goto(r, "audit", ctx[r]) ELSE Answer(r)
              /\ UNCHANGED <<trail, given>>
  /\ Unchanged

AuditBestEffort(r) ==
  /\ pc[r] = "audit"
  /\ Record(ctx[r].user, ctx[r].id, "REVEAL") \/ UNCHANGED trail
  /\ given' = given \cup {[user |-> ctx[r].user, id |-> ctx[r].id, value |-> ctx[r].value, row |-> Len(trail) + 1]}
  /\ Answer(r)
  /\ Unchanged

\* The secret is returned when its audit row is written, or not at all.
Audit(r) ==
  /\ pc[r] = "audit"
  /\ \/ /\ Record(ctx[r].user, ctx[r].id, "REVEAL")
        /\ given' = given \cup {[user |-> ctx[r].user, id |-> ctx[r].id, value |-> ctx[r].value, row |-> Len(trail) + 1]}
     \/ UNCHANGED <<trail, given>>
  /\ Answer(r)
  /\ Unchanged
----------------------------------------------------------------------------
(* A restart with another configuration (docs/CREDENTIAL_KEYS.md). Requests   *)
(* die with the process. loadKeys refuses to start unless the active version  *)
(* is listed; a key is retired when no value needs it.                        *)
Restart(keys, version) ==
  /\ version \in keys
  /\ \A c \in Ids : records[c].value.key \notin listed \ keys
  /\ listed' = keys /\ active' = version
  /\ pc' = [r \in Requests |-> "idle"]
  /\ ctx' = [r \in Requests |-> Idle]
  /\ UNCHANGED <<records, trail, given, setBy>>

CompanyStep(r, u) == \E withSecret \in BOOLEAN :
  CreateCompany(u, withSecret) \/ \E c \in Ids : UpdateCompany(u, c, withSecret) \/ DeleteCompany(u, c) \/ RevealCompany(r, u, c)
WebsiteStep(r, u) == \E withSecret \in BOOLEAN :
  CreateWebsite(u, withSecret) \/ \E c \in Ids : UpdateWebsite(u, c, withSecret) \/ DeleteWebsite(u, c) \/ RevealWebsite(r, u, c)
ServerStep(r, u) == \E withSecret \in BOOLEAN :
  CreateServer(u, withSecret) \/ \E c \in Ids : UpdateServer(u, c, withSecret) \/ DeleteServer(r, u, c) \/ RevealServer(r, u, c)
SeoStep(r, u) == \E withSecret \in BOOLEAN :
  CreateSeo(u, withSecret) \/ \E c \in Ids : UpdateSeo(u, c, withSecret) \/ DeleteSeo(u, c) \/ RevealSeo(r, u, c)
LogItemStep(r, u) == \E withSecret \in BOOLEAN :
  CreateLogItem(u, withSecret) \/ \E c \in Ids : DeleteLogItem(u, c) \/ RevealLogItem(r, u, c)

Next ==
  \/ \E r \in Requests, u \in Users :
       CompanyStep(r, u) \/ WebsiteStep(r, u) \/ ServerStep(r, u) \/ SeoStep(r, u) \/ LogItemStep(r, u)
  \/ \E c \in Ids : Cascade(c) \/ \E u \in Users : ScopeChanges(c, u)
  \/ \E r \in Requests : FinishDelete(r) \/ Scope(r) \/ Audit(r)
  \/ \E keys \in SUBSET Keys, version \in Keys : Restart(keys, version)
Spec == Init /\ [][Next]_vars
----------------------------------------------------------------------------
(* Every secret that was handed out has a REVEAL row of its own, by that user *)
(* and for that record ("returned only after the REVEAL row is written"), and *)
(* no two answers share one.                                                  *)
SecretsLeaveATrail ==
  /\ \A g \in given : /\ g.row \in DOMAIN trail
                      /\ trail[g.row] = [user |-> g.user, id |-> g.id, action |-> "REVEAL"]
  /\ \A g, h \in given : g.row = h.row => g = h

(* The audit trail tells who set the secret that a record holds: the last     *)
(* write recorded for it was by that user, however writes and failures        *)
(* interleave ("recorded atomically with the change it describes").           *)
WritesOf(c) == {i \in DOMAIN trail : trail[i].id = c /\ trail[i].action \in {"CREATE", "UPDATE_SECRET"}}
TrailNamesTheWriter ==
  \A c \in Ids : setBy[c] # Nobody =>
    \E i \in WritesOf(c) : trail[i].user = setBy[c] /\ \A j \in WritesOf(c) : j <= i

(* Every value in the new format can be read back for its own record with the *)
(* keys now configured, through any sequence of rotations that retires a key  *)
(* when nothing needs it.                                                     *)
StoredSecretsAreReadable ==
  \A c \in Ids : IsSet(records[c].value) => Decrypts(records[c].value, c)
=============================================================================
