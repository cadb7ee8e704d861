----------------------------- MODULE Onboarding -----------------------------
(* How clients come about: through the client form (clients.service.ts), or   *)
(* when a lead (leads.service.ts) or a proposal (proposals.service.ts) is     *)
(* converted to a project. The form serializes its writes of company names;   *)
(* a conversion takes no lock and no transaction, every line of it is a write *)
(* of its own, and any of them may be the last.                               *)
EXTENDS Integers, Sequences

CONSTANTS Companies, Emails,
          NoEmail,     \* left empty
          Generated,   \* an address that a conversion made up, which matches no other
          Leads, Proposals,
          None,
          Requests,    \* bound: requests running at a time
          MaxClients,  \* bound: clients ever made
          MaxProjects  \* bound: projects ever made

VARIABLES clients,   \* in id order; byForm and byConversion: history, who set company and email
          leads,     \* by id: status, client; emails change freely and are chosen when used
          proposals, \* by id: is_converted, lead, client, project
          projects,  \* in id order: client
          queue,     \* companyLockPromise: who holds the lock and who waits for it
          pc, ctx    \* requests: next await, what they keep

vars == <<clients, leads, proposals, projects, queue, pc, ctx>>

NoRow == [is |-> "absent"]
Ids == DOMAIN clients
ActiveClients == {c \in Ids : ~clients[c].deleted}
LeadExists(l) == leads[l].is = "active"
ProposalExists(p) == proposals[p].is = "active"
Idle == [op |-> "none"]
Goto(r, where, what) == pc' = [pc EXCEPT ![r] = where] /\ ctx' = [ctx EXCEPT ![r] = what]
Answer(r) == Goto(r, "idle", Idle)
Then(r, where) == Goto(r, where, ctx[r])
Leave == queue' = Tail(queue)  \* whoever is served

Init ==
  /\ clients = << >> /\ projects = << >>
  /\ leads = [l \in Leads |-> NoRow]
  /\ proposals = [p \in Proposals |-> NoRow]
  /\ queue = << >>
  /\ pc = [r \in Requests |-> "idle"]
  /\ ctx = [r \in Requests |-> Idle]
----------------------------------------------------------------------------
(* The form. create, and update with a company name, run one after the other  *)
(* in acquireCompanyLock. MySQL's lock below it is not modelled: it matters   *)
(* between processes, and whoever does not get it goes on without.            *)
NewClient == 0
SaveClient(r, c, company) ==
  /\ pc[r] = "idle"
  /\ Goto(r, "check", [op |-> "form", client |-> c, company |-> company])
  /\ queue' = Append(queue, r)
  /\ UNCHANGED <<clients, leads, proposals, projects>>

\* assertUniqueCompanyName.
MyTurnUnlocked(r) == TRUE
MyTurn(r) == Head(queue) = r
Check(r) ==
  /\ pc[r] = "check" /\ MyTurn(r)
  /\ IF \E c \in ActiveClients \ {ctx[r].client} : clients[c].company = ctx[r].company
       THEN Answer(r) /\ Leave
       ELSE Then(r, "save") /\ UNCHANGED queue
  /\ UNCHANGED <<clients, leads, proposals, projects>>

Save(r) ==
  /\ pc[r] = "save"
  /\ LET c == ctx[r].client
     IN  IF c = NewClient
           THEN /\ Len(clients) < MaxClients
                /\ \E email \in Emails :
                     clients' = Append(clients, [company |-> ctx[r].company, email |-> email, deleted |-> FALSE,
                                                 byForm |-> TRUE, byConversion |-> FALSE])
           ELSE clients' = [clients EXCEPT ![c].company = ctx[r].company, ![c].byForm = TRUE]
  /\ Answer(r) /\ Leave
  /\ UNCHANGED <<leads, proposals, projects>>

\* update without a company name. Clients change their phone number only.
EditClient(c, email) ==
  /\ clients' = [clients EXCEPT ![c].email = email, ![c].byConversion = FALSE]
  /\ UNCHANGED <<leads, proposals, projects, queue, pc, ctx>>

\* If there are no invoices and no active portal accounts, or those are ignored.
\* Nothing reads a deleted client, so what it was, and edits of it, are left out.
Gone == [company |-> None, email |-> NoEmail, deleted |-> TRUE, byForm |-> FALSE, byConversion |-> FALSE]
RemoveClient(c) ==
  /\ clients' = [clients EXCEPT ![c] = Gone]
  /\ UNCHANGED <<leads, proposals, projects, queue, pc, ctx>>
----------------------------------------------------------------------------
(* Leads and proposals. Whoever sees a lead sets its status and client to     *)
(* anything; "new" stands for every status but "converted".                   *)
Rest == UNCHANGED <<clients, projects, queue, pc, ctx>>
SaveLead(l, row) ==
  /\ leads[l].is # "deleted"
  /\ leads' = [leads EXCEPT ![l] = row]
  /\ UNCHANGED proposals /\ Rest
CreateLead(l) == leads[l] = NoRow /\ SaveLead(l, [is |-> "active", converted |-> FALSE, client |-> None])
UpdateLead(l, converted, c) ==
  LeadExists(l) /\ SaveLead(l, [leads[l] EXCEPT !.converted = converted, !.client = c])
RemoveLead(l) == LeadExists(l) /\ SaveLead(l, [leads[l] EXCEPT !.is = "deleted"])

CreateProposal(p, l) ==
  /\ proposals[p] = NoRow /\ leads[l] # NoRow
  /\ \E c \in IF leads[l].client = None THEN Ids \cup {None} ELSE {leads[l].client} :
       proposals' = [proposals EXCEPT ![p] = [is |-> "active", converted |-> FALSE, lead |-> l, client |-> c, project |-> None]]
  /\ UNCHANGED leads /\ Rest
RemoveProposal(p) ==
  /\ ProposalExists(p)
  /\ proposals' = [proposals EXCEPT ![p].is = "deleted"]
  /\ UNCHANGED leads /\ Rest
----------------------------------------------------------------------------
(* convertToProject, of a lead or (proposal # None) of a proposal.            *)
Begin(r, l, p, client, email) ==
  /\ pc[r] = "idle"
  /\ Goto(r, IF client = None THEN "match" ELSE "project",
          [op |-> "convert", lead |-> l, proposal |-> p, client |-> client, project |-> None,
           email |-> IF client = None THEN email ELSE NoEmail])
  /\ UNCHANGED <<clients, leads, proposals, projects, queue>>

\* A lead's email is the contact's, or else the company's; a proposal's only the
\* contact's. A proposal goes by its own client; that of its lead is not loaded.
ConvertLead(r, l, email) ==
  /\ LeadExists(l) /\ ~leads[l].converted
  /\ Begin(r, l, None, leads[l].client, email)
ConvertProposal(r, p, email) ==
  /\ ProposalExists(p) /\ ~proposals[p].converted
  /\ Begin(r, proposals[p].lead, p, proposals[p].client, email)

\* An active client with that email. A proposal also matches an empty one.
MatchNone(r) == {}
Match(r) == {c \in ActiveClients : clients[c].email = ctx[r].email /\ (ctx[r].proposal = None => ctx[r].email # NoEmail)}
FindClient(r) ==
  /\ pc[r] = "match"
  /\ IF Match(r) = {} THEN Then(r, "client")
     ELSE \E c \in Match(r) : Goto(r, "link", [ctx[r] EXCEPT !.client = c])
  /\ UNCHANGED <<clients, leads, proposals, projects, queue>>
MakeClient(r, company) ==
  /\ pc[r] = "client" /\ Len(clients) < MaxClients
  /\ clients' = Append(clients, [company |-> company, email |-> IF ctx[r].email = NoEmail THEN Generated ELSE ctx[r].email,
                                 deleted |-> FALSE, byForm |-> FALSE, byConversion |-> TRUE])
  /\ Goto(r, "link", [ctx[r] EXCEPT !.client = Len(clients) + 1])
  /\ UNCHANGED <<leads, proposals, projects, queue>>

\* Link and mark: the proposal if there is one, which fails if it has gone, and
\* the lead.
OnProposal(r, row, next) ==
  /\ IF ProposalExists(ctx[r].proposal)
       THEN proposals' = [proposals EXCEPT ![ctx[r].proposal] = row] /\ next
       ELSE UNCHANGED proposals /\ Answer(r)
  /\ UNCHANGED <<clients, leads, projects, queue>>
OnLead(r, row, next) ==
  /\ leads' = [leads EXCEPT ![ctx[r].lead] = row]
  /\ next
  /\ UNCHANGED <<clients, proposals, projects, queue>>
ProposalOf(r) == proposals[ctx[r].proposal]
LeadOf(r) == leads[ctx[r].lead]

LinkProposal(r) ==
  /\ pc[r] = "link" /\ ctx[r].proposal # None
  /\ OnProposal(r, [ProposalOf(r) EXCEPT !.client = ctx[r].client], Then(r, "linkLead"))
LinkLead(r) ==
  /\ pc[r] = "linkLead" \/ (pc[r] = "link" /\ ctx[r].proposal = None)
  /\ OnLead(r, [LeadOf(r) EXCEPT !.client = ctx[r].client], Then(r, "project"))
CreateProject(r) ==
  /\ pc[r] = "project" /\ Len(projects) < MaxProjects
  /\ projects' = Append(projects, ctx[r].client)
  /\ Goto(r, "mark", [ctx[r] EXCEPT !.project = Len(projects) + 1])
  /\ UNCHANGED <<clients, leads, proposals, queue>>
MarkProposal(r) ==
  /\ pc[r] = "mark" /\ ctx[r].proposal # None
  /\ OnProposal(r, [ProposalOf(r) EXCEPT !.converted = TRUE, !.project = ctx[r].project], Then(r, "markLead"))
MarkLead(r) ==
  /\ pc[r] = "markLead" \/ (pc[r] = "mark" /\ ctx[r].proposal = None)
  /\ OnLead(r, [LeadOf(r) EXCEPT !.converted = TRUE], Answer(r))

\* A query fails: what was written stays, the lock is released. Whoever waits
\* for the lock runs no query.
Fail(r) ==
  /\ \/ pc[r] \in {"check", "save"} /\ MyTurn(r) /\ Leave
     \/ pc[r] \notin {"idle", "check", "save"} /\ UNCHANGED queue
  /\ Answer(r)
  /\ UNCHANGED <<clients, leads, proposals, projects>>
----------------------------------------------------------------------------
FormStep ==
  \/ \E r \in Requests : \/ \E c \in ActiveClients \cup {NewClient}, k \in Companies : SaveClient(r, c, k)
                         \/ Check(r) \/ Save(r)
  \/ \E c \in ActiveClients : RemoveClient(c) \/ \E e \in Emails : EditClient(c, e)
LeadStep ==
  \/ \E l \in Leads : \/ CreateLead(l)
                      \/ \E converted \in BOOLEAN, c \in Ids \cup {None} : UpdateLead(l, converted, c)
                      \/ RemoveLead(l)
  \/ \E p \in Proposals : RemoveProposal(p) \/ \E l \in Leads : CreateProposal(p, l)
ConversionStep == \E r \in Requests :
  \/ \E e \in Emails : \/ \E l \in Leads : ConvertLead(r, l, e)
                        \/ \E p \in Proposals : ConvertProposal(r, p, e)
  \/ FindClient(r) \/ \E k \in Companies : MakeClient(r, k)
  \/ LinkProposal(r) \/ LinkLead(r) \/ CreateProject(r) \/ MarkProposal(r) \/ MarkLead(r)
  \/ Fail(r)

Next == FormStep \/ LeadStep \/ ConversionStep
Spec == Init /\ [][Next]_vars
----------------------------------------------------------------------------
(* "This company name is already registered": no two active clients whose     *)
(* names came from the form share one, however creations and renamings        *)
(* interleave. (What a conversion writes bypasses the form's check.)          *)
FormNamesStayUnique ==
  \A c, d \in ActiveClients : clients[c].byForm /\ clients[d].byForm /\ clients[c].company = clients[d].company => c = d

(* "Find active client or create" (convertToProject): where requests do not   *)
(* run at the same time, conversions never make a second client of one email, *)
(* although any of them may have stopped anywhere and all else is edited in   *)
(* between; and a converted proposal has a project, of the client it names.   *)
OneAtATime == \A q, r \in Requests : q = r
ConversionsFindTheirClient == OneAtATime =>
  /\ \A c, d \in ActiveClients :
       clients[c].byConversion /\ clients[d].byConversion /\ clients[c].email = clients[d].email
         /\ clients[c].email # Generated => c = d
  /\ \A p \in Proposals : ProposalExists(p) /\ proposals[p].converted =>
       /\ proposals[p].project \in DOMAIN projects
       /\ projects[proposals[p].project] = proposals[p].client
=============================================================================
