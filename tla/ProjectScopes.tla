--------------------------- MODULE ProjectScopes ---------------------------
(* Who sees what of a project and of a client (project-scope.util.ts and the  *)
(* lists and single records of the project, task, sales and portal services). *)
(* One project with one task, file, comment and so on stands for all of them. *)
(* Searches, filters and pages only narrow a list and are left out.           *)
EXTENDS ClientScope

CONSTANTS Leader, Creator  \* who manages and who created the project

VARIABLES project,  \* client, members, deleted
          gone,     \* of "task", "file", "comment" and "lead": what has deleted_at
          content,  \* the uploaded file is on disk
          assigned  \* lead_assignments

vars == <<project, gone, content, assigned, deleted>>

Staff == {u \in Users : ~IsClient(u)}
Super(u) == Role[u] = "SUPER_ADMIN"
Here(kind) == kind \notin gone

\* staffProjectScope, projectScopeFor and canAccessProject.
StaffScope(u) == Super(u) \/ u \in project.members \cup {Leader, Creator}
Scope(u) == IF IsClient(u) THEN OwnClient(u, project.client) ELSE StaffScope(u)
CanAccessDeleted(u) == Scope(u)
CanAccess(u) == ~project.deleted /\ Scope(u)
----------------------------------------------------------------------------
(* The lists look at the row and at the scope of its project, the single      *)
(* records ask whether the project can be accessed.                           *)
ProjectListed(u) == ~project.deleted /\ Scope(u)
ProjectReadable(u) == CanAccess(u)
TaskListed(u) == Here("task") /\ Scope(u)
TaskReadable(u) == Here("task") /\ CanAccess(u)
MilestoneListed(u) == Scope(u)
MilestoneReadable(u) == CanAccess(u)
MemberListed(u) == ~IsClient(u) /\ Scope(u)
MemberReadable(u) == CanAccess(u)
FileListed(u) == Here("file") /\ Scope(u)
FileReadable(u) == Here("file") /\ CanAccess(u)
FileOpens(u) == Here("file") /\ Here("task") /\ CanAccess(u) /\ content
CommentListed(u) == Here("comment") /\ Scope(u)
CommentReadable(u) == Here("comment") /\ Here("task") /\ CanAccess(u)
ReviewListed(u) == ~IsClient(u) /\ Scope(u)
ReviewReadable(u) == Here("file") /\ CanAccess(u)
ActivityListed(u) == CanAccess(u)
\* The counters of a dashboard (reports.service.ts).
TaskCounted(u) == ~IsClient(u) /\ Here("task") /\ ~project.deleted /\ StaffScope(u)

(* The client portal: the documents, one document, the activity and the       *)
(* documents of the overview, which looks at no deletion.                     *)
OfPortal(u) == IsClient(u) /\ OwnClient(u, project.client)
DocumentListed(u) == OfPortal(u) /\ ~project.deleted /\ Here("task") /\ Here("file")
DocumentOpens(u) == OfPortal(u) /\ ~project.deleted /\ Here("task") /\ Here("file") /\ content
DocumentInOverview(u) == OfPortal(u)
PortalActivityListed(u) == OfPortal(u)

(* Sales: clients see what their account is linked to, whether or not the     *)
(* client is deleted; leads go by assignment. An invoice and a proposal of    *)
(* the project's client stand for all of them.                                *)
InvoiceListed(u) == IsClient(u) => LinkedClient(u, project.client)
InvoiceReadable(u) == IsClient(u) => LinkedClient(u, project.client)
ProposalListed(u) == IsClient(u) => LinkedClient(u, project.client)
ProposalReadable(u) == IsClient(u) => LinkedClient(u, project.client)
ClientListed(u) == project.client \notin deleted /\ (IsClient(u) => LinkedClient(u, project.client))
ClientReadable(u) == project.client \notin deleted /\ (IsClient(u) => LinkedClient(u, project.client))
AllLeads(u) == Role[u] \in {"SUPER_ADMIN", "SALES_MANAGER"}
LeadListed(u) == Here("lead") /\ (AllLeads(u) \/ u \in assigned)
LeadReadable(u) == Here("lead") /\ (AllLeads(u) \/ u \in assigned)
----------------------------------------------------------------------------
Init ==
  /\ project \in [client : Clients, members : {{}}, deleted : {FALSE}]
  /\ gone = {} /\ content \in BOOLEAN /\ assigned = {} /\ deleted = {}

MoveProject(c) ==
  /\ project' = [project EXCEPT !.client = c]
  /\ UNCHANGED <<gone, content, assigned, deleted>>
DeleteProject ==
  /\ project' = [project EXCEPT !.deleted = TRUE]
  /\ UNCHANGED <<gone, content, assigned, deleted>>
ChangeMembers(members) ==
  /\ project' = [project EXCEPT !.members = members]
  /\ UNCHANGED <<gone, content, assigned, deleted>>
Assign(users) ==
  /\ assigned' = users
  /\ UNCHANGED <<project, gone, content, deleted>>
Delete(kind) ==
  /\ gone' = gone \cup {kind}
  /\ UNCHANGED <<project, content, assigned, deleted>>
DeleteClient(c) ==
  /\ deleted' = deleted \cup {c}
  /\ UNCHANGED <<project, gone, content, assigned>>

Next ==
  \/ DeleteProject
  \/ \E c \in Clients : MoveProject(c) \/ DeleteClient(c)
  \/ \E users \in SUBSET Staff : ChangeMembers(users) \/ Assign(users)
  \/ \E kind \in {"task", "file", "comment", "lead"} : Delete(kind)
Spec == Init /\ [][Next]_vars
----------------------------------------------------------------------------
(* "Knowing a project id grants nothing: the project must be inside the       *)
(* caller's scope" (assertProjectAccess): while what it belongs to is there,  *)
(* a list shows exactly what its user may open, but members and reviews to    *)
(* staff only; what may be opened is listed at any time.                      *)
Parents == ~project.deleted /\ Here("task") /\ Here("file")
ListsMatchRecords == \A u \in Users :
  /\ <<ProjectReadable(u), ClientReadable(u), LeadReadable(u), InvoiceReadable(u), ProposalReadable(u)>>
       = <<ProjectListed(u), ClientListed(u), LeadListed(u), InvoiceListed(u), ProposalListed(u)>>
  /\ Parents => <<TaskListed(u), MilestoneListed(u), FileListed(u), CommentListed(u)>>
       = <<TaskReadable(u), MilestoneReadable(u), FileReadable(u), CommentReadable(u)>>
  /\ Parents /\ ~IsClient(u) => <<MemberListed(u), ReviewListed(u)>> = <<MemberReadable(u), ReviewReadable(u)>>
  /\ TaskReadable(u) => TaskListed(u)
  /\ MilestoneReadable(u) => MilestoneListed(u)
  /\ FileOpens(u) => FileReadable(u)
  /\ FileReadable(u) => FileListed(u)
  /\ CommentReadable(u) => CommentListed(u)
  /\ TaskCounted(u) => TaskReadable(u)

(* "The same project scope as the other task-file endpoints" (getFileContent, *)
(* getClientDocuments): a client finds in the document vault, and opens       *)
(* there, exactly the files of its own projects that it may open elsewhere;   *)
(* nobody from another client ever sees anything of the project.              *)
VaultMatchesFiles == \A u \in Users :
  /\ DocumentOpens(u) = (IsClient(u) /\ FileOpens(u))
  /\ DocumentOpens(u) = (DocumentListed(u) /\ content)
  /\ DocumentListed(u) => DocumentInOverview(u) /\ PortalActivityListed(u)
  /\ IsClient(u) /\ project.client \notin {ClientOf[u], EmailOf[u]} =>
       ~ (TaskListed(u) \/ FileListed(u) \/ CommentListed(u) \/ ActivityListed(u) \/ DocumentInOverview(u)
            \/ MemberReadable(u) \/ InvoiceListed(u) \/ ProposalListed(u) \/ ClientListed(u))

ScopesAgree == ListsMatchRecords /\ VaultMatchesFiles
=============================================================================
