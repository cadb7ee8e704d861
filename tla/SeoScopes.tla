----------------------------- MODULE SeoScopes -----------------------------
(* Who sees what in the SEO department: the scope that each list, each single *)
(* record, the counters and the password masks apply (seo.service.ts,         *)
(* seo-reports.service.ts, client-scope.util.ts). One website with one log,   *)
(* task and report of it stands for all of them: every scope looks at one row *)
(* and what it belongs to.                                                    *)
EXTENDS ClientScope

CONSTANTS Staff,       \* the users that are not clients
          Statuses     \* of logs and reports

VARIABLES site,    \* seo_websites: client and assigned executive
          log,     \* seo_daily_work_logs: executive, status
          task,    \* seo_tasks: executive
          report   \* seo_report: client, status

vars == <<site, log, task, report, deleted>>

IsExecutive(u) == Role[u] = "SEO_EXECUTIVE"
IsPrivileged(u) == Role[u] = "SEO_MANAGER"
Any == "any"  \* a filter that is not sent
Queries == [status : Statuses \cup {Any}, exec : Staff \cup {Any}, client : Clients \cup {Any}]
Passes(filter, value) == filter = Any \/ filter = value

WebsiteReadable(u) ==
  /\ IsClient(u) => site.client = ClientOf[u]
  /\ IsExecutive(u) => site.exec = u
\* A client's list goes by link or email, whichever client is found first.
WebsiteListed(u) ==
  /\ IsClient(u) => \E c \in Clients : (c = ClientOf[u] \/ c = EmailOf[u]) /\ site.client = c
  /\ IsExecutive(u) => site.exec = u
KeywordListed(u) ==
  /\ IsClient(u) => LinkedClient(u, site.client)
  /\ IsExecutive(u) => site.exec = u
CredentialListed(u) == IsPrivileged(u) \/ (IsExecutive(u) /\ site.exec = u)

(* Daily logs: the list with its filters, a single log, and whether the mask  *)
(* of a stored item password is shown.                                        *)
LogReadable(u) ==
  IF IsClient(u) THEN LinkedClient(u, site.client) /\ log.status = "approved"
  ELSE IsExecutive(u) => log.exec = u
LogFilter(u, q) ==
  /\ IsClient(u) \/ Passes(q.status, log.status)
  /\ IsClient(u) \/ IsExecutive(u) \/ Passes(q.exec, log.exec)
\* As one "where" object: a filter on a column would replace its scope.
LogScopeReplaced(u, q) ==
  IF IsClient(u) THEN LinkedClient(u, site.client)
                      /\ (q.status = Any => log.status = "approved") /\ Passes(q.status, log.status)
  ELSE IsExecutive(u) /\ q.exec = Any => log.exec = u
LogScope(u, q) ==
  IF IsClient(u) THEN LinkedClient(u, site.client) /\ log.status = "approved"
  ELSE IsExecutive(u) => log.exec = u
LogListed(u, q) == LogScope(u, q) /\ LogFilter(u, q)
ShowsMask(u) == ~IsClient(u) /\ (IsPrivileged(u) \/ log.exec = u)

(* Tasks: the list, and the counters, which with a status filter cover every  *)
(* status but drop the other filters too.                                     *)
TaskScope(u) == IsExecutive(u) => task.exec = u
TaskListed(u, q) == TaskScope(u) /\ (IsExecutive(u) \/ IsClient(u) \/ Passes(q.exec, task.exec))
TaskCounted(u, q) == IF q.status # Any THEN TaskScope(u) ELSE TaskListed(u, q)

(* Reports: the list, a single report, its PDF.                               *)
ReportListed(u, q) ==
  IF IsClient(u) THEN OwnClient(u, report.client) /\ report.status = "published"
  ELSE Passes(q.client, report.client) /\ Passes(q.status, report.status)
ReportReadable(u) ==
  IsClient(u) => OwnClient(u, report.client) /\ report.status = "published"
PdfReadable(u) ==
  IF IsClient(u) THEN report.status = "published" /\ OwnClient(u, report.client)
  ELSE IsPrivileged(u) \/ IsExecutive(u)
----------------------------------------------------------------------------
Init ==
  /\ site \in [client : Clients, exec : Staff \cup {NoOne}]
  /\ log \in [exec : Staff, status : Statuses]
  /\ task \in [exec : Staff]
  /\ report \in [client : Clients, status : Statuses]
  /\ deleted = {}

\* updateWebsite moves a website to another client or executive; its reports
\* keep the client they were made for.
UpdateWebsite(client, exec) ==
  /\ site' = [client |-> client, exec |-> exec]
  /\ UNCHANGED <<log, task, report, deleted>>
DeleteClient(c) ==
  /\ deleted' = deleted \cup {c}
  /\ UNCHANGED <<site, log, task, report>>

Next ==
  \/ \E client \in Clients, exec \in Staff \cup {NoOne} : UpdateWebsite(client, exec)
  \/ \E c \in Clients : DeleteClient(c)
Spec == Init /\ [][Next]_vars
----------------------------------------------------------------------------
(* "Query filters must not widen the forced scope" (getDailyLogs) and "Same   *)
(* scope as the list" (getDailyLogById): whatever is asked, a list shows only *)
(* what its user may open, and without filters all of it; no counter exceeds  *)
(* an executive's own tasks; a mask is shown only to who may read the log.    *)
NoFilter == [status |-> Any, exec |-> Any, client |-> Any]
ListsMatchAccess == \A u \in Users :
  /\ \A q \in Queries : (LogListed(u, q) => LogReadable(u)) /\ (ReportListed(u, q) => ReportReadable(u))
  /\ LogReadable(u) => LogListed(u, NoFilter)
  /\ ReportReadable(u) => ReportListed(u, NoFilter)
  /\ PdfReadable(u) => ReportReadable(u)
  /\ ShowsMask(u) => LogReadable(u)
  /\ KeywordListed(u) \/ CredentialListed(u) => WebsiteReadable(u)
  /\ WebsiteReadable(u) => WebsiteListed(u)
  /\ \A q \in Queries : TaskCounted(u, q) /\ IsExecutive(u) => task.exec = u
=============================================================================
