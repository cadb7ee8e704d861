----------------------------- MODULE SeoReports -----------------------------
(* The monthly SEO reports (seo-reports.service.ts): written by staff, locked *)
(* by a manager's approval, rendered to a PDF file and published to the       *)
(* client. Every operation reads the report, decides, and writes later;       *)
(* nothing is locked in between. Staff and managers differ only in the        *)
(* operations open to them, so a request stands for one of whoever may.       *)
EXTENDS Integers, Sequences

CONSTANTS Slots,       \* a website and a month
          FileOf,      \* the file name of a slot: month and sanitized company
          NoFile,
          Requests,    \* bound: requests running at a time
          MaxReports,  \* bound: reports ever made
          MaxEdits     \* bound: edits of one report

Locked == {"approved", "generated", "published"}

VARIABLES reports,   \* seo_report in id order; content stands for its columns and children
          media,     \* media/seo_reports/pdfs: file name -> report and content it shows
          pc, ctx,   \* requests: next await, what they keep
          approved   \* history: reports that a manager once approved

vars == <<reports, media, pc, ctx, approved>>

NoRow == [status |-> "absent"]
Ids == DOMAIN reports
Exists(i) == reports[i].status # "absent"
Idle == [op |-> "none"]
Goto(r, where, what) == pc' = [pc EXCEPT ![r] = where] /\ ctx' = [ctx EXCEPT ![r] = what]
Answer(r) == Goto(r, "idle", Idle)

Init ==
  /\ reports = << >>
  /\ media = [f \in {FileOf[s] : s \in Slots} |-> NoFile]
  /\ pc = [r \in Requests |-> "idle"]
  /\ ctx = [r \in Requests |-> Idle]
  /\ approved = {}
----------------------------------------------------------------------------
\* A second report of a website and month is refused by the check or by the
\* unique key.
Create(r, s) ==
  /\ pc[r] = "idle"
  /\ \A i \in Ids : Exists(i) => reports[i].slot # s
  /\ Len(reports) < MaxReports
  /\ reports' = Append(reports, [slot |-> s, status |-> "draft", content |-> 0, pdf |-> NoFile])
  /\ UNCHANGED <<media, pc, ctx, approved>>

\* The check at the start of an operation.
Open(r, i, op, statuses) ==
  /\ pc[r] = "idle" /\ Exists(i)
  /\ reports[i].status \in statuses
  /\ Goto(r, op, [op |-> op, report |-> i, row |-> IF op = "render" THEN reports[i] ELSE NoRow])
  /\ UNCHANGED <<reports, media, approved>>
AnyStatus == {"draft", "under_review"} \cup Locked

Editable == AnyStatus \ Locked
BeginEdit(r, i) == Open(r, i, "edit", Editable)
\* What belongs to a report, added, changed or removed, is an edit of it.
ChangeKeywords(r, i) == Open(r, i, "edit", Editable)
ChangeQueries(r, i) == Open(r, i, "edit", Editable)
ChangeSources(r, i) == Open(r, i, "edit", Editable)
ChangeSummaries(r, i) == Open(r, i, "edit", Editable)
ChangeEvidence(r, i) == Open(r, i, "edit", Editable)
BeginRemove(r, i) == Open(r, i, "remove", {"draft"})
BeginSubmit(r, i) == Open(r, i, "submit", {"draft"})
BeginApprove(r, i) == Open(r, i, "approve", Editable)
BeginReopen(r, i) == Open(r, i, "reopen", AnyStatus)
BeginPublishAnything(r, i) == Open(r, i, "publish", AnyStatus)
BeginPublish(r, i) == Open(r, i, "publish", {"approved", "generated"})
BeginPdf(r, i) == Open(r, i, "render", {"approved", "generated"})

\* The write at its end; a row that has gone is an error to the caller.
Write(r, op, Change(_)) ==
  /\ pc[r] = op
  /\ reports' = IF Exists(ctx[r].report) THEN [reports EXCEPT ![ctx[r].report] = Change(@)] ELSE reports
  /\ Answer(r)
  /\ UNCHANGED media

Edit(r) ==
  /\ Write(r, "edit", LAMBDA row : [row EXCEPT !.content = IF @ < MaxEdits THEN @ + 1 ELSE @])
  /\ UNCHANGED approved
Remove(r) == Write(r, "remove", LAMBDA row : NoRow) /\ UNCHANGED approved
Submit(r) == Write(r, "submit", LAMBDA row : [row EXCEPT !.status = "under_review"]) /\ UNCHANGED approved
Approve(r) ==
  /\ Write(r, "approve", LAMBDA row : [row EXCEPT !.status = "approved"])
  /\ approved' = approved \cup {ctx[r].report}
Reopen(r) ==
  /\ Write(r, "reopen", LAMBDA row : [row EXCEPT !.status = "draft", !.pdf = NoFile])
  /\ UNCHANGED approved
Publish(r) == Write(r, "publish", LAMBDA row : [row EXCEPT !.status = "published"]) /\ UNCHANGED approved

(* generatePdf: what was read is rendered, written to the file, and the       *)
(* report marked as generated, whatever has become of it (markGenerated).     *)
Render(r) ==
  /\ pc[r] = "render"
  /\ LET i == ctx[r].report
     IN  /\ media' = [media EXCEPT ![FileOf[ctx[r].row.slot]] = [report |-> i, content |-> ctx[r].row.content]]
         /\ Goto(r, "mark", [op |-> "mark", report |-> i])
  /\ UNCHANGED <<reports, approved>>
RenderFails(r) ==
  /\ pc[r] = "render"
  /\ Answer(r)
  /\ UNCHANGED <<reports, media, approved>>
Mark(r) ==
  /\ Write(r, "mark", LAMBDA row : [row EXCEPT !.status = "generated", !.pdf = FileOf[row.slot]])
  /\ UNCHANGED approved
----------------------------------------------------------------------------
Next == \E r \in Requests :
  \/ \E s \in Slots : Create(r, s)
  \/ \E i \in Ids : \/ BeginEdit(r, i) \/ BeginRemove(r, i) \/ BeginSubmit(r, i) \/ BeginApprove(r, i)
                    \/ BeginReopen(r, i) \/ BeginPublish(r, i) \/ BeginPdf(r, i)
                    \/ ChangeKeywords(r, i) \/ ChangeQueries(r, i) \/ ChangeSources(r, i)
                    \/ ChangeSummaries(r, i) \/ ChangeEvidence(r, i)
  \/ Edit(r) \/ Remove(r) \/ Submit(r) \/ Approve(r) \/ Reopen(r) \/ Publish(r)
  \/ Render(r) \/ RenderFails(r) \/ Mark(r)
Spec == Init /\ [][Next]_vars

(* What a client may see or download (findAll, findOne, getReportPdf).        *)
Visible(i) == Exists(i) /\ reports[i].status = "published"
Download(i) == media[reports[i].pdf]
----------------------------------------------------------------------------
(* "Only Approved or Generated reports can be published to the Client Portal" *)
(* (publishReport): whatever stale reads are written back, a client sees no   *)
(* report that was never approved, and downloads no PDF that was rendered     *)
(* from one.                                                                  *)
OnlyApprovedWorkIsPublished ==
  \A i \in Ids : Visible(i) =>
    /\ i \in approved
    /\ reports[i].pdf # NoFile => Download(i) # NoFile /\ Download(i).report \in approved
=============================================================================
