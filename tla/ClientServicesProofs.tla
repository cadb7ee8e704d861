------------------------ MODULE ClientServicesProofs ------------------------
(* What ClientServices promises, for every value of its constants. A behaviour *)
(* of the services is one of each part; each part has an inductive invariant.  *)
EXTENDS ClientServices, Sequences, TLAPS
----------------------------------------------------------------------------
(* Each behaviour of the services is a behaviour of each part. *)
LEMMA ServicesRunPortal == Spec => Portal!Spec
<1>1. Init => Portal!Init
  BY DEF Init
<1>2. [Next]_vars => [Portal!Next]_(Portal!vars)
  BY DEF Next, vars, Portal!vars, portalAccounts
<1>. QED BY <1>1, <1>2, PTL DEF Spec, Portal!Spec
LEMMA ServicesRunWork == Spec => Work!Spec
<1>1. Init => Work!Init
  BY DEF Init
<1>2. [Next]_vars => [Work!Next]_(Work!vars)
  BY DEF Next, vars, Work!vars, seoWork
<1>. QED BY <1>1, <1>2, PTL DEF Spec, Work!Spec
LEMMA ServicesRunReports == Spec => Reports!Spec
<1>1. Init => Reports!Init
  BY DEF Init
<1>2. [Next]_vars => [Reports!Next]_(Reports!vars)
  BY DEF Next, vars, Reports!vars, seoReports
<1>. QED BY <1>1, <1>2, PTL DEF Spec, Reports!Spec
LEMMA ServicesRunVault == Spec => Vault!Spec
<1>1. Init => Vault!Init
  BY DEF Init
<1>2. [Next]_vars => [Vault!Next]_(Vault!vars)
  BY DEF Next, vars, Vault!vars, vault
<1>. QED BY <1>1, <1>2, PTL DEF Spec, Vault!Spec
LEMMA ServicesRunSales == Spec => Sales!Spec
<1>1. Init => Sales!Init
  BY DEF Init
<1>2. [Next]_vars => [Sales!Next]_(Sales!vars)
  BY DEF Next, vars, Sales!vars, onboarding
<1>. QED BY <1>1, <1>2, PTL DEF Spec, Sales!Spec
----------------------------------------------------------------------------
(* Portal accounts. A request that is to delete has its row in the trail.     *)
PortalStates == {"never", "active", "inactive", "gone"}
PortalKeeps(r) ==
  /\ portalPc[r] # "idle" => portalCtx[r].user \in Accounts
  /\ portalPc[r] = "update" => portalCtx[r].status \in {"same", "active", "inactive"}
  /\ portalPc[r] = "delete" => /\ portal[portalCtx[r].user] # "never"
                               /\ Portal!Row(portalCtx[r].user, "deleted") \in portalTrail
PortalInv ==
  /\ portal \in [Accounts -> PortalStates]
  /\ DOMAIN portalPc = Requests /\ DOMAIN portalCtx = Requests
  /\ \A r \in Requests : PortalKeeps(r)
  /\ Portal!PortalTrailComplete

LEMMA PortalStarts == Portal!Init => PortalInv
BY DEF Portal!Init, PortalInv, PortalStates, PortalKeeps, Portal!PortalTrailComplete

LEMMA PortalSteps == PortalInv /\ [Portal!Next]_(Portal!vars) => PortalInv'
<1>. SUFFICES ASSUME PortalInv, [Portal!Next]_(Portal!vars) PROVE PortalInv'
  OBVIOUS
<1>. USE DEF PortalInv, PortalStates, PortalKeeps
<1>1. CASE UNCHANGED Portal!vars
  BY <1>1 DEF Portal!vars, Portal!PortalTrailComplete
<1>2. ASSUME NEW r \in Requests, NEW a \in Accounts, Portal!Create(r, a) PROVE PortalInv'
  BY <1>2 DEF Portal!Create, Portal!Goto, Portal!PortalTrailComplete
<1>3. ASSUME NEW r \in Requests, NEW a \in Accounts, Portal!Toggle(r, a) PROVE PortalInv'
  BY <1>3 DEF Portal!Toggle, Portal!Change, Portal!Exists, Portal!Goto, Portal!PortalTrailComplete
<1>4. ASSUME NEW r \in Requests, NEW a \in Accounts, Portal!ChangeLogin(r, a) PROVE PortalInv'
  BY <1>4 DEF Portal!ChangeLogin, Portal!Same, Portal!Change, Portal!Exists, Portal!Goto, Portal!PortalTrailComplete
<1>5. ASSUME NEW r \in Requests, NEW a \in Accounts, Portal!Invite(r, a) PROVE PortalInv'
  BY <1>5 DEF Portal!Invite, Portal!Goto, Portal!PortalTrailComplete
<1>6. ASSUME NEW r \in Requests, NEW a \in Accounts, Portal!Delete(r, a) PROVE PortalInv'
  BY <1>6 DEF Portal!Delete, Portal!Exists, Portal!Goto, Portal!PortalTrailComplete, Portal!Row
<1>7. ASSUME NEW r \in Requests, Portal!Insert(r) PROVE PortalInv'
  BY <1>7 DEF Portal!Insert, Portal!Answer, Portal!Goto, Portal!PortalTrailComplete, Portal!Row
<1>8. ASSUME NEW r \in Requests, Portal!Update(r) PROVE PortalInv'
  BY <1>8 DEF Portal!Update, Portal!Same, Portal!Exists, Portal!Answer, Portal!Goto, Portal!PortalTrailComplete
<1>9. ASSUME NEW r \in Requests, Portal!Record(r) PROVE PortalInv'
  BY <1>9 DEF Portal!Record, Portal!Exists, Portal!Answer, Portal!Goto, Portal!PortalTrailComplete
<1>10. ASSUME NEW r \in Requests, Portal!Remove(r) PROVE PortalInv'
  BY <1>10 DEF Portal!Remove, Portal!Answer, Portal!Goto, Portal!PortalTrailComplete, Portal!Row
<1>11. ASSUME NEW r \in Requests, Portal!Fail(r) PROVE PortalInv'
  BY <1>11 DEF Portal!Fail, Portal!Answer, Portal!Goto, Portal!PortalTrailComplete
<1>12. ASSUME NEW force \in BOOLEAN, Portal!RemoveClient(force) PROVE PortalInv'
  BY <1>12 DEF Portal!RemoveClient, Portal!PortalTrailComplete
<1>. QED
  BY <1>1, <1>2, <1>3, <1>4, <1>5, <1>6, <1>7, <1>8, <1>9, <1>10, <1>11, <1>12 DEF Portal!Next

LEMMA PortalInductive == Spec => []PortalInv
BY ServicesRunPortal, PortalStarts, PortalSteps, PTL DEF Portal!Spec
----------------------------------------------------------------------------
(* SEO reports. What is locked has been approved, and so has what a request   *)
(* that marks or publishes has read; a file shows an approved report.         *)
ReportNames == {FileOf[s] : s \in Slots}
ReportRows == [slot : Slots, status : Reports!AnyStatus, content : Nat, pdf : ReportNames \cup {NoFile}]
ReportsTyped ==
  /\ reports \in Seq(ReportRows \cup {Reports!NoRow})
  /\ media \in [ReportNames -> [report : Nat, content : Nat] \cup {NoFile}]
  /\ DOMAIN reportPc = Requests /\ DOMAIN reportCtx = Requests
ReportKeeps(r) ==
  LET i == reportCtx[r].report
  IN  /\ reportPc[r] # "idle" => i \in DOMAIN reports
      /\ reportPc[r] \in {"publish", "render", "mark"} => i \in approved
      /\ reportPc[r] = "render" =>
           /\ reportCtx[r].row.slot \in Slots /\ reportCtx[r].row.content \in Nat
           /\ Reports!Exists(i) => reports[i].slot = reportCtx[r].row.slot
      /\ reportPc[r] = "mark" /\ Reports!Exists(i) => media[FileOf[reports[i].slot]] # NoFile
LockedAreApproved == \A i \in DOMAIN reports :
  Reports!Exists(i) => /\ reports[i].status \in Reports!Locked => i \in approved
                       /\ reports[i].pdf # NoFile => media[reports[i].pdf] # NoFile
FilesShowApproved == \A f \in ReportNames : media[f] # NoFile => media[f].report \in approved
ReportsInv ==
  ReportsTyped /\ (\A r \in Requests : ReportKeeps(r)) /\ LockedAreApproved /\ FilesShowApproved

LEMMA ReportsStart == Reports!Init => ReportsInv
BY DEF Reports!Init, ReportsInv, ReportsTyped, ReportKeeps, LockedAreApproved, FilesShowApproved, ReportNames

LEMMA ReportOpens ==
  ASSUME ReportsInv, NEW r \in Requests, NEW i \in DOMAIN reports, NEW op, NEW statuses,
         op \notin {"idle", "mark"},
         op \in {"publish", "render"} => statuses \subseteq Reports!Locked,
         Reports!Open(r, i, op, statuses)
  PROVE  ReportsInv'
<1>. USE DEF Reports!Open, Reports!Goto, ReportsInv
<1>1. ReportsTyped' /\ LockedAreApproved' /\ FilesShowApproved'
  BY DEF ReportsTyped, LockedAreApproved, FilesShowApproved, Reports!Exists
<1>2. ASSUME NEW q \in Requests PROVE ReportKeeps(q)'
  BY DEF ReportKeeps, Reports!Exists, Reports!NoRow, ReportsTyped, LockedAreApproved, ReportRows
<1>. QED BY <1>1, <1>2

LEMMA ReportRowStays ==
  ASSUME ReportsTyped, NEW i \in DOMAIN reports
  PROVE  /\ Reports!Exists(i) => reports[i] \in ReportRows
         /\ reports[i] = Reports!NoRow \/ Reports!Exists(i)
BY DEF ReportsTyped, ReportRows, Reports!Exists, Reports!NoRow, Reports!AnyStatus, Reports!Locked

LEMMA ReportsSteps == ReportsInv /\ [Reports!Next]_(Reports!vars) => ReportsInv'
<1>. SUFFICES ASSUME ReportsInv, [Reports!Next]_(Reports!vars) PROVE ReportsInv'
  OBVIOUS
<1>. USE DEF ReportsInv
<1>1. CASE UNCHANGED Reports!vars
  BY <1>1 DEF Reports!vars, ReportsTyped, ReportKeeps, LockedAreApproved, FilesShowApproved, Reports!Exists
<1>2. ASSUME NEW r \in Requests, NEW s \in Slots, Reports!Create(r, s) PROVE ReportsInv'
  <2>. DEFINE row == [slot |-> s, status |-> "draft", content |-> 0, pdf |-> NoFile]
  <2>1. /\ reports' = Append(reports, row) /\ row \in ReportRows
        /\ UNCHANGED <<media, reportPc, reportCtx, approved>>
    BY <1>2 DEF Reports!Create, ReportRows, Reports!AnyStatus
  <2>2. ReportsTyped'
    BY <2>1 DEF ReportsTyped
  <2>3. /\ DOMAIN reports \subseteq DOMAIN reports'
        /\ \A i \in DOMAIN reports : reports'[i] = reports[i]
        /\ \A i \in DOMAIN reports' : i \in DOMAIN reports \/ reports'[i] = row
    BY <2>1 DEF ReportsTyped
  <2>4. LockedAreApproved' /\ FilesShowApproved'
    BY <2>1, <2>3 DEF LockedAreApproved, FilesShowApproved, Reports!Exists, Reports!Locked
  <2>5. ASSUME NEW q \in Requests PROVE ReportKeeps(q)'
    BY <2>1, <2>3 DEF ReportKeeps, Reports!Exists
  <2>. QED BY <2>2, <2>4, <2>5
<1>3. ASSUME NEW r \in Requests, NEW i \in DOMAIN reports,
             \/ Reports!BeginEdit(r, i) \/ Reports!BeginRemove(r, i) \/ Reports!BeginSubmit(r, i)
             \/ Reports!BeginApprove(r, i) \/ Reports!BeginReopen(r, i) \/ Reports!BeginPublish(r, i)
             \/ Reports!BeginPdf(r, i) \/ Reports!ChangeKeywords(r, i) \/ Reports!ChangeQueries(r, i)
             \/ Reports!ChangeSources(r, i) \/ Reports!ChangeSummaries(r, i) \/ Reports!ChangeEvidence(r, i)
      PROVE  ReportsInv'
  <2>1. CASE Reports!BeginPublish(r, i)
    BY <2>1, ReportOpens DEF Reports!BeginPublish, Reports!Locked
  <2>2. CASE Reports!BeginPdf(r, i)
    BY <2>2, ReportOpens DEF Reports!BeginPdf, Reports!Locked
  <2>3. CASE \/ Reports!BeginEdit(r, i) \/ Reports!ChangeKeywords(r, i) \/ Reports!ChangeQueries(r, i)
             \/ Reports!ChangeSources(r, i) \/ Reports!ChangeSummaries(r, i) \/ Reports!ChangeEvidence(r, i)
    <3>1. Reports!Open(r, i, "edit", Reports!Editable)
      BY <2>3 DEF Reports!BeginEdit, Reports!ChangeKeywords, Reports!ChangeQueries, Reports!ChangeSources,
         Reports!ChangeSummaries, Reports!ChangeEvidence
    <3>. QED BY <3>1, ReportOpens
  <2>4. CASE \/ Reports!BeginRemove(r, i) \/ Reports!BeginSubmit(r, i)
             \/ Reports!BeginApprove(r, i) \/ Reports!BeginReopen(r, i)
    <3>1. \E op \in {"remove", "submit", "approve", "reopen"} : \E statuses : Reports!Open(r, i, op, statuses)
      BY <2>4 DEF Reports!BeginRemove, Reports!BeginSubmit, Reports!BeginApprove, Reports!BeginReopen
    <3>. QED BY <3>1, ReportOpens
  <2>. QED BY <1>3, <2>1, <2>2, <2>3, <2>4
\* The write at the end of an operation that locks nothing and shows no file.
<1>4. ASSUME NEW r \in Requests, NEW row, UNCHANGED <<media, approved>>, Reports!Answer(r),
             LET i == reportCtx[r].report
             IN  reports' = IF Reports!Exists(i) THEN [reports EXCEPT ![i] = row] ELSE reports,
             LET i == reportCtx[r].report
             IN  Reports!Exists(i) => row = Reports!NoRow
                    \/ (row \in ReportRows /\ row.slot = reports[i].slot /\ row.pdf \in {reports[i].pdf, NoFile}
                         /\ (row.status \in Reports!Locked => i \in approved)),
             reportPc[r] # "idle"
      PROVE  ReportsInv'
  <2>. DEFINE i == reportCtx[r].report
  <2>1. i \in DOMAIN reports
    BY <1>4 DEF ReportKeeps
  <2>2. ReportsTyped'
    BY <1>4, <2>1, ReportRowStays DEF ReportsTyped, Reports!Answer, Reports!Goto
  <2>3. LockedAreApproved' /\ FilesShowApproved'
    BY <1>4, <2>1 DEF ReportsTyped, LockedAreApproved, FilesShowApproved, Reports!Exists, Reports!NoRow
  <2>4. ASSUME NEW q \in Requests PROVE ReportKeeps(q)'
    BY <1>4, <2>1 DEF ReportsTyped, ReportKeeps, Reports!Exists, Reports!NoRow, Reports!Answer, Reports!Goto
  <2>. QED BY <2>2, <2>3, <2>4
<1>5. ASSUME NEW r \in Requests, Reports!Edit(r) PROVE ReportsInv'
  <2>. DEFINE row == reports[reportCtx[r].report]
              new == [row EXCEPT !.content = IF @ < MaxEdits THEN @ + 1 ELSE @]
  <2>1. reportCtx[r].report \in DOMAIN reports
    BY <1>5 DEF Reports!Edit, Reports!Write, ReportKeeps
  <2>2. Reports!Exists(reportCtx[r].report) => /\ new \in ReportRows /\ new.slot = row.slot
                                               /\ new.pdf = row.pdf /\ new.status = row.status
    BY <2>1, ReportRowStays DEF ReportRows
  <2>. QED
    BY <1>4, <1>5, <2>1, <2>2 DEF Reports!Edit, Reports!Write, LockedAreApproved
<1>6. ASSUME NEW r \in Requests, Reports!Remove(r) PROVE ReportsInv'
  BY <1>4, <1>6 DEF Reports!Remove, Reports!Write
<1>7. ASSUME NEW r \in Requests, Reports!Submit(r) PROVE ReportsInv'
  <2>. DEFINE row == reports[reportCtx[r].report]
              new == [row EXCEPT !.status = "under_review"]
  <2>1. reportCtx[r].report \in DOMAIN reports
    BY <1>7 DEF Reports!Submit, Reports!Write, ReportKeeps
  <2>2. Reports!Exists(reportCtx[r].report) => /\ new \in ReportRows /\ new.slot = row.slot
                                               /\ new.pdf = row.pdf /\ new.status = "under_review"
    BY <2>1, ReportRowStays DEF ReportRows, Reports!AnyStatus
  <2>. QED
    BY <1>4, <1>7, <2>1, <2>2 DEF Reports!Submit, Reports!Write, Reports!Locked
<1>8. ASSUME NEW r \in Requests, Reports!Reopen(r) PROVE ReportsInv'
  <2>. DEFINE row == reports[reportCtx[r].report]
              new == [row EXCEPT !.status = "draft", !.pdf = NoFile]
  <2>1. reportCtx[r].report \in DOMAIN reports
    BY <1>8 DEF Reports!Reopen, Reports!Write, ReportKeeps
  <2>2. Reports!Exists(reportCtx[r].report) => /\ new \in ReportRows /\ new.slot = row.slot
                                               /\ new.pdf = NoFile /\ new.status = "draft"
    BY <2>1, ReportRowStays DEF ReportRows, Reports!AnyStatus
  <2>. QED
    BY <1>4, <1>8, <2>1, <2>2 DEF Reports!Reopen, Reports!Write, Reports!Locked
<1>9. ASSUME NEW r \in Requests, Reports!Publish(r) PROVE ReportsInv'
  <2>. DEFINE row == reports[reportCtx[r].report]
              new == [row EXCEPT !.status = "published"]
  <2>1. reportCtx[r].report \in DOMAIN reports /\ reportCtx[r].report \in approved
    BY <1>9 DEF Reports!Publish, Reports!Write, ReportKeeps
  <2>2. Reports!Exists(reportCtx[r].report) => /\ new \in ReportRows /\ new.slot = row.slot /\ new.pdf = row.pdf
    BY <2>1, ReportRowStays DEF ReportRows, Reports!AnyStatus, Reports!Locked
  <2>. QED
    BY <1>4, <1>9, <2>1, <2>2 DEF Reports!Publish, Reports!Write
<1>10. ASSUME NEW r \in Requests, Reports!Approve(r) PROVE ReportsInv'
  <2>. DEFINE i == reportCtx[r].report
              row == [reports[i] EXCEPT !.status = "approved"]
  <2>1. /\ reports' = IF Reports!Exists(i) THEN [reports EXCEPT ![i] = row] ELSE reports
        /\ UNCHANGED media /\ Reports!Answer(r) /\ approved' = approved \cup {i} /\ i \in DOMAIN reports
    BY <1>10 DEF Reports!Approve, Reports!Write, ReportKeeps
  <2>2. Reports!Exists(i) => row \in ReportRows /\ row.slot = reports[i].slot /\ row.pdf = reports[i].pdf
    BY <2>1, ReportRowStays DEF ReportRows, Reports!AnyStatus, Reports!Locked
  <2>3. ReportsTyped'
    <3>1. reports' \in Seq(ReportRows \cup {Reports!NoRow})
      BY <2>1, <2>2 DEF ReportsTyped
    <3>. QED BY <2>1, <3>1 DEF ReportsTyped, Reports!Answer, Reports!Goto
  <2>4. LockedAreApproved' /\ FilesShowApproved'
    BY <2>1, <2>2 DEF ReportsTyped, LockedAreApproved, FilesShowApproved, Reports!Exists
  <2>5. ASSUME NEW q \in Requests PROVE ReportKeeps(q)'
    BY <2>1, <2>2 DEF ReportsTyped, ReportKeeps, Reports!Exists, Reports!Answer, Reports!Goto
  <2>. QED BY <2>3, <2>4, <2>5
<1>11. ASSUME NEW r \in Requests, Reports!Render(r) PROVE ReportsInv'
  <2>. DEFINE i == reportCtx[r].report
              name == FileOf[reportCtx[r].row.slot]
              shown == [report |-> i, content |-> reportCtx[r].row.content]
  <2>1. /\ media' = [media EXCEPT ![name] = shown]
        /\ Reports!Goto(r, "mark", [op |-> "mark", report |-> i])
        /\ UNCHANGED <<reports, approved>>
    BY <1>11 DEF Reports!Render
  <2>2. /\ name \in ReportNames /\ i \in DOMAIN reports /\ i \in approved
        /\ reportCtx[r].row.content \in Nat
        /\ Reports!Exists(i) => FileOf[reports[i].slot] = name
    BY <1>11 DEF Reports!Render, ReportKeeps, ReportNames
  <2>3. shown \in [report : Nat, content : Nat] /\ shown # NoFile
    BY <2>2, FilesAssumption DEF ReportsTyped
  <2>4. ReportsTyped'
    BY <2>1, <2>2, <2>3 DEF ReportsTyped, Reports!Goto
  <2>5. \A f \in ReportNames : media'[f] = IF f = name THEN shown ELSE media[f]
    BY <2>1, <2>2 DEF ReportsTyped
  <2>6. LockedAreApproved' /\ FilesShowApproved'
    <3>1. FilesShowApproved'
      BY <2>1, <2>2, <2>5 DEF FilesShowApproved
    <3>2. ASSUME NEW j \in DOMAIN reports, Reports!Exists(j), reports[j].pdf # NoFile PROVE media'[reports[j].pdf] # NoFile
      BY <3>2, <2>3, <2>5, ReportRowStays DEF LockedAreApproved, ReportRows
    <3>. QED BY <2>1, <3>1, <3>2 DEF LockedAreApproved, Reports!Exists
  <2>7. ASSUME NEW q \in Requests PROVE ReportKeeps(q)'
    <3>1. CASE q = r
      BY <3>1, <2>1, <2>2, <2>3, <2>5 DEF ReportsTyped, ReportKeeps, Reports!Exists, Reports!Goto
    <3>2. CASE q # r
      <4>1. reportPc'[q] = reportPc[q] /\ reportCtx'[q] = reportCtx[q]
        BY <3>2, <2>1 DEF ReportsTyped, Reports!Goto
      <4>2. ASSUME NEW j \in DOMAIN reports, Reports!Exists(j) PROVE FileOf[reports[j].slot] \in ReportNames
        BY <4>2, ReportRowStays DEF ReportNames, ReportRows
      <4>. QED
        BY <4>1, <4>2, <2>1, <2>3, <2>5 DEF ReportKeeps, Reports!Exists
    <3>. QED BY <3>1, <3>2
  <2>. QED BY <2>4, <2>6, <2>7
<1>12. ASSUME NEW r \in Requests, Reports!RenderFails(r) PROVE ReportsInv'
  BY <1>12 DEF Reports!RenderFails, Reports!Answer, Reports!Goto, ReportsTyped, ReportKeeps,
     LockedAreApproved, FilesShowApproved, Reports!Exists
<1>13. ASSUME NEW r \in Requests, Reports!Mark(r) PROVE ReportsInv'
  <2>. DEFINE i == reportCtx[r].report
              row == [reports[i] EXCEPT !.status = "generated", !.pdf = FileOf[reports[i].slot]]
  <2>1. /\ reports' = IF Reports!Exists(i) THEN [reports EXCEPT ![i] = row] ELSE reports
        /\ UNCHANGED <<media, approved>> /\ Reports!Answer(r) /\ i \in DOMAIN reports /\ i \in approved
    BY <1>13 DEF Reports!Mark, Reports!Write, ReportKeeps
  <2>2. Reports!Exists(i) => /\ row \in ReportRows /\ row.slot = reports[i].slot
                             /\ row.pdf = FileOf[reports[i].slot] /\ media[row.pdf] # NoFile
    <3>1. Reports!Exists(i) => media[FileOf[reports[i].slot]] # NoFile
      BY <1>13 DEF Reports!Mark, Reports!Write, ReportKeeps
    <3>2. PICK before : before = reports[i]
      OBVIOUS
    <3>3. Reports!Exists(i) => before \in ReportRows
      BY <2>1, <3>2, ReportRowStays
    <3>4. before \in ReportRows =>
            LET new == [before EXCEPT !.status = "generated", !.pdf = FileOf[before.slot]]
            IN  new \in ReportRows /\ new.slot = before.slot /\ new.pdf = FileOf[before.slot]
      BY DEF ReportRows, ReportNames, Reports!AnyStatus, Reports!Locked
    <3>. QED BY <3>1, <3>2, <3>3, <3>4
  <2>3. ReportsTyped'
    BY <2>1, <2>2 DEF ReportsTyped, Reports!Answer, Reports!Goto
  <2>4. LockedAreApproved' /\ FilesShowApproved'
    BY <2>1, <2>2 DEF ReportsTyped, LockedAreApproved, FilesShowApproved, Reports!Exists
  <2>5. ASSUME NEW q \in Requests PROVE ReportKeeps(q)'
    BY <2>1, <2>2 DEF ReportsTyped, ReportKeeps, Reports!Exists, Reports!Answer, Reports!Goto
  <2>. QED BY <2>3, <2>4, <2>5
<1>. QED
  BY <1>1, <1>2, <1>3, <1>5, <1>6, <1>7, <1>8, <1>9, <1>10, <1>11, <1>12, <1>13 DEF Reports!Next, Reports!Ids

(* publishReport: a client sees no report that was never approved, and        *)
(* downloads no PDF rendered from one, through any stale writes.              *)
THEOREM PublishedIsApproved == Spec => []OnlyApprovedWorkIsPublished
<1>1. ReportsInv => OnlyApprovedWorkIsPublished
  BY ReportRowStays DEF OnlyApprovedWorkIsPublished, Reports!OnlyApprovedWorkIsPublished, Reports!Visible,
     Reports!Ids, Reports!Download, ReportsInv, LockedAreApproved, FilesShowApproved, Reports!Locked, ReportRows
<1>. QED
  BY <1>1, ServicesRunReports, ReportsStart, ReportsSteps, PTL DEF Reports!Spec
----------------------------------------------------------------------------
(* SEO work. An approved status, in a row or kept by a request that will      *)
(* write it back, means that a manager has approved that log before.          *)
LogStatuses == {"draft", "submitted", "approved", "rejected"}
LogRows == [exec : Work!Users, day : Days, task : Tasks \cup {NoTask}, status : LogStatuses]
WorkTyped ==
  /\ logs \in Seq(LogRows \cup {Work!NoRow})
  /\ DOMAIN workPc = Requests /\ DOMAIN workCtx = Requests
WorkKeeps(r) ==
  /\ workPc[r] \in {"insert", "find"} => workCtx[r].exec \in Work!Users /\ workCtx[r].day \in Days
  /\ workPc[r] = "add" => /\ workCtx[r].log \in DOMAIN logs /\ workCtx[r].status \in LogStatuses
                          /\ workCtx[r].status = "approved" => workCtx[r].log \in cleared
  /\ workPc[r] = "update" => workCtx[r].log \in DOMAIN logs
  /\ workPc[r] = "reviewLogs" => workCtx[r].user \in Managers /\ workCtx[r].status \in LogStatuses
WorkInv == WorkTyped /\ (\A r \in Requests : WorkKeeps(r)) /\ Work!NoSelfApproval

LEMMA WorkStarts == Work!Init => WorkInv
BY DEF Work!Init, WorkInv, WorkTyped, WorkKeeps, Work!NoSelfApproval, Work!Ids

LEMMA LogRowIs ==
  ASSUME WorkTyped, NEW l \in DOMAIN logs
  PROVE  /\ Work!Exists(l) => logs[l] \in LogRows
         /\ logs[l] = Work!NoRow \/ Work!Exists(l)
BY DEF WorkTyped, LogRows, LogStatuses, Work!Exists, Work!NoRow

(* A new log is nobody's approved one unless its maker may approve it. *)
LEMMA NewLogIsCleared ==
  ASSUME WorkInv, NEW u, NEW exec \in Work!Users, NEW d \in Days, NEW t \in Tasks \cup {NoTask},
         NEW s \in Work!MaySend(u), NEW default \in {"draft", "submitted"},
         Work!NewLog(u, exec, d, t, s, default)
  PROVE  /\ logs' \in Seq(LogRows \cup {Work!NoRow}) /\ Work!NoSelfApproval'
         /\ DOMAIN logs \subseteq DOMAIN logs' /\ cleared \subseteq cleared'
<1>. USE DEF WorkInv, WorkTyped
<1>1. CASE UNCHANGED <<logs, cleared>>
  BY <1>1 DEF Work!NoSelfApproval, Work!Ids, Work!Exists
<1>2. CASE ~UNCHANGED <<logs, cleared>>
  <2>. DEFINE row == [exec |-> exec, day |-> d, task |-> t, status |-> Work!Or(s, default)]
  <2>1. logs' = Append(logs, row) /\ Work!Clearing(u, {Len(logs) + 1}, s)
    BY <1>2 DEF Work!NewLog
  <2>2. row \in LogRows /\ (row.status = "approved" => s = "approved" /\ Work!IsPrivileged(u))
    BY DEF LogRows, LogStatuses, Work!Or, Work!MaySend, Work!NotSent
  <2>3. logs' \in Seq(LogRows \cup {Work!NoRow})
    BY <2>1, <2>2
  <2>4. cleared \subseteq cleared' /\ (row.status = "approved" => Len(logs) + 1 \in cleared')
    BY <2>1, <2>2 DEF Work!Clearing
  <2>5. /\ DOMAIN logs \subseteq DOMAIN logs' /\ \A l \in DOMAIN logs : logs'[l] = logs[l]
        /\ \A l \in DOMAIN logs' : l \in DOMAIN logs \/ (l = Len(logs) + 1 /\ logs'[l] = row)
    BY <2>1
  <2>. QED BY <2>3, <2>4, <2>5 DEF Work!NoSelfApproval, Work!Ids, Work!Exists
<1>. QED BY <1>1, <1>2

(* So is a status that is written to a log: it is sent by whoever may approve *)
(* it, or was approved before.                                                *)
LEMMA SentStatusIsCleared ==
  ASSUME WorkInv, NEW u, NEW l \in DOMAIN logs, Work!Exists(l), NEW s \in Work!MaySend(u),
         NEW default \in LogStatuses, default = "approved" => l \in cleared,
         logs' = [logs EXCEPT ![l].status = Work!Or(s, default)], Work!Clearing(u, {l}, s)
  PROVE  /\ logs' \in Seq(LogRows \cup {Work!NoRow}) /\ Work!NoSelfApproval'
         /\ DOMAIN logs \subseteq DOMAIN logs' /\ cleared \subseteq cleared'
<1>. USE DEF WorkInv, WorkTyped
<1>. DEFINE status == Work!Or(s, default)
            row == [logs[l] EXCEPT !.status = status]
<1>1. status \in LogStatuses /\ (status = "approved" => l \in cleared')
  BY DEF LogStatuses, Work!Or, Work!MaySend, Work!NotSent, Work!Clearing
<1>2. row \in LogRows /\ row.status = status
  BY <1>1, LogRowIs DEF LogRows
<1>3. logs' = [logs EXCEPT ![l] = row]
  OBVIOUS
<1>4. logs' \in Seq(LogRows \cup {Work!NoRow}) /\ DOMAIN logs' = DOMAIN logs
  BY <1>2, <1>3
<1>5. cleared \subseteq cleared'
  BY DEF Work!Clearing
<1>. QED BY <1>1, <1>2, <1>3, <1>4, <1>5 DEF Work!NoSelfApproval, Work!Ids, Work!Exists

LEMMA WorkMovesOn ==
  ASSUME WorkInv, NEW r \in Requests, NEW where, NEW what, Work!Goto(r, where, what),
         logs' \in Seq(LogRows \cup {Work!NoRow}), Work!NoSelfApproval',
         DOMAIN logs \subseteq DOMAIN logs', cleared \subseteq cleared',
         where \in {"insert", "find"} => what.exec \in Work!Users /\ what.day \in Days,
         where = "add" => /\ what.log \in DOMAIN logs /\ what.status \in LogStatuses
                          /\ what.status = "approved" => what.log \in cleared,
         where = "update" => what.log \in DOMAIN logs,
         where = "reviewLogs" => what.user \in Managers /\ what.status \in LogStatuses
  PROVE  WorkInv'
BY DEF WorkInv, WorkTyped, WorkKeeps, Work!Goto

LEMMA WorkSteps == WorkInv /\ [Work!Next]_(Work!vars) => WorkInv'
<1>. SUFFICES ASSUME WorkInv, [Work!Next]_(Work!vars) PROVE WorkInv'
  OBVIOUS
<1>. USE DEF WorkInv
<1>0. ASSUME UNCHANGED <<logs, cleared>>
      PROVE  /\ logs' \in Seq(LogRows \cup {Work!NoRow}) /\ Work!NoSelfApproval'
             /\ DOMAIN logs \subseteq DOMAIN logs' /\ cleared \subseteq cleared'
  BY <1>0 DEF WorkTyped, Work!NoSelfApproval, Work!Ids, Work!Exists
<1>1. CASE UNCHANGED <<logs, cleared, workPc, workCtx>>
  BY <1>1 DEF WorkTyped, WorkKeeps, Work!NoSelfApproval, Work!Ids, Work!Exists
<1>2. ASSUME NEW r \in Requests, NEW u \in Work!Users, NEW d \in Days, Work!AddItems(r, u, d) PROVE WorkInv'
  BY <1>0, <1>2, WorkMovesOn DEF Work!AddItems
<1>3. ASSUME NEW r \in Requests, NEW u \in Work!Users, NEW d \in Days, NEW exec \in Executives \cup {u},
             Work!Create(r, u, exec, d)
      PROVE  WorkInv'
  BY <1>0, <1>3, WorkMovesOn DEF Work!Create, Work!Users
<1>4. ASSUME NEW r \in Requests, NEW u \in Work!Users, NEW l \in DOMAIN logs, Work!Edit(r, u, l) PROVE WorkInv'
  BY <1>0, <1>4, WorkMovesOn DEF Work!Edit
<1>5. ASSUME NEW r \in Requests, NEW u \in Work!Users, NEW l \in DOMAIN logs, Work!Delete(r, u, l) PROVE WorkInv'
  BY <1>5 DEF Work!Delete, WorkTyped, WorkKeeps, Work!NoSelfApproval, Work!Ids, Work!Exists, Work!NoRow
<1>6. ASSUME NEW r \in Requests, NEW u \in Work!Users, NEW l \in DOMAIN logs, NEW s \in {"approved", "rejected"},
             Work!Decide(r, u, l, s)
      PROVE  WorkInv'
  <2>1. s \in Work!MaySend(u) /\ Work!Or(s, "draft") = s
    BY <1>6 DEF Work!Decide, Work!MaySend, Work!Or, Work!NotSent
  <2>2. /\ logs' \in Seq(LogRows \cup {Work!NoRow}) /\ Work!NoSelfApproval'
        /\ DOMAIN logs \subseteq DOMAIN logs' /\ cleared \subseteq cleared'
    BY <1>6, <2>1, SentStatusIsCleared DEF Work!Decide, LogStatuses
  <2>3. CASE UNCHANGED <<workPc, workCtx>>
    BY <2>2, <2>3 DEF WorkTyped, WorkKeeps
  <2>4. CASE ~UNCHANGED <<workPc, workCtx>>
    <3>1. \E where \in {"others", "return"} : \E what : Work!Goto(r, where, what)
      BY <1>6, <2>4 DEF Work!Decide
    <3>. QED BY <2>2, <3>1, WorkMovesOn
  <2>. QED BY <2>3, <2>4
<1>7. ASSUME NEW r \in Requests, Work!Insert(r) PROVE WorkInv'
  <2>1. workCtx[r].exec \in Work!Users /\ workCtx[r].day \in Days
    BY <1>7 DEF Work!Insert, WorkKeeps
  <2>2. PICK t \in Tasks \cup {NoTask}, s \in Work!MaySend(Work!who(r)) :
             Work!NewLog(Work!who(r), workCtx[r].exec, workCtx[r].day, t, s, "draft")
    BY <1>7 DEF Work!Insert
  <2>3. /\ logs' \in Seq(LogRows \cup {Work!NoRow}) /\ Work!NoSelfApproval'
        /\ DOMAIN logs \subseteq DOMAIN logs' /\ cleared \subseteq cleared'
    BY <2>1, <2>2, NewLogIsCleared
  <2>. QED BY <1>7, <2>3, WorkMovesOn DEF Work!Insert, Work!Answer
<1>8. ASSUME NEW r \in Requests, Work!Find(r) PROVE WorkInv'
  <2>. DEFINE own == Work!OfDay(workCtx[r].exec, workCtx[r].day)
  <2>1. workCtx[r].exec \in Work!Users /\ workCtx[r].day \in Days
    BY <1>8 DEF Work!Find, WorkKeeps
  <2>2. CASE own = {}
    <3>1. Work!Answer(r)
      BY <1>8, <2>2 DEF Work!Find
    <3>2. PICK t \in Tasks \cup {NoTask}, s \in Work!MaySend(Work!who(r)) :
               Work!NewLog(Work!who(r), workCtx[r].exec, workCtx[r].day, t, s, "submitted")
      BY <1>8, <2>2 DEF Work!Find
    <3>3. /\ logs' \in Seq(LogRows \cup {Work!NoRow}) /\ Work!NoSelfApproval'
          /\ DOMAIN logs \subseteq DOMAIN logs' /\ cleared \subseteq cleared'
      BY <2>1, <3>2, NewLogIsCleared
    <3>. QED BY <3>1, <3>3, WorkMovesOn DEF Work!Answer
  <2>3. CASE own # {}
    <3>1. PICK l \in own : Work!Goto(r, "add", [user |-> Work!who(r), log |-> l, status |-> logs[l].status])
      BY <1>8, <2>3 DEF Work!Find
    <3>2. UNCHANGED <<logs, cleared>>
      BY <1>8, <2>3 DEF Work!Find
    <3>3. l \in DOMAIN logs /\ Work!Exists(l)
      BY <3>1 DEF Work!OfDay, Work!Ids
    <3>4. logs[l].status \in LogStatuses /\ (logs[l].status = "approved" => l \in cleared)
      BY <3>3, LogRowIs DEF LogRows, Work!NoSelfApproval, Work!Ids
    <3>. QED BY <1>0, <3>1, <3>2, <3>3, <3>4, WorkMovesOn
  <2>. QED BY <2>2, <2>3
<1>9. ASSUME NEW r \in Requests, Work!Add(r) PROVE WorkInv'
  <2>. DEFINE l == workCtx[r].log
  <2>1. /\ l \in DOMAIN logs /\ workCtx[r].status \in LogStatuses
        /\ workCtx[r].status = "approved" => l \in cleared
    BY <1>9 DEF Work!Add, WorkKeeps
  <2>2. /\ logs' \in Seq(LogRows \cup {Work!NoRow}) /\ Work!NoSelfApproval'
        /\ DOMAIN logs \subseteq DOMAIN logs' /\ cleared \subseteq cleared'
    BY <1>0, <1>9, <2>1, SentStatusIsCleared DEF Work!Add
  <2>. QED BY <1>9, <2>2, WorkMovesOn DEF Work!Add, Work!Answer
<1>10. ASSUME NEW r \in Requests, Work!Update(r) PROVE WorkInv'
  <2>. DEFINE l == workCtx[r].log
  <2>1. l \in DOMAIN logs
    BY <1>10 DEF Work!Update, WorkKeeps
  <2>2. Work!Exists(l) => logs[l].status \in LogStatuses /\ (logs[l].status = "approved" => l \in cleared)
    BY <2>1, LogRowIs DEF LogRows, Work!NoSelfApproval, Work!Ids
  <2>3. /\ logs' \in Seq(LogRows \cup {Work!NoRow}) /\ Work!NoSelfApproval'
        /\ DOMAIN logs \subseteq DOMAIN logs' /\ cleared \subseteq cleared'
    BY <1>0, <1>10, <2>1, <2>2, SentStatusIsCleared DEF Work!Update
  <2>. QED BY <1>10, <2>3, WorkMovesOn DEF Work!Update, Work!Answer
<1>11. ASSUME NEW r \in Requests, Work!Others(r) PROVE WorkInv'
  <2>1. \E where \in {"complete", "idle"} : \E what : Work!Goto(r, where, what)
    BY <1>11 DEF Work!Others, Work!Answer
  <2>. QED BY <1>0, <1>11, <2>1, WorkMovesOn DEF Work!Others
<1>12. ASSUME NEW r \in Requests, Work!Complete(r) \/ Work!Return(r) PROVE WorkInv'
  BY <1>0, <1>12, WorkMovesOn DEF Work!Complete, Work!Return, Work!Settle, Work!Answer
<1>13. ASSUME NEW r \in Requests, NEW u \in Work!Users, NEW t \in Tasks, NEW s \in {"approved", "rejected"},
              Work!Review(r, u, t, s)
       PROVE  WorkInv'
  BY <1>0, <1>13, WorkMovesOn DEF Work!Review, Work!IsPrivileged, LogStatuses
<1>14. ASSUME NEW r \in Requests, Work!ReviewLogs(r) PROVE WorkInv'
  <2>. DEFINE waiting == {l \in Work!OfTask(workCtx[r].task) : logs[l].status = "submitted"}
              status == workCtx[r].status
  <2>1. Work!IsPrivileged(Work!who(r)) /\ status \in LogStatuses
    BY <1>14 DEF Work!ReviewLogs, WorkKeeps, Work!IsPrivileged, Work!who
  <2>2. /\ logs' = [l \in DOMAIN logs |-> IF l \in waiting THEN [logs[l] EXCEPT !.status = status] ELSE logs[l]]
        /\ cleared' = IF status = "approved" THEN cleared \cup waiting ELSE cleared
        /\ Work!Answer(r)
    BY <1>14, <2>1 DEF Work!ReviewLogs, Work!Clearing, Work!Ids
  <2>3. ASSUME NEW l \in DOMAIN logs
        PROVE  /\ logs'[l] \in LogRows \cup {Work!NoRow}
               /\ logs'[l].status = "approved" => l \in cleared' \/ logs[l].status = "approved"
    <3>1. CASE l \in waiting
      <4>1. logs[l] \in LogRows
        BY <3>1, LogRowIs DEF Work!OfTask
      <4>2. [logs[l] EXCEPT !.status = status] \in LogRows
        BY <4>1, <2>1 DEF LogRows
      <4>. QED BY <2>2, <3>1, <4>1, <4>2 DEF LogRows
    <3>2. CASE l \notin waiting
      BY <2>2, <3>2 DEF WorkTyped
    <3>. QED BY <3>1, <3>2
  <2>4. logs' \in Seq(LogRows \cup {Work!NoRow}) /\ DOMAIN logs' = DOMAIN logs
    BY <2>2, <2>3 DEF WorkTyped
  <2>5. cleared \subseteq cleared'
    BY <2>2
  <2>6. Work!NoSelfApproval'
    BY <2>2, <2>3, <2>4, <2>5 DEF Work!NoSelfApproval, Work!Ids, Work!Exists
  <2>. QED BY <2>2, <2>4, <2>5, <2>6, WorkMovesOn DEF Work!Answer
<1>15. ASSUME NEW r \in Requests, NEW u \in Work!Users, NEW t \in Tasks, Work!DeleteTask(r, u, t) PROVE WorkInv'
  <2>1. /\ logs' = [l \in DOMAIN logs |-> IF l \in Work!OfTask(t) THEN [logs[l] EXCEPT !.task = NoTask] ELSE logs[l]]
        /\ UNCHANGED <<workPc, workCtx, cleared>>
    BY <1>15 DEF Work!DeleteTask, Work!Ids
  <2>2. ASSUME NEW l \in DOMAIN logs
        PROVE  logs'[l] \in LogRows \cup {Work!NoRow} /\ logs'[l].status = logs[l].status
    <3>1. CASE l \in Work!OfTask(t)
      <4>1. logs[l] \in LogRows
        BY <3>1, LogRowIs DEF Work!OfTask
      <4>2. [logs[l] EXCEPT !.task = NoTask] \in LogRows
        BY <4>1 DEF LogRows
      <4>. QED BY <2>1, <3>1, <4>1, <4>2 DEF LogRows
    <3>2. CASE l \notin Work!OfTask(t)
      BY <2>1, <3>2 DEF WorkTyped
    <3>. QED BY <3>1, <3>2
  <2>3. logs' \in Seq(LogRows \cup {Work!NoRow}) /\ DOMAIN logs' = DOMAIN logs
    BY <2>1, <2>2 DEF WorkTyped
  <2>4. Work!NoSelfApproval'
    BY <2>1, <2>2, <2>3 DEF Work!NoSelfApproval, Work!Ids, Work!Exists
  <2>. QED BY <2>1, <2>3, <2>4 DEF WorkTyped, WorkKeeps
<1>16. ASSUME NEW r \in Requests, NEW u \in Work!Users, NEW t \in Tasks,
              \/ Work!MarkReady(r, u, t)
              \/ \E exec \in Executives : Work!CreateTask(r, u, t, exec) \/ \E s \in Work!TaskStatuses : Work!EditTask(r, u, t, s, exec)
       PROVE  WorkInv'
  BY <1>1, <1>16 DEF Work!MarkReady, Work!CreateTask, Work!EditTask, Work!Rest
<1>17. ASSUME NEW r \in Requests, Work!LogStep(r) PROVE WorkInv'
  BY <1>2, <1>3, <1>4, <1>5, <1>6, <1>7, <1>8, <1>9, <1>10, <1>11, <1>12, <1>17 DEF Work!LogStep, Work!Ids
<1>18. ASSUME NEW r \in Requests, Work!TaskStep(r) PROVE WorkInv'
  BY <1>13, <1>14, <1>15, <1>16, <1>18 DEF Work!TaskStep
<1>. QED BY <1>1, <1>17, <1>18 DEF Work!Next, Work!vars

(* "No self-approval" (assertLogStatusAllowed): whatever requests run at the  *)
(* same time, no executive gets a log approved that no manager has approved.  *)
THEOREM NobodyApprovesAlone == Spec => []NoSelfApproval
<1>1. WorkInv => NoSelfApproval
  BY DEF NoSelfApproval, WorkInv
<1>. QED
  BY <1>1, ServicesRunWork, WorkStarts, WorkSteps, PTL DEF Work!Spec
----------------------------------------------------------------------------
(* Stored passwords. *)
VaultValues == [key : Keys \cup {Vault!Legacy}, of : Nat] \cup {Vault!Nothing}
VaultRows == [exists : BOOLEAN, store : Vault!Stores, value : VaultValues,
              readers : SUBSET CredentialUsers, writers : SUBSET CredentialUsers]
Actions == {"CREATE", "UPDATE_SECRET", "DELETE", "REVEAL", "REVEAL_DENIED"}
TrailRows == [user : CredentialUsers, id : Nat, action : Actions]
VaultTyped ==
  /\ records \in Seq(VaultRows) /\ Len(records) <= MaxRecords
  /\ trail \in Seq(TrailRows)
  /\ setBy \in [1..MaxRecords -> CredentialUsers \cup {Vault!Nobody}]
  /\ listed \subseteq Keys /\ active \in listed
  /\ DOMAIN vaultPc = Reveals /\ DOMAIN vaultCtx = Reveals
VaultKeeps(r) == vaultPc[r] # "idle" => vaultCtx[r].user \in CredentialUsers /\ vaultCtx[r].id \in DOMAIN records
\* Nobody has set a secret of a record that is still to be made.
NobodySetsUnmade == \A c \in 1..MaxRecords : c > Len(records) => setBy[c] = Vault!Nobody
VaultInv ==
  /\ VaultTyped /\ (\A r \in Reveals : VaultKeeps(r)) /\ NobodySetsUnmade
  /\ Vault!SecretsLeaveATrail /\ Vault!TrailNamesTheWriter /\ Vault!StoredSecretsAreReadable

LEMMA VaultStarts == Vault!Init => VaultInv
<1>. SUFFICES ASSUME Vault!Init PROVE VaultInv
  OBVIOUS
<1>. DEFINE old(store) == Vault!Row(store, [key |-> Vault!Legacy, of |-> 0], {})
<1>1. CASE records = << >>
  <2>1. VaultTyped
    BY <1>1, VaultAssumption DEF VaultTyped, Vault!Init
  <2>. QED
    BY <1>1, <2>1 DEF Vault!Init, VaultInv, VaultTyped, VaultKeeps, NobodySetsUnmade, Vault!SecretsLeaveATrail,
       Vault!TrailNamesTheWriter, Vault!StoredSecretsAreReadable, Vault!Ids
<1>2. ASSUME NEW store \in Vault!Stores, records = <<old(store)>> PROVE VaultInv
  <2>1. old(store) \in VaultRows /\ old(store).value.key = Vault!Legacy
    BY DEF Vault!Row, VaultRows, VaultValues
  <2>2. records \in Seq(VaultRows) /\ Len(records) = 1 /\ records[1].value.key = Vault!Legacy
    BY <1>2, <2>1
  <2>3. VaultTyped
    BY <2>2, VaultAssumption DEF VaultTyped, Vault!Init
  <2>. QED
    BY <2>2, <2>3 DEF Vault!Init, VaultInv, VaultTyped, VaultKeeps, NobodySetsUnmade, Vault!SecretsLeaveATrail,
       Vault!TrailNamesTheWriter, Vault!StoredSecretsAreReadable, Vault!Ids, Vault!Decrypts
<1>. QED BY <1>1, <1>2 DEF Vault!Init

VaultTrailGrows == trail' = trail \/ \E row \in TrailRows : trail' = Append(trail, row)
VaultRequestsMove ==
  \/ UNCHANGED <<vaultPc, vaultCtx>>
  \/ \E r \in Reveals : \E where, what :
       Vault!Goto(r, where, what) /\ (where # "idle" => what.user \in CredentialUsers /\ what.id \in DOMAIN records)

(* What is in the trail stays there, so every secret handed out keeps its row. *)
LEMMA RevealsStayRecorded ==
  ASSUME VaultInv, VaultTrailGrows, given' = given
  PROVE  Vault!SecretsLeaveATrail' /\ trail' \in Seq(TrailRows)
<1>. USE DEF VaultInv, VaultTyped
<1>1. trail' \in Seq(TrailRows)
  BY DEF VaultTrailGrows
<1>2. DOMAIN trail \subseteq DOMAIN trail' /\ \A i \in DOMAIN trail : trail'[i] = trail[i]
  BY DEF VaultTrailGrows
<1>. QED BY <1>1, <1>2 DEF Vault!SecretsLeaveATrail

\* The last row about a write of a record's secret is by whoever set it.
Named(c) == setBy[c] # Vault!Nobody =>
  \E i \in Vault!WritesOf(c) : trail[i].user = setBy[c] /\ \A j \in Vault!WritesOf(c) : j <= i
LEMMA NamedStays ==
  ASSUME VaultInv, NEW c \in DOMAIN records, setBy'[c] \in {setBy[c], Vault!Nobody},
         \/ trail' = trail
         \/ \E row \in TrailRows : /\ trail' = Append(trail, row)
                                   /\ row.id # c \/ row.action \notin {"CREATE", "UPDATE_SECRET"}
  PROVE  Named(c)'
<1>. USE DEF VaultInv, VaultTyped
<1>1. Named(c)
  BY DEF Vault!TrailNamesTheWriter, Named, Vault!Ids
<1>2. Vault!WritesOf(c)' = Vault!WritesOf(c) /\ \A i \in Vault!WritesOf(c) : trail'[i] = trail[i]
  <2>1. CASE trail' = trail
    BY <2>1 DEF Vault!WritesOf
  <2>2. ASSUME NEW row \in TrailRows, trail' = Append(trail, row), row.id # c \/ row.action \notin {"CREATE", "UPDATE_SECRET"}
        PROVE  Vault!WritesOf(c)' = Vault!WritesOf(c) /\ \A i \in Vault!WritesOf(c) : trail'[i] = trail[i]
    <3>1. /\ DOMAIN trail' = DOMAIN trail \cup {Len(trail) + 1} /\ Len(trail) + 1 \notin DOMAIN trail
          /\ trail'[Len(trail) + 1] = row /\ \A i \in DOMAIN trail : trail'[i] = trail[i]
      BY <2>2
    <3>. QED BY <2>2, <3>1 DEF Vault!WritesOf
  <2>. QED BY <2>1, <2>2
<1>. QED BY <1>1, <1>2 DEF Named
LEMMA WritingNames ==
  ASSUME VaultInv, NEW c \in Nat, NEW u \in CredentialUsers, NEW action \in {"CREATE", "UPDATE_SECRET"},
         setBy'[c] = u, trail' = Append(trail, [user |-> u, id |-> c, action |-> action])
  PROVE  Named(c)'
<1>. DEFINE i == Len(trail) + 1
<1>1. i \in Vault!WritesOf(c)' /\ trail'[i].user = u
  BY DEF VaultInv, VaultTyped, Vault!WritesOf
<1>2. \A j \in Vault!WritesOf(c)' : j <= i
  BY DEF VaultInv, VaultTyped, Vault!WritesOf
<1>. QED BY <1>1, <1>2 DEF Named

LEMMA VaultMoves ==
  ASSUME VaultInv, UNCHANGED <<listed, active, given>>, VaultTrailGrows, VaultRequestsMove,
         records' \in Seq(VaultRows), Len(records') <= MaxRecords, DOMAIN records \subseteq DOMAIN records',
         setBy' \in [1..MaxRecords -> CredentialUsers \cup {Vault!Nobody}], NobodySetsUnmade',
         \A c \in DOMAIN records' : Named(c)', Vault!StoredSecretsAreReadable'
  PROVE  VaultInv'
<1>1. VaultTyped'
  BY RevealsStayRecorded DEF VaultInv, VaultTyped, VaultRequestsMove, Vault!Goto
<1>2. \A r \in Reveals : VaultKeeps(r)'
  BY DEF VaultInv, VaultTyped, VaultKeeps, VaultRequestsMove, Vault!Goto
<1>3. Vault!TrailNamesTheWriter'
  BY DEF Vault!TrailNamesTheWriter, Named, Vault!Ids
<1>. QED BY <1>1, <1>2, <1>3, RevealsStayRecorded DEF VaultInv

(* One record changes: a secret of its own, the one it had, or none; and who  *)
(* set it is recorded with it, or nobody has.                                 *)
LEMMA RecordChanges ==
  ASSUME VaultInv, UNCHANGED <<listed, active, given>>, VaultRequestsMove,
         NEW c \in DOMAIN records, NEW row \in VaultRows, records' = [records EXCEPT ![c] = row],
         row.value \in {Vault!Nothing, records[c].value, Vault!Encrypt(c)},
         NEW by \in CredentialUsers \cup {Vault!Nobody}, setBy' = [setBy EXCEPT ![c] = by],
         NEW u,
         \/ by = u /\ u \in CredentialUsers /\ trail' = Append(trail, [user |-> u, id |-> c, action |-> "UPDATE_SECRET"])
         \/ /\ by \in {setBy[c], Vault!Nobody}
            /\ trail' = trail \/ (u \in CredentialUsers /\ trail' = Append(trail, [user |-> u, id |-> c, action |-> "DELETE"]))
  PROVE  VaultInv'
<1>. USE DEF VaultInv, VaultTyped
<1>1. /\ records' \in Seq(VaultRows) /\ Len(records') = Len(records) /\ DOMAIN records' = DOMAIN records
      /\ \A d \in DOMAIN records : records'[d] = IF d = c THEN row ELSE records[d]
      /\ c \in Nat /\ c \in 1..MaxRecords
  BY VaultAssumption
<1>2. setBy' \in [1..MaxRecords -> CredentialUsers \cup {Vault!Nobody}] /\ NobodySetsUnmade'
  BY <1>1 DEF NobodySetsUnmade
<1>3. VaultTrailGrows
  BY <1>1 DEF VaultTrailGrows, TrailRows, Actions
<1>4. Vault!StoredSecretsAreReadable'
  BY <1>1 DEF Vault!StoredSecretsAreReadable, Vault!Ids, Vault!IsSet, Vault!Decrypts, Vault!Encrypt
<1>5. ASSUME NEW d \in DOMAIN records PROVE Named(d)'
  <2>1. CASE d # c
    <3>1. setBy'[d] = setBy[d]
      BY <1>1, <2>1
    <3>2. trail' = trail \/ \E new \in TrailRows : trail' = Append(trail, new) /\ new.id # d
      BY <1>1, <2>1 DEF TrailRows, Actions
    <3>. QED BY <3>1, <3>2, NamedStays
  <2>2. CASE d = c /\ by = u /\ u \in CredentialUsers /\ trail' = Append(trail, [user |-> u, id |-> c, action |-> "UPDATE_SECRET"])
    <3>1. setBy'[c] = u
      BY <1>1, <2>2
    <3>. QED BY <1>1, <2>2, <3>1, WritingNames
  <2>3. CASE /\ d = c /\ by \in {setBy[c], Vault!Nobody}
             /\ trail' = trail \/ (u \in CredentialUsers /\ trail' = Append(trail, [user |-> u, id |-> c, action |-> "DELETE"]))
    <3>1. setBy'[c] \in {setBy[c], Vault!Nobody}
      BY <1>1, <2>3
    <3>2. trail' = trail \/ \E new \in TrailRows : trail' = Append(trail, new) /\ new.action = "DELETE"
      BY <1>1, <2>3 DEF TrailRows, Actions
    <3>. QED BY <2>3, <3>1, <3>2, NamedStays
  <2>. QED BY <2>1, <2>2, <2>3
<1>. QED BY <1>1, <1>2, <1>3, <1>4, <1>5, VaultMoves

LEMMA RecordIsMade ==
  ASSUME VaultInv, NEW u \in CredentialUsers, NEW store \in Vault!Stores, NEW withSecret \in BOOLEAN, NEW audited \in BOOLEAN,
         withSecret => audited, Vault!Create(u, store, withSecret, audited)
  PROVE  VaultInv'
<1>. USE DEF VaultInv, VaultTyped
<1>0. PICK c \in Nat : c = Len(records) + 1
  OBVIOUS
<1>. DEFINE created == [user |-> u, id |-> c, action |-> "CREATE"]
<1>1. /\ c <= MaxRecords /\ Vault!Quiet
      /\ audited => trail' = Append(trail, created)
      /\ ~audited => trail' = trail
      /\ setBy' = IF withSecret THEN [setBy EXCEPT ![c] = u] ELSE setBy
  BY <1>0 DEF Vault!Create, Vault!Record
<1>2. PICK row : /\ records' = Append(records, row) /\ row \in VaultRows
                 /\ row.value \in {Vault!Encrypt(c), Vault!Nothing}
  <2>1. PICK circle \in {{}, CredentialUsers} :
            records' = Append(records, Vault!Row(store, IF withSecret THEN Vault!Encrypt(c) ELSE Vault!Nothing, circle))
    BY <1>0 DEF Vault!Create
  <2>. DEFINE value == IF withSecret THEN Vault!Encrypt(c) ELSE Vault!Nothing
  <2>2. value \in VaultValues
    BY <1>1 DEF VaultValues, Vault!Encrypt
  <2>3. Vault!Row(store, value, circle) \in VaultRows /\ Vault!Row(store, value, circle).value = value
    <3>. HIDE DEF value
    <3>. QED BY <2>2 DEF VaultRows, Vault!Row
  <2>. QED BY <2>1, <2>3
<1>3. /\ records' \in Seq(VaultRows) /\ Len(records') = c /\ DOMAIN records' = DOMAIN records \cup {c}
      /\ c \notin DOMAIN records /\ records'[c] = row /\ \A d \in DOMAIN records : records'[d] = records[d]
  BY <1>0, <1>2
<1>4. setBy' \in [1..MaxRecords -> CredentialUsers \cup {Vault!Nobody}]
  BY <1>1, VaultAssumption
<1>5. setBy[c] = Vault!Nobody /\ \A d \in 1..MaxRecords : d # c => setBy'[d] = setBy[d]
  BY <1>0, <1>1, VaultAssumption DEF NobodySetsUnmade
<1>6. NobodySetsUnmade'
  BY <1>0, <1>3, <1>5, VaultAssumption DEF NobodySetsUnmade
<1>7. VaultTrailGrows
  BY <1>1 DEF VaultTrailGrows, TrailRows, Actions
<1>8. Vault!StoredSecretsAreReadable'
  BY <1>1, <1>2, <1>3 DEF Vault!StoredSecretsAreReadable, Vault!Ids, Vault!IsSet, Vault!Decrypts, Vault!Encrypt,
     Vault!Quiet
<1>9. ASSUME NEW d \in DOMAIN records PROVE Named(d)'
  <2>1. setBy'[d] = setBy[d]
    BY <1>3, <1>5, VaultAssumption
  <2>2. trail' = trail \/ (trail' = Append(trail, created) /\ created \in TrailRows /\ created.id # d)
    BY <1>1, <1>3 DEF TrailRows, Actions
  <2>. QED BY <2>1, <2>2, NamedStays
<1>10. Named(c)'
  <2>1. CASE withSecret
    <3>1. setBy'[c] = u
      BY <1>0, <1>1, <2>1, VaultAssumption
    <3>. QED BY <1>1, <2>1, <3>1, WritingNames
  <2>2. CASE ~withSecret
    BY <1>1, <1>5, <2>2 DEF Named
  <2>. QED BY <2>1, <2>2
<1>. QED
  BY <1>1, <1>3, <1>4, <1>6, <1>7, <1>8, <1>9, <1>10, VaultMoves DEF Vault!Quiet, VaultRequestsMove

LEMMA SecretIsUpdated ==
  ASSUME VaultInv, NEW u \in CredentialUsers, NEW c \in DOMAIN records, NEW withSecret \in BOOLEAN,
         Vault!UpdateSecret(u, c, withSecret)
  PROVE  VaultInv'
<1>. DEFINE value == IF withSecret THEN Vault!Encrypt(c) ELSE Vault!Nothing
            row == [records[c] EXCEPT !.value = value]
<1>1. c \in Nat /\ records[c] \in VaultRows /\ active \in Keys
  BY DEF VaultInv, VaultTyped
<1>2. value \in VaultValues
  BY <1>1 DEF VaultValues, Vault!Encrypt
<1>3. row \in VaultRows /\ row.value = value
  BY <1>1, <1>2 DEF VaultRows
<1>4. /\ records' = [records EXCEPT ![c] = row] /\ setBy' = [setBy EXCEPT ![c] = u]
      /\ trail' = Append(trail, [user |-> u, id |-> c, action |-> "UPDATE_SECRET"])
      /\ UNCHANGED <<listed, active, given, vaultPc, vaultCtx>>
  BY DEF Vault!UpdateSecret, Vault!Record, Vault!Quiet
<1>. QED BY <1>3, <1>4, RecordChanges DEF VaultRequestsMove

LEMMA RecordIsDeleted ==
  ASSUME VaultInv, NEW u \in CredentialUsers, NEW c \in DOMAIN records, NEW audited \in BOOLEAN,
         Vault!Delete(u, c, audited), UNCHANGED <<listed, active, given>>, VaultRequestsMove
  PROVE  VaultInv'
<1>. DEFINE row == [records[c] EXCEPT !.exists = FALSE, !.value = Vault!Nothing]
<1>0. records[c] \in VaultRows
  BY DEF VaultInv, VaultTyped
<1>1. row \in VaultRows /\ row.value = Vault!Nothing
  BY <1>0 DEF VaultRows, VaultValues
<1>2. /\ records' = [records EXCEPT ![c] = row] /\ setBy' = [setBy EXCEPT ![c] = Vault!Nobody]
      /\ trail' = trail \/ trail' = Append(trail, [user |-> u, id |-> c, action |-> "DELETE"])
  BY DEF Vault!Delete, Vault!Gone, Vault!Record
<1>. QED BY <1>1, <1>2, RecordChanges

(* What a reveal does besides: it moves the request, and may add a row. *)
LEMMA RevealMoves ==
  ASSUME VaultInv, UNCHANGED <<records, listed, active, setBy, given>>, VaultRequestsMove,
         \/ trail' = trail
         \/ \E row \in TrailRows : trail' = Append(trail, row) /\ row.action \notin {"CREATE", "UPDATE_SECRET"}
  PROVE  VaultInv'
<1>1. \A c \in DOMAIN records : Named(c)'
  BY NamedStays
<1>2. Vault!StoredSecretsAreReadable' /\ NobodySetsUnmade' /\ VaultTrailGrows
  BY DEF VaultInv, Vault!StoredSecretsAreReadable, Vault!Ids, Vault!IsSet, Vault!Decrypts, NobodySetsUnmade,
     VaultTrailGrows
<1>. QED BY <1>1, <1>2, VaultMoves DEF VaultInv, VaultTyped

LEMMA DenyMoves ==
  ASSUME VaultInv, NEW r \in Reveals, NEW u \in CredentialUsers, NEW c \in DOMAIN records, Vault!Deny(r, u, c),
         UNCHANGED <<records, listed, active, setBy>>
  PROVE  VaultInv'
<1>1. [user |-> u, id |-> c, action |-> "REVEAL_DENIED"] \in TrailRows
  BY DEF VaultInv, VaultTyped, TrailRows, Actions
<1>. QED
  BY <1>1, RevealMoves DEF Vault!Deny, Vault!Record, Vault!Answer, VaultRequestsMove

LEMMA VaultSteps == VaultInv /\ [Vault!Next]_(Vault!vars) => VaultInv'
<1>. SUFFICES ASSUME VaultInv, [Vault!Next]_(Vault!vars) PROVE VaultInv'
  OBVIOUS
<1>1. CASE UNCHANGED Vault!vars
  BY <1>1, RevealMoves DEF Vault!vars, VaultRequestsMove
<1>2. ASSUME NEW r \in Reveals, NEW u \in CredentialUsers, NEW c \in DOMAIN records, NEW store, Vault!Reveal(r, u, c, store)
      PROVE  VaultInv'
  <2>1. CASE u \notin Revealers
    BY <1>2, <2>1, DenyMoves DEF Vault!Reveal, Vault!Unchanged
  <2>2. CASE u \in Revealers
    BY <1>2, <2>2, RevealMoves DEF Vault!Reveal, Vault!Unchanged, VaultRequestsMove
  <2>. QED BY <2>1, <2>2
<1>3. ASSUME NEW r \in Reveals, NEW u \in CredentialUsers, Vault!CompanyStep(r, u) PROVE VaultInv'
  <2>1. PICK withSecret \in BOOLEAN :
           \/ Vault!CreateCompany(u, withSecret)
           \/ \E c \in DOMAIN records : \/ Vault!UpdateCompany(u, c, withSecret) \/ Vault!DeleteCompany(u, c)
                                        \/ Vault!RevealCompany(r, u, c)
    BY <1>3 DEF Vault!CompanyStep, Vault!Ids
  <2>2. CASE Vault!CreateCompany(u, withSecret)
    BY <2>2, RecordIsMade DEF Vault!CreateCompany, Vault!Stores
  <2>3. ASSUME NEW c \in DOMAIN records, Vault!UpdateCompany(u, c, withSecret) PROVE VaultInv'
    BY <2>3, SecretIsUpdated DEF Vault!UpdateCompany
  <2>4. ASSUME NEW c \in DOMAIN records, Vault!DeleteCompany(u, c) PROVE VaultInv'
    BY <2>4, RecordIsDeleted DEF Vault!DeleteCompany, Vault!Quiet, VaultRequestsMove
  <2>. QED BY <1>2, <2>1, <2>2, <2>3, <2>4 DEF Vault!RevealCompany
<1>4. ASSUME NEW r \in Reveals, NEW u \in CredentialUsers, Vault!WebsiteStep(r, u) PROVE VaultInv'
  <2>1. PICK withSecret \in BOOLEAN :
           \/ Vault!CreateWebsite(u, withSecret)
           \/ \E c \in DOMAIN records : \/ Vault!UpdateWebsite(u, c, withSecret) \/ Vault!DeleteWebsite(u, c)
                                        \/ Vault!RevealWebsite(r, u, c)
    BY <1>4 DEF Vault!WebsiteStep, Vault!Ids
  <2>2. CASE Vault!CreateWebsite(u, withSecret)
    BY <2>2, RecordIsMade DEF Vault!CreateWebsite, Vault!Stores
  <2>3. ASSUME NEW c \in DOMAIN records, Vault!UpdateWebsite(u, c, withSecret) PROVE VaultInv'
    BY <2>3, SecretIsUpdated DEF Vault!UpdateWebsite
  <2>4. ASSUME NEW c \in DOMAIN records, Vault!DeleteWebsite(u, c) PROVE VaultInv'
    BY <2>4, RecordIsDeleted DEF Vault!DeleteWebsite, Vault!Quiet, VaultRequestsMove
  <2>. QED BY <1>2, <2>1, <2>2, <2>3, <2>4 DEF Vault!RevealWebsite
<1>5. ASSUME NEW r \in Reveals, NEW u \in CredentialUsers, Vault!ServerStep(r, u) PROVE VaultInv'
  <2>1. PICK withSecret \in BOOLEAN :
           \/ Vault!CreateServer(u, withSecret)
           \/ \E c \in DOMAIN records : \/ Vault!UpdateServer(u, c, withSecret) \/ Vault!DeleteServer(r, u, c)
                                        \/ Vault!RevealServer(r, u, c)
    BY <1>5 DEF Vault!ServerStep, Vault!Ids
  <2>2. CASE Vault!CreateServer(u, withSecret)
    BY <2>2, RecordIsMade DEF Vault!CreateServer, Vault!Stores
  <2>3. ASSUME NEW c \in DOMAIN records, Vault!UpdateServer(u, c, withSecret) PROVE VaultInv'
    BY <2>3, SecretIsUpdated DEF Vault!UpdateServer
  <2>4. ASSUME NEW c \in DOMAIN records, Vault!DeleteServer(r, u, c) PROVE VaultInv'
    BY <2>4, RevealMoves DEF Vault!DeleteServer, VaultRequestsMove
  <2>. QED BY <1>2, <2>1, <2>2, <2>3, <2>4 DEF Vault!RevealServer
<1>6. ASSUME NEW r \in Reveals, NEW u \in CredentialUsers, Vault!SeoStep(r, u) PROVE VaultInv'
  <2>1. PICK withSecret \in BOOLEAN :
           \/ Vault!CreateSeo(u, withSecret)
           \/ \E c \in DOMAIN records : \/ Vault!UpdateSeo(u, c, withSecret) \/ Vault!DeleteSeo(u, c)
                                        \/ Vault!RevealSeo(r, u, c)
    BY <1>6 DEF Vault!SeoStep, Vault!Ids
  <2>2. CASE Vault!CreateSeo(u, withSecret)
    BY <2>2, RecordIsMade DEF Vault!CreateSeo, Vault!Stores
  <2>3. ASSUME NEW c \in DOMAIN records, Vault!UpdateSeo(u, c, withSecret) PROVE VaultInv'
    BY <2>3, SecretIsUpdated DEF Vault!UpdateSeo
  <2>4. ASSUME NEW c \in DOMAIN records, Vault!DeleteSeo(u, c) PROVE VaultInv'
    BY <2>4, RecordIsDeleted DEF Vault!DeleteSeo, Vault!Quiet, VaultRequestsMove
  <2>. QED BY <1>2, <2>1, <2>2, <2>3, <2>4 DEF Vault!RevealSeo
<1>7. ASSUME NEW r \in Reveals, NEW u \in CredentialUsers, Vault!LogItemStep(r, u) PROVE VaultInv'
  <2>1. PICK withSecret \in BOOLEAN :
           \/ Vault!CreateLogItem(u, withSecret)
           \/ \E c \in DOMAIN records : Vault!DeleteLogItem(u, c) \/ Vault!RevealLogItem(r, u, c)
    BY <1>7 DEF Vault!LogItemStep, Vault!Ids
  <2>2. CASE Vault!CreateLogItem(u, withSecret)
    BY <2>2, RecordIsMade DEF Vault!CreateLogItem, Vault!Stores
  <2>3. ASSUME NEW c \in DOMAIN records, Vault!DeleteLogItem(u, c) PROVE VaultInv'
    <3>1. Vault!IsSet(records[c].value) \in BOOLEAN
      BY DEF Vault!IsSet
    <3>. QED BY <2>3, <3>1, RecordIsDeleted DEF Vault!DeleteLogItem, Vault!Quiet, VaultRequestsMove
  <2>. QED BY <1>2, <2>1, <2>2, <2>3 DEF Vault!RevealLogItem
<1>8. ASSUME NEW c \in DOMAIN records, Vault!Cascade(c) PROVE VaultInv'
  <2>. DEFINE row == [records[c] EXCEPT !.exists = FALSE, !.value = Vault!Nothing]
  <2>1. records[c] \in VaultRows
    BY DEF VaultInv, VaultTyped
  <2>2. row \in VaultRows /\ row.value = Vault!Nothing
    BY <2>1 DEF VaultRows, VaultValues
  <2>3. /\ records' = [records EXCEPT ![c] = row] /\ setBy' = [setBy EXCEPT ![c] = Vault!Nobody] /\ trail' = trail
        /\ UNCHANGED <<listed, active, given, vaultPc, vaultCtx>>
    BY <1>8 DEF Vault!Cascade, Vault!Gone, Vault!Quiet
  <2>. QED BY <2>2, <2>3, RecordChanges DEF VaultRequestsMove
<1>9. ASSUME NEW c \in DOMAIN records, NEW u \in CredentialUsers, Vault!ScopeChanges(c, u) PROVE VaultInv'
  <2>. DEFINE row == [records[c] EXCEPT !.readers = IF u \in @ THEN @ \ {u} ELSE @ \cup {u}, !.writers = @ \ {u}]
  <2>1. records[c] \in VaultRows
    BY DEF VaultInv, VaultTyped
  <2>2. row \in VaultRows /\ row.value = records[c].value
    BY <2>1 DEF VaultRows
  <2>3. /\ records' = [records EXCEPT ![c] = row] /\ trail' = trail
        /\ UNCHANGED <<setBy, listed, active, given, vaultPc, vaultCtx>>
    BY <1>9 DEF Vault!ScopeChanges, Vault!Quiet
  <2>4. setBy[c] \in CredentialUsers \cup {Vault!Nobody} /\ setBy' = [setBy EXCEPT ![c] = setBy[c]]
    BY <2>3, VaultAssumption DEF VaultInv, VaultTyped
  <2>. QED BY <2>2, <2>3, <2>4, RecordChanges DEF VaultRequestsMove
<1>10. ASSUME NEW r \in Reveals, Vault!FinishDelete(r) PROVE VaultInv'
  <2>1. vaultCtx[r].user \in CredentialUsers /\ vaultCtx[r].id \in DOMAIN records
    BY <1>10 DEF Vault!FinishDelete, VaultInv, VaultKeeps
  <2>2. VaultRequestsMove /\ UNCHANGED <<listed, active, given>>
    BY <1>10 DEF Vault!FinishDelete, Vault!Answer, VaultRequestsMove
  <2>3. CASE Vault!Exists(vaultCtx[r].id)
    <3>1. Vault!IsSet(vaultCtx[r].value) \in BOOLEAN
      BY DEF Vault!IsSet
    <3>. QED BY <1>10, <2>1, <2>2, <2>3, <3>1, RecordIsDeleted DEF Vault!FinishDelete
  <2>4. CASE ~Vault!Exists(vaultCtx[r].id)
    BY <1>10, <2>2, <2>4, RevealMoves DEF Vault!FinishDelete
  <2>. QED BY <2>3, <2>4
<1>11. ASSUME NEW r \in Reveals, Vault!Scope(r) PROVE VaultInv'
  <2>1. vaultCtx[r].user \in CredentialUsers /\ vaultCtx[r].id \in DOMAIN records
    BY <1>11 DEF Vault!Scope, VaultInv, VaultKeeps
  <2>2. CASE ~Vault!InScope(vaultCtx[r].user, vaultCtx[r].id)
    BY <1>11, <2>1, <2>2, DenyMoves DEF Vault!Scope, Vault!Unchanged
  <2>3. CASE Vault!InScope(vaultCtx[r].user, vaultCtx[r].id)
    BY <1>11, <2>1, <2>3, RevealMoves DEF Vault!Scope, Vault!Unchanged, Vault!Answer, VaultRequestsMove
  <2>. QED BY <2>2, <2>3
<1>12. ASSUME NEW r \in Reveals, Vault!Audit(r) PROVE VaultInv'
  <2>1. CASE UNCHANGED <<trail, given>>
    BY <1>12, <2>1, RevealMoves DEF Vault!Audit, Vault!Unchanged, Vault!Answer, VaultRequestsMove
  <2>2. CASE ~UNCHANGED <<trail, given>>
    <3>. DEFINE u == vaultCtx[r].user
                c == vaultCtx[r].id
                row == [user |-> u, id |-> c, action |-> "REVEAL"]
                new == [user |-> u, id |-> c, value |-> vaultCtx[r].value, row |-> Len(trail) + 1]
    <3>1. /\ u \in CredentialUsers /\ c \in DOMAIN records /\ Vault!Answer(r)
          /\ UNCHANGED <<records, listed, active, setBy>>
          /\ trail' = Append(trail, row) /\ given' = given \cup {new}
      BY <1>12, <2>2 DEF Vault!Audit, Vault!Unchanged, Vault!Record, VaultInv, VaultKeeps
    <3>2. row \in TrailRows
      BY <3>1 DEF VaultInv, VaultTyped, TrailRows, Actions
    <3>3. trail' \in Seq(TrailRows)
      BY <3>1, <3>2 DEF VaultInv, VaultTyped
    <3>4. /\ DOMAIN trail' = DOMAIN trail \cup {Len(trail) + 1} /\ Len(trail) + 1 \notin DOMAIN trail
          /\ trail'[Len(trail) + 1] = row /\ \A i \in DOMAIN trail : trail'[i] = trail[i]
      BY <3>1 DEF VaultInv, VaultTyped
    <3>5. Vault!SecretsLeaveATrail'
      <4>1. /\ \A g \in given : g.row \in DOMAIN trail /\ trail[g.row] = [user |-> g.user, id |-> g.id, action |-> "REVEAL"]
            /\ \A g, h \in given : g.row = h.row => g = h
        BY DEF VaultInv, Vault!SecretsLeaveATrail
      <4>2. /\ new.row \in DOMAIN trail' /\ new.row \notin DOMAIN trail
            /\ trail'[new.row] = [user |-> new.user, id |-> new.id, action |-> "REVEAL"]
        BY <3>4
      <4>3. \A g \in given' : /\ g.row \in DOMAIN trail'
                              /\ trail'[g.row] = [user |-> g.user, id |-> g.id, action |-> "REVEAL"]
        BY <3>1, <3>4, <4>1, <4>2
      <4>4. \A g, h \in given' : g.row = h.row => g = h
        <5>. HIDE DEF new
        <5>. QED BY <3>1, <4>1, <4>2
      <4>. QED BY <4>3, <4>4 DEF Vault!SecretsLeaveATrail
    <3>6. Vault!TrailNamesTheWriter'
      BY <3>1, <3>2, NamedStays DEF Vault!TrailNamesTheWriter, Vault!Ids, Named
    <3>7. VaultTyped' /\ NobodySetsUnmade' /\ Vault!StoredSecretsAreReadable'
      BY <3>1, <3>3 DEF VaultInv, VaultTyped, NobodySetsUnmade, Vault!StoredSecretsAreReadable, Vault!Ids,
         Vault!IsSet, Vault!Decrypts, Vault!Answer, Vault!Goto
    <3>8. \A q \in Reveals : VaultKeeps(q)'
      BY <3>1 DEF VaultInv, VaultTyped, VaultKeeps, Vault!Answer, Vault!Goto
    <3>. QED BY <3>5, <3>6, <3>7, <3>8 DEF VaultInv
  <2>. QED BY <2>1, <2>2
<1>13. ASSUME NEW keys \in SUBSET Keys, NEW version \in Keys, Vault!Restart(keys, version) PROVE VaultInv'
  <2>1. VaultTyped' /\ (\A q \in Reveals : VaultKeeps(q)') /\ NobodySetsUnmade'
    BY <1>13 DEF Vault!Restart, VaultInv, VaultTyped, VaultKeeps, NobodySetsUnmade
  <2>2. Vault!StoredSecretsAreReadable'
    BY <1>13 DEF Vault!Restart, VaultInv, Vault!StoredSecretsAreReadable, Vault!Ids, Vault!IsSet, Vault!Decrypts
  <2>3. Vault!TrailNamesTheWriter' /\ Vault!SecretsLeaveATrail'
    BY <1>13 DEF Vault!Restart, VaultInv, Vault!TrailNamesTheWriter, Vault!SecretsLeaveATrail, Vault!Ids,
       Vault!WritesOf
  <2>. QED BY <2>1, <2>2, <2>3 DEF VaultInv
<1>. QED
  BY <1>1, <1>3, <1>4, <1>5, <1>6, <1>7, <1>8, <1>9, <1>10, <1>11, <1>12, <1>13 DEF Vault!Next, Vault!Ids

LEMMA VaultInductive == Spec => []VaultInv
BY ServicesRunVault, VaultStarts, VaultSteps, PTL DEF Vault!Spec

(* Every value in the new format can be read back with the keys configured,   *)
(* through any rotation that retires a key when nothing needs it.             *)
THEOREM SecretsStayReadable == Spec => []StoredSecretsAreReadable
<1>1. VaultInv => StoredSecretsAreReadable
  BY DEF StoredSecretsAreReadable, VaultInv
<1>. QED BY <1>1, VaultInductive, PTL

(* "Returned only after the REVEAL row is written", "recorded atomically with *)
(* the change it describes", and the portal's own trail: whatever fails and   *)
(* whatever interleaves, what the three audit promises name is recorded.      *)
THEOREM TrailsAreComplete == Spec => []AuditTrailsAreComplete
<1>1. VaultInv /\ PortalInv => AuditTrailsAreComplete
  BY DEF AuditTrailsAreComplete, VaultInv, PortalInv
<1>. QED BY <1>1, VaultInductive, PortalInductive, PTL
----------------------------------------------------------------------------
(* Clients. One conversion at a time (the promise is about that) never makes  *)
(* a second client of an email: what it looked up is still so when it writes. *)
ClientRows == [company : Companies \cup {Unlinked}, email : Emails \cup {NoEmail, Generated}, deleted : BOOLEAN,
               byForm : BOOLEAN, byConversion : BOOLEAN]
Links == Nat \cup {Unlinked}
LeadRows == [is : {"active", "deleted"}, converted : BOOLEAN, client : Links]
ProposalRows == [is : {"active", "deleted"}, converted : BOOLEAN, lead : Leads, client : Links, project : Links]
SalesTyped ==
  /\ clients \in Seq(ClientRows) /\ projects \in Seq(Links)
  /\ leads \in [Leads -> LeadRows \cup {Sales!NoRow}]
  /\ proposals \in [Proposals -> ProposalRows \cup {Sales!NoRow}]
  /\ \A p \in Proposals : proposals[p] # Sales!NoRow => leads[proposals[p].lead] # Sales!NoRow
  /\ DOMAIN clientPc = Conversions /\ DOMAIN clientCtx = Conversions
Converting == {"match", "client", "link", "linkLead", "project", "mark", "markLead"}
Conversion == [op : {"convert"}, lead : Leads, proposal : Proposals \cup {Unlinked}, client : Links, project : Links,
               email : Emails \cup {NoEmail}]
SalesKeeps(r) ==
  /\ clientPc[r] \in {"idle", "check", "save"} \cup Converting
  /\ clientPc[r] \in {"check", "save"} => /\ clientCtx[r].company \in Companies
                                          /\ clientCtx[r].client \in DOMAIN clients \cup {0}
  /\ clientPc[r] \in Converting => /\ clientCtx[r] \in Conversion
                                   /\ leads[clientCtx[r].lead] # Sales!NoRow
                                   /\ clientCtx[r].proposal # Unlinked => proposals[clientCtx[r].proposal] # Sales!NoRow
ByConversion(c) == ~clients[c].deleted /\ clients[c].byConversion
SalesTogether == \A c, d \in DOMAIN clients :
  ByConversion(c) /\ ByConversion(d) /\ clients[c].email = clients[d].email /\ clients[c].email # Generated => c = d
\* Nobody has this email when a conversion is about to make a client of it.
LookedUp(r) == clientPc[r] = "client" /\ clientCtx[r].email # NoEmail =>
  \A c \in DOMAIN clients : ByConversion(c) => clients[c].email # clientCtx[r].email
\* The proposal of a conversion is open until the conversion marks it, and is
\* linked to the client of the project that was made.
Linked(r) ==
  LET c == clientCtx[r]
  IN  /\ clientPc[r] \in Converting \ {"markLead"} /\ c.proposal # Unlinked => ~proposals[c.proposal].converted
      /\ clientPc[r] \in {"linkLead", "project", "mark"} /\ c.proposal # Unlinked
           => proposals[c.proposal].client = c.client
      /\ clientPc[r] = "mark" => c.project \in DOMAIN projects /\ projects[c.project] = c.client
ConvertedHaveProjects == \A p \in Proposals : proposals[p] # Sales!NoRow /\ proposals[p].converted =>
  proposals[p].project \in DOMAIN projects /\ projects[proposals[p].project] = proposals[p].client
SalesInv ==
  /\ SalesTyped /\ \A r \in Conversions : SalesKeeps(r)
  /\ Sales!OneAtATime =>
       SalesTogether /\ ConvertedHaveProjects /\ \A r \in Conversions : LookedUp(r) /\ Linked(r)

LEMMA SalesStart == Sales!Init => SalesInv
BY DEF Sales!Init, SalesInv, SalesTyped, SalesKeeps, SalesTogether, LookedUp, Linked, ConvertedHaveProjects,
   Converting, Sales!NoRow

\* What holds of the only conversion, and what a step keeps of the others.
SalesOne == SalesTogether /\ ConvertedHaveProjects /\ \A r \in Conversions : LookedUp(r) /\ Linked(r)
SalesGrows ==
  /\ DOMAIN clients \subseteq DOMAIN clients'
  /\ \A l \in Leads : leads[l] # Sales!NoRow => leads'[l] # Sales!NoRow
  /\ \A p \in Proposals : proposals[p] # Sales!NoRow => proposals'[p] # Sales!NoRow

LEMMA OnlyConversion ==
  ASSUME Sales!OneAtATime, NEW q \in Conversions, NEW r \in Conversions PROVE q = r
BY DEF Sales!OneAtATime

LEMMA SalesRequestStays ==
  ASSUME NEW q \in Conversions, SalesInv, SalesGrows,
         clientPc'[q] = clientPc[q], clientCtx'[q] = clientCtx[q]
  PROVE  SalesKeeps(q)'
BY DEF SalesInv, SalesKeeps, SalesGrows, Converting, Conversion

\* A step of a request r is right if it is so for r.
LEMMA SalesRequestMoves ==
  ASSUME NEW r \in Conversions, SalesInv, SalesGrows, NEW where, NEW what, Sales!Goto(r, where, what),
         SalesTyped', SalesKeeps(r)',
         Sales!OneAtATime =>
           SalesTogether' /\ ConvertedHaveProjects' /\ LookedUp(r)' /\ Linked(r)'
  PROVE  SalesInv'
<1>1. ASSUME NEW q \in Conversions PROVE SalesKeeps(q)'
  <2>1. CASE q = r
    BY <2>1
  <2>2. CASE q # r
    <3>1. clientPc'[q] = clientPc[q] /\ clientCtx'[q] = clientCtx[q]
      BY <2>2 DEF Sales!Goto, SalesInv, SalesTyped
    <3>. QED BY <3>1, SalesRequestStays
  <2>. QED BY <2>1, <2>2
<1>2. Sales!OneAtATime => \A q \in Conversions : LookedUp(q)' /\ Linked(q)'
  BY OnlyConversion
<1>. QED BY <1>1, <1>2 DEF SalesInv

\* A step of no request.
LEMMA SalesNoRequestMoves ==
  ASSUME SalesInv, SalesGrows, UNCHANGED <<clientPc, clientCtx>>, SalesTyped',
         Sales!OneAtATime => SalesOne'
  PROVE  SalesInv'
<1>1. ASSUME NEW q \in Conversions PROVE SalesKeeps(q)'
  BY SalesRequestStays
<1>. QED BY <1>1 DEF SalesInv, SalesOne, SalesTyped

\* What is written into a row of a table, or added to one, keeps the rest.
LEMMA TableAppends ==
  ASSUME NEW S, NEW t \in Seq(S), NEW row \in S
  PROVE  /\ Append(t, row) \in Seq(S) /\ DOMAIN Append(t, row) = DOMAIN t \cup {Len(t) + 1}
         /\ Len(t) + 1 \notin DOMAIN t /\ Len(t) \in Nat /\ DOMAIN t \subseteq Nat \ {0}
         /\ Append(t, row)[Len(t) + 1] = row /\ \A i \in DOMAIN t : Append(t, row)[i] = t[i]
OBVIOUS
LEMMA TableChanges ==
  ASSUME NEW S, NEW t \in Seq(S), NEW i \in DOMAIN t, NEW row \in S
  PROVE  /\ [t EXCEPT ![i] = row] \in Seq(S) /\ DOMAIN [t EXCEPT ![i] = row] = DOMAIN t
         /\ [t EXCEPT ![i] = row][i] = row /\ \A j \in DOMAIN t \ {i} : [t EXCEPT ![i] = row][j] = t[j]
OBVIOUS

\* A client that is edited or removed is no longer one of a conversion.
LEMMA ClientChanges ==
  ASSUME SalesInv, NEW c \in DOMAIN clients, NEW row \in ClientRows, ~row.byConversion,
         clients' = [clients EXCEPT ![c] = row], UNCHANGED <<leads, proposals, projects, clientPc, clientCtx>>
  PROVE  SalesInv'
<1>1. clients' \in Seq(ClientRows) /\ DOMAIN clients' = DOMAIN clients /\ clients'[c] = row
      /\ \A d \in DOMAIN clients \ {c} : clients'[d] = clients[d]
  BY TableChanges DEF SalesInv, SalesTyped
<1>2. SalesGrows /\ SalesTyped'
  BY <1>1 DEF SalesGrows, SalesInv, SalesTyped
<1>3. Sales!OneAtATime => SalesOne'
  BY <1>1 DEF SalesInv, SalesOne, SalesTogether, ConvertedHaveProjects, LookedUp, Linked, ByConversion
<1>. QED BY <1>2, <1>3, SalesNoRequestMoves

\* Whatever becomes of a lead.
LEMMA LeadChanges ==
  ASSUME SalesInv, NEW l \in Leads, NEW row \in LeadRows, leads' = [leads EXCEPT ![l] = row],
         UNCHANGED <<clients, proposals, projects, clientPc, clientCtx>>
  PROVE  SalesInv'
<1>1. SalesGrows /\ SalesTyped'
  BY DEF SalesGrows, SalesInv, SalesTyped, LeadRows, Sales!NoRow
<1>2. Sales!OneAtATime => SalesOne'
  BY DEF SalesInv, SalesOne, SalesTogether, ConvertedHaveProjects, LookedUp, Linked, ByConversion
<1>. QED BY <1>1, <1>2, SalesNoRequestMoves

LEMMA SalesSteps == SalesInv /\ [Sales!Next]_(Sales!vars) => SalesInv'
<1>. SUFFICES ASSUME SalesInv, [Sales!Next]_(Sales!vars) PROVE SalesInv'
  OBVIOUS
<1>0. /\ SalesTyped /\ \A r \in Conversions : SalesKeeps(r)
      /\ Sales!OneAtATime => SalesOne
  BY DEF SalesInv, SalesOne
<1>1. CASE UNCHANGED Sales!vars
  BY <1>1 DEF Sales!vars, SalesInv, SalesTyped, SalesKeeps, SalesTogether, ByConversion, LookedUp, Linked,
     ConvertedHaveProjects
<1>2. ASSUME NEW r \in Conversions, NEW c \in Sales!ActiveClients \cup {Sales!NewClient}, NEW k \in Companies,
             Sales!SaveClient(r, c, k)
      PROVE  SalesInv'
  <2>1. c \in DOMAIN clients \cup {0}
    BY DEF Sales!ActiveClients, Sales!Ids, Sales!NewClient
  <2>2. SalesGrows /\ SalesTyped' /\ clientPc'[r] = "check"
        /\ clientCtx'[r] = [op |-> "form", client |-> c, company |-> k]
    BY <1>0, <1>2 DEF Sales!SaveClient, Sales!Goto, SalesGrows, SalesTyped
  <2>3. SalesKeeps(r)'
    BY <1>2, <2>1, <2>2 DEF SalesKeeps, Converting, Sales!SaveClient
  <2>4. Sales!OneAtATime =>
          SalesTogether' /\ ConvertedHaveProjects' /\ LookedUp(r)' /\ Linked(r)'
    BY <1>0, <1>2, <2>2 DEF SalesOne, SalesTogether, ByConversion, ConvertedHaveProjects, LookedUp, Linked,
       Converting,
       Sales!SaveClient
  <2>. QED BY <1>2, <2>2, <2>3, <2>4, SalesRequestMoves DEF Sales!SaveClient
<1>3. ASSUME NEW r \in Conversions, Sales!Check(r) PROVE SalesInv'
  <2>. DEFINE next == clientPc'[r]
  <2>1. /\ SalesGrows /\ UNCHANGED <<clients, leads, proposals, projects>>
        /\ (next = "idle" \/ (next = "save" /\ clientCtx'[r] = clientCtx[r] /\ clientPc[r] = "check"))
    BY <1>0, <1>3 DEF Sales!Check, Sales!Answer, Sales!Then, Sales!Goto, SalesGrows, SalesTyped
  <2>2. SalesTyped'
    BY <1>0, <1>3, <2>1 DEF Sales!Check, Sales!Answer, Sales!Then, Sales!Goto, SalesTyped
  <2>3. SalesKeeps(r)'
    BY <1>0, <2>1 DEF SalesKeeps, Converting
  <2>4. Sales!OneAtATime =>
          SalesTogether' /\ ConvertedHaveProjects' /\ LookedUp(r)' /\ Linked(r)'
    BY <1>0, <2>1 DEF SalesOne, SalesTogether, ByConversion, ConvertedHaveProjects, LookedUp, Linked, Converting
  <2>. QED BY <1>3, <2>1, <2>2, <2>3, <2>4, SalesRequestMoves DEF Sales!Check, Sales!Answer, Sales!Then
<1>4. ASSUME NEW r \in Conversions, Sales!Save(r) PROVE SalesInv'
  <2>. DEFINE c == clientCtx[r].client
  <2>1. c \in DOMAIN clients \cup {0} /\ clientCtx[r].company \in Companies
    BY <1>0, <1>4 DEF SalesKeeps, Sales!Save
  <2>2. /\ UNCHANGED <<leads, proposals, projects>> /\ clientPc'[r] = "idle"
        /\ DOMAIN clientPc' = Conversions /\ DOMAIN clientCtx' = Conversions
    BY <1>0, <1>4 DEF Sales!Save, Sales!Answer, Sales!Goto, SalesTyped
  <2>3. /\ clients' \in Seq(ClientRows) /\ DOMAIN clients \subseteq DOMAIN clients'
        /\ \A d \in DOMAIN clients' : clients'[d].byConversion =>
             d \in DOMAIN clients /\ clients[d].byConversion /\ clients'[d].email = clients[d].email
             /\ clients'[d].deleted = clients[d].deleted
    <3>1. CASE c = Sales!NewClient
      <4>. DEFINE row(e) == [company |-> clientCtx[r].company, email |-> e, deleted |-> FALSE, byForm |-> TRUE,
                             byConversion |-> FALSE]
      <4>1. PICK email \in Emails : clients' = Append(clients, row(email))
        BY <1>4, <3>1 DEF Sales!Save
      <4>2. row(email) \in ClientRows /\ ~row(email).byConversion
        BY <2>1 DEF ClientRows
      <4>. QED
        <5>. HIDE DEF row
        <5>. QED BY <1>0, <4>1, <4>2, TableAppends DEF SalesTyped
    <3>2. CASE c # Sales!NewClient
      <4>. DEFINE row == [clients[c] EXCEPT !.company = clientCtx[r].company, !.byForm = TRUE]
      <4>1. c \in DOMAIN clients /\ clients[c] \in ClientRows
        BY <1>0, <2>1, <3>2 DEF SalesTyped, Sales!NewClient
      <4>2. row \in ClientRows /\ row.byConversion = clients[c].byConversion /\ row.email = clients[c].email
            /\ row.deleted = clients[c].deleted
        BY <2>1, <4>1 DEF ClientRows
      <4>3. clients' = [clients EXCEPT ![c] = row]
        BY <1>4, <3>2 DEF Sales!Save
      <4>. QED
        <5>. HIDE DEF row
        <5>. QED BY <1>0, <4>1, <4>2, <4>3, TableChanges DEF SalesTyped
    <3>. QED BY <3>1, <3>2
  <2>4. SalesGrows /\ SalesTyped'
    BY <1>0, <2>2, <2>3 DEF SalesGrows, SalesTyped
  <2>5. SalesKeeps(r)'
    BY <2>2 DEF SalesKeeps, Converting
  <2>6. Sales!OneAtATime =>
          SalesTogether' /\ ConvertedHaveProjects' /\ LookedUp(r)' /\ Linked(r)'
    BY <1>0, <2>2, <2>3 DEF SalesOne, SalesTogether, ByConversion, ConvertedHaveProjects, LookedUp, Linked, Converting
  <2>. QED BY <1>4, <2>4, <2>5, <2>6, SalesRequestMoves DEF Sales!Save, Sales!Answer
<1>5. ASSUME NEW c \in Sales!ActiveClients, NEW e \in Emails, Sales!EditClient(c, e) PROVE SalesInv'
  <2>. DEFINE row == [clients[c] EXCEPT !.email = e, !.byConversion = FALSE]
  <2>1. c \in DOMAIN clients /\ clients[c] \in ClientRows
    BY <1>0 DEF Sales!ActiveClients, Sales!Ids, SalesTyped
  <2>2. row \in ClientRows /\ ~row.byConversion
    BY <2>1 DEF ClientRows
  <2>3. clients' = [clients EXCEPT ![c] = row] /\ UNCHANGED <<leads, proposals, projects, clientPc, clientCtx>>
    BY <1>5 DEF Sales!EditClient
  <2>. HIDE DEF row
  <2>. QED BY <1>0, <2>1, <2>2, <2>3, ClientChanges
<1>6. ASSUME NEW c \in Sales!ActiveClients, Sales!RemoveClient(c) PROVE SalesInv'
  <2>1. c \in DOMAIN clients
    BY DEF Sales!ActiveClients, Sales!Ids
  <2>2. Sales!Gone \in ClientRows /\ ~Sales!Gone.byConversion
    BY DEF ClientRows, Sales!Gone
  <2>3. clients' = [clients EXCEPT ![c] = Sales!Gone] /\ UNCHANGED <<leads, proposals, projects, clientPc, clientCtx>>
    BY <1>6 DEF Sales!RemoveClient
  <2>. QED BY <1>0, <2>1, <2>2, <2>3, ClientChanges
<1>7. ASSUME NEW l \in Leads, Sales!CreateLead(l) PROVE SalesInv'
  <2>1. [is |-> "active", converted |-> FALSE, client |-> Unlinked] \in LeadRows
    BY DEF LeadRows, Links
  <2>. QED BY <1>7, <2>1, LeadChanges DEF Sales!CreateLead, Sales!SaveLead, Sales!Rest
<1>8. ASSUME NEW l \in Leads, NEW converted \in BOOLEAN, NEW c \in Sales!Ids \cup {Unlinked},
             Sales!UpdateLead(l, converted, c)
      PROVE  SalesInv'
  <2>1. leads[l] \in LeadRows /\ c \in Links
    BY <1>0, <1>8 DEF Sales!UpdateLead, Sales!LeadExists, SalesTyped, Sales!NoRow, Links, Sales!Ids
  <2>2. [leads[l] EXCEPT !.converted = converted, !.client = c] \in LeadRows
    BY <2>1 DEF LeadRows
  <2>. QED BY <1>8, <2>2, LeadChanges DEF Sales!UpdateLead, Sales!SaveLead, Sales!Rest
<1>9. ASSUME NEW l \in Leads, Sales!RemoveLead(l) PROVE SalesInv'
  <2>1. leads[l] \in LeadRows
    BY <1>0, <1>9 DEF Sales!RemoveLead, Sales!LeadExists, SalesTyped, Sales!NoRow
  <2>2. [leads[l] EXCEPT !.is = "deleted"] \in LeadRows
    BY <2>1 DEF LeadRows
  <2>. QED BY <1>9, <2>2, LeadChanges DEF Sales!RemoveLead, Sales!SaveLead, Sales!Rest
<1>10. ASSUME NEW p \in Proposals, NEW l \in Leads, Sales!CreateProposal(p, l) PROVE SalesInv'
  <2>1. leads[l] # Sales!NoRow /\ leads[l] \in LeadRows /\ proposals[p] = Sales!NoRow
    BY <1>0, <1>10 DEF Sales!CreateProposal, SalesTyped
  <2>2. PICK c \in IF leads[l].client = Unlinked THEN Sales!Ids \cup {Unlinked} ELSE {leads[l].client} :
          proposals' = [proposals EXCEPT ![p] = [is |-> "active", converted |-> FALSE, lead |-> l, client |-> c,
                                                 project |-> Unlinked]]
    BY <1>10 DEF Sales!CreateProposal
  <2>3. c \in Links
    BY <1>0, <2>1 DEF Sales!Ids, SalesTyped, Links, LeadRows
  <2>. DEFINE row == [is |-> "active", converted |-> FALSE, lead |-> l, client |-> c, project |-> Unlinked]
  <2>4. row \in ProposalRows /\ ~row.converted /\ row.lead = l
    BY <2>3 DEF ProposalRows, Links
  <2>5. UNCHANGED <<clients, leads, projects, clientPc, clientCtx>> /\ proposals' = [proposals EXCEPT ![p] = row]
    BY <1>10, <2>2 DEF Sales!CreateProposal, Sales!Rest
  <2>6. SalesGrows /\ SalesTyped'
    <3>. HIDE DEF row
    <3>. QED BY <1>0, <2>1, <2>4, <2>5 DEF SalesGrows, SalesTyped, ProposalRows, Sales!NoRow
  <2>7. Sales!OneAtATime => SalesOne'
    <3>. HIDE DEF row
    <3>. SUFFICES ASSUME Sales!OneAtATime PROVE SalesOne'
      OBVIOUS
    <3>1. SalesTogether' /\ ConvertedHaveProjects'
      BY <1>0, <2>4, <2>5 DEF SalesOne, SalesTogether, ByConversion, ConvertedHaveProjects, SalesTyped
    <3>2. ASSUME NEW r \in Conversions PROVE LookedUp(r)' /\ Linked(r)'
      <4>1. LookedUp(r) /\ Linked(r) /\ SalesKeeps(r)
        BY <1>0 DEF SalesOne
      <4>2. clientPc[r] \in Converting /\ clientCtx[r].proposal # Unlinked => clientCtx[r].proposal \in Proposals \ {p}
        BY <2>1, <4>1 DEF SalesKeeps, Conversion
      <4>. QED BY <1>0, <2>5, <4>1, <4>2 DEF LookedUp, Linked, ByConversion, SalesTyped, Converting
    <3>. QED BY <3>1, <3>2 DEF SalesOne
  <2>. QED BY <2>5, <2>6, <2>7, SalesNoRequestMoves
<1>11. ASSUME NEW p \in Proposals, Sales!RemoveProposal(p) PROVE SalesInv'
  <2>. DEFINE row == [proposals[p] EXCEPT !.is = "deleted"]
  <2>1. proposals[p] \in ProposalRows
    BY <1>0, <1>11 DEF Sales!RemoveProposal, Sales!ProposalExists, SalesTyped, Sales!NoRow
  <2>2. /\ row \in ProposalRows /\ row.converted = proposals[p].converted /\ row.client = proposals[p].client
        /\ row.project = proposals[p].project /\ row.lead = proposals[p].lead /\ proposals[p] # Sales!NoRow
    BY <1>11, <2>1 DEF ProposalRows, Sales!RemoveProposal, Sales!ProposalExists, Sales!NoRow
  <2>3. UNCHANGED <<clients, leads, projects, clientPc, clientCtx>> /\ proposals' = [proposals EXCEPT ![p] = row]
    BY <1>11 DEF Sales!RemoveProposal, Sales!Rest
  <2>. HIDE DEF row
  <2>4. SalesGrows /\ SalesTyped'
    BY <1>0, <2>2, <2>3 DEF SalesGrows, SalesTyped, ProposalRows, Sales!NoRow
  <2>5. /\ proposals[p] # Sales!NoRow
        /\ \A q \in Proposals : /\ proposals'[q].converted = proposals[q].converted
                                /\ proposals'[q].client = proposals[q].client
                                /\ proposals'[q].project = proposals[q].project
                                /\ (proposals'[q] # Sales!NoRow) = (proposals[q] # Sales!NoRow)
    BY <1>0, <2>1, <2>2, <2>3 DEF SalesTyped, ProposalRows, Sales!NoRow
  <2>6. Sales!OneAtATime => SalesOne'
    <3>. SUFFICES ASSUME Sales!OneAtATime PROVE SalesOne'
      OBVIOUS
    <3>1. SalesTogether' /\ ConvertedHaveProjects'
      BY <1>0, <2>3, <2>5 DEF SalesOne, SalesTogether, ByConversion, ConvertedHaveProjects
    <3>2. ASSUME NEW r \in Conversions PROVE LookedUp(r)' /\ Linked(r)'
      <4>1. LookedUp(r) /\ Linked(r) /\ SalesKeeps(r)
        BY <1>0 DEF SalesOne
      <4>2. clientPc[r] \in Converting /\ clientCtx[r].proposal # Unlinked => clientCtx[r].proposal \in Proposals
        BY <4>1 DEF SalesKeeps, Conversion
      <4>. QED BY <2>3, <2>5, <4>1, <4>2 DEF LookedUp, Linked, ByConversion, Converting
    <3>. QED BY <3>1, <3>2 DEF SalesOne
  <2>. QED BY <2>3, <2>4, <2>6, SalesNoRequestMoves
<1>12. ASSUME NEW r \in Conversions, NEW l \in Leads, NEW p \in Proposals \cup {Unlinked}, NEW c \in Links,
              NEW e \in Emails, leads[l] # Sales!NoRow,
              p # Unlinked => proposals[p] # Sales!NoRow /\ ~proposals[p].converted /\ proposals[p].client = c,
              Sales!Begin(r, l, p, c, e)
       PROVE  SalesInv'
  <2>. DEFINE what == [op |-> "convert", lead |-> l, proposal |-> p, client |-> c, project |-> Unlinked,
                       email |-> IF c = Unlinked THEN e ELSE NoEmail]
              where == IF c = Unlinked THEN "match" ELSE "project"
  <2>1. what \in Conversion /\ what.lead = l /\ what.proposal = p /\ what.client = c
    BY DEF Conversion, Links
  <2>2. UNCHANGED <<clients, leads, proposals, projects>> /\ Sales!Goto(r, where, what)
    BY <1>12 DEF Sales!Begin
  <2>. HIDE DEF what
  <2>3. SalesGrows /\ SalesTyped' /\ clientPc'[r] = where /\ clientCtx'[r] = what
    BY <1>0, <2>2 DEF SalesGrows, SalesTyped, Sales!Goto
  <2>4. SalesKeeps(r)'
    BY <1>12, <2>1, <2>2, <2>3 DEF SalesKeeps, Converting
  <2>5. Sales!OneAtATime =>
          SalesTogether' /\ ConvertedHaveProjects' /\ LookedUp(r)' /\ Linked(r)'
    BY <1>0, <1>12, <2>1, <2>2, <2>3 DEF SalesOne, SalesTogether, ByConversion, ConvertedHaveProjects, LookedUp,
       Linked,
       Converting
  <2>. QED BY <2>2, <2>3, <2>4, <2>5, SalesRequestMoves
<1>13. ASSUME NEW r \in Conversions, NEW e \in Emails, NEW l \in Leads, Sales!ConvertLead(r, l, e) PROVE SalesInv'
  <2>1. leads[l] # Sales!NoRow /\ leads[l].client \in Links /\ Sales!Begin(r, l, Unlinked, leads[l].client, e)
    BY <1>0, <1>13 DEF Sales!ConvertLead, Sales!LeadExists, Sales!NoRow, SalesTyped, LeadRows
  <2>. QED BY <1>12, <2>1
<1>14. ASSUME NEW r \in Conversions, NEW e \in Emails, NEW p \in Proposals, Sales!ConvertProposal(r, p, e)
       PROVE  SalesInv'
  <2>. DEFINE row == proposals[p]
  <2>1. /\ row # Sales!NoRow /\ ~row.converted /\ row \in ProposalRows
        /\ Sales!Begin(r, row.lead, p, row.client, e)
    BY <1>0, <1>14 DEF Sales!ConvertProposal, Sales!ProposalExists, Sales!NoRow, SalesTyped
  <2>2. row.lead \in Leads /\ row.client \in Links /\ leads[row.lead] # Sales!NoRow
    BY <1>0, <2>1 DEF ProposalRows, SalesTyped
  <2>. QED BY <1>12, <2>1, <2>2
<1>15. ASSUME NEW r \in Conversions, Sales!FindClient(r) PROVE SalesInv'
  <2>1. /\ clientPc[r] = "match" /\ clientCtx[r] \in Conversion /\ leads[clientCtx[r].lead] # Sales!NoRow
        /\ clientCtx[r].proposal # Unlinked => proposals[clientCtx[r].proposal] # Sales!NoRow
        /\ UNCHANGED <<clients, leads, proposals, projects>> /\ SalesGrows
    BY <1>0, <1>15 DEF Sales!FindClient, SalesKeeps, Converting, SalesGrows
  <2>2. CASE Sales!Match(r) = {}
    <3>1. SalesTyped' /\ clientPc'[r] = "client" /\ clientCtx'[r] = clientCtx[r]
      BY <1>0, <1>15, <2>1, <2>2 DEF Sales!FindClient, Sales!Then, Sales!Goto, SalesTyped
    <3>2. SalesKeeps(r)'
      BY <2>1, <3>1 DEF SalesKeeps, Converting
    <3>3. LookedUp(r)'
      BY <2>1, <2>2, <3>1 DEF LookedUp, ByConversion, Sales!Match, Sales!ActiveClients, Sales!Ids
    <3>4. Sales!OneAtATime => SalesTogether' /\ ConvertedHaveProjects' /\ Linked(r)'
      BY <1>0, <2>1, <3>1 DEF SalesOne, SalesTogether, ByConversion, ConvertedHaveProjects, Linked, Converting
    <3>. QED BY <1>15, <2>1, <2>2, <3>1, <3>2, <3>3, <3>4, SalesRequestMoves DEF Sales!FindClient, Sales!Then
  <2>3. CASE Sales!Match(r) # {}
    <3>1. PICK c \in Sales!Match(r) : Sales!Goto(r, "link", [clientCtx[r] EXCEPT !.client = c])
      BY <1>15, <2>3 DEF Sales!FindClient
    <3>. DEFINE what == [clientCtx[r] EXCEPT !.client = c]
    <3>2. c \in Links
      BY <1>0 DEF Sales!Match, Sales!ActiveClients, Sales!Ids, Links, SalesTyped
    <3>3. what \in Conversion /\ what.lead = clientCtx[r].lead /\ what.proposal = clientCtx[r].proposal
      BY <2>1, <3>2 DEF Conversion
    <3>. HIDE DEF what
    <3>4. SalesTyped' /\ clientPc'[r] = "link" /\ clientCtx'[r] = what
      BY <1>0, <2>1, <3>1 DEF Sales!Goto, SalesTyped, what
    <3>5. SalesKeeps(r)'
      BY <2>1, <3>3, <3>4 DEF SalesKeeps, Converting
    <3>6. Sales!OneAtATime =>
            SalesTogether' /\ ConvertedHaveProjects' /\ LookedUp(r)' /\ Linked(r)'
      BY <1>0, <2>1, <3>3, <3>4 DEF SalesOne, SalesTogether, ByConversion, ConvertedHaveProjects, LookedUp, Linked,
         Converting
    <3>. QED BY <2>1, <3>1, <3>4, <3>5, <3>6, SalesRequestMoves
  <2>. QED BY <2>2, <2>3
<1>16. ASSUME NEW r \in Conversions, NEW k \in Companies, Sales!MakeClient(r, k) PROVE SalesInv'
  <2>1. /\ clientPc[r] = "client" /\ clientCtx[r] \in Conversion /\ leads[clientCtx[r].lead] # Sales!NoRow
        /\ clientCtx[r].proposal # Unlinked => proposals[clientCtx[r].proposal] # Sales!NoRow
        /\ UNCHANGED <<leads, proposals, projects>>
    BY <1>0, <1>16 DEF Sales!MakeClient, SalesKeeps, Converting
  <2>. DEFINE row == [company |-> k, email |-> IF clientCtx[r].email = NoEmail THEN Generated ELSE clientCtx[r].email,
                      deleted |-> FALSE, byForm |-> FALSE, byConversion |-> TRUE]
              what == [clientCtx[r] EXCEPT !.client = Len(clients) + 1]
  <2>2. row \in ClientRows /\ (row.email # Generated => clientCtx[r].email # NoEmail /\ row.email = clientCtx[r].email)
    BY <2>1 DEF ClientRows, Conversion
  <2>3. what \in Conversion /\ what.lead = clientCtx[r].lead /\ what.proposal = clientCtx[r].proposal
    BY <1>0, <2>1 DEF Conversion, Links, SalesTyped
  <2>4. clients' = Append(clients, row) /\ Sales!Goto(r, "link", what)
    BY <1>16 DEF Sales!MakeClient
  <2>. HIDE DEF row, what
  <2>5. /\ clients' \in Seq(ClientRows) /\ DOMAIN clients' = DOMAIN clients \cup {Len(clients) + 1}
        /\ clients'[Len(clients) + 1] = row /\ \A c \in DOMAIN clients : clients'[c] = clients[c]
    BY <1>0, <2>2, <2>4, TableAppends DEF SalesTyped
  <2>6. SalesTyped' /\ SalesGrows /\ clientPc'[r] = "link" /\ clientCtx'[r] = what
    BY <1>0, <2>1, <2>4, <2>5 DEF Sales!Goto, SalesTyped, SalesGrows
  <2>7. SalesKeeps(r)'
    BY <2>1, <2>3, <2>6 DEF SalesKeeps, Converting
  <2>8. Sales!OneAtATime => SalesTogether'
    BY <1>0, <2>1, <2>2, <2>5 DEF SalesOne, SalesTogether, LookedUp, ByConversion
  <2>9. Sales!OneAtATime => ConvertedHaveProjects' /\ LookedUp(r)' /\ Linked(r)'
    BY <1>0, <2>1, <2>3, <2>6 DEF SalesOne, ConvertedHaveProjects, LookedUp, Linked, Converting
  <2>. QED BY <2>4, <2>6, <2>7, <2>8, <2>9, SalesRequestMoves
<1>17. ASSUME NEW r \in Conversions, Sales!CreateProject(r) PROVE SalesInv'
  <2>1. /\ clientPc[r] = "project" /\ clientCtx[r] \in Conversion /\ leads[clientCtx[r].lead] # Sales!NoRow
        /\ clientCtx[r].proposal # Unlinked => proposals[clientCtx[r].proposal] # Sales!NoRow
        /\ UNCHANGED <<clients, leads, proposals>> /\ SalesGrows
    BY <1>0, <1>17 DEF Sales!CreateProject, SalesKeeps, Converting, SalesGrows
  <2>. DEFINE what == [clientCtx[r] EXCEPT !.project = Len(projects) + 1]
  <2>2. /\ what \in Conversion /\ what.lead = clientCtx[r].lead /\ what.proposal = clientCtx[r].proposal
        /\ what.client = clientCtx[r].client /\ what.project = Len(projects) + 1 /\ clientCtx[r].client \in Links
    BY <1>0, <2>1 DEF Conversion, Links, SalesTyped
  <2>3. projects' = Append(projects, clientCtx[r].client) /\ Sales!Goto(r, "mark", what)
    BY <1>17 DEF Sales!CreateProject
  <2>. HIDE DEF what
  <2>4. /\ projects' \in Seq(Links) /\ DOMAIN projects' = DOMAIN projects \cup {Len(projects) + 1}
        /\ projects'[Len(projects) + 1] = clientCtx[r].client /\ \A p \in DOMAIN projects : projects'[p] = projects[p]
    BY <1>0, <2>2, <2>3, TableAppends DEF SalesTyped
  <2>5. SalesTyped' /\ clientPc'[r] = "mark" /\ clientCtx'[r] = what
    BY <1>0, <2>1, <2>3, <2>4 DEF Sales!Goto, SalesTyped
  <2>6. SalesKeeps(r)'
    BY <2>1, <2>2, <2>5 DEF SalesKeeps, Converting
  <2>7. Sales!OneAtATime =>
          SalesTogether' /\ ConvertedHaveProjects' /\ LookedUp(r)' /\ Linked(r)'
    BY <1>0, <2>1, <2>2, <2>4, <2>5 DEF SalesOne, SalesTogether, ByConversion, ConvertedHaveProjects, LookedUp,
       Linked, Converting
  <2>. QED BY <2>1, <2>3, <2>5, <2>6, <2>7, SalesRequestMoves
<1>18. ASSUME NEW r \in Conversions, Sales!Fail(r) PROVE SalesInv'
  <2>1. /\ UNCHANGED <<clients, leads, proposals, projects>> /\ SalesGrows /\ Sales!Goto(r, "idle", Sales!Idle)
        /\ SalesTyped' /\ clientPc'[r] = "idle"
    BY <1>0, <1>18 DEF Sales!Fail, Sales!Answer, Sales!Goto, SalesGrows, SalesTyped
  <2>2. SalesKeeps(r)'
    BY <2>1 DEF SalesKeeps, Converting
  <2>3. Sales!OneAtATime =>
          SalesTogether' /\ ConvertedHaveProjects' /\ LookedUp(r)' /\ Linked(r)'
    BY <1>0, <2>1 DEF SalesOne, SalesTogether, ByConversion, ConvertedHaveProjects, LookedUp, Linked, Converting
  <2>. QED BY <2>1, <2>2, <2>3, SalesRequestMoves
<1>19. ASSUME NEW r \in Conversions, clientPc[r] \in Converting, UNCHANGED <<clients, leads, proposals, projects>>,
              Sales!Answer(r)
       PROVE  SalesInv'
  <2>1. /\ SalesGrows /\ Sales!Goto(r, "idle", Sales!Idle) /\ SalesTyped' /\ clientPc'[r] = "idle"
    BY <1>0, <1>19 DEF Sales!Answer, Sales!Goto, SalesGrows, SalesTyped
  <2>2. SalesKeeps(r)'
    BY <2>1 DEF SalesKeeps, Converting
  <2>3. Sales!OneAtATime =>
          SalesTogether' /\ ConvertedHaveProjects' /\ LookedUp(r)' /\ Linked(r)'
    BY <1>0, <1>19, <2>1 DEF SalesOne, SalesTogether, ByConversion, ConvertedHaveProjects, LookedUp, Linked,
       Converting
  <2>. QED BY <2>1, <2>2, <2>3, SalesRequestMoves
<1>20. ASSUME NEW r \in Conversions, Sales!LinkProposal(r) \/ Sales!MarkProposal(r) PROVE SalesInv'
  <2>. DEFINE p == clientCtx[r].proposal
              linked == [proposals[p] EXCEPT !.client = clientCtx[r].client]
              marked == [proposals[p] EXCEPT !.converted = TRUE, !.project = clientCtx[r].project]
              row == IF clientPc[r] = "link" THEN linked ELSE marked
              next == IF clientPc[r] = "link" THEN "linkLead" ELSE "markLead"
  <2>1. /\ clientPc[r] \in {"link", "mark"} /\ clientCtx[r] \in Conversion /\ leads[clientCtx[r].lead] # Sales!NoRow
        /\ p \in Proposals /\ p # Unlinked /\ proposals[p] # Sales!NoRow /\ proposals[p] \in ProposalRows
        /\ UNCHANGED <<clients, leads, projects>>
    BY <1>0, <1>20 DEF Sales!LinkProposal, Sales!MarkProposal, Sales!OnProposal, SalesKeeps, Converting,
       Conversion, SalesTyped
  <2>2. CASE Sales!ProposalExists(p)
    <3>1. Sales!Then(r, next) /\ proposals' = [proposals EXCEPT ![p] = row]
      BY <1>20, <2>1, <2>2 DEF Sales!LinkProposal, Sales!MarkProposal, Sales!OnProposal, Sales!ProposalOf
    <3>2. /\ row \in ProposalRows /\ row.lead = proposals[p].lead
          /\ clientPc[r] = "link" =>
               row.client = clientCtx[r].client /\ row.converted = proposals[p].converted /\ row.project = proposals[p].project
          /\ clientPc[r] = "mark" =>
               row.client = proposals[p].client /\ row.converted /\ row.project = clientCtx[r].project
      BY <2>1 DEF ProposalRows, Conversion
    <3>. HIDE DEF row
    <3>3. /\ proposals'[p] = row /\ row # Sales!NoRow
          /\ \A q \in Proposals \ {p} : proposals'[q] = proposals[q]
      <4>1. proposals'[p] = row /\ \A q \in Proposals \ {p} : proposals'[q] = proposals[q]
        BY <1>0, <2>1, <3>1 DEF SalesTyped
      <4>2. row # Sales!NoRow
        BY <3>2 DEF ProposalRows, Sales!NoRow
      <4>. QED BY <4>1, <4>2
    <3>4. /\ SalesGrows /\ SalesTyped' /\ Sales!Goto(r, next, clientCtx[r])
          /\ clientPc'[r] = next /\ clientCtx'[r] = clientCtx[r]
      <4>1. SalesGrows
        BY <2>1, <3>3 DEF SalesGrows
      <4>2. SalesTyped'
        <5>1. proposals' \in [Proposals -> ProposalRows \cup {Sales!NoRow}]
          BY <1>0, <3>1, <3>2 DEF SalesTyped
        <5>2. \A q \in Proposals : proposals'[q] # Sales!NoRow => leads'[proposals'[q].lead] # Sales!NoRow
          BY <1>0, <2>1, <3>2, <3>3 DEF SalesTyped
        <5>. QED BY <1>0, <2>1, <3>1, <5>1, <5>2 DEF SalesTyped, Sales!Then, Sales!Goto
      <4>. QED BY <1>0, <3>1, <4>1, <4>2 DEF SalesTyped, Sales!Then, Sales!Goto
    <3>5. SalesKeeps(r)'
      BY <2>1, <3>3, <3>4 DEF SalesKeeps, Converting
    <3>6. ASSUME Sales!OneAtATime
          PROVE  SalesTogether' /\ ConvertedHaveProjects' /\ LookedUp(r)' /\ Linked(r)'
      <4>1. SalesTogether /\ ConvertedHaveProjects /\ Linked(r)
        BY <1>0, <3>6 DEF SalesOne
      <4>2. SalesTogether' /\ LookedUp(r)'
        BY <2>1, <3>4, <4>1 DEF SalesTogether, ByConversion, LookedUp
      <4>3. ConvertedHaveProjects'
        BY <2>1, <3>2, <3>3, <4>1 DEF ConvertedHaveProjects, Linked, Converting
      <4>4. Linked(r)'
        BY <2>1, <3>2, <3>3, <3>4, <4>1 DEF Linked, Converting
      <4>. QED BY <4>2, <4>3, <4>4
    <3>. QED BY <3>4, <3>5, <3>6, SalesRequestMoves
  <2>3. CASE ~Sales!ProposalExists(p)
    <3>1. UNCHANGED proposals /\ Sales!Answer(r)
      BY <1>20, <2>3 DEF Sales!LinkProposal, Sales!MarkProposal, Sales!OnProposal
    <3>. QED BY <1>19, <2>1, <3>1 DEF Converting
  <2>. QED BY <2>2, <2>3
<1>21. ASSUME NEW r \in Conversions, Sales!LinkLead(r) \/ Sales!MarkLead(r) PROVE SalesInv'
  <2>. DEFINE l == clientCtx[r].lead
              links == clientPc[r] \in {"link", "linkLead"}
              row == IF links THEN [leads[l] EXCEPT !.client = clientCtx[r].client] ELSE [leads[l] EXCEPT !.converted = TRUE]
  <2>1. /\ clientPc[r] \in {"link", "linkLead", "mark", "markLead"} /\ clientCtx[r] \in Conversion
        /\ l \in Leads /\ leads[l] # Sales!NoRow /\ leads[l] \in LeadRows
        /\ clientCtx[r].proposal # Unlinked => proposals[clientCtx[r].proposal] # Sales!NoRow
        /\ clientPc[r] \in {"link", "mark"} => clientCtx[r].proposal = Unlinked
        /\ UNCHANGED <<clients, proposals, projects>>
    BY <1>0, <1>21 DEF Sales!LinkLead, Sales!MarkLead, Sales!OnLead, SalesKeeps, Converting, Conversion, SalesTyped
  <2>2. row \in LeadRows /\ leads' = [leads EXCEPT ![l] = row]
    BY <1>21, <2>1 DEF Sales!LinkLead, Sales!MarkLead, Sales!OnLead, Sales!LeadOf, LeadRows, Conversion
  <2>3. IF links THEN Sales!Then(r, "project") ELSE Sales!Answer(r)
    BY <1>21, <2>1 DEF Sales!LinkLead, Sales!MarkLead, Sales!OnLead
  <2>. HIDE DEF row
  <2>4. SalesGrows
    BY <1>0, <2>1, <2>2 DEF SalesTyped, SalesGrows, LeadRows, Sales!NoRow
  <2>5. SalesTyped'
    BY <1>0, <2>1, <2>2, <2>3, <2>4 DEF SalesTyped, SalesGrows, Sales!Then, Sales!Answer, Sales!Goto
  <2>6. clientPc'[r] = (IF links THEN "project" ELSE "idle") /\ (links => clientCtx'[r] = clientCtx[r])
    BY <1>0, <2>3 DEF SalesTyped, Sales!Then, Sales!Answer, Sales!Goto
  <2>7. SalesKeeps(r)'
    BY <2>1, <2>4, <2>6 DEF SalesKeeps, Converting, SalesGrows, Conversion
  <2>8. Sales!OneAtATime =>
          SalesTogether' /\ ConvertedHaveProjects' /\ LookedUp(r)' /\ Linked(r)'
    BY <1>0, <2>1, <2>6 DEF SalesOne, SalesTogether, ByConversion, ConvertedHaveProjects, LookedUp, Linked, Converting
  <2>9. CASE links
    BY <2>3, <2>4, <2>5, <2>7, <2>8, <2>9, SalesRequestMoves DEF Sales!Then
  <2>10. CASE ~links
    BY <2>3, <2>4, <2>5, <2>7, <2>8, <2>10, SalesRequestMoves DEF Sales!Answer
  <2>. QED BY <2>9, <2>10
<1>. QED
  BY <1>1, <1>2, <1>3, <1>4, <1>5, <1>6, <1>7, <1>8, <1>9, <1>10, <1>11, <1>13, <1>14, <1>15, <1>16, <1>17, <1>18,
     <1>20,
     <1>21
  DEF Sales!Next, Sales!FormStep, Sales!LeadStep, Sales!ConversionStep

LEMMA SalesInductive == Spec => []SalesInv
BY ServicesRunSales, SalesStart, SalesSteps, PTL DEF Sales!Spec

(* Where conversions run one at a time they never make a second client of an  *)
(* email, and a converted proposal has a project of the client it names,      *)
(* wherever a conversion stopped and whatever is edited in between.           *)
THEOREM ConversionsAreConsistent == Spec => []ConversionsFindTheirClient
<1>1. ASSUME SalesInv, Sales!OneAtATime PROVE ConversionsFindTheirClient
  <2>1. SalesTogether /\ ConvertedHaveProjects
    BY <1>1 DEF SalesInv
  <2>2. \A c, d \in Sales!ActiveClients :
          clients[c].byConversion /\ clients[d].byConversion /\ clients[c].email = clients[d].email
            /\ clients[c].email # Generated => c = d
    BY <2>1 DEF SalesTogether, ByConversion, Sales!ActiveClients, Sales!Ids
  <2>3. \A p \in Proposals : Sales!ProposalExists(p) => proposals[p] # Sales!NoRow
    BY DEF Sales!ProposalExists, Sales!NoRow
  <2>4. \A p \in Proposals : Sales!ProposalExists(p) /\ proposals[p].converted =>
          proposals[p].project \in DOMAIN projects /\ projects[proposals[p].project] = proposals[p].client
    BY <2>1, <2>3 DEF ConvertedHaveProjects
  <2>. QED BY <2>2, <2>4 DEF ConversionsFindTheirClient, Sales!ConversionsFindTheirClient
<1>2. ASSUME ~Sales!OneAtATime PROVE ConversionsFindTheirClient
  BY <1>2 DEF ConversionsFindTheirClient, Sales!ConversionsFindTheirClient
<1>3. SalesInv => ConversionsFindTheirClient
  BY <1>1, <1>2
<1>. QED BY <1>3, SalesInductive, PTL
----------------------------------------------------------------------------
(* Scopes. What the rows can be; who may see what then follows from the       *)
(* definitions of the scopes, whatever the roles and links of the users are.  *)
ScopesTyped ==
  /\ site \in [client : Clients, exec : SeoStaff \cup {NoOne}]
  /\ project \in [client : Clients, members : SUBSET DOMAIN Role, deleted : BOOLEAN]
  /\ content \in BOOLEAN

LEMMA ScopesStart == Init => ScopesTyped
BY DEF Init, ScopesTyped, Seo!Init, Projects!Init

LEMMA ScopesSteps == ScopesTyped /\ [Next]_vars => ScopesTyped'
<1>. SUFFICES ASSUME ScopesTyped, [Next]_vars PROVE ScopesTyped'
  OBVIOUS
<1>1. CASE UNCHANGED <<site, project, content>>
  BY <1>1 DEF ScopesTyped
<1>2. CASE Seo!Next /\ UNCHANGED projectScopes
  BY <1>2 DEF ScopesTyped, Seo!Next, Seo!UpdateWebsite, Seo!DeleteClient, projectScopes
<1>3. CASE Projects!Next /\ UNCHANGED seoScopes
  BY <1>3 DEF ScopesTyped, Projects!Next, Projects!MoveProject, Projects!DeleteProject, Projects!ChangeMembers,
     Projects!Assign, Projects!Delete, Projects!DeleteClient, Projects!Staff, Projects!Users, seoScopes
<1>. QED BY <1>1, <1>2, <1>3 DEF Next, vars, seoScopes, projectScopes

LEMMA SeoListsMatch == ASSUME ScopesTyped PROVE Seo!ListsMatchAccess
<1>. SUFFICES ASSUME NEW u \in Seo!Users
     PROVE  /\ \A q \in Seo!Queries : /\ Seo!LogListed(u, q) => Seo!LogReadable(u)
                                      /\ Seo!ReportListed(u, q) => Seo!ReportReadable(u)
            /\ Seo!LogReadable(u) => Seo!LogListed(u, Seo!NoFilter)
            /\ Seo!ReportReadable(u) => Seo!ReportListed(u, Seo!NoFilter)
            /\ Seo!PdfReadable(u) => Seo!ReportReadable(u)
            /\ Seo!ShowsMask(u) => Seo!LogReadable(u)
            /\ Seo!KeywordListed(u) \/ Seo!CredentialListed(u) => Seo!WebsiteReadable(u)
            /\ Seo!WebsiteReadable(u) => Seo!WebsiteListed(u)
            /\ \A q \in Seo!Queries : Seo!TaskCounted(u, q) /\ Seo!IsExecutive(u) => task.exec = u
  BY DEF Seo!ListsMatchAccess
<1>1. ~(Seo!IsClient(u) /\ Seo!IsExecutive(u)) /\ ~(Seo!IsPrivileged(u) /\ (Seo!IsClient(u) \/ Seo!IsExecutive(u)))
  BY DEF Seo!IsClient, Seo!IsExecutive, Seo!IsPrivileged
<1>2. ASSUME NEW value PROVE Seo!Passes(Seo!Any, value)
  BY DEF Seo!Passes
<1>3. Seo!NoFilter.status = Seo!Any /\ Seo!NoFilter.exec = Seo!Any /\ Seo!NoFilter.client = Seo!Any
  BY DEF Seo!NoFilter
<1>4. \A q \in Seo!Queries : /\ Seo!LogListed(u, q) => Seo!LogReadable(u)
                             /\ Seo!ReportListed(u, q) => Seo!ReportReadable(u)
  BY DEF Seo!LogListed, Seo!LogScope, Seo!LogReadable, Seo!ReportListed, Seo!ReportReadable
<1>5. Seo!LogReadable(u) => Seo!LogListed(u, Seo!NoFilter)
  BY <1>2, <1>3 DEF Seo!LogReadable, Seo!LogListed, Seo!LogScope, Seo!LogFilter
<1>6. Seo!ReportReadable(u) => Seo!ReportListed(u, Seo!NoFilter)
  BY <1>2, <1>3 DEF Seo!ReportReadable, Seo!ReportListed
<1>7. (Seo!PdfReadable(u) => Seo!ReportReadable(u)) /\ (Seo!ShowsMask(u) => Seo!LogReadable(u))
  BY <1>1 DEF Seo!PdfReadable, Seo!ReportReadable, Seo!ShowsMask, Seo!LogReadable
<1>8. Seo!KeywordListed(u) \/ Seo!CredentialListed(u) => Seo!WebsiteReadable(u)
  BY <1>1 DEF Seo!KeywordListed, Seo!CredentialListed, Seo!WebsiteReadable, Seo!LinkedClient
<1>9. Seo!WebsiteReadable(u) => Seo!WebsiteListed(u)
  BY DEF Seo!WebsiteReadable, Seo!WebsiteListed, ScopesTyped
<1>10. \A q \in Seo!Queries : Seo!TaskCounted(u, q) /\ Seo!IsExecutive(u) => task.exec = u
  BY DEF Seo!TaskCounted, Seo!TaskListed, Seo!TaskScope
<1>. QED BY <1>4, <1>5, <1>6, <1>7, <1>8, <1>9, <1>10

\* Whoever a portal user belongs to, it is the linked client or the one with
\* the user's email.
LEMMA ResolvedIsOwn == \A u : Projects!Resolved(u) \in {NoOne, ClientOf[u], EmailOf[u]}
<1>. SUFFICES ASSUME NEW u PROVE Projects!Resolved(u) \in {NoOne, ClientOf[u], EmailOf[u]}
  OBVIOUS
<1>. DEFINE matches == {c \in Clients \ deleted : c = EmailOf[u]}
<1>1. (\E c \in matches : matches = {c}) => (CHOOSE c \in matches : TRUE) \in matches
  OBVIOUS
<1>. QED BY <1>1 DEF Projects!Resolved

LEMMA ProjectListsMatch == ASSUME ScopesTyped PROVE Projects!ListsMatchRecords
<1>. SUFFICES ASSUME NEW u \in Projects!Users
     PROVE  /\ <<Projects!ProjectReadable(u), Projects!ClientReadable(u), Projects!LeadReadable(u),
                 Projects!InvoiceReadable(u), Projects!ProposalReadable(u)>>
              = <<Projects!ProjectListed(u), Projects!ClientListed(u), Projects!LeadListed(u),
                  Projects!InvoiceListed(u), Projects!ProposalListed(u)>>
            /\ Projects!Parents =>
                 <<Projects!TaskListed(u), Projects!MilestoneListed(u), Projects!FileListed(u), Projects!CommentListed(u)>>
                 = <<Projects!TaskReadable(u), Projects!MilestoneReadable(u), Projects!FileReadable(u),
                     Projects!CommentReadable(u)>>
            /\ Projects!Parents /\ ~Projects!IsClient(u) =>
                 <<Projects!MemberListed(u), Projects!ReviewListed(u)>>
                 = <<Projects!MemberReadable(u), Projects!ReviewReadable(u)>>
            /\ Projects!TaskReadable(u) => Projects!TaskListed(u)
            /\ Projects!MilestoneReadable(u) => Projects!MilestoneListed(u)
            /\ Projects!FileOpens(u) => Projects!FileReadable(u)
            /\ Projects!FileReadable(u) => Projects!FileListed(u)
            /\ Projects!CommentReadable(u) => Projects!CommentListed(u)
            /\ Projects!TaskCounted(u) => Projects!TaskReadable(u)
  BY DEF Projects!ListsMatchRecords
<1>1. Projects!ProjectReadable(u) = Projects!ProjectListed(u)
  BY DEF Projects!ProjectReadable, Projects!ProjectListed, Projects!CanAccess
<1>2. Projects!ClientReadable(u) = Projects!ClientListed(u) /\ Projects!LeadReadable(u) = Projects!LeadListed(u)
  BY DEF Projects!ClientReadable, Projects!ClientListed, Projects!LeadReadable, Projects!LeadListed
<1>3. Projects!InvoiceReadable(u) = Projects!InvoiceListed(u) /\ Projects!ProposalReadable(u) = Projects!ProposalListed(u)
  BY DEF Projects!InvoiceReadable, Projects!InvoiceListed, Projects!ProposalReadable, Projects!ProposalListed
<1>4. Projects!Scope(u) \in BOOLEAN
  BY DEF Projects!Scope, Projects!OwnClient, Projects!StaffScope, Projects!Super
<1>5. Projects!CanAccess(u) => Projects!Scope(u)
  BY DEF Projects!CanAccess
<1>6. Projects!Parents => Projects!CanAccess(u) = Projects!Scope(u) /\ Projects!Here("task") /\ Projects!Here("file")
  BY <1>4 DEF Projects!Parents, Projects!CanAccess
<1>. DEFINE LEq == /\ Projects!TaskListed(u) = Projects!TaskReadable(u)
                   /\ Projects!MilestoneListed(u) = Projects!MilestoneReadable(u)
                   /\ Projects!FileListed(u) = Projects!FileReadable(u)
                   /\ Projects!CommentListed(u) = Projects!CommentReadable(u)
<1>7. Projects!Parents => LEq
  BY <1>4, <1>6 DEF Projects!TaskListed, Projects!TaskReadable, Projects!MilestoneListed, Projects!MilestoneReadable,
     Projects!FileListed, Projects!FileReadable, Projects!CommentListed, Projects!CommentReadable
<1>8. Projects!Parents /\ ~Projects!IsClient(u) =>
        Projects!MemberListed(u) = Projects!MemberReadable(u) /\ Projects!ReviewListed(u) = Projects!ReviewReadable(u)
  BY <1>4, <1>6 DEF Projects!MemberListed, Projects!MemberReadable, Projects!ReviewListed, Projects!ReviewReadable
<1>9. /\ Projects!TaskReadable(u) => Projects!TaskListed(u)
      /\ Projects!MilestoneReadable(u) => Projects!MilestoneListed(u)
      /\ Projects!FileOpens(u) => Projects!FileReadable(u)
      /\ Projects!FileReadable(u) => Projects!FileListed(u)
      /\ Projects!CommentReadable(u) => Projects!CommentListed(u)
  BY <1>5 DEF Projects!TaskListed, Projects!TaskReadable, Projects!MilestoneListed, Projects!MilestoneReadable,
     Projects!FileOpens, Projects!FileListed, Projects!FileReadable, Projects!CommentListed, Projects!CommentReadable
<1>10. Projects!TaskCounted(u) => Projects!TaskReadable(u)
  BY DEF Projects!TaskCounted, Projects!TaskReadable, Projects!CanAccess, Projects!Scope
<1>. QED BY <1>1, <1>2, <1>3, <1>7, <1>8, <1>9, <1>10

LEMMA VaultMatches == ASSUME ScopesTyped PROVE Projects!VaultMatchesFiles
<1>. SUFFICES ASSUME NEW u \in Projects!Users
     PROVE  /\ Projects!DocumentOpens(u) = (Projects!IsClient(u) /\ Projects!FileOpens(u))
            /\ Projects!DocumentOpens(u) = (Projects!DocumentListed(u) /\ content)
            /\ Projects!DocumentListed(u) => Projects!DocumentInOverview(u) /\ Projects!PortalActivityListed(u)
            /\ Projects!IsClient(u) /\ project.client \notin {ClientOf[u], EmailOf[u]} =>
                 ~ (\/ Projects!TaskListed(u) \/ Projects!FileListed(u) \/ Projects!CommentListed(u)
                    \/ Projects!ActivityListed(u) \/ Projects!DocumentInOverview(u) \/ Projects!MemberReadable(u)
                    \/ Projects!InvoiceListed(u) \/ Projects!ProposalListed(u) \/ Projects!ClientListed(u))
  BY DEF Projects!VaultMatchesFiles
<1>1. Projects!DocumentOpens(u) = (Projects!IsClient(u) /\ Projects!FileOpens(u))
  BY DEF ScopesTyped, Projects!DocumentOpens, Projects!FileOpens, Projects!OfPortal, Projects!CanAccess,
     Projects!Scope,
     Projects!IsClient, Projects!OwnClient, Projects!Here
<1>2. Projects!DocumentOpens(u) = (Projects!DocumentListed(u) /\ content)
  BY DEF ScopesTyped, Projects!DocumentOpens, Projects!DocumentListed
<1>3. Projects!DocumentListed(u) => Projects!DocumentInOverview(u) /\ Projects!PortalActivityListed(u)
  BY DEF Projects!DocumentListed, Projects!DocumentInOverview, Projects!PortalActivityListed
<1>4. ASSUME Projects!IsClient(u), project.client \notin {ClientOf[u], EmailOf[u]}
      PROVE  ~Projects!OwnClient(u, project.client) /\ ~Projects!LinkedClient(u, project.client)
  BY <1>4, ResolvedIsOwn DEF Projects!OwnClient, Projects!LinkedClient
<1>5. ASSUME Projects!IsClient(u), project.client \notin {ClientOf[u], EmailOf[u]}
      PROVE  ~Projects!Scope(u) /\ ~Projects!OfPortal(u) /\ ~Projects!CanAccess(u)
  BY <1>4, <1>5 DEF Projects!Scope, Projects!OfPortal, Projects!CanAccess
<1>6. ASSUME Projects!IsClient(u), project.client \notin {ClientOf[u], EmailOf[u]}
      PROVE  ~ (\/ Projects!TaskListed(u) \/ Projects!FileListed(u) \/ Projects!CommentListed(u)
                \/ Projects!ActivityListed(u) \/ Projects!DocumentInOverview(u) \/ Projects!MemberReadable(u)
                \/ Projects!InvoiceListed(u) \/ Projects!ProposalListed(u) \/ Projects!ClientListed(u))
  BY <1>4, <1>5, <1>6 DEF Projects!TaskListed, Projects!FileListed, Projects!CommentListed, Projects!ActivityListed,
     Projects!DocumentInOverview, Projects!MemberReadable, Projects!InvoiceListed, Projects!ProposalListed,
     Projects!ClientListed
<1>. QED BY <1>1, <1>2, <1>3, <1>6

(* Lists show exactly what their users may open, in the SEO department, on    *)
(* projects and in the client portal, whatever the roles and links of the     *)
(* users, the deletions and the moves between clients.                        *)
THEOREM ListsAgreeWithRecords == Spec => []ListsMatchAccess
<1>1. ScopesTyped => ListsMatchAccess
  BY SeoListsMatch, ProjectListsMatch, VaultMatches DEF ListsMatchAccess, Projects!ScopesAgree
<1>. QED BY <1>1, ScopesStart, ScopesSteps, PTL DEF Spec
=============================================================================
