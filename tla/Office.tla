------------------------------- MODULE Office -------------------------------
(* What the staff keeps in the database besides: the figures of the invoice   *)
(* dashboard, receipt numbers, a project and its tasks, roles and accounts,   *)
(* the form for clients, files. The components share no variable, so each     *)
(* behaviour moves one of them (part) while the others rest in their initial  *)
(* states, and what is true of the office is true of each of them by itself.  *)
EXTENDS InvoiceTotals

CONSTANTS Requests,          \* of every component: requests running at a time
          None,              \* no number, no lock, no client
          Processes, PaymentRows, Invoices, Bases, Deleted, MaxAttempts,         \* Receipts
          Milestones, Tasks, People, NoMilestone, TaskStatuses, Typed,           \* ProjectWork
          Accounts, SuperAdmins, Roles, Privileged, NoRole, Permissions,         \* Access
          ManageRoles, ManageUsers, Credential, Grants,
          Companies, Emails, NoEmail, Generated, Leads, Proposals,               \* Onboarding
          MaxClients, MaxProjects,
          Names, MaxUploads, NoContent                                           \* TaskFiles

ASSUME RightsAssumption == NoRole \notin Roles /\ Grants \subseteq SUBSET Permissions
ASSUME ReceiptsAssumption == None \notin Processes /\ Deleted \notin Bases \X Nat
ASSUME FilesAssumption == NoContent \notin Nat \ {0}

VARIABLES part,
          receipt, owner, base, turns, holder, receiptPc, receiptCtx, writtenBy,
          project, milestones, tasks, assigned, members, workPc, workCtx, disturbed,
          roles, accounts, given, passable,
          clients, leads, proposals, projects, queue, clientPc, clientCtx,
          files, disk, uploads, filePc, fileCtx, lost

receipts == <<receipt, owner, base, turns, holder, receiptPc, receiptCtx, writtenBy>>
projectWork == <<project, milestones, tasks, assigned, members, workPc, workCtx, disturbed>>
access == <<roles, accounts, given, passable>>
onboarding == <<clients, leads, proposals, projects, queue, clientPc, clientCtx>>
taskFiles == <<files, disk, uploads, filePc, fileCtx, lost>>
officeVars == <<part, vars, receipts, projectWork, access, onboarding, taskFiles>>

Receipts == INSTANCE Receipts WITH
  Payments <- PaymentRows, queue <- turns, pc <- receiptPc, ctx <- receiptCtx, by <- writtenBy
Work == INSTANCE ProjectWork WITH pc <- workPc, ctx <- workCtx
Rights == INSTANCE Access
Forms == INSTANCE Onboarding WITH pc <- clientPc, ctx <- clientCtx
Files == INSTANCE TaskFiles WITH pc <- filePc, ctx <- fileCtx
----------------------------------------------------------------------------
OfficeInit ==
  /\ part \in {"totals", "receipts", "work", "rights", "forms", "files"}
  /\ Init /\ Receipts!Init /\ Work!Init /\ Rights!Init /\ Forms!Init /\ Files!Init

OfficeNext ==
  /\ UNCHANGED part
  /\ \/ part = "totals" /\ Next /\ UNCHANGED <<receipts, projectWork, access, onboarding, taskFiles>>
     \/ part = "receipts" /\ Receipts!Next /\ UNCHANGED <<vars, projectWork, access, onboarding, taskFiles>>
     \/ part = "work" /\ Work!Next /\ UNCHANGED <<vars, receipts, access, onboarding, taskFiles>>
     \/ part = "rights" /\ Rights!Next /\ UNCHANGED <<vars, receipts, projectWork, onboarding, taskFiles>>
     \/ part = "forms" /\ Forms!Next /\ UNCHANGED <<vars, receipts, projectWork, access, taskFiles>>
     \/ part = "files" /\ Files!Next /\ UNCHANGED <<vars, receipts, projectWork, access, onboarding>>
OfficeSpec == OfficeInit /\ [][OfficeNext]_officeVars
----------------------------------------------------------------------------
(* Besides the properties of InvoiceTotals: which number a receipt has, what  *)
(* a request to the project leaves behind, what rights become through         *)
(* delegation, which names the form takes, and which files are kept.          *)
PrintedNumbersStay == Receipts!PrintedNumbersStay
UndisturbedRequestTakesEffect == Work!UndisturbedRequestTakesEffect
DelegationNeverEscalates == Rights!DelegationNeverEscalates
FormNamesStayUnique == Forms!FormNamesStayUnique
RevisionsAreKept == Files!RevisionsAreKept
=============================================================================
