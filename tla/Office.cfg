SPECIFICATION OfficeSpec
CONSTANTS
  Totals <- MCTotals
  Advances <- MCAdvances
  Payments <- MCPayments
  DueDates <- MCDueDates
  Today = 2
  MaxInvoices = 4
  Requests = {a1, a2}
  None = None
  Processes = {s1, s2}
  PaymentRows = {o1, o2}
  Invoices = {"i"}
  Bases = {b1, b2}
  Deleted = Deleted
  MaxAttempts = 2
  Milestones = {o1, o2}
  Tasks = {"t"}
  People = {"p"}
  NoMilestone = "none"
  TaskStatuses = {"in_progress"}
  Typed = {100}
  Accounts = {a1, a2, s}
  SuperAdmins = {s}
  Roles = {o1, o2}
  Privileged = {}
  NoRole = "none"
  Permissions = {"manage", "view", "reveal"}
  ManageRoles = "manage"
  ManageUsers = "manage"
  Credential = {"reveal"}
  Grants = {{"manage"}, {"manage", "view"}, {"reveal"}}
  Companies = {o1, o2}
  Emails = {"e", "none"}
  NoEmail = "none"
  Generated = "generated"
  Leads = {}
  Proposals = {}
  MaxClients = 2
  MaxProjects = 1
  Names = {o1, o2}
  MaxUploads = 3
  NoContent = 0
INVARIANTS
  TotalsReconcile
  DashboardMatchesTable
  OverdueIsOutstanding
  DelegationNeverEscalates
  
  RevisionsAreKept
PROPERTIES
  PrintedNumbersStay
  UndisturbedRequestTakesEffect
SYMMETRY Interchangeable
CHECK_DEADLOCK FALSE
