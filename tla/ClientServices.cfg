SPECIFICATION Spec
CONSTANTS
  Requests = {r1, r2}
  Managers = {"m"}
  Executives = {"e"}
  Days = {"d"}
  Tasks = {"t"}
  NoTask = NoTask
  MaxLogs = 2
  Slots = {"s1", "s2"}
  FileOf <- MCFileOf
  NoFile = NoFile
  MaxReports = 2
  MaxEdits = 1
  CredentialUsers = {"a", "u"}
  Admins = {"a"}
  Revealers = {"a", "u"}
  Keys = {"k1", "k2"}
  FirstKey = "k1"
  Reveals = {"r"}
  MaxRecords = 1
  MaxRows = 2
  Accounts = {"x"}
  Companies = {"k"}
  Emails = {"e", "none"}
  NoEmail = "none"
  Generated = "generated"
  Leads = {"l"}
  Proposals = {"p"}
  Unlinked = Unlinked
  Conversions = {"r"}
  MaxClients = 2
  MaxProjects = 1
  Clients = {"C", "D"}
  NoOne = "none"
  SeoRole <- MCSeoRole
  SeoClientOf <- MCSeoClientOf
  SeoEmailOf <- MCSeoEmailOf
  SeoStaff = {"m", "e", "f"}
  Statuses = {"draft", "submitted", "approved", "published"}
  Role <- MCRole
  ClientOf <- MCClientOf
  EmailOf <- MCEmailOf
  Leader = "p"
  Creator = "s"
INVARIANTS
  NoSelfApproval
  OnlyApprovedWorkIsPublished
  
  
  ConversionsFindTheirClient
  
SYMMETRY Interchangeable
CHECK_DEADLOCK FALSE
