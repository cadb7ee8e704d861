--------------------------- MODULE ClientServices ---------------------------
(* What is done for clients and what staff and clients may see of it. The     *)
(* components share no variable, so each behaviour moves one of them (part)   *)
(* while the others rest in one of their initial states, and what is true of  *)
(* the services is true of each of them by itself.                            *)
EXTENDS Integers

CONSTANTS Requests,          \* of work, reports and portal accounts: running at a time
          Managers, Executives, Days, Tasks, NoTask, MaxLogs,                    \* SeoWork
          Slots, FileOf, NoFile, MaxReports, MaxEdits,                           \* SeoReports
          CredentialUsers, Admins, Revealers, Keys, FirstKey, Reveals,           \* CredentialVault
          MaxRecords, MaxRows,
          Accounts,                                                              \* PortalAccounts
          Companies, Emails, NoEmail, Generated, Leads, Proposals, Unlinked,     \* Onboarding
          Conversions, MaxClients, MaxProjects,
          Clients, NoOne, SeoRole, SeoClientOf, SeoEmailOf, SeoStaff, Statuses,  \* SeoScopes
          Role, ClientOf, EmailOf, Leader, Creator                               \* ProjectScopes

ASSUME FilesAssumption == NoFile \notin [report : Nat, content : Nat]
ASSUME VaultAssumption ==
  /\ FirstKey \in Keys /\ {"legacy", "none"} \cap Keys = {} /\ "nobody" \notin CredentialUsers
  /\ MaxRecords \in Nat \ {0}
ASSUME SalesAssumption == Unlinked \notin Nat

VARIABLES part,
          logs, tasks, cleared, workPc, workCtx,
          reports, media, approved, reportPc, reportCtx,
          records, listed, active, trail, given, setBy, vaultPc, vaultCtx,
          client, portal, portalTrail, portalPc, portalCtx,
          clients, leads, proposals, projects, queue, clientPc, clientCtx,
          site, log, task, report, deleted,
          project, gone, content, assigned

seoWork == <<logs, tasks, cleared, workPc, workCtx>>
seoReports == <<reports, media, approved, reportPc, reportCtx>>
vault == <<records, listed, active, trail, given, setBy, vaultPc, vaultCtx>>
portalAccounts == <<client, portal, portalTrail, portalPc, portalCtx>>
onboarding == <<clients, leads, proposals, projects, queue, clientPc, clientCtx>>
seoScopes == <<site, log, task, report>>
projectScopes == <<project, gone, content, assigned>>
vars == <<part, seoWork, seoReports, vault, portalAccounts, onboarding, seoScopes, projectScopes, deleted>>

Work == INSTANCE SeoWork WITH pc <- workPc, ctx <- workCtx
Reports == INSTANCE SeoReports WITH pc <- reportPc, ctx <- reportCtx
Vault == INSTANCE CredentialVault WITH Users <- CredentialUsers, Requests <- Reveals, pc <- vaultPc, ctx <- vaultCtx
Portal == INSTANCE PortalAccounts WITH
  accounts <- portal, trail <- portalTrail, pc <- portalPc, ctx <- portalCtx
Sales == INSTANCE Onboarding WITH
  None <- Unlinked, Requests <- Conversions, pc <- clientPc, ctx <- clientCtx
Seo == INSTANCE SeoScopes WITH Staff <- SeoStaff, Role <- SeoRole, ClientOf <- SeoClientOf, EmailOf <- SeoEmailOf
Projects == INSTANCE ProjectScopes
----------------------------------------------------------------------------
AtRest(p) == part # p
AnyOf(S) == CHOOSE x \in S : TRUE
Init ==
  /\ part \in {"work", "reports", "vault", "portal", "conversions", "seoScopes", "projectScopes"}
  /\ Work!Init /\ Reports!Init /\ Portal!Init /\ Sales!Init
  /\ Vault!Init /\ (AtRest("vault") => records = << >>)
  /\ Projects!Init /\ (AtRest("projectScopes") => project.client = AnyOf(Clients) /\ ~content)
  /\ Seo!Init
  /\ AtRest("seoScopes") =>
       /\ site = [client |-> AnyOf(Clients), exec |-> NoOne]
       /\ log = [exec |-> AnyOf(SeoStaff), status |-> AnyOf(Statuses)]
       /\ task = [exec |-> AnyOf(SeoStaff)]
       /\ report = [client |-> AnyOf(Clients), status |-> AnyOf(Statuses)]

Next ==
  /\ UNCHANGED part
  /\ \/ part = "work" /\ Work!Next
        /\ UNCHANGED <<seoReports, vault, portalAccounts, onboarding, seoScopes, projectScopes, deleted>>
     \/ part = "reports" /\ Reports!Next
        /\ UNCHANGED <<seoWork, vault, portalAccounts, onboarding, seoScopes, projectScopes, deleted>>
     \/ part = "vault" /\ Vault!Next
        /\ UNCHANGED <<seoWork, seoReports, portalAccounts, onboarding, seoScopes, projectScopes, deleted>>
     \/ part = "portal" /\ Portal!Next
        /\ UNCHANGED <<seoWork, seoReports, vault, onboarding, seoScopes, projectScopes, deleted>>
     \/ part = "conversions" /\ Sales!Next
        /\ UNCHANGED <<seoWork, seoReports, vault, portalAccounts, seoScopes, projectScopes, deleted>>
     \/ part = "seoScopes" /\ Seo!Next
        /\ UNCHANGED <<seoWork, seoReports, vault, portalAccounts, onboarding, projectScopes>>
     \/ part = "projectScopes" /\ Projects!Next
        /\ UNCHANGED <<seoWork, seoReports, vault, portalAccounts, onboarding, seoScopes>>
Spec == Init /\ [][Next]_vars
----------------------------------------------------------------------------
(* Each part has its property, stated in its module: who decides about a      *)
(* daily log, what is published, the two audit trails, the readability of     *)
(* what is stored encrypted, which clients conversions make, and that lists   *)
(* agree with single records.                                                 *)
NoSelfApproval == Work!NoSelfApproval
OnlyApprovedWorkIsPublished == Reports!OnlyApprovedWorkIsPublished
AuditTrailsAreComplete ==
  /\ Vault!SecretsLeaveATrail
  /\ Vault!TrailNamesTheWriter
  /\ Portal!PortalTrailComplete
StoredSecretsAreReadable == Vault!StoredSecretsAreReadable
ConversionsFindTheirClient == Sales!ConversionsFindTheirClient
ListsMatchAccess ==
  /\ part = "seoScopes" => Seo!ListsMatchAccess
  /\ part = "projectScopes" => Projects!ScopesAgree
=============================================================================
