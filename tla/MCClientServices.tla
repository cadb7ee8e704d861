-------------------------- MODULE MCClientServices --------------------------
(* ClientServices on one small instance.                                      *)
EXTENDS ClientServices, TLC

\* SeoWork: a manager and an executive, one website and day, one task.
\* SeoReports: two websites of one company, whose PDFs of a month share a name.
MCFileOf == [s \in Slots |-> "f"]

\* CredentialVault: an administrator and someone who may reveal what is in
\* scope. PortalAccounts: one account, two requests about it. Onboarding: one
\* request, a lead and a proposal of it.

\* Scopes: staff of every kind, two clients with a linked user each, and a
\* client user that is known by an email only.
MCLinks(users) == [u \in users |-> CASE u = "c" -> "C" [] u = "d" -> "D" [] OTHER -> NoOne]
MCEmails(users) == [u \in users |-> IF u = "n" THEN "D" ELSE NoOne]
MCSeoRole == [m |-> "SEO_MANAGER", e |-> "SEO_EXECUTIVE", f |-> "SEO_EXECUTIVE", t |-> "TEAM_MEMBER",
              c |-> "CLIENT", d |-> "CLIENT", n |-> "CLIENT"]
MCSeoClientOf == MCLinks(DOMAIN MCSeoRole)
MCSeoEmailOf == MCEmails(DOMAIN MCSeoRole)
MCRole == [s |-> "SUPER_ADMIN", p |-> "PROJECT_MANAGER", t |-> "TEAM_MEMBER", x |-> "SALES_MANAGER",
           c |-> "CLIENT", d |-> "CLIENT", n |-> "CLIENT"]
MCClientOf == MCLinks(DOMAIN MCRole)
MCEmailOf == MCEmails(DOMAIN MCRole)

Interchangeable == Permutations(Requests)
=============================================================================
