---------------------------- MODULE ClientScope ----------------------------
(* Users, their roles, and the client that a portal user belongs to           *)
(* (client-scope.util.ts). Client and email are the same value here; two      *)
(* users may share one.                                                       *)
CONSTANTS Role,      \* of each user
          ClientOf,  \* users.client_id
          EmailOf,
          Clients, NoOne

VARIABLE deleted  \* clients with deleted_at

Users == DOMAIN Role
IsClient(u) == Role[u] = "CLIENT"

\* resolveClientForUser: the link, or the only active client with the email.
Resolved(u) ==
  IF ClientOf[u] # NoOne THEN IF ClientOf[u] \in deleted THEN NoOne ELSE ClientOf[u]
  ELSE LET matches == {c \in Clients \ deleted : c = EmailOf[u]}
       IN  IF \E c \in matches : matches = {c} THEN CHOOSE c \in matches : TRUE ELSE NoOne
\* The scope of the services that use it, and of those that go by the link.
OwnClient(u, client) == Resolved(u) # NoOne /\ client = Resolved(u)
LinkedClient(u, client) == ClientOf[u] # NoOne /\ client = ClientOf[u]
=============================================================================
