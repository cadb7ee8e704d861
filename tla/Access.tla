------------------------------- MODULE Access -------------------------------
(* Accounts, roles and the permissions that roles grant (roles.service.ts,    *)
(* users.service.ts, role-access.util.ts, permission-catalog.ts, the guards). *)
(* Super admins may do anything; whoever manages roles or users may pass on   *)
(* only what they hold. A request is one step: what is open between the reads *)
(* and the write of a request is not modelled.                                *)
EXTENDS FiniteSets

CONSTANTS Accounts,
          SuperAdmins,   \* accounts with is_superuser or the SUPER_ADMIN role
          Roles,         \* every other role
          Privileged,    \* those of them that are named ADMIN
          NoRole,
          Permissions, ManageRoles, ManageUsers,
          Credential,    \* MANAGE_CREDENTIALS, REVEAL_CREDENTIALS, VIEW_CREDENTIAL_AUDIT
          Grants         \* bound: the sets of permissions that roles are given

VARIABLES roles,     \* roles: "absent", "active" or "deleted", permissions
          accounts,  \* users: likewise, is_active, role
          given,     \* history: what an account got from super admins
          passable   \* history: what managers got from super admins

vars == <<roles, accounts, given, passable>>

Exists(u) == accounts[u].is = "active"
RoleOf(u) == accounts[u].role
ActiveRole(x) == x # NoRole /\ roles[x].is = "active"
Granted(x) == IF ActiveRole(x) THEN roles[x].permissions ELSE {}
\* The permissions of a deleted role still protect the accounts that have it.
Stored(x) == IF x = NoRole THEN {} ELSE roles[x].permissions

\* getActiveRolePermissions of an account that signs in (JwtStrategy, login,
\* refreshToken, applyRoleStatus).
SignsIn(u) == Exists(u) /\ accounts[u].enabled /\ (u \in SuperAdmins \/ RoleOf(u) = NoRole \/ ActiveRole(RoleOf(u)))
Holds(u) == IF Exists(u) /\ u \notin SuperAdmins THEN Granted(RoleOf(u)) ELSE {}
Super(u) == u \in SuperAdmins
\* PermissionsGuard.
Passes(u, p) == SignsIn(u) /\ (Super(u) \/ p \in Holds(u))
Manages(u) == Holds(u) \cap {ManageRoles, ManageUsers} # {}

\* Whatever changes: what accounts gain by a super admin is given to them, and
\* all that managers were given may be passed on.
Gained(by, u) == IF Super(by) THEN Holds(u)' \ Holds(u) ELSE {}
Account(by) ==
  /\ given' = [u \in Accounts |-> given[u] \cup Gained(by, u)]
  /\ passable' = passable \cup UNION {given'[u] : u \in {v \in Accounts : Manages(v)'}}

Init ==
  /\ roles = [x \in Roles |-> [is |-> IF x \in Privileged THEN "active" ELSE "absent", permissions |-> {}]]
  /\ accounts = [u \in Accounts |-> [is |-> IF u \in SuperAdmins THEN "active" ELSE "absent",
                                     enabled |-> TRUE, role |-> NoRole]]
  /\ given = [u \in Accounts |-> {}]
  /\ passable = {}
----------------------------------------------------------------------------
(* Roles. A name that was used once is never used again, built-in names are   *)
(* for super admins. assertCanGrant looks at what is added, and for           *)
(* credential permissions at what is removed too.                             *)
MayGrantAnyCredential(by, permissions, previous) ==
  Super(by) \/ permissions \ previous \subseteq Holds(by) \cup Credential
MayGrant(by, permissions, previous) ==
  \/ Super(by)
  \/ /\ permissions \cap Credential = previous \cap Credential
     /\ permissions \ previous \subseteq Holds(by)
NotOwnRole(by, x) == Super(by) \/ RoleOf(by) # x

CreateRole(by, x, permissions) ==
  /\ Passes(by, ManageRoles) /\ roles[x].is = "absent"
  /\ MayGrant(by, permissions, {})
  /\ roles' = [roles EXCEPT ![x] = [is |-> "active", permissions |-> permissions]]
  /\ UNCHANGED accounts
  /\ Account(by)

UpdateRole(by, x, permissions) ==
  /\ Passes(by, ManageRoles) /\ roles[x].is = "active"
  /\ NotOwnRole(by, x)
  /\ MayGrant(by, permissions, roles[x].permissions)
  /\ roles' = [roles EXCEPT ![x].permissions = permissions]
  /\ UNCHANGED accounts
  /\ Account(by)

RemoveRole(by, x) ==
  /\ Passes(by, ManageRoles) /\ roles[x].is = "active"
  /\ x \in Privileged => Super(by)
  /\ NotOwnRole(by, x)
  /\ \A u \in Accounts : Exists(u) => RoleOf(u) # x
  /\ roles' = [roles EXCEPT ![x].is = "deleted"]
  /\ UNCHANGED accounts
  /\ Account(by)
----------------------------------------------------------------------------
(* Accounts (assertCanAssignRole, accountProtection).                         *)
MayAssignUnheld(by, x) == Super(by) \/ x = NoRole \/ (x \notin Privileged /\ Granted(x) \cap Credential = {})
MayAssign(by, x) ==
  \/ Super(by) \/ x = NoRole
  \/ x \notin Privileged /\ Granted(x) \cap Credential = {} /\ Granted(x) \subseteq Holds(by)
Unprotected(by, u) ==
  \/ Super(by)
  \/ /\ ~Super(u) /\ RoleOf(u) \notin Privileged
     /\ Stored(RoleOf(u)) \cap Credential = {} /\ Stored(RoleOf(u)) \subseteq Holds(by)

CreateAccount(by, u, x) ==
  /\ Passes(by, ManageUsers) /\ accounts[u].is = "absent"
  /\ x # NoRole => ActiveRole(x)
  /\ MayAssign(by, x)
  /\ accounts' = [accounts EXCEPT ![u] = [is |-> "active", enabled |-> TRUE, role |-> x]]
  /\ UNCHANGED roles
  /\ Account(by)

\* The role is changed by someone else, and only of an unprotected account.
UpdateRoleOf(by, u, x) ==
  /\ Passes(by, ManageUsers) /\ Exists(u) /\ ~Super(u) /\ by # u
  /\ x # NoRole => ActiveRole(x) /\ MayAssign(by, x)
  /\ Unprotected(by, u)
  /\ accounts' = [accounts EXCEPT ![u].role = x]
  /\ UNCHANGED roles
  /\ Account(by)

\* is_active stands for every field that the protection covers.
UpdateAccess(by, u, enabled) ==
  /\ Passes(by, ManageUsers) /\ Exists(u)
  /\ Super(u) => Super(by)
  /\ by # u => Unprotected(by, u)
  /\ accounts' = [accounts EXCEPT ![u].enabled = enabled]
  /\ UNCHANGED roles
  /\ Account(by)

RemoveAccount(by, u) ==
  /\ Passes(by, ManageUsers) /\ Exists(u) /\ by # u
  /\ Unprotected(by, u)
  /\ accounts' = [accounts EXCEPT ![u].is = "deleted"]
  /\ UNCHANGED roles
  /\ Account(by)

Next == \E by \in Accounts :
  \/ \E x \in Roles : \/ RemoveRole(by, x)
                      \/ \E permissions \in Grants : CreateRole(by, x, permissions) \/ UpdateRole(by, x, permissions)
  \/ \E u \in Accounts : \/ RemoveAccount(by, u)
                         \/ \E x \in Roles \cup {NoRole} : CreateAccount(by, u, x) \/ UpdateRoleOf(by, u, x)
                         \/ \E enabled \in BOOLEAN : UpdateAccess(by, u, enabled)
Spec == Init /\ [][Next]_vars
----------------------------------------------------------------------------
Statuses == {"absent", "active", "deleted"}
TypeOK ==
  /\ roles \in [Roles -> [is : Statuses, permissions : SUBSET Permissions]]
  /\ accounts \in [Accounts -> [is : Statuses, enabled : BOOLEAN, role : Roles \cup {NoRole}]]
  /\ given \in [Accounts -> SUBSET Permissions]
  /\ passable \subseteq Permissions

(* The delegation rule (assertCanGrant, assertCanAssignRole): through any     *)
(* sequence of changes to roles and accounts by any number of managers, what  *)
(* an account holds was given to it by a super admin, or to some manager who  *)
(* could pass it on; a credential permission is never passed on.              *)
DelegationNeverEscalates ==
  \A u \in Accounts : /\ Holds(u) \subseteq given[u] \cup passable
                      /\ Holds(u) \cap Credential \subseteq given[u]
=============================================================================
