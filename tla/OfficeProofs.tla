---------------------------- MODULE OfficeProofs ----------------------------
(* What Office promises, for every value of its constants. A behaviour of the *)
(* office is one of each part; each part has an inductive invariant.          *)
EXTENDS Office, Sequences, FiniteSetTheorems, TLAPS
----------------------------------------------------------------------------
(* The dashboard's totals are right for any number of invoices and any        *)
(* amounts.                                                                   *)

(* What computeInvoiceFinancials returns for one invoice: the parts add up    *)
(* when the total is not negative.                                            *)
LEMMA FinancialsAddUp ==
  ASSUME NEW total \in Int, NEW paidNow \in Nat, NEW due, NEW today
  PROVE  /\ Financials(total, paidNow, due, today).total_paise = total
         /\ Financials(total, paidNow, due, today).paid_paise = paidNow
         /\ Financials(total, paidNow, due, today).balance_paise = Balance(total, paidNow)
         /\ Financials(total, paidNow, due, today).overpaid_paise = Overpaid(total, paidNow)
         /\ Balance(total, paidNow) \in Nat
         /\ Overpaid(total, paidNow) \in Nat
         /\ total >= 0 => paidNow - Overpaid(total, paidNow) + Balance(total, paidNow) = total
<1>1. /\ Balance(total, paidNow) \in Nat /\ Overpaid(total, paidNow) \in Nat
      /\ total >= 0 => paidNow - Overpaid(total, paidNow) + Balance(total, paidNow) = total
  BY DEF Balance, Overpaid, Billable, MaxZero
<1> QED BY <1>1 DEF Financials

(* An overdue invoice has something left to pay; a paid one has not.          *)
LEMMA OverdueOrPaid ==
  ASSUME NEW total \in Int, NEW paidNow \in Nat, NEW due, NEW today
  PROVE  /\ Financials(total, paidNow, due, today).is_overdue => Balance(total, paidNow) > 0
         /\ Financials(total, paidNow, due, today).status = "paid"
              => ~Financials(total, paidNow, due, today).is_overdue
<1> DEFINE f == Financials(total, paidNow, due, today)
<1>1. /\ f.is_overdue = IsOverdue(total, paidNow, due, today)
      /\ f.payment_status = PaymentStatus(total, paidNow)
  BY DEF Financials
<1>2. f.is_overdue => Balance(total, paidNow) > 0
  BY <1>1 DEF IsOverdue
<1>3. f.payment_status \in {"paid", "partial", "unpaid"}
  BY <1>1 DEF PaymentStatus
<1>4. f.status = "paid" => f.payment_status = "paid"
  BY <1>3 DEF Financials
<1>5. f.payment_status = "paid" => Balance(total, paidNow) = 0
  <2>1. PaymentStatus(total, paidNow) = "paid" => total > 0 /\ paidNow >= total
    BY DEF PaymentStatus
  <2>2. total > 0 /\ paidNow >= total => Balance(total, paidNow) = 0
    BY DEF Balance, Billable, MaxZero
  <2> QED BY <1>1, <2>1, <2>2
<1> QED BY <1>2, <1>4, <1>5

(* Formatting money as rupees and reading it back loses nothing.              *)
LEMMA RoundTrip == ASSUME NEW p \in Int PROVE ToPaise(FromPaise(p)) = p
  BY DEF ToPaise, FromPaise

LEMMA RoundingTypes ==
  /\ \A raw \in Int : ToPaise(raw) \in Int
  /\ \A raw \in Nat : ToPaise(raw) \in Nat
  BY DEF ToPaise

\* TypeOK is not inductive on its own: the other parts bound the sums.
IInv == TypeOK /\ TotalsReconcile /\ DashboardMatchesTable /\ OverdueIsOutstanding

LEMMA InitIInv == Init => IInv
<1> SUFFICES ASSUME Init PROVE IInv
  OBVIOUS
<1>1. TypeOK
  <2>1. anyNegative \in BOOLEAN
    BY DEF Init
  <2> QED BY <2>1 DEF Init, TypeOK
<1>2. TotalsReconcile /\ DashboardMatchesTable /\ OverdueIsOutstanding
  BY DEF Init, TotalsReconcile, DashboardMatchesTable, OverdueIsOutstanding
<1> QED BY <1>1, <1>2 DEF IInv

LEMMA NextIInv == IInv /\ [Next]_vars => IInv'
<1> USE MoneyAssumption
<1>1. ASSUME IInv, NEW total \in Totals, NEW advance \in Advances,
             NEW payment \in Payments, NEW due \in DueDates,
             AddInvoice(total, advance, payment, due)
      PROVE  IInv'
  <2> DEFINE t == ToPaise(total)
             p == PaidPaise(advance, payment)
             shown == Shown(total, advance, payment, due)
             again == Recomputed(shown, due)
             one == IF shown.status = "paid" THEN 1 ELSE 0
  <2>1. t \in Int /\ p \in Nat /\ due \in Nat /\ Today \in Nat
    BY RoundingTypes DEF PaidPaise
  <2>2. shown = Financials(t, p, due, Today)
    BY DEF Shown
  <2> HIDE DEF t, p, shown
  <2>3. /\ shown.total_paise = t /\ shown.paid_paise = p
        /\ shown.balance_paise \in Nat /\ shown.overpaid_paise \in Nat
        /\ t >= 0 => p - shown.overpaid_paise + shown.balance_paise = t
    BY <2>1, <2>2, FinancialsAddUp
  <2>4. again = shown
    BY <2>1, <2>2, <2>3, RoundTrip DEF Recomputed
  <2>5. /\ shown.is_overdue => shown.balance_paise > 0
        /\ shown.status = "paid" => ~shown.is_overdue
    BY <2>1, <2>2, FinancialsAddUp, OverdueOrPaid
  <2> USE DEF t, p, shown
  <2>6. /\ count' = count + 1
        /\ billed' = billed + t /\ paid' = paid + p
        /\ balance' = balance + shown.balance_paise
        /\ overpaid' = overpaid + shown.overpaid_paise
        /\ shownBalance' = shownBalance + shown.balance_paise
        /\ shownPaid' = shownPaid + one
        /\ anyNegative' = (anyNegative \/ t < 0)
    BY <1>1, <2>3, <2>4 DEF AddInvoice, Add
  <2>7. /\ shown.is_overdue  => /\ overdueCount' = overdueCount + 1
                                /\ overdueBalance' = overdueBalance + shown.balance_paise
        /\ ~shown.is_overdue => overdueCount' = overdueCount /\ overdueBalance' = overdueBalance
    BY <1>1, <2>4 DEF AddInvoice, Add, overdues
  <2>12. one \in {0, 1} /\ (shown.is_overdue => one = 0)
    BY <2>5
  <2> HIDE DEF t, p, shown, again, one
  <2>8. TypeOK'
    <3>1. anyNegative' \in BOOLEAN
      BY <2>6
    <3> QED BY <1>1, <2>1, <2>3, <2>5, <2>6, <2>7, <2>12, <3>1 DEF IInv, TypeOK
  <2>9. TotalsReconcile'
    <3>1. ~anyNegative' => ~anyNegative /\ t >= 0
      <4>1. anyNegative' = (anyNegative \/ t < 0)
        BY <2>6
      <4>2. ~anyNegative' => ~anyNegative /\ ~(t < 0)
        BY <4>1, Zenon
      <4>3. ~(t < 0) => t >= 0
        BY <2>1
      <4> QED BY <4>2, <4>3
    <3> SUFFICES ASSUME ~anyNegative'
                 PROVE  paid' - overpaid' + balance' = billed'
      BY DEF TotalsReconcile
    <3>2. paid - overpaid + balance = billed
      BY <1>1, <3>1 DEF IInv, TotalsReconcile
    <3>3. paid \in Nat /\ overpaid \in Nat /\ balance \in Nat /\ billed \in Int
      BY <1>1 DEF IInv, TypeOK
    <3> QED BY <2>1, <2>3, <2>6, <3>1, <3>2, <3>3
  <2>10. DashboardMatchesTable'
    BY <1>1, <2>6 DEF IInv, DashboardMatchesTable
  <2>11. OverdueIsOutstanding'
    <3>1. CASE shown.is_overdue
      BY <1>1, <2>3, <2>5, <2>6, <2>7, <2>12, <3>1 DEF IInv, TypeOK, OverdueIsOutstanding
    <3>2. CASE ~shown.is_overdue
      BY <1>1, <2>3, <2>6, <2>7, <2>12, <3>2 DEF IInv, TypeOK, OverdueIsOutstanding
    <3> QED BY <3>1, <3>2
  <2> QED BY <2>8, <2>9, <2>10, <2>11 DEF IInv
<1>2. ASSUME IInv, UNCHANGED vars PROVE IInv'
  BY <1>2 DEF IInv, TypeOK, TotalsReconcile, DashboardMatchesTable, OverdueIsOutstanding,
              vars, sums, overdues
<1> QED BY <1>1, <1>2 DEF Next

LEMMA OfficeRunsTotals == OfficeSpec => Spec
<1>1. OfficeInit => Init
  BY DEF OfficeInit
<1>2. [OfficeNext]_officeVars => [Next]_vars
  BY DEF OfficeNext, officeVars
<1>. QED BY <1>1, <1>2, PTL DEF OfficeSpec, Spec

LEMMA AlwaysIInv == OfficeSpec => []IInv
  BY OfficeRunsTotals, InitIInv, NextIInv, PTL DEF Spec

(* The totals keep their types: in particular no sum of balances or           *)
(* overpayments ever goes negative.                                           *)
THEOREM TotalsTyped == OfficeSpec => []TypeOK
  BY AlwaysIInv, PTL DEF IInv

(* aggregateInvoiceFinancials: paid - overpaid + balance = billed.            *)
THEOREM Reconciles == OfficeSpec => []TotalsReconcile
  BY AlwaysIInv, PTL DEF IInv

(* getAnalytics: recomputing from formatted rupees changes no balance.        *)
THEOREM DashboardIsTheTable == OfficeSpec => []DashboardMatchesTable
  BY AlwaysIInv, PTL DEF IInv

(* Overdue money is outstanding money, and no paid invoice is overdue.        *)
THEOREM OverdueIsPart == OfficeSpec => []OverdueIsOutstanding
  BY AlwaysIInv, PTL DEF IInv
----------------------------------------------------------------------------
(* No delegation escalates, for any number of accounts, roles, permissions    *)
(* and super admins, and whatever sets of permissions are granted.            *)
LEMMA OfficeRunsRights == OfficeSpec => Rights!Spec
<1>1. OfficeInit => Rights!Init
  BY DEF OfficeInit
<1>2. [OfficeNext]_officeVars => [Rights!Next]_(Rights!vars)
  BY DEF OfficeNext, officeVars, Rights!vars, access
<1>. QED BY <1>1, <1>2, PTL DEF OfficeSpec, Rights!Spec

(* Every change to roles and accounts keeps their types; only the last of the *)
(* conjuncts looks at what the change does to anyone's permissions.           *)
LEMMA RightsChangesTyped ==
  ASSUME Rights!TypeOK, Rights!Next
  PROVE  /\ roles' \in [Roles -> [is : Rights!Statuses, permissions : SUBSET Permissions]]
         /\ accounts' \in [Accounts -> [is : Rights!Statuses, enabled : BOOLEAN, role : Roles \cup {NoRole}]]
         /\ \E by \in Accounts : Rights!Account(by)
<1> USE RightsAssumption DEF Rights!TypeOK, Rights!Statuses
<1>1. PICK by \in Accounts :
        \/ \E x \in Roles : \/ Rights!RemoveRole(by, x)
                            \/ \E permissions \in Grants : Rights!CreateRole(by, x, permissions) \/ Rights!UpdateRole(by, x, permissions)
        \/ \E u \in Accounts : \/ Rights!RemoveAccount(by, u)
                               \/ \E x \in Roles \cup {NoRole} : Rights!CreateAccount(by, u, x) \/ Rights!UpdateRoleOf(by, u, x)
                               \/ \E enabled \in BOOLEAN : Rights!UpdateAccess(by, u, enabled)
  BY DEF Rights!Next
<1>2. ASSUME NEW x \in Roles, Rights!RemoveRole(by, x)
      PROVE  /\ roles' \in [Roles -> [is : Rights!Statuses, permissions : SUBSET Permissions]]
             /\ UNCHANGED accounts /\ Rights!Account(by)
  BY <1>2 DEF Rights!RemoveRole
<1>3. ASSUME NEW x \in Roles, NEW permissions \in Grants,
             Rights!CreateRole(by, x, permissions) \/ Rights!UpdateRole(by, x, permissions)
      PROVE  /\ roles' \in [Roles -> [is : Rights!Statuses, permissions : SUBSET Permissions]]
             /\ UNCHANGED accounts /\ Rights!Account(by)
  <2>1. permissions \in SUBSET Permissions
    OBVIOUS
  <2>2. CASE Rights!CreateRole(by, x, permissions)
    BY <2>1, <2>2 DEF Rights!CreateRole
  <2>3. CASE Rights!UpdateRole(by, x, permissions)
    BY <2>1, <2>3 DEF Rights!UpdateRole
  <2> QED BY <1>3, <2>2, <2>3
<1>4. ASSUME NEW u \in Accounts, Rights!RemoveAccount(by, u)
      PROVE  /\ accounts' \in [Accounts -> [is : Rights!Statuses, enabled : BOOLEAN, role : Roles \cup {NoRole}]]
             /\ UNCHANGED roles /\ Rights!Account(by)
  BY <1>4 DEF Rights!RemoveAccount
<1>5. ASSUME NEW u \in Accounts, NEW x \in Roles \cup {NoRole}, Rights!CreateAccount(by, u, x) \/ Rights!UpdateRoleOf(by, u, x)
      PROVE  /\ accounts' \in [Accounts -> [is : Rights!Statuses, enabled : BOOLEAN, role : Roles \cup {NoRole}]]
             /\ UNCHANGED roles /\ Rights!Account(by)
  <2>1. CASE Rights!CreateAccount(by, u, x)
    BY <2>1 DEF Rights!CreateAccount
  <2>2. CASE Rights!UpdateRoleOf(by, u, x)
    BY <2>2 DEF Rights!UpdateRoleOf
  <2> QED BY <1>5, <2>1, <2>2
<1>6. ASSUME NEW u \in Accounts, NEW enabled \in BOOLEAN, Rights!UpdateAccess(by, u, enabled)
      PROVE  /\ accounts' \in [Accounts -> [is : Rights!Statuses, enabled : BOOLEAN, role : Roles \cup {NoRole}]]
             /\ UNCHANGED roles /\ Rights!Account(by)
  BY <1>6 DEF Rights!UpdateAccess
<1> QED BY <1>1, <1>2, <1>3, <1>4, <1>5, <1>6

(* Roles, accounts and the two histories keep their types. *)
THEOREM RightsTyped == OfficeSpec => []Rights!TypeOK
<1>1. Rights!Init => Rights!TypeOK
  BY DEF Rights!Init, Rights!TypeOK, Rights!Statuses
<1>2. Rights!TypeOK /\ [Rights!Next]_(Rights!vars) => Rights!TypeOK'
  <2> SUFFICES ASSUME Rights!TypeOK, [Rights!Next]_(Rights!vars) PROVE Rights!TypeOK'
    OBVIOUS
  <2>1. CASE Rights!Next
    <3>1. /\ roles' \in [Roles -> [is : Rights!Statuses, permissions : SUBSET Permissions]]
          /\ accounts' \in [Accounts -> [is : Rights!Statuses, enabled : BOOLEAN, role : Roles \cup {NoRole}]]
          /\ \E by \in Accounts : Rights!Account(by)
      BY <2>1, RightsChangesTyped
    <3>2. \A u \in Accounts : Rights!Holds(u)' \subseteq Permissions
      <4>1. \A u \in Accounts : accounts'[u].role \in Roles \cup {NoRole}
        BY <3>1
      <4>2. \A x \in Roles : roles'[x].permissions \subseteq Permissions
        BY <3>1
      <4> QED BY <4>1, <4>2 DEF Rights!Holds, Rights!RoleOf, Rights!Granted, Rights!ActiveRole
    <3>3. PICK by \in Accounts : Rights!Account(by)
      BY <3>1
    <3>4. \A u \in Accounts : Rights!Gained(by, u) \subseteq Permissions
      BY <3>2 DEF Rights!Gained
    <3>5. given' \in [Accounts -> SUBSET Permissions]
      BY <3>3, <3>4 DEF Rights!Account, Rights!TypeOK
    <3>6. passable' \subseteq Permissions
      BY <3>3, <3>5 DEF Rights!Account, Rights!TypeOK
    <3> QED BY <3>1, <3>5, <3>6 DEF Rights!TypeOK
  <2>2. CASE UNCHANGED Rights!vars
    BY <2>2 DEF Rights!vars, Rights!TypeOK
  <2> QED BY <2>1, <2>2
<1> QED BY <1>1, <1>2, OfficeRunsRights, PTL DEF Rights!Spec
----------------------------------------------------------------------------
(* What a change can do to the permissions someone holds. Whoever is not a    *)
(* super admin manages something, passes on only what he holds, and never a   *)
(* credential permission.                                                     *)
LEMMA PassesOnItsOwn ==
  ASSUME Rights!TypeOK, Rights!TypeOK', Rights!Next
  PROVE  \E by \in Accounts :
           /\ Rights!Account(by)
           /\ \/ Rights!Super(by)
              \/ /\ Rights!Manages(by)
                 /\ \A u \in Accounts : /\ Rights!Holds(u)' \subseteq Rights!Holds(u) \cup Rights!Holds(by)
                                        /\ Rights!Holds(u)' \cap Credential \subseteq Rights!Holds(u)
<1> USE RightsAssumption DEF Rights!TypeOK, Rights!Holds, Rights!Granted, Rights!ActiveRole, Rights!Exists, Rights!RoleOf
<1> DEFINE Modest(by) == \A u \in Accounts : /\ Rights!Holds(u)' \subseteq Rights!Holds(u) \cup Rights!Holds(by)
                                             /\ Rights!Holds(u)' \cap Credential \subseteq Rights!Holds(u)
<1>1. ASSUME NEW by \in Accounts, NEW x \in Roles, Rights!RemoveRole(by, x)
      PROVE  Rights!Account(by) /\ (Rights!Super(by) \/ (Rights!Manages(by) /\ Modest(by)))
  <2>1. Rights!Super(by) \/ Rights!Manages(by)
    BY <1>1 DEF Rights!RemoveRole, Rights!Passes, Rights!Manages
  <2>2. Modest(by)
    BY <1>1 DEF Rights!RemoveRole
  <2> QED BY <1>1, <2>1, <2>2 DEF Rights!RemoveRole
<1>2. ASSUME NEW by \in Accounts, NEW x \in Roles, NEW permissions \in Grants, Rights!CreateRole(by, x, permissions)
      PROVE  Rights!Account(by) /\ (Rights!Super(by) \/ (Rights!Manages(by) /\ Modest(by)))
  <2>1. Rights!Super(by) \/ Rights!Manages(by)
    BY <1>2 DEF Rights!CreateRole, Rights!Passes, Rights!Manages
  <2>2. ~Rights!Super(by) => Modest(by)
    BY <1>2 DEF Rights!CreateRole, Rights!MayGrant
  <2> QED BY <1>2, <2>1, <2>2 DEF Rights!CreateRole
<1>3. ASSUME NEW by \in Accounts, NEW x \in Roles, NEW permissions \in Grants, Rights!UpdateRole(by, x, permissions)
      PROVE  Rights!Account(by) /\ (Rights!Super(by) \/ (Rights!Manages(by) /\ Modest(by)))
  <2>1. Rights!Super(by) \/ Rights!Manages(by)
    BY <1>3 DEF Rights!UpdateRole, Rights!Passes, Rights!Manages
  <2>2. ~Rights!Super(by) => Modest(by)
    BY <1>3 DEF Rights!UpdateRole, Rights!MayGrant
  <2> QED BY <1>3, <2>1, <2>2 DEF Rights!UpdateRole
<1>4. ASSUME NEW by \in Accounts, NEW u \in Accounts, Rights!RemoveAccount(by, u)
      PROVE  Rights!Account(by) /\ (Rights!Super(by) \/ (Rights!Manages(by) /\ Modest(by)))
  <2>1. Rights!Super(by) \/ Rights!Manages(by)
    BY <1>4 DEF Rights!RemoveAccount, Rights!Passes, Rights!Manages
  <2>2. Modest(by)
    BY <1>4 DEF Rights!RemoveAccount
  <2> QED BY <1>4, <2>1, <2>2 DEF Rights!RemoveAccount
<1>5. ASSUME NEW by \in Accounts, NEW u \in Accounts, NEW x \in Roles \cup {NoRole}, Rights!CreateAccount(by, u, x)
      PROVE  Rights!Account(by) /\ (Rights!Super(by) \/ (Rights!Manages(by) /\ Modest(by)))
  <2>1. Rights!Super(by) \/ Rights!Manages(by)
    BY <1>5 DEF Rights!CreateAccount, Rights!Passes, Rights!Manages
  <2>2. ~Rights!Super(by) => Modest(by)
    BY <1>5 DEF Rights!CreateAccount, Rights!MayAssign
  <2> QED BY <1>5, <2>1, <2>2 DEF Rights!CreateAccount
<1>6. ASSUME NEW by \in Accounts, NEW u \in Accounts, NEW x \in Roles \cup {NoRole}, Rights!UpdateRoleOf(by, u, x)
      PROVE  Rights!Account(by) /\ (Rights!Super(by) \/ (Rights!Manages(by) /\ Modest(by)))
  <2>1. Rights!Super(by) \/ Rights!Manages(by)
    BY <1>6 DEF Rights!UpdateRoleOf, Rights!Passes, Rights!Manages
  <2>2. ~Rights!Super(by) => Modest(by)
    BY <1>6 DEF Rights!UpdateRoleOf, Rights!MayAssign
  <2> QED BY <1>6, <2>1, <2>2 DEF Rights!UpdateRoleOf
<1>7. ASSUME NEW by \in Accounts, NEW u \in Accounts, NEW enabled \in BOOLEAN, Rights!UpdateAccess(by, u, enabled)
      PROVE  Rights!Account(by) /\ (Rights!Super(by) \/ (Rights!Manages(by) /\ Modest(by)))
  <2>1. Rights!Super(by) \/ Rights!Manages(by)
    BY <1>7 DEF Rights!UpdateAccess, Rights!Passes, Rights!Manages
  <2>2. Modest(by)
    BY <1>7 DEF Rights!UpdateAccess
  <2> QED BY <1>7, <2>1, <2>2 DEF Rights!UpdateAccess
<1> HIDE DEF Modest
<1>8. \E by \in Accounts : Rights!Account(by) /\ (Rights!Super(by) \/ (Rights!Manages(by) /\ Modest(by)))
  BY <1>1, <1>2, <1>3, <1>4, <1>5, <1>6, <1>7 DEF Rights!Next
<1> QED BY <1>8 DEF Modest

(* Whoever manages roles or users was given nothing that may not be passed on *)
(* (passable is what managers were given), which is why what he passes on     *)
(* comes from a super admin in the end.                                       *)
RightsInv == Rights!DelegationNeverEscalates /\ \A u \in Accounts : Rights!Manages(u) => given[u] \subseteq passable

LEMMA RightsSteps ==
  ASSUME Rights!TypeOK, Rights!TypeOK', RightsInv, Rights!Next
  PROVE  RightsInv'
<1> USE DEF RightsInv, Rights!DelegationNeverEscalates
<1>1. PICK by \in Accounts :
        /\ Rights!Account(by)
        /\ \/ Rights!Super(by)
           \/ /\ Rights!Manages(by)
              /\ \A u \in Accounts : /\ Rights!Holds(u)' \subseteq Rights!Holds(u) \cup Rights!Holds(by)
                                     /\ Rights!Holds(u)' \cap Credential \subseteq Rights!Holds(u)
  BY PassesOnItsOwn
<1>2. \A u \in Accounts : given[u] \subseteq given'[u] /\ given'[u] = given[u] \cup Rights!Gained(by, u)
  BY <1>1 DEF Rights!Account
<1>3. passable \subseteq passable' /\ \A u \in Accounts : Rights!Manages(u)' => given'[u] \subseteq passable'
  BY <1>1 DEF Rights!Account
<1>4. CASE Rights!Super(by)
  <2>1. \A u \in Accounts : Rights!Holds(u)' \subseteq Rights!Holds(u) \cup given'[u]
    BY <1>2, <1>4 DEF Rights!Gained
  <2> QED BY <1>2, <1>3, <2>1
<1>5. CASE Rights!Manages(by) /\ \A u \in Accounts : /\ Rights!Holds(u)' \subseteq Rights!Holds(u) \cup Rights!Holds(by)
                                              /\ Rights!Holds(u)' \cap Credential \subseteq Rights!Holds(u)
  <2>1. Rights!Holds(by) \subseteq passable
    BY <1>5
  <2>2. \A u \in Accounts : Rights!Holds(u)' \subseteq given[u] \cup passable
    BY <1>5, <2>1
  <2>3. \A u \in Accounts : Rights!Holds(u)' \cap Credential \subseteq given[u]
    BY <1>5
  <2> QED BY <1>2, <1>3, <2>2, <2>3
<1> QED BY <1>1, <1>4, <1>5

(* The delegation rule of roles.service.ts and users.service.ts holds however *)
(* many managers change roles and accounts, in any order.                     *)
THEOREM DelegationIsSafe == OfficeSpec => []DelegationNeverEscalates
<1>1. Rights!Init => RightsInv
  BY DEF Rights!Init, RightsInv, Rights!DelegationNeverEscalates, Rights!Holds, Rights!Granted, Rights!ActiveRole,
     Rights!Exists, Rights!RoleOf, Rights!Manages
<1>2. Rights!TypeOK /\ Rights!TypeOK' /\ RightsInv /\ [Rights!Next]_(Rights!vars) => RightsInv'
  <2> SUFFICES ASSUME Rights!TypeOK, Rights!TypeOK', RightsInv, [Rights!Next]_(Rights!vars) PROVE RightsInv'
    OBVIOUS
  <2>1. CASE Rights!Next
    BY <2>1, RightsSteps
  <2>2. CASE UNCHANGED Rights!vars
    BY <2>2 DEF Rights!vars, RightsInv, Rights!DelegationNeverEscalates, Rights!Holds, Rights!Granted,
       Rights!ActiveRole, Rights!Exists, Rights!RoleOf, Rights!Manages
  <2> QED BY <2>1, <2>2
<1>3. RightsInv => DelegationNeverEscalates
  BY DEF RightsInv, DelegationNeverEscalates
<1> QED BY <1>1, <1>2, <1>3, RightsTyped, OfficeRunsRights, PTL DEF Rights!Spec
----------------------------------------------------------------------------
(* The form for clients. Its requests are served one after the other, and     *)
(* whoever is served has seen every name that the form has written.           *)
LEMMA OfficeRunsForms == OfficeSpec => Forms!Spec
<1>1. OfficeInit => Forms!Init
  BY DEF OfficeInit
<1>2. [OfficeNext]_officeVars => [Forms!Next]_(Forms!vars)
  BY DEF OfficeNext, officeVars, Forms!vars, onboarding
<1>. QED BY <1>1, <1>2, PTL DEF OfficeSpec, Forms!Spec

AnyEmail == Emails \cup {NoEmail, Generated}
ClientRows == [company : Companies \cup {None}, email : AnyEmail, deleted : BOOLEAN,
               byForm : BOOLEAN, byConversion : BOOLEAN]
FormsTyped ==
  /\ clients \in Seq(ClientRows) /\ queue \in Seq(Requests)
  /\ DOMAIN clientPc = Requests /\ DOMAIN clientCtx = Requests
OfForm(c) == ~clients[c].deleted /\ clients[c].byForm
\* A request of the form is in the queue; when it saves it is the first there
\* and no other client has the name. A conversion has the email it looks for.
FormWaits(r) == clientPc[r] \in {"check", "save"} =>
  /\ clientCtx[r].company \in Companies /\ clientCtx[r].client \in DOMAIN clients \cup {0}
  /\ \E i \in DOMAIN queue : queue[i] = r
FormSaves(r) == clientPc[r] = "save" =>
  /\ queue[1] = r
  /\ \A c \in DOMAIN clients \ {clientCtx[r].client} : OfForm(c) => clients[c].company # clientCtx[r].company
Converts(r) == clientPc[r] \in {"match", "client"} => clientCtx[r].email \in Emails \cup {NoEmail}
FormNames == \A c, d \in DOMAIN clients : OfForm(c) /\ OfForm(d) /\ clients[c].company = clients[d].company => c = d
FormsInv ==
  /\ FormsTyped /\ FormNames
  /\ \A r \in Requests : FormWaits(r) /\ FormSaves(r) /\ Converts(r)

LEMMA FormsStart == Forms!Init => FormsInv
BY DEF Forms!Init, FormsInv, FormsTyped, FormNames, FormWaits, FormSaves, Converts

\* A conversion's step that writes no client.
LEMMA ConversionMoves ==
  ASSUME FormsInv, NEW r \in Requests, NEW where, NEW what, Forms!Goto(r, where, what),
         UNCHANGED <<clients, queue>>, where \notin {"check", "save"},
         where \in {"match", "client"} => what.email \in Emails \cup {NoEmail}
  PROVE  FormsInv'
<1>1. clientPc'[r] = where /\ clientCtx'[r] = what
      /\ \A q \in Requests \ {r} : clientPc'[q] = clientPc[q] /\ clientCtx'[q] = clientCtx[q]
  BY DEF FormsInv, FormsTyped, Forms!Goto
<1>2. FormsTyped' /\ FormNames'
  BY DEF FormsInv, FormsTyped, FormNames, OfForm, Forms!Goto
<1>3. ASSUME NEW q \in Requests PROVE FormWaits(q)' /\ FormSaves(q)' /\ Converts(q)'
  <2>1. CASE q = r
    BY <1>1, <2>1 DEF FormWaits, FormSaves, Converts
  <2>2. CASE q # r
    BY <1>1, <2>2 DEF FormsInv, FormWaits, FormSaves, Converts, OfForm
  <2>. QED BY <2>1, <2>2
<1>. QED BY <1>2, <1>3 DEF FormsInv

\* A step that only changes what the form has not written.
LEMMA NoNameMoves ==
  ASSUME FormsInv, clients' \in Seq(ClientRows), DOMAIN clients \subseteq DOMAIN clients',
         \A c \in DOMAIN clients' : OfForm(c)' => c \in DOMAIN clients /\ OfForm(c) /\ clients'[c].company = clients[c].company,
         UNCHANGED queue, DOMAIN clientPc' = Requests, DOMAIN clientCtx' = Requests,
         \A q \in Requests : \/ clientPc'[q] = clientPc[q] /\ clientCtx'[q] = clientCtx[q]
                             \/ clientPc'[q] \notin {"check", "save", "match", "client"}
  PROVE  FormsInv'
<1>1. FormsTyped' /\ FormNames'
  BY DEF FormsInv, FormsTyped, FormNames
<1>2. ASSUME NEW q \in Requests PROVE FormWaits(q)' /\ FormSaves(q)' /\ Converts(q)'
  BY DEF FormsInv, FormWaits, FormSaves, Converts
<1>. QED BY <1>1, <1>2 DEF FormsInv

\* Whoever is served goes, and the next one moves up.
LEMMA TailKeepsOthers ==
  ASSUME NEW line \in Seq(Requests), line # << >>, NEW r, line[1] = r
  PROVE  /\ Tail(line) \in Seq(Requests)
         /\ \A q \in Requests \ {r} :
              (\E i \in DOMAIN line : line[i] = q) => \E i \in DOMAIN Tail(line) : Tail(line)[i] = q
<1>1. Len(line) \in Nat \ {0}
  OBVIOUS
<1>2. Tail(line) \in Seq(Requests) /\ Len(Tail(line)) = Len(line) - 1 /\ \A i \in 1..Len(Tail(line)) : Tail(line)[i] = line[i + 1]
  BY <1>1
<1>3. ASSUME NEW q \in Requests \ {r}, NEW i \in DOMAIN line, line[i] = q
      PROVE  \E j \in DOMAIN Tail(line) : Tail(line)[j] = q
  <2>1. i \in 2..Len(line)
    BY <1>1, <1>3
  <2>2. i - 1 \in 1..Len(Tail(line)) /\ Tail(line)[i - 1] = q
    BY <1>1, <1>2, <1>3, <2>1
  <2>. QED BY <1>2, <2>2
<1>. QED BY <1>2, <1>3

\* What is written into a row of a table, or added to one, keeps the rest.
LEMMA RowIsAppended ==
  ASSUME NEW S, NEW t \in Seq(S), NEW row \in S
  PROVE  /\ Append(t, row) \in Seq(S) /\ DOMAIN Append(t, row) = DOMAIN t \cup {Len(t) + 1}
         /\ Len(t) + 1 \notin DOMAIN t /\ Len(t) \in Nat /\ DOMAIN t \subseteq Nat \ {0}
         /\ Append(t, row)[Len(t) + 1] = row /\ \A i \in DOMAIN t : Append(t, row)[i] = t[i]
OBVIOUS
LEMMA RowIsChanged ==
  ASSUME NEW S, NEW t \in Seq(S), NEW i \in DOMAIN t, NEW row \in S
  PROVE  /\ [t EXCEPT ![i] = row] \in Seq(S) /\ DOMAIN [t EXCEPT ![i] = row] = DOMAIN t
         /\ [t EXCEPT ![i] = row][i] = row /\ \A j \in DOMAIN t \ {i} : [t EXCEPT ![i] = row][j] = t[j]
OBVIOUS

LEMMA FormsSteps == FormsInv /\ [Forms!Next]_(Forms!vars) => FormsInv'
<1>. SUFFICES ASSUME FormsInv, [Forms!Next]_(Forms!vars) PROVE FormsInv'
  OBVIOUS
<1>0. /\ FormsTyped /\ FormNames
      /\ \A r \in Requests : FormWaits(r) /\ FormSaves(r) /\ Converts(r)
  BY DEF FormsInv
<1>1. CASE UNCHANGED Forms!vars
  BY <1>1 DEF Forms!vars, FormsInv, FormsTyped, FormNames, FormWaits, FormSaves, Converts, OfForm
<1>2. ASSUME NEW r \in Requests, NEW c \in Forms!ActiveClients \cup {Forms!NewClient}, NEW k \in Companies,
             Forms!SaveClient(r, c, k)
      PROVE  FormsInv'
  <2>1. /\ UNCHANGED clients /\ queue' = Append(queue, r) /\ DOMAIN clientPc' = Requests /\ DOMAIN clientCtx' = Requests
        /\ clientPc[r] = "idle" /\ clientPc'[r] = "check" /\ clientCtx'[r] = [op |-> "form", client |-> c, company |-> k]
        /\ \A q \in Requests \ {r} : clientPc'[q] = clientPc[q] /\ clientCtx'[q] = clientCtx[q]
    BY <1>0, <1>2 DEF Forms!SaveClient, Forms!Goto, FormsTyped
  <2>2. /\ queue' \in Seq(Requests) /\ Len(queue) + 1 \in DOMAIN queue' /\ queue'[Len(queue) + 1] = r
        /\ \A i \in DOMAIN queue : i \in DOMAIN queue' /\ queue'[i] = queue[i]
    BY <1>0, <2>1 DEF FormsTyped
  <2>3. FormsTyped' /\ FormNames'
    BY <1>0, <2>1, <2>2 DEF FormsTyped, FormNames, OfForm
  <2>4. FormWaits(r)' /\ FormSaves(r)' /\ Converts(r)'
    BY <2>1, <2>2 DEF FormWaits, FormSaves, Converts, Forms!ActiveClients, Forms!Ids, Forms!NewClient
  <2>5. ASSUME NEW q \in Requests \ {r} PROVE FormWaits(q)' /\ FormSaves(q)' /\ Converts(q)'
    <3>1. FormWaits(q) /\ FormSaves(q) /\ Converts(q) /\ (clientPc[q] = "save" => 1 \in DOMAIN queue)
      BY <1>0 DEF FormWaits, FormsTyped
    <3>. QED BY <2>1, <2>2, <3>1 DEF FormWaits, FormSaves, Converts, OfForm
  <2>. QED BY <2>3, <2>4, <2>5 DEF FormsInv
<1>3. ASSUME NEW r \in Requests, clientPc[r] \in {"check", "save"}, queue[1] = r, queue' = Tail(queue), Forms!Answer(r),
             clients' \in Seq(ClientRows), DOMAIN clients \subseteq DOMAIN clients', FormNames'
      PROVE  FormsInv'
  <2>1. queue # << >> /\ queue \in Seq(Requests)
    BY <1>0, <1>3 DEF FormWaits, FormsTyped
  <2>2. /\ queue' \in Seq(Requests)
        /\ \A q \in Requests \ {r} : (\E i \in DOMAIN queue : queue[i] = q) => \E i \in DOMAIN queue' : queue'[i] = q
    BY <1>3, <2>1, TailKeepsOthers
  <2>3. /\ DOMAIN clientPc' = Requests /\ DOMAIN clientCtx' = Requests /\ clientPc'[r] = "idle"
        /\ \A q \in Requests \ {r} : clientPc'[q] = clientPc[q] /\ clientCtx'[q] = clientCtx[q]
    BY <1>0, <1>3 DEF Forms!Answer, Forms!Goto, FormsTyped
  <2>4. \A q \in Requests \ {r} : clientPc[q] # "save"
    BY <1>0, <1>3 DEF FormSaves
  <2>5. ASSUME NEW q \in Requests PROVE FormWaits(q)' /\ FormSaves(q)' /\ Converts(q)'
    <3>1. CASE q = r
      BY <2>3, <3>1 DEF FormWaits, FormSaves, Converts
    <3>2. CASE q # r
      BY <1>0, <1>3, <2>2, <2>3, <2>4, <3>2 DEF FormWaits, FormSaves, Converts
    <3>. QED BY <3>1, <3>2
  <2>. QED BY <1>3, <2>2, <2>3, <2>5 DEF FormsInv, FormsTyped
<1>4. ASSUME NEW r \in Requests, Forms!Check(r) PROVE FormsInv'
  <2>1. clientPc[r] = "check" /\ queue[1] = r /\ UNCHANGED clients
    BY <1>4, <1>0 DEF Forms!Check, Forms!MyTurn, FormWaits, FormsTyped
  <2>2. CASE \E c \in Forms!ActiveClients \ {clientCtx[r].client} : clients[c].company = clientCtx[r].company
    <3>1. Forms!Answer(r) /\ queue' = Tail(queue)
      BY <1>4, <2>2 DEF Forms!Check, Forms!Leave
    <3>2. clients' \in Seq(ClientRows) /\ FormNames'
      BY <1>0, <2>1 DEF FormsTyped, FormNames, OfForm
    <3>. QED BY <1>3, <2>1, <3>1, <3>2
  <2>3. CASE ~\E c \in Forms!ActiveClients \ {clientCtx[r].client} : clients[c].company = clientCtx[r].company
    <3>1. Forms!Then(r, "save") /\ UNCHANGED queue
      BY <1>4, <2>3 DEF Forms!Check
    <3>2. /\ DOMAIN clientPc' = Requests /\ DOMAIN clientCtx' = Requests /\ clientPc'[r] = "save"
          /\ clientCtx'[r] = clientCtx[r]
          /\ \A q \in Requests \ {r} : clientPc'[q] = clientPc[q] /\ clientCtx'[q] = clientCtx[q]
      BY <1>0, <3>1 DEF Forms!Then, Forms!Goto, FormsTyped
    <3>3. FormsTyped' /\ FormNames'
      BY <1>0, <2>1, <3>1, <3>2 DEF FormsTyped, FormNames, OfForm
    <3>4. FormWaits(r)' /\ FormSaves(r)' /\ Converts(r)'
      BY <1>0, <2>1, <2>3, <3>1, <3>2 DEF FormWaits, FormSaves, Converts, OfForm, Forms!ActiveClients, Forms!Ids
    <3>5. ASSUME NEW q \in Requests \ {r} PROVE FormWaits(q)' /\ FormSaves(q)' /\ Converts(q)'
      BY <1>0, <2>1, <3>1, <3>2 DEF FormWaits, FormSaves, Converts, OfForm
    <3>. QED BY <3>3, <3>4, <3>5 DEF FormsInv
  <2>. QED BY <2>2, <2>3
<1>5. ASSUME NEW r \in Requests, Forms!Save(r) PROVE FormsInv'
  <2>. DEFINE c == clientCtx[r].client
  <2>1. /\ clientPc[r] = "save" /\ queue[1] = r /\ Forms!Answer(r) /\ queue' = Tail(queue)
        /\ c \in DOMAIN clients \cup {0} /\ clientCtx[r].company \in Companies
        /\ \A d \in DOMAIN clients \ {c} : OfForm(d) => clients[d].company # clientCtx[r].company
    BY <1>5, <1>0 DEF Forms!Save, Forms!Leave, FormWaits, FormSaves
  <2>2. /\ clients' \in Seq(ClientRows) /\ DOMAIN clients \subseteq DOMAIN clients' /\ FormNames'
    <3>1. CASE c = Forms!NewClient
      <4>. DEFINE row(e) == [company |-> clientCtx[r].company, email |-> e, deleted |-> FALSE, byForm |-> TRUE,
                             byConversion |-> FALSE]
      <4>1. PICK email \in Emails : clients' = Append(clients, row(email))
        BY <1>5, <3>1 DEF Forms!Save
      <4>2. row(email) \in ClientRows /\ row(email).company = clientCtx[r].company
        BY <2>1 DEF ClientRows, AnyEmail
      <4>. HIDE DEF row
      <4>3. /\ clients' \in Seq(ClientRows) /\ DOMAIN clients' = DOMAIN clients \cup {Len(clients) + 1}
            /\ clients'[Len(clients) + 1] = row(email) /\ \A d \in DOMAIN clients : clients'[d] = clients[d]
        BY <1>0, <4>1, <4>2, RowIsAppended DEF FormsTyped
      <4>4. \A d \in DOMAIN clients : OfForm(d) => clients[d].company # clientCtx[r].company
        BY <1>0, <2>1, <3>1 DEF Forms!NewClient, FormsTyped
      <4>5. FormNames'
        BY <1>0, <4>2, <4>3, <4>4 DEF FormNames, OfForm
      <4>. QED BY <4>3, <4>5
    <3>2. CASE c # Forms!NewClient
      <4>. DEFINE row == [clients[c] EXCEPT !.company = clientCtx[r].company, !.byForm = TRUE]
      <4>1. c \in DOMAIN clients /\ clients[c] \in ClientRows
        BY <1>0, <2>1, <3>2 DEF FormsTyped, Forms!NewClient
      <4>2. row \in ClientRows /\ row.company = clientCtx[r].company /\ row.deleted = clients[c].deleted
        BY <2>1, <4>1 DEF ClientRows
      <4>3. clients' = [clients EXCEPT ![c] = row]
        BY <1>5, <3>2 DEF Forms!Save
      <4>. HIDE DEF row
      <4>4. /\ clients' \in Seq(ClientRows) /\ DOMAIN clients' = DOMAIN clients
            /\ clients'[c] = row /\ \A d \in DOMAIN clients \ {c} : clients'[d] = clients[d]
        BY <1>0, <4>1, <4>2, <4>3, RowIsChanged DEF FormsTyped
      <4>5. FormNames'
        BY <1>0, <2>1, <4>2, <4>4 DEF FormNames, OfForm
      <4>. QED BY <4>4, <4>5
    <3>. QED BY <3>1, <3>2
  <2>. QED BY <1>3, <2>1, <2>2
<1>6. ASSUME NEW c \in Forms!ActiveClients, NEW e \in Emails, Forms!EditClient(c, e) PROVE FormsInv'
  <2>. DEFINE row == [clients[c] EXCEPT !.email = e, !.byConversion = FALSE]
  <2>1. c \in DOMAIN clients /\ clients[c] \in ClientRows
    BY <1>0 DEF Forms!ActiveClients, Forms!Ids, FormsTyped
  <2>2. /\ row \in ClientRows /\ row.company = clients[c].company
        /\ row.byForm = clients[c].byForm /\ row.deleted = clients[c].deleted
    BY <2>1 DEF ClientRows, AnyEmail
  <2>3. clients' = [clients EXCEPT ![c] = row] /\ UNCHANGED <<queue, clientPc, clientCtx>>
    BY <1>6 DEF Forms!EditClient
  <2>. HIDE DEF row
  <2>4. /\ clients' \in Seq(ClientRows) /\ DOMAIN clients' = DOMAIN clients
        /\ clients'[c] = row /\ \A d \in DOMAIN clients \ {c} : clients'[d] = clients[d]
    BY <1>0, <2>1, <2>2, <2>3, RowIsChanged DEF FormsTyped
  <2>5. \A d \in DOMAIN clients' : OfForm(d)' => d \in DOMAIN clients /\ OfForm(d) /\ clients'[d].company = clients[d].company
    BY <2>2, <2>4 DEF OfForm
  <2>. QED BY <1>0, <2>3, <2>4, <2>5, NoNameMoves DEF FormsTyped
<1>7. ASSUME NEW c \in Forms!ActiveClients, Forms!RemoveClient(c) PROVE FormsInv'
  <2>1. c \in DOMAIN clients
    BY DEF Forms!ActiveClients, Forms!Ids
  <2>2. Forms!Gone \in ClientRows /\ Forms!Gone.deleted
    BY DEF ClientRows, AnyEmail, Forms!Gone
  <2>3. clients' = [clients EXCEPT ![c] = Forms!Gone] /\ UNCHANGED <<queue, clientPc, clientCtx>>
    BY <1>7 DEF Forms!RemoveClient
  <2>4. /\ clients' \in Seq(ClientRows) /\ DOMAIN clients' = DOMAIN clients
        /\ clients'[c] = Forms!Gone /\ \A d \in DOMAIN clients \ {c} : clients'[d] = clients[d]
    BY <1>0, <2>1, <2>2, <2>3, RowIsChanged DEF FormsTyped
  <2>5. \A d \in DOMAIN clients' : OfForm(d)' => d \in DOMAIN clients /\ OfForm(d) /\ clients'[d].company = clients[d].company
    BY <2>2, <2>4 DEF OfForm
  <2>. QED BY <1>0, <2>3, <2>4, <2>5, NoNameMoves DEF FormsTyped
<1>8. ASSUME Forms!LeadStep PROVE FormsInv'
  <2>1. UNCHANGED <<clients, queue, clientPc, clientCtx>>
    BY <1>8 DEF Forms!LeadStep, Forms!CreateLead, Forms!UpdateLead, Forms!RemoveLead, Forms!SaveLead,
       Forms!CreateProposal,
       Forms!RemoveProposal, Forms!Rest
  <2>. QED BY <2>1 DEF FormsInv, FormsTyped, FormNames, FormWaits, FormSaves, Converts, OfForm
<1>9. ASSUME NEW r \in Requests, NEW l, NEW p, NEW c, NEW e \in Emails, Forms!Begin(r, l, p, c, e) PROVE FormsInv'
  <2>. DEFINE what == [op |-> "convert", lead |-> l, proposal |-> p, client |-> c, project |-> None,
                       email |-> IF c = None THEN e ELSE NoEmail]
  <2>1. what.email \in Emails \cup {NoEmail}
    OBVIOUS
  <2>2. Forms!Goto(r, IF c = None THEN "match" ELSE "project", what) /\ UNCHANGED <<clients, queue>>
    BY <1>9 DEF Forms!Begin
  <2>. HIDE DEF what
  <2>. QED BY <2>1, <2>2, ConversionMoves
<1>10. ASSUME NEW r \in Requests, Forms!FindClient(r) PROVE FormsInv'
  <2>1. clientCtx[r].email \in Emails \cup {NoEmail} /\ UNCHANGED <<clients, queue>>
    BY <1>0, <1>10 DEF Forms!FindClient, Converts
  <2>2. CASE Forms!Match(r) = {}
    BY <1>10, <2>1, <2>2, ConversionMoves DEF Forms!FindClient, Forms!Then
  <2>3. CASE Forms!Match(r) # {}
    <3>1. PICK c \in Forms!Match(r) : Forms!Goto(r, "link", [clientCtx[r] EXCEPT !.client = c])
      BY <1>10, <2>3 DEF Forms!FindClient
    <3>. DEFINE what == [clientCtx[r] EXCEPT !.client = c]
    <3>. HIDE DEF what
    <3>. QED BY <2>1, <3>1, ConversionMoves DEF what
  <2>. QED BY <2>2, <2>3
<1>11. ASSUME NEW r \in Requests, NEW k \in Companies, Forms!MakeClient(r, k) PROVE FormsInv'
  <2>. DEFINE row == [company |-> k, email |-> IF clientCtx[r].email = NoEmail THEN Generated ELSE clientCtx[r].email,
                      deleted |-> FALSE, byForm |-> FALSE, byConversion |-> TRUE]
              what == [clientCtx[r] EXCEPT !.client = Len(clients) + 1]
  <2>1. row \in ClientRows /\ ~row.byForm
    BY <1>0, <1>11 DEF Forms!MakeClient, Converts, ClientRows, AnyEmail
  <2>2. clients' = Append(clients, row) /\ Forms!Goto(r, "link", what) /\ UNCHANGED queue
    BY <1>11 DEF Forms!MakeClient
  <2>. HIDE DEF row, what
  <2>3. /\ clients' \in Seq(ClientRows) /\ DOMAIN clients' = DOMAIN clients \cup {Len(clients) + 1}
        /\ clients'[Len(clients) + 1] = row /\ \A d \in DOMAIN clients : clients'[d] = clients[d]
    BY <1>0, <2>1, <2>2, RowIsAppended DEF FormsTyped
  <2>4. \A d \in DOMAIN clients' : OfForm(d)' => d \in DOMAIN clients /\ OfForm(d) /\ clients'[d].company = clients[d].company
    BY <2>1, <2>3 DEF OfForm
  <2>5. /\ DOMAIN clientPc' = Requests /\ DOMAIN clientCtx' = Requests
        /\ \A q \in Requests : \/ clientPc'[q] = clientPc[q] /\ clientCtx'[q] = clientCtx[q]
                               \/ clientPc'[q] \notin {"check", "save", "match", "client"}
    BY <1>0, <2>2 DEF FormsTyped, Forms!Goto
  <2>. QED BY <2>2, <2>3, <2>4, <2>5, NoNameMoves
<1>12. ASSUME NEW r \in Requests, Forms!LinkProposal(r) \/ Forms!MarkProposal(r) PROVE FormsInv'
  <2>1. /\ UNCHANGED <<clients, queue>>
        /\ Forms!Then(r, "linkLead") \/ Forms!Then(r, "markLead") \/ Forms!Answer(r)
    BY <1>12 DEF Forms!LinkProposal, Forms!MarkProposal, Forms!OnProposal
  <2>. QED BY <2>1, ConversionMoves DEF Forms!Then, Forms!Answer
<1>13. ASSUME NEW r \in Requests, Forms!LinkLead(r) \/ Forms!MarkLead(r) PROVE FormsInv'
  <2>1. UNCHANGED <<clients, queue>> /\ (Forms!Then(r, "project") \/ Forms!Answer(r))
    BY <1>13 DEF Forms!LinkLead, Forms!MarkLead, Forms!OnLead
  <2>. QED BY <2>1, ConversionMoves DEF Forms!Then, Forms!Answer
<1>14. ASSUME NEW r \in Requests, Forms!CreateProject(r) PROVE FormsInv'
  BY <1>14, ConversionMoves DEF Forms!CreateProject
<1>15. ASSUME NEW r \in Requests, Forms!Fail(r) PROVE FormsInv'
  <2>1. CASE clientPc[r] \in {"check", "save"}
    <3>1. /\ queue[1] = r /\ queue' = Tail(queue) /\ Forms!Answer(r) /\ UNCHANGED clients
      BY <1>0, <1>15, <2>1 DEF Forms!Fail, Forms!MyTurn, Forms!Leave, FormWaits, FormsTyped
    <3>2. clients' \in Seq(ClientRows) /\ FormNames'
      BY <1>0, <3>1 DEF FormsTyped, FormNames, OfForm
    <3>. QED BY <1>3, <2>1, <3>1, <3>2
  <2>2. CASE clientPc[r] \notin {"check", "save"}
    <3>1. UNCHANGED <<clients, queue>> /\ Forms!Answer(r)
      BY <1>15, <2>2 DEF Forms!Fail
    <3>. QED BY <3>1, ConversionMoves DEF Forms!Answer
  <2>. QED BY <2>1, <2>2
<1>16. ASSUME Forms!FormStep PROVE FormsInv'
  BY <1>2, <1>4, <1>5, <1>6, <1>7, <1>16 DEF Forms!FormStep
<1>17. ASSUME Forms!ConversionStep PROVE FormsInv'
  <2>1. ASSUME NEW r \in Requests, NEW e \in Emails, NEW l \in Leads, Forms!ConvertLead(r, l, e) PROVE FormsInv'
    BY <1>9, <2>1 DEF Forms!ConvertLead
  <2>2. ASSUME NEW r \in Requests, NEW e \in Emails, NEW p \in Proposals, Forms!ConvertProposal(r, p, e) PROVE FormsInv'
    BY <1>9, <2>2 DEF Forms!ConvertProposal
  <2>. QED BY <1>10, <1>11, <1>12, <1>13, <1>14, <1>15, <1>17, <2>1, <2>2 DEF Forms!ConversionStep
<1>. QED BY <1>1, <1>8, <1>16, <1>17 DEF Forms!Next

(* The form never gives two active clients one name, however creations,       *)
(* renamings, failures and conversions interleave.                            *)
THEOREM FormNamesAreUnique == OfficeSpec => []FormNamesStayUnique
<1>1. FormsInv => FormNamesStayUnique
  BY DEF FormsInv, FormNames, OfForm, FormNamesStayUnique, Forms!FormNamesStayUnique, Forms!ActiveClients, Forms!Ids
<1>. QED BY <1>1, OfficeRunsForms, FormsStart, FormsSteps, PTL DEF Forms!Spec
----------------------------------------------------------------------------
(* Files. A running upload has its content to itself, and no revision of a    *)
(* name has a higher number than there are revisions of it.                   *)
LEMMA OfficeRunsFiles == OfficeSpec => Files!Spec
<1>1. OfficeInit => Files!Init
  BY DEF OfficeInit
<1>2. [OfficeNext]_officeVars => [Files!Next]_(Files!vars)
  BY DEF OfficeNext, officeVars, Files!vars, taskFiles
<1>. QED BY <1>1, <1>2, PTL DEF OfficeSpec, Files!Spec

FileRows == [name : Names, revision : Nat, content : Nat \cup {NoContent}, deleted : BOOLEAN, raced : BOOLEAN]
FilesTyped ==
  /\ files \in Seq(FileRows) /\ uploads \in Nat /\ disk \subseteq 1..uploads
  /\ DOMAIN filePc = Requests /\ DOMAIN fileCtx = Requests
ContentKept == \A i \in DOMAIN files : files[i].content \in disk \cup {NoContent}
UploadKeeps(r) ==
  /\ filePc[r] \in {"idle", "count", "insert"}
  /\ filePc[r] # "idle" => /\ fileCtx[r].name \in Names /\ fileCtx[r].content \in disk \cup {NoContent}
                           /\ \A i \in DOMAIN files : files[i].content = fileCtx[r].content => files[i].content = NoContent
  /\ filePc[r] = "insert" => /\ fileCtx[r].seen \subseteq Files!Revisions(fileCtx[r].name)
                             /\ fileCtx[r].revision = Cardinality(fileCtx[r].seen) + 1
UploadsApart(q, r) ==
  filePc[q] # "idle" /\ filePc[r] # "idle" /\ fileCtx[q].content = fileCtx[r].content => q = r \/ fileCtx[q].content = NoContent
RevisionsIn(rows, name) == {i \in DOMAIN rows : rows[i].name = name}
NumbersBounded == \A i \in DOMAIN files : files[i].revision <= Cardinality(RevisionsIn(files, files[i].name))
NumbersRise == \A i, j \in DOMAIN files :
  i < j /\ files[i].name = files[j].name /\ ~files[j].raced => files[i].revision < files[j].revision
NothingStrays == disk \subseteq Files!Contents \cup Files!InFlight \cup lost
FilesInv ==
  /\ FilesTyped /\ ContentKept /\ NumbersBounded /\ NumbersRise /\ NothingStrays
  /\ \A r \in Requests : UploadKeeps(r)
  /\ \A q, r \in Requests : UploadsApart(q, r)

\* The cardinality that TaskFiles uses is that of the library.
LEMMA FilesCount == ASSUME NEW S PROVE Files!Cardinality(S) = Cardinality(S)
BY DEF Files!Cardinality, Cardinality

LEMMA RevisionsFinite ==
  ASSUME files \in Seq(FileRows), NEW name
  PROVE  /\ IsFiniteSet(Files!Revisions(name)) /\ Cardinality(Files!Revisions(name)) \in Nat
         /\ \A S \in SUBSET Files!Revisions(name) :
              /\ IsFiniteSet(S) /\ Cardinality(S) \in Nat /\ Cardinality(S) <= Cardinality(Files!Revisions(name))
<1>1. Files!Revisions(name) \subseteq 1..Len(files) /\ Len(files) \in Nat
  BY DEF Files!Revisions
<1>2. IsFiniteSet(1..Len(files))
  BY <1>1, FS_Interval
<1>. QED BY <1>1, <1>2, FS_Subset, FS_CardinalityType

LEMMA RevisionsAreIn ==
  ASSUME NEW name
  PROVE  Files!Revisions(name) = RevisionsIn(files, name) /\ Files!Revisions(name)' = RevisionsIn(files', name)
BY DEF Files!Revisions, RevisionsIn

LEMMA FilesStart == Files!Init => FilesInv
BY DEF Files!Init, FilesInv, FilesTyped, ContentKept, NumbersBounded, NumbersRise, NothingStrays, UploadKeeps,
   UploadsApart

\* A step that makes no row.
LEMMA NoFileMoves ==
  ASSUME FilesInv, UNCHANGED files
  PROVE  NumbersBounded' /\ NumbersRise' /\ Files!Contents' = Files!Contents /\ \A name : Files!Revisions(name)' = Files!Revisions(name)
<1>1. \A name : Files!Revisions(name)' = Files!Revisions(name)
  BY DEF Files!Revisions
<1>. QED BY <1>1 DEF FilesInv, NumbersBounded, NumbersRise, Files!Contents

LEMMA FilesSteps == FilesInv /\ [Files!Next]_(Files!vars) => FilesInv'
<1>. SUFFICES ASSUME FilesInv, [Files!Next]_(Files!vars) PROVE FilesInv'
  OBVIOUS
<1>0. /\ FilesTyped /\ ContentKept /\ NumbersBounded /\ NumbersRise /\ NothingStrays
      /\ \A r \in Requests : UploadKeeps(r)
      /\ \A q, r \in Requests : UploadsApart(q, r)
  BY DEF FilesInv
<1>00. ASSUME NEW r \in Requests, NEW where, NEW what, Files!Goto(r, where, what)
       PROVE  /\ filePc'[r] = where /\ fileCtx'[r] = what /\ DOMAIN filePc' = Requests /\ DOMAIN fileCtx' = Requests
              /\ \A q \in Requests \ {r} : filePc'[q] = filePc[q] /\ fileCtx'[q] = fileCtx[q]
  BY <1>0, <1>00 DEF FilesTyped, Files!Goto
<1>1. CASE UNCHANGED Files!vars
  BY <1>1 DEF Files!vars, FilesInv, FilesTyped, ContentKept, NumbersBounded, NumbersRise, NothingStrays, UploadKeeps,
     UploadsApart, Files!Contents, Files!InFlight, Files!Revisions, RevisionsIn
<1>2. ASSUME NEW r \in Requests, NEW name \in Names, NEW withFile \in BOOLEAN, Files!Upload(r, name, withFile)
      PROVE  FilesInv'
  <2>1. PICK content : content = IF withFile THEN uploads + 1 ELSE NoContent
    OBVIOUS
  <2>2. /\ filePc[r] = "idle" /\ UNCHANGED <<files, lost>> /\ uploads' = uploads + 1
        /\ disk' = IF withFile THEN disk \cup {uploads + 1} ELSE disk
        /\ filePc'[r] = "count" /\ fileCtx'[r] = [name |-> name, content |-> content]
        /\ DOMAIN filePc' = Requests /\ DOMAIN fileCtx' = Requests
        /\ \A q \in Requests \ {r} : filePc'[q] = filePc[q] /\ fileCtx'[q] = fileCtx[q]
    BY <1>2, <1>00, <2>1 DEF Files!Upload
  <2>3. /\ uploads + 1 \notin disk /\ uploads + 1 # NoContent /\ content \in disk' \cup {NoContent}
        /\ disk \subseteq disk' /\ disk' \subseteq disk \cup {content}
    BY <1>0, <2>1, <2>2, FilesAssumption DEF FilesTyped
  <2>4. FilesTyped' /\ ContentKept'
    BY <1>0, <2>2, <2>3 DEF FilesTyped, ContentKept
  <2>5. NumbersBounded' /\ NumbersRise' /\ Files!Contents' = Files!Contents /\ \A n : Files!Revisions(n)' = Files!Revisions(n)
    BY <2>2, NoFileMoves
  <2>6. \A q \in Requests : UploadKeeps(q)'
    <3>1. UploadKeeps(r)'
      BY <1>0, <2>1, <2>2, <2>3 DEF UploadKeeps, ContentKept
    <3>2. ASSUME NEW q \in Requests \ {r} PROVE UploadKeeps(q)'
      BY <1>0, <2>2, <2>3, <2>5 DEF UploadKeeps
    <3>. QED BY <3>1, <3>2
  <2>7. \A p, q \in Requests : UploadsApart(p, q)'
    <3>1. ASSUME NEW q \in Requests \ {r}, filePc[q] # "idle" PROVE fileCtx[q].content = content => content = NoContent
      BY <1>0, <2>1, <2>3, <3>1 DEF UploadKeeps
    <3>. QED BY <1>0, <2>2, <3>1 DEF UploadsApart
  <2>8. NothingStrays'
    <3>1. Files!InFlight \cup {content} \subseteq Files!InFlight'
      BY <2>2 DEF Files!InFlight
    <3>. QED BY <1>0, <2>2, <2>3, <2>5, <3>1 DEF NothingStrays
  <2>. QED BY <2>4, <2>5, <2>6, <2>7, <2>8 DEF FilesInv
<1>3. ASSUME NEW r \in Requests, Files!Count(r) PROVE FilesInv'
  <2>1. PICK what : what = [name |-> fileCtx[r].name, content |-> fileCtx[r].content,
                            revision |-> Files!Number(fileCtx[r].name), seen |-> Files!Revisions(fileCtx[r].name)]
    OBVIOUS
  <2>2. /\ filePc[r] = "count" /\ UNCHANGED <<files, disk, uploads, lost>>
        /\ filePc'[r] = "insert" /\ fileCtx'[r] = what
        /\ DOMAIN filePc' = Requests /\ DOMAIN fileCtx' = Requests
        /\ \A q \in Requests \ {r} : filePc'[q] = filePc[q] /\ fileCtx'[q] = fileCtx[q]
    BY <1>3, <1>00, <2>1 DEF Files!Count
  <2>3. /\ what.name = fileCtx[r].name /\ what.content = fileCtx[r].content
        /\ what.seen = Files!Revisions(what.name) /\ what.revision = Cardinality(what.seen) + 1
    BY <2>1, FilesCount DEF Files!Number
  <2>4. FilesTyped' /\ ContentKept'
    BY <1>0, <2>2 DEF FilesTyped, ContentKept
  <2>5. NumbersBounded' /\ NumbersRise' /\ Files!Contents' = Files!Contents /\ \A n : Files!Revisions(n)' = Files!Revisions(n)
    BY <2>2, NoFileMoves
  <2>6. \A q \in Requests : UploadKeeps(q)'
    <3>1. UploadKeeps(r)'
      BY <1>0, <2>2, <2>3, <2>5 DEF UploadKeeps
    <3>2. ASSUME NEW q \in Requests \ {r} PROVE UploadKeeps(q)'
      BY <1>0, <2>2, <2>5 DEF UploadKeeps
    <3>. QED BY <3>1, <3>2
  <2>7. \A p, q \in Requests : UploadsApart(p, q)'
    BY <1>0, <2>2, <2>3 DEF UploadsApart
  <2>8. NothingStrays'
    <3>1. Files!InFlight \subseteq Files!InFlight'
      BY <2>2, <2>3 DEF Files!InFlight
    <3>. QED BY <1>0, <2>2, <2>5, <3>1 DEF NothingStrays
  <2>. QED BY <2>4, <2>5, <2>6, <2>7, <2>8 DEF FilesInv
<1>4. ASSUME NEW r \in Requests, Files!CountFails(r) \/ Files!InsertFails(r) PROVE FilesInv'
  <2>1. PICK content : content = fileCtx[r].content
    OBVIOUS
  <2>2. /\ filePc[r] # "idle" /\ UNCHANGED <<files, uploads>> /\ disk' \in {disk, disk \ {content}}
        /\ filePc'[r] = "idle" /\ DOMAIN filePc' = Requests /\ DOMAIN fileCtx' = Requests
        /\ \A q \in Requests \ {r} : filePc'[q] = filePc[q] /\ fileCtx'[q] = fileCtx[q]
        /\ lost \subseteq lost' /\ (content \in disk' => content \in lost')
    BY <1>4, <1>00, <2>1 DEF Files!CountFails, Files!InsertFails, Files!Answer
  <2>3. /\ content \in disk \cup {NoContent} /\ \A i \in DOMAIN files : files[i].content = content => content = NoContent
        /\ \A q \in Requests \ {r} : filePc[q] # "idle" /\ fileCtx[q].content = content => content = NoContent
    BY <1>0, <2>1, <2>2 DEF UploadKeeps, UploadsApart
  <2>4. FilesTyped' /\ ContentKept'
    BY <1>0, <2>2, <2>3 DEF FilesTyped, ContentKept
  <2>5. NumbersBounded' /\ NumbersRise' /\ Files!Contents' = Files!Contents /\ \A n : Files!Revisions(n)' = Files!Revisions(n)
    BY <2>2, NoFileMoves
  <2>6. \A q \in Requests : UploadKeeps(q)'
    <3>1. UploadKeeps(r)'
      BY <2>2 DEF UploadKeeps
    <3>2. ASSUME NEW q \in Requests \ {r} PROVE UploadKeeps(q)'
      BY <1>0, <2>2, <2>3, <2>5 DEF UploadKeeps
    <3>. QED BY <3>1, <3>2
  <2>7. \A p, q \in Requests : UploadsApart(p, q)'
    BY <1>0, <2>2 DEF UploadsApart
  <2>8. NothingStrays'
    <3>1. Files!InFlight \ {content} \subseteq Files!InFlight'
      BY <2>1, <2>2 DEF Files!InFlight
    <3>. QED BY <1>0, <2>2, <2>5, <3>1 DEF NothingStrays
  <2>. QED BY <2>4, <2>5, <2>6, <2>7, <2>8 DEF FilesInv
<1>5. ASSUME NEW r \in Requests, Files!Insert(r) PROVE FilesInv'
  <2>1. PICK name, n, row : /\ name = fileCtx[r].name /\ n = Len(files) + 1
                            /\ row = [name |-> name, revision |-> fileCtx[r].revision, content |-> fileCtx[r].content,
                                      deleted |-> FALSE, raced |-> Files!Revisions(name) # fileCtx[r].seen]
    OBVIOUS
  <2>2. /\ name \in Names /\ fileCtx[r].content \in disk \cup {NoContent} /\ filePc[r] = "insert"
        /\ \A i \in DOMAIN files : files[i].content = fileCtx[r].content => files[i].content = NoContent
        /\ fileCtx[r].seen \subseteq Files!Revisions(name) /\ fileCtx[r].revision = Cardinality(fileCtx[r].seen) + 1
    BY <1>0, <1>5, <2>1 DEF Files!Insert, UploadKeeps
  <2>3. /\ IsFiniteSet(Files!Revisions(name)) /\ Cardinality(Files!Revisions(name)) \in Nat
        /\ fileCtx[r].revision \in Nat /\ fileCtx[r].revision <= Cardinality(Files!Revisions(name)) + 1
    BY <1>0, <2>2, RevisionsFinite DEF FilesTyped
  <2>4. /\ row \in FileRows /\ row.name = name /\ row.revision = fileCtx[r].revision /\ row.content = fileCtx[r].content
        /\ ~row.raced => fileCtx[r].revision = Cardinality(Files!Revisions(name)) + 1
    <3>1. fileCtx[r].content \in Nat \cup {NoContent}
      <4>1. uploads \in Nat /\ disk \subseteq 1..uploads
        BY <1>0 DEF FilesTyped
      <4>2. disk \subseteq Nat
        BY <4>1
      <4>. QED BY <2>2, <4>2, Zenon
    <3>2. PICK raced \in BOOLEAN : raced = (Files!Revisions(name) # fileCtx[r].seen)
      OBVIOUS
    <3>3. row = [name |-> name, revision |-> fileCtx[r].revision, content |-> fileCtx[r].content,
                 deleted |-> FALSE, raced |-> raced]
      BY <2>1, <3>2
    <3>4. row \in FileRows /\ row.name = name /\ row.revision = fileCtx[r].revision /\ row.content = fileCtx[r].content
          /\ row.raced = raced
      BY <2>2, <2>3, <3>1, <3>3 DEF FileRows
    <3>. QED BY <2>2, <3>2, <3>4
  <2>5. /\ files' = Append(files, row) /\ UNCHANGED <<disk, uploads, lost>>
        /\ filePc'[r] = "idle" /\ DOMAIN filePc' = Requests /\ DOMAIN fileCtx' = Requests
        /\ \A q \in Requests \ {r} : filePc'[q] = filePc[q] /\ fileCtx'[q] = fileCtx[q]
    BY <1>5, <1>00, <2>1 DEF Files!Insert, Files!Answer
  <2>6. /\ files' \in Seq(FileRows) /\ DOMAIN files' = DOMAIN files \cup {n} /\ n \notin DOMAIN files
        /\ files'[n] = row /\ \A i \in DOMAIN files : files'[i] = files[i] /\ i < n
    BY <1>0, <2>1, <2>4, <2>5, RowIsAppended DEF FilesTyped
  <2>7. FilesTyped' /\ ContentKept'
    BY <1>0, <2>2, <2>4, <2>5, <2>6 DEF FilesTyped, ContentKept
  <2>8. /\ Files!Revisions(name)' = Files!Revisions(name) \cup {n} /\ n \notin Files!Revisions(name)
        /\ \A x : x # name => Files!Revisions(x)' = Files!Revisions(x)
    BY <2>4, <2>6 DEF Files!Revisions
  <2>9. Cardinality(Files!Revisions(name)') = Cardinality(Files!Revisions(name)) + 1
    BY <2>3, <2>8, FS_AddElement
  <2>10. NumbersBounded'
    <3>1. /\ Cardinality(RevisionsIn(files', name)) = Cardinality(RevisionsIn(files, name)) + 1
          /\ Cardinality(RevisionsIn(files, name)) \in Nat
          /\ row.revision <= Cardinality(RevisionsIn(files, name)) + 1
          /\ \A x : x # name => RevisionsIn(files', x) = RevisionsIn(files, x)
      BY <2>3, <2>4, <2>8, <2>9, RevisionsAreIn
    <3>2. ASSUME NEW i \in DOMAIN files PROVE files'[i].revision <= Cardinality(RevisionsIn(files', files'[i].name))
      <4>1. files[i].revision \in Nat /\ files[i].revision <= Cardinality(RevisionsIn(files, files[i].name)) /\ files'[i] = files[i]
        <5>1. files[i] \in FileRows
          BY <1>0 DEF FilesTyped
        <5>2. files[i].revision <= Cardinality(RevisionsIn(files, files[i].name))
          BY <1>0 DEF NumbersBounded
        <5>. QED BY <2>6, <5>1, <5>2 DEF FileRows
      <4>2. CASE files[i].name = name
        BY <3>1, <4>1, <4>2
      <4>3. CASE files[i].name # name
        BY <3>1, <4>1, <4>3
      <4>. QED BY <4>2, <4>3
    <3>. QED BY <2>4, <2>6, <3>1, <3>2 DEF NumbersBounded
  <2>11. NumbersRise'
    <3>1. ASSUME NEW i \in DOMAIN files, files[i].name = name, ~row.raced PROVE files[i].revision < row.revision
      <4>1. files[i].revision \in Nat /\ files[i].revision <= Cardinality(Files!Revisions(name))
        <5>1. files[i] \in FileRows
          BY <1>0 DEF FilesTyped
        <5>2. files[i].revision <= Cardinality(RevisionsIn(files, name))
          BY <1>0, <3>1 DEF NumbersBounded
        <5>. QED BY <5>1, <5>2, RevisionsAreIn DEF FileRows
      <4>. QED BY <2>3, <2>4, <3>1, <4>1
    <3>2. n \in Nat /\ DOMAIN files \subseteq Nat
      BY <1>0, <2>1 DEF FilesTyped
    <3>. QED BY <1>0, <2>4, <2>6, <3>1, <3>2 DEF NumbersRise
  <2>12. \A q \in Requests : UploadKeeps(q)'
    <3>1. UploadKeeps(r)'
      BY <2>5 DEF UploadKeeps
    <3>2. ASSUME NEW q \in Requests \ {r} PROVE UploadKeeps(q)'
      <4>1. UploadKeeps(q) /\ (filePc[q] # "idle" /\ fileCtx[q].content = fileCtx[r].content => fileCtx[q].content = NoContent)
        BY <1>0, <2>2 DEF UploadsApart
      <4>2. \A x : Files!Revisions(x) \subseteq Files!Revisions(x)'
        BY <2>8
      <4>. QED BY <2>4, <2>5, <2>6, <4>1, <4>2 DEF UploadKeeps
    <3>. QED BY <3>1, <3>2
  <2>13. \A p, q \in Requests : UploadsApart(p, q)'
    BY <1>0, <2>5 DEF UploadsApart
  <2>14. NothingStrays'
    <3>1. Files!InFlight \ {fileCtx[r].content} \subseteq Files!InFlight'
      BY <2>5 DEF Files!InFlight
    <3>2. Files!Contents \cup {fileCtx[r].content} \subseteq Files!Contents'
      BY <2>4, <2>6 DEF Files!Contents
    <3>. QED BY <1>0, <2>5, <3>1, <3>2 DEF NothingStrays
  <2>. QED BY <2>7, <2>10, <2>11, <2>12, <2>13, <2>14 DEF FilesInv
<1>6. ASSUME NEW i \in DOMAIN files, Files!Remove(i) PROVE FilesInv'
  <2>1. PICK row : row = [files[i] EXCEPT !.deleted = TRUE]
    OBVIOUS
  <2>2. files[i] \in FileRows
    BY <1>0 DEF FilesTyped
  <2>3. /\ row \in FileRows /\ row.name = files[i].name /\ row.revision = files[i].revision
        /\ row.content = files[i].content /\ row.raced = files[i].raced
    BY <2>1, <2>2 DEF FileRows
  <2>4. files' = [files EXCEPT ![i] = row] /\ UNCHANGED <<disk, uploads, filePc, fileCtx, lost>>
    BY <1>6, <2>1 DEF Files!Remove
  <2>5. /\ files' \in Seq(FileRows) /\ DOMAIN files' = DOMAIN files
        /\ \A j \in DOMAIN files : /\ files'[j].name = files[j].name /\ files'[j].revision = files[j].revision
                                   /\ files'[j].content = files[j].content /\ files'[j].raced = files[j].raced
    BY <1>0, <2>3, <2>4, RowIsChanged DEF FilesTyped
  <2>6. (\A x : Files!Revisions(x)' = Files!Revisions(x)) /\ Files!Contents' = Files!Contents /\ Files!InFlight' = Files!InFlight
    BY <2>4, <2>5 DEF Files!Revisions, Files!Contents, Files!InFlight
  <2>7. /\ FilesTyped' /\ ContentKept' /\ NumbersBounded' /\ NumbersRise' /\ NothingStrays'
    <3>1. NumbersBounded'
      <4>1. \A x : RevisionsIn(files', x) = RevisionsIn(files, x)
        BY <2>6, RevisionsAreIn
      <4>. QED BY <1>0, <2>5, <4>1 DEF NumbersBounded
    <3>2. FilesTyped' /\ ContentKept'
      BY <1>0, <2>4, <2>5 DEF FilesTyped, ContentKept
    <3>3. NumbersRise' /\ NothingStrays'
      BY <1>0, <2>4, <2>5, <2>6 DEF NumbersRise, NothingStrays
    <3>. QED BY <3>1, <3>2, <3>3
  <2>8. (\A q \in Requests : UploadKeeps(q)') /\ \A p, q \in Requests : UploadsApart(p, q)'
    BY <1>0, <2>4, <2>5, <2>6 DEF UploadKeeps, UploadsApart
  <2>. QED BY <2>7, <2>8 DEF FilesInv
<1>. QED BY <1>1, <1>2, <1>3, <1>4, <1>5, <1>6 DEF Files!Next

(* No row loses its content, no content strays but that of an upload that     *)
(* failed to count, and the revisions of a name differ unless uploads of it   *)
(* overlapped: at any step of any number of uploads, failures and removals.   *)
THEOREM FilesAreKept == OfficeSpec => []RevisionsAreKept
<1>1. FilesInv => RevisionsAreKept
  BY DEF FilesInv, ContentKept, NumbersRise, NothingStrays, RevisionsAreKept, Files!RevisionsAreKept, Files!Contents
<1>. QED BY <1>1, OfficeRunsFiles, FilesStart, FilesSteps, PTL DEF Files!Spec
----------------------------------------------------------------------------
(* Receipt numbers. Whoever is past the first look is the first of its        *)
(* process, and has the lock on the invoice if it got it; so a number that    *)
(* appears between the check and the write comes from another process, and    *)
(* not under the lock of both.                                                *)
LEMMA OfficeRunsReceipts == OfficeSpec => Receipts!Spec
<1>1. OfficeInit => Receipts!Init
  BY DEF OfficeInit
<1>2. [OfficeNext]_officeVars => [Receipts!Next]_(Receipts!vars)
  BY DEF OfficeNext, officeVars, Receipts!vars, receipts
<1>. QED BY <1>1, <1>2, PTL DEF OfficeSpec, Receipts!Spec

Wanted == [payment : PaymentRows, process : Processes, base : Bases \cup {None}, number : Receipts!Numbers \cup {None},
           locked : BOOLEAN, attempt : Int]
ReceiptsTyped ==
  /\ DOMAIN receipt = PaymentRows /\ owner \in [PaymentRows -> Invoices] /\ base \in [Invoices -> Bases]
  /\ turns \in [Processes -> Seq(Requests)] /\ DOMAIN holder = Invoices /\ DOMAIN writtenBy = PaymentRows
  /\ DOMAIN receiptPc = Requests /\ DOMAIN receiptCtx = Requests
Served(r) == receiptPc[r] \notin {"idle", "find"}
Waits(r) == receiptPc[r] # "idle" =>
  /\ receiptCtx[r] \in Wanted
  /\ \E i \in DOMAIN turns[receiptCtx[r].process] : turns[receiptCtx[r].process][i] = r
  /\ receiptPc[r] = "find" => ~receiptCtx[r].locked
IsServed(r) == Served(r) =>
  /\ turns[receiptCtx[r].process][1] = r
  /\ receiptCtx[r].base \in Bases
HasLock(r) == Served(r) /\ receiptCtx[r].locked => holder[Receipts!Invoice(r)] = receiptCtx[r].process
\* A request that has looked for a number, and found none.
Looked(r) == receiptPc[r] \in {"used", "write"} /\ receipt[receiptCtx[r].payment] \in Receipts!Numbers =>
  LET writer == writtenBy[receiptCtx[r].payment]
  IN  receiptCtx[r].process # writer.process /\ ~(receiptCtx[r].locked /\ writer.locked)
ReceiptsInv ==
  /\ ReceiptsTyped
  /\ \A r \in Requests : Waits(r) /\ IsServed(r) /\ HasLock(r) /\ Looked(r)

LEMMA ReceiptsStart == Receipts!Init => ReceiptsInv
BY DEF Receipts!Init, ReceiptsInv, ReceiptsTyped, Waits, IsServed, Served, HasLock, Looked

\* Two requests that are served at once are not of one process.
LEMMA OneIsServed ==
  ASSUME ReceiptsInv, NEW q \in Requests, NEW r \in Requests, Served(q), Served(r),
         receiptCtx[q].process = receiptCtx[r].process
  PROVE  q = r
BY DEF ReceiptsInv, IsServed

LEMMA ReceiptGoto ==
  ASSUME ReceiptsInv, NEW r \in Requests, NEW where, NEW what, Receipts!Keep(r, where, what)
  PROVE  /\ receiptPc'[r] = where /\ receiptCtx'[r] = what
         /\ DOMAIN receiptPc' = Requests /\ DOMAIN receiptCtx' = Requests
         /\ \A q \in Requests \ {r} : receiptPc'[q] = receiptPc[q] /\ receiptCtx'[q] = receiptCtx[q]
BY DEF ReceiptsInv, ReceiptsTyped, Receipts!Keep

Moved(r, where, what) ==
  /\ receiptPc'[r] = where /\ receiptCtx'[r] = what
  /\ DOMAIN receiptPc' = Requests /\ DOMAIN receiptCtx' = Requests
  /\ \A q \in Requests \ {r} : receiptPc'[q] = receiptPc[q] /\ receiptCtx'[q] = receiptCtx[q]

\* A request that is served goes on, and nothing is written.
LEMMA ServedGoesOn ==
  ASSUME ReceiptsInv, NEW r \in Requests, Served(r), UNCHANGED <<receipt, owner, base, turns, writtenBy>>,
         NEW where, NEW what \in Wanted, Moved(r, where, what),
         what.payment = receiptCtx[r].payment, what.process = receiptCtx[r].process, what.base = receiptCtx[r].base,
         where \in {"recheck", "used", "write", "release"},
         where = "used" \/ where = "write" => receiptPc[r] \in {"used", "write"} \/ receipt[what.payment] \notin Receipts!Numbers,
         where = "used" \/ where = "write" => what.locked = receiptCtx[r].locked,
         \/ UNCHANGED holder /\ what.locked = receiptCtx[r].locked
         \/ /\ holder[Receipts!Invoice(r)] \in {None, what.process} /\ where \notin {"used", "write"}
            /\ holder' = [holder EXCEPT ![Receipts!Invoice(r)] = what.process]
  PROVE  ReceiptsInv'
<1>0. /\ ReceiptsTyped /\ receiptCtx[r] \in Wanted /\ what.payment \in PaymentRows /\ what.process \in Processes
      /\ \A q \in Requests : Waits(q) /\ IsServed(q) /\ HasLock(q) /\ Looked(q)
  BY DEF ReceiptsInv, Waits, Served, Wanted
<1>1. /\ receiptPc'[r] = where /\ receiptCtx'[r] = what
      /\ DOMAIN receiptPc' = Requests /\ DOMAIN receiptCtx' = Requests
      /\ \A q \in Requests \ {r} : receiptPc'[q] = receiptPc[q] /\ receiptCtx'[q] = receiptCtx[q]
  BY DEF Moved
<1>2. ReceiptsTyped'
  BY <1>0, <1>1 DEF ReceiptsTyped
<1>3. \A q \in Requests : Waits(q)' /\ IsServed(q)'
  BY <1>0, <1>1 DEF Waits, IsServed, Served
<1>4. ASSUME NEW q \in Requests PROVE Looked(q)'
  BY <1>0, <1>1 DEF Looked
<1>5. ASSUME NEW q \in Requests PROVE HasLock(q)'
  <2>. DEFINE i == owner[what.payment]
  <2>1. i \in Invoices /\ Receipts!Invoice(r) = i /\ Receipts!Invoice(r)' = i
    BY <1>0, <1>1 DEF ReceiptsTyped, Receipts!Invoice
  <2>2. CASE q = r
    <3>1. receiptCtx[r].locked => holder[i] = receiptCtx[r].process
      BY <1>0, <2>1 DEF HasLock
    <3>2. what.locked => holder'[i] = what.process
      BY <1>0, <2>1, <3>1 DEF ReceiptsTyped
    <3>. QED BY <1>1, <2>1, <2>2, <3>2 DEF HasLock
  <2>3. CASE q # r /\ Served(q) /\ receiptCtx[q].locked
    <3>1. holder[Receipts!Invoice(q)] = receiptCtx[q].process /\ receiptCtx[q].process # receiptCtx[r].process
          /\ receiptCtx[q].process \in Processes /\ Receipts!Invoice(q) \in Invoices
      BY <1>0, <2>3, OneIsServed DEF HasLock, Waits, Served, Wanted, ReceiptsTyped, Receipts!Invoice
    <3>2. Receipts!Invoice(q)' = Receipts!Invoice(q)
      BY <1>1, <2>3 DEF Receipts!Invoice
    <3>3. holder'[Receipts!Invoice(q)] = holder[Receipts!Invoice(q)]
      BY <1>0, <2>1, <3>1, ReceiptsAssumption DEF ReceiptsTyped
    <3>. QED BY <1>1, <2>3, <3>1, <3>2, <3>3 DEF HasLock
  <2>4. CASE q # r /\ ~(Served(q) /\ receiptCtx[q].locked)
    BY <1>1, <2>4 DEF HasLock, Served
  <2>. QED BY <2>2, <2>3, <2>4
<1>. QED BY <1>2, <1>3, <1>4, <1>5 DEF ReceiptsInv

LEMMA ServedMoves ==
  ASSUME ReceiptsInv, NEW r \in Requests, Served(r), UNCHANGED <<receipt, owner, base, turns, writtenBy>>,
         NEW where, NEW what \in Wanted, Receipts!Keep(r, where, what),
         what.payment = receiptCtx[r].payment, what.process = receiptCtx[r].process, what.base = receiptCtx[r].base,
         where \in {"recheck", "used", "write", "release"},
         where = "used" \/ where = "write" => receiptPc[r] \in {"used", "write"} \/ receipt[what.payment] \notin Receipts!Numbers,
         where = "used" \/ where = "write" => what.locked = receiptCtx[r].locked,
         \/ UNCHANGED holder /\ what.locked = receiptCtx[r].locked
         \/ /\ holder[Receipts!Invoice(r)] \in {None, what.process} /\ where \notin {"used", "write"}
            /\ holder' = [holder EXCEPT ![Receipts!Invoice(r)] = what.process]
  PROVE  ReceiptsInv'
<1>1. Moved(r, where, what)
  BY ReceiptGoto DEF Moved
<1>. QED BY <1>1, ServedGoesOn

\* The request whose turn it is goes; it may give back the lock that it has.
LEMMA ReceiptLeaves ==
  ASSUME ReceiptsInv, NEW r \in Requests, receiptPc[r] # "idle", turns[receiptCtx[r].process][1] = r,
         Receipts!Leave(r), UNCHANGED <<receipt, owner, base, writtenBy>>,
         \/ UNCHANGED holder
         \/ /\ Served(r) /\ receiptCtx[r].locked
            /\ holder' = [holder EXCEPT ![Receipts!Invoice(r)] = None]
  PROVE  ReceiptsInv'
<1>0. /\ ReceiptsTyped /\ receiptCtx[r] \in Wanted
      /\ \A q \in Requests : Waits(q) /\ IsServed(q) /\ HasLock(q) /\ Looked(q)
  BY DEF ReceiptsInv, Waits
<1>. DEFINE x == receiptCtx[r].process
<1>1. /\ x \in Processes /\ turns[x] \in Seq(Requests) /\ turns[x] # << >>
      /\ turns' = [turns EXCEPT ![x] = Tail(turns[x])]
  BY <1>0 DEF Receipts!Leave, Waits, Wanted, ReceiptsTyped
<1>2. /\ receiptPc'[r] = "idle" /\ DOMAIN receiptPc' = Requests /\ DOMAIN receiptCtx' = Requests
      /\ \A q \in Requests \ {r} : receiptPc'[q] = receiptPc[q] /\ receiptCtx'[q] = receiptCtx[q]
  BY ReceiptGoto DEF Receipts!Leave
<1>3. /\ Tail(turns[x]) \in Seq(Requests)
      /\ \A q \in Requests \ {r} :
           (\E i \in DOMAIN turns[x] : turns[x][i] = q) => \E i \in DOMAIN Tail(turns[x]) : Tail(turns[x])[i] = q
  <2>1. PICK s : s = turns[x]
    OBVIOUS
  <2>2. s \in Seq(Requests) /\ s # << >> /\ s[1] = r
    BY <1>1, <2>1
  <2>. QED BY <2>1, <2>2, TailKeepsOthers
<1>4. ReceiptsTyped'
  BY <1>0, <1>1, <1>2, <1>3 DEF ReceiptsTyped
<1>5. \A q \in Requests \ {r} : Served(q) => receiptCtx[q].process # x
  BY <1>0 DEF IsServed
<1>6. ASSUME NEW q \in Requests \ {r} PROVE Waits(q)' /\ IsServed(q)' /\ Looked(q)'
  <2>1. receiptPc[q] # "idle" => receiptCtx[q].process \in Processes
    BY <1>0 DEF Waits, Wanted
  <2>2. Waits(q)'
    <3>1. CASE receiptCtx[q].process = x
      BY <1>0, <1>1, <1>2, <1>3, <3>1 DEF Waits, ReceiptsTyped
    <3>2. CASE receiptCtx[q].process # x
      BY <1>0, <1>1, <1>2, <2>1, <3>2 DEF Waits, ReceiptsTyped
    <3>. QED BY <3>1, <3>2
  <2>3. IsServed(q)'
    BY <1>0, <1>1, <1>2, <1>5, <2>1 DEF IsServed, Served, ReceiptsTyped
  <2>4. Looked(q)'
    BY <1>0, <1>2 DEF Looked
  <2>. QED BY <2>2, <2>3, <2>4
<1>7. ASSUME NEW q \in Requests \ {r} PROVE HasLock(q)'
  <2>1. CASE Served(q) /\ receiptCtx[q].locked
    <3>1. /\ holder[Receipts!Invoice(q)] = receiptCtx[q].process
          /\ Receipts!Invoice(q) \in Invoices /\ Receipts!Invoice(q)' = Receipts!Invoice(q)
      BY <1>0, <1>2, <2>1 DEF HasLock, Waits, Served, Wanted, ReceiptsTyped, Receipts!Invoice
    <3>2. Served(r) /\ receiptCtx[r].locked => Receipts!Invoice(q) # Receipts!Invoice(r)
      BY <1>0, <1>5, <2>1, <3>1 DEF HasLock
    <3>3. holder'[Receipts!Invoice(q)] = holder[Receipts!Invoice(q)]
      BY <1>0, <3>1, <3>2 DEF ReceiptsTyped
    <3>. QED BY <1>2, <2>1, <3>1, <3>3 DEF HasLock
  <2>2. CASE ~(Served(q) /\ receiptCtx[q].locked)
    BY <1>2, <2>2 DEF HasLock, Served
  <2>. QED BY <2>1, <2>2
<1>8. Waits(r)' /\ IsServed(r)' /\ HasLock(r)' /\ Looked(r)'
  BY <1>2 DEF Waits, IsServed, Served, HasLock, Looked
<1>. QED BY <1>4, <1>6, <1>7, <1>8 DEF ReceiptsInv

\* Only the request that writes changes numbers; it is served alone in its
\* process, and the invoice's lock is held by one process.
LEMMA ReceiptWrites ==
  ASSUME ReceiptsInv, NEW r \in Requests, Receipts!Write(r)
  PROVE  ReceiptsInv'
<1>. DEFINE p == receiptCtx[r].payment
            done == [receiptCtx[r] EXCEPT !.number = None]
<1>0. /\ ReceiptsTyped /\ receiptCtx[r] \in Wanted /\ p \in PaymentRows /\ Served(r) /\ receiptPc[r] = "write"
      /\ \A q \in Requests : Waits(q) /\ IsServed(q) /\ HasLock(q) /\ Looked(q)
  BY DEF ReceiptsInv, Waits, Served, Wanted, Receipts!Write
<1>1. /\ done \in Wanted /\ done.payment = p /\ done.process = receiptCtx[r].process /\ done.base = receiptCtx[r].base
      /\ done.locked = receiptCtx[r].locked
  BY <1>0 DEF Wanted
<1>2. CASE UNCHANGED <<receipt, writtenBy>>
  <2>1. \/ Receipts!Keep(r, "release", done)
        \/ Receipts!Keep(r, "used", [done EXCEPT !.attempt = @ + 1])
    BY DEF Receipts!Write
  <2>2. UNCHANGED <<receipt, owner, base, turns, writtenBy, holder>>
    BY <1>2 DEF Receipts!Write
  <2>3. CASE Receipts!Keep(r, "release", done)
    BY <1>0, <1>1, <2>2, <2>3, ServedMoves
  <2>4. CASE Receipts!Keep(r, "used", [done EXCEPT !.attempt = @ + 1])
    <3>1. PICK before : before = done
      OBVIOUS
    <3>2. PICK what : what = [before EXCEPT !.attempt = @ + 1]
      OBVIOUS
    <3>3. /\ what \in Wanted /\ what.payment = before.payment /\ what.process = before.process
          /\ what.base = before.base /\ what.locked = before.locked
      <4>1. before \in Wanted
        BY <1>1, <3>1
      <4>. QED BY <3>2, <4>1 DEF Wanted
    <3>. QED BY <1>0, <1>1, <2>2, <2>4, <3>1, <3>2, <3>3, ServedMoves
  <2>. QED BY <2>1, <2>3, <2>4
<1>3. CASE ~UNCHANGED <<receipt, writtenBy>>
  <2>1. /\ receipt' = [receipt EXCEPT ![p] = receiptCtx[r].number]
        /\ writtenBy' = [writtenBy EXCEPT ![p] = [process |-> receiptCtx[r].process, locked |-> receiptCtx[r].locked]]
        /\ Receipts!Keep(r, "release", done) /\ UNCHANGED <<owner, base, turns, holder>>
    BY <1>3 DEF Receipts!Write
  <2>2. /\ receiptPc'[r] = "release" /\ receiptCtx'[r] = done
        /\ DOMAIN receiptPc' = Requests /\ DOMAIN receiptCtx' = Requests
        /\ \A q \in Requests \ {r} : receiptPc'[q] = receiptPc[q] /\ receiptCtx'[q] = receiptCtx[q]
    BY <2>1, ReceiptGoto
  <2>3. ReceiptsTyped'
    BY <1>0, <2>1, <2>2 DEF ReceiptsTyped
  <2>4. Waits(r)' /\ IsServed(r)' /\ HasLock(r)'
    <3>1. PICK ctx : ctx = done
      OBVIOUS
    <3>2. /\ receiptCtx'[r] = ctx /\ ctx \in Wanted /\ ctx.payment = p /\ ctx.process = receiptCtx[r].process
          /\ ctx.base = receiptCtx[r].base /\ ctx.locked = receiptCtx[r].locked
      BY <1>1, <2>2, <3>1
    <3>. QED BY <1>0, <2>1, <2>2, <3>2 DEF Waits, IsServed, Served, HasLock, Receipts!Invoice
  <2>5. \A q \in Requests \ {r} : Waits(q)' /\ IsServed(q)' /\ HasLock(q)'
    BY <1>0, <2>1, <2>2 DEF Waits, IsServed, HasLock, Served, Receipts!Invoice
  <2>6. ASSUME NEW q \in Requests, receiptPc'[q] \in {"used", "write"}, receiptCtx'[q].payment = p
        PROVE  Looked(q)'
    <3>1. q # r /\ Served(q) /\ receiptCtx[q].process # receiptCtx[r].process
      BY <1>0, <2>2, <2>6, OneIsServed DEF Served
    <3>2. ~(receiptCtx[q].locked /\ receiptCtx[r].locked)
      BY <1>0, <2>2, <2>6, <3>1 DEF HasLock, Receipts!Invoice
    <3>3. writtenBy'[p] = [process |-> receiptCtx[r].process, locked |-> receiptCtx[r].locked]
      BY <1>0, <2>1 DEF ReceiptsTyped
    <3>. QED BY <2>2, <2>6, <3>1, <3>2, <3>3 DEF Looked
  <2>7. ASSUME NEW q \in Requests, receiptPc'[q] \in {"used", "write"}, receiptCtx'[q].payment # p
        PROVE  Looked(q)'
    <3>1. q # r /\ receiptPc'[q] = receiptPc[q] /\ receiptCtx'[q] = receiptCtx[q] /\ receiptCtx[q].payment \in PaymentRows
      BY <1>0, <2>2, <2>7 DEF Waits, Wanted
    <3>2. /\ receipt'[receiptCtx[q].payment] = receipt[receiptCtx[q].payment]
          /\ writtenBy'[receiptCtx[q].payment] = writtenBy[receiptCtx[q].payment]
      BY <1>0, <2>1, <2>7, <3>1 DEF ReceiptsTyped
    <3>. QED BY <1>0, <3>1, <3>2 DEF Looked
  <2>8. \A q \in Requests : Looked(q)'
    BY <2>6, <2>7 DEF Looked
  <2>. QED BY <2>3, <2>4, <2>5, <2>8 DEF ReceiptsInv
<1>. QED BY <1>2, <1>3

LEMMA ReceiptsSteps == ReceiptsInv /\ [Receipts!Next]_(Receipts!vars) => ReceiptsInv'
<1>. SUFFICES ASSUME ReceiptsInv, [Receipts!Next]_(Receipts!vars) PROVE ReceiptsInv'
  OBVIOUS
<1>0. ReceiptsTyped /\ \A q \in Requests : Waits(q) /\ IsServed(q) /\ HasLock(q) /\ Looked(q)
  BY DEF ReceiptsInv
<1>1. CASE UNCHANGED Receipts!vars
  BY <1>1 DEF Receipts!vars, ReceiptsInv, ReceiptsTyped, Waits, IsServed, Served, HasLock, Looked, Receipts!Invoice
<1>2. ASSUME NEW r \in Requests, NEW x \in Processes, NEW p \in PaymentRows, Receipts!Ask(r, x, p) PROVE ReceiptsInv'
  <2>. DEFINE what == [payment |-> p, process |-> x, base |-> None, number |-> None, locked |-> FALSE, attempt |-> 1]
  <2>1. /\ receiptPc'[r] = "find" /\ receiptCtx'[r] = what
        /\ DOMAIN receiptPc' = Requests /\ DOMAIN receiptCtx' = Requests
        /\ \A q \in Requests \ {r} : receiptPc'[q] = receiptPc[q] /\ receiptCtx'[q] = receiptCtx[q]
    BY <1>2, ReceiptGoto DEF Receipts!Ask
  <2>2. what \in Wanted /\ what.process = x /\ ~what.locked
    BY DEF Wanted
  <2>3. /\ turns[x] \in Seq(Requests) /\ turns' = [turns EXCEPT ![x] = Append(turns[x], r)]
        /\ UNCHANGED <<receipt, owner, base, holder, writtenBy>>
    BY <1>0, <1>2 DEF Receipts!Ask, ReceiptsTyped
  <2>4. /\ Append(turns[x], r) \in Seq(Requests)
        /\ \A i \in DOMAIN turns[x] : i \in DOMAIN Append(turns[x], r) /\ Append(turns[x], r)[i] = turns[x][i]
        /\ \E i \in DOMAIN Append(turns[x], r) : Append(turns[x], r)[i] = r
        /\ DOMAIN turns[x] # {} => 1 \in DOMAIN turns[x]
    <3>1. PICK s : s = turns[x]
      OBVIOUS
    <3>2. Append(s, r)[Len(s) + 1] = r /\ Len(s) + 1 \in DOMAIN Append(s, r)
      BY <2>3, <3>1
    <3>. QED BY <2>3, <3>1, <3>2
  <2>5. ReceiptsTyped'
    BY <1>0, <2>1, <2>3, <2>4 DEF ReceiptsTyped
  <2>6. Waits(r)' /\ IsServed(r)' /\ HasLock(r)' /\ Looked(r)'
    <3>1. turns'[x] = Append(turns[x], r)
      BY <1>0, <2>3 DEF ReceiptsTyped
    <3>. QED BY <2>1, <2>2, <2>4, <3>1 DEF Waits, IsServed, Served, HasLock, Looked
  <2>7. ASSUME NEW q \in Requests \ {r} PROVE Waits(q)' /\ IsServed(q)' /\ HasLock(q)' /\ Looked(q)'
    <3>1. receiptPc[q] # "idle" => receiptCtx[q].process \in Processes
      BY <1>0 DEF Waits, Wanted
    <3>2. receiptPc[q] # "idle" =>
            /\ \A i \in DOMAIN turns[receiptCtx[q].process] :
                 /\ i \in DOMAIN turns'[receiptCtx[q].process]
                 /\ turns'[receiptCtx[q].process][i] = turns[receiptCtx[q].process][i]
            /\ DOMAIN turns[receiptCtx[q].process] # {} => 1 \in DOMAIN turns[receiptCtx[q].process]
      <4>1. CASE receiptCtx[q].process = x
        BY <1>0, <2>3, <2>4, <4>1 DEF ReceiptsTyped
      <4>2. CASE receiptCtx[q].process # x
        BY <1>0, <2>3, <3>1, <4>2 DEF ReceiptsTyped
      <4>. QED BY <4>1, <4>2
    <3>3. Waits(q)'
      BY <1>0, <2>1, <3>2 DEF Waits
    <3>4. IsServed(q)'
      BY <1>0, <2>1, <3>2 DEF IsServed, Served, Waits
    <3>5. HasLock(q)' /\ Looked(q)'
      BY <1>0, <2>1, <2>3 DEF HasLock, Served, Looked, Receipts!Invoice
    <3>. QED BY <3>3, <3>4, <3>5
  <2>. QED BY <2>5, <2>6, <2>7 DEF ReceiptsInv
<1>3. ASSUME NEW r \in Requests, Receipts!Find(r) PROVE ReceiptsInv'
  <2>1. /\ receiptPc[r] = "find" /\ receiptCtx[r] \in Wanted /\ ~receiptCtx[r].locked
        /\ UNCHANGED <<receipt, owner, base, holder, writtenBy>>
    BY <1>0, <1>3 DEF Receipts!Find, Waits
  <2>2. turns[receiptCtx[r].process][1] = r
    BY <1>0, <1>3, <2>1 DEF Receipts!Find, Receipts!Turn, ReceiptsTyped, Wanted
  <2>3. CASE Receipts!Leave(r)
    BY <2>1, <2>2, <2>3, ReceiptLeaves
  <2>4. CASE ~Receipts!Leave(r)
    <3>1. PICK what : what = [receiptCtx[r] EXCEPT !.base = base[Receipts!Invoice(r)]]
      OBVIOUS
    <3>2. Receipts!Keep(r, "getLock", what) /\ UNCHANGED turns
      BY <1>3, <2>4, <3>1 DEF Receipts!Find
    <3>3. /\ receiptPc'[r] = "getLock" /\ receiptCtx'[r] = what
          /\ DOMAIN receiptPc' = Requests /\ DOMAIN receiptCtx' = Requests
          /\ \A q \in Requests \ {r} : receiptPc'[q] = receiptPc[q] /\ receiptCtx'[q] = receiptCtx[q]
      BY <3>2, ReceiptGoto
    <3>4. base[Receipts!Invoice(r)] \in Bases
      BY <1>0, <2>1 DEF ReceiptsTyped, Wanted, Receipts!Invoice
    <3>5. /\ what \in Wanted /\ ~what.locked /\ what.process = receiptCtx[r].process
          /\ what.base \in Bases
      BY <2>1, <3>1, <3>4 DEF Wanted
    <3>6. ReceiptsTyped'
      BY <1>0, <2>1, <3>2, <3>3 DEF ReceiptsTyped
    <3>7. \A q \in Requests : Waits(q)' /\ IsServed(q)'
      BY <1>0, <2>1, <2>2, <3>2, <3>3, <3>5 DEF Waits, IsServed, Served
    <3>8. \A q \in Requests : HasLock(q)' /\ Looked(q)'
      BY <1>0, <2>1, <3>3, <3>5 DEF HasLock, Looked, Served, Receipts!Invoice
    <3>. QED BY <3>6, <3>7, <3>8 DEF ReceiptsInv
  <2>. QED BY <2>3, <2>4
<1>4. ASSUME NEW r \in Requests, Receipts!GetLock(r) PROVE ReceiptsInv'
  <2>1. PICK what : what = [receiptCtx[r] EXCEPT !.locked = TRUE]
    OBVIOUS
  <2>2. receiptCtx[r] \in Wanted /\ Served(r) /\ receiptPc[r] = "getLock"
    BY <1>0, <1>4 DEF Receipts!GetLock, Waits, Served
  <2>3. /\ what \in Wanted /\ what.payment = receiptCtx[r].payment
        /\ what.process = receiptCtx[r].process /\ what.base = receiptCtx[r].base
    BY <2>1, <2>2 DEF Wanted
  <2>4. /\ Receipts!Keep(r, "recheck", what) /\ UNCHANGED <<receipt, owner, base, turns, writtenBy>>
        /\ holder[Receipts!Invoice(r)] \in {None, what.process}
        /\ holder' = [holder EXCEPT ![Receipts!Invoice(r)] = what.process]
    BY <1>4, <2>1, <2>3 DEF Receipts!GetLock
  <2>. QED BY <2>2, <2>3, <2>4, ServedMoves
<1>5. ASSUME NEW r \in Requests, Receipts!GoOnWithout(r) \/ Receipts!Recheck(r) PROVE ReceiptsInv'
  <2>1. receiptCtx[r] \in Wanted /\ Served(r) /\ UNCHANGED <<receipt, owner, base, turns, holder, writtenBy>>
    BY <1>0, <1>5 DEF Receipts!GoOnWithout, Receipts!Recheck, Waits, Served
  <2>2. \E where \in {"recheck", "used", "release"} :
          /\ Receipts!Goto(r, where)
          /\ where = "used" => receipt[receiptCtx[r].payment] \notin Receipts!Numbers
    BY <1>5 DEF Receipts!GoOnWithout, Receipts!Recheck
  <2>3. \E where \in {"recheck", "used", "release"} :
          /\ Moved(r, where, receiptCtx[r])
          /\ where = "used" => receipt[receiptCtx[r].payment] \notin Receipts!Numbers
    BY <1>0, <2>2 DEF Receipts!Goto, Moved, ReceiptsTyped
  <2>. QED BY <2>1, <2>3, ServedGoesOn
<1>6. ASSUME NEW r \in Requests, Receipts!Used(r) PROVE ReceiptsInv'
  <2>1. receiptCtx[r] \in Wanted /\ Served(r) /\ receiptCtx[r].base \in Bases /\ receiptPc[r] = "used"
        /\ UNCHANGED <<receipt, owner, base, turns, holder, writtenBy>>
    BY <1>0, <1>6 DEF Receipts!Used, Waits, IsServed, Served
  <2>2. PICK n \in Receipts!Suffixes : Receipts!Keep(r, "write", [receiptCtx[r] EXCEPT !.number = <<receiptCtx[r].base, n>>])
    BY <1>6 DEF Receipts!Used, Receipts!Free
  <2>3. PICK what : what = [receiptCtx[r] EXCEPT !.number = <<receiptCtx[r].base, n>>]
    OBVIOUS
  <2>4. <<receiptCtx[r].base, n>> \in Receipts!Numbers
    BY <2>1 DEF Receipts!Numbers
  <2>5. /\ what \in Wanted /\ what.payment = receiptCtx[r].payment /\ what.locked = receiptCtx[r].locked
        /\ what.process = receiptCtx[r].process /\ what.base = receiptCtx[r].base
    BY <2>1, <2>3, <2>4 DEF Wanted
  <2>. QED BY <2>1, <2>2, <2>3, <2>5, ServedMoves
<1>7. ASSUME NEW r \in Requests, Receipts!Write(r) PROVE ReceiptsInv'
  BY <1>7, ReceiptWrites
<1>8. ASSUME NEW r \in Requests, Receipts!Release(r) \/ Receipts!LockStays(r) PROVE ReceiptsInv'
  <2>1. /\ Served(r) /\ receiptPc[r] # "idle" /\ Receipts!Leave(r) /\ UNCHANGED <<receipt, owner, base, writtenBy>>
        /\ \/ UNCHANGED holder
           \/ receiptCtx[r].locked /\ holder' = [holder EXCEPT ![Receipts!Invoice(r)] = None]
    BY <1>8 DEF Receipts!Release, Receipts!LockStays, Served
  <2>. QED BY <1>0, <2>1, ReceiptLeaves DEF IsServed
<1>9. ASSUME NEW r \in Requests, Receipts!Fail(r) PROVE ReceiptsInv'
  <2>1. UNCHANGED <<receipt, owner, base, holder, writtenBy>>
    BY <1>9 DEF Receipts!Fail
  <2>2. CASE receiptPc[r] = "find"
    <3>1. receiptCtx[r] \in Wanted /\ Receipts!Turn(r) /\ Receipts!Leave(r)
      BY <1>0, <1>9, <2>2 DEF Receipts!Fail, Waits
    <3>2. turns[receiptCtx[r].process][1] = r
      BY <1>0, <3>1, <2>2 DEF Receipts!Turn, ReceiptsTyped, Wanted
    <3>. QED BY <2>1, <2>2, <3>1, <3>2, ReceiptLeaves
  <2>3. CASE receiptPc[r] # "find"
    <3>1. PICK what : what = [receiptCtx[r] EXCEPT !.number = None]
      OBVIOUS
    <3>2. Served(r) /\ receiptCtx[r] \in Wanted /\ Receipts!Keep(r, "release", what) /\ UNCHANGED turns
      BY <1>0, <1>9, <2>3, <3>1 DEF Receipts!Fail, Waits, Served
    <3>3. /\ what \in Wanted /\ what.payment = receiptCtx[r].payment /\ what.locked = receiptCtx[r].locked
          /\ what.process = receiptCtx[r].process /\ what.base = receiptCtx[r].base
      BY <3>1, <3>2 DEF Wanted
    <3>. QED BY <2>1, <3>2, <3>3, ServedMoves
  <2>. QED BY <2>2, <2>3
<1>10. ASSUME NEW p \in PaymentRows, Receipts!DeletePayment(p) PROVE ReceiptsInv'
  <2>1. Deleted \notin Receipts!Numbers
    BY ReceiptsAssumption DEF Receipts!Numbers, Receipts!Suffixes
  <2>2. /\ receipt' = [receipt EXCEPT ![p] = Deleted] /\ writtenBy' = [writtenBy EXCEPT ![p] = None]
        /\ UNCHANGED <<owner, base, turns, holder, receiptPc, receiptCtx>>
    BY <1>10 DEF Receipts!DeletePayment, Receipts!Elsewhere
  <2>3. ReceiptsTyped' /\ \A q \in Requests : Waits(q)' /\ IsServed(q)' /\ HasLock(q)'
    BY <1>0, <2>2 DEF ReceiptsTyped, Waits, IsServed, Served, HasLock, Receipts!Invoice
  <2>4. ASSUME NEW q \in Requests PROVE Looked(q)'
    <3>1. receiptPc[q] # "idle" => receiptCtx[q].payment \in PaymentRows
      BY <1>0 DEF Waits, Wanted
    <3>. QED BY <1>0, <2>1, <2>2, <3>1 DEF Looked, ReceiptsTyped
  <2>. QED BY <2>3, <2>4 DEF ReceiptsInv
<1>11. ASSUME NEW i \in Invoices, NEW b \in Bases, Receipts!RenameInvoice(i, b) PROVE ReceiptsInv'
  <2>1. base' = [base EXCEPT ![i] = b] /\ UNCHANGED <<receipt, writtenBy, owner, turns, holder, receiptPc, receiptCtx>>
    BY <1>11 DEF Receipts!RenameInvoice, Receipts!Elsewhere
  <2>. QED BY <1>0, <2>1 DEF ReceiptsInv, ReceiptsTyped, Waits, IsServed, Served, HasLock, Looked, Receipts!Invoice
<1>. QED BY <1>1, <1>2, <1>3, <1>4, <1>5, <1>6, <1>7, <1>8, <1>9, <1>10, <1>11 DEF Receipts!Next

(* A printed number is written over only from another process and without the *)
(* lock on one side: for any number of payments, processes and requests.      *)
THEOREM PrintedNumbersAreKept == OfficeSpec => PrintedNumbersStay
<1>. DEFINE Kept == \A p \in PaymentRows : receipt[p] \in Receipts!Numbers =>
              \/ receipt'[p] \in {receipt[p], Deleted}
              \/ \E r \in Requests : receiptCtx[r] # Receipts!Idle /\ receiptCtx[r].payment = p /\ Receipts!Overtaken(r)
<1>1. ReceiptsInv /\ [Receipts!Next]_(Receipts!vars) => [Kept]_(Receipts!vars)
  <2>. SUFFICES ASSUME ReceiptsInv, Receipts!Next, NEW p \in PaymentRows, receipt[p] \in Receipts!Numbers,
                       receipt'[p] \notin {receipt[p], Deleted}
                PROVE  \E r \in Requests : /\ receiptCtx[r] # Receipts!Idle /\ receiptCtx[r].payment = p
                                           /\ Receipts!Overtaken(r)
    OBVIOUS
  <2>0. ReceiptsTyped /\ \A q \in Requests : Waits(q) /\ Looked(q)
    BY DEF ReceiptsInv
  <2>1. PICK r \in Requests : Receipts!Write(r)
    BY <2>0 DEF Receipts!Next, Receipts!Ask, Receipts!Find, Receipts!GetLock, Receipts!GoOnWithout, Receipts!Recheck,
       Receipts!Used, Receipts!Release, Receipts!LockStays, Receipts!Fail, Receipts!DeletePayment,
       Receipts!RenameInvoice, ReceiptsTyped
  <2>2. receiptPc[r] = "write" /\ receiptCtx[r] \in Wanted
    BY <2>0, <2>1 DEF Receipts!Write, Waits
  <2>3. receiptCtx[r].payment = p
    BY <2>0, <2>1, <2>2 DEF Receipts!Write, ReceiptsTyped, Wanted
  <2>4. receiptCtx[r] # Receipts!Idle
    BY <2>2 DEF Wanted, Receipts!Idle
  <2>. QED BY <2>0, <2>2, <2>3, <2>4 DEF Looked, Receipts!Overtaken
<1>. QED BY <1>1, OfficeRunsReceipts, ReceiptsStart, ReceiptsSteps, PTL
     DEF Receipts!Spec, PrintedNumbersStay, Receipts!PrintedNumbersStay
----------------------------------------------------------------------------
(* The project. A request during which nothing else happened is the only one  *)
(* that runs; at every stage of it, what it has done so far still holds.      *)
LEMMA OfficeRunsWork == OfficeSpec => Work!Spec
<1>1. OfficeInit => Work!Init
  BY DEF OfficeInit
<1>2. [OfficeNext]_officeVars => [Work!Next]_(Work!vars)
  BY DEF OfficeNext, officeVars, Work!vars, projectWork
<1>. QED BY <1>1, <1>2, PTL DEF OfficeSpec, Work!Spec

\* What the figures are worked out from, as functions of the rows.
TaskFigures(rows, m) ==
  LET S == {t \in Tasks : rows[t].is = "active" /\ rows[t].milestone = m}
  IN  Work!Figures(Work!Average([t \in S |-> Work!Worth(rows[t].status)]), \E t \in S : rows[t].status = "blocked")
AllFigures(rows) ==
  LET S == {m \in Milestones : rows[m].exists}
  IN  Work!Figures(Work!Average([m \in S |-> rows[m].progress]), \E m \in S : rows[m].status = "blocked")

LEMMA FiguresStay ==
  /\ UNCHANGED tasks => \A m : Work!MilestoneFigures(m)' = Work!MilestoneFigures(m)
  /\ UNCHANGED milestones => Work!ProjectFigures' = Work!ProjectFigures
<1>1. /\ \A m : Work!MilestoneFigures(m) = TaskFigures(tasks, m) /\ Work!MilestoneFigures(m)' = TaskFigures(tasks', m)
      /\ Work!ProjectFigures = AllFigures(milestones) /\ Work!ProjectFigures' = AllFigures(milestones')
  BY DEF Work!MilestoneFigures, Work!OfMilestone, Work!Active, TaskFigures, Work!ProjectFigures, Work!Live, AllFigures
<1>. QED BY <1>1

TaskRows == [is : {"absent", "active", "deleted"}, status : TaskStatuses \cup {"todo"},
             milestone : Milestones \cup {NoMilestone}]
ProjectTyped ==
  /\ {"deleted", "status", "progress"} \subseteq DOMAIN project
  /\ DOMAIN milestones = Milestones
  /\ tasks \in [Tasks -> TaskRows]
  /\ assigned \in [Tasks -> [People -> {"never", "active", "deleted"}]]
  /\ DOMAIN workPc = Requests /\ DOMAIN workCtx = Requests
\* The request that is about a task.
ForTask(c) ==
  /\ c.op = "task" /\ DOMAIN c = {"op", "task", "milestone", "wanted", "todo", "figures"}
  /\ c.task \in Tasks /\ (Work!Active(c.task) => c.milestone = tasks[c.task].milestone)
SoFar(r) ==
  LET c == workCtx[r] at == workPc[r] IN
  /\ at \in {"readAssignments", "assign", "readMilestone", "storeMilestone"} => ForTask(c)
  /\ at \in {"readAssignments", "assign"} =>
       \E ids \in SUBSET People : c.wanted = {ids} /\ (at = "assign" => c.todo = Work!Todo(c.task, ids))
  /\ at \in {"readMilestone", "storeMilestone"} => \A ids \in c.wanted : Work!Assignees(c.task) = ids
  /\ at = "storeMilestone" => c.figures = Work!MilestoneFigures(c.milestone)
  /\ at \in {"readProject", "storeProject"} => "figures" \in DOMAIN c /\ (c.op = "task" => Work!TookEffect(c))
  /\ at = "storeProject" => c.figures = Work!ProjectFigures
ProjectInv ==
  /\ ProjectTyped
  /\ \A r \in Work!Busy \ disturbed : Work!Busy = {r} /\ SoFar(r)

LEMMA ProjectStarts == Work!Init => ProjectInv
BY DEF Work!Init, ProjectInv, ProjectTyped, TaskRows, Work!Busy

LEMMA WorkMoves ==
  ASSUME ProjectTyped, NEW r \in Requests, NEW where, NEW what, Work!Goto(r, where, what)
  PROVE  /\ workPc'[r] = where /\ workCtx'[r] = what
         /\ DOMAIN workPc' = Requests /\ DOMAIN workCtx' = Requests
         /\ \A q \in Requests \ {r} : workPc'[q] = workPc[q] /\ workCtx'[q] = workCtx[q]
         /\ Work!Busy' = IF where = "idle" THEN Work!Busy \ {r} ELSE Work!Busy \cup {r}
BY DEF ProjectTyped, Work!Goto, Work!Busy

LEMMA WorkBegins ==
  ASSUME ProjectInv, NEW r \in Requests, NEW where, NEW what, Work!Goto(r, where, what), where # "idle",
         Work!Meanwhile(r), ProjectTyped', SoFar(r)'
  PROVE  ProjectInv'
<1>1. Work!Busy' = Work!Busy \cup {r} /\ disturbed' = IF Work!Busy = {} THEN {} ELSE Work!Busy \cup {r}
  BY WorkMoves DEF ProjectInv, Work!Meanwhile
<1>. QED BY <1>1 DEF ProjectInv

LEMMA WorkGoesOn ==
  ASSUME ProjectInv, NEW r \in Work!Busy, NEW where, NEW what, Work!Goto(r, where, what),
         UNCHANGED disturbed, ProjectTyped', where # "idle" /\ r \notin disturbed => SoFar(r)'
  PROVE  ProjectInv'
<1>1. r \in Requests /\ Work!Busy' = IF where = "idle" THEN Work!Busy \ {r} ELSE Work!Busy \cup {r}
  BY WorkMoves DEF ProjectInv, Work!Busy
<1>2. ASSUME NEW q \in Work!Busy' \ disturbed' PROVE Work!Busy' = {q} /\ SoFar(q)'
  BY <1>1, <1>2 DEF ProjectInv
<1>. QED BY <1>2 DEF ProjectInv

LEMMA WorkRests ==
  ASSUME ProjectInv, NEW r \in Requests, Work!Quick(r), ProjectTyped'
  PROVE  ProjectInv'
<1>1. Work!Busy' = Work!Busy /\ disturbed' = IF Work!Busy = {} THEN {} ELSE Work!Busy \cup {r}
  BY DEF Work!Quick, Work!Meanwhile, Work!Busy
<1>. QED BY <1>1 DEF ProjectInv

\* The assignments are those that were asked for when nothing is left to do,
\* and each thing that is done leaves the rest to do.
LEMMA TodoShrinks ==
  ASSUME ProjectTyped, NEW t \in Tasks, NEW ids \in SUBSET People
  PROVE  /\ Work!Todo(t, ids) = {} => Work!Assignees(t) = ids
         /\ \A do \in Work!Todo(t, ids) :
              /\ do[2] = "insert" => assigned[t][do[1]] = "never"
              /\ assigned' = [assigned EXCEPT ![t][do[1]] = IF do[2] = "end" THEN "deleted" ELSE "active"]
                   => Work!Todo(t, ids)' = Work!Todo(t, ids) \ {do}
<1>1. assigned[t] \in [People -> {"never", "active", "deleted"}]
  BY DEF ProjectTyped
<1>2. Work!Todo(t, ids) = {} => Work!Assignees(t) = ids
  <2>. SUFFICES ASSUME Work!Todo(t, ids) = {} PROVE Work!Assignees(t) = ids
    OBVIOUS
  <2>1. ASSUME NEW p \in ids PROVE assigned[t][p] = "active"
    <3>1. <<p, "restore">> \notin Work!Todo(t, ids) /\ <<p, "insert">> \notin Work!Todo(t, ids)
      OBVIOUS
    <3>. QED BY <1>1, <3>1 DEF Work!Todo
  <2>2. ASSUME NEW p \in Work!Assignees(t) PROVE p \in ids
    <3>1. <<p, "end">> \notin Work!Todo(t, ids)
      OBVIOUS
    <3>. QED BY <3>1 DEF Work!Todo
  <2>. QED BY <2>1, <2>2 DEF Work!Assignees
<1>3. ASSUME NEW do \in Work!Todo(t, ids)
      PROVE  /\ do[2] = "insert" => assigned[t][do[1]] = "never"
             /\ assigned' = [assigned EXCEPT ![t][do[1]] = IF do[2] = "end" THEN "deleted" ELSE "active"]
                  => Work!Todo(t, ids)' = Work!Todo(t, ids) \ {do}
  <2>1. PICK p \in People : \/ do = <<p, "restore">> /\ p \in ids /\ assigned[t][p] = "deleted"
                            \/ do = <<p, "end">> /\ p \notin ids /\ assigned[t][p] = "active"
                            \/ do = <<p, "insert">> /\ p \in ids /\ assigned[t][p] = "never"
    BY DEF Work!Todo, Work!Assignees
  <2>2. ASSUME assigned' = [assigned EXCEPT ![t][do[1]] = IF do[2] = "end" THEN "deleted" ELSE "active"]
        PROVE  Work!Todo(t, ids)' = Work!Todo(t, ids) \ {do}
    <3>1. /\ assigned'[t][p] = IF do[2] = "end" THEN "deleted" ELSE "active"
          /\ \A q \in People \ {p} : assigned'[t][q] = assigned[t][q]
      BY <1>1, <2>1, <2>2 DEF ProjectTyped
    <3>. QED BY <2>1, <3>1 DEF Work!Todo, Work!Assignees
  <2>. QED BY <2>1, <2>2
<1>. QED BY <1>2, <1>3

\* What a request about a task goes on to when the task's rows are as it wants.
LEMMA RecalculateFollows ==
  ASSUME ProjectTyped, NEW r \in Requests, NEW c, Work!Recalculate(r, c.milestone, c),
         ForTask(c)', \A ids \in c.wanted : Work!Assignees(c.task)' = ids
  PROVE  SoFar(r)'
<1>1. /\ workPc'[r] = IF c.milestone = NoMilestone THEN "readProject" ELSE "readMilestone"
      /\ workCtx'[r] = c
  BY WorkMoves DEF Work!Recalculate
<1>2. c.milestone = NoMilestone => Work!TookEffect(c)'
  BY DEF ForTask, Work!TookEffect
<1>. QED BY <1>1, <1>2 DEF SoFar, ForTask

LEMMA WorkContinues ==
  ASSUME ProjectTyped, NEW r \in Requests, NEW t \in Tasks, NEW m,
         NEW wanted \in {{}} \cup {{ids} : ids \in SUBSET People}, Work!Continue(r, t, m, wanted),
         tasks'[t].is = "active" => m = tasks'[t].milestone
  PROVE  \E where, what : where # "idle" /\ Work!Goto(r, where, what) /\ SoFar(r)'
<1>. DEFINE c == Work!Request(t, m, wanted)
<1>1. /\ c.op = "task" /\ c.task = t /\ c.milestone = m /\ c.wanted = wanted
      /\ DOMAIN c = {"op", "task", "milestone", "wanted", "todo", "figures"}
  BY DEF Work!Request
<1>2. PICK what : what = c
  OBVIOUS
<1>3. ForTask(what)'
  BY <1>1, <1>2 DEF ForTask, Work!Active
<1>4. CASE wanted = {}
  <2>1. Work!Recalculate(r, what.milestone, what)
    BY <1>1, <1>2, <1>4 DEF Work!Continue
  <2>2. SoFar(r)'
    BY <1>1, <1>2, <1>3, <1>4, <2>1, RecalculateFollows
  <2>. QED BY <2>1, <2>2 DEF Work!Recalculate
<1>5. CASE wanted # {}
  <2>1. Work!Goto(r, "readAssignments", what)
    BY <1>2, <1>5 DEF Work!Continue
  <2>2. workPc'[r] = "readAssignments" /\ workCtx'[r] = what
    BY <2>1, WorkMoves
  <2>3. \E ids \in SUBSET People : what.wanted = {ids}
    BY <1>1, <1>2, <1>5
  <2>4. SoFar(r)'
    BY <1>3, <2>2, <2>3 DEF SoFar
  <2>. QED BY <2>1, <2>4
<1>. QED BY <1>4, <1>5

\* The four steps that read and store the figures.
LEMMA FiguresAreRead ==
  ASSUME ProjectInv, NEW r \in Requests, Work!ReadMilestone(r) \/ Work!ReadProject(r)
  PROVE  ProjectInv'
<1>0. ProjectTyped /\ \A q \in Work!Busy \ disturbed : Work!Busy = {q} /\ SoFar(q)
  BY DEF ProjectInv
<1>1. /\ r \in Work!Busy /\ (r \notin disturbed => SoFar(r)) /\ workPc[r] \in {"readMilestone", "readProject"}
      /\ UNCHANGED <<project, milestones, tasks, assigned, members, disturbed>>
  BY <1>0 DEF Work!Busy, Work!ReadMilestone, Work!ReadProject, Work!Rows
<1>2. PICK c : c = workCtx[r]
  OBVIOUS
<1>3. PICK where, what : /\ Work!Goto(r, where, what)
                         /\ \/ where = "idle"
                            \/ workPc[r] = "readMilestone" /\ where = "storeMilestone"
                               /\ what = [c EXCEPT !.figures = Work!MilestoneFigures(c.milestone)]
                            \/ workPc[r] = "readProject" /\ where = "storeProject"
                               /\ what = [c EXCEPT !.figures = Work!ProjectFigures]
  BY <1>2 DEF Work!ReadMilestone, Work!ReadProject, Work!Answer
<1>4. workPc'[r] = where /\ workCtx'[r] = what /\ ProjectTyped'
  BY <1>0, <1>1, <1>3, WorkMoves DEF ProjectTyped
<1>5. CASE where = "idle" \/ r \in disturbed
  BY <1>1, <1>3, <1>4, <1>5, WorkGoesOn
<1>6. CASE where = "storeMilestone" /\ r \notin disturbed
  <2>1. ForTask(c) /\ (\A ids \in c.wanted : Work!Assignees(c.task) = ids) /\ workPc[r] = "readMilestone"
    BY <1>1, <1>2, <1>3, <1>6 DEF SoFar
  <2>2. /\ what.op = c.op /\ what.task = c.task /\ what.milestone = c.milestone /\ what.wanted = c.wanted
        /\ DOMAIN what = DOMAIN c /\ what.figures = Work!MilestoneFigures(c.milestone)
    BY <1>3, <1>6, <2>1 DEF ForTask
  <2>3. Work!MilestoneFigures(c.milestone)' = Work!MilestoneFigures(c.milestone)
    BY <1>1, FiguresStay
  <2>4. ForTask(what)' /\ \A ids \in what.wanted : Work!Assignees(what.task)' = ids
    BY <1>1, <2>1, <2>2 DEF ForTask, Work!Active, Work!Assignees
  <2>5. what.figures = Work!MilestoneFigures(what.milestone)'
    BY <2>2, <2>3
  <2>6. SoFar(r)'
    BY <1>4, <1>6, <2>4, <2>5 DEF SoFar
  <2>. QED BY <1>1, <1>3, <1>4, <2>6, WorkGoesOn
<1>7. CASE where = "storeProject" /\ r \notin disturbed
  <2>1. "figures" \in DOMAIN c /\ (c.op = "task" => Work!TookEffect(c)) /\ workPc[r] = "readProject"
    BY <1>1, <1>2, <1>3, <1>7 DEF SoFar
  <2>2. /\ what.op = c.op /\ what.task = c.task /\ what.wanted = c.wanted
        /\ DOMAIN what = DOMAIN c /\ what.figures = Work!ProjectFigures
    <3>1. what = [c EXCEPT !.figures = Work!ProjectFigures]
      BY <1>3, <1>7
    <3>. QED BY <2>1, <3>1
  <2>3. (\A m : Work!MilestoneFigures(m)' = Work!MilestoneFigures(m)) /\ Work!ProjectFigures' = Work!ProjectFigures
    BY <1>1, FiguresStay
  <2>4. ASSUME Work!TookEffect(c) PROVE Work!TookEffect(what)'
    <3>1. PICK m : m = tasks[c.task].milestone
      OBVIOUS
    <3>2. \A ids \in what.wanted : Work!Assignees(what.task)' = ids
      BY <1>1, <2>2, <2>4 DEF Work!TookEffect, Work!Assignees
    <3>3. /\ Work!Active(what.task)' = Work!Active(c.task) /\ tasks'[what.task].milestone = m
          /\ milestones'[m] = milestones[m] /\ Work!MilestoneFigures(m)' = Work!MilestoneFigures(m)
      BY <1>1, <2>2, <2>3, <3>1 DEF Work!Active
    <3>4. Work!Active(what.task)' /\ m # NoMilestone => Work!Agrees(milestones'[m], Work!MilestoneFigures(m)')
      BY <2>4, <3>1, <3>3 DEF Work!TookEffect
    <3>. QED BY <3>2, <3>3, <3>4 DEF Work!TookEffect, Work!Agrees
  <2>5. SoFar(r)'
    BY <1>4, <1>7, <2>1, <2>2, <2>3, <2>4 DEF SoFar
  <2>. QED BY <1>1, <1>3, <1>4, <2>5, WorkGoesOn
<1>. QED BY <1>3, <1>5, <1>6, <1>7

LEMMA FiguresAreStored ==
  ASSUME ProjectInv, NEW r \in Requests, Work!StoreMilestone(r) \/ Work!StoreProject(r)
  PROVE  ProjectInv'
<1>0. ProjectTyped /\ \A q \in Work!Busy \ disturbed : Work!Busy = {q} /\ SoFar(q)
  BY DEF ProjectInv
<1>1. /\ r \in Work!Busy /\ (r \notin disturbed => SoFar(r)) /\ workPc[r] \in {"storeMilestone", "storeProject"}
      /\ UNCHANGED <<tasks, assigned, members, disturbed>>
  BY <1>0 DEF Work!Busy, Work!StoreMilestone, Work!StoreProject
<1>2. PICK c : c = workCtx[r]
  OBVIOUS
<1>3. PICK where : /\ Work!Goto(r, where, IF where = "idle" THEN Work!Idle ELSE c)
                   /\ \/ where = "idle"
                      \/ /\ workPc[r] = "storeMilestone" /\ where = "readProject"
                         /\ milestones' = [milestones EXCEPT ![c.milestone] = Work!Shows(c.figures)]
  BY <1>2 DEF Work!StoreMilestone, Work!StoreProject, Work!Answer
<1>4. workPc'[r] = where /\ workCtx'[r] = (IF where = "idle" THEN Work!Idle ELSE c)
      /\ DOMAIN workPc' = Requests /\ DOMAIN workCtx' = Requests
  BY <1>0, <1>3, WorkMoves
<1>5. DOMAIN milestones' = Milestones /\ {"deleted", "status", "progress"} \subseteq DOMAIN project'
  BY <1>0 DEF Work!StoreMilestone, Work!StoreProject, ProjectTyped
<1>6. ProjectTyped'
  BY <1>0, <1>1, <1>4, <1>5 DEF ProjectTyped
<1>7. CASE where = "idle" \/ r \in disturbed
  BY <1>1, <1>3, <1>4, <1>6, <1>7, WorkGoesOn
<1>8. CASE where # "idle" /\ r \notin disturbed
  <2>1. /\ ForTask(c) /\ (\A ids \in c.wanted : Work!Assignees(c.task) = ids)
        /\ c.figures = Work!MilestoneFigures(c.milestone) /\ where = "readProject"
        /\ milestones' = [milestones EXCEPT ![c.milestone] = Work!Shows(c.figures)]
    BY <1>1, <1>2, <1>3, <1>8 DEF SoFar
  <2>2. \A m : Work!MilestoneFigures(m)' = Work!MilestoneFigures(m)
    BY <1>1, FiguresStay
  <2>3. c.milestone \in Milestones =>
          /\ milestones'[c.milestone].status = Work!MilestoneFigures(c.milestone)'.status
          /\ milestones'[c.milestone].progress = Work!MilestoneFigures(c.milestone)'.progress
    BY <1>0, <2>1, <2>2 DEF ProjectTyped, Work!Shows
  <2>4. Work!Active(c.task)' => c.milestone = tasks'[c.task].milestone
                                /\ (c.milestone # NoMilestone => c.milestone \in Milestones)
    BY <1>0, <1>1, <2>1 DEF ProjectTyped, TaskRows, ForTask, Work!Active
  <2>5. \A ids \in c.wanted : Work!Assignees(c.task)' = ids
    BY <1>1, <2>1 DEF Work!Assignees
  <2>6. Work!TookEffect(c)'
    BY <2>3, <2>4, <2>5 DEF Work!TookEffect, Work!Agrees
  <2>7. SoFar(r)'
    BY <1>4, <2>1, <2>6 DEF SoFar, ForTask
  <2>. QED BY <1>1, <1>3, <1>6, <2>7, WorkGoesOn
<1>. QED BY <1>7, <1>8

\* Assignments are read, and then written one by one.
LEMMA AssignmentsFollow ==
  ASSUME ProjectInv, NEW r \in Requests, Work!ReadAssignments(r) \/ Work!Assign(r)
  PROVE  ProjectInv'
<1>0. ProjectTyped /\ \A q \in Work!Busy \ disturbed : Work!Busy = {q} /\ SoFar(q)
  BY DEF ProjectInv
<1>1. /\ r \in Work!Busy /\ (r \notin disturbed => SoFar(r)) /\ workPc[r] \in {"readAssignments", "assign"}
      /\ UNCHANGED <<project, milestones, tasks, members, disturbed>>
  BY <1>0 DEF Work!Busy, Work!ReadAssignments, Work!Assign, Work!Rows
<1>2. PICK c : c = workCtx[r]
  OBVIOUS
<1>3. CASE Work!ReadAssignments(r)
  <2>1. PICK what : what = [c EXCEPT !.todo = Work!Todo(c.task, UNION c.wanted)]
    OBVIOUS
  <2>2. Work!Goto(r, "assign", what) /\ UNCHANGED assigned /\ workPc[r] = "readAssignments"
    BY <1>2, <1>3, <2>1 DEF Work!ReadAssignments, Work!Rows
  <2>3. workPc'[r] = "assign" /\ workCtx'[r] = what /\ ProjectTyped'
    BY <1>0, <1>1, <2>2, WorkMoves DEF ProjectTyped
  <2>4. ASSUME r \notin disturbed PROVE SoFar(r)'
    <3>1. PICK ids \in SUBSET People : c.wanted = {ids}
      BY <1>1, <1>2, <2>2, <2>4 DEF SoFar
    <3>2. ForTask(c) /\ UNION c.wanted = ids
      BY <1>1, <1>2, <2>2, <2>4, <3>1 DEF SoFar
    <3>3. /\ what.op = c.op /\ what.task = c.task /\ what.milestone = c.milestone /\ what.wanted = c.wanted
          /\ DOMAIN what = DOMAIN c /\ what.todo = Work!Todo(c.task, ids)
      BY <2>1, <3>2 DEF ForTask
    <3>4. ForTask(what)' /\ what.todo = Work!Todo(what.task, ids)'
      BY <1>1, <2>2, <3>2, <3>3 DEF ForTask, Work!Active, Work!Todo, Work!Assignees
    <3>. QED BY <2>3, <3>1, <3>3, <3>4 DEF SoFar
  <2>. QED BY <1>1, <2>2, <2>3, <2>4, WorkGoesOn
<1>4. CASE Work!Assign(r) /\ c.todo = {}
  <2>1. Work!Recalculate(r, c.milestone, c) /\ UNCHANGED assigned /\ workPc[r] = "assign"
    BY <1>2, <1>4 DEF Work!Assign
  <2>2. PICK where : where # "idle" /\ Work!Goto(r, where, c)
    BY <2>1 DEF Work!Recalculate
  <2>3. ProjectTyped'
    BY <1>0, <1>1, <2>1, <2>2, WorkMoves DEF ProjectTyped
  <2>4. ASSUME r \notin disturbed PROVE SoFar(r)'
    <3>1. PICK ids \in SUBSET People : c.wanted = {ids} /\ c.todo = Work!Todo(c.task, ids)
      BY <1>1, <1>2, <2>1, <2>4 DEF SoFar
    <3>2. ForTask(c)
      BY <1>1, <1>2, <2>1, <2>4 DEF SoFar
    <3>3. Work!Assignees(c.task) = ids
      BY <1>0, <1>4, <3>1, <3>2, TodoShrinks DEF ForTask
    <3>4. ForTask(c)' /\ \A wanted \in c.wanted : Work!Assignees(c.task)' = wanted
      BY <1>1, <2>1, <3>1, <3>2, <3>3 DEF ForTask, Work!Active, Work!Assignees
    <3>. QED BY <1>0, <2>1, <3>4, RecalculateFollows
  <2>. QED BY <1>1, <2>2, <2>3, <2>4, WorkGoesOn
<1>5. CASE Work!Assign(r) /\ c.todo # {}
  <2>1. PICK do \in c.todo :
          IF do[2] = "insert" /\ assigned[c.task][do[1]] # "never" THEN Work!Answer(r) /\ UNCHANGED assigned
          ELSE /\ assigned' = [assigned EXCEPT ![c.task][do[1]] = IF do[2] = "end" THEN "deleted" ELSE "active"]
               /\ Work!Goto(r, "assign", [c EXCEPT !.todo = c.todo \ {do}])
    BY <1>2, <1>5 DEF Work!Assign
  <2>2. CASE Work!Answer(r) /\ UNCHANGED assigned
    <3>1. ProjectTyped'
      BY <1>0, <1>1, <2>2, WorkMoves DEF ProjectTyped, Work!Answer
    <3>. QED BY <1>1, <2>2, <3>1, WorkGoesOn DEF Work!Answer
  <2>3. CASE /\ assigned' = [assigned EXCEPT ![c.task][do[1]] = IF do[2] = "end" THEN "deleted" ELSE "active"]
             /\ Work!Goto(r, "assign", [c EXCEPT !.todo = c.todo \ {do}])
    <3>1. PICK what : what = [c EXCEPT !.todo = c.todo \ {do}]
      OBVIOUS
    <3>2. workPc'[r] = "assign" /\ workCtx'[r] = what /\ DOMAIN workPc' = Requests /\ DOMAIN workCtx' = Requests
      BY <1>0, <2>3, <3>1, WorkMoves
    <3>3. assigned' \in [Tasks -> [People -> {"never", "active", "deleted"}]]
      BY <1>0, <2>3 DEF ProjectTyped
    <3>4. ProjectTyped'
      BY <1>0, <1>1, <3>2, <3>3 DEF ProjectTyped
    <3>5. ASSUME r \notin disturbed PROVE SoFar(r)'
      <4>1. workPc[r] = "assign"
        BY <1>5 DEF Work!Assign
      <4>2. PICK ids \in SUBSET People : c.wanted = {ids} /\ c.todo = Work!Todo(c.task, ids)
        BY <1>1, <1>2, <3>5, <4>1 DEF SoFar
      <4>3. ForTask(c)
        BY <1>1, <1>2, <3>5, <4>1 DEF SoFar
      <4>4. PICK t \in Tasks : t = c.task
        BY <4>3 DEF ForTask
      <4>5. Work!Todo(t, ids)' = Work!Todo(t, ids) \ {do}
        <5>1. do \in Work!Todo(t, ids)
          BY <2>1, <4>2, <4>4
        <5>2. assigned' = [assigned EXCEPT ![t][do[1]] = IF do[2] = "end" THEN "deleted" ELSE "active"]
          BY <2>3, <4>4
        <5>. QED BY <1>0, <5>1, <5>2, TodoShrinks
      <4>6. /\ what.op = c.op /\ what.task = t /\ what.milestone = c.milestone /\ what.wanted = c.wanted
            /\ DOMAIN what = DOMAIN c /\ what.todo = c.todo \ {do}
        BY <3>1, <4>3, <4>4 DEF ForTask
      <4>7. ForTask(what)'
        BY <1>1, <4>3, <4>4, <4>6 DEF ForTask, Work!Active
      <4>8. what.todo = Work!Todo(t, ids)'
        BY <4>2, <4>4, <4>5, <4>6
      <4>9. what.todo = Work!Todo(what.task, ids)'
        BY <4>6, <4>8 DEF Work!Todo, Work!Assignees
      <4>. QED BY <3>2, <4>2, <4>6, <4>7, <4>9 DEF SoFar
    <3>. QED BY <1>1, <2>3, <3>1, <3>4, <3>5, WorkGoesOn
  <2>. QED BY <2>1, <2>2, <2>3
<1>. QED BY <1>3, <1>4, <1>5

\* A request that changes its task or a milestone begins.
LEMMA TaskRequestsBegin ==
  ASSUME ProjectInv, NEW r \in Requests, NEW t \in Tasks, NEW s \in TaskStatuses,
         NEW wanted \in {{}} \cup {{ids} : ids \in SUBSET People},
         \/ \E m \in Milestones \cup {NoMilestone} : Work!Create(r, t, m, s, wanted)
         \/ \E m \in Milestones \cup {NoMilestone, Work!NotSent} : Work!Update(r, t, m, s, wanted)
  PROVE  ProjectInv'
<1>0. ProjectTyped
  BY DEF ProjectInv
<1>1. PICK m : /\ Work!Continue(r, t, m, wanted) /\ Work!Meanwhile(r) /\ UNCHANGED <<project, milestones, assigned>>
               /\ m \in Milestones \cup {NoMilestone}
               /\ \/ tasks' = [tasks EXCEPT ![t] = [is |-> "active", status |-> s, milestone |-> m]]
                  \/ tasks' = [tasks EXCEPT ![t].status = s, ![t].milestone = m]
  <2>1. CASE \E m \in Milestones \cup {NoMilestone} : Work!Create(r, t, m, s, wanted)
    BY <2>1 DEF Work!Create
  <2>2. ASSUME NEW m \in Milestones \cup {NoMilestone, Work!NotSent}, Work!Update(r, t, m, s, wanted)
        PROVE  \E n : /\ Work!Continue(r, t, n, wanted) /\ Work!Meanwhile(r) /\ UNCHANGED <<project, milestones, assigned>>
                      /\ n \in Milestones \cup {NoMilestone}
                      /\ tasks' = [tasks EXCEPT ![t].status = s, ![t].milestone = n]
    <3>1. PICK n : n = Work!After(m, t)
      OBVIOUS
    <3>2. n \in Milestones \cup {NoMilestone}
      BY <1>0, <3>1 DEF Work!After, ProjectTyped, TaskRows
    <3>3. /\ Work!Continue(r, t, n, wanted) /\ Work!Meanwhile(r) /\ UNCHANGED <<project, milestones, assigned>>
          /\ tasks' = [tasks EXCEPT ![t].status = s, ![t].milestone = n]
      BY <2>2, <3>1 DEF Work!Update, Work!Recalculated
    <3>. QED BY <3>2, <3>3
  <2>. QED BY <2>1, <2>2
<1>2. tasks' \in [Tasks -> TaskRows] /\ tasks'[t].milestone = m
  <2>1. PICK before : before = tasks[t]
    OBVIOUS
  <2>2. before \in TaskRows
    BY <1>0, <2>1 DEF ProjectTyped
  <2>3. PICK row : /\ row \in {[is |-> "active", status |-> s, milestone |-> m],
                               [[before EXCEPT !.status = s] EXCEPT !.milestone = m]}
                   /\ tasks' = [tasks EXCEPT ![t] = row]
    <3>1. tasks' = [tasks EXCEPT ![t].status = s, ![t].milestone = m]
            => tasks' = [tasks EXCEPT ![t] = [[before EXCEPT !.status = s] EXCEPT !.milestone = m]]
      BY <1>0, <2>1 DEF ProjectTyped
    <3>. QED BY <1>1, <3>1
  <2>4. row \in TaskRows /\ row.milestone = m
    <3>1. PICK half : half = [before EXCEPT !.status = s]
      OBVIOUS
    <3>2. half \in TaskRows
      BY <2>2, <3>1 DEF TaskRows
    <3>3. CASE row = [half EXCEPT !.milestone = m]
      BY <1>1, <3>2, <3>3 DEF TaskRows
    <3>4. CASE row = [is |-> "active", status |-> s, milestone |-> m]
      BY <1>1, <3>4 DEF TaskRows
    <3>. QED BY <2>3, <3>1, <3>3, <3>4
  <2>. QED BY <1>0, <2>3, <2>4 DEF ProjectTyped
<1>3. PICK where, what : where # "idle" /\ Work!Goto(r, where, what) /\ SoFar(r)'
  BY <1>0, <1>1, <1>2, WorkContinues
<1>4. ProjectTyped'
  BY <1>0, <1>1, <1>2, <1>3, WorkMoves DEF ProjectTyped
<1>. QED BY <1>1, <1>3, <1>4, WorkBegins

LEMMA RemovalBegins ==
  ASSUME ProjectInv, NEW r \in Requests, NEW t \in Tasks, Work!Remove(r, t)
  PROVE  ProjectInv'
<1>0. ProjectTyped
  BY DEF ProjectInv
<1>1. PICK what : what = Work!Request(t, tasks[t].milestone, {})
  OBVIOUS
<1>2. /\ what.op = "task" /\ what.task = t /\ what.milestone = tasks[t].milestone /\ what.wanted = {}
      /\ DOMAIN what = {"op", "task", "milestone", "wanted", "todo", "figures"}
  BY <1>1 DEF Work!Request
<1>3. /\ Work!Recalculate(r, what.milestone, what) /\ Work!Meanwhile(r) /\ UNCHANGED <<project, milestones, assigned>>
      /\ tasks' = [tasks EXCEPT ![t].is = "deleted"]
  BY <1>1, <1>2 DEF Work!Remove
<1>4. PICK where : where # "idle" /\ Work!Goto(r, where, what)
  BY <1>3 DEF Work!Recalculate
<1>5. ProjectTyped' /\ tasks'[t].is = "deleted"
  BY <1>0, <1>3, <1>4, WorkMoves DEF ProjectTyped, TaskRows
<1>6. SoFar(r)'
  <2>1. ForTask(what)'
    BY <1>2, <1>5 DEF ForTask, Work!Active
  <2>. QED BY <1>0, <1>2, <1>3, <2>1, RecalculateFollows
<1>. QED BY <1>3, <1>4, <1>5, <1>6, WorkBegins

LEMMA MilestoneRequestsBegin ==
  ASSUME ProjectInv, NEW r \in Requests, NEW m \in Milestones,
         \/ Work!RemoveMilestone(r, m)
         \/ \E figures \in Work!GivenFigures : Work!CreateMilestone(r, m, figures) \/ Work!UpdateMilestone(r, m, figures)
  PROVE  ProjectInv'
<1>0. ProjectTyped
  BY DEF ProjectInv
<1>1. /\ Work!Goto(r, "readProject", Work!MilestoneRequest) /\ Work!Meanwhile(r) /\ UNCHANGED <<project, assigned>>
      /\ \E row : milestones' = [milestones EXCEPT ![m] = row]
      /\ \/ UNCHANGED tasks
         \/ tasks' = [t \in Tasks |->
                        IF tasks[t].milestone = m THEN [tasks[t] EXCEPT !.milestone = NoMilestone] ELSE tasks[t]]
  BY DEF Work!RemoveMilestone, Work!CreateMilestone, Work!UpdateMilestone, Work!WriteMilestone
<1>2. workPc'[r] = "readProject" /\ workCtx'[r] = Work!MilestoneRequest
  BY <1>0, <1>1, WorkMoves
<1>3. tasks' \in [Tasks -> TaskRows]
  <2>1. ASSUME NEW row \in TaskRows PROVE [row EXCEPT !.milestone = NoMilestone] \in TaskRows
    BY DEF TaskRows
  <2>. QED BY <1>0, <1>1, <2>1 DEF ProjectTyped
<1>4. DOMAIN milestones' = Milestones
  BY <1>0, <1>1 DEF ProjectTyped
<1>5. ProjectTyped'
  BY <1>0, <1>1, <1>3, <1>4, WorkMoves DEF ProjectTyped
<1>6. SoFar(r)'
  BY <1>2 DEF SoFar, Work!MilestoneRequest
<1>. QED BY <1>1, <1>5, <1>6, WorkBegins

LEMMA ProjectSteps == ProjectInv /\ [Work!Next]_(Work!vars) => ProjectInv'
<1>. SUFFICES ASSUME ProjectInv, [Work!Next]_(Work!vars) PROVE ProjectInv'
  OBVIOUS
<1>0. ProjectTyped /\ \A q \in Work!Busy \ disturbed : Work!Busy = {q} /\ SoFar(q)
  BY DEF ProjectInv
<1>1. CASE UNCHANGED Work!vars
  <2>1. /\ (\A m : Work!MilestoneFigures(m)' = Work!MilestoneFigures(m)) /\ Work!ProjectFigures' = Work!ProjectFigures
        /\ Work!Busy' = Work!Busy /\ disturbed' = disturbed
    BY <1>1, FiguresStay DEF Work!vars, Work!Busy
  <2>2. ProjectTyped'
    BY <1>0, <1>1 DEF ProjectTyped, Work!vars
  <2>3. \A r : SoFar(r) => SoFar(r)'
    <3>1. \A c : (Work!TookEffect(c) => Work!TookEffect(c)') /\ (ForTask(c) => ForTask(c)')
      BY <1>1, <2>1 DEF Work!vars, Work!TookEffect, Work!Active, Work!Assignees, ForTask
    <3>2. \A t, ids : Work!Todo(t, ids)' = Work!Todo(t, ids) /\ Work!Assignees(t)' = Work!Assignees(t)
      BY <1>1 DEF Work!vars, Work!Todo, Work!Assignees
    <3>. QED BY <1>1, <2>1, <3>1, <3>2 DEF SoFar, Work!vars
  <2>. QED BY <1>0, <2>1, <2>2, <2>3 DEF ProjectInv
<1>2. ASSUME NEW r \in Requests, NEW t \in Tasks, NEW s \in TaskStatuses, NEW p \in People, Work!UpdateOwn(r, p, t, s)
      PROVE  ProjectInv'
  BY <1>2, TaskRequestsBegin DEF Work!UpdateOwn
<1>3. ASSUME NEW r \in Requests, NEW figures, NEW p,
             \/ Work!UpdateProject(r, figures) \/ Work!RemoveProject(r) \/ Work!RemoveMember(r, p) \/ Work!AddMember(r, p)
      PROVE  ProjectInv'
  <2>1. Work!Quick(r) /\ {"deleted", "status", "progress"} \subseteq DOMAIN project'
    BY <1>0, <1>3 DEF Work!UpdateProject, Work!RemoveProject, Work!RemoveMember, Work!AddMember, ProjectTyped
  <2>2. ProjectTyped'
    BY <1>0, <2>1 DEF ProjectTyped, Work!Quick
  <2>. QED BY <2>1, <2>2, WorkRests
<1>4. ASSUME NEW r \in Requests, Work!ReadAssignments(r) \/ Work!Assign(r) PROVE ProjectInv'
  BY <1>4, AssignmentsFollow
<1>5. ASSUME NEW r \in Requests, Work!ReadMilestone(r) \/ Work!ReadProject(r) PROVE ProjectInv'
  BY <1>5, FiguresAreRead
<1>6. ASSUME NEW r \in Requests, Work!StoreMilestone(r) \/ Work!StoreProject(r) PROVE ProjectInv'
  BY <1>6, FiguresAreStored
<1>7. ASSUME Work!Next PROVE ProjectInv'
  BY <1>2, <1>3, <1>4, <1>5, <1>6, <1>7, TaskRequestsBegin, RemovalBegins, MilestoneRequestsBegin DEF Work!Next
<1>. QED BY <1>1, <1>7

\* Only the request itself ends, and it ends well where it stores the figures.
LEMMA SuccessStores ==
  ASSUME ProjectTyped, Work!Next, NEW r \in Requests, workPc[r] = "storeProject", workPc'[r] = "idle"
  PROVE  Work!StoreProject(r)
<1>. DEFINE Moves(q) == \/ UNCHANGED workPc
                        \/ /\ workPc[q] # "storeProject" \/ Work!StoreProject(q)
                           /\ \E where, what : Work!Goto(q, where, what)
<1>1. \E q \in Requests : Moves(q)
  <2>. USE DEF Work!Answer, Work!Recalculate
  <2>1. ASSUME NEW q \in Requests, Work!ReadAssignments(q) \/ Work!Assign(q) PROVE Moves(q)
    BY <2>1 DEF Work!ReadAssignments, Work!Assign
  <2>2. ASSUME NEW q \in Requests, Work!ReadMilestone(q) \/ Work!StoreMilestone(q) PROVE Moves(q)
    BY <2>2 DEF Work!ReadMilestone, Work!StoreMilestone
  <2>3. ASSUME NEW q \in Requests, Work!ReadProject(q) \/ Work!StoreProject(q) PROVE Moves(q)
    BY <2>3 DEF Work!ReadProject, Work!StoreProject
  <2>4. ASSUME NEW q \in Requests, NEW t \in Tasks, Work!Remove(q, t) PROVE Moves(q)
    BY <2>4 DEF Work!Remove
  <2>5. ASSUME NEW q \in Requests, NEW t \in Tasks, NEW m, NEW s, NEW wanted, Work!Create(q, t, m, s, wanted)
        PROVE  Moves(q)
    BY <2>5 DEF Work!Create, Work!Continue
  <2>6. ASSUME NEW q \in Requests, NEW t \in Tasks, NEW m, NEW s, NEW wanted, Work!Update(q, t, m, s, wanted)
        PROVE  Moves(q)
    BY <2>6 DEF Work!Update, Work!Continue
  <2>7. ASSUME NEW q \in Requests, NEW t \in Tasks, NEW p, NEW s, Work!UpdateOwn(q, p, t, s) PROVE Moves(q)
    BY <2>6, <2>7 DEF Work!UpdateOwn
  <2>8. ASSUME NEW q \in Requests, NEW m \in Milestones, NEW figures,
               Work!RemoveMilestone(q, m) \/ Work!CreateMilestone(q, m, figures) \/ Work!UpdateMilestone(q, m, figures)
        PROVE  Moves(q)
    BY <2>8 DEF Work!RemoveMilestone, Work!CreateMilestone, Work!UpdateMilestone, Work!WriteMilestone
  <2>9. ASSUME NEW q \in Requests, NEW figures, NEW p,
               \/ Work!UpdateProject(q, figures) \/ Work!RemoveProject(q) \/ Work!RemoveMember(q, p) \/ Work!AddMember(q, p)
        PROVE  Moves(q)
    BY <2>9 DEF Work!UpdateProject, Work!RemoveProject, Work!RemoveMember, Work!AddMember, Work!Quick
  <2>. HIDE DEF Moves
  <2>. QED BY <2>1, <2>2, <2>3, <2>4, <2>5, <2>6, <2>7, <2>8, <2>9 DEF Work!Next
<1>2. PICK q \in Requests : Moves(q)
  BY <1>1
<1>3. CASE q = r
  BY <1>2, <1>3
<1>4. CASE q # r
  BY <1>2, <1>4, WorkMoves
<1>. QED BY <1>3, <1>4

(* A request that nothing disturbed leaves behind what it was asked for, with *)
(* any number of requests, tasks, milestones and people.                      *)
THEOREM UndisturbedRequestsTakeEffect == OfficeSpec => UndisturbedRequestTakesEffect
<1>. DEFINE TakesEffect ==
       \A r \in Requests : Work!Succeeds(r) =>
         /\ Work!Agrees(project', Work!ProjectFigures')
         /\ \A c \in {workCtx[r]} : c.op = "task" => Work!TookEffect(c)'
<1>1. ProjectInv /\ [Work!Next]_(Work!vars) => [TakesEffect]_(Work!vars)
  <2>. SUFFICES ASSUME ProjectInv, Work!Next, NEW r \in Requests, Work!Succeeds(r)
                PROVE  /\ Work!Agrees(project', Work!ProjectFigures')
                       /\ \A c \in {workCtx[r]} : c.op = "task" => Work!TookEffect(c)'
    OBVIOUS
  <2>0. ProjectTyped /\ SoFar(r) /\ workPc[r] = "storeProject" /\ workPc'[r] = "idle"
    BY DEF ProjectInv, Work!Succeeds, Work!Busy
  <2>1. Work!StoreProject(r)
    BY <2>0, SuccessStores
  <2>2. UNCHANGED <<milestones, tasks, assigned>>
    BY <2>1 DEF Work!StoreProject
  <2>3. (\A m : Work!MilestoneFigures(m)' = Work!MilestoneFigures(m)) /\ Work!ProjectFigures' = Work!ProjectFigures
    BY <2>2, FiguresStay
  <2>4. Work!Agrees(project', Work!ProjectFigures')
    <3>1. project'.status = workCtx[r].figures.status /\ project'.progress = workCtx[r].figures.progress
      BY <2>0, <2>1 DEF Work!StoreProject, ProjectTyped
    <3>2. workCtx[r].figures = Work!ProjectFigures
      BY <2>0 DEF SoFar
    <3>. QED BY <2>3, <3>1, <3>2 DEF Work!Agrees
  <2>5. \A c : Work!TookEffect(c) => Work!TookEffect(c)'
    BY <2>2, <2>3 DEF Work!TookEffect, Work!Active, Work!Assignees
  <2>. QED BY <2>0, <2>4, <2>5 DEF SoFar
<1>. QED BY <1>1, OfficeRunsWork, ProjectStarts, ProjectSteps, PTL
     DEF Work!Spec, UndisturbedRequestTakesEffect, Work!UndisturbedRequestTakesEffect
=============================================================================
