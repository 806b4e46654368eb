------------------------------ MODULE Accounts ------------------------------
(***************************************************************************)
(* Accounts, invitations and internal administration: users.service.ts,    *)
(* onboarding.service.ts, internal-admin.service.ts, the sub-admins of     *)
(* governance.service.ts and the first sign-in of a citizen                *)
(* (auth.service.ts).                                                      *)
(*                                                                         *)
(* No handler locks what it read.  Those that invite, accept an            *)
(* invitation or decide on the status of an account look in one step and   *)
(* write in a later one, with anything in between; a crash there loses the *)
(* rest.  What any other handler reads and the first transaction it        *)
(* commits are one step, and a second transaction waits in later.          *)
(* An e-mail address or a phone number is the identity of its owner, who   *)
(* may not have an account yet.  A call refused without a write is not a   *)
(* step.                                                                   *)
(***************************************************************************)
EXTENDS Naturals, FiniteSets, Sequences

CONSTANTS Users,           \* identities of people, with or without an account
          Organizations,   \* identities of organizations
          Invitations,     \* identities of invitations
          Assignments,     \* identities of internal role assignments
          Approvals,       \* identities of privileged approval requests
          None,            \* null
          InvitedRoles,    \* roles that callers invite for
          GrantedRoles,    \* roles that callers give to accounts
          OperationTypes,  \* high-risk operations that callers ask for
          DefaultOrganization, \* defaultOrganizationName, where citizens belong
          allowedUsers,    \* user quota of an organization
          allowedProviders, \* provider quota of an organization
          MaxCalls         \* bound on the number of calls

ASSUME QuotasAreNumbers == allowedUsers \in Nat /\ allowedProviders \in Nat
ASSUME DefaultExists == DefaultOrganization \in Organizations
ASSUME NoneIsNobody == None \notin Users \cup Organizations

VARIABLES user, membership, invitation, assignment, approval,
          later,  \* what handlers in flight are still going to write
          calls   \* calls so far

vars == <<user, membership, invitation, assignment, approval, later, calls>>
rows == <<user, membership, invitation, assignment, approval>>

-----------------------------------------------------------------------------
(* The role catalogue.                                                     *)

allPermissions ==
  {"internal_admin.read", "internal_admin.invite", "internal_admin.assign_role",
   "internal_admin.suspend", "internal_admin.revoke_sessions", "internal_admin.view_audit",
   "backup.restore_request", "release.readiness_manage", "payment.configuration_manage",
   "payment.refund_approve"}

\* The permissions that a handler asks for, of the roles enabled without a feature flag.
internalRoleCatalog ==
  [role \in {"PLATFORM_SUPER_ADMIN", "OPERATIONS_ADMIN", "ORGANIZATION_ONBOARDING_ADMIN",
             "PROVIDER_ADMIN", "FINANCE_BILLING_ADMIN", "SUPPORT_ADMIN",
             "COMPLIANCE_AUDIT_ADMIN", "SECURITY_ADMIN", "RELEASE_OPERATIONS_ADMIN",
             "BACKUP_RECOVERY_ADMIN"} |->
     CASE role = "PLATFORM_SUPER_ADMIN"     -> allPermissions
       [] role = "SUPPORT_ADMIN"            -> {"internal_admin.read"}
       [] role = "COMPLIANCE_AUDIT_ADMIN"   -> {"internal_admin.view_audit"}
       [] role = "SECURITY_ADMIN"           -> {"internal_admin.revoke_sessions",
                                                "internal_admin.view_audit"}
       [] role = "RELEASE_OPERATIONS_ADMIN" -> {"release.readiness_manage"}
       [] role = "BACKUP_RECOVERY_ADMIN"    -> {"backup.restore_request"}
       [] OTHER                             -> {}]

InternalRoles == DOMAIN internalRoleCatalog

highRiskGrant(role) == role = "PLATFORM_SUPER_ADMIN"

governanceAdminRoles ==
  {"PLATFORM_OWNER", "EXECUTIVE_SUPER_ADMIN", "TECHNICAL_ADMIN", "BILLING_ADMIN",
   "LEGAL_ADMIN", "ASSIGNMENT_ADMIN", "ASSET_ADMIN", "COMPLIANCE_ADMIN",
   "REGULATORY_ADMIN", "SUPPORT_ADMIN"}

Roles == InternalRoles \cup governanceAdminRoles
           \cup {"SUPER_ADMIN", "ORG_ADMIN", "PROVIDER", "PENDING_PROVIDER", "CITIZEN"}

SuperRoles == {"SUPER_ADMIN", "PLATFORM_SUPER_ADMIN"}

highRiskOperationPermissions ==
  [operationType \in {"PLATFORM_SUPER_ADMIN_GRANT", "ROLE_DEFINITION_CHANGE",
                      "PRODUCTION_RESTORE_AUTHORIZATION", "ENTERPRISE_FEATURE_ENABLEMENT",
                      "PAYMENT_CONFIGURATION_CHANGE", "HIGH_VALUE_REFUND_APPROVAL"} |->
     CASE operationType = "PRODUCTION_RESTORE_AUTHORIZATION" -> "backup.restore_request"
       [] operationType = "ENTERPRISE_FEATURE_ENABLEMENT"    -> "release.readiness_manage"
       [] operationType = "PAYMENT_CONFIGURATION_CHANGE"     -> "payment.configuration_manage"
       [] operationType = "HIGH_VALUE_REFUND_APPROVAL"       -> "payment.refund_approve"
       [] OTHER                                              -> "internal_admin.assign_role"]

ASSUME InputsAreKnown ==
  InvitedRoles \cup GrantedRoles \subseteq Roles /\ OperationTypes \subseteq DOMAIN highRiskOperationPermissions

-----------------------------------------------------------------------------
(* Rows.  The status NONE is a row that does not exist.                    *)

UserRows == [role: Roles \cup {None}, organizationId: Organizations \cup {None},
             accountStatus: {"NONE", "ACTIVE", "PENDING_INVITE", "PENDING_APPROVAL",
                             "SUSPENDED", "DEACTIVATED"}]

\* The columns of a membership: active.  A membership that does not exist is not active,
\* and nothing makes an existing one inactive.
MembershipRows == [active: BOOLEAN]

\* invitee: whose e-mail address or phone number it carries.  expired: expiresAt <= now.
\* The status CHECKED is a row that does not exist either: the request that is going to create
\* it has made its checks.  saw is history: the invitations that existed when it made them.
InvitationRows == [status: {"NONE", "CHECKED", "PENDING", "ACCEPTED", "DECLINED", "EXPIRED",
                            "CANCELLED", "REVOKED"},
                   invitee: Users \cup {None}, role: Roles \cup {None},
                   organizationId: Organizations \cup {None}, expired: BOOLEAN,
                   saw: SUBSET Invitations]

\* period: now against startsAt and expiresAt.
AssignmentRows == [status: {"NONE", "ACTIVE", "REVOKED"}, userId: Users \cup {None},
                   role: InternalRoles \cup {None}, period: {"FUTURE", "CURRENT", "PAST"}]

ApprovalRows == [status: {"NONE", "PENDING", "EXECUTION_BLOCKED", "REJECTED"},
                 operationType: DOMAIN highRiskOperationPermissions \cup {None},
                 requesterId: Users \cup {None}, approverId: Users \cup {None}]

\* What a transaction writes into one row: the columns of set.
Write(table, id, set) == [table |-> table, id |-> id, set |-> set]

Patched(f, table, writes) ==
  [x \in DOMAIN f |->
     LET sets == {w.set : w \in {v \in writes : v.table = table /\ v.id = x}} IN
     IF sets = {} THEN f[x]
     ELSE LET set == CHOOSE t \in sets : TRUE IN
          [c \in DOMAIN f[x] |-> IF c \in DOMAIN set THEN set[c] ELSE f[x][c]]]

Apply(writes) ==
  /\ user' = Patched(user, "user", writes)
  /\ membership' = Patched(membership, "membership", writes)
  /\ invitation' = Patched(invitation, "invitation", writes)
  /\ assignment' = Patched(assignment, "assignment", writes)
  /\ approval' = Patched(approval, "approval", writes)

\* A handler commits the writes of its first transaction, the others follow.
CommitThen(writes, others) ==
  /\ calls' = calls + 1
  /\ Apply(writes)
  /\ later' = later \cup others

Commit(writes) == CommitThen(writes, {})

\* A handler that decided on the status of an account and has not committed it yet.  counted
\* and role are history: the other active Super Admins and the role of the account when it decided.
Decide(write) ==
  CommitThen({}, {[counted |-> {v \in Users \ {write.id} : user[v].accountStatus = "ACTIVE"
                                                           /\ user[v].role \in SuperRoles},
                   role |-> user[write.id].role,
                   table |-> write.table, id |-> write.id, set |-> write.set]})

-----------------------------------------------------------------------------
(* What the handlers read.                                                 *)

\* jwt.strategy.ts and RolesGuard: the caller's account is active and has such a role.
Caller(actor, roles) == user[actor].accountStatus = "ACTIVE" /\ user[actor].role \in roles

Registered(u) == user[u].accountStatus # "NONE"

HasMembership(u, o) == membership[<<u, o>>].active

InAdminScope(actor, u) ==
  \/ user[actor].role = "SUPER_ADMIN"
  \/ /\ user[actor].organizationId # None
     /\ \/ user[u].organizationId = user[actor].organizationId
        \/ user[u].role = "PROVIDER" /\ HasMembership(u, user[actor].organizationId)

\* getUser, and who may manage a Super Admin.
MayManage(actor, u) ==
  /\ Caller(actor, {"SUPER_ADMIN", "ORG_ADMIN"})
  /\ Registered(u) /\ InAdminScope(actor, u)
  /\ user[u].role = "SUPER_ADMIN" => user[actor].role = "SUPER_ADMIN"

buildInvitationScope(actor, i) ==
  \/ user[actor].role = "SUPER_ADMIN"
  \/ /\ user[actor].organizationId # None
     /\ invitation[i].organizationId = user[actor].organizationId

resolveInvitationOrganization(actor, o) ==
  IF user[actor].role = "SUPER_ADMIN"
  THEN o # None \/ user[actor].organizationId = None
  ELSE o # None /\ o = user[actor].organizationId

Live(i) == invitation[i].status = "PENDING" /\ ~invitation[i].expired

enforceUserQuota(o) ==
  o # None => Cardinality({u \in Users : Registered(u) /\ user[u].organizationId = o}) < allowedUsers

enforceProviderQuota(o) ==
  o # None =>
    Cardinality({u \in Users : /\ user[u].role = "PROVIDER"
                               /\ user[u].organizationId = o \/ HasMembership(u, o)})
      < allowedProviders

AlreadyMember(u, role, o) ==
  /\ Registered(u) /\ o # None
  /\ \/ role = "PROVIDER" /\ user[u].role = "PROVIDER" /\ HasMembership(u, o)
     \/ /\ user[u].organizationId = o /\ user[u].role = role
        /\ user[u].accountStatus # "DEACTIVATED"

permissionsForRole(role) ==
  IF role = "SUPER_ADMIN" THEN allPermissions
  ELSE IF role \in InternalRoles THEN internalRoleCatalog[role] ELSE {}

effectivePermissions(u) ==
  permissionsForRole(user[u].role)
    \cup UNION {internalRoleCatalog[assignment[a].role] :
                  a \in {b \in Assignments : /\ assignment[b].status = "ACTIVE"
                                             /\ assignment[b].userId = u
                                             /\ assignment[b].period = "CURRENT"}}

assertPermission(actor, permission) ==
  /\ Caller(actor, {"SUPER_ADMIN"} \cup InternalRoles \cup governanceAdminRoles)
  /\ permission \in effectivePermissions(actor)

assertGrantCeiling(actor, role) ==
  user[actor].role \notin SuperRoles =>
    internalRoleCatalog[role] \subseteq permissionsForRole(user[actor].role)

ActiveSuperAdmins(roles) == {u \in Users : user[u].accountStatus = "ACTIVE" /\ user[u].role \in roles}

-----------------------------------------------------------------------------
(* Invitations of organizations.                                           *)

NoInvitation == [status |-> "NONE", invitee |-> None, role |-> None, organizationId |-> None,
                 expired |-> FALSE, saw |-> {}]

Exists(i) == invitation[i].status \notin {"NONE", "CHECKED"}

SamePlace(i, u, role, o) ==
  invitation[i].invitee = u /\ invitation[i].role = role /\ invitation[i].organizationId = o

CheckedRow(u, role, o) ==
  [status |-> "CHECKED", invitee |-> u, role |-> role, organizationId |-> o,
   expired |-> FALSE, saw |-> {j \in Invitations : Exists(j)}]

\* A request has made the checks of an inviting endpoint and goes on to create the invitation.
Checked(u, role, o) ==
  \E i \in Invitations :
    invitation[i].status = "NONE" /\ Commit({Write("invitation", i, CheckedRow(u, role, o))})

Resolve(i, status) == Write("invitation", i, [status |-> status])

inviteUserAgain(actor, u, role, o) ==
  /\ Caller(actor, {"SUPER_ADMIN", "ORG_ADMIN"})
  /\ role \notin governanceAdminRoles \cup {"SUPER_ADMIN"}
  /\ user[actor].role # "SUPER_ADMIN" => role # "ORG_ADMIN"
  /\ resolveInvitationOrganization(actor, o)
  /\ ~AlreadyMember(u, role, o)
  /\ Checked(u, role, o)

\* An existing provider joins a further organization (the caller confirmed it), and only
\* the provider quota counts; anyone else also takes a place of the user quota.
inviteUser(actor, u, role, o) ==
  /\ Caller(actor, {"SUPER_ADMIN", "ORG_ADMIN"})
  /\ role \notin governanceAdminRoles \cup {"SUPER_ADMIN"}
  /\ user[actor].role # "SUPER_ADMIN" => role # "ORG_ADMIN"
  /\ resolveInvitationOrganization(actor, o)
  /\ ~AlreadyMember(u, role, o)
  /\ \A i \in Invitations : ~(Live(i) /\ SamePlace(i, u, role, o))
  /\ ~(o # None /\ role = "PROVIDER" /\ user[u].role = "PROVIDER") => enforceUserQuota(o)
  /\ role = "PROVIDER" => enforceProviderQuota(o)
  /\ Checked(u, role, o)

inviteDiscoveredProvider(actor, u, o) ==
  /\ o # None
  /\ user[u].role = "PROVIDER" /\ user[u].accountStatus = "ACTIVE"
  /\ inviteUser(actor, u, "PROVIDER", o)

\* cancel and revoke.
cancelInvitation(actor, i, status) ==
  /\ Caller(actor, {"SUPER_ADMIN", "ORG_ADMIN"})
  /\ invitation[i].status = "PENDING" /\ buildInvitationScope(actor, i)
  /\ Commit({Resolve(i, status)})

\* resendInvitation, acceptInvitation, declineInvitation and the internal acceptance find
\* the invitation expired.
markInvitationExpired(actor, i) ==
  /\ user[actor].accountStatus = "ACTIVE"
  /\ \/ actor = invitation[i].invitee
     \/ user[actor].role \in {"SUPER_ADMIN", "ORG_ADMIN"} /\ buildInvitationScope(actor, i)
  /\ invitation[i].status = "PENDING" /\ invitation[i].expired
  /\ Commit({Resolve(i, "EXPIRED")})

getMyInvitations(actor) ==
  LET expired == {i \in Invitations : /\ invitation[i].invitee = actor
                                      /\ invitation[i].status = "PENDING"
                                      /\ invitation[i].expired}
  IN /\ user[actor].accountStatus = "ACTIVE" /\ expired # {}
     /\ Commit({Resolve(i, "EXPIRED") : i \in expired})

declineInvitation(i) ==
  /\ Live(i) /\ user[invitation[i].invitee].accountStatus = "ACTIVE"
  /\ Commit({Resolve(i, "DECLINED")})

\* A handler in its acceptance of an invitation.  internal: of acceptInternalInvitation.
\* found: the status of the account when it was read.  set: the columns it goes on to write.
Accepting(w) == "found" \in DOMAIN w

ActiveOnAcceptance(u, i) ==
  [role |-> invitation[i].role, accountStatus |-> "ACTIVE"]

\* A provider of another organization only becomes a member of this one; a Super Admin
\* keeps the role.
AcceptedColumns(u, i) ==
  LET inv == invitation[i]
      membershipOnly == /\ user[u].role = "PROVIDER" /\ inv.role = "PROVIDER"
                        /\ inv.organizationId # None
                        /\ user[u].organizationId # inv.organizationId
      columns == [role |-> inv.role, organizationId |-> inv.organizationId,
                  accountStatus |-> IF user[u].accountStatus = "SUSPENDED" THEN "SUSPENDED"
                                    ELSE "ACTIVE"]
  IN [c \in {"accountStatus"}
              \cup (IF membershipOnly \/ inv.organizationId = None THEN {} ELSE {"organizationId"})
              \cup (IF membershipOnly \/ user[u].role = "SUPER_ADMIN" THEN {} ELSE {"role"})
        |-> columns[c]]

\* The invitation is found pending and not expired, by its invitee.
acceptInvitation(i) ==
  /\ Live(i) /\ user[invitation[i].invitee].accountStatus = "ACTIVE"
  /\ CommitThen({}, {[invitation |-> i]})

\* The transaction reads the invitation and the account again, and writes nothing unless the
\* invitation is still pending and not expired.
ReadInTransaction(w) ==
  LET i == w.invitation
      u == invitation[i].invitee
  IN /\ DOMAIN w = {"invitation"} /\ Live(i)
     /\ later' = (later \ {w}) \cup {[invitation |-> i, internal |-> FALSE,
                                     found |-> user[u].accountStatus,
                                     set |-> AcceptedColumns(u, i)]}
     /\ UNCHANGED <<rows, calls>>

\* The rows the transaction writes, by their ids, whatever happened to them since it read them.
UserOnlyAcceptance(w) ==
  {Write("user", invitation[w.invitation].invitee, w.set), Resolve(w.invitation, "ACCEPTED")}

Acceptance(w) ==
  LET inv == invitation[w.invitation] IN
  {Write("user", inv.invitee, w.set), Resolve(w.invitation, "ACCEPTED")}
    \cup IF inv.role = "PROVIDER" /\ inv.organizationId # None
         THEN {Write("membership", <<inv.invitee, inv.organizationId>>, [active |-> TRUE])}
         ELSE {}

-----------------------------------------------------------------------------
(* Accounts.                                                               *)

\* Only a Super Admin changes a role or an organization; the profile is not modelled.
updateUser(actor, u, role, o) ==
  /\ MayManage(actor, u)
  /\ user[actor].role = "SUPER_ADMIN"
  /\ Commit({Write("user", u, [role |-> role, organizationId |-> o])})

\* Mutant: Super Admins may change the status of any account, also of their own.
setAnyStatus(actor, u, status) ==
  /\ MayManage(actor, u)
  /\ Decide(Write("user", u, [accountStatus |-> status]))

setUserStatus(actor, u, status) ==
  /\ actor # u
  /\ MayManage(actor, u)
  /\ user[u].role = "SUPER_ADMIN" /\ status # "ACTIVE"
       => ActiveSuperAdmins({"SUPER_ADMIN"}) \ {u} # {}
  /\ Decide(Write("user", u, [accountStatus |-> status]))

\* The account, and then the membership.
approveProviderRequest(actor, u) ==
  /\ MayManage(actor, u)
  /\ user[u].role = "PENDING_PROVIDER"
  /\ CommitThen({Write("user", u, [role |-> "PROVIDER", accountStatus |-> "ACTIVE"])},
                {Write("membership", <<u, o>>, [active |-> TRUE]) :
                   o \in {user[u].organizationId} \ {None}})

rejectProviderRequest(actor, u) ==
  /\ MayManage(actor, u)
  /\ user[u].role = "PENDING_PROVIDER"
  /\ Decide(Write("user", u, [accountStatus |-> "DEACTIVATED"]))

\* The organization of a pending invitation code, or the first active one.
requestProviderAccess(u, o) ==
  /\ ~Registered(u)
  /\ \/ o = DefaultOrganization
     \/ \E i \in Invitations : invitation[i].status = "PENDING" /\ invitation[i].organizationId = o
  /\ Commit({Write("user", u, [role |-> "PENDING_PROVIDER", organizationId |-> o,
                                   accountStatus |-> "PENDING_APPROVAL"])})

\* The account of a verified e-mail address or phone number.
firebaseLogin(u) ==
  /\ ~Registered(u) \/ Caller(u, {"CITIZEN"})
  /\ Commit({Write("user", u, [role |-> "CITIZEN", accountStatus |-> "ACTIVE",
            organizationId |-> IF user[u].organizationId = None THEN DefaultOrganization
                               ELSE user[u].organizationId])})

-----------------------------------------------------------------------------
(* Delegated administrators (governance.service.ts).                       *)

DelegationAdmins == {"SUPER_ADMIN", "PLATFORM_OWNER", "EXECUTIVE_SUPER_ADMIN"}

\* Nothing reads the DelegatedAuthority row that is written after the account.
createSubAdmin(actor, u, role, o) ==
  /\ Caller(actor, DelegationAdmins)
  /\ role \in governanceAdminRoles
  /\ user[actor].role = "EXECUTIVE_SUPER_ADMIN" => o = user[actor].organizationId
  /\ ~Registered(u)
  /\ Commit({Write("user", u, [role |-> role, organizationId |-> o,
                                   accountStatus |-> "PENDING_INVITE"])})

setSubAdminStatus(actor, u, status) ==
  /\ Caller(actor, DelegationAdmins)
  /\ actor # u
  /\ user[u].role \in governanceAdminRoles
  /\ user[actor].role = "EXECUTIVE_SUPER_ADMIN"
       => user[u].organizationId = user[actor].organizationId
  /\ Decide(Write("user", u, [accountStatus |-> status]))

-----------------------------------------------------------------------------
(* Internal administrators (internal-admin.service.ts).                    *)

createApprovalRequest(actor, operationType) ==
  /\ assertPermission(actor, highRiskOperationPermissions[operationType])
  /\ \E a \in Approvals :
       /\ approval[a].status = "NONE"
       /\ Commit({Write("approval", a, [status |-> "PENDING", requesterId |-> actor,
                                            operationType |-> operationType])})

\* A request that was decided before may be decided again.
decideApprovalRequest(actor, a, status) ==
  /\ approval[a].status # "NONE"
  /\ approval[a].requesterId # actor
  /\ assertPermission(actor, highRiskOperationPermissions[approval[a].operationType])
  /\ Commit({Write("approval", a, [status |-> status, approverId |-> actor])})

\* A high-risk role is only asked for.
inviteAdministrator(actor, u, role, o) ==
  /\ role \in InternalRoles
  /\ assertPermission(actor, "internal_admin.invite")
  /\ assertGrantCeiling(actor, role)
  /\ IF highRiskGrant(role) THEN createApprovalRequest(actor, "PLATFORM_SUPER_ADMIN_GRANT")
     ELSE /\ ~Registered(u)
          /\ \A i \in Invitations : ~(/\ invitation[i].status = "PENDING"
                                       /\ invitation[i].invitee = u /\ invitation[i].role = role)
          /\ user[actor].organizationId # None => o = user[actor].organizationId
          /\ Checked(u, role, o)

\* What is checked before the transaction, which reads nothing.
acceptInternalInvitation(i) ==
  LET u == invitation[i].invitee
      inv == invitation[i]
      columns == [role |-> inv.role, accountStatus |-> "ACTIVE",
                  organizationId |-> inv.organizationId]
  IN /\ Live(i) /\ inv.role \in InternalRoles
     /\ Caller(u, {"SUPER_ADMIN"} \cup InternalRoles \cup governanceAdminRoles)
     /\ CommitThen({}, {[invitation |-> i, internal |-> TRUE, found |-> user[u].accountStatus,
                         set |-> [c \in IF inv.organizationId = None
                                        THEN {"role", "accountStatus"} ELSE DOMAIN columns
                                    |-> columns[c]]]})

\* The assignment ends when the invitation would have.
NewAssignment(a, i) ==
  Write("assignment", a, [status |-> "ACTIVE", userId |-> invitation[i].invitee,
                          role |-> invitation[i].role,
                          period |-> IF invitation[i].expired THEN "PAST" ELSE "CURRENT"])

assignRole(actor, u, role) ==
  /\ role \in InternalRoles
  /\ actor # u
  /\ assertPermission(actor, "internal_admin.assign_role")
  /\ assertGrantCeiling(actor, role)
  /\ IF highRiskGrant(role) THEN createApprovalRequest(actor, "PLATFORM_SUPER_ADMIN_GRANT")
     ELSE /\ Registered(u)
          /\ \E a \in Assignments, period \in {"FUTURE", "CURRENT"} :
               /\ assignment[a].status = "NONE"
               /\ Commit({Write("assignment", a, [status |-> "ACTIVE", userId |-> u,
                                                      role |-> role, period |-> period])})

\* assertNotFinalActiveSuperAdmin guards the roles that no assignment has.
removeRole(actor, a) ==
  /\ assertPermission(actor, "internal_admin.assign_role")
  /\ assignment[a].status # "NONE"
  /\ assignment[a].role \in SuperRoles
       => ActiveSuperAdmins(SuperRoles) \ {assignment[a].userId} # {}
  /\ Commit({Write("assignment", a, [status |-> "REVOKED"])})

suspendAdministrator(actor, u) ==
  /\ assertPermission(actor, "internal_admin.suspend")
  /\ actor # u /\ Registered(u)
  /\ ActiveSuperAdmins(SuperRoles) \ {u} # {}
  /\ Decide(Write("user", u, [accountStatus |-> "SUSPENDED"]))

reactivateAdministrator(actor, u) ==
  /\ assertPermission(actor, "internal_admin.suspend")
  /\ Registered(u)
  /\ Commit({Write("user", u, [accountStatus |-> "ACTIVE"])})

-----------------------------------------------------------------------------
(* Later transactions, crashes and time.                                   *)

CommitLater(w) ==
  /\ w \in later /\ "table" \in DOMAIN w
  /\ Apply({w})
  /\ later' = later \ {w}
  /\ UNCHANGED calls

CommitAcceptance(w) ==
  /\ w \in later /\ Accepting(w)
  /\ \/ ~w.internal /\ Apply(Acceptance(w))
     \/ w.internal /\ \E a \in Assignments :
                        /\ assignment[a].status = "NONE"
                        /\ Apply(Acceptance(w) \cup {NewAssignment(a, w.invitation)})
  /\ later' = later \ {w}
  /\ UNCHANGED calls

createInvitation(i) ==
  /\ invitation[i].status = "CHECKED"
  /\ invitation' = [invitation EXCEPT ![i].status = "PENDING"]
  /\ UNCHANGED <<user, membership, assignment, approval, later, calls>>

\* A database error or a restart, and a refusal inside the transaction of an acceptance.
CrashBeforeCreate(i) ==
  /\ invitation[i].status = "CHECKED"
  /\ invitation' = [invitation EXCEPT ![i] = NoInvitation]
  /\ UNCHANGED <<user, membership, assignment, approval, later, calls>>

Crash(w) ==
  /\ w \in later
  /\ later' = later \ {w}
  /\ UNCHANGED <<rows, calls>>

InvitationExpires(i) ==
  /\ Live(i)
  /\ invitation' = [invitation EXCEPT ![i].expired = TRUE]
  /\ UNCHANGED <<user, membership, assignment, approval, later, calls>>

AssignmentPeriod(a) ==
  /\ assignment[a].status # "NONE" /\ assignment[a].period # "PAST"
  /\ assignment' = [assignment EXCEPT ![a].period =
                      IF @ = "FUTURE" THEN "CURRENT" ELSE "PAST"]
  /\ UNCHANGED <<user, membership, invitation, approval, later, calls>>

-----------------------------------------------------------------------------
NoUser == [role |-> None, organizationId |-> None, accountStatus |-> "NONE"]

\* The accounts of a seeded platform: somebody is its Super Admin, and the default
\* organization may have an administrator.
Init ==
  /\ user \in [Users -> {NoUser, [role |-> "SUPER_ADMIN", organizationId |-> None,
                                  accountStatus |-> "ACTIVE"],
                         [role |-> "ORG_ADMIN", organizationId |-> DefaultOrganization,
                          accountStatus |-> "ACTIVE"]}]
  /\ ActiveSuperAdmins({"SUPER_ADMIN"}) # {}
  /\ membership = [m \in Users \X Organizations |-> [active |-> FALSE]]
  /\ invitation = [i \in Invitations |-> NoInvitation]
  /\ assignment = [a \in Assignments |-> [status |-> "NONE", userId |-> None, role |-> None,
                                          period |-> "FUTURE"]]
  /\ approval = [a \in Approvals |-> [status |-> "NONE", operationType |-> None,
                                      requesterId |-> None, approverId |-> None]]
  /\ later = {}
  /\ calls = 0

OrganizationIds == Organizations \cup {None}

UserHandler(actor, u) ==
  \/ \E role \in InvitedRoles, o \in OrganizationIds :
       \/ inviteUser(actor, u, role, o)
       \/ createSubAdmin(actor, u, role, o)
       \/ inviteAdministrator(actor, u, role, o)
  \/ \E role \in GrantedRoles, o \in OrganizationIds : updateUser(actor, u, role, o)
  \/ \E o \in Organizations : inviteDiscoveredProvider(actor, u, o)
  \/ \E status \in {"ACTIVE", "SUSPENDED"} : setUserStatus(actor, u, status)
  \/ \E status \in {"ACTIVE", "DEACTIVATED"} : setSubAdminStatus(actor, u, status)
  \/ approveProviderRequest(actor, u) \/ rejectProviderRequest(actor, u)
  \/ \E role \in GrantedRoles : assignRole(actor, u, role)
  \/ suspendAdministrator(actor, u) \/ reactivateAdministrator(actor, u)

RowHandler(actor) ==
  \/ \E i \in Invitations :
       \/ \E status \in {"CANCELLED", "REVOKED"} : cancelInvitation(actor, i, status)
       \/ markInvitationExpired(actor, i)
  \/ getMyInvitations(actor)
  \/ \E operationType \in OperationTypes :
       createApprovalRequest(actor, operationType)
  \/ \E a \in Approvals, status \in {"EXECUTION_BLOCKED", "REJECTED"} :
       decideApprovalRequest(actor, a, status)
  \/ \E a \in Assignments : removeRole(actor, a)
  \/ firebaseLogin(actor)
  \/ \E o \in Organizations : requestProviderAccess(actor, o)

Call ==
  \/ \E actor \in Users : RowHandler(actor) \/ \E u \in Users : UserHandler(actor, u)
  \/ \E i \in Invitations :
       acceptInvitation(i) \/ declineInvitation(i) \/ acceptInternalInvitation(i)

Next ==
  \/ calls < MaxCalls /\ Call
  \/ \E w \in later : CommitLater(w) \/ ReadInTransaction(w) \/ CommitAcceptance(w) \/ Crash(w)
  \/ \E i \in Invitations : createInvitation(i) \/ CrashBeforeCreate(i) \/ InvitationExpires(i)
  \/ \E a \in Assignments : AssignmentPeriod(a)

Spec == Init /\ [][Next]_vars

-----------------------------------------------------------------------------
(* Properties.                                                             *)

\* Columns keep their types.
AccountsTypeOK ==
  /\ user \in [Users -> UserRows]
  /\ membership \in [Users \X Organizations -> MembershipRows]
  /\ invitation \in [Invitations -> InvitationRows]
  /\ assignment \in [Assignments -> AssignmentRows]
  /\ approval \in [Approvals -> ApprovalRows]

\* A step that accepts an invitation or writes one any other way lifts a suspension only if the
\* acceptance is the suspended person's own and found the account not suspended: the suspension
\* was committed between its read of the account and its write, which no lock prevents.
SuspensionStands ==
  [][\A u \in Users :
       /\ user[u].accountStatus = "SUSPENDED" /\ user'[u].accountStatus # "SUSPENDED"
       /\ invitation' # invitation \/ \E w \in later \ later' : Accepting(w)
       => \E w \in later \ later' : /\ Accepting(w) /\ invitation[w.invitation].invitee = u
                                   /\ w.found # "SUSPENDED"]_vars

\* An identity has two invitations it can accept for a role in an organization, whichever of
\* the three inviting endpoints created them, only if each one's request made its checks before
\* the other one was created: the requests overlapped, which nothing in the database prevents.
OneLivePending ==
  \A i, j \in Invitations :
    /\ Live(i) /\ Live(j) /\ i # j
    /\ SamePlace(j, invitation[i].invitee, invitation[i].role, invitation[i].organizationId)
    => i \notin invitation[j].saw /\ j \notin invitation[i].saw

\* "Must retain at least one active account": the suspension of a Super Admin leaves the platform
\* without an active one only if another one was active when setUserStatus or suspendAdministrator
\* looked, and was demoted or suspended in between, or if the account was no Super Admin's then,
\* or if it repeats one that an acceptance read before it was lifted.
LastSuperAdminWasCounted ==
  [][\A u \in Users :
       /\ user[u].role = "SUPER_ADMIN" /\ user'[u].role = "SUPER_ADMIN"
       /\ user[u].accountStatus = "ACTIVE" /\ user'[u].accountStatus # "ACTIVE"
       /\ \A v \in Users \ {u} : user'[v].accountStatus # "ACTIVE" \/ user'[v].role \notin SuperRoles
       => \E w \in later \ later' :
            \/ /\ "counted" \in DOMAIN w /\ w.id = u
               /\ w.counted # {} \/ w.role # "SUPER_ADMIN"
            \/ Accepting(w) /\ w.found = "SUSPENDED"]_vars

\* A provider who accepted the invitation of an organization is a member of it, whatever
\* else happened to the account.
AcceptedProviderIsMember ==
  \A i \in Invitations :
    invitation[i].status = "ACCEPTED" /\ invitation[i].role = "PROVIDER"
      /\ invitation[i].organizationId # None
    => HasMembership(invitation[i].invitee, invitation[i].organizationId)

\* Every decision on a high-risk operation is another administrator's than the one who
\* asked for it, also when a request is decided again.
DualControl ==
  \A a \in Approvals :
    approval[a].approverId # None => approval[a].approverId # approval[a].requesterId

\* The rows agree with each other at every moment, whatever is in flight or was lost in a crash:
\* types, memberships of accepted providers, and dual control of approvals.
AccountsInv == AccountsTypeOK /\ AcceptedProviderIsMember /\ DualControl

=============================================================================
