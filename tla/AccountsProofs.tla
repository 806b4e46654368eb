--------------------------- MODULE AccountsProofs ---------------------------
(***************************************************************************)
(* Theorems about accounts and invitations for every number of people,     *)
(* organizations and rows, and for every number of calls.                  *)
(*                                                                         *)
(* A handler is what it writes: one lemma per endpoint shows that its      *)
(* writes are sound, and one lemma per property that sound writes keep it. *)
(***************************************************************************)
EXTENDS Accounts, TLAPS

UserStatuses == {"NONE", "ACTIVE", "PENDING_INVITE", "PENDING_APPROVAL", "SUSPENDED", "DEACTIVATED"}
InvitationStatuses ==
  {"NONE", "CHECKED", "PENDING", "ACCEPTED", "DECLINED", "EXPIRED", "CANCELLED", "REVOKED"}

\* The columns that a write sets have the types of its table.
TypedWrite(w) ==
  \/ /\ w.table = "user" /\ w.id \in Users
     /\ "role" \in DOMAIN w.set => w.set.role \in Roles \cup {None}
     /\ "organizationId" \in DOMAIN w.set => w.set.organizationId \in Organizations \cup {None}
     /\ "accountStatus" \in DOMAIN w.set => w.set.accountStatus \in UserStatuses
  \/ /\ w.table = "membership" /\ w.set = [active |-> TRUE]
  \/ /\ w.table = "invitation" /\ w.id \in Invitations
     /\ "status" \in DOMAIN w.set /\ w.set.status \in InvitationStatuses
     /\ "invitee" \in DOMAIN w.set => w.set.invitee \in Users
     /\ "role" \in DOMAIN w.set => w.set.role \in Roles \cup {None}
     /\ "organizationId" \in DOMAIN w.set => w.set.organizationId \in Organizations \cup {None}
     /\ "expired" \in DOMAIN w.set => w.set.expired \in BOOLEAN
     /\ "saw" \in DOMAIN w.set => w.set.saw \in SUBSET Invitations
  \/ /\ w.table = "assignment" /\ w.id \in Assignments
     /\ "status" \in DOMAIN w.set => w.set.status \in {"NONE", "ACTIVE", "REVOKED"}
     /\ "userId" \in DOMAIN w.set => w.set.userId \in Users \cup {None}
     /\ "role" \in DOMAIN w.set => w.set.role \in InternalRoles \cup {None}
     /\ "period" \in DOMAIN w.set => w.set.period \in {"FUTURE", "CURRENT", "PAST"}
  \/ /\ w.table = "approval" /\ w.id \in Approvals
     /\ "status" \in DOMAIN w.set
     /\ w.set.status \in {"PENDING", "EXECUTION_BLOCKED", "REJECTED"}
     /\ "operationType" \in DOMAIN w.set =>
          w.set.operationType \in DOMAIN highRiskOperationPermissions \cup {None}
     /\ "requesterId" \in DOMAIN w.set => w.set.requesterId \in Users \cup {None}
     /\ "approverId" \in DOMAIN w.set => w.set.approverId \in Users \cup {None}

\* A write that takes no active Super Admin out of service.
SparesSuperAdmins(w) ==
  w.table = "user" /\ "accountStatus" \in DOMAIN w.set =>
    \/ w.set.accountStatus = "ACTIVE"
    \/ user[w.id].accountStatus # "ACTIVE"
    \/ user[w.id].role # "SUPER_ADMIN"

\* A write to an approval either makes a new one, without an approver, or records the
\* decision of somebody else than the one who asked.
KeepsDualControl(w) ==
  w.table = "approval" =>
    \/ approval[w.id].status = "NONE" /\ "approverId" \notin DOMAIN w.set
    \/ /\ approval[w.id].status # "NONE" /\ "requesterId" \notin DOMAIN w.set
       /\ "approverId" \in DOMAIN w.set /\ w.set.approverId # approval[w.id].requesterId

\* The three ways in which handlers write invitations first: not at all, the row of one that was
\* checked and is going to be created, and the end of pending ones without acceptance.
LeavesInvitations(writes) == \A w \in writes : w.table # "invitation"

Checks(writes) ==
  \E i \in Invitations, u \in Users, role \in Roles, o \in Organizations \cup {None} :
    /\ writes = {Write("invitation", i, CheckedRow(u, role, o))}
    /\ invitation[i].status = "NONE"
    /\ \A j \in Invitations : ~(Live(j) /\ SamePlace(j, u, role, o))

Ends(writes) ==
  \A w \in writes :
    \E i \in Invitations, status \in {"DECLINED", "EXPIRED", "CANCELLED", "REVOKED"} :
      w = Resolve(i, status) /\ invitation[i].status = "PENDING"

\* An acceptance ends an invitation that exists, whatever became of it in the meantime, writes
\* the account of its invitee, and makes an invited provider a member.
Accepts(writes, i) ==
  /\ Exists(i)
  /\ \A w \in writes : w.table = "invitation" => w = Resolve(i, "ACCEPTED")
  /\ \A w \in writes : w.table = "user" => w.id = invitation[i].invitee
  /\ invitation[i].role = "PROVIDER" /\ invitation[i].organizationId # None
       => Write("membership", <<invitation[i].invitee, invitation[i].organizationId>>,
                [active |-> TRUE]) \in writes

\* What is still to be written: a membership, or a status that was decided.
MembershipWrites == [table: {"membership"}, id: Users \X Organizations, set: [active: {TRUE}]]

StatusWrites ==
  [table: {"user"}, id: Users, set: [accountStatus: {"ACTIVE", "SUSPENDED", "DEACTIVATED"}],
   counted: SUBSET Users, role: Roles \cup {None}]

\* An acceptance that has not read the account yet, and one that has.
BeginOK(w) == w \in [invitation: Invitations] /\ Exists(w.invitation)

AcceptanceOK(w) ==
  /\ DOMAIN w = {"invitation", "internal", "found", "set"}
  /\ w.invitation \in Invitations /\ Exists(w.invitation)
  /\ "role" \in DOMAIN w.set => w.set.role \in Roles \cup {None}
  /\ "organizationId" \in DOMAIN w.set => w.set.organizationId \in Organizations \cup {None}
  /\ "accountStatus" \in DOMAIN w.set /\ w.set.accountStatus \in {"ACTIVE", "SUSPENDED"}
  /\ (w.set.accountStatus = "SUSPENDED") <=> (w.found = "SUSPENDED")
  /\ w.internal => invitation[w.invitation].role \in InternalRoles

LaterOK(w) ==
  \/ w \in MembershipWrites
  \/ /\ w \in StatusWrites
     /\ w.set.accountStatus # "ACTIVE" /\ w.role = "SUPER_ADMIN" => w.counted # {}
  \/ BeginOK(w) \/ AcceptanceOK(w)

\* What a handler commits first, and what it leaves for later.
Sound(writes, others) ==
  /\ \A w \in writes : TypedWrite(w) /\ SparesSuperAdmins(w) /\ KeepsDualControl(w)
  /\ \A w \in others : LaterOK(w)
  /\ LeavesInvitations(writes) \/ Checks(writes) \/ Ends(writes)

\* Invitations that exist are somebody's.
InviteesKnown ==
  \A i \in Invitations : invitation[i].status # "NONE" => invitation[i].invitee \in Users

\* What a request saw when it made its checks still exists, and none of it can be accepted for
\* the place that the request invites to.
SawOK ==
  \A i \in Invitations : invitation[i].status # "NONE" =>
    \A j \in invitation[i].saw :
      /\ Exists(j)
      /\ ~(/\ Live(j)
           /\ SamePlace(j, invitation[i].invitee, invitation[i].role,
                        invitation[i].organizationId))

\* An approval that was never asked for has no approver.
NoEarlyApprover == \A a \in Approvals : approval[a].status = "NONE" => approval[a].approverId = None

\* The inductive invariant.
IInv ==
  /\ AccountsTypeOK /\ AcceptedProviderIsMember /\ DualControl
  /\ InviteesKnown /\ SawOK /\ NoEarlyApprover
  /\ \A w \in later : LaterOK(w)

-----------------------------------------------------------------------------
(* Rows and writes.                                                        *)

\* The columns that a patch sets are the patch's, the others stay.
Overlay(row, set) == [c \in DOMAIN row |-> IF c \in DOMAIN set THEN set[c] ELSE row[c]]

\* A row that no write names stays as it is.
LEMMA PatchedElsewhere ==
  ASSUME NEW f, NEW table, NEW writes, NEW x \in DOMAIN f,
         \A w \in writes : ~(w.table = table /\ w.id = x)
  PROVE  Patched(f, table, writes)[x] = f[x]
<1>1. {w.set : w \in {v \in writes : v.table = table /\ v.id = x}} = {}
  OBVIOUS
<1> QED BY <1>1 DEF Patched

\* A row that a write names is overlaid with the columns of such a write.
LEMMA PatchedThere ==
  ASSUME NEW f, NEW table, NEW writes, NEW x \in DOMAIN f,
         NEW v \in writes, v.table = table, v.id = x
  PROVE  \E w \in writes : /\ w.table = table /\ w.id = x
                           /\ Patched(f, table, writes)[x] = Overlay(f[x], w.set)
<1> DEFINE sets == {w.set : w \in {u \in writes : u.table = table /\ u.id = x}}
           set == CHOOSE t \in sets : TRUE
<1>1. sets # {}
  OBVIOUS
<1>2. set \in sets
  BY <1>1
<1>3. PICK w \in writes : w.table = table /\ w.id = x /\ w.set = set
  BY <1>2
<1>4. Patched(f, table, writes)[x] = Overlay(f[x], set)
  BY <1>1 DEF Patched, Overlay
<1> QED BY <1>3, <1>4

\* A patched table has the rows it had.
LEMMA PatchedDomain ==
  ASSUME NEW f, NEW table, NEW writes
  PROVE  /\ DOMAIN Patched(f, table, writes) = DOMAIN f
         /\ Patched(f, table, writes)
              = [x \in DOMAIN f |-> Patched(f, table, writes)[x]]
<1> QED BY DEF Patched

\* Any row of a patched table is as it was, or overlaid by one of the writes to it.
LEMMA PatchedRow ==
  ASSUME NEW f, NEW table, NEW writes, NEW x \in DOMAIN f
  PROVE  \/ /\ Patched(f, table, writes)[x] = f[x]
            /\ \A w \in writes : ~(w.table = table /\ w.id = x)
         \/ \E w \in writes : /\ w.table = table /\ w.id = x
                              /\ Patched(f, table, writes)[x] = Overlay(f[x], w.set)
<1>1. CASE \E w \in writes : w.table = table /\ w.id = x
  BY <1>1, PatchedThere
<1>2. CASE \A w \in writes : ~(w.table = table /\ w.id = x)
  BY <1>2, PatchedElsewhere
<1> QED BY <1>1, <1>2

-----------------------------------------------------------------------------
(* What sound writes preserve.                                             *)

\* Typed writes keep the types of all tables.
LEMMA WritesKeepTypes ==
  ASSUME AccountsTypeOK, NEW writes, \A w \in writes : TypedWrite(w), Apply(writes)
  PROVE  AccountsTypeOK'
<1>1. user' \in [Users -> UserRows]
  <2>1. DOMAIN user = Users
    BY DEF AccountsTypeOK
  <2>2. SUFFICES ASSUME NEW u \in Users PROVE user'[u] \in UserRows
    BY <2>1, PatchedDomain DEF Apply
  <2>3. user[u] \in UserRows
    BY DEF AccountsTypeOK
  <2>4. CASE user'[u] = user[u]
    BY <2>3, <2>4
  <2>5. ASSUME NEW w \in writes, w.table = "user", user'[u] = Overlay(user[u], w.set)
        PROVE  user'[u] \in UserRows
    <3>1. TypedWrite(w) OBVIOUS
    <3> QED BY <2>3, <2>5, <3>1 DEF TypedWrite, Overlay, UserRows, UserStatuses
  <2> QED BY <2>1, <2>4, <2>5, PatchedRow DEF Apply
<1>2. membership' \in [Users \X Organizations -> MembershipRows]
  <2>1. DOMAIN membership = Users \X Organizations
    BY DEF AccountsTypeOK
  <2>2. SUFFICES ASSUME NEW m \in Users \X Organizations PROVE membership'[m] \in MembershipRows
    BY <2>1, PatchedDomain DEF Apply
  <2>3. membership[m] \in MembershipRows
    BY DEF AccountsTypeOK
  <2>4. CASE membership'[m] = membership[m]
    BY <2>3, <2>4
  <2>5. ASSUME NEW w \in writes, w.table = "membership",
               membership'[m] = Overlay(membership[m], w.set)
        PROVE  membership'[m] \in MembershipRows
    <3>1. w.set = [active |-> TRUE]
      BY <2>5 DEF TypedWrite
    <3>2. membership'[m] = [active |-> TRUE]
      BY <2>3, <2>5, <3>1 DEF Overlay, MembershipRows
    <3> QED BY <3>2 DEF MembershipRows
  <2> QED BY <2>1, <2>4, <2>5, PatchedRow DEF Apply
<1>3. invitation' \in [Invitations -> InvitationRows]
  <2>1. DOMAIN invitation = Invitations
    BY DEF AccountsTypeOK
  <2>2. SUFFICES ASSUME NEW i \in Invitations PROVE invitation'[i] \in InvitationRows
    BY <2>1, PatchedDomain DEF Apply
  <2>3. invitation[i] \in InvitationRows
    BY DEF AccountsTypeOK
  <2>4. CASE invitation'[i] = invitation[i]
    BY <2>3, <2>4
  <2>5. ASSUME NEW w \in writes, w.table = "invitation",
               invitation'[i] = Overlay(invitation[i], w.set)
        PROVE  invitation'[i] \in InvitationRows
    <3>1. TypedWrite(w) OBVIOUS
    <3> QED BY <2>3, <2>5, <3>1 DEF TypedWrite, Overlay, InvitationRows, InvitationStatuses
  <2> QED BY <2>1, <2>4, <2>5, PatchedRow DEF Apply
<1>4. assignment' \in [Assignments -> AssignmentRows]
  <2>1. DOMAIN assignment = Assignments
    BY DEF AccountsTypeOK
  <2>2. SUFFICES ASSUME NEW a \in Assignments PROVE assignment'[a] \in AssignmentRows
    BY <2>1, PatchedDomain DEF Apply
  <2>3. assignment[a] \in AssignmentRows
    BY DEF AccountsTypeOK
  <2>4. CASE assignment'[a] = assignment[a]
    BY <2>3, <2>4
  <2>5. ASSUME NEW w \in writes, w.table = "assignment",
               assignment'[a] = Overlay(assignment[a], w.set)
        PROVE  assignment'[a] \in AssignmentRows
    <3>1. TypedWrite(w) OBVIOUS
    <3> QED BY <2>3, <2>5, <3>1 DEF TypedWrite, Overlay, AssignmentRows
  <2> QED BY <2>1, <2>4, <2>5, PatchedRow DEF Apply
<1>5. approval' \in [Approvals -> ApprovalRows]
  <2>1. DOMAIN approval = Approvals
    BY DEF AccountsTypeOK
  <2>2. SUFFICES ASSUME NEW a \in Approvals PROVE approval'[a] \in ApprovalRows
    BY <2>1, PatchedDomain DEF Apply
  <2>3. approval[a] \in ApprovalRows
    BY DEF AccountsTypeOK
  <2>4. CASE approval'[a] = approval[a]
    BY <2>3, <2>4
  <2>5. ASSUME NEW w \in writes, w.table = "approval",
               approval'[a] = Overlay(approval[a], w.set)
        PROVE  approval'[a] \in ApprovalRows
    <3>1. TypedWrite(w) OBVIOUS
    <3> QED BY <2>3, <2>5, <3>1 DEF TypedWrite, Overlay, ApprovalRows
  <2> QED BY <2>1, <2>4, <2>5, PatchedRow DEF Apply
<1> QED BY <1>1, <1>2, <1>3, <1>4, <1>5 DEF AccountsTypeOK

\* Memberships are only gained.
LEMMA MembersStay ==
  ASSUME AccountsTypeOK, NEW writes, \A w \in writes : TypedWrite(w), Apply(writes),
         NEW m \in Users \X Organizations
  PROVE  /\ membership[m].active => membership'[m].active
         /\ Write("membership", m, [active |-> TRUE]) \in writes => membership'[m].active
<1>1. DOMAIN membership = Users \X Organizations /\ membership[m] \in MembershipRows
  BY DEF AccountsTypeOK
<1>2. ASSUME NEW w \in writes, w.table = "membership",
             membership'[m] = Overlay(membership[m], w.set)
      PROVE  membership'[m].active
  <2>1. w.set = [active |-> TRUE]
    BY <1>2 DEF TypedWrite
  <2> QED BY <1>1, <1>2, <2>1 DEF Overlay, MembershipRows
<1>3. CASE \A w \in writes : ~(w.table = "membership" /\ w.id = m)
  <2>1. membership'[m] = membership[m]
    BY <1>1, <1>3, PatchedElsewhere DEF Apply
  <2> QED BY <1>3, <2>1 DEF Write
<1> QED BY <1>1, <1>2, <1>3, PatchedRow DEF Apply

\* The decision on an approval stays another one's, and none is decided before it is asked for.
LEMMA WritesKeepDualControl ==
  ASSUME AccountsTypeOK, DualControl, NoEarlyApprover, NEW writes, Apply(writes),
         \A w \in writes : TypedWrite(w) /\ KeepsDualControl(w)
  PROVE  DualControl' /\ NoEarlyApprover'
<1> SUFFICES ASSUME NEW a \in Approvals
             PROVE  /\ approval'[a].approverId # None
                          => approval'[a].approverId # approval'[a].requesterId
                    /\ approval'[a].status = "NONE" => approval'[a].approverId = None
  BY DEF DualControl, NoEarlyApprover
<1>1. DOMAIN approval = Approvals /\ approval[a] \in ApprovalRows
  BY DEF AccountsTypeOK
<1>2. CASE approval'[a] = approval[a]
  BY <1>2 DEF DualControl, NoEarlyApprover
<1>3. ASSUME NEW w \in writes, w.table = "approval", w.id = a,
             approval'[a] = Overlay(approval[a], w.set)
      PROVE  /\ approval'[a].approverId # None
                   => approval'[a].approverId # approval'[a].requesterId
             /\ approval'[a].status = "NONE" => approval'[a].approverId = None
  <2>1. TypedWrite(w) /\ KeepsDualControl(w)
    BY <1>3
  <2>2. approval'[a].status # "NONE"
    BY <1>1, <1>3, <2>1 DEF TypedWrite, Overlay, ApprovalRows
  <2>3. CASE approval[a].status = "NONE" /\ "approverId" \notin DOMAIN w.set
    BY <1>1, <1>3, <2>2, <2>3 DEF Overlay, ApprovalRows, NoEarlyApprover
  <2>4. CASE /\ "requesterId" \notin DOMAIN w.set /\ "approverId" \in DOMAIN w.set
             /\ w.set.approverId # approval[a].requesterId
    BY <1>1, <1>3, <2>2, <2>4 DEF Overlay, ApprovalRows
  <2> QED BY <1>3, <2>1, <2>3, <2>4 DEF KeepsDualControl
<1> QED BY <1>1, <1>2, <1>3, PatchedRow DEF Apply

\* An invitation that no write names stays as it is.
LEMMA InvitationStays ==
  ASSUME AccountsTypeOK, NEW writes, Apply(writes), NEW i \in Invitations,
         \A w \in writes : ~(w.table = "invitation" /\ w.id = i)
  PROVE  invitation'[i] = invitation[i]
<1> QED BY PatchedElsewhere DEF Apply, AccountsTypeOK

\* The end of an invitation changes nothing but its status.
LEMMA InvitationEnds ==
  ASSUME AccountsTypeOK, NEW writes, Apply(writes), NEW i \in Invitations, NEW status,
         \A w \in writes : w.table = "invitation" /\ w.id = i => w = Resolve(i, status),
         Resolve(i, status) \in writes
  PROVE  invitation'[i] = [invitation[i] EXCEPT !.status = status]
<1>1. DOMAIN invitation = Invitations /\ invitation[i] \in InvitationRows
  BY DEF AccountsTypeOK
<1>2. Resolve(i, status) = [table |-> "invitation", id |-> i, set |-> [status |-> status]]
  BY DEF Resolve, Write
<1>3. PICK w \in writes : /\ w.table = "invitation" /\ w.id = i
                          /\ invitation'[i] = Overlay(invitation[i], w.set)
  BY <1>1, <1>2, PatchedThere DEF Apply
<1>4. invitation'[i] = Overlay(invitation[i], [status |-> status])
  BY <1>2, <1>3
<1> QED BY <1>1, <1>4 DEF Overlay, InvitationRows

\* What a step can do to an invitation.  It keeps the columns, and nothing that exists
\* disappears or can be accepted again.
Kept(i) ==
  /\ invitation'[i].invitee = invitation[i].invitee /\ invitation'[i].role = invitation[i].role
  /\ invitation'[i].organizationId = invitation[i].organizationId
  /\ invitation'[i].saw = invitation[i].saw
  /\ invitation[i].status = "NONE" => invitation'[i].status = "NONE"
  /\ Exists(i) => Exists(i)' /\ (Live(i)' => Live(i))

\* Or a request has made its checks for it.
CheckedNow(i) ==
  /\ invitation[i].status = "NONE" /\ ~Exists(i)'
  /\ invitation'[i].invitee \in Users
  /\ invitation'[i].saw = {j \in Invitations : Exists(j)}
  /\ \A j \in Invitations :
       ~(Live(j) /\ SamePlace(j, invitation'[i].invitee, invitation'[i].role,
                              invitation'[i].organizationId))

\* Or that request is lost.
Dropped(i) == ~Exists(i) /\ invitation'[i].status = "NONE"

\* A provider is a member as soon as the invitation is accepted.
NewMember(i) ==
  /\ invitation'[i].status = "ACCEPTED"
  /\ invitation'[i].role = "PROVIDER" /\ invitation'[i].organizationId # None
  => \/ invitation[i].status = "ACCEPTED"
     \/ membership'[<<invitation'[i].invitee, invitation'[i].organizationId>>].active

MembersKept == \A m \in Users \X Organizations : membership[m].active => membership'[m].active

InvitationsOK == AcceptedProviderIsMember /\ InviteesKnown /\ SawOK

\* Invitations stay in order when each of them is kept, checked for or dropped.
LEMMA InvitationSteps ==
  ASSUME AccountsTypeOK, InvitationsOK, MembersKept,
         \A i \in Invitations : Kept(i) \/ CheckedNow(i) \/ Dropped(i),
         \A i \in Invitations : NewMember(i)
  PROVE  InvitationsOK' /\ \A i \in Invitations : Exists(i) => Kept(i)
<1>1. ASSUME NEW i \in Invitations, Exists(i) PROVE Kept(i)
  BY <1>1 DEF CheckedNow, Dropped, Exists
<1>2. InviteesKnown'
  <2> SUFFICES ASSUME NEW i \in Invitations, invitation'[i].status # "NONE"
               PROVE  invitation'[i].invitee \in Users
    BY DEF InviteesKnown
  <2> QED BY DEF InvitationsOK, InviteesKnown, Kept, CheckedNow, Dropped
<1>3. AcceptedProviderIsMember'
  <2> SUFFICES ASSUME NEW i \in Invitations, invitation'[i].status = "ACCEPTED",
                      invitation'[i].role = "PROVIDER", invitation'[i].organizationId # None
               PROVE  membership'[<<invitation'[i].invitee, invitation'[i].organizationId>>].active
    BY DEF AcceptedProviderIsMember, HasMembership
  <2>1. CASE invitation[i].status = "ACCEPTED"
    <3>1. Kept(i)
      BY <1>1, <2>1 DEF Exists
    <3>2. <<invitation[i].invitee, invitation[i].organizationId>> \in Users \X Organizations
      BY <2>1, <3>1 DEF AccountsTypeOK, InvitationRows, InvitationsOK, InviteesKnown, Kept
    <3>3. membership[<<invitation[i].invitee, invitation[i].organizationId>>].active
      BY <2>1, <3>1 DEF InvitationsOK, AcceptedProviderIsMember, HasMembership, Kept
    <3> QED BY <3>1, <3>2, <3>3 DEF MembersKept, Kept
  <2>2. CASE invitation[i].status # "ACCEPTED"
    BY <2>2 DEF NewMember
  <2> QED BY <2>1, <2>2
<1>4. SawOK'
  <2> SUFFICES ASSUME NEW i \in Invitations, invitation'[i].status # "NONE",
                      NEW j \in invitation'[i].saw
               PROVE  /\ Exists(j)'
                      /\ Live(j)' => ~SamePlace(j, invitation[i].invitee, invitation[i].role,
                                                invitation[i].organizationId)'
    BY DEF SawOK
  <2>1. /\ j \in Invitations /\ Exists(j)
        /\ Live(j) => ~SamePlace(j, invitation'[i].invitee, invitation'[i].role,
                                 invitation'[i].organizationId)
    <3>1. CASE Kept(i)
      <4>1. invitation[i].status # "NONE" /\ j \in invitation[i].saw
        BY <3>1 DEF Kept
      <4>2. j \in Invitations
        BY <4>1 DEF AccountsTypeOK, InvitationRows
      <4> QED BY <3>1, <4>1, <4>2 DEF InvitationsOK, SawOK, Kept
    <3>2. CASE CheckedNow(i)
      BY <3>2 DEF CheckedNow
    <3> QED BY <3>1, <3>2 DEF Dropped
  <2>2. Kept(j)
    BY <1>1, <2>1
  <2>3. Exists(j)' /\ (Live(j)' => Live(j))
    BY <2>1, <2>2 DEF Kept
  <2>4. SamePlace(j, invitation[i].invitee, invitation[i].role, invitation[i].organizationId)'
          => SamePlace(j, invitation'[i].invitee, invitation'[i].role,
                       invitation'[i].organizationId)
    BY <2>2 DEF SamePlace, Kept
  <2> QED BY <2>1, <2>3, <2>4
<1> QED BY <1>1, <1>2, <1>3, <1>4 DEF InvitationsOK

\* Typed writes keep members.
LEMMA WritesKeepMembers ==
  ASSUME AccountsTypeOK, NEW writes, Apply(writes), \A w \in writes : TypedWrite(w)
  PROVE  MembersKept
<1> QED BY MembersStay DEF MembersKept

\* An invitation that stays is kept.
LEMMA SameIsKept ==
  ASSUME NEW i \in Invitations, invitation'[i] = invitation[i]
  PROVE  Kept(i) /\ NewMember(i)
<1> QED BY DEF Kept, NewMember, Exists, Live

\* So is one that ends, unless it did not exist.
LEMMA EndIsKept ==
  ASSUME AccountsTypeOK, NEW i \in Invitations, Exists(i),
         NEW status \in {"ACCEPTED", "DECLINED", "EXPIRED", "CANCELLED", "REVOKED"},
         invitation'[i] = [invitation[i] EXCEPT !.status = status]
  PROVE  /\ Kept(i) /\ invitation'[i].status = status
         /\ status # "ACCEPTED" => NewMember(i)
<1>1. invitation[i] \in InvitationRows
  BY DEF AccountsTypeOK
<1>2. /\ invitation'[i].status = status /\ invitation'[i].invitee = invitation[i].invitee
      /\ invitation'[i].role = invitation[i].role /\ invitation'[i].saw = invitation[i].saw
      /\ invitation'[i].organizationId = invitation[i].organizationId
  BY <1>1 DEF InvitationRows
<1> QED BY <1>2 DEF Kept, NewMember, Exists, Live

\* Without a write to them.
LEMMA LeftInvitations ==
  ASSUME AccountsTypeOK, NEW writes, Apply(writes), LeavesInvitations(writes)
  PROVE  \A i \in Invitations : Kept(i) /\ NewMember(i)
<1>1. \A i \in Invitations : invitation'[i] = invitation[i]
  BY InvitationStays DEF LeavesInvitations
<1> QED BY <1>1, SameIsKept

\* When a request has made its checks.
LEMMA CheckedInvitation ==
  ASSUME AccountsTypeOK, NEW writes, Apply(writes), Checks(writes)
  PROVE  \A i \in Invitations : (Kept(i) \/ CheckedNow(i)) /\ NewMember(i)
<1>1. PICK i \in Invitations, u \in Users, role \in Roles, o \in Organizations \cup {None} :
        /\ writes = {Write("invitation", i, CheckedRow(u, role, o))}
        /\ invitation[i].status = "NONE"
        /\ \A j \in Invitations : ~(Live(j) /\ SamePlace(j, u, role, o))
  BY DEF Checks
<1> DEFINE new == CheckedRow(u, role, o)
           w == Write("invitation", i, new)
<1>2. DOMAIN invitation = Invitations /\ invitation[i] \in InvitationRows
  BY DEF AccountsTypeOK
<1>3. w.table = "invitation" /\ w.id = i /\ w.set = new
  BY DEF Write
<1>4. /\ DOMAIN new = {"status", "invitee", "role", "organizationId", "expired", "saw"}
      /\ new.status = "CHECKED" /\ new.invitee = u /\ new.role = role
      /\ new.organizationId = o /\ new.saw = {j \in Invitations : Exists(j)}
  BY DEF CheckedRow
<1> HIDE DEF new
<1>5. invitation'[i] = Overlay(invitation[i], new)
  <2>1. writes = {w}
    BY <1>1 DEF new
  <2> HIDE DEF w
  <2>2. \E v \in {w} : invitation'[i] = Overlay(invitation[i], v.set)
    BY <1>2, <1>3, <2>1, PatchedThere DEF Apply
  <2> QED BY <1>3, <2>2
<1>6. /\ invitation'[i].status = "CHECKED" /\ invitation'[i].invitee = u
      /\ invitation'[i].role = role /\ invitation'[i].organizationId = o
      /\ invitation'[i].saw = {j \in Invitations : Exists(j)}
  BY <1>2, <1>4, <1>5 DEF Overlay, InvitationRows
<1>7. CheckedNow(i) /\ NewMember(i)
  BY <1>1, <1>6 DEF CheckedNow, NewMember, Exists
<1>8. ASSUME NEW j \in Invitations \ {i} PROVE Kept(j) /\ NewMember(j)
  <2>1. writes = {w}
    BY <1>1 DEF new
  <2> HIDE DEF w
  <2>2. invitation'[j] = invitation[j]
    BY <1>3, <2>1, InvitationStays
  <2> QED BY <2>2, SameIsKept
<1> QED BY <1>7, <1>8

\* When pending ones end without acceptance.
LEMMA EndedInvitations ==
  ASSUME AccountsTypeOK, NEW writes, Apply(writes), Ends(writes)
  PROVE  \A i \in Invitations : Kept(i) /\ NewMember(i)
<1> SUFFICES ASSUME NEW i \in Invitations PROVE Kept(i) /\ NewMember(i)
  OBVIOUS
<1>1. CASE \A w \in writes : ~(w.table = "invitation" /\ w.id = i)
  BY <1>1, InvitationStays, SameIsKept
<1>2. CASE \E w \in writes : w.table = "invitation" /\ w.id = i
  <2>1. DOMAIN invitation = Invitations /\ invitation[i] \in InvitationRows
    BY DEF AccountsTypeOK
  <2>2. PICK w \in writes : /\ w.table = "invitation" /\ w.id = i
                            /\ invitation'[i] = Overlay(invitation[i], w.set)
    BY <1>2, <2>1, PatchedThere DEF Apply
  <2>3. PICK j \in Invitations, status \in {"DECLINED", "EXPIRED", "CANCELLED", "REVOKED"} :
          w = Resolve(j, status) /\ invitation[j].status = "PENDING"
    BY DEF Ends
  <2>4. j = i /\ w.set = [status |-> status]
    BY <2>2, <2>3 DEF Resolve, Write
  <2>5. invitation'[i] = [invitation[i] EXCEPT !.status = status]
    BY <2>1, <2>2, <2>4 DEF Overlay, InvitationRows
  <2>6. Exists(i)
    BY <2>3, <2>4 DEF Exists
  <2> QED BY <2>5, <2>6, EndIsKept
<1> QED BY <1>1, <1>2

\* When one is accepted: a provider becomes a member in the same transaction.
LEMMA AcceptedInvitation ==
  ASSUME AccountsTypeOK, InvitationsOK, NEW writes, Apply(writes),
         \A w \in writes : TypedWrite(w), NEW i \in Invitations, Accepts(writes, i)
  PROVE  \A j \in Invitations : Kept(j) /\ NewMember(j)
<1>1. Resolve(i, "ACCEPTED").id = i
  BY DEF Resolve, Write
<1>2. ASSUME NEW j \in Invitations, j # i PROVE Kept(j) /\ NewMember(j)
  <2>1. invitation'[j] = invitation[j]
    BY <1>1, <1>2, InvitationStays DEF Accepts
  <2> QED BY <2>1, SameIsKept
<1>3. Kept(i) /\ NewMember(i)
  <2>1. CASE Resolve(i, "ACCEPTED") \in writes
    <3>1. invitation'[i] = [invitation[i] EXCEPT !.status = "ACCEPTED"]
      BY <2>1, InvitationEnds DEF Accepts
    <3>2. Kept(i)
      BY <3>1, EndIsKept DEF Accepts
    <3>3. NewMember(i)
      <4> SUFFICES ASSUME invitation'[i].role = "PROVIDER", invitation'[i].organizationId # None
                   PROVE  membership'[<<invitation'[i].invitee,
                                        invitation'[i].organizationId>>].active
        BY DEF NewMember
      <4>1. invitation[i].role = "PROVIDER" /\ invitation[i].organizationId # None
        BY <3>2 DEF Kept
      <4>2. <<invitation[i].invitee, invitation[i].organizationId>> \in Users \X Organizations
        BY <4>1 DEF AccountsTypeOK, InvitationRows, InvitationsOK, InviteesKnown, Accepts, Exists
      <4>3. membership'[<<invitation[i].invitee, invitation[i].organizationId>>].active
        BY <4>1, <4>2, MembersStay DEF Accepts
      <4> QED BY <3>2, <4>3 DEF Kept
    <3> QED BY <3>2, <3>3
  <2>2. CASE Resolve(i, "ACCEPTED") \notin writes
    BY <2>2, InvitationStays, SameIsKept DEF Accepts
  <2> QED BY <2>1, <2>2
<1> QED BY <1>2, <1>3

\* What is left for later stays in order as long as the invitations that exist are kept.
LEMMA LaterStays ==
  ASSUME \A i \in Invitations : Exists(i) => Kept(i), NEW w, LaterOK(w)
  PROVE  LaterOK(w)'
<1>1. CASE BeginOK(w)
  BY <1>1 DEF LaterOK, BeginOK, Kept
<1>2. CASE AcceptanceOK(w)
  <2>1. Kept(w.invitation)
    BY <1>2 DEF AcceptanceOK
  <2> QED BY <1>2, <2>1 DEF LaterOK, AcceptanceOK, Kept
<1>3. CASE ~BeginOK(w) /\ ~AcceptanceOK(w)
  BY <1>3 DEF LaterOK
<1> QED BY <1>1, <1>2, <1>3

\* Sound writes keep all that the rows promise each other.
LEMMA SoundWritesKeepRows ==
  ASSUME IInv, NEW writes, NEW others, Sound(writes, others), Apply(writes)
  PROVE  /\ AccountsTypeOK' /\ InvitationsOK' /\ DualControl' /\ NoEarlyApprover'
         /\ \A i \in Invitations : Exists(i) => Kept(i)
<1>1. \A w \in writes : TypedWrite(w) /\ KeepsDualControl(w)
  BY DEF Sound
<1>2. AccountsTypeOK /\ InvitationsOK /\ DualControl /\ NoEarlyApprover
  BY DEF IInv, InvitationsOK
<1>3. AccountsTypeOK'
  BY <1>1, <1>2, WritesKeepTypes
<1>4. DualControl' /\ NoEarlyApprover'
  BY <1>1, <1>2, WritesKeepDualControl
<1>5. \A i \in Invitations : (Kept(i) \/ CheckedNow(i)) /\ NewMember(i)
  BY <1>2, LeftInvitations, CheckedInvitation, EndedInvitations DEF Sound
<1>6. MembersKept
  BY <1>1, <1>2, WritesKeepMembers
<1>7. InvitationsOK' /\ \A i \in Invitations : Exists(i) => Kept(i)
  BY <1>2, <1>5, <1>6, InvitationSteps
<1> QED BY <1>3, <1>4, <1>7

-----------------------------------------------------------------------------
(* What the endpoints write is sound.                                      *)

\* A step that commits sound writes and leaves sound ones for later.
SoundStep == \E writes, others : CommitThen(writes, others) /\ Sound(writes, others)

\* Changes of one account.
LEMMA UserWriteSound ==
  ASSUME NEW u \in Users, NEW set, NEW others, \A w \in others : LaterOK(w),
         "role" \in DOMAIN set => set.role \in Roles \cup {None},
         "organizationId" \in DOMAIN set => set.organizationId \in Organizations \cup {None},
         "accountStatus" \in DOMAIN set =>
           /\ set.accountStatus \in UserStatuses
           /\ \/ set.accountStatus = "ACTIVE" \/ user[u].accountStatus # "ACTIVE"
              \/ user[u].role # "SUPER_ADMIN"
  PROVE  Sound({Write("user", u, set)}, others)
<1> DEFINE w == Write("user", u, set)
<1>1. w.table = "user" /\ w.id = u /\ w.set = set
  BY DEF Write
<1> HIDE DEF w
<1>2. TypedWrite(w)
  BY <1>1 DEF TypedWrite
<1>3. SparesSuperAdmins(w)
  BY <1>1 DEF SparesSuperAdmins
<1>4. KeepsDualControl(w)
  BY <1>1 DEF KeepsDualControl
<1>5. LeavesInvitations({w})
  BY <1>1 DEF LeavesInvitations
<1>6. Sound({w}, others)
  BY <1>2, <1>3, <1>4, <1>5 DEF Sound
<1> QED BY <1>6 DEF w

\* The row of an invitation that was checked.
LEMMA CheckedSound ==
  ASSUME NEW u \in Users, NEW role \in Roles, NEW o \in Organizations \cup {None},
         Checked(u, role, o), \A j \in Invitations : ~(Live(j) /\ SamePlace(j, u, role, o))
  PROVE  SoundStep
<1>1. PICK i \in Invitations :
        /\ invitation[i].status = "NONE"
        /\ Commit({Write("invitation", i, CheckedRow(u, role, o))})
  BY DEF Checked
<1> DEFINE new == CheckedRow(u, role, o)
           w == Write("invitation", i, new)
<1>2. w.table = "invitation" /\ w.id = i /\ w.set = new
  BY DEF Write
<1>3. /\ DOMAIN new = {"status", "invitee", "role", "organizationId", "expired", "saw"}
      /\ new.status = "CHECKED" /\ new.invitee = u /\ new.role = role
      /\ new.organizationId = o /\ new.expired \in BOOLEAN /\ new.saw \in SUBSET Invitations
  BY DEF CheckedRow
<1>4. Checks({w})
  BY <1>1 DEF Checks
<1> HIDE DEF w, new
<1>5. TypedWrite(w)
  BY <1>2, <1>3 DEF TypedWrite, InvitationStatuses
<1>6. SparesSuperAdmins(w) /\ KeepsDualControl(w)
  BY <1>2 DEF SparesSuperAdmins, KeepsDualControl
<1>7. Sound({w}, {})
  BY <1>4, <1>5, <1>6 DEF Sound
<1> QED BY <1>1, <1>7 DEF SoundStep, Commit, w, new

\* The status of an invitation.
LEMMA ResolveTyped ==
  ASSUME NEW i \in Invitations, NEW status \in InvitationStatuses
  PROVE  /\ TypedWrite(Resolve(i, status)) /\ SparesSuperAdmins(Resolve(i, status))
         /\ KeepsDualControl(Resolve(i, status))
         /\ Resolve(i, status).table = "invitation"
<1> DEFINE w == Resolve(i, status)
<1>1. w.table = "invitation" /\ w.id = i /\ w.set = [status |-> status]
  BY DEF Resolve, Write
<1> HIDE DEF w
<1>2. TypedWrite(w)
  BY <1>1 DEF TypedWrite
<1>3. SparesSuperAdmins(w) /\ KeepsDualControl(w)
  BY <1>1 DEF SparesSuperAdmins, KeepsDualControl
<1> QED BY <1>1, <1>2, <1>3 DEF w

\* The end of pending invitations.
LEMMA EndsSound ==
  ASSUME NEW ids \in SUBSET Invitations, \A i \in ids : invitation[i].status = "PENDING",
         NEW status \in {"DECLINED", "EXPIRED", "CANCELLED", "REVOKED"}
  PROVE  Sound({Resolve(i, status) : i \in ids}, {})
<1> DEFINE writes == {Resolve(i, status) : i \in ids}
<1>1. \A w \in writes : TypedWrite(w) /\ SparesSuperAdmins(w) /\ KeepsDualControl(w)
  BY ResolveTyped DEF InvitationStatuses
<1>2. Ends(writes)
  BY DEF Ends
<1> QED BY <1>1, <1>2 DEF Sound

\* The end of one.
LEMMA EndSound ==
  ASSUME NEW i \in Invitations, invitation[i].status = "PENDING",
         NEW status \in {"DECLINED", "EXPIRED", "CANCELLED", "REVOKED"}
  PROVE  Sound({Resolve(i, status)}, {})
<1>1. {Resolve(j, status) : j \in {i}} = {Resolve(i, status)}
  OBVIOUS
<1>2. Sound({Resolve(j, status) : j \in {i}}, {})
  BY EndsSound
<1> QED BY <1>1, <1>2

\* Writes to one row of the assignments.
LEMMA AssignmentTyped ==
  ASSUME NEW a \in Assignments, NEW set,
         "status" \in DOMAIN set => set.status \in {"NONE", "ACTIVE", "REVOKED"},
         "userId" \in DOMAIN set => set.userId \in Users \cup {None},
         "role" \in DOMAIN set => set.role \in InternalRoles \cup {None},
         "period" \in DOMAIN set => set.period \in {"FUTURE", "CURRENT", "PAST"}
  PROVE  LET w == Write("assignment", a, set) IN
         /\ TypedWrite(w) /\ SparesSuperAdmins(w) /\ KeepsDualControl(w)
         /\ w.table = "assignment"
<1> DEFINE w == Write("assignment", a, set)
<1>1. w.table = "assignment" /\ w.id = a /\ w.set = set
  BY DEF Write
<1> HIDE DEF w
<1>2. TypedWrite(w)
  BY <1>1 DEF TypedWrite
<1>3. SparesSuperAdmins(w) /\ KeepsDualControl(w)
  BY <1>1 DEF SparesSuperAdmins, KeepsDualControl
<1> QED BY <1>1, <1>2, <1>3 DEF w

\* They leave invitations alone.
LEMMA AssignmentSound ==
  ASSUME NEW w, w.table = "assignment", TypedWrite(w), SparesSuperAdmins(w), KeepsDualControl(w)
  PROVE  Sound({w}, {})
<1> QED BY DEF Sound, LeavesInvitations

\* A decision on the status of an account is left for later.
LEMMA DecideSound ==
  ASSUME AccountsTypeOK, NEW u \in Users, NEW status \in {"ACTIVE", "SUSPENDED", "DEACTIVATED"},
         Decide(Write("user", u, [accountStatus |-> status])),
         status # "ACTIVE" /\ user[u].role = "SUPER_ADMIN" =>
           \E v \in Users \ {u} : user[v].accountStatus = "ACTIVE" /\ user[v].role \in SuperRoles
  PROVE  SoundStep
<1> DEFINE write == Write("user", u, [accountStatus |-> status])
           counted == {v \in Users \ {u} : user[v].accountStatus = "ACTIVE"
                                             /\ user[v].role \in SuperRoles}
           set == [accountStatus |-> status]
           w == [counted |-> counted, role |-> user[u].role, table |-> "user", id |-> u,
                 set |-> set]
<1>1. CommitThen({}, {w})
  BY DEF Decide, Write
<1>2. /\ w.counted = counted /\ w.role = user[u].role /\ w.set = set
      /\ set.accountStatus = status
  OBVIOUS
<1>3. w \in StatusWrites
  <2>1. user[u].role \in Roles \cup {None}
    BY DEF AccountsTypeOK, UserRows
  <2>2. counted \in SUBSET Users
    OBVIOUS
  <2>3. set \in [accountStatus: {"ACTIVE", "SUSPENDED", "DEACTIVATED"}]
    OBVIOUS
  <2> HIDE DEF counted, set
  <2> QED BY <2>1, <2>2, <2>3 DEF StatusWrites
<1>4. status # "ACTIVE" /\ user[u].role = "SUPER_ADMIN" => counted # {}
  OBVIOUS
<1> HIDE DEF w, counted, set
<1>5. LaterOK(w)
  BY <1>2, <1>3, <1>4 DEF LaterOK
<1>6. Sound({}, {w})
  BY <1>5 DEF Sound, LeavesInvitations
<1> QED BY <1>1, <1>6 DEF SoundStep

\* inviteUser goes on only when it saw no live invitation for the same person, role and organization.
LEMMA InviteUserSound ==
  ASSUME NEW actor \in Users, NEW u \in Users, NEW role \in Roles, NEW o \in OrganizationIds,
         inviteUser(actor, u, role, o)
  PROVE  SoundStep
<1> QED BY CheckedSound DEF inviteUser, OrganizationIds

\* A request for approval has no approver.
LEMMA ApprovalRequestSound ==
  ASSUME IInv, NEW actor \in Users, NEW operationType \in DOMAIN highRiskOperationPermissions,
         createApprovalRequest(actor, operationType)
  PROVE  SoundStep
<1> DEFINE set == [status |-> "PENDING", requesterId |-> actor, operationType |-> operationType]
<1>1. PICK a \in Approvals :
        approval[a].status = "NONE" /\ Commit({Write("approval", a, set)})
  BY DEF createApprovalRequest
<1> DEFINE w == Write("approval", a, set)
<1>2. w.table = "approval" /\ w.id = a /\ w.set = set
  BY DEF Write
<1>3. /\ DOMAIN set = {"status", "requesterId", "operationType"}
      /\ set.status = "PENDING" /\ set.requesterId = actor /\ set.operationType = operationType
  OBVIOUS
<1>4. CommitThen({w}, {})
  BY <1>1 DEF Commit
<1> HIDE DEF w, set
<1>5. TypedWrite(w)
  BY <1>2, <1>3 DEF TypedWrite
<1>6. SparesSuperAdmins(w) /\ KeepsDualControl(w) /\ LeavesInvitations({w})
  BY <1>1, <1>2, <1>3 DEF SparesSuperAdmins, KeepsDualControl, LeavesInvitations
<1> QED BY <1>4, <1>5, <1>6 DEF SoundStep, Sound

\* Who decides did not ask.
LEMMA ApprovalDecisionSound ==
  ASSUME NEW actor \in Users, NEW a \in Approvals,
         NEW status \in {"EXECUTION_BLOCKED", "REJECTED"}, decideApprovalRequest(actor, a, status)
  PROVE  SoundStep
<1> DEFINE set == [status |-> status, approverId |-> actor]
           w == Write("approval", a, set)
<1>1. w.table = "approval" /\ w.id = a /\ w.set = set
  BY DEF Write
<1>2. DOMAIN set = {"status", "approverId"} /\ set.status = status /\ set.approverId = actor
  OBVIOUS
<1>3. CommitThen({w}, {}) /\ approval[a].status # "NONE" /\ approval[a].requesterId # actor
  BY DEF decideApprovalRequest, Commit
<1> HIDE DEF w, set
<1>4. TypedWrite(w)
  BY <1>1, <1>2 DEF TypedWrite
<1>5. SparesSuperAdmins(w) /\ KeepsDualControl(w) /\ LeavesInvitations({w})
  BY <1>1, <1>2, <1>3 DEF SparesSuperAdmins, KeepsDualControl, LeavesInvitations
<1> QED BY <1>3, <1>4, <1>5 DEF SoundStep, Sound

\* The grant of the highest role is an operation that needs approval.
LEMMA GrantIsHighRisk == "PLATFORM_SUPER_ADMIN_GRANT" \in DOMAIN highRiskOperationPermissions
<1> QED BY DEF highRiskOperationPermissions

\* inviteAdministrator asks for a high-risk role, and invites for the others.
LEMMA InviteAdministratorSound ==
  ASSUME IInv, NEW actor \in Users, NEW u \in Users, NEW role \in Roles,
         NEW o \in OrganizationIds, inviteAdministrator(actor, u, role, o)
  PROVE  SoundStep
<1>1. CASE highRiskGrant(role)
  BY <1>1, ApprovalRequestSound, GrantIsHighRisk DEF inviteAdministrator
<1>2. CASE ~highRiskGrant(role)
  <2>1. Checked(u, role, o)
    BY <1>2 DEF inviteAdministrator
  <2>2. \A j \in Invitations : ~(Live(j) /\ SamePlace(j, u, role, o))
    BY <1>2 DEF inviteAdministrator, Live, SamePlace
  <2> QED BY <2>1, <2>2, CheckedSound DEF OrganizationIds
<1> QED BY <1>1, <1>2

\* assignRole asks for a high-risk role, and assigns the others.
LEMMA AssignRoleSound ==
  ASSUME IInv, NEW actor \in Users, NEW u \in Users, NEW role \in Roles,
         assignRole(actor, u, role)
  PROVE  SoundStep
<1>1. CASE highRiskGrant(role)
  BY <1>1, ApprovalRequestSound, GrantIsHighRisk DEF assignRole
<1>2. CASE ~highRiskGrant(role)
  <2>1. PICK a \in Assignments, period \in {"FUTURE", "CURRENT"} :
          Commit({Write("assignment", a, [status |-> "ACTIVE", userId |-> u,
                                          role |-> role, period |-> period])})
    BY <1>2 DEF assignRole
  <2> DEFINE set == [status |-> "ACTIVE", userId |-> u, role |-> role, period |-> period]
             w == Write("assignment", a, set)
  <2>2. role \in InternalRoles
    BY DEF assignRole
  <2>3. /\ set.status = "ACTIVE" /\ set.userId = u /\ set.role = role /\ set.period = period
    OBVIOUS
  <2>4. Commit({w})
    BY <2>1
  <2> HIDE DEF set
  <2>5. TypedWrite(w) /\ SparesSuperAdmins(w) /\ KeepsDualControl(w) /\ w.table = "assignment"
    BY <2>2, <2>3, AssignmentTyped
  <2> HIDE DEF w
  <2>6. Sound({w}, {})
    BY <2>5, AssignmentSound
  <2> QED BY <2>4, <2>6 DEF SoundStep, Commit
<1> QED BY <1>1, <1>2

\* removeRole revokes an assignment.
LEMMA RemoveRoleSound ==
  ASSUME NEW actor \in Users, NEW a \in Assignments, removeRole(actor, a)
  PROVE  SoundStep
<1> DEFINE set == [status |-> "REVOKED"]
           w == Write("assignment", a, set)
<1>1. DOMAIN set = {"status"} /\ set.status = "REVOKED"
  OBVIOUS
<1>2. Commit({w})
  BY DEF removeRole
<1> HIDE DEF set
<1>3. TypedWrite(w) /\ SparesSuperAdmins(w) /\ KeepsDualControl(w) /\ w.table = "assignment"
  BY <1>1, AssignmentTyped
<1> HIDE DEF w
<1>4. Sound({w}, {})
  BY <1>3, AssignmentSound
<1> QED BY <1>2, <1>4 DEF SoundStep, Commit

\* acceptInvitation and acceptInternalInvitation find an invitation and an account, and leave the
\* rest for later.
LEMMA AcceptancesSound ==
  ASSUME IInv, NEW i \in Invitations
  PROVE  /\ acceptInvitation(i) => SoundStep
         /\ acceptInternalInvitation(i) => SoundStep
<1>1. ASSUME acceptInvitation(i) PROVE SoundStep
  <2> DEFINE w == [invitation |-> i]
  <2>1. CommitThen({}, {w}) /\ Exists(i)
    BY <1>1 DEF acceptInvitation, Live, Exists
  <2>2. BeginOK(w)
    BY <2>1 DEF BeginOK
  <2> HIDE DEF w
  <2>3. Sound({}, {w})
    BY <2>2 DEF Sound, LaterOK, LeavesInvitations
  <2> QED BY <2>1, <2>3 DEF SoundStep
<1>2. ASSUME acceptInternalInvitation(i) PROVE SoundStep
  <2> DEFINE inv == invitation[i]
             columns == [role |-> inv.role, accountStatus |-> "ACTIVE",
                         organizationId |-> inv.organizationId]
             names == IF inv.organizationId = None THEN {"role", "accountStatus"}
                      ELSE DOMAIN columns
             set == [c \in names |-> columns[c]]
             w == [invitation |-> i, internal |-> TRUE,
                   found |-> user[inv.invitee].accountStatus, set |-> set]
  <2>1. CommitThen({}, {w})
    BY <1>2 DEF acceptInternalInvitation
  <2>2. /\ Exists(i) /\ inv.role \in InternalRoles
        /\ user[inv.invitee].accountStatus = "ACTIVE"
    BY <1>2 DEF acceptInternalInvitation, Live, Exists, Caller
  <2>3. inv \in InvitationRows
    BY DEF IInv, AccountsTypeOK
  <2>4. /\ "accountStatus" \in DOMAIN set /\ set.accountStatus = "ACTIVE"
        /\ "role" \in DOMAIN set => set.role \in Roles \cup {None}
        /\ "organizationId" \in DOMAIN set => set.organizationId \in Organizations \cup {None}
    BY <2>3 DEF InvitationRows
  <2>5. /\ DOMAIN w = {"invitation", "internal", "found", "set"}
        /\ w.invitation = i /\ w.found = "ACTIVE" /\ w.set = set
    BY <2>2
  <2> HIDE DEF w, set
  <2>6. AcceptanceOK(w)
    BY <2>2, <2>4, <2>5 DEF AcceptanceOK, inv
  <2>7. Sound({}, {w})
    BY <2>6 DEF Sound, LaterOK, LeavesInvitations
  <2> QED BY <2>1, <2>7 DEF SoundStep
<1> QED BY <1>1, <1>2

\* approveProviderRequest activates the account, and leaves the membership for later.
LEMMA ApproveProviderSound ==
  ASSUME IInv, NEW actor \in Users, NEW u \in Users, approveProviderRequest(actor, u)
  PROVE  SoundStep
<1> DEFINE set == [role |-> "PROVIDER", accountStatus |-> "ACTIVE"]
           others == {Write("membership", <<u, o>>, [active |-> TRUE]) :
                        o \in {user[u].organizationId} \ {None}}
<1>1. CommitThen({Write("user", u, set)}, others)
  BY DEF approveProviderRequest
<1>2. user[u].organizationId \in Organizations \cup {None}
  BY DEF IInv, AccountsTypeOK, UserRows
<1>3. ASSUME NEW w \in others PROVE LaterOK(w)
  <2>1. PICK o \in Organizations : w = Write("membership", <<u, o>>, [active |-> TRUE])
    BY <1>2
  <2>2. [active |-> TRUE] \in [active: {TRUE}]
    OBVIOUS
  <2>3. <<u, o>> \in Users \X Organizations
    OBVIOUS
  <2>4. \A set1 \in [active: {TRUE}], m \in Users \X Organizations :
          [table |-> "membership", id |-> m, set |-> set1] \in MembershipWrites
    BY DEF MembershipWrites
  <2>5. w \in MembershipWrites
    BY <2>1, <2>2, <2>3, <2>4 DEF Write
  <2> QED BY <2>5 DEF LaterOK
<1>4. DOMAIN set = {"role", "accountStatus"} /\ set.role \in Roles /\ set.accountStatus = "ACTIVE"
  BY DEF Roles
<1> HIDE DEF set, others
<1>5. Sound({Write("user", u, set)}, others)
  BY <1>3, <1>4, UserWriteSound DEF UserStatuses
<1> QED BY <1>1, <1>5 DEF SoundStep

\* The endpoints that write one account and nothing else.
LEMMA UserEndpointsSound ==
  ASSUME IInv, NEW actor \in Users, NEW u \in Users
  PROVE  /\ \A role \in Roles, o \in OrganizationIds :
              updateUser(actor, u, role, o) \/ createSubAdmin(actor, u, role, o) => SoundStep
         /\ reactivateAdministrator(actor, u) => SoundStep
         /\ \A o \in Organizations : requestProviderAccess(u, o) => SoundStep
         /\ firebaseLogin(u) => SoundStep
<1> USE DEF SoundStep, Commit, OrganizationIds
<1>1. ASSUME NEW role \in Roles, NEW o \in OrganizationIds, updateUser(actor, u, role, o)
      PROVE  SoundStep
  <2> DEFINE set == [role |-> role, organizationId |-> o]
  <2>1. Sound({Write("user", u, set)}, {})
    BY UserWriteSound
  <2> QED BY <1>1, <2>1 DEF updateUser
<1>2. ASSUME NEW role \in Roles, NEW o \in OrganizationIds, createSubAdmin(actor, u, role, o)
      PROVE  SoundStep
  <2> DEFINE set == [role |-> role, organizationId |-> o, accountStatus |-> "PENDING_INVITE"]
  <2>1. user[u].accountStatus # "ACTIVE"
    BY <1>2 DEF createSubAdmin, Registered
  <2>2. Sound({Write("user", u, set)}, {})
    BY <2>1, UserWriteSound DEF UserStatuses
  <2> QED BY <1>2, <2>2 DEF createSubAdmin
<1>3. ASSUME reactivateAdministrator(actor, u) PROVE SoundStep
  <2> DEFINE set == [accountStatus |-> "ACTIVE"]
  <2>1. Sound({Write("user", u, set)}, {})
    BY UserWriteSound DEF UserStatuses
  <2> QED BY <1>3, <2>1 DEF reactivateAdministrator
<1>4. ASSUME NEW o \in Organizations, requestProviderAccess(u, o) PROVE SoundStep
  <2> DEFINE set == [role |-> "PENDING_PROVIDER", organizationId |-> o,
                     accountStatus |-> "PENDING_APPROVAL"]
  <2>1. user[u].accountStatus # "ACTIVE"
    BY <1>4 DEF requestProviderAccess, Registered
  <2>2. Sound({Write("user", u, set)}, {})
    BY <2>1, UserWriteSound DEF UserStatuses, Roles
  <2> QED BY <1>4, <2>2 DEF requestProviderAccess
<1>5. ASSUME firebaseLogin(u) PROVE SoundStep
  <2> DEFINE o == IF user[u].organizationId = None THEN DefaultOrganization
                  ELSE user[u].organizationId
             set == [role |-> "CITIZEN", accountStatus |-> "ACTIVE", organizationId |-> o]
  <2>1. o \in Organizations \cup {None}
    BY DefaultExists DEF IInv, AccountsTypeOK, UserRows
  <2>2. Sound({Write("user", u, set)}, {})
    <3> HIDE DEF o
    <3> QED BY <2>1, UserWriteSound DEF UserStatuses, Roles
  <2> QED BY <1>5, <2>2 DEF firebaseLogin
<1> QED BY <1>1, <1>2, <1>3, <1>4, <1>5

\* A suspension is decided while another Super Admin is active, if it is a Super Admin's.
LEMMA StatusEndpointsSound ==
  ASSUME IInv, NEW actor \in Users, NEW u \in Users
  PROVE  /\ \A status \in {"ACTIVE", "SUSPENDED"} : setUserStatus(actor, u, status) => SoundStep
         /\ suspendAdministrator(actor, u) => SoundStep
         /\ \A status \in {"ACTIVE", "DEACTIVATED"} : setSubAdminStatus(actor, u, status) => SoundStep
         /\ rejectProviderRequest(actor, u) => SoundStep
<1>1. AccountsTypeOK
  BY DEF IInv
<1>2. ASSUME NEW status \in {"ACTIVE", "SUSPENDED"}, setUserStatus(actor, u, status)
      PROVE  SoundStep
  <2>1. status = "SUSPENDED" /\ user[u].role = "SUPER_ADMIN" =>
          \E v \in Users \ {u} : user[v].accountStatus = "ACTIVE" /\ user[v].role \in SuperRoles
    BY <1>2 DEF setUserStatus, ActiveSuperAdmins, SuperRoles
  <2>2. Decide(Write("user", u, [accountStatus |-> status]))
    BY <1>2 DEF setUserStatus
  <2> QED BY <1>1, <2>1, <2>2, DecideSound
<1>3. ASSUME suspendAdministrator(actor, u) PROVE SoundStep
  <2>1. \E v \in Users \ {u} : user[v].accountStatus = "ACTIVE" /\ user[v].role \in SuperRoles
    BY <1>3 DEF suspendAdministrator, ActiveSuperAdmins
  <2>2. Decide(Write("user", u, [accountStatus |-> "SUSPENDED"]))
    BY <1>3 DEF suspendAdministrator
  <2> QED BY <1>1, <2>1, <2>2, DecideSound
<1>4. ASSUME NEW status \in {"ACTIVE", "DEACTIVATED"}, setSubAdminStatus(actor, u, status)
      PROVE  SoundStep
  <2>1. user[u].role # "SUPER_ADMIN"
    BY <1>4 DEF setSubAdminStatus, governanceAdminRoles
  <2>2. Decide(Write("user", u, [accountStatus |-> status]))
    BY <1>4 DEF setSubAdminStatus
  <2> QED BY <1>1, <2>1, <2>2, DecideSound
<1>5. ASSUME rejectProviderRequest(actor, u) PROVE SoundStep
  <2>1. user[u].role # "SUPER_ADMIN"
    BY <1>5 DEF rejectProviderRequest
  <2>2. Decide(Write("user", u, [accountStatus |-> "DEACTIVATED"]))
    BY <1>5 DEF rejectProviderRequest
  <2> QED BY <1>1, <2>1, <2>2, DecideSound
<1> QED BY <1>2, <1>3, <1>4, <1>5

\* The endpoints that end invitations.
LEMMA EndingEndpointsSound ==
  ASSUME NEW actor \in Users, NEW i \in Invitations
  PROVE  /\ \A status \in {"CANCELLED", "REVOKED"} :
              cancelInvitation(actor, i, status) => SoundStep
         /\ markInvitationExpired(actor, i) => SoundStep
         /\ declineInvitation(i) => SoundStep
<1> USE DEF SoundStep, Commit
<1>1. ASSUME NEW status \in {"CANCELLED", "REVOKED"}, cancelInvitation(actor, i, status)
      PROVE  SoundStep
  BY <1>1, EndSound DEF cancelInvitation
<1>2. ASSUME markInvitationExpired(actor, i) PROVE SoundStep
  BY <1>2, EndSound DEF markInvitationExpired
<1>3. ASSUME declineInvitation(i) PROVE SoundStep
  BY <1>3, EndSound DEF declineInvitation, Live
<1> QED BY <1>1, <1>2, <1>3

\* A person who looks at the invitations ends those that have expired.
LEMMA MyInvitationsSound ==
  ASSUME NEW actor \in Users, getMyInvitations(actor)
  PROVE  SoundStep
<1> DEFINE ids == {i \in Invitations : /\ invitation[i].invitee = actor
                                       /\ invitation[i].status = "PENDING"
                                       /\ invitation[i].expired}
<1>1. CommitThen({Resolve(i, "EXPIRED") : i \in ids}, {})
  BY DEF getMyInvitations, Commit
<1>2. ids \in SUBSET Invitations /\ \A i \in ids : invitation[i].status = "PENDING"
  OBVIOUS
<1> HIDE DEF ids
<1>3. Sound({Resolve(i, "EXPIRED") : i \in ids}, {})
  BY <1>2, EndsSound
<1> QED BY <1>1, <1>3 DEF SoundStep

\* Every call of an endpoint commits sound writes.
LEMMA CallsAreSound ==
  ASSUME IInv
  PROVE  /\ \A actor \in Users : RowHandler(actor) => SoundStep
         /\ \A actor, u \in Users : UserHandler(actor, u) => SoundStep
         /\ \A i \in Invitations :
              acceptInvitation(i) \/ declineInvitation(i) \/ acceptInternalInvitation(i)
                => SoundStep
<1>1. ASSUME NEW actor \in Users, RowHandler(actor) PROVE SoundStep
  BY <1>1, EndingEndpointsSound, MyInvitationsSound, ApprovalRequestSound, ApprovalDecisionSound,
     RemoveRoleSound, UserEndpointsSound, InputsAreKnown
     DEF RowHandler
<1>2. ASSUME NEW actor \in Users, NEW u \in Users, UserHandler(actor, u) PROVE SoundStep
  <2>1. "PROVIDER" \in Roles /\ Organizations \subseteq OrganizationIds
        /\ GrantedRoles \subseteq Roles /\ InvitedRoles \subseteq Roles
    BY InputsAreKnown DEF Roles, OrganizationIds
  <2>2. ASSUME NEW o \in Organizations, inviteDiscoveredProvider(actor, u, o) PROVE SoundStep
    BY <2>1, <2>2, InviteUserSound DEF inviteDiscoveredProvider
  <2> QED BY <1>2, <2>1, <2>2, InviteUserSound, UserEndpointsSound, InviteAdministratorSound,
             StatusEndpointsSound, ApproveProviderSound, AssignRoleSound
          DEF UserHandler
<1>3. ASSUME NEW i \in Invitations,
             acceptInvitation(i) \/ declineInvitation(i) \/ acceptInternalInvitation(i)
      PROVE  SoundStep
  <2>1. CASE declineInvitation(i)
    <3>1. invitation[i].invitee \in Users
      BY <2>1 DEF declineInvitation, Live, IInv, InviteesKnown
    <3> QED BY <2>1, <3>1, EndingEndpointsSound
  <2> QED BY <1>3, <2>1, AcceptancesSound
<1> QED BY <1>1, <1>2, <1>3

-----------------------------------------------------------------------------
(* The steps.                                                              *)

\* The account after sound or later writes.
LEMMA UserRow ==
  ASSUME AccountsTypeOK, NEW writes, Apply(writes), NEW u \in Users
  PROVE  \/ /\ user'[u] = user[u]
            /\ \A w \in writes : ~(w.table = "user" /\ w.id = u)
         \/ \E w \in writes : /\ w.table = "user" /\ w.id = u
                              /\ user'[u] = Overlay(user[u], w.set)
<1> QED BY PatchedRow DEF Apply, AccountsTypeOK

\* What is left for later differs in its fields.
LEMMA Shapes ==
  ASSUME NEW w
  PROVE  /\ w \in MembershipWrites => DOMAIN w = {"table", "id", "set"}
         /\ w \in StatusWrites => DOMAIN w = {"table", "id", "set", "counted", "role"}
         /\ BeginOK(w) => DOMAIN w = {"invitation"}
         /\ AcceptanceOK(w) => DOMAIN w = {"invitation", "internal", "found", "set"}
<1>1. \A A, B, C : w \in [table: A, id: B, set: C] => DOMAIN w = {"table", "id", "set"}
  OBVIOUS
<1>2. \A A, B, C, D, E : w \in [table: A, id: B, set: C, counted: D, role: E]
                          => DOMAIN w = {"table", "id", "set", "counted", "role"}
  OBVIOUS
<1>3. w \in [invitation: Invitations] => DOMAIN w = {"invitation"}
  OBVIOUS
<1> QED BY <1>1, <1>2, <1>3 DEF MembershipWrites, StatusWrites, BeginOK, AcceptanceOK

\* A write that is still to be made is typed, and concerns neither invitations nor approvals.
LEMMA LaterWrites ==
  ASSUME NEW w, LaterOK(w), "table" \in DOMAIN w
  PROVE  /\ w \in MembershipWrites \/ w \in StatusWrites
         /\ TypedWrite(w) /\ KeepsDualControl(w) /\ LeavesInvitations({w})
<1>1. CASE w \in MembershipWrites
  <2>1. w.table = "membership" /\ w.set \in [active: {TRUE}]
    BY <1>1 DEF MembershipWrites
  <2>2. w.set = [active |-> TRUE]
    BY <2>1
  <2> QED BY <1>1, <2>1, <2>2 DEF TypedWrite, KeepsDualControl, LeavesInvitations
<1>2. CASE w \in StatusWrites
  <2>1. /\ w.table = "user" /\ w.id \in Users
        /\ w.set \in [accountStatus: {"ACTIVE", "SUSPENDED", "DEACTIVATED"}]
    BY <1>2 DEF StatusWrites
  <2>2. /\ w.set.accountStatus \in UserStatuses
        /\ "role" \notin DOMAIN w.set /\ "organizationId" \notin DOMAIN w.set
    BY <2>1 DEF UserStatuses
  <2> QED BY <1>2, <2>1, <2>2 DEF TypedWrite, KeepsDualControl, LeavesInvitations
<1>3. ~BeginOK(w) /\ ~AcceptanceOK(w)
  BY Shapes
<1> QED BY <1>1, <1>2, <1>3 DEF LaterOK

\* What an acceptance that has read the account writes.
LEMMA AcceptanceWrites ==
  ASSUME AccountsTypeOK, InviteesKnown, NEW w, AcceptanceOK(w), NEW writes,
         \/ writes = Acceptance(w)
         \/ /\ w.internal
            /\ \E a \in Assignments :
                 writes = Acceptance(w) \cup {NewAssignment(a, w.invitation)}
  PROVE  /\ \A v \in writes : TypedWrite(v) /\ KeepsDualControl(v)
         /\ \A v \in writes : v.table = "user" => v.set = w.set
         /\ Accepts(writes, w.invitation)
<1> DEFINE i == w.invitation
           u == invitation[i].invitee
           o == invitation[i].organizationId
           wu == Write("user", u, w.set)
           wi == Resolve(i, "ACCEPTED")
           wm == Write("membership", <<u, o>>, [active |-> TRUE])
           provider == invitation[i].role = "PROVIDER" /\ o # None
           typed(v) == TypedWrite(v) /\ KeepsDualControl(v)
<1>1. i \in Invitations /\ Exists(i) /\ u \in Users /\ invitation[i] \in InvitationRows
  BY DEF AcceptanceOK, Exists, InviteesKnown, AccountsTypeOK
<1>2. /\ wu.table = "user" /\ wu.id = u /\ wu.set = w.set
      /\ wm.table = "membership" /\ wm.set = [active |-> TRUE]
  BY DEF Write
<1>3. typed(wi) /\ wi.table = "invitation"
  BY <1>1, ResolveTyped DEF InvitationStatuses
<1> HIDE DEF wi, wm, wu
<1>4. typed(wu)
  BY <1>1, <1>2 DEF AcceptanceOK, TypedWrite, KeepsDualControl, UserStatuses
<1>5. typed(wm)
  BY <1>2 DEF TypedWrite, KeepsDualControl
<1>6. ASSUME NEW a \in Assignments, w.internal, NEW v, v = NewAssignment(a, i)
      PROVE  typed(v) /\ v.table = "assignment"
  <2> DEFINE period == IF invitation[i].expired THEN "PAST" ELSE "CURRENT"
             set == [status |-> "ACTIVE", userId |-> u, role |-> invitation[i].role,
                     period |-> period]
  <2>1. v = Write("assignment", a, set)
    BY <1>6 DEF NewAssignment
  <2>2. invitation[i].role \in InternalRoles
    BY <1>6 DEF AcceptanceOK
  <2>3. period \in {"CURRENT", "PAST"}
    OBVIOUS
  <2> HIDE DEF period
  <2>4. /\ set.status = "ACTIVE" /\ set.userId = u /\ set.role = invitation[i].role
        /\ set.period = period
    OBVIOUS
  <2> HIDE DEF set
  <2> QED BY <1>1, <2>1, <2>2, <2>3, <2>4, AssignmentTyped
<1>7. ASSUME NEW v \in writes
      PROVE  v = wu \/ v = wi \/ v = wm \/ (typed(v) /\ v.table = "assignment")
  <2>1. CASE v \in Acceptance(w)
    BY <2>1 DEF Acceptance, wu, wi, wm
  <2>2. CASE v \notin Acceptance(w)
    <3>1. PICK a \in Assignments : w.internal /\ v = NewAssignment(a, i)
      BY <2>2
    <3> QED BY <3>1, <1>6
  <2> QED BY <2>1, <2>2
<1>8. provider => wm \in writes
  BY DEF Acceptance, wm
<1>9. \A v \in writes : typed(v)
  BY <1>3, <1>4, <1>5, <1>7
<1>10. \A v \in writes : v.table = "user" => v = wu
  BY <1>2, <1>3, <1>7
<1>11. \A v \in writes : v.table = "invitation" => v = wi
  BY <1>2, <1>3, <1>7
<1>12. Accepts(writes, i)
  BY <1>1, <1>2, <1>8, <1>10, <1>11 DEF Accepts, wi, wm
<1> QED BY <1>2, <1>9, <1>10, <1>12

\* The commit of an acceptance.
LEMMA CommittedAcceptance ==
  ASSUME IInv, NEW w \in later, CommitAcceptance(w)
  PROVE  /\ AcceptanceOK(w) /\ w \in later \ later' /\ later' \subseteq later
         /\ \E writes : /\ Apply(writes) /\ Accepts(writes, w.invitation)
                        /\ \A v \in writes : TypedWrite(v) /\ KeepsDualControl(v)
                        /\ \A v \in writes : v.table = "user" => v.set = w.set
<1>1. Accepting(w) /\ LaterOK(w)
  BY DEF CommitAcceptance, IInv
<1>2. AcceptanceOK(w)
  <2>1. w \notin MembershipWrites /\ w \notin StatusWrites /\ ~BeginOK(w)
    BY <1>1, Shapes DEF Accepting
  <2> QED BY <1>1, <2>1 DEF LaterOK
<1>3. PICK writes : /\ Apply(writes)
                    /\ \/ writes = Acceptance(w)
                       \/ w.internal /\ \E a \in Assignments :
                            writes = Acceptance(w) \cup {NewAssignment(a, w.invitation)}
  <2>1. CASE Apply(Acceptance(w))
    BY <2>1
  <2>2. CASE w.internal /\ \E a \in Assignments :
                             Apply(Acceptance(w) \cup {NewAssignment(a, w.invitation)})
    BY <2>2
  <2> QED BY <2>1, <2>2 DEF CommitAcceptance
<1>4. /\ \A v \in writes : TypedWrite(v) /\ KeepsDualControl(v)
      /\ \A v \in writes : v.table = "user" => v.set = w.set
      /\ Accepts(writes, w.invitation)
  BY <1>2, <1>3, AcceptanceWrites DEF IInv
<1> QED BY <1>2, <1>3, <1>4 DEF CommitAcceptance

\* The seeded platform.
LEMMA InitIInv == Init => IInv
<1> SUFFICES ASSUME Init PROVE IInv
  OBVIOUS
<1>1. user \in [Users -> UserRows]
  <2>1. /\ NoUser \in UserRows
        /\ [role |-> "SUPER_ADMIN", organizationId |-> None, accountStatus |-> "ACTIVE"] \in UserRows
        /\ [role |-> "ORG_ADMIN", organizationId |-> DefaultOrganization,
            accountStatus |-> "ACTIVE"] \in UserRows
    BY DefaultExists DEF NoUser, UserRows, Roles
  <2> QED BY <2>1 DEF Init
<1>2. membership \in [Users \X Organizations -> MembershipRows]
  <2>1. [active |-> FALSE] \in MembershipRows
    BY DEF MembershipRows
  <2> QED BY <2>1 DEF Init
<1>3. invitation \in [Invitations -> InvitationRows]
  <2>1. NoInvitation \in InvitationRows
    BY DEF InvitationRows, NoInvitation
  <2> QED BY <2>1 DEF Init
<1>4. assignment \in [Assignments -> AssignmentRows]
  BY DEF Init, AssignmentRows
<1>5. approval \in [Approvals -> ApprovalRows]
  BY DEF Init, ApprovalRows
<1>6. \A i \in Invitations : invitation[i].status = "NONE"
  BY DEF Init, NoInvitation
<1>7. \A a \in Approvals : approval[a].approverId = None
  BY DEF Init
<1>8. later = {}
  BY DEF Init
<1> QED BY <1>1, <1>2, <1>3, <1>4, <1>5, <1>6, <1>7, <1>8
        DEF IInv, AccountsTypeOK, AcceptedProviderIsMember, DualControl, SawOK,
            InviteesKnown, NoEarlyApprover

\* A call keeps the invariant.
LEMMA SoundStepKeeps ==
  ASSUME IInv, SoundStep
  PROVE  IInv'
<1>1. PICK writes, others : CommitThen(writes, others) /\ Sound(writes, others)
  BY DEF SoundStep
<1>2. Apply(writes) /\ later' = later \cup others
  BY <1>1 DEF CommitThen
<1>3. /\ AccountsTypeOK' /\ InvitationsOK' /\ DualControl' /\ NoEarlyApprover'
      /\ \A i \in Invitations : Exists(i) => Kept(i)
  BY <1>1, <1>2, SoundWritesKeepRows
<1>4. \A w \in later' : LaterOK(w)
  BY <1>1, <1>2 DEF IInv, Sound
<1>5. \A w \in later' : LaterOK(w)'
  BY <1>3, <1>4, LaterStays
<1> QED BY <1>3, <1>5 DEF IInv, InvitationsOK

\* So do the transactions that follow.
LEMMA LaterStepsKeep ==
  ASSUME IInv, NEW w \in later
  PROVE  CommitLater(w) \/ CommitAcceptance(w) => IInv'
<1>0. AccountsTypeOK /\ InvitationsOK /\ DualControl /\ NoEarlyApprover
  BY DEF IInv, InvitationsOK
<1>1. ASSUME NEW writes, Apply(writes), \A v \in writes : TypedWrite(v) /\ KeepsDualControl(v),
             \A i \in Invitations : Kept(i) /\ NewMember(i), later' \subseteq later
      PROVE  IInv'
  <2>1. AccountsTypeOK'
    BY <1>0, <1>1, WritesKeepTypes
  <2>2. DualControl' /\ NoEarlyApprover'
    BY <1>0, <1>1, WritesKeepDualControl
  <2>3. MembersKept
    BY <1>0, <1>1, WritesKeepMembers
  <2>4. InvitationsOK'
    BY <1>0, <1>1, <2>3, InvitationSteps
  <2>5. \A v \in later' : LaterOK(v)'
    BY <1>1, LaterStays DEF IInv
  <2> QED BY <2>1, <2>2, <2>4, <2>5 DEF IInv, InvitationsOK
<1>2. ASSUME CommitLater(w) PROVE IInv'
  <2>1. Apply({w}) /\ later' \subseteq later /\ "table" \in DOMAIN w
    BY <1>2 DEF CommitLater
  <2>2. TypedWrite(w) /\ KeepsDualControl(w) /\ LeavesInvitations({w})
    BY <2>1, LaterWrites DEF IInv
  <2>3. \A i \in Invitations : Kept(i) /\ NewMember(i)
    BY <1>0, <2>1, <2>2, LeftInvitations
  <2>4. \A v \in {w} : TypedWrite(v) /\ KeepsDualControl(v)
    BY <2>2
  <2> QED BY <1>1, <2>1, <2>3, <2>4
<1>3. ASSUME CommitAcceptance(w) PROVE IInv'
  <2>1. PICK writes : /\ Apply(writes) /\ Accepts(writes, w.invitation)
                      /\ \A v \in writes : TypedWrite(v) /\ KeepsDualControl(v)
    BY <1>3, CommittedAcceptance
  <2>2. w.invitation \in Invitations /\ later' \subseteq later
    BY <1>3, CommittedAcceptance DEF AcceptanceOK
  <2>3. \A i \in Invitations : Kept(i) /\ NewMember(i)
    BY <1>0, <2>1, <2>2, AcceptedInvitation
  <2> QED BY <1>1, <2>1, <2>2, <2>3
<1> QED BY <1>2, <1>3

\* The read of an account in the transaction of an acceptance.
LEMMA ReadKeeps ==
  ASSUME IInv, NEW w \in later, ReadInTransaction(w)
  PROVE  IInv'
<1> DEFINE i == w.invitation
           u == invitation[i].invitee
           set == AcceptedColumns(u, i)
           v == [invitation |-> i, internal |-> FALSE, found |-> user[u].accountStatus,
                 set |-> set]
<1>1. DOMAIN w = {"invitation"} /\ Live(i) /\ later' = (later \ {w}) \cup {v} /\ UNCHANGED rows
  BY DEF ReadInTransaction
<1>2. LaterOK(w) /\ w \notin MembershipWrites /\ w \notin StatusWrites /\ ~AcceptanceOK(w)
  BY <1>1, Shapes DEF IInv
<1>3. i \in Invitations /\ Exists(i)
  BY <1>2 DEF LaterOK, BeginOK
<1>4. invitation[i] \in InvitationRows
  BY <1>3 DEF IInv, AccountsTypeOK
<1>5. /\ "role" \in DOMAIN set => set.role \in Roles \cup {None}
      /\ "organizationId" \in DOMAIN set => set.organizationId \in Organizations \cup {None}
      /\ "accountStatus" \in DOMAIN set
      /\ set.accountStatus = IF user[u].accountStatus = "SUSPENDED" THEN "SUSPENDED" ELSE "ACTIVE"
  BY <1>4 DEF AcceptedColumns, InvitationRows
<1>6. /\ DOMAIN v = {"invitation", "internal", "found", "set"} /\ v.invitation = i
      /\ v.internal = FALSE /\ v.found = user[u].accountStatus /\ v.set = set
  OBVIOUS
<1> HIDE DEF set, v
<1>7. AcceptanceOK(v)
  BY <1>3, <1>5, <1>6 DEF AcceptanceOK
<1>8. \A x \in later' : LaterOK(x)
  BY <1>1, <1>7 DEF IInv, LaterOK
<1>9. \A j \in Invitations : Kept(j)
  BY <1>1, SameIsKept DEF rows
<1>10. \A x \in later' : LaterOK(x)'
  BY <1>8, <1>9, LaterStays
<1> QED BY <1>1, <1>10 DEF rows, IInv, AccountsTypeOK, AcceptedProviderIsMember, DualControl,
                          SawOK, SamePlace, Exists, InviteesKnown, NoEarlyApprover, Live,
                          HasMembership

\* So do the creation of an invitation, a crash before it, and its expiry.
LEMMA InvitationStepsKeep ==
  ASSUME IInv, NEW i \in Invitations
  PROVE  createInvitation(i) \/ CrashBeforeCreate(i) \/ InvitationExpires(i) => IInv'
<1>0. AccountsTypeOK /\ InvitationsOK /\ invitation[i] \in InvitationRows
      /\ DOMAIN invitation = Invitations
  BY DEF IInv, InvitationsOK, AccountsTypeOK
<1>1. ASSUME NEW row \in InvitationRows, invitation' = [invitation EXCEPT ![i] = row],
             UNCHANGED <<user, membership, assignment, approval, later>>,
             (Kept(i) \/ Dropped(i)) /\ NewMember(i)
      PROVE  IInv'
  <2>1. AccountsTypeOK'
    BY <1>0, <1>1 DEF AccountsTypeOK
  <2>2. \A j \in Invitations \ {i} : Kept(j) /\ NewMember(j)
    BY <1>0, <1>1, SameIsKept
  <2>3. MembersKept
    BY <1>1 DEF MembersKept
  <2>4. \A j \in Invitations : (Kept(j) \/ CheckedNow(j) \/ Dropped(j)) /\ NewMember(j)
    BY <1>1, <2>2
  <2>5. InvitationsOK' /\ \A j \in Invitations : Exists(j) => Kept(j)
    BY <1>0, <2>3, <2>4, InvitationSteps
  <2>6. \A v \in later' : LaterOK(v)'
    BY <1>1, <2>5, LaterStays DEF IInv
  <2>7. DualControl' /\ NoEarlyApprover'
    BY <1>1 DEF IInv, DualControl, NoEarlyApprover
  <2> QED BY <2>1, <2>5, <2>6, <2>7 DEF IInv, InvitationsOK
<1>2. ASSUME createInvitation(i) PROVE IInv'
  <2> DEFINE row == [invitation[i] EXCEPT !.status = "PENDING"]
  <2>1. row \in InvitationRows
    BY <1>0 DEF InvitationRows
  <2>2. invitation' = [invitation EXCEPT ![i] = row]
    BY <1>2 DEF createInvitation
  <2>3. /\ invitation'[i].status = "PENDING" /\ invitation'[i].invitee = invitation[i].invitee
        /\ invitation'[i].role = invitation[i].role /\ invitation'[i].saw = invitation[i].saw
        /\ invitation'[i].organizationId = invitation[i].organizationId
    BY <1>0, <2>2 DEF InvitationRows
  <2>4. Kept(i) /\ NewMember(i)
    BY <1>2, <2>3 DEF createInvitation, Kept, NewMember, Exists
  <2> HIDE DEF row
  <2> QED BY <1>1, <1>2, <2>1, <2>2, <2>4 DEF createInvitation
<1>3. ASSUME CrashBeforeCreate(i) PROVE IInv'
  <2>1. NoInvitation \in InvitationRows
    BY DEF NoInvitation, InvitationRows
  <2>2. invitation' = [invitation EXCEPT ![i] = NoInvitation]
    BY <1>3 DEF CrashBeforeCreate
  <2>3. invitation'[i].status = "NONE"
    BY <1>0, <2>2 DEF NoInvitation
  <2>4. Dropped(i) /\ NewMember(i)
    BY <1>3, <2>3 DEF CrashBeforeCreate, Dropped, NewMember, Exists
  <2> QED BY <1>1, <1>3, <2>1, <2>2, <2>4 DEF CrashBeforeCreate
<1>4. ASSUME InvitationExpires(i) PROVE IInv'
  <2> DEFINE row == [invitation[i] EXCEPT !.expired = TRUE]
  <2>1. row \in InvitationRows
    BY <1>0 DEF InvitationRows
  <2>2. invitation' = [invitation EXCEPT ![i] = row]
    BY <1>4 DEF InvitationExpires
  <2>3. /\ invitation'[i].status = invitation[i].status
        /\ invitation'[i].invitee = invitation[i].invitee
        /\ invitation'[i].role = invitation[i].role /\ invitation'[i].saw = invitation[i].saw
        /\ invitation'[i].organizationId = invitation[i].organizationId
    BY <1>0, <2>2 DEF InvitationRows
  <2>4. Kept(i) /\ NewMember(i)
    BY <1>4, <2>3 DEF InvitationExpires, Kept, NewMember, Exists, Live
  <2> HIDE DEF row
  <2> QED BY <1>1, <1>4, <2>1, <2>2, <2>4 DEF InvitationExpires
<1> QED BY <1>2, <1>3, <1>4

\* So do a crash and the passing of time.
LEMMA OtherStepsKeep ==
  ASSUME IInv
  PROVE  /\ \A w \in later : Crash(w) => IInv'
         /\ \A a \in Assignments : AssignmentPeriod(a) => IInv'
         /\ UNCHANGED vars => IInv'
<1>0. AccountsTypeOK
  BY DEF IInv
<1>1. ASSUME UNCHANGED invitation, later' \subseteq later PROVE \A v \in later' : LaterOK(v)'
  <2>1. \A i \in Invitations : Kept(i)
    BY <1>1, SameIsKept
  <2> QED BY <1>1, <2>1, LaterStays DEF IInv
<1>2. ASSUME later' \subseteq later, UNCHANGED rows PROVE IInv'
  BY <1>1, <1>2 DEF rows, IInv, AccountsTypeOK, AcceptedProviderIsMember, DualControl, SawOK,
                    SamePlace, Exists, InviteesKnown, NoEarlyApprover, Live, HasMembership
<1>4. ASSUME NEW a \in Assignments, AssignmentPeriod(a) PROVE IInv'
  <2>1. /\ assignment' = [assignment EXCEPT ![a].period =
                            IF assignment[a].period = "FUTURE" THEN "CURRENT" ELSE "PAST"]
        /\ UNCHANGED <<user, membership, invitation, approval, later>>
    BY <1>4 DEF AssignmentPeriod
  <2>2. assignment' \in [Assignments -> AssignmentRows]
    BY <1>0, <2>1 DEF AccountsTypeOK, AssignmentRows
  <2> QED BY <1>1, <2>1, <2>2
          DEF IInv, AccountsTypeOK, AcceptedProviderIsMember, DualControl, SawOK, SamePlace,
              Exists, InviteesKnown, NoEarlyApprover, Live, HasMembership
<1>5. ASSUME NEW w \in later, Crash(w) PROVE IInv'
  BY <1>2, <1>5 DEF Crash
<1>6. ASSUME UNCHANGED vars PROVE IInv'
  BY <1>2, <1>6 DEF vars, rows
<1> QED BY <1>4, <1>5, <1>6

\* The invariant is inductive.
LEMMA NextIInv == IInv /\ [Next]_vars => IInv'
<1> SUFFICES ASSUME IInv, [Next]_vars PROVE IInv'
  OBVIOUS
<1>1. CASE Next
  BY <1>1, CallsAreSound, SoundStepKeeps, LaterStepsKeep, ReadKeeps, InvitationStepsKeep,
     OtherStepsKeep DEF Next, Call
<1>2. CASE UNCHANGED vars
  BY <1>2, OtherStepsKeep
<1> QED BY <1>1, <1>2

\* The invariant holds throughout.
LEMMA IInvAlways == Spec => []IInv
<1> QED BY InitIInv, NextIInv, PTL DEF Spec

\* Rows keep their types, accepted providers are members and approvals are under dual control,
\* whatever calls overlap and whatever second commit a crash loses.
THEOREM AccountsAlwaysInOrder == Spec => []AccountsInv
<1>1. IInv => AccountsInv
  BY DEF IInv, AccountsInv
<1> QED BY <1>1, IInvAlways, PTL

\* The three inviting endpoints leave two live invitations for one person, role and organization
\* only when their requests overlapped.
THEOREM AlwaysOneLivePending == Spec => []OneLivePending
<1>1. ASSUME IInv PROVE OneLivePending
  <2> SUFFICES ASSUME NEW i \in Invitations, NEW j \in Invitations, Live(i), Live(j),
                      SamePlace(j, invitation[i].invitee, invitation[i].role,
                                invitation[i].organizationId)
               PROVE  i \notin invitation[j].saw /\ j \notin invitation[i].saw
    BY DEF OneLivePending
  <2>1. invitation[i].status # "NONE" /\ invitation[j].status # "NONE"
    BY DEF Live
  <2>2. SamePlace(i, invitation[j].invitee, invitation[j].role, invitation[j].organizationId)
    BY DEF SamePlace
  <2> QED BY <1>1, <2>1, <2>2 DEF IInv, SawOK
<1> QED BY <1>1, IInvAlways, PTL

-----------------------------------------------------------------------------
(* Action properties.                                                      *)

\* No step that writes an invitation or commits an acceptance lifts a suspension that the
\* acceptance could have seen.
SuspensionStep ==
  \A u \in Users :
    /\ user[u].accountStatus = "SUSPENDED" /\ user'[u].accountStatus # "SUSPENDED"
    /\ invitation' # invitation \/ \E w \in later \ later' : Accepting(w)
    => \E w \in later \ later' : /\ Accepting(w) /\ invitation[w.invitation].invitee = u
                                /\ w.found # "SUSPENDED"

\* No step takes the last Super Admin out of service, but for one that decided on it when it
\* counted another one, or when the account was none, and an acceptance that read a suspension.
LastSuperAdminStep ==
  \A u \in Users :
    /\ user[u].role = "SUPER_ADMIN" /\ user'[u].role = "SUPER_ADMIN"
    /\ user[u].accountStatus = "ACTIVE" /\ user'[u].accountStatus # "ACTIVE"
    /\ \A v \in Users \ {u} : user'[v].accountStatus # "ACTIVE" \/ user'[v].role \notin SuperRoles
    => \E w \in later \ later' :
         \/ /\ "counted" \in DOMAIN w /\ w.id = u
            /\ w.counted # {} \/ w.role # "SUPER_ADMIN"
         \/ Accepting(w) /\ w.found = "SUSPENDED"

\* Writes that leave invitations alone.
LEMMA SameInvitations ==
  ASSUME AccountsTypeOK, NEW writes, Apply(writes), LeavesInvitations(writes)
  PROVE  invitation' = invitation
<1>1. \A i \in Invitations : invitation'[i] = invitation[i]
  BY InvitationStays DEF LeavesInvitations
<1>2. DOMAIN invitation = Invitations /\ invitation = [i \in Invitations |-> invitation[i]]
  BY DEF AccountsTypeOK
<1>3. invitation' = [i \in Invitations |-> invitation'[i]]
  BY <1>2, PatchedDomain DEF Apply
<1> QED BY <1>1, <1>2, <1>3

\* A call that writes invitations writes no account.
LEMMA SoundStepSuspension ==
  ASSUME IInv, SoundStep
  PROVE  SuspensionStep
<1>1. PICK writes, others : CommitThen(writes, others) /\ Sound(writes, others)
  BY DEF SoundStep
<1>2. Apply(writes) /\ AccountsTypeOK /\ later \ later' = {}
  BY <1>1 DEF CommitThen, IInv
<1> SUFFICES ASSUME NEW u \in Users, user[u].accountStatus = "SUSPENDED",
                    user'[u].accountStatus # "SUSPENDED"
             PROVE  invitation' = invitation
  BY <1>2 DEF SuspensionStep
<1>3. PICK w \in writes : w.table = "user" /\ w.id = u
  BY <1>2, UserRow
<1>4. ~Checks(writes)
  BY <1>3 DEF Checks, Write
<1>5. ~Ends(writes)
  BY <1>3 DEF Ends, Resolve, Write
<1>7. LeavesInvitations(writes)
  BY <1>1, <1>4, <1>5 DEF Sound
<1> QED BY <1>2, <1>7, SameInvitations

\* A call by itself takes no active Super Admin out of service.
LEMMA SoundStepLastSuperAdmin ==
  ASSUME IInv, SoundStep
  PROVE  LastSuperAdminStep
<1>1. PICK writes, others : CommitThen(writes, others) /\ Sound(writes, others)
  BY DEF SoundStep
<1>2. Apply(writes) /\ AccountsTypeOK
  BY <1>1 DEF CommitThen, IInv
<1> SUFFICES ASSUME NEW u \in Users, user[u].role = "SUPER_ADMIN", user'[u].role = "SUPER_ADMIN",
                    user[u].accountStatus = "ACTIVE", user'[u].accountStatus # "ACTIVE"
             PROVE  FALSE
  BY DEF LastSuperAdminStep
<1>3. PICK w \in writes : w.table = "user" /\ w.id = u /\ user'[u] = Overlay(user[u], w.set)
  BY <1>2, UserRow
<1>4. SparesSuperAdmins(w)
  BY <1>1 DEF Sound
<1>5. user[u] \in UserRows
  BY <1>2 DEF AccountsTypeOK
<1> QED BY <1>3, <1>4, <1>5 DEF SparesSuperAdmins, Overlay, UserRows

\* What is committed later leaves invitations alone, and counted when it was decided.
LEMMA LaterStep ==
  ASSUME IInv, NEW w \in later, CommitLater(w)
  PROVE  SuspensionStep /\ LastSuperAdminStep
<1>1. Apply({w}) /\ AccountsTypeOK /\ LaterOK(w) /\ later \ later' = {w} /\ "table" \in DOMAIN w
  BY DEF CommitLater, IInv
<1>2. LeavesInvitations({w}) /\ (w \in MembershipWrites \/ w \in StatusWrites)
  BY <1>1, LaterWrites
<1>3. SuspensionStep
  <2>1. ~Accepting(w)
    BY <1>2, Shapes DEF Accepting
  <2> QED BY <1>1, <1>2, <2>1, SameInvitations DEF SuspensionStep
<1>4. LastSuperAdminStep
  <2> SUFFICES ASSUME NEW u \in Users, user[u].accountStatus = "ACTIVE",
                      user'[u].accountStatus # "ACTIVE"
               PROVE  /\ "counted" \in DOMAIN w /\ w.id = u
                      /\ w.counted # {} \/ w.role # "SUPER_ADMIN"
    BY <1>1 DEF LastSuperAdminStep
  <2>1. w.table = "user" /\ w.id = u /\ user'[u] = Overlay(user[u], w.set)
    BY <1>1, UserRow
  <2>2. w \in StatusWrites
    BY <1>2, <2>1 DEF MembershipWrites
  <2>3. /\ DOMAIN w = {"table", "id", "set", "counted", "role"}
        /\ w.set \in [accountStatus: {"ACTIVE", "SUSPENDED", "DEACTIVATED"}]
    BY <2>2 DEF StatusWrites
  <2>4. user[u] \in UserRows
    BY <1>1 DEF AccountsTypeOK
  <2>5. w.set.accountStatus # "ACTIVE"
    BY <2>1, <2>3, <2>4 DEF Overlay, UserRows
  <2>6. w \notin MembershipWrites /\ ~BeginOK(w) /\ ~AcceptanceOK(w)
    BY <2>3, Shapes
  <2>7. w.counted # {} \/ w.role # "SUPER_ADMIN"
    BY <1>1, <2>5, <2>6 DEF LaterOK
  <2> QED BY <2>1, <2>3, <2>7
<1> QED BY <1>3, <1>4

\* An acceptance writes what it found.
LEMMA AcceptanceStep ==
  ASSUME IInv, NEW w \in later, CommitAcceptance(w)
  PROVE  SuspensionStep /\ LastSuperAdminStep
<1>1. /\ AcceptanceOK(w) /\ w \in later \ later' /\ Accepting(w) /\ AccountsTypeOK
  BY CommittedAcceptance DEF CommitAcceptance, IInv
<1>2. PICK writes : /\ Apply(writes) /\ Accepts(writes, w.invitation)
                    /\ \A v \in writes : v.table = "user" => v.set = w.set
  BY CommittedAcceptance
<1>3. ASSUME NEW u \in Users, user'[u].accountStatus # user[u].accountStatus
      PROVE  /\ u = invitation[w.invitation].invitee
             /\ user'[u].accountStatus = w.set.accountStatus
  <2>1. PICK v \in writes : v.table = "user" /\ v.id = u /\ user'[u] = Overlay(user[u], v.set)
    BY <1>1, <1>2, <1>3, UserRow
  <2>2. v.set = w.set /\ u = invitation[w.invitation].invitee
    BY <1>2, <2>1 DEF Accepts
  <2>3. user[u] \in UserRows
    BY <1>1 DEF AccountsTypeOK
  <2> QED BY <1>1, <2>1, <2>2, <2>3 DEF Overlay, UserRows, AcceptanceOK
<1>4. SuspensionStep
  BY <1>1, <1>3 DEF SuspensionStep, AcceptanceOK
<1>5. LastSuperAdminStep
  BY <1>1, <1>3 DEF LastSuperAdminStep, AcceptanceOK
<1> QED BY <1>4, <1>5

\* Every step.
LEMMA StepsStand == IInv /\ [Next]_vars => SuspensionStep /\ LastSuperAdminStep
<1> SUFFICES ASSUME IInv, [Next]_vars PROVE SuspensionStep /\ LastSuperAdminStep
  OBVIOUS
<1>1. CASE SoundStep
  BY <1>1, SoundStepSuspension, SoundStepLastSuperAdmin
<1>2. ASSUME NEW w \in later, CommitLater(w) \/ CommitAcceptance(w)
      PROVE  SuspensionStep /\ LastSuperAdminStep
  BY <1>2, LaterStep, AcceptanceStep
<1>3. CASE UNCHANGED user
  BY <1>3 DEF SuspensionStep, LastSuperAdminStep
<1>4. CASE Next
  <2>1. \A w \in later : Crash(w) \/ ReadInTransaction(w) => UNCHANGED user
    BY DEF Crash, ReadInTransaction, rows
  <2>2. \A i \in Invitations :
          createInvitation(i) \/ CrashBeforeCreate(i) \/ InvitationExpires(i) => UNCHANGED user
    BY DEF createInvitation, CrashBeforeCreate, InvitationExpires
  <2>3. \A a \in Assignments : AssignmentPeriod(a) => UNCHANGED user
    BY DEF AssignmentPeriod
  <2> QED BY <1>1, <1>2, <1>3, <1>4, <2>1, <2>2, <2>3, CallsAreSound DEF Next, Call
<1>5. CASE UNCHANGED vars
  BY <1>3, <1>5 DEF vars
<1> QED BY <1>4, <1>5

\* A suspension that an acceptance read, it does not lift, and nothing else that writes an
\* invitation lifts any.
THEOREM SuspensionAlwaysStands == Spec => SuspensionStands
<1>1. IInv /\ [Next]_vars => [SuspensionStep]_vars
  BY StepsStand
<1>2. [][SuspensionStep]_vars => SuspensionStands
  BY PTL DEF SuspensionStands, SuspensionStep
<1> QED BY <1>1, <1>2, IInvAlways, PTL DEF Spec

\* The last active Super Admin is lost only to a suspension that counted another one, that was
\* decided before the account became a Super Admin's, or that an acceptance had read.
THEOREM LastSuperAdminAlwaysCounted == Spec => LastSuperAdminWasCounted
<1>1. IInv /\ [Next]_vars => [LastSuperAdminStep]_vars
  BY StepsStand
<1>2. [][LastSuperAdminStep]_vars => LastSuperAdminWasCounted
  BY PTL DEF LastSuperAdminWasCounted, LastSuperAdminStep
<1> QED BY <1>1, <1>2, IInvAlways, PTL DEF Spec

=============================================================================
