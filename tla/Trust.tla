-------------------------------- MODULE Trust --------------------------------
(***************************************************************************)
(* Identity, verification (KYC), evidence records, disputes and trust      *)
(* enforcement: trust.service.ts, with the two handlers elsewhere that     *)
(* write the identity columns of a user (firebaseLogin, updateUser).       *)
(*                                                                         *)
(* A handler is in flight in req[r]; each of its steps is one statement    *)
(* that writes, with the reads before it, or a read that a later write     *)
(* depends on.  stale is a history variable: the handlers whose row was    *)
(* written by another handler after they read it.                          *)
(* Roles, organizations, memberships and reports are given (Accounts and   *)
(* ReportWorkflow are about their changes).                                *)
(***************************************************************************)
EXTENDS Naturals, FiniteSets, FiniteSetsExt

CONSTANTS Users, Organizations, Requests, None,
          Role,            \* role of a user
          organizationId,  \* organization of a user, or None
          Membership,      \* active provider memberships: pairs <<user, organization>>
          Reports,
          Report,          \* [citizenId, assignedProviderId, organizationId] of a report
          Submissions, Disputes, Records,  \* identities of rows
          SubmissionTypes, ReviewStatuses, DisputeStatuses, \* inputs of the callers
          Switches,        \* the settings that callers change
          TimestampSuffixes, \* the numbers that the last digits of the clock can show
          Workloads        \* [ops, actors, maxCalls]: operations that are called together, by
                           \* whom, and the bound on the number of calls

ASSUME NoneIsNoId == None \notin Users \cup Organizations \cup Requests

VARIABLES person, entitled, kyc, dispute, message, evidence, settings,
          req,    \* handlers in flight
          stale,  \* history: handlers that read a row that was written since
          calls,  \* calls so far
          workload \* the operations that are called, and by whom

vars == <<person, entitled, kyc, dispute, message, evidence, settings, req, stale, calls, workload>>

-----------------------------------------------------------------------------
(* Rows.  A row that does not exist has the status NONE or owner None.     *)

\* secureZoneId: 0 is null, n is the number in SZ-<year>-<n>.  trustScore in tens.
PersonRows ==
  [secureZoneId: Nat, level: 0..6, trustScore: 0..10,
   status: {"UNVERIFIED", "PHONE_VERIFIED", "EMAIL_VERIFIED", "ID_VERIFIED",
            "FACE_VERIFIED", "ADDRESS_VERIFIED", "BUSINESS_VERIFIED"}]

KycRows == [status: ReviewStatuses \cup {"NONE", "SUBMITTED"}, userId: Users \cup {None},
            submissionType: SubmissionTypes \cup {None}, reviewedById: Users \cup {None}]

\* closedById stands for closedAt too.  overdue: HIGH or URGENT, or older than 48 hours.
DisputeRows ==
  [status: DisputeStatuses \cup {"NONE", "OPEN", "ESCALATED"}, caseNumber: Nat,
   openedById: Users \cup {None}, closedById: Users \cup {None},
   assignedAdminId: Users \cup {None}, overdue: BOOLEAN]

EvidenceRows == [ownerUserId: Users \cup {None}, uploadedById: Users \cup {None},
                 organizationId: Organizations \cup {None}]

\* The switches of the enforcement settings; "plan" is a plan above FREE required.
Requirements == {"disputes", "evidence", "acceptance", "plan"}

ASSUME GivenRows ==
  /\ IsFiniteSet(Users)
  /\ organizationId \in [Users -> Organizations \cup {None}]
  /\ \A x \in Reports : /\ Report[x].citizenId \in Users \cup {None}
                        /\ Report[x].organizationId \in Organizations \cup {None}
  /\ \A w \in Workloads : w.actors \subseteq Users

ASSUME GivenInputs ==
  /\ Switches \subseteq Requirements /\ TimestampSuffixes \subseteq Nat
  /\ "NONE" \notin ReviewStatuses \cup DisputeStatuses

Idle == [op |-> "idle"]

-----------------------------------------------------------------------------
(* Who may.                                                                *)

isAdminRole(u) == Role[u] \in {"SUPER_ADMIN", "ORG_ADMIN", "DISPATCH_OFFICER"}
isOrgScopedAdminRole(u) == Role[u] \in {"ORG_ADMIN", "DISPATCH_OFFICER"}

assertCanAccessUser(u, org) ==
  Role[u] = "SUPER_ADMIN" \/ (organizationId[u] # None /\ org = organizationId[u])

canAdminAccessOrganization(u, org) ==
  \/ Role[u] = "SUPER_ADMIN"
  \/ isOrgScopedAdminRole(u) /\ organizationId[u] # None /\ org = organizationId[u]

authorizedProviderOrganizationIds(u) ==
  {o \in Organizations : o = organizationId[u] \/ <<u, o>> \in Membership}

canAccessReport(u, report) ==
  \/ report.citizenId = u
  \/ IF Role[u] = "PROVIDER" /\ report.assignedProviderId = u
     THEN report.organizationId \in authorizedProviderOrganizationIds(u)
     ELSE canAdminAccessOrganization(u, report.organizationId)

DisputeOrganization(d) == organizationId[dispute[d].openedById]

canAccessDispute(u, d) ==
  dispute[d].openedById = u \/ canAdminAccessOrganization(u, DisputeOrganization(d))

\* What listEvidence selects.
evidenceScopeWhere(u, record) ==
  IF Role[u] = "SUPER_ADMIN" THEN TRUE
  ELSE IF isOrgScopedAdminRole(u)
       THEN record.organizationId # None /\ record.organizationId = organizationId[u]
       ELSE u \in {record.ownerUserId, record.uploadedById}

\* Mutant: the uploader is forgotten.
OwnerOnlyEvidence(u, record) ==
  \/ Role[u] = "SUPER_ADMIN"
  \/ isOrgScopedAdminRole(u) /\ organizationId[u] # None
       /\ record.organizationId = organizationId[u]
  \/ ~isOrgScopedAdminRole(u) /\ record.ownerUserId = u

\* What getEvidence returns.
canAccessEvidence(u, record) ==
  \/ Role[u] = "SUPER_ADMIN"
  \/ isOrgScopedAdminRole(u) /\ organizationId[u] # None
       /\ record.organizationId = organizationId[u]
  \/ ~isOrgScopedAdminRole(u) /\ (record.ownerUserId = u \/ record.uploadedById = u)

\* The owner and organization of evidence about related, or nothing when it is refused.
resolveEvidenceScope(u, related) ==
  CASE related[1] = "USER" /\ related[2] = u ->
         {[ownerUserId |-> u, organizationId |-> organizationId[u]]}
    [] related[1] = "USER" /\ related[2] # u ->
         {[ownerUserId |-> related[2], organizationId |-> organizationId[related[2]]] :
            x \in {y \in {u} : isAdminRole(y)
                                 /\ assertCanAccessUser(y, organizationId[related[2]])}}
    [] related[1] = "REPORT" ->
         {[ownerUserId |-> Report[related[2]].citizenId,
           organizationId |-> Report[related[2]].organizationId] :
            x \in {y \in {u} : canAccessReport(y, Report[related[2]])}}
    [] OTHER -> {[ownerUserId |-> u, organizationId |-> organizationId[u]]}

Related == ({"USER"} \X Users) \cup ({"REPORT"} \X Reports) \cup {<<"DOCUMENT", None>>}

\* Every entitlement has the plan FREE, the only one a row is ever created with.
checkAccessRequirements(requirement, required, level) ==
  /\ requirement \in required => level >= 1
  /\ "plan" \notin required

-----------------------------------------------------------------------------
(* Numbers that are handed out.                                            *)

IdsInUse == {person[u].secureZoneId : u \in Users} \ {0}

\* count + 1 + attempt, for the first attempt of five whose number is free, and what the
\* clock shows when none is.
nextSecureZoneId ==
  LET count == Cardinality({u \in Users : person[u].secureZoneId # 0})
      free == {n \in (count + 1) .. (count + 5) : n \notin IdsInUse} IN
  IF free = {} THEN TimestampSuffixes ELSE {n \in free : \A m \in free : n <= m}

CaseNumbers == {dispute[d].caseNumber : d \in Disputes} \ {0}

nextCaseNumber == Cardinality(CaseNumbers) + 1

-----------------------------------------------------------------------------
(* How a handler runs.                                                     *)

Start(r, op, job) ==
  /\ op \in workload.ops /\ req[r] = Idle
  /\ req' = [req EXCEPT ![r] = job]
  /\ calls' = calls + 1

\* Handler r goes on with job after it wrote the rows; whoever else read them is stale.
WroteThen(r, tables, job) ==
  /\ req' = [req EXCEPT ![r] = job]
  /\ stale' = ((stale \ {r})
                 \cup {q \in Requests \ {r} : req[q] # Idle /\ req[q].row \cap tables # {}})

Wrote(r, tables) == WroteThen(r, tables, Idle)

\* A refused call, a violated unique constraint, or a database error.
Fail(r) ==
  /\ req[r] # Idle
  /\ req' = [req EXCEPT ![r] = Idle]
  /\ stale' = stale \ {r}
  /\ UNCHANGED <<person, entitled, kyc, dispute, message, evidence, settings, calls>>

\* A handler that starts with ensureIdentity: it has read the user, and the next number
\* when the user has none.
Candidates(u) == IF person[u].secureZoneId = 0 THEN nextSecureZoneId ELSE {0}

IdentityJob(op, u, arg, required, candidate) ==
  [op |-> op, by |-> u, arg |-> arg, required |-> required, level |-> person[u].level,
   at |-> "identity", row |-> {<<"person", u>>}, candidate |-> candidate]

identityCall(r, u, op, arg) ==
  /\ \E n \in Candidates(u) :
       Start(r, op, IdentityJob(op, u, arg, settings[organizationId[u]], n))
  /\ UNCHANGED <<person, entitled, kyc, dispute, message, evidence, settings, stale>>

\* What follows ensureIdentity.  A login stops there.
AfterIdentity(job) ==
  CASE job.op = "firebaseLogin" -> Idle
    [] job.op = "submitKyc" -> [job EXCEPT !.at = "act"]
    [] OTHER -> [job EXCEPT !.at = "entitlement", !.level = person[job.by].level]

ensureIdentity(r) ==
  LET job == req[r] IN
  /\ job # Idle /\ job.at = "identity"
  /\ \/ /\ job.candidate = 0
        /\ req' = [req EXCEPT ![r] = AfterIdentity(job)]
        /\ stale' = IF AfterIdentity(job) = Idle THEN stale \ {r} ELSE stale
        /\ UNCHANGED person
     \/ /\ job.candidate # 0
        /\ \A v \in Users \ {job.by} : person[v].secureZoneId # job.candidate
        /\ person' = [person EXCEPT ![job.by].secureZoneId = job.candidate]
        /\ WroteThen(r, {<<"person", job.by>>}, AfterIdentity(job))
  /\ UNCHANGED <<entitled, kyc, dispute, message, evidence, settings, calls>>

\* getIdentityMe and getEntitlementsMe end here, and so does the gate before a provider
\* accepts a job.
ensureEntitlement(r) ==
  LET job == req[r] IN
  /\ job # Idle /\ job.at = "entitlement"
  /\ entitled' = entitled \cup {job.by}
  /\ req' = [req EXCEPT ![r] = IF job.op = "getIdentityMe" THEN Idle ELSE [job EXCEPT !.at = "act"]]
  /\ stale' = IF job.op = "getIdentityMe" THEN stale \ {r} ELSE stale
  /\ UNCHANGED <<person, kyc, dispute, message, evidence, settings, calls>>

-----------------------------------------------------------------------------
(* Verification.                                                           *)

submitKyc(r, k) ==
  LET job == req[r] IN
  /\ job # Idle /\ job.op = "submitKyc" /\ job.at = "act"
  /\ kyc[k].status = "NONE"
  /\ kyc' = [kyc EXCEPT ![k] = [status |-> "SUBMITTED", userId |-> job.by,
                                submissionType |-> job.arg, reviewedById |-> None]]
  /\ Wrote(r, {})
  /\ UNCHANGED <<person, entitled, dispute, message, evidence, settings, calls>>

\* The transaction updates the submission first, which locks its row, and then reads the
\* user: two reviews of one submission wait for each other.
reviewKyc(r, u, k, status) ==
  /\ Role[u] \in {"SUPER_ADMIN", "ORG_ADMIN"}
  /\ kyc[k].status # "NONE"
  /\ assertCanAccessUser(u, organizationId[kyc[k].userId])
  /\ \A q \in Requests : ~(req[q] # Idle /\ req[q].op = "reviewKyc" /\ req[q].arg = k)
  /\ Start(r, "reviewKyc",
           [op |-> "reviewKyc", by |-> u, arg |-> k, at |-> "review", status |-> status,
            read |-> person[kyc[k].userId], row |-> {<<"person", kyc[k].userId>>}])
  /\ UNCHANGED <<person, entitled, kyc, dispute, message, evidence, settings, stale>>

\* Mutant: a proof of address is worth what a selfie is.
LevelOfShifted(submissionType) ==
  CASE submissionType = "GOVERNMENT_ID" -> 3
    [] submissionType = "FACE_SELFIE"   -> 4
    [] submissionType = "ADDRESS_PROOF" -> 4
    [] OTHER                            -> 6

LevelOf(submissionType) ==
  CASE submissionType = "GOVERNMENT_ID" -> 3
    [] submissionType = "FACE_SELFIE"   -> 4
    [] submissionType = "ADDRESS_PROOF" -> 5
    [] OTHER                            -> 6

StatusOf(submissionType) ==
  CASE submissionType = "GOVERNMENT_ID" -> "ID_VERIFIED"
    [] submissionType = "FACE_SELFIE"   -> "FACE_VERIFIED"
    [] submissionType = "ADDRESS_PROOF" -> "ADDRESS_VERIFIED"
    [] OTHER                            -> "BUSINESS_VERIFIED"

\* Mutant: the level of the submission replaces the one reached.
ReplaceLevelFromKyc(row, read, submissionType) ==
  [row EXCEPT !.trustScore = Min({read.trustScore + 1, 10}),
              !.status = StatusOf(submissionType), !.level = LevelOf(submissionType)]

\* row is the user as it is now, read as the transaction read it.
applyVerificationFromKyc(row, read, submissionType) ==
  [row EXCEPT !.trustScore = Min({read.trustScore + 1, 10}),
              !.status = StatusOf(submissionType),
              !.level = Max({read.level, LevelOf(submissionType)})]

commitReview(r) ==
  LET job == req[r]  k == job.arg  u == kyc[k].userId IN
  /\ job # Idle /\ job.at = "review"
  /\ kyc' = [kyc EXCEPT ![k].status = job.status, ![k].reviewedById = job.by]
  /\ IF job.status = "APPROVED"
     THEN /\ person' = [person EXCEPT ![u] =
                          applyVerificationFromKyc(@, job.read, kyc[k].submissionType)]
          /\ Wrote(r, {<<"person", u>>})
     ELSE UNCHANGED person /\ Wrote(r, {})
  /\ UNCHANGED <<entitled, dispute, message, evidence, settings, calls>>

\* verified: what the token of the identity provider confirms.
firebaseLogin(r, u, verified) ==
  /\ Role[u] = "CITIZEN"
  /\ Start(r, "firebaseLogin",
           [op |-> "firebaseLogin", by |-> u, arg |-> verified, at |-> "login",
            read |-> person[u], row |-> {<<"person", u>>}])
  /\ UNCHANGED <<person, entitled, kyc, dispute, message, evidence, settings, stale>>

nextFirebaseIdentityStatus(row, verified) ==
  IF row.status # "UNVERIFIED" THEN row.status
  ELSE IF verified = "phone" THEN "PHONE_VERIFIED" ELSE "EMAIL_VERIFIED"

nextFirebaseIdentityLevel(row, verified) ==
  Max({row.level, IF verified = "phone" THEN 2 ELSE 1})

commitLogin(r) ==
  LET job == req[r]  u == job.by IN
  /\ job # Idle /\ job.at = "login"
  /\ person' = [person EXCEPT ![u].status = nextFirebaseIdentityStatus(job.read, job.arg),
                              ![u].level = nextFirebaseIdentityLevel(job.read, job.arg)]
  /\ \E n \in Candidates(u) :
       WroteThen(r, {<<"person", u>>}, IdentityJob("firebaseLogin", u, None, {}, n))
  /\ UNCHANGED <<entitled, kyc, dispute, message, evidence, settings, calls>>

\* updateUser with a new e-mail address for a provider.
changeEmail(u) ==
  /\ "changeEmail" \in workload.ops
  /\ Role[u] = "PROVIDER"
  /\ calls' = calls + 1
  /\ person' = [person EXCEPT ![u].status = "UNVERIFIED"]
  /\ stale' = stale \cup {q \in Requests : req[q] # Idle /\ <<"person", u>> \in req[q].row}
  /\ UNCHANGED <<entitled, kyc, dispute, message, evidence, settings, req>>

-----------------------------------------------------------------------------
(* Evidence records.                                                       *)

createEvidence(r, e) ==
  LET job == req[r] IN
  /\ job # Idle /\ job.op = "createEvidence" /\ job.at = "act"
  /\ checkAccessRequirements("evidence", job.required, job.level)
  /\ evidence[e].uploadedById = None
  /\ \E scope \in resolveEvidenceScope(job.by, job.arg) :
       evidence' = [evidence EXCEPT ![e] =
                      [ownerUserId |-> scope.ownerUserId, uploadedById |-> job.by,
                       organizationId |-> scope.organizationId]]
  /\ Wrote(r, {})
  /\ UNCHANGED <<person, entitled, kyc, dispute, message, settings, calls>>

-----------------------------------------------------------------------------
(* Disputes.                                                               *)

\* The gate, and the count of the cases so far.
countCases(r) ==
  LET job == req[r] IN
  /\ job # Idle /\ job.op = "createDispute" /\ job.at = "act"
  /\ checkAccessRequirements("disputes", job.required, job.level)
  /\ req' = [req EXCEPT ![r].at = "create", ![r].candidate = nextCaseNumber]
  /\ UNCHANGED <<person, entitled, kyc, dispute, message, evidence, settings, stale, calls>>

MessageJob(op, u, d, kind, todo) ==
  [op |-> op, by |-> u, arg |-> d, at |-> "message", kind |-> kind, todo |-> todo,
   row |-> {<<"dispute", x>> : x \in todo}]

createDispute(r, d, overdue) ==
  LET job == req[r] IN
  /\ job # Idle /\ job.op = "createDispute" /\ job.at = "create"
  /\ dispute[d].status = "NONE"
  /\ job.candidate \notin CaseNumbers
  /\ dispute' = [dispute EXCEPT ![d] =
                   [status |-> "OPEN", caseNumber |-> job.candidate, openedById |-> job.by,
                    closedById |-> None, assignedAdminId |-> None, overdue |-> overdue]]
  /\ WroteThen(r, {<<"dispute", d>>}, MessageJob("createDispute", job.by, d, "OPENING", {}))
  /\ UNCHANGED <<person, entitled, kyc, message, evidence, settings, calls>>

\* The message that explains what was just written; the sweep goes on to the next case.
createMessage(r) ==
  LET job == req[r] IN
  /\ job # Idle /\ job.at = "message"
  /\ message' = message \cup {<<job.arg, job.kind>>}
  /\ IF job.todo = {}
     THEN req' = [req EXCEPT ![r] = Idle] /\ stale' = stale \ {r}
     ELSE req' = [req EXCEPT ![r].at = "sweep"] /\ UNCHANGED stale
  /\ UNCHANGED <<person, entitled, kyc, dispute, evidence, settings, calls>>

\* A handler of one dispute: it writes the row, a message follows.
DisputeHandler(r, op, u, d, row, kind) ==
  /\ dispute[d].status # "NONE"
  /\ Start(r, op, MessageJob(op, u, d, kind, {}))
  /\ dispute' = [dispute EXCEPT ![d] = row]
  /\ stale' = stale \cup {q \in Requests \ {r} : req[q] # Idle /\ <<"dispute", d>> \in req[q].row}
  /\ UNCHANGED <<person, entitled, kyc, message, evidence, settings>>

addDisputeMessage(r, u, d) ==
  /\ dispute[d].status # "NONE" /\ canAccessDispute(u, d)
  /\ DisputeHandler(r, "addDisputeMessage", u, d, dispute[d], "MESSAGE")

terminalStatuses == {"RESOLVED", "REJECTED", "CLOSED"}

updateDisputeStatus(r, u, d, status) ==
  /\ dispute[d].status # "NONE" /\ canAdminAccessOrganization(u, DisputeOrganization(d))
  /\ DisputeHandler(r, "updateDisputeStatus", u, d,
       [dispute[d] EXCEPT !.status = status,
                          !.closedById = IF status \in terminalStatuses THEN u ELSE None],
       "STATUS_NOTE")

assignDispute(r, u, d, assignee) ==
  /\ dispute[d].status # "NONE" /\ canAdminAccessOrganization(u, DisputeOrganization(d))
  /\ isAdminRole(assignee) /\ canAdminAccessOrganization(u, organizationId[assignee])
  /\ DisputeHandler(r, "assignDispute", u, d,
       [dispute[d] EXCEPT !.assignedAdminId = assignee], "ASSIGNMENT_NOTE")

Escalated(row) == [row EXCEPT !.status = "ESCALATED"]

escalateDispute(r, u, d) ==
  /\ dispute[d].status # "NONE" /\ canAdminAccessOrganization(u, DisputeOrganization(d))
  /\ DisputeHandler(r, "escalateDispute", u, d, Escalated(dispute[d]), "ESCALATION")

\* Mutant: the sweep lists disputes of any status.
OverdueAnyStatus(u) ==
  {d \in Disputes : /\ dispute[d].status # "NONE" /\ dispute[d].overdue
                    /\ canAdminAccessOrganization(u, DisputeOrganization(d))}

OverdueDisputes(u) ==
  {d \in Disputes : /\ dispute[d].status \in {"OPEN", "UNDER_REVIEW"} /\ dispute[d].overdue
                    /\ canAdminAccessOrganization(u, DisputeOrganization(d))}

escalateOverdueDisputes(r, u) ==
  /\ isAdminRole(u) /\ OverdueDisputes(u) # {}
  /\ Start(r, "escalateOverdueDisputes",
           [MessageJob("escalateOverdueDisputes", u, None, "ESCALATION", OverdueDisputes(u))
              EXCEPT !.at = "sweep"])
  /\ UNCHANGED <<person, entitled, kyc, dispute, message, evidence, settings, stale>>

escalateNext(r, d) ==
  LET job == req[r] IN
  /\ job # Idle /\ job.at = "sweep" /\ d \in job.todo
  /\ dispute' = [dispute EXCEPT ![d] = Escalated(@)]
  /\ req' = [req EXCEPT ![r] = MessageJob(job.op, job.by, d, "ESCALATION", job.todo \ {d})]
  /\ stale' = stale \cup {q \in Requests \ {r} : req[q] # Idle /\ <<"dispute", d>> \in req[q].row}
  /\ UNCHANGED <<person, entitled, kyc, message, evidence, settings, calls>>

DisputeAges(d) ==
  /\ dispute[d].status # "NONE" /\ ~dispute[d].overdue
  /\ dispute' = [dispute EXCEPT ![d].overdue = TRUE]
  /\ UNCHANGED <<person, entitled, kyc, message, evidence, settings, req, stale, calls>>

-----------------------------------------------------------------------------
(* Enforcement settings: one JSON value per organization.                  *)

updateEnforcementSettings(r, u, requirement, on) ==
  LET current == settings[organizationId[u]] IN
  /\ Role[u] \in {"SUPER_ADMIN", "ORG_ADMIN"}
  /\ Start(r, "updateEnforcementSettings",
           [op |-> "updateEnforcementSettings", by |-> u, arg |-> requirement, at |-> "upsert",
            value |-> IF on THEN current \cup {requirement} ELSE current \ {requirement},
            row |-> {<<"settings", organizationId[u]>>}])
  /\ UNCHANGED <<person, entitled, kyc, dispute, message, evidence, settings, stale>>

upsertSettings(r) ==
  LET job == req[r]  key == organizationId[job.by] IN
  /\ job # Idle /\ job.at = "upsert"
  /\ settings' = [settings EXCEPT ![key] = job.value]
  /\ Wrote(r, {<<"settings", key>>})
  /\ UNCHANGED <<person, entitled, kyc, dispute, message, evidence, calls>>

-----------------------------------------------------------------------------
Init ==
  /\ person = [u \in Users |-> [secureZoneId |-> 0, level |-> 0, trustScore |-> 0,
                                status |-> "UNVERIFIED"]]
  /\ entitled = {}
  /\ kyc = [k \in Submissions |-> [status |-> "NONE", userId |-> None,
                                   submissionType |-> None, reviewedById |-> None]]
  /\ dispute = [d \in Disputes |-> [status |-> "NONE", caseNumber |-> 0, openedById |-> None,
                                    closedById |-> None, assignedAdminId |-> None,
                                    overdue |-> FALSE]]
  /\ message = {}
  /\ evidence = [e \in Records |-> [ownerUserId |-> None, uploadedById |-> None,
                                    organizationId |-> None]]
  /\ settings = [key \in Organizations \cup {None} |-> {}]
  /\ req = [r \in Requests |-> Idle]
  /\ stale = {} /\ calls = 0 /\ workload \in Workloads

Call(r, u) ==
  \/ identityCall(r, u, "getIdentityMe", None)
  \/ \E t \in SubmissionTypes : identityCall(r, u, "submitKyc", t)
  \/ identityCall(r, u, "createDispute", None)
  \/ \E related \in Related : identityCall(r, u, "createEvidence", related)
  \/ \E verified \in {"phone", "email"} : firebaseLogin(r, u, verified)
  \/ \E k \in Submissions, status \in ReviewStatuses : reviewKyc(r, u, k, status)
  \/ \E d \in Disputes :
       \/ addDisputeMessage(r, u, d)
       \/ \E status \in DisputeStatuses : updateDisputeStatus(r, u, d, status)
       \/ \E assignee \in Users : assignDispute(r, u, d, assignee)
       \/ escalateDispute(r, u, d)
  \/ escalateOverdueDisputes(r, u)
  \/ \E requirement \in Switches, on \in BOOLEAN :
       updateEnforcementSettings(r, u, requirement, on)

Continue(r) ==
  \/ ensureIdentity(r) \/ ensureEntitlement(r)
  \/ \E k \in Submissions : submitKyc(r, k)
  \/ commitReview(r) \/ commitLogin(r)
  \/ \E e \in Records : createEvidence(r, e)
  \/ countCases(r)
  \/ \E d \in Disputes, overdue \in BOOLEAN : createDispute(r, d, overdue)
  \/ createMessage(r)
  \/ \E d \in Disputes : escalateNext(r, d)
  \/ upsertSettings(r)
  \/ Fail(r)

Next ==
  /\ \/ \E r \in Requests : Continue(r)
     \/ /\ calls < workload.maxCalls
        /\ \/ \E u \in workload.actors, r \in Requests : Call(r, u)
           \/ \E u \in Users : changeEmail(u)
     \/ \E d \in Disputes : DisputeAges(d)
  /\ UNCHANGED workload

Spec == Init /\ [][Next]_vars

-----------------------------------------------------------------------------
(* Properties.                                                             *)

\* Columns keep their types.
TrustTypeOK ==
  /\ person \in [Users -> PersonRows] /\ entitled \subseteq Users
  /\ kyc \in [Submissions -> KycRows]
  /\ dispute \in [Disputes -> DisputeRows]
  /\ evidence \in [Records -> EvidenceRows]
  /\ settings \in [Organizations \cup {None} -> SUBSET Requirements]

RankOf(status) ==
  CASE status = "UNVERIFIED"       -> 0
    [] status = "EMAIL_VERIFIED"   -> 1
    [] status = "PHONE_VERIFIED"   -> 2
    [] status = "ID_VERIFIED"      -> 3
    [] status = "FACE_VERIFIED"    -> 4
    [] status = "ADDRESS_VERIFIED" -> 5
    [] OTHER                       -> 6

\* The verification status that a user sees is backed by the level that the gates compare,
\* whatever reviews, sign-ins and e-mail changes overlap; and a level above 2 was reached
\* by a submission of that kind that an administrator reviewed.
VerificationIsBacked ==
  \A u \in Users :
    /\ RankOf(person[u].status) <= person[u].level
    /\ person[u].level >= 3 =>
         \E k \in Submissions : /\ kyc[k].userId = u /\ kyc[k].reviewedById # None
                                /\ LevelOf(kyc[k].submissionType) = person[u].level

\* A SecureZone ID once given to a user stays, and a verification level never falls, unless
\* the handler that writes it read the user before another handler wrote it.
IdentityStands ==
  [][\A u \in Users :
       \/ person'[u].level < person[u].level
       \/ person[u].secureZoneId # 0 /\ person'[u].secureZoneId # person[u].secureZoneId
       => \E r \in stale : req[r].row = {<<"person", u>>} /\ req'[r] # req[r]]_vars

\* A dispute in a terminal status says who closed it, and one that is not says so only after
\* it was escalated from there.
ClosureIsRecorded ==
  \A d \in Disputes :
    /\ dispute[d].status \in terminalStatuses => dispute[d].closedById # None
    /\ dispute[d].closedById # None => dispute[d].status \in terminalStatuses \cup {"ESCALATED"}

\* The sweep over overdue disputes reopens a closed one only when it was closed after the
\* sweep listed it.
SweepSparesClosed ==
  [][\A r \in Requests, d \in Disputes :
       /\ req[r].op = "escalateOverdueDisputes" /\ req'[r] # req[r]
       /\ dispute[d].status \in terminalStatuses /\ dispute'[d].status = "ESCALATED"
       => r \in stale]_vars

\* The count of the cases plus one is a free case number, so that a dispute is refused only
\* when another one is opened at the same time.
NextCaseNumberIsFree == nextCaseNumber \notin CaseNumbers

\* The evidence a user can list is the evidence a user can open, and who uploaded a record
\* about a report can open it, but for an administrator who filed the report elsewhere.
EvidenceIsReadable ==
  \A e \in Records, u \in Users :
    evidence[e].uploadedById # None =>
      /\ evidenceScopeWhere(u, evidence[e]) <=> canAccessEvidence(u, evidence[e])
      /\ /\ u = evidence[e].uploadedById
         /\ isOrgScopedAdminRole(u) => organizationId[u] # None /\ evidence[e].ownerUserId # u
         => canAccessEvidence(u, evidence[e])

\* The rows agree at every moment with what the handlers derive from them: types, closures of
\* disputes, free case numbers, and the two functions that decide who reads evidence.
TrustInv == TrustTypeOK /\ ClosureIsRecorded /\ NextCaseNumberIsFree /\ EvidenceIsReadable

=============================================================================
