---------------------------- MODULE ReportDispatch ----------------------------
(***************************************************************************)
(* Intake, responsibility routing, provider assignment and provider work:  *)
(* the handlers of src/report/report.service.ts that take a report from    *)
(* creation to COMPLETED_BY_PROVIDER, and those that take it back.         *)
(***************************************************************************)
EXTENDS ReportRequests

CONSTANTS
    Membership,     \* pairs <<provider, organization>>: active membership
    PolicyChoices   \* completion policies that configuration may select

ASSUME PolicyChoicesAssumption == PolicyChoices \subseteq CompletionPolicies

\* ORG_ADMIN and DISPATCH_OFFICER act on reports of their own organization,
\* SUPER_ADMIN on all.
MayOperate(user, row) == user = SuperAdmin \/ row.organizationId = user

Overdue(row) ==
    row.status = "ASSIGNED" /\ row.assignmentDeadlineAt = "BEHIND"

-----------------------------------------------------------------------------
(* Intake and responsibility routing *)

\* A new report of a citizen of organization `home'.  `match' is the single
\* organization the resolver found with high confidence, or Null.
NewReport(home, match) ==
    Patched([k \in Columns |-> Null],
            [status |-> IF match # Null THEN "ORG_REVIEW" ELSE "TRIAGE",
             organizationId |-> home,
             assignedOrganizationId |-> match,
             responsibilityMatch |-> match,
             organizationAssignmentSource |-> "ROUTED"])

\* A row written before automatic review: matched to the citizen's own
\* organization, yet left in TRIAGE.
LegacyReport(home) ==
    Patched(NewReport(home, home),
            [status |-> "TRIAGE", assignedOrganizationId |-> Null])

createReport(r, home, match) ==
    /\ ~Exists(r)
    /\ report' = [x \in DOMAIN report \cup {r} |->
                    IF x = r THEN NewReport(home, match) ELSE report[x]]
    /\ UNCHANGED req

isLegacyMatchedResponsibilityReview(row, org) ==
    /\ row.status = "TRIAGE"
    /\ row.organizationId = org
    /\ row.assignedOrganizationId = Null
    /\ row.assignedProviderId = Null
    /\ row.lastAssignmentOutcome # "REJECTED"
    /\ row.organizationAssignmentSource # "REJECTED"
    /\ row.responsibilityMatch = org

\* Both review decisions: the report is routed to org and awaits it.
AwaitsDecisionOf(row, org) ==
    \/ row.assignedOrganizationId = org /\ row.status = "ORG_REVIEW"
    \/ isLegacyMatchedResponsibilityReview(row, org)

RoutingData(row, org, establishOwnership) ==
    [organizationId |-> IF establishOwnership THEN org ELSE row.organizationId,
     assignedOrganizationId |-> org,
     organizationAssignmentSource |-> "ROUTED",
     status |-> IF establishOwnership THEN "PENDING" ELSE "ORG_REVIEW",
     lastAssignmentOutcome |-> Null,
     lastAssignmentProviderId |-> Null]

assignOrganization(c, r, org, establishOwnership) ==
    /\ Exists(r)
    /\ report[r].status \in {"PENDING", "TRIAGE"}
    /\ report[r].assignedProviderId = Null
    /\ Update(c, "assignOrganization", r,
              RoutingData(report[r], org, establishOwnership))

AcceptanceData(row, org) ==
    [status |-> "PENDING",
     organizationId |-> org,
     assignedOrganizationId |-> IF row.assignedOrganizationId = Null
                                THEN org ELSE row.assignedOrganizationId,
     organizationAssignmentSource |-> "ACCEPTED",
     lastAssignmentOutcome |-> Null]

\* Mutant: the acceptance does not look at whom the report is routed to.
AcceptUnrouted(c, r, org) ==
    /\ Exists(r)
    /\ report[r].status = "ORG_REVIEW"
    /\ Update(c, "organizationAccept", r, AcceptanceData(report[r], org))

acceptOrganizationReport(c, r, org) ==
    /\ Exists(r)
    /\ AwaitsDecisionOf(report[r], org)
    /\ Update(c, "organizationAccept", r, AcceptanceData(report[r], org))

\* Mutant: a rejection also clears the owner.
ClearOwner(row) ==
    [status |-> "TRIAGE",
     organizationId |-> Null,
     assignedOrganizationId |-> Null,
     organizationAssignmentSource |-> "REJECTED",
     assignedProviderId |-> Null,
     assignmentDeadlineAt |-> Null,
     lastAssignmentOutcome |-> "REJECTED"]

RejectionData(row) ==
    [status |-> "TRIAGE",
     organizationId |-> row.organizationId,
     assignedOrganizationId |-> Null,
     organizationAssignmentSource |-> "REJECTED",
     assignedProviderId |-> Null,
     assignmentDeadlineAt |-> Null,
     lastAssignmentOutcome |-> "REJECTED"]

rejectOrganizationReport(c, r, org) ==
    /\ Exists(r)
    /\ AwaitsDecisionOf(report[r], org)
    /\ Update(c, "organizationReject", r, RejectionData(report[r]))

-----------------------------------------------------------------------------
(* Provider assignment *)

AssignmentData(p) ==
    [assignedProviderId |-> p,
     status |-> "ASSIGNED",
     assignmentDeadlineAt |-> "AHEAD",
     lastAssignmentOutcome |-> Null,
     lastAssignmentProviderId |-> Null]

\* The three ways an assignment ends without work: rejected by the provider,
\* cancelled by an operator (both leave REJECTED), or timed out.
\* Mutant: the deadline of the ended offer stays.
KeepDeadline(previousProvider, outcome) ==
    [status |-> "PENDING",
     assignedProviderId |-> Null,
     lastAssignmentOutcome |-> outcome,
     lastAssignmentProviderId |-> previousProvider]

UnassignmentData(previousProvider, outcome) ==
    [status |-> "PENDING",
     assignedProviderId |-> Null,
     assignmentDeadlineAt |-> Null,
     lastAssignmentOutcome |-> outcome,
     lastAssignmentProviderId |-> previousProvider]

\* assertAssignmentAllowed and the membership rules of assignProviderById;
\* `override' is SUPER_ADMIN's overrideOrganizationRouting with a reason.
\* Mutant: an assignment does not require the report to be free.
AllowTakeover(row, user, p, override) ==
    /\ row.status \in {"PENDING", "ASSIGNED"}
    /\ MayOperate(user, row)
    /\ \/ <<p, row.organizationId>> \in Membership
       \/ user = SuperAdmin /\ override

AssignmentAllowed(row, user, p, override) ==
    /\ row.status = "PENDING"
    /\ row.assignedProviderId = Null
    /\ MayOperate(user, row)
    /\ \/ <<p, row.organizationId>> \in Membership
       \/ user = SuperAdmin /\ override

assignProviderById(c, user, r, p, override) ==
    /\ Exists(r)
    /\ AssignmentAllowed(report[r], user, p, override)
    /\ Update(c, "assign", r, AssignmentData(p))

CancellationAllowed(row, user) ==
    /\ MayOperate(user, row)
    /\ row.assignedProviderId # Null
    /\ row.status # "PENDING"

CancellationWrite(r) ==
    Write(r, Null,
          UnassignmentData(report[r].assignedProviderId, "REJECTED"))

cancelAssignment(c, user, r) ==
    /\ Exists(r)
    /\ CancellationAllowed(report[r], user)
    /\ Serve(c, "cancelAssignment", {CancellationWrite(r)}, "RETURN",
             Null, r, Null)

\* reassignProvider cancels the current assignment, if there is one, and
\* then runs assignProviderById (without an override) from its own read.
reassignProvider(c, user, r, p) ==
    /\ Exists(r)
    /\ report[r].assignedProviderId # Null => CancellationAllowed(report[r], user)
    /\ Serve(c, "reassign",
             IF report[r].assignedProviderId = Null THEN {}
             ELSE {CancellationWrite(r)},
             "ASSIGN", user, r, p)

Reassigning(c) == req[c].then = "ASSIGN" /\ req[c].writes = {}

\* Mutant: a refused second half is not noticed.
SecondHalfOrNever(c) ==
    /\ Reassigning(c)
    /\ AssignmentAllowed(report[req[c].id], req[c].user, req[c].provider, FALSE)
    /\ req' = [req EXCEPT ![c].writes = {Write(req[c].id, Null,
                                            AssignmentData(req[c].provider))},
                         ![c].then = "RETURN"]
    /\ UNCHANGED report

ReassignSecondHalf(c) ==
    LET row == report[req[c].id]
    IN  /\ Reassigning(c)
        /\ IF AssignmentAllowed(row, req[c].user, req[c].provider, FALSE)
           THEN req' = [req EXCEPT
                          ![c].writes = {Write(req[c].id, Null,
                                            AssignmentData(req[c].provider))},
                          ![c].then = "RETURN"]
           ELSE req' = [req EXCEPT ![c] = Idle]
        /\ UNCHANGED report

\* The overdue offers among `rs', each to be returned to the queue.
OverdueWrites(rs) ==
    {Write(r, Null, UnassignmentData(report[r].assignedProviderId,
                                     "TIMED_OUT")) :
        r \in {x \in rs : Exists(x) /\ Overdue(report[x])}}

processOverdueAssignments(c, user) ==
    LET ws == OverdueWrites({r \in Reports : Exists(r)
                                /\ MayOperate(user, report[r])})
    IN  /\ ws # {}
        /\ Serve(c, "expireOverdue", ws, "RETURN", Null, Null, Null)

-----------------------------------------------------------------------------
(* Provider work *)

\* Accepting or rejecting an offer whose window is over: the handler goes on
\* to expire every overdue offer of this provider and answers 409.
AnswerTooLate(c, p, r) ==
    /\ Exists(r)
    /\ Overdue(report[r])
    /\ report[r].assignedProviderId = p
    /\ Serve(c, "answerOffer", {}, "EXPIRE", Null, r, p)

ExpireOwnOffers(c) ==
    /\ req[c].then = "EXPIRE"
    /\ req[c].writes = {}
    /\ LET ws == OverdueWrites({r \in Reports : Exists(r)
                        /\ report[r].assignedProviderId = req[c].provider})
       IN  IF ws = {} THEN req' = [req EXCEPT ![c] = Idle]
           ELSE req' = [req EXCEPT ![c].writes = ws, ![c].then = "RETURN"]
    /\ UNCHANGED report

rejectAssignment(c, p, r) ==
    /\ Exists(r)
    /\ report[r].assignedProviderId = p
    /\ report[r].status = "ASSIGNED"
    /\ ~Overdue(report[r])
    /\ Update(c, "answerOffer", r, UnassignmentData(p, "REJECTED"))

\* A completion submission starts a new review attempt.
CompletionData(policy) ==
    [status |-> "COMPLETED_BY_PROVIDER",
     completionPolicy |-> policy,
     completionReviewState |-> reviewStateFor(policy, Null, Null),
     completionReviewDeadlineAt |-> reviewDeadlineFor(policy),
     completionReviewProcessedAt |-> Null,
     completionFinalActorType |-> Null,
     completionFinalizedByRole |-> Null,
     citizenCompletionDecision |-> "PENDING",
     organizationCompletionDecision |-> "PENDING"]

\* resolveCompletionPolicy: the report's own policy, or else one of those
\* that organization, category, platform and environment settings select.
resolveCompletionPolicy(row) ==
    IF row.completionPolicy # Null THEN {row.completionPolicy}
    ELSE PolicyChoices

\* The columns PATCH :id/status may write for the target status `next'.
StatusData(row, next) ==
    IF next = "COMPLETED_BY_PROVIDER"
    THEN {CompletionData(policy) : policy \in resolveCompletionPolicy(row)}
    ELSE {[status |-> next]}

\* updateStatus called by a provider.
ProviderUpdatesStatus(c, p, r, next) ==
    /\ Exists(r)
    /\ report[r].assignedProviderId = p
    /\ next \in {"IN_PROGRESS", "COMPLETED_BY_PROVIDER"}
    /\ canTransitionReportStatus(report[r].status, next)
    /\ next = "IN_PROGRESS" => ~Overdue(report[r])
    /\ \E data \in StatusData(report[r], next) :
            Update(c, "providerStatus", r, data)

\* updateStatus called by an operator of the owning organization or the
\* platform: every transition of the table but the one to ASSIGNED.
OperatorUpdatesStatus(c, user, r, next) ==
    /\ Exists(r)
    /\ MayOperate(user, report[r])
    /\ next # "ASSIGNED"
    /\ canTransitionReportStatus(report[r].status, next)
    /\ \E data \in StatusData(report[r], next) :
            Update(c, "operatorStatus", r, data)

\* The acceptance window of the current offer ends.
AssignmentWindowEnds(r) ==
    /\ Exists(r)
    /\ report[r].assignmentDeadlineAt = "AHEAD"
    /\ report' = [report EXCEPT ![r] =
                    Patched(@, [assignmentDeadlineAt |-> "BEHIND"])]
    /\ UNCHANGED req

-----------------------------------------------------------------------------
DispatchNext ==
    \/ \E r \in Reports, home \in Organizations,
          match \in Organizations \cup {Null} : createReport(r, home, match)
    \/ \E r \in Reports : AssignmentWindowEnds(r)
    \/ \E c \in Requests : ReassignSecondHalf(c) \/ ExpireOwnOffers(c)
    \/ \E c \in Requests, r \in Reports, org \in Organizations :
        \/ \E establish \in BOOLEAN : assignOrganization(c, r, org, establish)
        \/ acceptOrganizationReport(c, r, org)
        \/ rejectOrganizationReport(c, r, org)
    \/ \E c \in Requests, user \in Operators, r \in Reports :
        \/ cancelAssignment(c, user, r)
        \/ \E p \in Providers : reassignProvider(c, user, r, p)
        \/ \E p \in Providers, override \in BOOLEAN :
                assignProviderById(c, user, r, p, override)
        \/ \E next \in Statuses : OperatorUpdatesStatus(c, user, r, next)
    \/ \E c \in Requests, user \in Operators :
            processOverdueAssignments(c, user)
    \/ \E c \in Requests, p \in Providers, r \in Reports :
        \/ AnswerTooLate(c, p, r)
        \/ rejectAssignment(c, p, r)
        \/ \E next \in Statuses : ProviderUpdatesStatus(c, p, r, next)

=============================================================================
