----------------------------- MODULE ReportReview -----------------------------
(***************************************************************************)
(* Completion review: the decisions of the citizen and the organization,   *)
(* rework, the review-window fallback, and the SUPER_ADMIN governance      *)
(* handlers of src/report/report.service.ts.                               *)
(***************************************************************************)
EXTENDS ReportRequests

CONSTANTS
    DefaultPolicy,      \* FIXZONE_COMPLETION_POLICY, or the built-in default
    OverridePolicies    \* policies SUPER_ADMIN overrides a report with

ASSUME ReviewPoliciesAssumption ==
    /\ DefaultPolicy \in CompletionPolicies
    /\ OverridePolicies \subseteq CompletionPolicies

policyForReport(row) ==
    IF row.completionPolicy # Null THEN row.completionPolicy ELSE DefaultPolicy

-----------------------------------------------------------------------------
(* Decisions of the two reviewers *)

\* Each approval closes the report when, with the other reviewer's decision
\* as it was read, the policy is satisfied.
ConfirmationData(row) ==
    LET policy == policyForReport(row)
        organization == row.organizationCompletionDecision
        closes == isCompletionSatisfied(policy, "CONFIRMED", organization)
    IN  [status |-> IF closes THEN "CLOSED" ELSE "COMPLETED_BY_PROVIDER",
         citizenCompletionDecision |-> "CONFIRMED",
         completionReviewState |->
            IF closes THEN "CLOSED"
            ELSE reviewStateFor(policy, "CONFIRMED", organization),
         completionFinalizedByRole |-> IF closes THEN "CITIZEN" ELSE Null]

\* Mutant: a verification leaves the closure to the citizen.
VerificationWaits(row) ==
    [status |-> "COMPLETED_BY_PROVIDER",
     organizationCompletionDecision |-> "VERIFIED",
     completionReviewState |->
        reviewStateFor(policyForReport(row), row.citizenCompletionDecision,
                       "VERIFIED"),
     completionFinalizedByRole |-> Null]

VerificationData(row) ==
    LET policy == policyForReport(row)
        citizen == row.citizenCompletionDecision
        closes == isCompletionSatisfied(policy, citizen, "VERIFIED")
    IN  [status |-> IF closes THEN "CLOSED" ELSE "COMPLETED_BY_PROVIDER",
         organizationCompletionDecision |-> "VERIFIED",
         completionReviewState |->
            IF closes THEN "CLOSED"
            ELSE reviewStateFor(policy, citizen, "VERIFIED"),
         completionFinalizedByRole |-> IF closes THEN "OPERATOR" ELSE Null]

\* Mutant: a confirmation does not look for dispute, hold or rework.
ConfirmUnchecked(c, r) ==
    /\ Exists(r)
    /\ report[r].status = "COMPLETED_BY_PROVIDER"
    /\ report[r].citizenCompletionDecision # "CONFIRMED"
    /\ Update(c, "citizenConfirm", r, ConfirmationData(report[r]))

confirmCitizenCompletion(c, r) ==
    /\ Exists(r)
    /\ report[r].status = "COMPLETED_BY_PROVIDER"
    /\ report[r].citizenCompletionDecision # "CONFIRMED"
    /\ NoActiveCompletionBlockers(report[r])
    /\ Update(c, "citizenConfirm", r, ConfirmationData(report[r]))

\* Mutant: rework may be asked for after having confirmed.
ReworkAfterConfirmation(c, r) ==
    /\ Exists(r)
    /\ report[r].status = "COMPLETED_BY_PROVIDER"
    /\ Update(c, "citizenReject", r,
              [status |-> "ASSIGNED",
               citizenCompletionDecision |-> "REWORK_REQUESTED",
               completionReviewState |-> "REWORK_REQUESTED"])

rejectCitizenCompletion(c, r) ==
    /\ Exists(r)
    /\ report[r].status = "COMPLETED_BY_PROVIDER"
    /\ report[r].citizenCompletionDecision
            \notin {"CONFIRMED", "REWORK_REQUESTED"}
    /\ Update(c, "citizenReject", r,
              [status |-> "ASSIGNED",
               citizenCompletionDecision |-> "REWORK_REQUESTED",
               completionReviewState |-> "REWORK_REQUESTED"])

verifyOrganizationCompletion(c, r) ==
    /\ Exists(r)
    /\ report[r].status = "COMPLETED_BY_PROVIDER"
    /\ report[r].organizationCompletionDecision # "VERIFIED"
    /\ NoActiveCompletionBlockers(report[r])
    /\ policyForReport(report[r]) # "ADMIN_RESOLUTION_REQUIRED"
    /\ Update(c, "organizationVerify", r, VerificationData(report[r]))

requestOrganizationCompletionRework(c, r) ==
    /\ Exists(r)
    /\ report[r].status = "COMPLETED_BY_PROVIDER"
    /\ report[r].organizationCompletionDecision
            \notin {"VERIFIED", "REWORK_REQUESTED"}
    /\ Update(c, "organizationRework", r,
              [status |-> "ASSIGNED",
               organizationCompletionDecision |-> "REWORK_REQUESTED",
               completionReviewState |-> "REWORK_REQUESTED"])

-----------------------------------------------------------------------------
(* Review-window fallback *)

\* The rows processCompletionReviewDeadlines finds due and not to be skipped.
DueForFallback(row) ==
    /\ row.completionPolicy = "AUTO_CLOSE_AFTER_REVIEW_WINDOW"
    /\ row.completionReviewDeadlineAt = "BEHIND"
    /\ row.completionReviewProcessedAt = Null
    /\ ~OnHold(row)
    /\ ~UnderDispute(row)
    /\ ~UnderRework(row)
    /\ row.status = "COMPLETED_BY_PROVIDER"

FallbackData ==
    [status |-> "CLOSED",
     completionReviewState |-> "CLOSED",
     completionReviewProcessedAt |-> "SET",
     completionFinalActorType |-> "SYSTEM_REVIEW_WINDOW",
     completionFinalizedByRole |-> "PROCESSOR"]

\* Mutant: the update's `where' names only the id.
FinalizeUnchecked(c) ==
    LET due == {r \in Reports : Exists(r) /\ DueForFallback(report[r])}
    IN  /\ due # {}
        /\ Serve(c, "processDeadlines",
                 {Write(r, Null, FallbackData) : r \in due},
                 "RETURN", Null, Null, Null)

processCompletionReviewDeadlines(c) ==
    LET due == {r \in Reports : Exists(r) /\ DueForFallback(report[r])}
    IN  /\ due # {}
        /\ Serve(c, "processDeadlines",
                 {Write(r, "COMPLETED_BY_PROVIDER", FallbackData) : r \in due},
                 "RETURN", Null, Null, Null)

\* The review window of the current attempt ends.
ReviewWindowEnds(r) ==
    /\ Exists(r)
    /\ report[r].completionReviewDeadlineAt = "AHEAD"
    /\ report' = [report EXCEPT ![r] =
                    Patched(@, [completionReviewDeadlineAt |-> "BEHIND"])]
    /\ UNCHANGED req

-----------------------------------------------------------------------------
(* SUPER_ADMIN governance *)

\* The review state a row returns to when a hold, a closure or a policy is
\* taken back.
RestoredReviewState(row, policy) ==
    reviewStateFor(policy, row.citizenCompletionDecision,
                   row.organizationCompletionDecision)

adminResolveAndClose(c, r) ==
    /\ Exists(r)
    /\ report[r].status # "CLOSED"
    /\ ~OnHold(report[r])
    /\ Update(c, "adminResolve", r,
              [status |-> "CLOSED",
               completionReviewState |-> "CLOSED",
               completionFinalActorType |-> "SUPER_ADMIN_GOVERNANCE",
               completionFinalizedByRole |-> "SUPER_ADMIN"])

adminReturnForCompletionRework(c, r) ==
    /\ Exists(r)
    /\ report[r].status # "CLOSED"
    /\ report[r].completionReviewState # "REWORK_REQUESTED"
    /\ Update(c, "adminRework", r,
              [status |-> "ASSIGNED",
               completionReviewState |-> "REWORK_REQUESTED",
               organizationCompletionDecision |-> "ESCALATED"])

adminPlaceCompletionHold(c, r) ==
    /\ Exists(r)
    /\ report[r].status # "CLOSED"
    /\ ~OnHold(report[r])
    /\ Update(c, "adminHold", r,
              [completionGovernanceHoldReason |-> "SET",
               completionReviewState |-> "GOVERNANCE_HOLD"])

adminRemoveCompletionHold(c, r) ==
    /\ Exists(r)
    /\ OnHold(report[r])
    /\ Update(c, "adminUnhold", r,
              [completionGovernanceHoldReason |-> Null,
               completionReviewState |->
                 IF report[r].status = "CLOSED" THEN "CLOSED"
                 ELSE RestoredReviewState(report[r],
                                          policyForReport(report[r]))])

adminReopenCompletion(c, r) ==
    /\ Exists(r)
    /\ report[r].status = "CLOSED"
    /\ Update(c, "adminReopen", r,
              [status |-> "COMPLETED_BY_PROVIDER",
               completionReviewState |->
                 RestoredReviewState(report[r], policyForReport(report[r]))])

adminOverrideCompletionPolicy(c, r, policy) ==
    /\ Exists(r)
    /\ report[r].status # "CLOSED"
    /\ policyForReport(report[r]) # policy
    /\ Update(c, "adminOverride", r,
              [completionPolicy |-> policy,
               completionReviewState |->
                 RestoredReviewState(report[r], policy)])

-----------------------------------------------------------------------------
ReviewNext ==
    \/ \E r \in Reports : ReviewWindowEnds(r)
    \/ \E c \in Requests : processCompletionReviewDeadlines(c)
    \/ \E c \in Requests, r \in Reports :
        \/ confirmCitizenCompletion(c, r)
        \/ rejectCitizenCompletion(c, r)
        \/ verifyOrganizationCompletion(c, r)
        \/ requestOrganizationCompletionRework(c, r)
        \/ adminResolveAndClose(c, r)
        \/ adminReturnForCompletionRework(c, r)
        \/ adminPlaceCompletionHold(c, r)
        \/ adminRemoveCompletionHold(c, r)
        \/ adminReopenCompletion(c, r)
        \/ \E policy \in OverridePolicies :
                adminOverrideCompletionPolicy(c, r, policy)

=============================================================================
