------------------------------ MODULE ReportRow ------------------------------
(***************************************************************************)
(* One row of the Report table: the columns the workflow of                *)
(* src/report/report.service.ts reads and writes, the status transition    *)
(* table of report-workflow.ts, and the pure rules of completion review    *)
(* (which review state a policy asks for, when a policy is satisfied, what *)
(* blocks ordinary closure).                                               *)
(*                                                                         *)
(* A handler never writes a whole row.  It computes a `data' object from   *)
(* the row it read and Prisma writes just those columns, so a row is a     *)
(* function from column names to values and a patch a function whose       *)
(* domain is some of them.                                                 *)
(***************************************************************************)
CONSTANTS
    Organizations,      \* tenant organizations
    Providers,          \* active PROVIDER accounts
    Null                \* SQL NULL

Statuses ==
    {"TRIAGE", "ORG_REVIEW", "PENDING", "ASSIGNED", "IN_PROGRESS",
     "COMPLETED_BY_PROVIDER", "CLOSED"}

CompletionPolicies ==
    {"CITIZEN_CONFIRMATION_REQUIRED", "ORGANIZATION_CONFIRMATION_REQUIRED",
     "BOTH_REQUIRED", "CITIZEN_OR_ORGANIZATION",
     "AUTO_CLOSE_AFTER_REVIEW_WINDOW", "ADMIN_RESOLUTION_REQUIRED"}

\* DISPUTED is in the schema, but no handler of this service writes it.
CompletionDecisions ==
    {"PENDING", "CONFIRMED", "VERIFIED", "REWORK_REQUESTED", "ESCALATED"}

ReviewStates ==
    {"DISPUTED", "REWORK_REQUESTED", "AWAITING_ORGANIZATION_VERIFICATION",
     "AWAITING_CITIZEN_REVIEW", "AWAITING_ADMIN_RESOLUTION",
     "AWAITING_REVIEW_WINDOW", "AWAITING_BOTH", "GOVERNANCE_HOLD", "CLOSED"}

\* A deadline column is NULL, still ahead of the clock, or behind it.
DeadlineMarks == {"AHEAD", "BEHIND"}

(***************************************************************************)
(* The columns and their values.  Free-text columns and timestamps that    *)
(* the code only tests for NULL hold Null or "SET".  In                    *)
(* completionFinalizedByRole, PROCESSOR stands for the role of whoever ran *)
(* the deadline processor (SUPER_ADMIN, COMPLIANCE_ADMIN or                *)
(* REGULATORY_ADMIN) and OPERATOR for the organization's reviewer.         *)
(***************************************************************************)
ColumnType ==
    [status                         |-> Statuses,
     organizationId                 |-> Organizations,
     assignedOrganizationId         |-> Organizations \cup {Null},
     organizationAssignmentSource   |-> {"ROUTED", "ACCEPTED", "REJECTED"},
     responsibilityMatch            |-> Organizations \cup {Null},
     assignedProviderId             |-> Providers \cup {Null},
     assignmentDeadlineAt           |-> DeadlineMarks \cup {Null},
     lastAssignmentOutcome          |-> {"REJECTED", "TIMED_OUT", Null},
     lastAssignmentProviderId       |-> Providers \cup {Null},
     completionPolicy               |-> CompletionPolicies \cup {Null},
     completionReviewState          |-> ReviewStates \cup {Null},
     completionReviewDeadlineAt     |-> DeadlineMarks \cup {Null},
     completionReviewProcessedAt    |-> {"SET", Null},
     completionFinalActorType       |-> {"SUPER_ADMIN_GOVERNANCE",
                                         "SYSTEM_REVIEW_WINDOW", Null},
     completionFinalizedByRole      |-> {"CITIZEN", "OPERATOR", "SUPER_ADMIN",
                                         "PROCESSOR", Null},
     completionGovernanceHoldReason |-> {"SET", Null},
     citizenCompletionDecision      |-> CompletionDecisions \cup {Null},
     organizationCompletionDecision |-> CompletionDecisions \cup {Null}]

Columns == DOMAIN ColumnType

\* NULL is no organization, no provider and no enumeration value.
ASSUME NullIsNoValue ==
    /\ Null \notin Organizations \cup Providers \cup DeadlineMarks
    /\ Null \notin Statuses \cup CompletionDecisions \cup CompletionPolicies
    /\ Null \notin ReviewStates \cup {"SET", "REJECTED", "TIMED_OUT",
                        "SUPER_ADMIN_GOVERNANCE", "SYSTEM_REVIEW_WINDOW",
                        "CITIZEN", "OPERATOR", "SUPER_ADMIN", "PROCESSOR"}

IsRow(row) ==
    /\ row = [k \in Columns |-> row[k]]
    /\ \A k \in Columns : row[k] \in ColumnType[k]

IsPatch(data) ==
    /\ DOMAIN data \subseteq Columns
    /\ \A k \in DOMAIN data : data[k] \in ColumnType[k]

\* What `UPDATE "Report" SET data WHERE id = ...' leaves in the row.
Patched(row, data) ==
    [k \in Columns |-> IF k \in DOMAIN data THEN data[k] ELSE row[k]]

-----------------------------------------------------------------------------
(* Status transitions *)

ALLOWED_REPORT_TRANSITIONS ==
    [TRIAGE                |-> {"ORG_REVIEW"},
     ORG_REVIEW            |-> {"PENDING", "TRIAGE"},
     PENDING               |-> {"ASSIGNED", "ORG_REVIEW"},
     ASSIGNED              |-> {"IN_PROGRESS"},
     IN_PROGRESS           |-> {"COMPLETED_BY_PROVIDER"},
     COMPLETED_BY_PROVIDER |-> {"CLOSED"},
     CLOSED                |-> {}]

canTransitionReportStatus(current, next) ==
    next \in ALLOWED_REPORT_TRANSITIONS[current]

-----------------------------------------------------------------------------
(* Completion review *)

reviewStateFor(policy, citizen, organization) ==
    IF organization = "ESCALATED" THEN "DISPUTED"
    ELSE IF "REWORK_REQUESTED" \in {citizen, organization}
         THEN "REWORK_REQUESTED"
    ELSE IF policy = "BOTH_REQUIRED" /\ citizen = "CONFIRMED"
         THEN "AWAITING_ORGANIZATION_VERIFICATION"
    ELSE IF policy = "BOTH_REQUIRED" /\ organization = "VERIFIED"
         THEN "AWAITING_CITIZEN_REVIEW"
    ELSE IF policy = "ORGANIZATION_CONFIRMATION_REQUIRED"
         THEN "AWAITING_ORGANIZATION_VERIFICATION"
    ELSE IF policy = "ADMIN_RESOLUTION_REQUIRED"
         THEN "AWAITING_ADMIN_RESOLUTION"
    ELSE IF policy = "AUTO_CLOSE_AFTER_REVIEW_WINDOW"
         THEN "AWAITING_REVIEW_WINDOW"
    ELSE IF policy = "BOTH_REQUIRED" THEN "AWAITING_BOTH"
    ELSE "AWAITING_CITIZEN_REVIEW"

isCompletionSatisfied(policy, citizen, organization) ==
    LET confirmed == citizen = "CONFIRMED"
        verified  == organization = "VERIFIED"
    IN  \/ policy = "CITIZEN_CONFIRMATION_REQUIRED" /\ confirmed
        \/ policy = "ORGANIZATION_CONFIRMATION_REQUIRED" /\ verified
        \/ policy = "BOTH_REQUIRED" /\ confirmed /\ verified
        \/ /\ policy \in {"CITIZEN_OR_ORGANIZATION",
                          "AUTO_CLOSE_AFTER_REVIEW_WINDOW"}
           /\ confirmed \/ verified

UnderDispute(row) ==
    \/ row.completionReviewState = "DISPUTED"
    \/ row.organizationCompletionDecision = "ESCALATED"

UnderRework(row) ==
    "REWORK_REQUESTED" \in {row.completionReviewState,
                            row.citizenCompletionDecision,
                            row.organizationCompletionDecision}

OnHold(row) == row.completionGovernanceHoldReason # Null

\* assertNoActiveCompletionBlockers passes
NoActiveCompletionBlockers(row) ==
    /\ row.status # "CLOSED"
    /\ ~UnderDispute(row)
    /\ ~OnHold(row)
    /\ ~UnderRework(row)

reviewDeadlineFor(policy) ==
    IF policy = "AUTO_CLOSE_AFTER_REVIEW_WINDOW" THEN "AHEAD" ELSE Null

=============================================================================
