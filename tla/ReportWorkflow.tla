---------------------------- MODULE ReportWorkflow ----------------------------
(***************************************************************************)
(* The report service: dispatch and review handlers over one Report table, *)
(* served by any number of concurrent requests, and what must be true of   *)
(* a report whatever the clients call.                                     *)
(***************************************************************************)
EXTENDS ReportDispatch, ReportReview

vars == <<report, req>>

LegacyReports == {LegacyReport(o) : o \in Organizations}

Init ==
    /\ \E existing \in SUBSET Reports : report \in [existing -> LegacyReports]
    /\ req = [c \in Requests |-> Idle]

Next ==
    \/ DispatchNext
    \/ ReviewNext
    \/ \E c \in Requests : CommitWrite(c) \/ MissedWrite(c) \/ Abandon(c)

Spec == Init /\ [][Next]_vars

\* A handler that was started is run to its end by the event loop.
Progress(c) ==
    CommitWrite(c) \/ MissedWrite(c) \/ ReassignSecondHalf(c)
                   \/ ExpireOwnOffers(c)

Fairness == \A c \in Requests : WF_vars(Progress(c))

-----------------------------------------------------------------------------
WriteOK(w) ==
    /\ w.id \in DOMAIN report
    /\ w.where \in Statuses \cup {Null}
    /\ IsPatch(w.data)

RequestOK(q) ==
    /\ DOMAIN q = DOMAIN Idle
    /\ q.then \in Continuations
    /\ q.then = "ASSIGN" => q.id \in DOMAIN report /\ q.provider \in Providers
    /\ \A w \in q.writes : WriteOK(w)

(***************************************************************************)
(* Every row holds values of its columns, and every pending write sets     *)
(* columns of an existing row to values of theirs.                         *)
(***************************************************************************)
TypeOK ==
    /\ DOMAIN report \subseteq Reports
    /\ report = [r \in DOMAIN report |-> report[r]]
    /\ \A r \in DOMAIN report : IsRow(report[r])
    /\ req = [c \in Requests |-> req[c]]
    /\ \A c \in Requests : RequestOK(req[c])

-----------------------------------------------------------------------------
(* Properties of every interleaving *)

LedgerAgrees(row) ==
    /\ row.assignedProviderId = Null <=> row.assignmentDeadlineAt = Null
    /\ row.assignedProviderId # Null =>
         row.lastAssignmentOutcome = Null /\ row.lastAssignmentProviderId = Null
    /\ row.lastAssignmentOutcome = "TIMED_OUT" =>
         row.lastAssignmentProviderId # Null

(***************************************************************************)
(* However handlers interleave, the assignment columns of a row agree: an  *)
(* acceptance deadline exists exactly while a provider is assigned, a row  *)
(* with a provider records no earlier ending, and a time-out names the     *)
(* provider that let the window pass.  assignProviderById,                 *)
(* rejectAssignment, cancelAssignment, rejectOrganizationReport and        *)
(* expireOverdueAssignments write these columns without looking at the     *)
(* row again, so each `data' object has to be complete by itself.          *)
(***************************************************************************)
DispatchLedger == \A r \in Reports : Exists(r) => LedgerAgrees(report[r])

\* The columns that LedgerAgrees is about are written together: `data' keeps
\* the agreement of any row it is applied to.
KeepsLedger(data) ==
    LET sets(k) == k \in DOMAIN data
    IN  /\ sets("assignedProviderId") <=> sets("assignmentDeadlineAt")
        /\ sets("assignedProviderId") =>
             (data["assignedProviderId"] = Null
                <=> data["assignmentDeadlineAt"] = Null)
        /\ sets("assignedProviderId") /\ data["assignedProviderId"] # Null =>
             /\ sets("lastAssignmentOutcome")
             /\ sets("lastAssignmentProviderId")
        /\ sets("lastAssignmentProviderId") => sets("lastAssignmentOutcome")
        /\ sets("lastAssignmentOutcome") =>
             /\ data["lastAssignmentOutcome"] # Null =>
                  /\ sets("assignedProviderId")
                  /\ data["assignedProviderId"] = Null
             /\ data["lastAssignmentOutcome"] = "TIMED_OUT" =>
                  /\ sets("lastAssignmentProviderId")
                  /\ data["lastAssignmentProviderId"] # Null
        /\ sets("lastAssignmentProviderId")
             /\ data["lastAssignmentProviderId"] # Null =>
                  /\ sets("assignedProviderId")
                  /\ data["assignedProviderId"] = Null

(***************************************************************************)
(* However handlers interleave, no request is about to write only some of  *)
(* the assignment columns: every pending `data' object keeps the agreement *)
(* of the row it meets, whatever that row has become since it was read.    *)
(* This is what makes DispatchLedger inductive.                            *)
(***************************************************************************)
PendingKeepsLedger ==
    \A c \in Requests : \A w \in req[c].writes : KeepsLedger(w.data)

(***************************************************************************)
(* However handlers interleave, the deadline processor finalizes only a    *)
(* report that is in review at the moment of the write: one that was       *)
(* resolved, sent to rework or returned to dispatch after the processor    *)
(* listed its candidates is left alone (the conditional update of          *)
(* processCompletionReviewDeadlines).                                      *)
(***************************************************************************)
FallbackOnlyInReview ==
    [][\A r \in Reports :
         /\ Exists(r)
         /\ report'[r].completionFinalizedByRole = "PROCESSOR"
         /\ report[r].completionFinalizedByRole # "PROCESSOR"
         => report[r].status = "COMPLETED_BY_PROVIDER"]_vars

(***************************************************************************)
(* Every request ends, also one that goes on after its first write         *)
(* (reassignProvider) or that first has to expire other offers of the      *)
(* provider (assertAssignmentStillAcceptable).                             *)
(***************************************************************************)
RequestsEnd == \A c \in Requests : (req[c] # Idle) ~> (req[c] = Idle)

-----------------------------------------------------------------------------
(* Properties of serial service, and of what the documentation promises *)

(***************************************************************************)
(* Ownership of a report changes only to the organization that the report  *)
(* is routed to: by its acceptance, or by a platform override that sets    *)
(* both columns.                                                           *)
(***************************************************************************)
OwnerIsRouted ==
    [][\A r \in Reports :
         Exists(r) /\ report'[r].organizationId # report[r].organizationId
         => report'[r].organizationId = report'[r].assignedOrganizationId]_vars

NewAttempt(r) ==
    /\ report[r].status = "IN_PROGRESS"
    /\ report'[r].status = "COMPLETED_BY_PROVIDER"
    /\ report'[r].citizenCompletionDecision = "PENDING"
    /\ report'[r].organizationCompletionDecision = "PENDING"

(***************************************************************************)
(* A decision once given stands for its attempt: the citizen's             *)
(* confirmation and the organization's verification are set aside only     *)
(* together, by a new completion submission, or by governance escalation   *)
(* of the organization's.                                                  *)
(***************************************************************************)
DecisionStands ==
    [][\A r \in Reports :
         Exists(r) /\ ~NewAttempt(r) =>
           /\ report[r].citizenCompletionDecision = "CONFIRMED"
              => report'[r].citizenCompletionDecision = "CONFIRMED"
           /\ report[r].organizationCompletionDecision = "VERIFIED"
              => report'[r].organizationCompletionDecision
                    \in {"VERIFIED", "ESCALATED"}]_vars

TimesOut(r) ==
    /\ Exists(r)
    /\ report'[r].lastAssignmentOutcome = "TIMED_OUT"
    /\ report[r].lastAssignmentOutcome # "TIMED_OUT"

Closing(r) ==
    /\ Exists(r)
    /\ report[r].status # "CLOSED"
    /\ report'[r].status = "CLOSED"

\* The closure of r in this step was due: nobody had put it on hold, and
\* governance resolved it, its review window was over, or the decisions of
\* this attempt satisfy its policy and nothing is under dispute or rework.
ClosureWasDue(r) ==
    LET old == report[r]
        new == report'[r]
    IN  /\ ~OnHold(old)
        /\ \/ new.completionFinalizedByRole = "SUPER_ADMIN"
           \/ /\ new.completionFinalizedByRole = "PROCESSOR"
              /\ DueForFallback(old)
           \/ /\ new.completionFinalizedByRole \in {"CITIZEN", "OPERATOR"}
              /\ NoActiveCompletionBlockers(old)
              /\ isCompletionSatisfied(policyForReport(old),
                        new.citizenCompletionDecision,
                        new.organizationCompletionDecision)

\* A PATCH :id/status by an operator makes its write in this step.
StatusPatched(r) ==
    \E c \in Requests :
        /\ req[c].op = "operatorStatus"
        /\ req[c].id = r
        /\ req'[c] = Idle
        /\ report' # report

(***************************************************************************)
(* Every closure that the review, fallback and governance endpoints make   *)
(* is due under the report's policy, decisions and holds.                  *)
(***************************************************************************)
ReviewClosesWhenDue ==
    [][\A r \in Reports :
         Closing(r) /\ ~StatusPatched(r) => ClosureWasDue(r)]_vars

(***************************************************************************)
(* Under BOTH_REQUIRED the report closes with the second of the two        *)
(* decisions: a report that has both is closed, or was and is reopened     *)
(* (it then keeps its finalization).                                       *)
(***************************************************************************)
BothDecisionsClose ==
    \A r \in Reports :
        /\ Exists(r)
        /\ report[r].status = "COMPLETED_BY_PROVIDER"
        /\ report[r].completionPolicy = "BOTH_REQUIRED"
        /\ report[r].citizenCompletionDecision = "CONFIRMED"
        /\ report[r].organizationCompletionDecision = "VERIFIED"
        => report[r].completionFinalizedByRole # Null

(***************************************************************************)
(* Work sent back by a reviewer stays with the provider for a revised      *)
(* completion: it is not an unanswered offer that times out.               *)
(***************************************************************************)
ReworkIsNotTimedOut ==
    [][\A r \in Reports : TimesOut(r) => ~UnderRework(report[r])]_vars

-----------------------------------------------------------------------------
(* Refinement: serial service implements the custody of ReportCustody *)

StageOf(r) ==
    IF ~Exists(r) THEN "routing"
    ELSE LET status == report[r].status
         IN  CASE status \in {"TRIAGE", "ORG_REVIEW"}    -> "routing"
               [] status = "PENDING"                     -> "queued"
               [] status \in {"ASSIGNED", "IN_PROGRESS"} -> "work"
               [] status = "COMPLETED_BY_PROVIDER"       -> "review"
               [] status = "CLOSED"                      -> "closed"

HolderOf(r) == IF Exists(r) THEN report[r].assignedProviderId ELSE Null

Custody == INSTANCE ReportCustody
    WITH stage <- [r \in Reports |-> StageOf(r)],
         holder <- [r \in Reports |-> HolderOf(r)]

(***************************************************************************)
(* One request at a time, the service implements ReportCustody: providers  *)
(* get reports only from the queue and one after the other, and every way  *)
(* out of an assignment goes back through the queue.                       *)
(***************************************************************************)
CustodySpec == Custody!Spec

=============================================================================
