------------------------------- MODULE MCReport -------------------------------
(***************************************************************************)
(* Small instances of ReportWorkflow: workloads and symmetry.              *)
(***************************************************************************)
EXTENDS ReportWorkflow, TLC

\* The shortest way to a completion, and the operators' status endpoint.
WorkPath ==
    {"organizationAccept", "assign", "providerStatus", "operatorStatus"}

\* The way to a completion without the operators' status endpoint.
ProviderPath == WorkPath \ {"operatorStatus"}

DispatchWorkload ==
    WorkPath \cup
    {"assignOrganization", "organizationReject", "cancelAssignment",
     "reassign", "expireOverdue", "answerOffer"}

\* The endpoints that decide on a completion.
Decisions ==
    {"citizenConfirm", "citizenReject", "organizationVerify",
     "organizationRework", "processDeadlines"}

Governance ==
    {"adminResolve", "adminRework", "adminHold", "adminUnhold", "adminReopen",
     "adminOverride"}

ReviewWorkload ==
    WorkPath \cup Decisions \cup Governance \cup {"cancelAssignment"}

\* Review without the operators' status endpoint: what two concurrent
\* reviewers can do to one completion.
ReviewRace ==
    ProviderPath \cup
    {"citizenConfirm", "organizationVerify", "organizationRework",
     "processDeadlines", "adminResolve", "adminReopen"}

\* A completion, rework of it, and the sweep over unanswered offers.
ReworkWorkload ==
    ProviderPath \cup {"citizenReject", "organizationRework",
                        "expireOverdue", "answerOffer"}

\* A completion and its two reviewers, nothing else.
TwoReviewers == ProviderPath \cup {"citizenConfirm", "organizationVerify"}

\* Two offers of one provider, its answers, and the sweep over both.
SweepWorkload ==
    {"organizationAccept", "assign", "reassign", "expireOverdue",
     "answerOffer"}

\* Organizations, providers and requests are interchangeable.
Symmetry ==
    Permutations(Organizations) \cup Permutations(Providers)
        \cup Permutations(Requests)

\* Every provider is a member of every organization.
OpenMembership == Providers \X Organizations

\* One provider is a member of every organization, the others of none.
SomeMembership == {CHOOSE p \in Providers : TRUE} \X Organizations
=============================================================================
