---------------------------- MODULE MCReportMixes ----------------------------
(***************************************************************************)
(* Instances of ReportWorkflow in which the clients of one behaviour keep  *)
(* to one of Mixes, so that each part of the service is explored as far as *)
(* it interacts with itself.                                               *)
(***************************************************************************)
EXTENDS MCReport

CONSTANT Mixes
VARIABLE mix

mixVars == <<report, req, mix>>

AllWorkload == DispatchWorkload \cup ReviewWorkload

OpsOf ==
    [dispatch |-> DispatchWorkload, review |-> ReviewWorkload,
     reviewers |-> ReviewRace, sweep |-> SweepWorkload]

\* The completion policies that configuration and governance select in a mix.
PoliciesOf ==
    [dispatch  |-> {"CITIZEN_CONFIRMATION_REQUIRED"},
     review    |-> {"BOTH_REQUIRED"} \cup OverridePolicies,
     reviewers |-> {"AUTO_CLOSE_AFTER_REVIEW_WINDOW"},
     sweep     |-> {}]

\* The organizations, providers and reports of a mix.
OrganizationsOf(m) ==
    IF m = "dispatch" THEN Organizations ELSE {CHOOSE o \in Organizations : TRUE}

ProvidersOf(m) ==
    IF m = "dispatch" THEN Providers ELSE {CHOOSE p \in Providers : TRUE}

ReportsOf(m) == IF m = "sweep" THEN Reports ELSE {CHOOSE r \in Reports : TRUE}

RequestInMix(q) ==
    /\ q.op \in OpsOf[mix] \cup {"IDLE"}
    /\ \A w \in q.writes : "completionPolicy" \in DOMAIN w.data =>
         w.data["completionPolicy"] \in PoliciesOf[mix]
    /\ \A w \in q.writes : "assignedProviderId" \in DOMAIN w.data =>
         w.data["assignedProviderId"] \in ProvidersOf(mix) \cup {Null}

InMix ==
    /\ DOMAIN report \subseteq ReportsOf(mix)
    /\ \A r \in DOMAIN report :
         {report[r].organizationId, report[r].assignedOrganizationId,
          report[r].responsibilityMatch} \subseteq OrganizationsOf(mix) \cup {Null}
    /\ \A c \in Requests : RequestInMix(req[c])

MixInit == Init /\ mix \in Mixes /\ InMix

MixNext == Next /\ UNCHANGED mix /\ InMix'

MixSpec == MixInit /\ [][MixNext]_mixVars

FairMixSpec == MixSpec /\ Fairness

=============================================================================
