CONSTANTS
    Null = Null
    Reports = {r1, r2}
    Requests = {c1, c2}
    Organizations = {o1}
    Providers = {p1}
    Workload <- AllWorkload
    Membership <- OpenMembership
    PolicyChoices = {"AUTO_CLOSE_AFTER_REVIEW_WINDOW"}
    DefaultPolicy = "CITIZEN_CONFIRMATION_REQUIRED"
    OverridePolicies = {}
    Mixes = {"reviewers", "sweep"}
SPECIFICATION FairMixSpec
INVARIANTS DispatchLedger
PROPERTIES FallbackOnlyInReview RequestsEnd
CHECK_DEADLOCK FALSE
