CONSTANTS
    Null = Null
    Reports = {r1}
    Requests = {c1}
    Organizations = {o1, o2}
    Providers = {p1, p2}
    Workload <- AllWorkload
    Membership <- SomeMembership
    PolicyChoices = {"CITIZEN_CONFIRMATION_REQUIRED", "BOTH_REQUIRED"}
    DefaultPolicy = "CITIZEN_CONFIRMATION_REQUIRED"
    OverridePolicies = {"ADMIN_RESOLUTION_REQUIRED", "AUTO_CLOSE_AFTER_REVIEW_WINDOW"}
    Mixes = {"dispatch", "review"}
SPECIFICATION MixSpec
INVARIANTS TypeOK BothDecisionsClose
PROPERTIES OwnerIsRouted DecisionStands ReviewClosesWhenDue CustodySpec
