CONSTANTS
    Null = Null
    Reports = {r1}
    Requests = {c1, c2}
    Organizations = {o1}
    Providers = {p1}
    Workload <- TwoReviewers
    Membership <- OpenMembership
    PolicyChoices = {"BOTH_REQUIRED"}
    DefaultPolicy = "CITIZEN_CONFIRMATION_REQUIRED"
    OverridePolicies = {}
SYMMETRY Symmetry
SPECIFICATION Spec
INVARIANTS BothDecisionsClose
CHECK_DEADLOCK FALSE
