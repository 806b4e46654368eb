CONSTANTS
    Null = Null
    Reports = {r1}
    Requests = {c1}
    Organizations = {o1}
    Providers = {p1}
    Workload <- ReworkWorkload
    Membership <- OpenMembership
    PolicyChoices = {"CITIZEN_CONFIRMATION_REQUIRED"}
    DefaultPolicy = "CITIZEN_CONFIRMATION_REQUIRED"
    OverridePolicies = {}
SYMMETRY Symmetry
SPECIFICATION Spec
PROPERTIES ReworkIsNotTimedOut
CHECK_DEADLOCK FALSE
