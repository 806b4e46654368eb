CONSTANTS
    Null = Null
    Organizations = {o1}
    Transactions = {t1}
    UpgradeRequests = {}
    Handlers = {c1, c2}
    ActivePlans = {"STARTER"}
    RequestedPlans = {}
    GrantedPlans = {}
    Mixes = {"race"}
SYMMETRY Symmetry
SPECIFICATION MixSpec
INVARIANTS ActivatedOnce
CHECK_DEADLOCK FALSE
