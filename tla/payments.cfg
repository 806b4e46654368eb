CONSTANTS
    Null = Null
    Organizations = {o1}
    Transactions = {t1, t2}
    UpgradeRequests = {u1}
    Handlers = {c1, c2}
    ActivePlans = {"STARTER", "GOVERNMENT"}
    RequestedPlans = {"GOVERNMENT"}
    GrantedPlans = {"PROFESSIONAL"}
    Mixes = {"serial", "race"}
SYMMETRY Symmetry
SPECIFICATION MixSpec
INVARIANTS ReceiptsMatch ActivationIsPaid SerialActivatedOnce SerialPlanIsBacked
