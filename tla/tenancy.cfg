SPECIFICATION Spec
CONSTANTS
  town = town
  city = city
  fitter = fitter
  builder = builder
  None = None
  Platform = Platform
  Includes = {}
  Organizations = {town, city}
  Providers = {fitter, builder}
  Requests = {r1, r2}
  Staff <- ProvidersOf
  PlanUsers <- UsersOfPlans
  PolicyKeys <- StoredOrder
  EnvironmentPolicy = None
  EnvironmentPolicies <- FromEnvironment
  MaxUsers = 3
  MaxZones = 2
  MaxUpgrades = 3
  Workloads <- Mixes
SYMMETRY Symmetry
INVARIANTS TenancyInv ReadyIsRoutable
PROPERTIES PlansMoveAsChecked ProfileStands PolicyGoverns
CHECK_DEADLOCK FALSE
