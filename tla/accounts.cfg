SPECIFICATION Spec
CONSTANTS
  Users = {u1, u2}
  Organizations = {o1}
  DefaultOrganization = o1
  Invitations = {i1, i2}
  Assignments = {a1}
  Approvals = {p1}
  None = None
  OperationTypes = {"PRODUCTION_RESTORE_AUTHORIZATION"}
  InvitedRoles = {"PROVIDER", "SUPPORT_ADMIN", "PLATFORM_SUPER_ADMIN"}
  GrantedRoles = {"SUPPORT_ADMIN", "PLATFORM_SUPER_ADMIN"}
  allowedUsers = 2
  allowedProviders = 1
  MaxCalls = 4
SYMMETRY Symmetry
INVARIANTS AccountsInv 
PROPERTIES SuspensionStands LastSuperAdminWasCounted
CHECK_DEADLOCK FALSE
