SPECIFICATION Spec
CONSTANTS
  citizen = citizen
  provider = provider
  admin = admin
  municipality = municipality
  pothole = pothole
  Users = {citizen, provider, admin}
  Organizations = {municipality}
  Requests = {r1, r2}
  None = None
  Role <- Roles3
  organizationId <- Organizations3
  Membership <- OneMembership
  Reports = {pothole}
  Report <- OneReport
  Submissions = {k1, k2}
  Disputes = {d1, d2}
  Records = {e1}
  SubmissionTypes = {"GOVERNMENT_ID", "ADDRESS_PROOF"}
  ReviewStatuses = {"APPROVED", "REJECTED"}
  DisputeStatuses = {"UNDER_REVIEW", "RESOLVED"}
  Switches = {"evidence", "disputes"}
  TimestampSuffixes = {7}
  Workloads <- Mixes
SYMMETRY Symmetry
INVARIANTS TrustInv VerificationIsBacked
PROPERTIES IdentityStands SweepSparesClosed
CHECK_DEADLOCK FALSE
