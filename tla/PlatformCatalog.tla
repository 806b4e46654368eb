---------------------------- MODULE PlatformCatalog ----------------------------
(***************************************************************************)
(* What the platform derives from the row of an organization: its modules  *)
(* (platform-modules.service.ts), the service configuration of its tenant, *)
(* its health and the readiness of a module                                *)
(* (platform-configuration.service.ts) and the gate in front of the        *)
(* enterprise features (enterprise-feature.guard.ts).                      *)
(*                                                                         *)
(* A stored value of enabledModules is the list of its keys, an object     *)
(* with a list, or null: [shape, keys].                                    *)
(***************************************************************************)
EXTENDS Responsibility

-----------------------------------------------------------------------------
(* Modules.                                                                *)

NullModules == [shape |-> "null", keys |-> {}]

PLATFORM_MODULES ==
  [key \in {"maintenance", "healthcare", "legal", "architecture_engineering", "ict", "agriculture",
            "education", "security", "property_facilities", "cleaning_home", "government",
            "multi_service"} |->
     [activeProduction |-> key = "maintenance",
      rolloutStage |-> CASE key = "maintenance" -> "PRODUCTION"
                         [] key = "property_facilities" -> "PILOT" [] OTHER -> "INTERNAL",
      requiredVerificationLevel |-> IF key = "property_facilities" THEN 1 ELSE 0,
      requiredSubscriptionPlans |->
        IF key = "property_facilities" THEN {"PROFESSIONAL", "GOVERNMENT", "ENTERPRISE"} ELSE {}]]

extractKeys(value) == IF value.shape = "null" THEN {"maintenance"} ELSE value.keys

normalizeEnabledModules(value) ==
  (extractKeys(value) \cap DOMAIN PLATFORM_MODULES) \cup {"maintenance"}

\* What a handler stores for a list of keys.
toJson(keys) ==
  [shape |-> "list", keys |-> normalizeEnabledModules([shape |-> "list", keys |-> keys])]

organizationModuleSummary(value) ==
  LET keys == normalizeEnabledModules(value)
      found == keys \cap DOMAIN PLATFORM_MODULES
      active == {key \in found : PLATFORM_MODULES[key].activeProduction}
  IN [activeProductionModuleKeys |-> active, metadataOnlyModuleKeys |-> found \ active,
      maintenanceActive |-> "maintenance" \in keys]

\* What the routing of reports makes of the same value.
maintenanceModuleEnabled(value) ==
  \/ value.shape = "null" \/ "maintenance" \in value.keys
  \/ value.shape = "list" /\ value.keys = {}

supportedUserRolesForModule ==
  {"SUPER_ADMIN", "ORG_ADMIN", "DISPATCH_OFFICER", "PROVIDER", "CITIZEN"}

\* Whether a user may enter a module: the requirements that getAccessProfile states.
\* user: [role, level, plan], the plan being that of the user's own entitlement.
evaluateAccess(user, key) ==
  /\ key \in DOMAIN PLATFORM_MODULES
  /\ PLATFORM_MODULES[key].activeProduction
  /\ user.role \in supportedUserRolesForModule
  /\ user.level >= PLATFORM_MODULES[key].requiredVerificationLevel
  /\ PLATFORM_MODULES[key].requiredSubscriptionPlans # {} =>
       user.plan \in PLATFORM_MODULES[key].requiredSubscriptionPlans

ENTERPRISE_FEATURES ==
  {"enterprise_governance", "investigation", "regulatory_governance", "asset_intelligence",
   "evidence_export"}

\* The gate of a feature whose two flags are on, for a user of an organization with that value.
canActivate(value, feature) ==
  feature \in ENTERPRISE_FEATURES /\ value.shape = "list" /\ feature \in value.keys

-----------------------------------------------------------------------------
(* The service configuration of a tenant.                                  *)

ACTIVE_SERVICE_TYPE == "maintenance_report"

KNOWN_SERVICE_TYPES ==
  {ACTIVE_SERVICE_TYPE, "future_healthcare", "future_legal", "future_ict", "future_agriculture",
   "future_education", "future_security", "future_property", "property_facilities_request",
   "future_architecture_engineering", "future_cleaning_home", "future_government"}

\* services is a set: neither the order nor repetitions reach a property.
normalizeEnabledServices(services) == services \cup {ACTIVE_SERVICE_TYPE}

\* A list of modules is taken for a list of services; any other value gives the one service.
defaultServiceConfiguration(value) ==
  LET services == normalizeEnabledServices(IF value.shape = "list" THEN value.keys ELSE {})
  IN [enabledServices |-> services, defaultService |-> ACTIVE_SERVICE_TYPE,
      serviceOrdering |-> services, serviceVisibility |-> services]

\* record: what is stored, a field being None where it is missing.
mergeServiceConfiguration(record, value) ==
  LET base == defaultServiceConfiguration(value)
      enabled == normalizeEnabledServices(
                   IF record.enabledServices # None THEN record.enabledServices
                   ELSE base.enabledServices)
  IN [enabledServices |-> enabled,
      defaultService |-> IF record.defaultService # None THEN record.defaultService
                         ELSE base.defaultService,
      serviceOrdering |-> normalizeEnabledServices(
        IF record.serviceOrdering # None THEN record.serviceOrdering ELSE enabled),
      serviceVisibility |-> IF record.serviceVisibility # None THEN record.serviceVisibility
                            ELSE base.serviceVisibility]

NoConfiguration == [enabledServices |-> None, defaultService |-> None, serviceOrdering |-> None,
                    serviceVisibility |-> None]

\* {...record, ...dto}: the stored record under the fields of the request.  A field that the
\* request leaves out is an own property of the DTO, undefined, when class fields are compiled
\* with define semantics (target ES2023 with transform: true), and is absent otherwise: keeps.
Overlay(record, dto, keeps) ==
  [f \in DOMAIN record |-> IF dto[f] # None \/ ~keeps THEN dto[f] ELSE record[f]]

\* valid, and what is only warned of.
validateServiceConfigurationRecord(configuration) ==
  [valid |-> configuration.enabledServices \cup configuration.serviceOrdering
               \subseteq KNOWN_SERVICE_TYPES,
   defaultEnabled |-> configuration.defaultService \in configuration.enabledServices,
   hidden |-> configuration.enabledServices \ configuration.serviceVisibility]

-----------------------------------------------------------------------------
(* Health and readiness.                                                   *)

RoundedMean(total, count) == (2 * total + count) \div (2 * count)

\* How many checks came out so.
Count(checks, outcome) == Cardinality({key \in DOMAIN checks : checks[key] = outcome})

healthScore(checks) ==
  RoundedMean(100 * Count(checks, "ready") + 75 * Count(checks, "attention")
                + 45 * Count(checks, "warning"), Cardinality(DOMAIN checks))

overallHealth(checks) ==
  LET score == healthScore(checks) IN
  IF score >= 90 THEN "healthy" ELSE IF score >= 70 THEN "attention" ELSE "warning"

\* members: the providers that belong to the organization, each with its active flag and its
\* assigned capabilities, a set of [id, status].
runtimeChecks(row, configuration, members, kycPending) ==
  LET Check(passes, otherwise) == IF passes THEN "ready" ELSE otherwise IN
  [tenant        |-> Check(row.status # "SUSPENDED", "warning"),
   module        |-> Check(ACTIVE_SERVICE_TYPE \in configuration.enabledServices, "warning"),
   configuration |-> Check(validateServiceConfigurationRecord(configuration).valid, "warning"),
   provider      |-> Check(/\ \E p \in members : p.active
                           /\ \E p \in members : p.assigned # {}, "warning"),
   service       |-> Check(configuration.defaultService = ACTIVE_SERVICE_TYPE, "attention"),
   deployment    |-> "ready",
   trust         |-> Check(~kycPending, "attention"),
   subscription  |-> Check(row.billingStatus \notin {"PAST_DUE", "SUSPENDED"}, "warning")]

\* The capabilities that an administrator can assign.
getProviderCapabilities ==
  {"electrical", "plumbing", "mechanical", "civil_works", "property_management", "facilities",
   "cleaning", "inspection", "architecture", "medical", "legal", "ict", "agriculture", "surveying",
   "security", "property", "education"}

\* The capabilities that the enterprise services name.
PROVIDER_CAPABILITIES ==
  {"electrical", "civil_works", "plumbing_water", "property_management", "facilities", "cleaning",
   "inspection", "architecture", "medical", "legal", "ict", "agriculture", "security", "property",
   "education"}

serviceDefinitions ==
  [key \in {"maintenance", "property_facilities"} |->
     IF key = "maintenance" THEN {"electrical", "civil_works", "plumbing_water"}
     ELSE {"property_management", "facilities", "cleaning", "plumbing_water", "electrical",
           "civil_works", "security", "inspection"}]

getRolloutGovernance ==
  [key \in {"maintenance", "property_facilities", "healthcare", "legal", "ict", "agriculture",
            "education", "security", "architecture_engineering", "cleaning_home", "government"} |->
     CASE key = "maintenance" -> "PRODUCTION" [] key = "property_facilities" -> "PILOT"
       [] OTHER -> "INTERNAL"]

moduleProviderCapabilityCoverage(key, members) ==
  LET required == IF key \in DOMAIN serviceDefinitions THEN serviceDefinitions[key] ELSE {} IN
  [missingDefinitions |-> required \ PROVIDER_CAPABILITIES,
   missingAssignments |->
     required \ {a.id : a \in {a \in UNION {p.assigned : p \in members} : a.status # "INACTIVE"}}]

\* The checks of a module; organization_eligibility, configuration_completeness,
\* deployment_readiness and trust_requirements always pass.
moduleChecks(key, row, configuration, members, kycPending) ==
  LET coverage == moduleProviderCapabilityCoverage(key, members)
      Check(passes, blocking) ==
        IF passes THEN "ready" ELSE IF blocking THEN "blocking" ELSE "warning"
      registered == key \in DOMAIN getRolloutGovernance
  IN [module_registered               |-> Check(registered, TRUE),
      service_definition_complete     |-> Check(key \in DOMAIN serviceDefinitions, TRUE),
      provider_capabilities_available |-> Check(coverage.missingDefinitions = {}, TRUE),
      provider_capability_coverage    |-> Check(coverage.missingAssignments = {}, FALSE),
      trust_requirements              |-> "ready",
      subscription_requirements       |-> Check(key \in DOMAIN serviceDefinitions, FALSE),
      organization_eligibility        |-> "ready",
      rollout_stage |-> Check(registered /\ getRolloutGovernance[key] \in {"PILOT", "PRODUCTION"},
                              ~registered),
      runtime_health |->
        Check(overallHealth(runtimeChecks(row, configuration, members, kycPending)) # "warning",
              FALSE),
      configuration_completeness      |-> "ready",
      deployment_readiness            |-> "ready"]

moduleReadinessScore(checks) ==
  RoundedMean(100 * Count(checks, "ready") + 25 * Count(checks, "blocking")
                + 70 * Count(checks, "warning"), Cardinality(DOMAIN checks))

readinessState(checks) ==
  LET states == {checks[key] : key \in DOMAIN checks} IN
  IF "blocking" \in states THEN "not_ready"
  ELSE IF "warning" \in states THEN "ready_with_warnings" ELSE "ready"

=============================================================================
