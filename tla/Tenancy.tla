-------------------------------- MODULE Tenancy --------------------------------
(***************************************************************************)
(* Administration of tenants: organizations, their jurisdiction zones and  *)
(* upgrade requests (organization.service.ts), the service configuration   *)
(* and the capabilities of providers (platform-configuration.service.ts),  *)
(* and the completion policies by category (report.service.ts), all of     *)
(* which meet in the profileData of the organization and the provider.     *)
(*                                                                         *)
(* A handler reads and checks in one step and writes in the next.  stale   *)
(* is a history variable: the handlers whose target was written since they *)
(* read it.                                                                *)
(***************************************************************************)
EXTENDS PlatformCatalog

CONSTANTS Organizations, Providers, Requests,
          Platform,        \* the target of calls that concern no organization
          Staff,           \* the providers: [organizationId, links, categories]
          PlanUsers,       \* default users of each plan that the catalog lists, or None
          PolicyKeys,      \* the categories that have policies, in the order of their storage
          EnvironmentPolicy, \* FIXZONE_COMPLETION_POLICY, or None
          EnvironmentPolicies, \* FIXZONE_COMPLETION_CATEGORY_POLICIES: a policy, or None, for each category
          MaxUsers,        \* bound on the users of an organization
          MaxZones,        \* bound on the zones
          MaxUpgrades,     \* bound on the upgrade requests
          Workloads        \* [ops, seeds, patches, zones, configurations, assignments, maxCalls]:
                           \* what is enumerated together

ASSUME PlansAreBounded ==
  /\ MaxUsers \in Nat /\ MaxZones \in Nat /\ MaxUpgrades \in Nat
  /\ \A plan \in DOMAIN PlanUsers : PlanUsers[plan] \in Nat \cup {None}

ASSUME RequestsFinite == IsFiniteSet(Requests)

VARIABLES org, zone, provider, upgrade, users, policies, req, stale, calls, workload

rows == <<org, zone, provider, upgrade, users, policies>>
vars == <<org, zone, provider, upgrade, users, policies, req, stale, calls, workload>>

Plans == {"FREE", "DEMO", "STARTER", "PROFESSIONAL", "GOVERNMENT", "ENTERPRISE"}
Policies == {"CITIZEN_CONFIRMATION_REQUIRED", "BOTH_REQUIRED"}
Categories == Range(PolicyKeys)

NoPolicies == [c \in Categories |-> None]

\* profileData: mandates and exclusions of the routing, the service configuration, the
\* completion policy, and the completion policies by category: completionPoliciesByCategory, and
\* the two maps that only an update can hold, categoryCompletionPolicies and the nested one.
EmptyProfile == [mandates |-> {}, excluded |-> {}, configuration |-> NoConfiguration,
                 completionPolicy |-> None, policies |-> NoPolicies,
                 otherPolicies |-> <<NoPolicies, NoPolicies>>]

Absent == [status |-> "ABSENT", subscriptionPlan |-> "FREE", billingStatus |-> "TRIAL",
           allowedUsers |-> None, enabledModules |-> NullModules, contact |-> FALSE,
           address |-> FALSE, state |-> None, lga |-> None, country |-> "nigeria",
           profileData |-> EmptyProfile]

Idle == [op |-> "idle", target |-> None]

\* What a row and its profile can hold.
IsProfile(profile) ==
  /\ profile = [f \in DOMAIN EmptyProfile |-> profile[f]]
  /\ profile.policies \in [Categories -> Policies \cup {None}]

IsOrganization(row) ==
  /\ row = [f \in DOMAIN Absent |-> row[f]]
  /\ row.status \in {"ABSENT", "ACTIVE", "SUSPENDED"} /\ row.subscriptionPlan \in Plans
  /\ row.billingStatus \in {"TRIAL", "ACTIVE", "PAST_DUE", "SUSPENDED", "CANCELLED"}
  /\ row.allowedUsers \in Nat \cup {None} /\ {row.contact, row.address} \subseteq BOOLEAN
  /\ "" \notin {row.state, row.lga, row.country}
  /\ row.enabledModules \in [shape: {"null", "list", "modules"}, keys: SUBSET DOMAIN PLATFORM_MODULES]
  /\ "maintenance" \in row.enabledModules.keys \/ row.enabledModules.shape = "null"
  /\ IsProfile(row.profileData)

\* A patch gives some columns values that they can have; places and modules are cleaned.
IsPatch(dto) ==
  LET given == DOMAIN dto \ {"state", "lga", "country", "enabledModules"} IN
  /\ DOMAIN dto \subseteq DOMAIN Absent \ {"status"}
  /\ IsOrganization([f \in DOMAIN Absent |-> IF f \in given THEN dto[f] ELSE Absent[f]])

ASSUME GivenInputs ==
  \A w \in Workloads :
    /\ \A seed \in w.seeds : /\ seed = [o \in Organizations |-> seed[o]]
                             /\ \A o \in Organizations : IsOrganization(seed[o])
    /\ \A dto \in w.patches : IsPatch(dto)
    /\ \A dto \in w.zones : dto.zoneType \in {"COUNTRY", "STATE", "LGA", None}
                            /\ dto.active \in BOOLEAN \cup {None}
    /\ \A dto \in w.assignments : dto.status \in {"ACTIVE", "INACTIVE", "PENDING"}

ASSUME KeysAreOrdered == DOMAIN PolicyKeys \subseteq Nat

ASSUME NoneIsNoValue ==
  None \notin {"", "nigeria", "COUNTRY", "STATE", "LGA", "ACTIVE", "INACTIVE"} \cup Policies

-----------------------------------------------------------------------------
(* Plans.                                                                  *)

planRank(plan) ==
  CASE plan \in {"FREE", "DEMO"} -> 0 [] plan = "STARTER" -> 1 [] plan = "PROFESSIONAL" -> 2
    [] plan = "GOVERNMENT" -> 3 [] OTHER -> 4

isDowngrade(currentPlan, requestedPlan) == planRank(requestedPlan) < planRank(currentPlan)

\* Users stand for users, providers and the reports of the month, which are treated alike.
defaultQuotaUpdateForPlan(plan) == IF plan \in DOMAIN PlanUsers THEN PlanUsers[plan] ELSE None

Within(count, quota) == quota # None => count <= quota

assertDowngradeDoesNotExceedUsage(o, plan) ==
  Within(users[o], defaultQuotaUpdateForPlan(plan))

-----------------------------------------------------------------------------
(* Who may call what; a user is the Super Admin or the admin of one        *)
(* organization.                                                           *)

Users == {"SUPER_ADMIN"} \cup Organizations

assertCanAccessOrganization(o, user) == user \in {"SUPER_ADMIN", o}

assertCanManageOrganization(o, user, dto) ==
  \/ user = "SUPER_ADMIN"
  \/ /\ user = o
     /\ DOMAIN dto \cap {"subscriptionPlan", "billingStatus", "allowedUsers", "enabledModules"} = {}

assertCanManageJurisdictionZones(o, user) == user \in {"SUPER_ADMIN", o}

assertCanManageProvider(p, user) ==
  user = "SUPER_ADMIN" \/ user = provider[p].organizationId \/ user \in provider[p].links

-----------------------------------------------------------------------------
(* Steps.                                                                  *)

Start(r, op, job) ==
  /\ op \in workload.ops /\ req[r] = Idle /\ calls < workload.maxCalls
  /\ req' = [req EXCEPT ![r] = job]
  /\ calls' = calls + 1
  /\ stale' = stale \ {r}
  /\ UNCHANGED <<rows, workload>>

\* The handler r has written its target.
Wrote(r, target) ==
  /\ req' = [req EXCEPT ![r] = Idle]
  /\ stale' = (stale \ {r}) \cup {q \in Requests \ {r} : req[q].target = target}
  /\ UNCHANGED <<calls, workload>>

\* A handler without a read that matters to its write: one step.
Call(op, target) ==
  /\ op \in workload.ops /\ calls < workload.maxCalls
  /\ calls' = calls + 1
  /\ stale' = stale \cup {q \in Requests : req[q].target = target}
  /\ UNCHANGED <<req, workload>>

Patched(row, patch) == [f \in DOMAIN row |-> IF f \in DOMAIN patch THEN patch[f] ELSE row[f]]

-----------------------------------------------------------------------------
(* Organizations.                                                          *)

\* Blank places are stored as null, modules normalized; profileData is replaced as a whole.
buildOrganizationData(dto) ==
  [f \in DOMAIN dto |->
     IF f \in {"state", "lga", "country"} /\ dto[f] = "" THEN None
     ELSE IF f = "enabledModules" THEN toJson(dto[f]) ELSE dto[f]]

create(o, dto) ==
  /\ Call("create", o)
  /\ org[o].status = "ABSENT"
  /\ org' = [org EXCEPT ![o] = Patched([@ EXCEPT !.status = "ACTIVE", !.enabledModules = toJson({})],
                                       buildOrganizationData(dto))]
  /\ UNCHANGED <<zone, provider, upgrade, users, policies>>

update(r, o, user, dto) ==
  /\ assertCanManageOrganization(o, user, dto)
  /\ org[o].status # "ABSENT"
  /\ DOMAIN buildOrganizationData(dto) # {}
  /\ "subscriptionPlan" \in DOMAIN dto =>
       (isDowngrade(org[o].subscriptionPlan, dto.subscriptionPlan) =>
          assertDowngradeDoesNotExceedUsage(o, dto.subscriptionPlan))
  /\ Start(r, "update",
           [op |-> "update", target |-> o, user |-> user, data |-> buildOrganizationData(dto)])

updateWrites(r) ==
  /\ req[r].op = "update"
  /\ org' = [org EXCEPT ![req[r].target] = Patched(@, req[r].data)]
  /\ Wrote(r, req[r].target)
  /\ UNCHANGED <<zone, provider, upgrade, users, policies>>

setStatus(o, status) ==
  /\ Call("setStatus", o)
  /\ org[o].status # "ABSENT"
  /\ org' = [org EXCEPT ![o].status = status]
  /\ UNCHANGED <<zone, provider, upgrade, users, policies>>

Pending(o) == {i \in DOMAIN upgrade : upgrade[i].organizationId = o /\ upgrade[i].status = "PENDING"}

\* A payment is fulfilled: plan, quota and modules of the organization are those of the plan, and
\* its pending requests for that plan are completed.
fulfillPayment(o, plan) ==
  /\ Call("fulfillPayment", o)
  /\ org[o].status # "ABSENT"
  /\ org' = [org EXCEPT ![o].subscriptionPlan = plan, ![o].billingStatus = "ACTIVE",
                        ![o].allowedUsers = defaultQuotaUpdateForPlan(plan),
                        ![o].enabledModules = [shape |-> "modules", keys |-> {"maintenance"}]]
  /\ upgrade' = [i \in DOMAIN upgrade |->
       IF i \in Pending(o) /\ upgrade[i].requestedPlan = plan
       THEN [upgrade[i] EXCEPT !.status = "COMPLETED"] ELSE upgrade[i]]
  /\ UNCHANGED <<zone, provider, users, policies>>

\* A user is added within the quota of the organization.
UserJoins(o) ==
  /\ Call("join", o)
  /\ org[o].status # "ABSENT" /\ users[o] < MaxUsers
  /\ org[o].allowedUsers # None => users[o] < org[o].allowedUsers
  /\ users' = [users EXCEPT ![o] = @ + 1]
  /\ UNCHANGED <<org, zone, provider, upgrade, policies>>

-----------------------------------------------------------------------------
(* Jurisdiction zones.  A field of dto is None when the request leaves it  *)
(* out and "" when it is blank.                                            *)

Clean(value) == IF value = "" THEN None ELSE value

zoneAccepted(dto, creating) ==
  /\ creating => dto.zoneType # None
  /\ dto.zoneType = "COUNTRY" => Clean(dto.country) # None
  /\ dto.zoneType = "STATE" => Clean(dto.state) # None
  /\ dto.zoneType = "LGA" => Clean(dto.lga) # None

\* The row after the columns of the request were written over it.
buildJurisdictionZoneData(row, dto, creating) ==
  [organizationId |-> row.organizationId,
   zoneType |-> IF dto.zoneType # None THEN dto.zoneType ELSE row.zoneType,
   country  |-> IF dto.country = None /\ ~creating THEN row.country
                ELSE IF Clean(dto.country) = None THEN "nigeria" ELSE dto.country,
   state    |-> IF dto.state = None /\ ~creating THEN row.state ELSE Clean(dto.state),
   lga      |-> IF dto.lga = None /\ ~creating THEN row.lga ELSE Clean(dto.lga),
   active   |-> IF dto.active # None THEN dto.active ELSE row.active]

createJurisdictionZone(o, user, dto) ==
  /\ Call("zone", o)
  /\ assertCanManageJurisdictionZones(o, user) /\ org[o].status # "ABSENT"
  /\ zoneAccepted(dto, TRUE) /\ Len(zone) < MaxZones
  /\ LET fresh == [organizationId |-> o, zoneType |-> "", country |-> "nigeria", state |-> None,
                   lga |-> None, active |-> TRUE]
     IN zone' = Append(zone, buildJurisdictionZoneData(fresh, dto, TRUE))
  /\ UNCHANGED <<org, provider, upgrade, users, policies>>

updateJurisdictionZone(i, user, dto) ==
  /\ Call("zone", zone[i].organizationId)
  /\ assertCanManageJurisdictionZones(zone[i].organizationId, user)
  /\ zoneAccepted(dto, FALSE)
  /\ zone' = [zone EXCEPT ![i] = buildJurisdictionZoneData(@, dto, FALSE)]
  /\ UNCHANGED <<org, provider, upgrade, users, policies>>

-----------------------------------------------------------------------------
(* Upgrade requests.                                                       *)

\* Mutant: any other plan can be requested.
requestAnyPlan(r, o, user, plan) ==
  /\ assertCanAccessOrganization(o, user) /\ org[o].status # "ABSENT"
  /\ org[o].subscriptionPlan # plan
  /\ Pending(o) = {}
  /\ Start(r, "requestUpgrade",
           [op |-> "requestUpgrade", target |-> o, currentPlan |-> org[o].subscriptionPlan,
            requestedPlan |-> plan])

requestUpgrade(r, o, user, plan) ==
  /\ assertCanAccessOrganization(o, user) /\ org[o].status # "ABSENT"
  /\ org[o].subscriptionPlan # plan
  /\ ~isDowngrade(org[o].subscriptionPlan, plan)
  /\ Pending(o) = {}
  /\ Start(r, "requestUpgrade",
           [op |-> "requestUpgrade", target |-> o, currentPlan |-> org[o].subscriptionPlan,
            requestedPlan |-> plan])

requestUpgradeInserts(r) ==
  /\ req[r].op = "requestUpgrade" /\ Len(upgrade) < MaxUpgrades
  /\ upgrade' = Append(upgrade, [organizationId |-> req[r].target, status |-> "PENDING",
                                 currentPlan |-> req[r].currentPlan,
                                 requestedPlan |-> req[r].requestedPlan])
  /\ Wrote(r, req[r].target)
  /\ UNCHANGED <<org, zone, provider, users, policies>>

reviewUpgradeRequest(r, i, action) ==
  /\ upgrade[i].status = "PENDING"
  /\ Start(r, "reviewUpgrade",
           [op |-> "reviewUpgrade", target |-> upgrade[i].organizationId, id |-> i,
            action |-> action])

\* The review is written without looking at the request or at the organization again.
reviewUpgradeWrites(r) ==
  LET request == upgrade[req[r].id]  o == request.organizationId IN
  /\ req[r].op = "reviewUpgrade"
  /\ upgrade' = [upgrade EXCEPT ![req[r].id].status =
                   IF req[r].action = "REJECT" THEN "REJECTED" ELSE "COMPLETED"]
  /\ org' = IF req[r].action = "REJECT" THEN org
            ELSE [org EXCEPT ![o].subscriptionPlan = request.requestedPlan,
                             ![o].billingStatus = "ACTIVE",
                             ![o].allowedUsers = defaultQuotaUpdateForPlan(request.requestedPlan)]
  /\ Wrote(r, o)
  /\ UNCHANGED <<zone, provider, users, policies>>

-----------------------------------------------------------------------------
(* Read-modify-write of profileData.                                       *)

\* Mutant: the configuration is saved without the rest of the profile.
saveConfigurationAlone(r, o, user, dto, keeps) ==
  /\ assertCanManageOrganization(o, user, <<>>) /\ org[o].status # "ABSENT"
  /\ Start(r, "configure",
           [op |-> "configure", target |-> o,
            profileData |-> [EmptyProfile EXCEPT !.configuration =
              mergeServiceConfiguration(
                Overlay(org[o].profileData.configuration, dto, keeps), org[o].enabledModules)]])

updateServiceConfiguration(r, o, user, dto, keeps) ==
  /\ assertCanManageOrganization(o, user, <<>>) /\ org[o].status # "ABSENT"
  /\ Start(r, "configure",
           [op |-> "configure", target |-> o,
            profileData |-> [org[o].profileData EXCEPT !.configuration =
              mergeServiceConfiguration(
                Overlay(@, dto, keeps), org[o].enabledModules)]])

\* The category has been found known: an alias, or one that reports or providers name.
setCategoryCompletionPolicy(r, o, category, policy) ==
  /\ IF o = Platform
     THEN Start(r, "policy", [op |-> "platformPolicy", target |-> Platform,
                              category |-> category, policy |-> policy,
                              policies |-> [policies EXCEPT ![category] = policy]])
     ELSE /\ org[o].status # "ABSENT"
          /\ Start(r, "policy",
                   [op |-> "policy", target |-> o, category |-> category, policy |-> policy,
                    profileData |-> [org[o].profileData EXCEPT !.policies[category] = policy]])

profileDataWritten(r) ==
  /\ req[r].op \in {"configure", "policy"}
  /\ org' = [org EXCEPT ![req[r].target].profileData = req[r].profileData]
  /\ Wrote(r, req[r].target)
  /\ UNCHANGED <<zone, provider, upgrade, users, policies>>

platformSettingWritten(r) ==
  /\ req[r].op = "platformPolicy"
  /\ policies' = req[r].policies
  /\ Wrote(r, Platform)
  /\ UNCHANGED <<org, zone, provider, upgrade, users>>

\* The capabilities of a provider: a function from ids to the status of the assignment, or None.
Capabilities == {"electrical", "civil_works", "plumbing", "plumbing_water"}

Saving(r, p, user, next) ==
  /\ assertCanManageProvider(p, user)
  /\ Start(r, "capabilities", [op |-> "capabilities", target |-> p, capabilities |-> next])

\* Mutant: ids outside the catalog are assigned as well.
assignAnyCapabilities(r, p, user, ids, status) ==
  Saving(r, p, user, [id \in Capabilities |->
                        IF id \in ids THEN status ELSE provider[p].capabilities[id]])

assignProviderCapabilities(r, p, user, ids, status) ==
  Saving(r, p, user, [id \in Capabilities |->
                        IF id \in ids \cap getProviderCapabilities THEN status
                        ELSE provider[p].capabilities[id]])

removeProviderCapability(r, p, user, id) ==
  Saving(r, p, user, [provider[p].capabilities EXCEPT ![id] = None])

deactivateProviderCapability(r, p, user, id) ==
  Saving(r, p, user, [provider[p].capabilities EXCEPT ![id] = IF @ = None THEN None ELSE "INACTIVE"])

saveProviderCapabilities(r) ==
  /\ req[r].op = "capabilities"
  /\ provider' = [provider EXCEPT ![req[r].target].capabilities = req[r].capabilities]
  /\ Wrote(r, req[r].target)
  /\ UNCHANGED <<org, zone, upgrade, users, policies>>

\* The account of a provider is suspended or made active again.
ProviderSuspended(p) ==
  /\ Call("suspend", p)
  /\ provider' = [provider EXCEPT ![p].active = ~@]
  /\ UNCHANGED <<org, zone, upgrade, users, policies>>

-----------------------------------------------------------------------------
(* What is read off the rows.                                              *)

\* The first compatible category that has a policy decides, not the category itself.
policyFromCategoryRecord(record, category) ==
  LET hits == {i \in DOMAIN PolicyKeys : /\ record[PolicyKeys[i]] # None
                                        /\ categoriesCompatible(PolicyKeys[i], category)}
  IN IF hits = {} THEN None ELSE record[PolicyKeys[Min(hits)]]

requiresDualCompletionByDefault(category) ==
  Covers({"road", "roads", "road_maintenance", "road_infrastructure", "infrastructure",
          "civil_works", "drainage", "bridge", "street_lighting", "public_works"}, category)

OrElse(policy, otherwise) == IF policy # None THEN policy ELSE otherwise

completionPolicyFromCategoryMap(profile, category) ==
  OrElse(policyFromCategoryRecord(profile.policies, category),
         OrElse(policyFromCategoryRecord(profile.otherPolicies[1], category),
                policyFromCategoryRecord(profile.otherPolicies[2], category)))

completionPolicyFromPlatformCategory(category) ==
  OrElse(policyFromCategoryRecord(policies, category),
         policyFromCategoryRecord(EnvironmentPolicies, category))

\* What applies when neither the organization nor the platform has one for the category.
fallbackPolicy(profile, category) ==
  OrElse(profile.completionPolicy,
         OrElse(EnvironmentPolicy, IF requiresDualCompletionByDefault(category) THEN "BOTH_REQUIRED"
                                   ELSE "CITIZEN_CONFIRMATION_REQUIRED"))

\* Mutant: the policies of the platform come before those of the organization.
resolvePlatformFirst(o, category) ==
  LET profile == org[o].profileData IN
  OrElse(completionPolicyFromPlatformCategory(category),
         OrElse(completionPolicyFromCategoryMap(profile, category), fallbackPolicy(profile, category)))

\* The policy of a report of that category without a policy of its own.
resolveCompletionPolicy(o, category) ==
  LET profile == org[o].profileData IN
  OrElse(completionPolicyFromCategoryMap(profile, category),
         OrElse(completionPolicyFromPlatformCategory(category), fallbackPolicy(profile, category)))

getServiceConfiguration(o) ==
  mergeServiceConfiguration(org[o].profileData.configuration, org[o].enabledModules)

Assigned(p) ==
  {[id |-> id, status |-> provider[p].capabilities[id]] :
     id \in {id \in Capabilities : provider[p].capabilities[id] # None}}

\* The providers that belong to the organization, whatever their status.
Members(o) ==
  {[active |-> provider[p].active, assigned |-> Assigned(p)] :
     p \in {p \in Providers : provider[p].organizationId = o}}

\* The active providers that belong to it or are linked with it.
ActiveProviders(o) ==
  {p \in Providers : provider[p].active /\ (provider[p].organizationId = o \/ o \in provider[p].links)}

activeProviderCapabilityIds(p) == {a.id : a \in {a \in Assigned(p) : a.status = "ACTIVE"}}

\* The organization as the routing of reports sees it.
Candidate(o) ==
  [status |-> org[o].status, maintenance |-> maintenanceModuleEnabled(org[o].enabledModules),
   billingStatus |-> org[o].billingStatus, contact |-> org[o].contact,
   zones |-> Restrict(zone, {i \in DOMAIN zone : zone[i].organizationId = o}),
   lga |-> org[o].lga, state |-> org[o].state, country |-> org[o].country,
   mandateCategories |-> org[o].profileData.mandates,
   excludedCategories |-> org[o].profileData.excluded,
   providers |-> {[categories |-> provider[p].categories,
                   capabilities |-> activeProviderCapabilityIds(p)] : p \in ActiveProviders(o)}]

coveredCategories(o) == UNION {provider[p].categories : p \in ActiveProviders(o)}

\* Mutant: only cancelled billing blocks.
routingBlockersButSuspension(o) ==
  LET failing == [contact |-> ~org[o].contact,
                  jurisdiction |-> ~evaluateRoutingJurisdiction(Candidate(o), {}).configured,
                  mandate |-> org[o].profileData.mandates = {} /\ coveredCategories(o) = {},
                  module |-> ~organizationModuleSummary(org[o].enabledModules).maintenanceActive,
                  billing |-> org[o].billingStatus = "CANCELLED"]
  IN {check \in DOMAIN failing : failing[check]}

\* The blocking checks of the routing readiness.
routingBlockers(o) ==
  LET failing == [contact |-> ~org[o].contact,
                  jurisdiction |-> ~evaluateRoutingJurisdiction(Candidate(o), {}).configured,
                  mandate |-> org[o].profileData.mandates = {} /\ coveredCategories(o) = {},
                  module |-> ~organizationModuleSummary(org[o].enabledModules).maintenanceActive,
                  billing |-> org[o].billingStatus \in {"SUSPENDED", "CANCELLED"}]
  IN {check \in DOMAIN failing : failing[check]}

\* The blocking checks of the operational readiness, with an administrator present.
blockers(o) ==
  LET failing == [status |-> org[o].status # "ACTIVE",
                  profile |-> ~org[o].contact,
                  jurisdiction |-> org[o].state = None /\ org[o].lga = None /\ ~org[o].address,
                  providers |-> ActiveProviders(o) = {},
                  categories |-> coveredCategories(o) = {},
                  module |-> ~organizationModuleSummary(org[o].enabledModules).maintenanceActive,
                  billing |-> org[o].billingStatus \in {"SUSPENDED", "CANCELLED"}]
  IN {check \in DOMAIN failing : failing[check]}

-----------------------------------------------------------------------------
Init ==
  /\ workload \in Workloads
  /\ org \in workload.seeds
  /\ zone = <<>> /\ upgrade = <<>>
  /\ provider = [p \in Providers |->
                   [organizationId |-> Staff[p].organizationId, links |-> Staff[p].links,
                    categories |-> Staff[p].categories, active |-> TRUE,
                    capabilities |-> [id \in Capabilities |-> None]]]
  /\ users = [o \in Organizations |-> 0]
  /\ policies = [c \in Categories |-> None]
  /\ req = [r \in Requests |-> Idle] /\ stale = {} /\ calls = 0

OrganizationSteps ==
  \/ \E o \in Organizations : \/ \E dto \in workload.patches : create(o, dto)
                              \/ \E status \in {"ACTIVE", "SUSPENDED"} : setStatus(o, status)
                              \/ \E plan \in {"STARTER", "PROFESSIONAL"} : fulfillPayment(o, plan)
                              \/ UserJoins(o)
  \/ \E r \in Requests, o \in Organizations, user \in Users, dto \in workload.patches :
       update(r, o, user, dto)
  \/ \E r \in Requests : updateWrites(r)

ZoneSteps ==
  \E user \in Users, dto \in workload.zones :
    \/ \E o \in Organizations : createJurisdictionZone(o, user, dto)
    \/ \E i \in DOMAIN zone : updateJurisdictionZone(i, user, dto)

UpgradeSteps ==
  \E r \in Requests :
    \/ \E o \in Organizations, user \in Users, plan \in {"STARTER", "PROFESSIONAL"} :
         requestUpgrade(r, o, user, plan)
    \/ requestUpgradeInserts(r)
    \/ \E i \in DOMAIN upgrade, action \in {"APPROVE", "REJECT"} : reviewUpgradeRequest(r, i, action)
    \/ reviewUpgradeWrites(r)

ProfileSteps ==
  \E r \in Requests :
    \/ \E o \in Organizations, user \in Users, dto \in workload.configurations, keeps \in BOOLEAN :
         updateServiceConfiguration(r, o, user, dto, keeps)
    \/ \E o \in Organizations \cup {Platform}, c \in Categories, policy \in Policies :
         setCategoryCompletionPolicy(r, o, c, policy)
    \/ profileDataWritten(r)
    \/ platformSettingWritten(r)

CapabilitySteps ==
  \/ \E r \in Requests, p \in Providers, user \in Users :
       \/ \E dto \in workload.assignments : assignProviderCapabilities(r, p, user, dto.ids, dto.status)
       \/ \E id \in Capabilities : \/ removeProviderCapability(r, p, user, id)
                                   \/ deactivateProviderCapability(r, p, user, id)
  \/ \E r \in Requests : saveProviderCapabilities(r)
  \/ \E p \in Providers : ProviderSuspended(p)

Next == OrganizationSteps \/ ZoneSteps \/ UpgradeSteps \/ ProfileSteps \/ CapabilitySteps

Spec == Init /\ [][Next]_vars

-----------------------------------------------------------------------------
(* Properties.                                                             *)

\* The rows that the schema and the handlers allow.
TenancyTypeOK ==
  /\ \A o \in Organizations : IsOrganization(org[o]) /\ users[o] \in 0..MaxUsers
  /\ \A i \in DOMAIN zone :
       /\ zone[i].zoneType \in {"COUNTRY", "STATE", "LGA"} /\ zone[i].active \in BOOLEAN
       /\ zone[i].country \notin {None, ""} /\ "" \notin {zone[i].state, zone[i].lga}
  /\ \A i \in DOMAIN upgrade : upgrade[i].status \in {"PENDING", "COMPLETED", "REJECTED"}
  /\ \A p \in Providers :
       provider[p].capabilities \in [Capabilities -> {None, "ACTIVE", "INACTIVE", "PENDING"}]
  /\ policies \in [Categories -> Policies \cup {None}] /\ stale \subseteq Requests

Finishes(r) == req[r] # Idle /\ req'[r] = Idle

\* The places that an organization answers for: its first zone, or its own locality.
Home(o) ==
  LET governing == activeRoutingJurisdictionZones(Candidate(o).zones)
      zones == IF DOMAIN governing # {} THEN governing ELSE legacyFallbackZone(Candidate(o))
      area == zones[Min(DOMAIN zones)]
  IN IF area.lga # None THEN area.lga ELSE IF area.state # None THEN area.state ELSE area.country

\* What getReadiness tells an administrator and what the routing of report.service does agree:
\* an active organization without routing blockers takes the reports of each of its categories
\* at home, unless it excludes them, and one that is operationally ready is ready for routing
\* unless all it has is an address.
ReadyIsRoutable ==
  \A o \in Organizations :
    /\ org[o].status = "ACTIVE" /\ routingBlockers(o) = {} =>
         \A c \in org[o].profileData.mandates \cup coveredCategories(o) :
           \/ Covers(org[o].profileData.excluded, c)
           \/ eligible(Candidate(o), [category |-> c, text |-> {Home(o)}])
    /\ blockers(o) = {} /\ routingBlockers(o) # {} =>
         org[o].state = None /\ org[o].lga = None /\ org[o].address

\* reviewUpgradeRequest applies the requested plan without looking at the current one: approving
\* lowers the plan of an organization only when the plan is no longer the one the request
\* was made from.
UpgradeNeverLowers ==
  [][\A r \in Requests :
       Finishes(r) /\ req[r].op = "reviewUpgrade" =>
         LET o == req[r].target IN
         planRank(org'[o].subscriptionPlan) < planRank(org[o].subscriptionPlan) =>
           org[o].subscriptionPlan # upgrade[req[r].id].currentPlan]_vars

\* update lowers a plan only when what the organization uses fits the lower plan, unless the
\* organization was written after its usage was counted.
DowngradeFits ==
  [][\A r \in Requests :
       Finishes(r) /\ req[r].op = "update" =>
         LET o == req[r].target IN
         planRank(org'[o].subscriptionPlan) < planRank(org[o].subscriptionPlan) =>
           r \in stale \/ Within(users[o], defaultQuotaUpdateForPlan(org'[o].subscriptionPlan))]_vars

\* A plan falls only as far as the handlers that change it checked: reviewUpgradeRequest against
\* the plan of the request, update against the usage.
PlansMoveAsChecked == UpgradeNeverLowers /\ DowngradeFits

\* The check of requestUpgrade for a pending request is not atomic with the insertion: an
\* organization has at most as many pending requests as handlers run at the same time.
PendingUpgradesBounded ==
  \A o \in Organizations : Cardinality(Pending(o)) <= Cardinality(Requests)

\* Three handlers write profileData as a whole.  What one of them saved is undone only by an
\* update, which replaces the profile, or by a handler that read the profile before it was
\* written: the others change one field and, of the policies, one category.
ProfileStands ==
  [][\A o \in Organizations :
       org'[o].profileData # org[o].profileData =>
         LET old == org[o].profileData  new == org'[o].profileData
             changed == {f \in DOMAIN old : new[f] # old[f]}
         IN \/ \E r \in Requests : /\ Finishes(r) /\ req[r].target = o
                                   /\ r \in stale \/ req[r].op = "update"
            \/ org[o].status = "ABSENT"
            \/ changed = {"configuration"}
            \/ /\ changed = {"policies"}
               /\ Cardinality({c \in Categories : new.policies[c] # old.policies[c]}) = 1]_vars

\* setCategoryCompletionPolicy stores a policy under a category and resolveCompletionPolicy looks
\* for the first compatible one: when the call returns, the policy governs the category unless
\* a compatible category stored before it has a policy, or, for a platform policy, the
\* organization has one.
PolicyGoverns ==
  [][\A r \in Requests, o \in Organizations, c \in Categories :
       LET job == req[r]
           own == job.op = "policy"
           stored == IF own THEN org'[o].profileData.policies ELSE policies'
       IN /\ Finishes(r) /\ job.op \in {"policy", "platformPolicy"} /\ job.category = c
          /\ own => job.target = o
          => \/ resolveCompletionPolicy(o, c)' = job.policy
             \/ \E i, j \in DOMAIN PolicyKeys :
                  /\ PolicyKeys[j] = c /\ i < j
                  /\ stored[PolicyKeys[i]] # None /\ categoriesCompatible(PolicyKeys[i], c)
             \/ ~own /\ completionPolicyFromCategoryMap(org[o].profileData, c) # None]_vars

\* The capabilities that modules require and those that can be assigned are two catalogs, and
\* no module requires only assignable ones: whatever is assigned, no module is ever ready
\* without warnings.
ModulesKeepWarnings ==
  \A o \in Organizations, key \in DOMAIN PLATFORM_MODULES, kycPending \in BOOLEAN :
    org[o].status # "ABSENT" =>
      LET checks == moduleChecks(key, org[o], getServiceConfiguration(o), Members(o), kycPending) IN
      readinessState(checks) # "ready" /\ moduleReadinessScore(checks) < 100

\* The rounded mean of the checks falls under 70 only when all four checks that can warn do,
\* and one that asks for attention does as well: a tenant that is suspended or unpaid is
\* not enough for its health to be a warning.
HealthWarningNeedsAll ==
  \A o \in Organizations, kycPending \in BOOLEAN :
    org[o].status # "ABSENT" =>
      LET checks == runtimeChecks(org[o], getServiceConfiguration(o), Members(o), kycPending) IN
      overallHealth(checks) = "warning" <=>
        /\ \A key \in {"tenant", "configuration", "provider", "subscription"} :
             checks[key] = "warning"
        /\ "attention" \in {checks.service, checks.trust}

\* Modules that are stored with an organization open nothing: only maintenance is in production,
\* nobody enters another module, and since unknown keys are dropped no organization ever
\* passes the gate of an enterprise feature, whose keys are none of the registry's.
FoundationsStayClosed ==
  \A o \in Organizations :
    LET summary == organizationModuleSummary(org[o].enabledModules) IN
    /\ \A feature \in ENTERPRISE_FEATURES : ~canActivate(org[o].enabledModules, feature)
    /\ summary.activeProductionModuleKeys = {"maintenance"}
    /\ \A key \in summary.metadataOnlyModuleKeys, level \in 0..1, plan \in {"FREE", "ENTERPRISE"} :
         ~evaluateAccess([role |-> "ORG_ADMIN", level |-> level, plan |-> plan], key)

\* Whatever is saved in whatever order, what the platform derives from the rows keeps its promises:
\* types, gates of modules and features, module readiness, health, and pending upgrades.
TenancyInv ==
  /\ TenancyTypeOK /\ FoundationsStayClosed /\ ModulesKeepWarnings /\ HealthWarningNeedsAll
  /\ PendingUpgradesBounded

=============================================================================
