----------------------------- MODULE TenancyProofs -----------------------------
(***************************************************************************)
(* Theorems about the administration of tenants for every number of        *)
(* organizations, providers, handlers, zones and calls, and for every      *)
(* catalog of plans and order of categories.                               *)
(*                                                                         *)
(* A handler that has read carries what it will write: the invariant says  *)
(* what such a handler holds, and what it holds of the row that it read    *)
(* as long as nobody wrote that row.                                       *)
(***************************************************************************)
EXTENDS Tenancy, FiniteSetTheorems, SequenceTheorems, WellFoundedInduction, TLAPS

\* The rows, with what the type invariant leaves open.
IsZone(z) ==
  /\ z.zoneType \in {"COUNTRY", "STATE", "LGA"} /\ z.active \in BOOLEAN
  /\ z.country \notin {None, ""} /\ "" \notin {z.state, z.lga}

\* No administrator assigns what the catalog of assignable capabilities lacks.
IsAssignment(capabilities) ==
  /\ capabilities \in [Capabilities -> {None, "ACTIVE", "INACTIVE", "PENDING"}]
  /\ capabilities["plumbing_water"] = None

IsProvider(row) ==
  /\ row = [organizationId |-> row.organizationId, links |-> row.links,
            categories |-> row.categories, active |-> row.active, capabilities |-> row.capabilities]
  /\ IsAssignment(row.capabilities)

\* A request for an upgrade was never one for a lower plan.
IsUpgrade(request) ==
  /\ request = [organizationId |-> request.organizationId, status |-> request.status,
                currentPlan |-> request.currentPlan, requestedPlan |-> request.requestedPlan]
  /\ request.organizationId \in Organizations
  /\ request.status \in {"PENDING", "COMPLETED", "REJECTED"} /\ request.requestedPlan \in Plans
  /\ ~isDowngrade(request.currentPlan, request.requestedPlan)

ArePolicies(record) == record \in [Categories -> Policies \cup {None}]

RowsInOrder ==
  /\ org = [o \in Organizations |-> org[o]]
  /\ \A o \in Organizations : IsOrganization(org[o])
  /\ users \in [Organizations -> 0..MaxUsers]
  /\ zone \in Seq(Range(zone)) /\ \A i \in DOMAIN zone : IsZone(zone[i])
  /\ upgrade \in Seq(Range(upgrade)) /\ \A i \in DOMAIN upgrade : IsUpgrade(upgrade[i])
  /\ provider = [p \in Providers |-> provider[p]]
  /\ \A p \in Providers : IsProvider(provider[p])
  /\ ArePolicies(policies)

\* What an update writes leaves an organization as one.
IsData(data) ==
  /\ DOMAIN data \subseteq DOMAIN Absent \ {"status"}
  /\ IsOrganization(Patched(Absent, data))

IsUpdate(job) == job.op = "update" /\ job.target \in Organizations /\ IsData(job.data)

IsRequest(job) ==
  /\ job.op = "requestUpgrade" /\ job.target \in Organizations /\ job.requestedPlan \in Plans
  /\ ~isDowngrade(job.currentPlan, job.requestedPlan)

IsReview(job) ==
  /\ job.op = "reviewUpgrade" /\ job.id \in DOMAIN upgrade
  /\ job.target = upgrade[job.id].organizationId

IsConfiguring(job) ==
  job.op = "configure" /\ job.target \in Organizations /\ IsProfile(job.profileData)

\* A policy is stored under its category.
Stores(job, record) ==
  /\ job.category \in Categories /\ job.policy \in Policies
  /\ ArePolicies(record) /\ record[job.category] = job.policy

IsPolicy(job) ==
  /\ job.op = "policy" /\ job.target \in Organizations
  /\ IsProfile(job.profileData) /\ Stores(job, job.profileData.policies)

IsPlatformPolicy(job) == job.op = "platformPolicy" /\ Stores(job, job.policies)

IsSaving(job) ==
  job.op = "capabilities" /\ job.target \in Providers /\ IsAssignment(job.capabilities)

JobInOrder(job) ==
  \/ job = Idle
  \/ IsUpdate(job) \/ IsRequest(job) \/ IsReview(job) \/ IsConfiguring(job)
  \/ IsPolicy(job) \/ IsPlatformPolicy(job) \/ IsSaving(job)

RequestsInOrder ==
  req = [r \in Requests |-> req[r]] /\ \A r \in Requests : JobInOrder(req[r])

\* What a handler checked or kept of its target, and is true as long as nobody writes it.
Downgrades(job, row) ==
  "subscriptionPlan" \in DOMAIN job.data
    /\ isDowngrade(row.subscriptionPlan, job.data.subscriptionPlan)

Fits(job, count) == Within(count, defaultQuotaUpdateForPlan(job.data.subscriptionPlan))

KeepsAllBut(field, old, new) ==
  \A f \in DOMAIN EmptyProfile \ {field} : new[f] = old[f]

KeepsOtherPolicies(category, old, new) ==
  \A c \in Categories \ {category} : new[c] = old[c]

IsFresh(job, row, count) ==
  /\ job.op = "update" /\ Downgrades(job, row) => Fits(job, count)
  /\ job.op = "configure" => KeepsAllBut("configuration", row.profileData, job.profileData)
  /\ job.op = "policy" =>
       /\ KeepsAllBut("policies", row.profileData, job.profileData)
       /\ KeepsOtherPolicies(job.category, row.profileData.policies, job.profileData.policies)

ChecksHold ==
  \A r \in Requests \ stale :
    req[r].target \in Organizations =>
      IsFresh(req[r], org[req[r].target], users[req[r].target])

\* A handler that found no pending request holds the place of the one that it will insert.
Requesting(o) == {r \in Requests : req[r].op = "requestUpgrade" /\ req[r].target = o}

PlacesHeld ==
  \A o \in Organizations :
    Cardinality(Pending(o)) + Cardinality(Requesting(o)) <= Cardinality(Requests)

\* The inductive invariant.
IInv ==
  /\ workload \in Workloads /\ stale \subseteq Requests
  /\ RowsInOrder /\ RequestsInOrder /\ ChecksHold /\ PlacesHeld

-----------------------------------------------------------------------------
(* Rows.                                                                   *)

\* A set of numbers has a least one.
LEMMA LeastNumber ==
  ASSUME NEW T \in SUBSET Nat, T # {}
  PROVE  Min(T) \in T /\ \A y \in T : Min(T) <= y
<1> DEFINE Less == {pair \in Nat \X Nat : pair[1] < pair[2]}
<1>1. IsWellFoundedOn(Less, Nat)
  BY NatLessThanWellFounded DEF OpToRel
<1> HIDE DEF Less
<1>2. PICK x \in T : \A y \in T : <<y, x>> \notin Less
  BY <1>1, WFMin
<1>3. \A y \in T : ~(y < x)
  BY <1>2 DEF Less
<1>4. \E z \in T : \A y \in T : z <= y
  BY <1>3
<1> QED BY <1>4 DEF Min

\* An organization that was never created is a row as well.
LEMMA AbsentIsOrganization == IsOrganization(Absent) /\ IsProfile(EmptyProfile)
<1>1. IsProfile(EmptyProfile)
  <2>1. EmptyProfile.policies = NoPolicies /\ NoPolicies \in [Categories -> Policies \cup {None}]
    BY DEF EmptyProfile, NoPolicies
  <2>2. EmptyProfile = [f \in DOMAIN EmptyProfile |-> EmptyProfile[f]]
    BY DEF EmptyProfile
  <2> QED BY <2>1, <2>2 DEF IsProfile
<1>2. Absent = [f \in DOMAIN Absent |-> Absent[f]]
  BY DEF Absent
<1>3. "" \notin {Absent.state, Absent.lga, Absent.country}
  BY NoneIsNoValue DEF Absent
<1>4. Absent.enabledModules \in [shape: {"null", "list", "modules"}, keys: SUBSET DOMAIN PLATFORM_MODULES]
      /\ Absent.enabledModules.shape = "null"
  BY DEF Absent, NullModules
<1>5. Absent.profileData = EmptyProfile
  BY DEF Absent
<1>6. /\ Absent.status = "ABSENT" /\ Absent.subscriptionPlan = "FREE" /\ Absent.billingStatus = "TRIAL"
      /\ Absent.allowedUsers = None /\ Absent.contact = FALSE /\ Absent.address = FALSE
  BY DEF Absent
<1> QED BY <1>1, <1>2, <1>3, <1>4, <1>5, <1>6 DEF IsOrganization, Plans

\* What is stored for a list of keys are modules of the registry, with maintenance.
LEMMA StoredModules ==
  ASSUME NEW keys
  PROVE  /\ toJson(keys) \in [shape: {"null", "list", "modules"}, keys: SUBSET DOMAIN PLATFORM_MODULES]
         /\ "maintenance" \in toJson(keys).keys
<1>1. "maintenance" \in DOMAIN PLATFORM_MODULES
  BY DEF PLATFORM_MODULES
<1> QED BY <1>1 DEF toJson, normalizeEnabledModules

\* A row is as good as its columns.
LEMMA ByColumns ==
  ASSUME NEW row, NEW next, IsOrganization(row), next = [f \in DOMAIN row |-> next[f]],
         NEW other, IsOrganization(other),
         \A f \in DOMAIN Absent : next[f] = row[f] \/ next[f] = other[f]
  PROVE  IsOrganization(next)
<1> DEFINE columns == {"status", "subscriptionPlan", "billingStatus", "allowedUsers",
                       "enabledModules", "contact", "address", "state", "lga", "country",
                       "profileData"}
<1>1. DOMAIN Absent = columns
  BY DEF Absent
<1>2. row = [f \in columns |-> row[f]] /\ other = [f \in columns |-> other[f]]
  BY <1>1 DEF IsOrganization
<1>3. next = [f \in columns |-> next[f]]
  BY <1>2
<1>4. \A f \in columns : next[f] = row[f] \/ next[f] = other[f]
  BY <1>1
<1> HIDE DEF columns
<1>5. "profileData" \in columns /\ "enabledModules" \in columns
  BY DEF columns
<1>6. IsProfile(next.profileData)
  BY <1>4, <1>5 DEF IsOrganization
<1>7. /\ next.enabledModules \in [shape: {"null", "list", "modules"}, keys: SUBSET DOMAIN PLATFORM_MODULES]
      /\ "maintenance" \in next.enabledModules.keys \/ next.enabledModules.shape = "null"
  BY <1>4, <1>5 DEF IsOrganization
<1>8. "" \notin {next.state, next.lga, next.country}
  BY <1>4 DEF IsOrganization, columns
<1>9. {next.contact, next.address} \subseteq BOOLEAN
  BY <1>4 DEF IsOrganization, columns
<1>10. /\ next.status \in {"ABSENT", "ACTIVE", "SUSPENDED"} /\ next.subscriptionPlan \in Plans
       /\ next.billingStatus \in {"TRIAL", "ACTIVE", "PAST_DUE", "SUSPENDED", "CANCELLED"}
       /\ next.allowedUsers \in Nat \cup {None}
  BY <1>4 DEF IsOrganization, columns
<1> QED BY <1>1, <1>3, <1>6, <1>7, <1>8, <1>9, <1>10 DEF IsOrganization

LEMMA PatchedIsOrganization ==
  ASSUME NEW row, IsOrganization(row), NEW data, IsData(data)
  PROVE  /\ IsOrganization(Patched(row, data)) /\ DOMAIN Patched(row, data) = DOMAIN Absent
         /\ \A f \in DOMAIN Absent :
              Patched(row, data)[f] = IF f \in DOMAIN data THEN data[f] ELSE row[f]
<1>1. DOMAIN row = DOMAIN Absent
  BY DEF IsOrganization
<1>2. /\ Patched(row, data) = [f \in DOMAIN Absent |-> IF f \in DOMAIN data THEN data[f] ELSE row[f]]
      /\ Patched(Absent, data)
           = [f \in DOMAIN Absent |-> IF f \in DOMAIN data THEN data[f] ELSE Absent[f]]
  BY <1>1 DEF Patched
<1>3. \A f \in DOMAIN Absent : \/ Patched(row, data)[f] = row[f]
                               \/ Patched(row, data)[f] = Patched(Absent, data)[f]
  BY <1>2
<1>4. IsOrganization(Patched(Absent, data))
  BY DEF IsData
<1>5. Patched(row, data) = [f \in DOMAIN row |-> Patched(row, data)[f]]
  BY <1>1, <1>2
<1>6. IsOrganization(Patched(row, data))
  BY <1>3, <1>4, <1>5, ByColumns
<1> QED BY <1>2, <1>6

\* The request becomes data: places and modules are cleaned, the rest was given in order.
LEMMA PatchIsData ==
  ASSUME NEW dto, IsPatch(dto)
  PROVE  IsData(buildOrganizationData(dto)) /\ DOMAIN buildOrganizationData(dto) = DOMAIN dto
<1> DEFINE given == DOMAIN dto \ {"state", "lga", "country", "enabledModules"}
           plain == [f \in DOMAIN Absent |-> IF f \in given THEN dto[f] ELSE Absent[f]]
           data == buildOrganizationData(dto)
           next == Patched(Absent, data)
           cleaned == [Absent EXCEPT !.state = next.state, !.lga = next.lga,
                                     !.country = next.country,
                                     !.enabledModules = next.enabledModules]
<1>1. IsOrganization(plain) /\ DOMAIN dto \subseteq DOMAIN Absent \ {"status"}
  BY DEF IsPatch
<1>2. /\ DOMAIN data = DOMAIN dto
      /\ \A f \in DOMAIN dto : data[f] = IF f \in {"state", "lga", "country"} /\ dto[f] = "" THEN None
                                         ELSE IF f = "enabledModules" THEN toJson(dto[f]) ELSE dto[f]
  BY DEF buildOrganizationData
<1>3. /\ next = [f \in DOMAIN Absent |-> next[f]]
      /\ \A f \in DOMAIN Absent : next[f] = IF f \in DOMAIN dto THEN data[f] ELSE Absent[f]
  BY <1>2 DEF Patched
<1>4. \A f \in DOMAIN Absent : plain[f] = IF f \in given THEN dto[f] ELSE Absent[f]
  OBVIOUS
<1>5. {"state", "lga", "country", "enabledModules", "profileData"} \subseteq DOMAIN Absent
  BY DEF Absent
<1> HIDE DEF data, next, plain
<1>6. "" \notin {next.state, next.lga, next.country}
  <2>1. "" \notin {Absent.state, Absent.lga, Absent.country} /\ None # ""
    BY AbsentIsOrganization, NoneIsNoValue DEF IsOrganization
  <2>2. next.state # "" /\ next.lga # "" /\ next.country # ""
    BY <1>2, <1>3, <1>5, <2>1
  <2> QED BY <2>2
<1>7. /\ next.enabledModules \in [shape: {"null", "list", "modules"}, keys: SUBSET DOMAIN PLATFORM_MODULES]
      /\ "maintenance" \in next.enabledModules.keys \/ next.enabledModules.shape = "null"
  <2>1. CASE "enabledModules" \in DOMAIN dto
    <3>1. next.enabledModules = toJson(dto["enabledModules"])
      BY <1>2, <1>3, <1>5, <2>1
    <3> QED BY <3>1, StoredModules
  <2>2. CASE "enabledModules" \notin DOMAIN dto
    <3>1. next.enabledModules = Absent.enabledModules
      BY <1>3, <1>5, <2>2
    <3> QED BY <3>1, AbsentIsOrganization DEF IsOrganization
  <2> QED BY <2>1, <2>2
<1>8. /\ cleaned = [f \in DOMAIN Absent |-> cleaned[f]]
      /\ cleaned.state = next.state /\ cleaned.lga = next.lga /\ cleaned.country = next.country
      /\ cleaned.enabledModules = next.enabledModules
      /\ \A f \in DOMAIN Absent \ {"state", "lga", "country", "enabledModules"} : cleaned[f] = Absent[f]
  <2>1. Absent = [f \in DOMAIN Absent |-> Absent[f]]
    BY AbsentIsOrganization DEF IsOrganization
  <2> QED BY <1>5, <2>1
<1> HIDE DEF cleaned
<1>9. IsOrganization(cleaned)
  <2>1. /\ cleaned.status = Absent.status /\ cleaned.subscriptionPlan = Absent.subscriptionPlan
        /\ cleaned.billingStatus = Absent.billingStatus /\ cleaned.allowedUsers = Absent.allowedUsers
        /\ cleaned.contact = Absent.contact /\ cleaned.address = Absent.address
        /\ cleaned.profileData = Absent.profileData
    BY <1>8 DEF Absent
  <2>2. "" \notin {cleaned.state, cleaned.lga, cleaned.country}
    BY <1>6, <1>8
  <2>3. /\ cleaned.enabledModules \in [shape: {"null", "list", "modules"}, keys: SUBSET DOMAIN PLATFORM_MODULES]
        /\ "maintenance" \in cleaned.enabledModules.keys \/ cleaned.enabledModules.shape = "null"
    BY <1>7, <1>8
  <2>4. cleaned = [f \in DOMAIN Absent |-> cleaned[f]]
    BY <1>8
  <2> QED BY <2>1, <2>2, <2>3, <2>4, AbsentIsOrganization DEF IsOrganization
<1>10. \A f \in DOMAIN Absent : next[f] = plain[f] \/ next[f] = cleaned[f]
  <2>1. ASSUME NEW f \in {"state", "lga", "country", "enabledModules"}
        PROVE  next[f] = cleaned[f]
    BY <1>8
  <2>2. ASSUME NEW f \in DOMAIN Absent \ {"state", "lga", "country", "enabledModules"}
        PROVE  next[f] = plain[f]
    BY <1>2, <1>3, <1>4
  <2> QED BY <2>1, <2>2
<1>11. DOMAIN plain = DOMAIN Absent
  BY <1>1 DEF IsOrganization
<1>12. IsOrganization(next)
  BY <1>1, <1>3, <1>9, <1>10, <1>11, ByColumns
<1> QED BY <1>1, <1>2, <1>12 DEF IsData, data, next

-----------------------------------------------------------------------------
(* Counting checks.                                                        *)

\* A set of one, two, ... names has as many elements.
LEMMA OneMore ==
  ASSUME NEW S, IsFiniteSet(S), NEW x, x \notin S
  PROVE  IsFiniteSet(S \cup {x}) /\ Cardinality(S \cup {x}) = Cardinality(S) + 1
BY FS_AddElement

LEMMA Together ==
  ASSUME NEW S, IsFiniteSet(S), NEW T, IsFiniteSet(T), S \cap T = {}
  PROVE  /\ IsFiniteSet(S \cup T) /\ Cardinality(S \cup T) = Cardinality(S) + Cardinality(T)
         /\ Cardinality(S) \in Nat /\ Cardinality(T) \in Nat
<1>1. Cardinality(S \cap T) = 0
  BY FS_EmptySet
<1>2. Cardinality(S) \in Nat /\ Cardinality(T) \in Nat
  BY FS_CardinalityType
<1>3. /\ IsFiniteSet(S \cup T)
      /\ Cardinality(S \cup T) = Cardinality(S) + Cardinality(T) - Cardinality(S \cap T)
  BY FS_Union
<1> QED BY <1>1, <1>2, <1>3

LEMMA FourNames ==
  ASSUME NEW a, NEW b, NEW c, NEW d, a # b, a # c, a # d, b # c, b # d, c # d
  PROVE  IsFiniteSet({a, b, c, d}) /\ Cardinality({a, b, c, d}) = 4
<1>1. IsFiniteSet({a}) /\ Cardinality({a}) = 1
  BY FS_Singleton
<1>2. IsFiniteSet({a} \cup {b}) /\ Cardinality({a} \cup {b}) = 2
  BY <1>1, OneMore
<1>3. IsFiniteSet(({a} \cup {b}) \cup {c}) /\ Cardinality(({a} \cup {b}) \cup {c}) = 3
  BY <1>2, OneMore
<1>4. IsFiniteSet((({a} \cup {b}) \cup {c}) \cup {d}) /\ Cardinality((({a} \cup {b}) \cup {c}) \cup {d}) = 4
  BY <1>3, OneMore
<1>5. (({a} \cup {b}) \cup {c}) \cup {d} = {a, b, c, d}
  OBVIOUS
<1> QED BY <1>4, <1>5

\* The keys of the health checks that can warn, those that can ask for attention, and all.
Warnable == {"tenant", "configuration", "provider", "subscription"}
Attentive == {"service", "trust"}
HealthKeys == Warnable \cup Attentive \cup {"module", "deployment"}

LEMMA HealthKeysCounted ==
  /\ IsFiniteSet(Warnable) /\ Cardinality(Warnable) = 4
  /\ IsFiniteSet(Attentive) /\ Cardinality(Attentive) = 2
  /\ IsFiniteSet(HealthKeys) /\ Cardinality(HealthKeys) = 8
<1>1. IsFiniteSet(Warnable) /\ Cardinality(Warnable) = 4
  BY FourNames DEF Warnable
<1>2. /\ IsFiniteSet({"service"}) /\ Cardinality({"service"}) = 1
      /\ Attentive = {"service"} \cup {"trust"}
  BY FS_Singleton DEF Attentive
<1>3. IsFiniteSet(Attentive) /\ Cardinality(Attentive) = 2
  BY <1>2, OneMore
<1>4. IsFiniteSet(Warnable \cup {"service"}) /\ Cardinality(Warnable \cup {"service"}) = 5
  BY <1>1, OneMore DEF Warnable
<1>5. /\ IsFiniteSet((Warnable \cup {"service"}) \cup {"trust"})
      /\ Cardinality((Warnable \cup {"service"}) \cup {"trust"}) = 6
  BY <1>4, OneMore DEF Warnable
<1>6. (Warnable \cup {"service"}) \cup {"trust"} = Warnable \cup Attentive
  BY DEF Attentive
<1>7. IsFiniteSet(Warnable \cup Attentive) /\ Cardinality(Warnable \cup Attentive) = 6
  BY <1>5, <1>6
<1>8. /\ IsFiniteSet((Warnable \cup Attentive) \cup {"module"})
      /\ Cardinality((Warnable \cup Attentive) \cup {"module"}) = 7
  BY <1>7, OneMore DEF Warnable, Attentive
<1>9. /\ IsFiniteSet(((Warnable \cup Attentive) \cup {"module"}) \cup {"deployment"})
      /\ Cardinality(((Warnable \cup Attentive) \cup {"module"}) \cup {"deployment"}) = 8
  BY <1>8, OneMore DEF Warnable, Attentive
<1>10. ((Warnable \cup Attentive) \cup {"module"}) \cup {"deployment"} = HealthKeys
  BY DEF HealthKeys
<1> QED BY <1>1, <1>3, <1>9, <1>10

\* Which check of the health can come out how.
LEMMA HealthOutcomes ==
  ASSUME NEW row, NEW configuration, NEW members, NEW kycPending,
         ACTIVE_SERVICE_TYPE \in configuration.enabledServices
  PROVE  LET checks == runtimeChecks(row, configuration, members, kycPending) IN
         /\ DOMAIN checks = HealthKeys
         /\ \A key \in Warnable : checks[key] \in {"ready", "warning"}
         /\ \A key \in Attentive : checks[key] \in {"ready", "attention"}
         /\ checks["module"] = "ready" /\ checks["deployment"] = "ready"
<1> DEFINE checks == runtimeChecks(row, configuration, members, kycPending)
<1>1. DOMAIN checks = HealthKeys
  BY DEF runtimeChecks, HealthKeys, Warnable, Attentive
<1>2. checks.module = "ready" /\ checks.deployment = "ready"
  BY DEF runtimeChecks
<1>3. /\ checks.tenant \in {"ready", "warning"} /\ checks.configuration \in {"ready", "warning"}
      /\ checks.provider \in {"ready", "warning"} /\ checks.subscription \in {"ready", "warning"}
  BY DEF runtimeChecks
<1>4. checks.service \in {"ready", "attention"} /\ checks.trust \in {"ready", "attention"}
  BY DEF runtimeChecks
<1> QED BY <1>1, <1>2, <1>3, <1>4 DEF Warnable, Attentive

\* The rounded mean falls under 70 exactly when all four warn and one asks for attention.
LEMMA WarningMeans ==
  ASSUME NEW checks, DOMAIN checks = HealthKeys,
         \A key \in Warnable : checks[key] \in {"ready", "warning"},
         \A key \in Attentive : checks[key] \in {"ready", "attention"},
         checks["module"] = "ready", checks["deployment"] = "ready"
  PROVE  overallHealth(checks) = "warning" <=>
           /\ \A key \in Warnable : checks[key] = "warning"
           /\ \E key \in Attentive : checks[key] = "attention"
<1> DEFINE warns == {key \in DOMAIN checks : checks[key] = "warning"}
           asks == {key \in DOMAIN checks : checks[key] = "attention"}
           ready == {key \in DOMAIN checks : checks[key] = "ready"}
<1>1. /\ warns \subseteq Warnable /\ asks \subseteq Attentive
      /\ ready = HealthKeys \ (warns \cup asks) /\ warns \cap asks = {}
      /\ warns \cup asks \subseteq HealthKeys
  BY DEF HealthKeys
<1>2. /\ warns = Warnable <=> \A key \in Warnable : checks[key] = "warning"
      /\ asks # {} <=> \E key \in Attentive : checks[key] = "attention"
  BY <1>1 DEF HealthKeys
<1>3. /\ Count(checks, "warning") = Cardinality(warns) /\ Count(checks, "ready") = Cardinality(ready)
      /\ Count(checks, "attention") = Cardinality(asks)
  BY DEF Count
<1> HIDE DEF warns, asks, ready
<1>4. /\ IsFiniteSet(warns) /\ Cardinality(warns) \in Nat /\ Cardinality(warns) <= 4
      /\ Cardinality(warns) = 4 <=> warns = Warnable
  BY <1>1, HealthKeysCounted, FS_Subset, FS_CardinalityType
<1>5. /\ IsFiniteSet(asks) /\ Cardinality(asks) \in Nat /\ Cardinality(asks) <= 2
      /\ Cardinality(asks) = 0 <=> asks = {}
  BY <1>1, HealthKeysCounted, FS_Subset, FS_CardinalityType, FS_EmptySet
<1>6. /\ IsFiniteSet(warns \cup asks)
      /\ Cardinality(warns \cup asks) = Cardinality(warns) + Cardinality(asks)
  BY <1>1, <1>4, <1>5, Together
<1>7. Cardinality(ready) = 8 - (Cardinality(warns) + Cardinality(asks))
  <2>1. Cardinality(ready) = Cardinality(HealthKeys) - Cardinality(HealthKeys \cap (warns \cup asks))
    BY <1>1, HealthKeysCounted, FS_Difference
  <2>2. HealthKeys \cap (warns \cup asks) = warns \cup asks
    BY <1>1
  <2> QED BY <1>6, <2>1, <2>2, HealthKeysCounted
<1>8. PICK w \in 0..4 : w = Cardinality(warns)
  BY <1>4
<1>9. PICK a \in 0..2 : a = Cardinality(asks)
  BY <1>5
<1>10. healthScore(checks) = (2 * (100 * (8 - (w + a)) + 75 * a + 45 * w) + 8) \div 16
  BY <1>3, <1>7, <1>8, <1>9, HealthKeysCounted DEF healthScore, RoundedMean
<1>11. healthScore(checks) < 70 <=> w = 4 /\ a # 0
  BY <1>10
<1>12. overallHealth(checks) = "warning" <=> healthScore(checks) < 70
  <2>1. healthScore(checks) \in Int
    BY <1>10
  <2> QED BY <2>1 DEF overallHealth
<1> QED BY <1>2, <1>4, <1>5, <1>8, <1>9, <1>11, <1>12

\* A service configuration has the active service, whatever is stored.
LEMMA ActiveServiceStays ==
  ASSUME NEW record, NEW value
  PROVE  ACTIVE_SERVICE_TYPE \in mergeServiceConfiguration(record, value).enabledServices
BY DEF mergeServiceConfiguration, normalizeEnabledServices

\* Eleven checks, of which one at least is not ready, never average to a rounded hundred.
ModuleKeys ==
  {"module_registered", "service_definition_complete", "provider_capabilities_available",
   "provider_capability_coverage", "trust_requirements", "subscription_requirements",
   "organization_eligibility", "rollout_stage", "runtime_health", "configuration_completeness",
   "deployment_readiness"}

LEMMA ModuleKeysCounted == IsFiniteSet(ModuleKeys) /\ Cardinality(ModuleKeys) = 11
<1> DEFINE first == {"module_registered", "service_definition_complete",
                     "provider_capabilities_available", "provider_capability_coverage"}
           second == {"trust_requirements", "subscription_requirements",
                      "organization_eligibility", "rollout_stage"}
<1>1. IsFiniteSet(first) /\ Cardinality(first) = 4 /\ IsFiniteSet(second) /\ Cardinality(second) = 4
  BY FourNames
<1>2. first \cap second = {}
  OBVIOUS
<1>4. IsFiniteSet(first \cup second) /\ Cardinality(first \cup second) = 8
  <2> HIDE DEF first, second
  <2> QED BY <1>1, <1>2, Together
<1>5. /\ IsFiniteSet((first \cup second) \cup {"runtime_health"})
      /\ Cardinality((first \cup second) \cup {"runtime_health"}) = 9
  BY <1>4, OneMore
<1>6. /\ IsFiniteSet(((first \cup second) \cup {"runtime_health"}) \cup {"configuration_completeness"})
      /\ Cardinality(((first \cup second) \cup {"runtime_health"}) \cup {"configuration_completeness"}) = 10
  BY <1>5, OneMore
<1>7. /\ IsFiniteSet((((first \cup second) \cup {"runtime_health"}) \cup {"configuration_completeness"})
                       \cup {"deployment_readiness"})
      /\ Cardinality((((first \cup second) \cup {"runtime_health"}) \cup {"configuration_completeness"})
                       \cup {"deployment_readiness"}) = 11
  BY <1>6, OneMore
<1>8. (((first \cup second) \cup {"runtime_health"}) \cup {"configuration_completeness"})
         \cup {"deployment_readiness"} = ModuleKeys
  BY DEF ModuleKeys
<1> QED BY <1>7, <1>8

LEMMA NotAllReady ==
  ASSUME NEW checks, DOMAIN checks = ModuleKeys,
         NEW key \in ModuleKeys, checks[key] \in {"warning", "blocking"}
  PROVE  readinessState(checks) # "ready" /\ moduleReadinessScore(checks) < 100
<1> DEFINE ready == {k \in DOMAIN checks : checks[k] = "ready"}
           blocking == {k \in DOMAIN checks : checks[k] = "blocking"}
           warning == {k \in DOMAIN checks : checks[k] = "warning"}
<1>1. readinessState(checks) # "ready"
  BY DEF readinessState
<1>2. /\ ready \subseteq ModuleKeys /\ blocking \subseteq ModuleKeys \ ready
      /\ warning \subseteq ModuleKeys \ (ready \cup blocking) /\ ready # ModuleKeys
      /\ ready \cap blocking = {} /\ (ready \cup blocking) \cap warning = {}
      /\ (ready \cup blocking) \cup warning \subseteq ModuleKeys
  OBVIOUS
<1>3. /\ Count(checks, "ready") = Cardinality(ready)
      /\ Count(checks, "blocking") = Cardinality(blocking)
      /\ Count(checks, "warning") = Cardinality(warning)
  BY DEF Count
<1> HIDE DEF ready, blocking, warning
<1>4. /\ IsFiniteSet(ready) /\ IsFiniteSet(blocking) /\ IsFiniteSet(warning)
      /\ Cardinality(ready) \in Nat /\ Cardinality(blocking) \in Nat /\ Cardinality(warning) \in Nat
  <2>1. blocking \subseteq ModuleKeys /\ warning \subseteq ModuleKeys
    BY <1>2
  <2> QED BY <1>2, <2>1, ModuleKeysCounted, FS_Subset, FS_CardinalityType
<1>5. Cardinality(ready) < 11
  <2>1. Cardinality(ready) <= 11 /\ (Cardinality(ready) = 11 => ready = ModuleKeys)
    BY <1>2, ModuleKeysCounted, FS_Subset
  <2> QED BY <1>2, <1>4, <2>1
<1>6. Cardinality(ready) + Cardinality(blocking) + Cardinality(warning) <= 11
  <2>1. /\ IsFiniteSet(ready \cup blocking)
        /\ Cardinality(ready \cup blocking) = Cardinality(ready) + Cardinality(blocking)
    BY <1>2, <1>4, Together
  <2>2. Cardinality((ready \cup blocking) \cup warning)
          = Cardinality(ready \cup blocking) + Cardinality(warning)
    BY <1>2, <1>4, <2>1, Together
  <2>3. Cardinality((ready \cup blocking) \cup warning) <= 11
    BY <1>2, ModuleKeysCounted, FS_Subset
  <2> QED BY <2>1, <2>2, <2>3
<1>7. PICK n \in Nat : n = Cardinality(ready)
  BY <1>4
<1>8. PICK b \in Nat : b = Cardinality(blocking)
  BY <1>4
<1>9. PICK w \in Nat : w = Cardinality(warning)
  BY <1>4
<1>10. moduleReadinessScore(checks) = (2 * (100 * n + 25 * b + 70 * w) + 11) \div 22
  BY <1>3, <1>7, <1>8, <1>9, ModuleKeysCounted DEF moduleReadinessScore, RoundedMean
<1>11. n < 11 /\ n + b + w <= 11
  BY <1>5, <1>6, <1>7, <1>8, <1>9
<1>12. 2 * (100 * n + 25 * b + 70 * w) + 11 <= 2151
  BY <1>11
<1>13. (2 * (100 * n + 25 * b + 70 * w) + 11) \div 22 < 100
  BY <1>12
<1> QED BY <1>1, <1>10, <1>13

\* A capability that modules require and nobody can assign keeps every module from being ready.
LEMMA SomeCheckFails ==
  ASSUME NEW key, NEW row, NEW configuration, NEW members, NEW kycPending,
         \A p \in members : \A a \in p.assigned : a.id # "plumbing_water"
  PROVE  LET checks == moduleChecks(key, row, configuration, members, kycPending) IN
         /\ DOMAIN checks = ModuleKeys
         /\ \E check \in ModuleKeys : checks[check] \in {"warning", "blocking"}
<1> DEFINE checks == moduleChecks(key, row, configuration, members, kycPending)
           coverage == moduleProviderCapabilityCoverage(key, members)
<1>1. DOMAIN checks = ModuleKeys
  BY DEF moduleChecks, ModuleKeys
<1>2. ASSUME key \notin DOMAIN serviceDefinitions
      PROVE  checks.service_definition_complete = "blocking"
  BY <1>2 DEF moduleChecks
<1>3. ASSUME key \in DOMAIN serviceDefinitions
      PROVE  checks.provider_capability_coverage = "warning"
  <2>1. "plumbing_water" \in serviceDefinitions[key]
    BY <1>3 DEF serviceDefinitions
  <2>2. "plumbing_water" \notin {a.id : a \in {a \in UNION {p.assigned : p \in members} : a.status # "INACTIVE"}}
    OBVIOUS
  <2>3. "plumbing_water" \in coverage.missingAssignments
    BY <1>3, <2>1, <2>2 DEF moduleProviderCapabilityCoverage
  <2>4. coverage.missingAssignments # {}
    BY <2>3
  <2> QED BY <2>4 DEF moduleChecks
<1>4. {"service_definition_complete", "provider_capability_coverage"} \subseteq ModuleKeys
  BY DEF ModuleKeys
<1> QED BY <1>1, <1>2, <1>3, <1>4

-----------------------------------------------------------------------------
(* Modules and features.                                                   *)

LEMMA StoredModulesOpenNothing ==
  ASSUME NEW value,
         value \in [shape: {"null", "list", "modules"}, keys: SUBSET DOMAIN PLATFORM_MODULES],
         "maintenance" \in value.keys \/ value.shape = "null"
  PROVE  LET summary == organizationModuleSummary(value) IN
         /\ maintenanceModuleEnabled(value) /\ summary.maintenanceActive
         /\ \A feature \in ENTERPRISE_FEATURES : ~canActivate(value, feature)
         /\ summary.activeProductionModuleKeys = {"maintenance"}
         /\ \A key \in summary.metadataOnlyModuleKeys : \A user : ~evaluateAccess(user, key)
<1> DEFINE summary == organizationModuleSummary(value)
           keys == normalizeEnabledModules(value)
<1>1. maintenanceModuleEnabled(value)
  BY DEF maintenanceModuleEnabled
<1>2. "maintenance" \in keys /\ keys \subseteq DOMAIN PLATFORM_MODULES
  BY DEF normalizeEnabledModules, PLATFORM_MODULES
<1>3. \A key \in DOMAIN PLATFORM_MODULES : PLATFORM_MODULES[key].activeProduction <=> key = "maintenance"
  BY DEF PLATFORM_MODULES
<1>4. DOMAIN PLATFORM_MODULES \cap ENTERPRISE_FEATURES = {}
  BY DEF PLATFORM_MODULES, ENTERPRISE_FEATURES
<1>5. \A feature \in ENTERPRISE_FEATURES : ~canActivate(value, feature)
  BY <1>4 DEF canActivate
<1> HIDE DEF keys
<1>6. /\ summary.activeProductionModuleKeys
           = {key \in keys \cap DOMAIN PLATFORM_MODULES : PLATFORM_MODULES[key].activeProduction}
      /\ summary.metadataOnlyModuleKeys
           = (keys \cap DOMAIN PLATFORM_MODULES)
               \ {key \in keys \cap DOMAIN PLATFORM_MODULES : PLATFORM_MODULES[key].activeProduction}
      /\ summary.maintenanceActive <=> "maintenance" \in keys
  BY DEF organizationModuleSummary, keys
<1>7. summary.activeProductionModuleKeys = {"maintenance"}
  BY <1>2, <1>3, <1>6
<1>8. \A key \in summary.metadataOnlyModuleKeys : \A user : ~evaluateAccess(user, key)
  BY <1>6 DEF evaluateAccess
<1> HIDE DEF summary
<1> QED BY <1>1, <1>2, <1>5, <1>6, <1>7, <1>8 DEF summary

-----------------------------------------------------------------------------
(* Routing.                                                                *)

\* The place of a zone that decides.
Place(z) == IF z.lga # None THEN z.lga ELSE IF z.state # None THEN z.state ELSE z.country

LEMMA PlaceMatches ==
  ASSUME NEW z, Place(z) # None
  PROVE  matchZone(z, {Place(z)}) # None
<1>1. CASE z.lga # None
  BY <1>1, NoneIsNoLevel DEF matchZone, Place
<1>2. CASE z.lga = None /\ z.state # None
  BY <1>2, NoneIsNoLevel DEF matchZone, Place
<1>3. CASE z.lga = None /\ z.state = None
  BY <1>3, NoneIsNoLevel DEF matchZone, Place
<1> QED BY <1>1, <1>2, <1>3

LEMMA FirstZoneMatches ==
  ASSUME NEW zones, DOMAIN zones \in SUBSET Nat, DOMAIN zones # {},
         \A i \in DOMAIN zones : Place(zones[i]) # None
  PROVE  firstMatchedZone(zones, {Place(zones[Min(DOMAIN zones)])}) # None
<1> DEFINE text == {Place(zones[Min(DOMAIN zones)])}
           hits == {i \in DOMAIN zones : matchZone(zones[i], text) # None}
<1>1. Min(DOMAIN zones) \in DOMAIN zones
  BY LeastNumber
<1>2. hits \in SUBSET Nat /\ hits # {} /\ \A i \in hits : matchZone(zones[i], text) # None
  BY <1>1, PlaceMatches
<1>3. firstMatchedZone(zones, text) = IF hits = {} THEN None ELSE matchZone(zones[Min(hits)], text)
  BY DEF firstMatchedZone
<1> HIDE DEF hits, text
<1>4. Min(hits) \in hits
  BY <1>2, LeastNumber
<1> QED BY <1>2, <1>3, <1>4 DEF text

\* The zones that decide for an organization.
Deciding(organization) ==
  LET governing == activeRoutingJurisdictionZones(organization.zones) IN
  IF DOMAIN governing # {} THEN governing ELSE legacyFallbackZone(organization)

LEMMA DecidingMeans ==
  ASSUME NEW organization, NEW text
  PROVE  LET jurisdiction == evaluateRoutingJurisdiction(organization, text) IN
         /\ jurisdiction.configured <=> DOMAIN Deciding(organization) # {}
         /\ jurisdiction.matched <=> text # {} /\ firstMatchedZone(Deciding(organization), text) # None
BY DEF evaluateRoutingJurisdiction, Deciding

\* Zones name a country, and an address without zones decides only with a locality or a state.
LEMMA DecidingHasPlaces ==
  ASSUME NEW organization, DOMAIN organization.zones \in SUBSET Nat,
         \A i \in DOMAIN organization.zones : organization.zones[i].country # None
  PROVE  /\ DOMAIN Deciding(organization) \in SUBSET Nat
         /\ \A i \in DOMAIN Deciding(organization) : Place(Deciding(organization)[i]) # None
         /\ DOMAIN Deciding(organization) = {} => organization.lga = None /\ organization.state = None
<1> DEFINE active == activeRoutingJurisdictionZones(organization.zones)
           legacy == legacyFallbackZone(organization)
<1>1. /\ DOMAIN active \in SUBSET Nat
      /\ \A i \in DOMAIN active : active[i] = organization.zones[i] /\ Place(active[i]) # None
  BY DEF activeRoutingJurisdictionZones, Restrict, Place
<1>2. Deciding(organization) = IF DOMAIN active # {} THEN active ELSE legacy
  BY DEF Deciding
<1>3. /\ DOMAIN legacy \in SUBSET Nat
      /\ \A i \in DOMAIN legacy : Place(legacy[i]) # None
      /\ DOMAIN legacy = {} => organization.lga = None /\ organization.state = None
  <2>1. CASE organization.lga = None /\ organization.state = None
    BY <2>1 DEF legacyFallbackZone
  <2>2. CASE ~(organization.lga = None /\ organization.state = None)
    <3> DEFINE z == [active |-> TRUE, lga |-> organization.lga, state |-> organization.state,
                     country |-> organization.country]
    <3>1. legacy = <<z>>
      BY <2>2 DEF legacyFallbackZone
    <3>2. Place(z) # None
      BY <2>2 DEF Place
    <3> HIDE DEF z, legacy
    <3>3. DOMAIN legacy = {1} /\ legacy[1] = z
      BY <3>1
    <3> QED BY <3>2, <3>3
  <2> QED BY <2>1, <2>2
<1> HIDE DEF active, legacy
<1> QED BY <1>1, <1>2, <1>3

\* An organization that meets every requirement takes a report of a category that it has, in a
\* text that matches.
LEMMA MeetsTakes ==
  ASSUME NEW organization, NEW category, NEW text, text # {},
         organization.status = "ACTIVE", organization.maintenance, organization.contact,
         organization.billingStatus \notin {"SUSPENDED", "CANCELLED"},
         \/ category \in organization.mandateCategories
         \/ \E p \in organization.providers : category \in p.categories,
         DOMAIN Deciding(organization) # {},
         firstMatchedZone(Deciding(organization), text) # None
  PROVE  \/ Covers(organization.excludedCategories, category)
         \/ eligible(organization, [category |-> category, text |-> text])
<1> DEFINE dto == [category |-> category, text |-> text]
           jurisdiction == evaluateRoutingJurisdiction(organization, dto.text)
           mandated == Covers(organization.mandateCategories, dto.category)
           inherited == inheritedCategoryMatch(organization, dto.category)
           configured == \/ organization.mandateCategories # {}
                         \/ \E p \in organization.providers : p.categories # {}
                         \/ explicitCapabilityBacked(organization, dto.category)
           capable == capabilityCategoryMatch(organization, dto.category)
           excluded == Covers(organization.excludedCategories, dto.category)
           failing == [inactive     |-> organization.status # "ACTIVE",
                       module       |-> ~organization.maintenance,
                       billing      |-> organization.billingStatus \in {"SUSPENDED", "CANCELLED"},
                       contact      |-> ~organization.contact,
                       jurisdiction |-> ~jurisdiction.configured,
                       location     |-> dto.text = {},
                       unconfigured |-> ~configured,
                       category     |-> configured /\ ~mandated /\ ~inherited /\ ~capable,
                       excluded     |-> excluded,
                       mismatch     |-> ~jurisdiction.matched]
<1>1. exclusionReasons(organization, dto) = {reason \in DOMAIN failing : failing[reason]}
  BY DEF exclusionReasons
<1>2. dto.category = category /\ dto.text = text
  OBVIOUS
<1>3. jurisdiction.configured /\ jurisdiction.matched
  BY <1>2, DecidingMeans
<1>4. categoriesCompatible(category, category)
  BY DEF categoriesCompatible, Overlap
<1>5. configured /\ (mandated \/ inherited)
  BY <1>2, <1>4 DEF Covers, inheritedCategoryMatch
<1> HIDE DEF jurisdiction, mandated, inherited, configured, capable, excluded, dto
<1>6. ASSUME ~excluded
      PROVE  \A reason \in DOMAIN failing : ~failing[reason]
  <2>1. /\ ~failing["inactive"] /\ ~failing["module"] /\ ~failing["billing"] /\ ~failing["contact"]
        /\ ~failing["location"]
    BY <1>2
  <2>2. ~failing["jurisdiction"] /\ ~failing["mismatch"]
    BY <1>3
  <2>3. ~failing["unconfigured"] /\ ~failing["category"] /\ ~failing["excluded"]
    BY <1>5, <1>6
  <2>4. DOMAIN failing = {"inactive", "module", "billing", "contact", "jurisdiction", "location",
                          "unconfigured", "category", "excluded", "mismatch"}
    OBVIOUS
  <2> HIDE DEF failing
  <2> QED BY <2>1, <2>2, <2>3, <2>4
<1>7. excluded <=> Covers(organization.excludedCategories, category)
  BY <1>2 DEF excluded
<1> HIDE DEF failing
<1>8. ~excluded => eligible(organization, dto)
  BY <1>1, <1>6 DEF eligible
<1> QED BY <1>7, <1>8 DEF dto

-----------------------------------------------------------------------------
(* What the rows promise.                                                  *)

LEMMA HomeIsFirstPlace ==
  ASSUME NEW o
  PROVE  LET zones == Deciding(Candidate(o)) IN Home(o) = Place(zones[Min(DOMAIN zones)])
BY DEF Home, Deciding, Place

LEMMA CandidateInOrder ==
  ASSUME RowsInOrder, NEW o \in Organizations
  PROVE  LET zones == Deciding(Candidate(o)) IN
         /\ DOMAIN zones \in SUBSET Nat
         /\ \A i \in DOMAIN zones : Place(zones[i]) # None
         /\ DOMAIN zones = {} => org[o].lga = None /\ org[o].state = None
<1>1. Candidate(o).zones = Restrict(zone, {i \in DOMAIN zone : zone[i].organizationId = o})
  BY DEF Candidate
<1>2. DOMAIN zone \in SUBSET Nat /\ \A i \in DOMAIN zone : zone[i].country # None
  <2>1. DOMAIN zone = 1..Len(zone) /\ Len(zone) \in Nat
    BY DEF RowsInOrder
  <2>2. \A i \in DOMAIN zone : zone[i].country # None
    BY DEF RowsInOrder, IsZone
  <2> QED BY <2>1, <2>2
<1>3. /\ DOMAIN Candidate(o).zones \in SUBSET Nat
      /\ \A i \in DOMAIN Candidate(o).zones : Candidate(o).zones[i].country # None
  BY <1>1, <1>2 DEF Restrict
<1>4. Candidate(o).lga = org[o].lga /\ Candidate(o).state = org[o].state
  BY DEF Candidate
<1> QED BY <1>3, <1>4, DecidingHasPlaces

\* No routing blockers: every requirement of the routing is met.
LEMMA NoRoutingBlockers ==
  ASSUME NEW o \in Organizations
  PROVE  routingBlockers(o) = {} <=>
           /\ org[o].contact /\ evaluateRoutingJurisdiction(Candidate(o), {}).configured
           /\ ~(org[o].profileData.mandates = {} /\ coveredCategories(o) = {})
           /\ organizationModuleSummary(org[o].enabledModules).maintenanceActive
           /\ org[o].billingStatus \notin {"SUSPENDED", "CANCELLED"}
<1> DEFINE contact == org[o].contact
           jurisdiction == evaluateRoutingJurisdiction(Candidate(o), {}).configured
           mandate == org[o].profileData.mandates = {} /\ coveredCategories(o) = {}
           module == organizationModuleSummary(org[o].enabledModules).maintenanceActive
           billing == org[o].billingStatus \in {"SUSPENDED", "CANCELLED"}
           failing == [contact |-> ~contact, jurisdiction |-> ~jurisdiction, mandate |-> mandate,
                       module |-> ~module, billing |-> billing]
<1>1. routingBlockers(o) = {check \in DOMAIN failing : failing[check]}
  BY DEF routingBlockers
<1> HIDE DEF contact, jurisdiction, mandate, module, billing
<1>2. DOMAIN failing = {"contact", "jurisdiction", "mandate", "module", "billing"}
  OBVIOUS
<1>3. /\ failing["contact"] <=> ~contact
      /\ failing["jurisdiction"] <=> ~jurisdiction
      /\ failing["mandate"] <=> mandate
      /\ failing["module"] <=> ~module
      /\ failing["billing"] <=> billing
  OBVIOUS
<1> HIDE DEF failing
<1>4. routingBlockers(o) = {} <=> \A check \in DOMAIN failing : ~failing[check]
  BY <1>1
<1>5. routingBlockers(o) = {} <=> contact /\ jurisdiction /\ ~mandate /\ module /\ ~billing
  BY <1>2, <1>3, <1>4
<1> QED BY <1>5 DEF contact, jurisdiction, mandate, module, billing

LEMMA NoBlockers ==
  ASSUME NEW o \in Organizations, blockers(o) = {}
  PROVE  /\ org[o].contact /\ coveredCategories(o) # {}
         /\ ~(org[o].state = None /\ org[o].lga = None /\ ~org[o].address)
         /\ org[o].billingStatus \notin {"SUSPENDED", "CANCELLED"}
<1> DEFINE status == org[o].status # "ACTIVE"
           profile == ~org[o].contact
           jurisdiction == org[o].state = None /\ org[o].lga = None /\ ~org[o].address
           providers == ActiveProviders(o) = {}
           categories == coveredCategories(o) = {}
           module == ~organizationModuleSummary(org[o].enabledModules).maintenanceActive
           billing == org[o].billingStatus \in {"SUSPENDED", "CANCELLED"}
           failing == [status |-> status, profile |-> profile, jurisdiction |-> jurisdiction,
                       providers |-> providers, categories |-> categories, module |-> module,
                       billing |-> billing]
<1>1. blockers(o) = {check \in DOMAIN failing : failing[check]}
  BY DEF blockers
<1> HIDE DEF status, profile, jurisdiction, providers, categories, module, billing
<1>2. {"profile", "jurisdiction", "categories", "billing"} \subseteq DOMAIN failing
  OBVIOUS
<1>3. /\ failing["profile"] <=> profile
      /\ failing["jurisdiction"] <=> jurisdiction
      /\ failing["categories"] <=> categories
      /\ failing["billing"] <=> billing
  OBVIOUS
<1> HIDE DEF failing
<1>4. \A check \in DOMAIN failing : ~failing[check]
  BY <1>1
<1>5. ~profile /\ ~jurisdiction /\ ~categories /\ ~billing
  BY <1>2, <1>3, <1>4
<1> QED BY <1>5 DEF profile, jurisdiction, categories, billing

\* The readiness that administrators see is the eligibility that the routing applies.
LEMMA RowsAreRoutable == RowsInOrder => ReadyIsRoutable
<1> SUFFICES ASSUME RowsInOrder, NEW o \in Organizations
             PROVE  /\ org[o].status = "ACTIVE" /\ routingBlockers(o) = {} =>
                         \A c \in org[o].profileData.mandates \cup coveredCategories(o) :
                           \/ Covers(org[o].profileData.excluded, c)
                           \/ eligible(Candidate(o), [category |-> c, text |-> {Home(o)}])
                    /\ blockers(o) = {} /\ routingBlockers(o) # {} =>
                         org[o].state = None /\ org[o].lga = None /\ org[o].address
  BY DEF ReadyIsRoutable
<1> DEFINE candidate == Candidate(o)
<1>1. IsOrganization(org[o])
  BY DEF RowsInOrder
<1>2. /\ maintenanceModuleEnabled(org[o].enabledModules)
      /\ organizationModuleSummary(org[o].enabledModules).maintenanceActive
  BY <1>1, StoredModulesOpenNothing DEF IsOrganization
<1>3. /\ candidate.status = org[o].status
      /\ candidate.maintenance = maintenanceModuleEnabled(org[o].enabledModules)
      /\ candidate.contact = org[o].contact /\ candidate.billingStatus = org[o].billingStatus
      /\ candidate.mandateCategories = org[o].profileData.mandates
      /\ candidate.excludedCategories = org[o].profileData.excluded
  BY DEF Candidate
<1>9. \A c \in coveredCategories(o) : \E p \in candidate.providers : c \in p.categories
  <2>1. candidate.providers = {[categories |-> provider[p].categories,
                                capabilities |-> activeProviderCapabilityIds(p)] : p \in ActiveProviders(o)}
    BY DEF Candidate
  <2>2. ASSUME NEW p \in ActiveProviders(o)
        PROVE  \E row \in candidate.providers : row.categories = provider[p].categories
    <3> DEFINE row == [categories |-> provider[p].categories,
                       capabilities |-> activeProviderCapabilityIds(p)]
    <3> HIDE DEF candidate
    <3>1. row \in candidate.providers
      BY <2>1
    <3>2. row.categories = provider[p].categories
      OBVIOUS
    <3> QED BY <3>1, <3>2
  <2> QED BY <2>2 DEF coveredCategories
<1>4. evaluateRoutingJurisdiction(candidate, {}).configured <=> DOMAIN Deciding(candidate) # {}
  BY DecidingMeans
<1>5. Home(o) = Place(Deciding(candidate)[Min(DOMAIN Deciding(candidate))])
  BY HomeIsFirstPlace
<1>6. /\ DOMAIN Deciding(candidate) \in SUBSET Nat
      /\ \A i \in DOMAIN Deciding(candidate) : Place(Deciding(candidate)[i]) # None
      /\ DOMAIN Deciding(candidate) = {} => org[o].lga = None /\ org[o].state = None
  BY CandidateInOrder
<1> HIDE DEF candidate
<1>7. ASSUME org[o].status = "ACTIVE", routingBlockers(o) = {},
             NEW c \in org[o].profileData.mandates \cup coveredCategories(o)
      PROVE  \/ Covers(org[o].profileData.excluded, c)
             \/ eligible(candidate, [category |-> c, text |-> {Home(o)}])
  <2>1. /\ org[o].contact /\ DOMAIN Deciding(candidate) # {}
        /\ org[o].billingStatus \notin {"SUSPENDED", "CANCELLED"}
    BY <1>4, <1>7, NoRoutingBlockers DEF candidate
  <2>2. firstMatchedZone(Deciding(candidate), {Home(o)}) # None
    BY <1>5, <1>6, <2>1, FirstZoneMatches
  <2>3. c \in candidate.mandateCategories \/ \E p \in candidate.providers : c \in p.categories
    BY <1>3, <1>7, <1>9
  <2>4. /\ candidate.status = "ACTIVE" /\ candidate.maintenance /\ candidate.contact
        /\ candidate.billingStatus \notin {"SUSPENDED", "CANCELLED"} /\ {Home(o)} # {}
    BY <1>2, <1>3, <1>7, <2>1
  <2>5. \/ Covers(candidate.excludedCategories, c)
        \/ eligible(candidate, [category |-> c, text |-> {Home(o)}])
    BY <2>1, <2>2, <2>3, <2>4, MeetsTakes
  <2> QED BY <1>3, <2>5
<1>8. ASSUME blockers(o) = {}, routingBlockers(o) # {}
      PROVE  org[o].state = None /\ org[o].lga = None /\ org[o].address
  <2>1. /\ org[o].contact /\ coveredCategories(o) # {}
        /\ ~(org[o].state = None /\ org[o].lga = None /\ ~org[o].address)
        /\ org[o].billingStatus \notin {"SUSPENDED", "CANCELLED"}
    BY <1>8, NoBlockers
  <2>2. ~evaluateRoutingJurisdiction(candidate, {}).configured
    BY <1>2, <1>8, <2>1, NoRoutingBlockers DEF candidate
  <2>3. org[o].state = None /\ org[o].lga = None
    BY <1>4, <1>6, <2>2
  <2> QED BY <2>1, <2>3
<1> QED BY <1>7, <1>8 DEF candidate

LEMMA ModulesAlwaysWarn == RowsInOrder => ModulesKeepWarnings
<1> SUFFICES ASSUME RowsInOrder, NEW o \in Organizations, NEW key \in DOMAIN PLATFORM_MODULES,
                    NEW kycPending \in BOOLEAN
             PROVE  LET checks == moduleChecks(key, org[o], getServiceConfiguration(o), Members(o),
                                               kycPending) IN
                    readinessState(checks) # "ready" /\ moduleReadinessScore(checks) < 100
  BY DEF ModulesKeepWarnings
<1>1. \A p \in Members(o) : \A a \in p.assigned : a.id # "plumbing_water"
  <2>1. \A p \in Providers : \A a \in Assigned(p) : a.id # "plumbing_water"
    BY DEF RowsInOrder, IsProvider, IsAssignment, Assigned
  <2> QED BY <2>1 DEF Members
<1> DEFINE checks == moduleChecks(key, org[o], getServiceConfiguration(o), Members(o), kycPending)
<1>2. /\ DOMAIN checks = ModuleKeys
      /\ \E check \in ModuleKeys : checks[check] \in {"warning", "blocking"}
  BY <1>1, SomeCheckFails
<1> HIDE DEF checks
<1> QED BY <1>2, NotAllReady DEF checks

LEMMA HealthNeedsAll == HealthWarningNeedsAll
<1> SUFFICES ASSUME NEW o \in Organizations, NEW kycPending \in BOOLEAN
             PROVE  LET checks == runtimeChecks(org[o], getServiceConfiguration(o), Members(o),
                                                kycPending) IN
                    overallHealth(checks) = "warning" <=>
                      /\ \A key \in {"tenant", "configuration", "provider", "subscription"} :
                           checks[key] = "warning"
                      /\ "attention" \in {checks.service, checks.trust}
  BY DEF HealthWarningNeedsAll
<1> DEFINE checks == runtimeChecks(org[o], getServiceConfiguration(o), Members(o), kycPending)
<1>1. ACTIVE_SERVICE_TYPE \in getServiceConfiguration(o).enabledServices
  BY ActiveServiceStays DEF getServiceConfiguration
<1>2. /\ DOMAIN checks = HealthKeys
      /\ \A key \in Warnable : checks[key] \in {"ready", "warning"}
      /\ \A key \in Attentive : checks[key] \in {"ready", "attention"}
      /\ checks["module"] = "ready" /\ checks["deployment"] = "ready"
  BY <1>1, HealthOutcomes
<1> HIDE DEF checks
<1>3. overallHealth(checks) = "warning" <=>
        /\ \A key \in Warnable : checks[key] = "warning"
        /\ \E key \in Attentive : checks[key] = "attention"
  BY <1>2, WarningMeans
<1>4. /\ Warnable = {"tenant", "configuration", "provider", "subscription"}
      /\ (\E key \in Attentive : checks[key] = "attention")
           <=> "attention" \in {checks.service, checks.trust}
  BY DEF Warnable, Attentive
<1> QED BY <1>3, <1>4 DEF checks

LEMMA FoundationsClosed == RowsInOrder => FoundationsStayClosed
<1> SUFFICES ASSUME RowsInOrder, NEW o \in Organizations
             PROVE  LET summary == organizationModuleSummary(org[o].enabledModules) IN
                    /\ \A feature \in ENTERPRISE_FEATURES : ~canActivate(org[o].enabledModules, feature)
                    /\ summary.activeProductionModuleKeys = {"maintenance"}
                    /\ \A key \in summary.metadataOnlyModuleKeys : \A user : ~evaluateAccess(user, key)
  BY DEF FoundationsStayClosed
<1>1. IsOrganization(org[o])
  BY DEF RowsInOrder
<1> QED BY <1>1, StoredModulesOpenNothing DEF IsOrganization

\* The parts of the invariant that the run checks follow from the inductive one.
LEMMA InvariantHolds == IInv => TenancyInv /\ ReadyIsRoutable
<1> SUFFICES ASSUME IInv
             PROVE  TenancyInv /\ ReadyIsRoutable
  OBVIOUS
<1>1. RowsInOrder /\ stale \subseteq Requests /\ PlacesHeld
  BY DEF IInv
<1>2. TenancyTypeOK
  <2>1. \A o \in Organizations : IsOrganization(org[o]) /\ users[o] \in 0..MaxUsers
    BY <1>1 DEF RowsInOrder
  <2>2. \A i \in DOMAIN zone :
          /\ zone[i].zoneType \in {"COUNTRY", "STATE", "LGA"} /\ zone[i].active \in BOOLEAN
          /\ zone[i].country \notin {None, ""} /\ "" \notin {zone[i].state, zone[i].lga}
    BY <1>1 DEF RowsInOrder, IsZone
  <2>3. \A i \in DOMAIN upgrade : upgrade[i].status \in {"PENDING", "COMPLETED", "REJECTED"}
    BY <1>1 DEF RowsInOrder, IsUpgrade
  <2>4. \A p \in Providers :
          provider[p].capabilities \in [Capabilities -> {None, "ACTIVE", "INACTIVE", "PENDING"}]
    BY <1>1 DEF RowsInOrder, IsProvider, IsAssignment
  <2> QED BY <1>1, <2>1, <2>2, <2>3, <2>4 DEF TenancyTypeOK, RowsInOrder, ArePolicies
<1>3. PendingUpgradesBounded
  <2> SUFFICES ASSUME NEW o \in Organizations
               PROVE  Cardinality(Pending(o)) <= Cardinality(Requests)
    BY DEF PendingUpgradesBounded
  <2>1. IsFiniteSet(Requesting(o)) /\ IsFiniteSet(Pending(o)) /\ IsFiniteSet(Requests)
    <3>1. Requesting(o) \subseteq Requests /\ Pending(o) \subseteq 1..Len(upgrade) /\ Len(upgrade) \in Nat
      BY <1>1 DEF Requesting, Pending, RowsInOrder
    <3>2. IsFiniteSet(1..Len(upgrade))
      BY <3>1, FS_Interval
    <3> QED BY <3>1, <3>2, RequestsFinite, FS_Subset
  <2>2. /\ Cardinality(Requesting(o)) \in Nat /\ Cardinality(Pending(o)) \in Nat
        /\ Cardinality(Requests) \in Nat
    BY <2>1, FS_CardinalityType
  <2>3. Cardinality(Pending(o)) + Cardinality(Requesting(o)) <= Cardinality(Requests)
    BY <1>1 DEF PlacesHeld
  <2> QED BY <2>2, <2>3
<1> QED BY <1>1, <1>2, <1>3, RowsAreRoutable, ModulesAlwaysWarn, HealthNeedsAll, FoundationsClosed
      DEF TenancyInv

-----------------------------------------------------------------------------
(* What a step leaves to the handlers that run.                            *)

\* A write concerns one target, and no request for an upgrade is given to another organization.
OthersKept(target) ==
  \A o \in Organizations \ {target} : org'[o] = org[o] /\ users'[o] = users[o]

UpgradesKept ==
  /\ DOMAIN upgrade \subseteq DOMAIN upgrade'
  /\ \A i \in DOMAIN upgrade : upgrade'[i].organizationId = upgrade[i].organizationId

LEMMA JobsKept ==
  ASSUME UpgradesKept, NEW q \in Requests, JobInOrder(req[q]), req'[q] = req[q]
  PROVE  JobInOrder(req[q])'
<1>1. CASE IsReview(req[q])
  BY <1>1 DEF IsReview, JobInOrder, UpgradesKept
<1>2. CASE ~IsReview(req[q])
  BY <1>2 DEF JobInOrder, IsUpdate, IsRequest, IsConfiguring, IsPolicy, IsPlatformPolicy, IsSaving
<1> QED BY <1>1, <1>2

LEMMA IdleIsFresh == ASSUME NEW row, NEW count PROVE IsFresh(Idle, row, count)
BY DEF IsFresh, Idle

\* A handler that has not been overtaken stays fresh.
LEMMA FreshKept ==
  ASSUME ChecksHold, NEW q \in Requests \ stale, NEW target, OthersKept(target),
         req[q].target # target, req'[q] = req[q]
  PROVE  (req[q].target \in Organizations =>
            IsFresh(req[q], org[req[q].target], users[req[q].target]))'
<1>1. ASSUME req[q].target \in Organizations
      PROVE  IsFresh(req[q], org[req[q].target], users[req[q].target])
  BY <1>1 DEF ChecksHold
<1>2. ASSUME req[q].target \in Organizations
      PROVE  /\ org'[req'[q].target] = org[req[q].target]
             /\ users'[req'[q].target] = users[req[q].target]
  BY <1>2 DEF OthersKept
<1> QED BY <1>1, <1>2 DEF IsFresh, Downgrades, Fits, KeepsAllBut, KeepsOtherPolicies

\* The handler r has written: the others on that target are stale, r is done.
LEMMA WroteLeaves ==
  ASSUME IInv, NEW r \in Requests, NEW target, Wrote(r, target), OthersKept(target), UpgradesKept
  PROVE  /\ (workload \in Workloads /\ stale \subseteq Requests)'
         /\ RequestsInOrder' /\ ChecksHold'
         /\ \A o \in Organizations : Requesting(o)' = Requesting(o) \ {r}
<1>1. /\ req = [q \in Requests |-> req[q]] /\ req' = [req EXCEPT ![r] = Idle]
      /\ stale' = (stale \ {r}) \cup {q \in Requests \ {r} : req[q].target = target}
      /\ workload' = workload
  BY DEF Wrote, IInv, RequestsInOrder
<1>2. req'[r] = Idle /\ \A q \in Requests \ {r} : req'[q] = req[q]
  BY <1>1
<1>3. (workload \in Workloads /\ stale \subseteq Requests)'
  BY <1>1 DEF IInv
<1>4. RequestsInOrder'
  <2>1. JobInOrder(req[r])'
    BY <1>2 DEF JobInOrder
  <2>2. ASSUME NEW q \in Requests \ {r}
        PROVE  JobInOrder(req[q])'
    BY <1>2, JobsKept DEF IInv, RequestsInOrder
  <2>3. (req = [q \in Requests |-> req[q]])'
    BY <1>1
  <2> QED BY <2>1, <2>2, <2>3 DEF RequestsInOrder
<1>5. ChecksHold'
  <2> SUFFICES ASSUME NEW q \in Requests \ stale'
               PROVE  (req[q].target \in Organizations =>
                         IsFresh(req[q], org[req[q].target], users[req[q].target]))'
    BY DEF ChecksHold
  <2>1. CASE q = r
    BY <1>2, <2>1, IdleIsFresh
  <2>2. CASE q # r
    <3>1. q \in Requests \ stale /\ req[q].target # target /\ req'[q] = req[q]
      BY <1>1, <1>2, <2>2
    <3> QED BY <3>1, FreshKept DEF IInv
  <2> QED BY <2>1, <2>2
<1>6. \A o \in Organizations : Requesting(o)' = Requesting(o) \ {r}
  BY <1>2 DEF Requesting, Idle
<1> QED BY <1>3, <1>4, <1>5, <1>6

LEMMA CallLeaves ==
  ASSUME IInv, NEW op, NEW target, Call(op, target), OthersKept(target), UpgradesKept
  PROVE  /\ (workload \in Workloads /\ stale \subseteq Requests)'
         /\ RequestsInOrder' /\ ChecksHold'
         /\ \A o \in Organizations : Requesting(o)' = Requesting(o)
<1>1. /\ req' = req /\ workload' = workload
      /\ stale' = stale \cup {q \in Requests : req[q].target = target}
  BY DEF Call
<1>2. (workload \in Workloads /\ stale \subseteq Requests)'
  BY <1>1 DEF IInv
<1>3. RequestsInOrder'
  <2>1. \A q \in Requests : JobInOrder(req[q])'
    BY <1>1, JobsKept DEF IInv, RequestsInOrder
  <2> QED BY <1>1, <2>1 DEF IInv, RequestsInOrder
<1>4. ChecksHold'
  <2> SUFFICES ASSUME NEW q \in Requests \ stale'
               PROVE  (req[q].target \in Organizations =>
                         IsFresh(req[q], org[req[q].target], users[req[q].target]))'
    BY DEF ChecksHold
  <2>1. q \in Requests \ stale /\ req[q].target # target /\ req'[q] = req[q]
    BY <1>1
  <2> QED BY <2>1, FreshKept DEF IInv
<1>5. \A o \in Organizations : Requesting(o)' = Requesting(o)
  BY <1>1 DEF Requesting
<1> QED BY <1>2, <1>3, <1>4, <1>5

LEMMA RequestingIsFinite ==
  ASSUME NEW o
  PROVE  /\ IsFiniteSet(Requesting(o)) /\ Cardinality(Requesting(o)) \in Nat
         /\ Cardinality(Requesting(o)) <= Cardinality(Requests)
<1>1. Requesting(o) \subseteq Requests
  BY DEF Requesting
<1> QED BY <1>1, RequestsFinite, FS_Subset, FS_CardinalityType

LEMMA PendingIsFinite ==
  ASSUME RowsInOrder, NEW o
  PROVE  IsFiniteSet(Pending(o)) /\ Cardinality(Pending(o)) \in Nat
<1>1. Pending(o) \subseteq 1..Len(upgrade) /\ Len(upgrade) \in Nat
  BY DEF Pending, RowsInOrder
<1>2. IsFiniteSet(1..Len(upgrade))
  BY <1>1, FS_Interval
<1> QED BY <1>1, <1>2, FS_Subset, FS_CardinalityType

\* No more pending requests and no more handlers that will insert one: the places suffice.
LEMMA PlacesKept ==
  ASSUME RowsInOrder, PlacesHeld,
         \A o \in Organizations : /\ Pending(o)' \subseteq Pending(o)
                                  /\ Requesting(o)' \subseteq Requesting(o)
  PROVE  PlacesHeld'
<1> SUFFICES ASSUME NEW o \in Organizations
             PROVE  Cardinality(Pending(o)') + Cardinality(Requesting(o)') <= Cardinality(Requests)
  BY DEF PlacesHeld
<1>1. /\ IsFiniteSet(Pending(o)) /\ IsFiniteSet(Requesting(o))
      /\ Cardinality(Pending(o)) \in Nat /\ Cardinality(Requesting(o)) \in Nat
  BY PendingIsFinite, RequestingIsFinite
<1>2. /\ Cardinality(Pending(o)') <= Cardinality(Pending(o))
      /\ Cardinality(Requesting(o)') <= Cardinality(Requesting(o))
      /\ IsFiniteSet(Pending(o)') /\ IsFiniteSet(Requesting(o)')
  BY <1>1, FS_Subset
<1>3. /\ Cardinality(Pending(o)') \in Nat /\ Cardinality(Requesting(o)') \in Nat
      /\ Cardinality(Requests) \in Nat
  BY <1>2, RequestsFinite, FS_CardinalityType
<1>4. Cardinality(Pending(o)) + Cardinality(Requesting(o)) <= Cardinality(Requests)
  BY DEF PlacesHeld
<1> QED BY <1>1, <1>2, <1>3, <1>4

\* A handler starts: what it carries is in order and fresh, and nothing else changes.
LEMMA StartKeeps ==
  ASSUME IInv, NEW r \in Requests, NEW op, NEW job, Start(r, op, job), JobInOrder(job),
         job.target \in Organizations => IsFresh(job, org[job.target], users[job.target]),
         job.op = "requestUpgrade" => Pending(job.target) = {}
  PROVE  IInv'
<1>1. /\ req = [q \in Requests |-> req[q]] /\ req[r] = Idle /\ req' = [req EXCEPT ![r] = job]
      /\ stale' = stale \ {r} /\ workload' = workload
      /\ org' = org /\ zone' = zone /\ provider' = provider /\ upgrade' = upgrade
      /\ users' = users /\ policies' = policies
  BY DEF Start, IInv, RequestsInOrder, rows
<1>2. req'[r] = job /\ \A q \in Requests \ {r} : req'[q] = req[q]
  BY <1>1
<1>3. RowsInOrder'
  BY <1>1 DEF IInv, RowsInOrder, IsUpgrade, IsProvider
<1>4. (workload \in Workloads /\ stale \subseteq Requests)'
  BY <1>1 DEF IInv
<1>5. UpgradesKept /\ OthersKept(None)
  BY <1>1 DEF UpgradesKept, OthersKept
<1>6. RequestsInOrder'
  <2>1. JobInOrder(req[r])'
    BY <1>1, <1>2 DEF JobInOrder, IsReview, IsUpdate, IsRequest, IsConfiguring, IsPolicy,
                      IsPlatformPolicy, IsSaving
  <2>2. ASSUME NEW q \in Requests \ {r}
        PROVE  JobInOrder(req[q])'
    BY <1>2, <1>5, JobsKept DEF IInv, RequestsInOrder
  <2>3. (req = [q \in Requests |-> req[q]])'
    BY <1>1
  <2> QED BY <2>1, <2>2, <2>3 DEF RequestsInOrder
<1>7. ChecksHold'
  <2> SUFFICES ASSUME NEW q \in Requests \ stale', req'[q].target \in Organizations
               PROVE  IsFresh(req[q], org[req[q].target], users[req[q].target])'
    BY DEF ChecksHold
  <2>1. CASE q = r
    <3>1. req'[q] = job /\ org'[job.target] = org[job.target] /\ users'[job.target] = users[job.target]
      BY <1>1, <1>2, <2>1
    <3>2. IsFresh(job, org[job.target], users[job.target])
      BY <1>2, <2>1
    <3> QED BY <3>1, <3>2 DEF IsFresh, Downgrades, Fits, KeepsAllBut, KeepsOtherPolicies
  <2>2. CASE q # r
    <3>1. q \in Requests \ stale /\ req'[q] = req[q]
      BY <1>1, <1>2, <2>2
    <3>2. IsFresh(req[q], org[req[q].target], users[req[q].target])
      BY <3>1 DEF IInv, ChecksHold
    <3> QED BY <1>1, <3>1, <3>2 DEF IsFresh, Downgrades, Fits, KeepsAllBut, KeepsOtherPolicies
  <2> QED BY <2>1, <2>2
<1>8. PlacesHeld'
  <2> SUFFICES ASSUME NEW o \in Organizations
               PROVE  Cardinality(Pending(o)') + Cardinality(Requesting(o)') <= Cardinality(Requests)
    BY DEF PlacesHeld
  <2>1. Pending(o)' = Pending(o)
    BY <1>1 DEF Pending
  <2>2. CASE job.op = "requestUpgrade" /\ job.target = o
    <3>1. Cardinality(Pending(o)') = 0
      BY <2>1, <2>2, FS_EmptySet
    <3>2. Requesting(o)' \subseteq Requests
      BY DEF Requesting
    <3>3. /\ Cardinality(Requesting(o)') <= Cardinality(Requests)
          /\ IsFiniteSet(Requesting(o)')
      BY <3>2, RequestsFinite, FS_Subset
    <3>4. Cardinality(Requesting(o)') \in Nat
      BY <3>3, FS_CardinalityType
    <3> QED BY <3>1, <3>3, <3>4
  <2>3. CASE ~(job.op = "requestUpgrade" /\ job.target = o)
    <3>1. Requesting(o)' = Requesting(o)
      BY <1>1, <1>2, <2>3 DEF Requesting, Idle
    <3> QED BY <2>1, <3>1 DEF IInv, PlacesHeld
  <2> QED BY <2>2, <2>3
<1> QED BY <1>3, <1>4, <1>6, <1>7, <1>8 DEF IInv

-----------------------------------------------------------------------------
(* One lemma per action: organizations and zones.                          *)

\* After a write: the rows are in order, and no place is taken that was not held.
LEMMA Collect ==
  ASSUME IInv, RowsInOrder', (workload \in Workloads /\ stale \subseteq Requests)',
         RequestsInOrder', ChecksHold',
         \A o \in Organizations : /\ Pending(o)' \subseteq Pending(o)
                                  /\ Requesting(o)' \subseteq Requesting(o)
  PROVE  IInv'
<1>1. PlacesHeld'
  BY PlacesKept DEF IInv
<1> QED BY <1>1 DEF IInv

LEMMA OrganizationWritten ==
  ASSUME RowsInOrder, NEW o \in Organizations, NEW row, IsOrganization(row),
         org' = [org EXCEPT ![o] = row], UNCHANGED <<zone, provider, upgrade, users, policies>>
  PROVE  /\ RowsInOrder' /\ OthersKept(o) /\ UpgradesKept
         /\ \A p \in Organizations : Pending(p)' \subseteq Pending(p)
<1>1. \A p \in Organizations : org'[p] = IF p = o THEN row ELSE org[p]
  BY DEF RowsInOrder
<1>2. RowsInOrder'
  <2>1. (org = [p \in Organizations |-> org[p]])'
    BY DEF RowsInOrder
  <2>2. \A p \in Organizations : IsOrganization(org'[p])
    BY <1>1 DEF RowsInOrder
  <2> QED BY <2>1, <2>2 DEF RowsInOrder, IsProvider, IsUpgrade
<1>3. OthersKept(o) /\ UpgradesKept
  BY <1>1 DEF OthersKept, UpgradesKept
<1>4. \A p \in Organizations : Pending(p)' \subseteq Pending(p)
  BY DEF Pending
<1> QED BY <1>2, <1>3, <1>4

LEMMA CreateKeeps ==
  ASSUME IInv, NEW o \in Organizations, NEW dto \in workload.patches, create(o, dto)
  PROVE  IInv'
<1> DEFINE base == [org[o] EXCEPT !.status = "ACTIVE", !.enabledModules = toJson({})]
           row == Patched(base, buildOrganizationData(dto))
<1>1. IsOrganization(org[o])
  BY DEF IInv, RowsInOrder
<1>2. IsOrganization(base)
  <2>1. base = [f \in DOMAIN Absent |-> base[f]]
    BY <1>1 DEF IsOrganization
  <2>2. base.status = "ACTIVE" /\ base.enabledModules = toJson({})
    BY <1>1 DEF IsOrganization, Absent
  <2>3. \A f \in DOMAIN Absent \ {"status", "enabledModules"} : base[f] = org[o][f]
    BY <1>1 DEF IsOrganization
  <2>4. /\ base.subscriptionPlan = org[o].subscriptionPlan /\ base.billingStatus = org[o].billingStatus
        /\ base.allowedUsers = org[o].allowedUsers /\ base.contact = org[o].contact
        /\ base.address = org[o].address /\ base.state = org[o].state /\ base.lga = org[o].lga
        /\ base.country = org[o].country /\ base.profileData = org[o].profileData
    BY <2>3 DEF Absent
  <2> HIDE DEF base
  <2>5. /\ base.enabledModules \in [shape: {"null", "list", "modules"}, keys: SUBSET DOMAIN PLATFORM_MODULES]
        /\ "maintenance" \in base.enabledModules.keys
    BY <2>2, StoredModules
  <2> QED BY <1>1, <2>1, <2>2, <2>4, <2>5 DEF IsOrganization
<1>3. IsPatch(dto)
  BY GivenInputs DEF IInv
<1>4. IsOrganization(row)
  BY <1>2, <1>3, PatchIsData, PatchedIsOrganization
<1>5. Call("create", o) /\ org' = [org EXCEPT ![o] = row]
      /\ UNCHANGED <<zone, provider, upgrade, users, policies>>
  BY DEF create
<1> HIDE DEF row
<1>6. /\ RowsInOrder' /\ OthersKept(o) /\ UpgradesKept
      /\ \A p \in Organizations : Pending(p)' \subseteq Pending(p)
  BY <1>4, <1>5, OrganizationWritten DEF IInv
<1> QED BY <1>5, <1>6, CallLeaves, Collect

LEMMA UpdateKeeps ==
  ASSUME IInv, NEW r \in Requests, NEW o \in Organizations, NEW user, NEW dto \in workload.patches,
         update(r, o, user, dto)
  PROVE  IInv'
<1> DEFINE job == [op |-> "update", target |-> o, user |-> user, data |-> buildOrganizationData(dto)]
<1>1. IsPatch(dto)
  BY GivenInputs DEF IInv
<1>2. IsData(buildOrganizationData(dto)) /\ DOMAIN buildOrganizationData(dto) = DOMAIN dto
  BY <1>1, PatchIsData
<1>3. Start(r, "update", job)
      /\ ("subscriptionPlan" \in DOMAIN dto =>
            (isDowngrade(org[o].subscriptionPlan, dto.subscriptionPlan) =>
               assertDowngradeDoesNotExceedUsage(o, dto.subscriptionPlan)))
  BY DEF update
<1>4. "subscriptionPlan" \in DOMAIN dto => buildOrganizationData(dto).subscriptionPlan = dto.subscriptionPlan
  BY DEF buildOrganizationData
<1>5. job.op = "update" /\ job.target = o /\ job.data = buildOrganizationData(dto)
  OBVIOUS
<1> HIDE DEF job
<1>6. JobInOrder(job)
  BY <1>2, <1>5 DEF JobInOrder, IsUpdate
<1>7. IsFresh(job, org[o], users[o])
  BY <1>2, <1>3, <1>4, <1>5 DEF IsFresh, Downgrades, Fits, assertDowngradeDoesNotExceedUsage
<1> QED BY <1>3, <1>5, <1>6, <1>7, StartKeeps

LEMMA UpdateWritesKeeps ==
  ASSUME IInv, NEW r \in Requests, updateWrites(r)
  PROVE  IInv' /\ Wrote(r, req[r].target) /\ req[r].target \in Organizations
<1>1. IsUpdate(req[r])
  BY DEF IInv, RequestsInOrder, JobInOrder, updateWrites, Idle, IsRequest, IsReview, IsConfiguring,
         IsPolicy, IsPlatformPolicy, IsSaving
<1>2. PICK o \in Organizations : o = req[r].target
  BY <1>1 DEF IsUpdate
<1>3. IsOrganization(Patched(org[o], req[r].data))
  BY <1>1, PatchedIsOrganization DEF IsUpdate, IInv, RowsInOrder
<1>4. /\ org' = [org EXCEPT ![o] = Patched(org[o], req[r].data)] /\ Wrote(r, o)
      /\ UNCHANGED <<zone, provider, upgrade, users, policies>>
  BY <1>2 DEF updateWrites
<1>5. /\ RowsInOrder' /\ OthersKept(o) /\ UpgradesKept
      /\ \A p \in Organizations : Pending(p)' \subseteq Pending(p)
  BY <1>3, <1>4, OrganizationWritten DEF IInv
<1>6. IInv'
  BY <1>4, <1>5, WroteLeaves, Collect
<1> QED BY <1>2, <1>4, <1>6

LEMMA SetStatusKeeps ==
  ASSUME IInv, NEW o \in Organizations, NEW status \in {"ACTIVE", "SUSPENDED"}, setStatus(o, status)
  PROVE  IInv'
<1> DEFINE row == [org[o] EXCEPT !.status = status]
<1>1. IsOrganization(org[o])
  BY DEF IInv, RowsInOrder
<1>2. IsOrganization(row)
  <2>1. row = [f \in DOMAIN Absent |-> row[f]]
    BY <1>1 DEF IsOrganization
  <2>2. row.status = status
    BY <1>1 DEF IsOrganization, Absent
  <2>3. /\ row.subscriptionPlan = org[o].subscriptionPlan /\ row.billingStatus = org[o].billingStatus
        /\ row.allowedUsers = org[o].allowedUsers /\ row.contact = org[o].contact
        /\ row.address = org[o].address /\ row.state = org[o].state /\ row.lga = org[o].lga
        /\ row.country = org[o].country /\ row.profileData = org[o].profileData
        /\ row.enabledModules = org[o].enabledModules
    BY <1>1 DEF IsOrganization, Absent
  <2> HIDE DEF row
  <2> QED BY <1>1, <2>1, <2>2, <2>3 DEF IsOrganization
<1>3. /\ Call("setStatus", o) /\ org' = [org EXCEPT ![o] = row]
      /\ UNCHANGED <<zone, provider, upgrade, users, policies>>
  BY DEF setStatus
<1> HIDE DEF row
<1>4. /\ RowsInOrder' /\ OthersKept(o) /\ UpgradesKept
      /\ \A p \in Organizations : Pending(p)' \subseteq Pending(p)
  BY <1>2, <1>3, OrganizationWritten DEF IInv
<1> QED BY <1>3, <1>4, CallLeaves, Collect

\* The quota of a plan is a number of users, or there is none.
LEMMA PlanQuota == ASSUME NEW plan PROVE defaultQuotaUpdateForPlan(plan) \in Nat \cup {None}
BY PlansAreBounded DEF defaultQuotaUpdateForPlan

LEMMA FulfillPaymentKeeps ==
  ASSUME IInv, NEW o \in Organizations, NEW plan \in {"STARTER", "PROFESSIONAL"}, fulfillPayment(o, plan)
  PROVE  IInv'
<1> DEFINE modules == [shape |-> "modules", keys |-> {"maintenance"}]
           row == [org[o] EXCEPT !.subscriptionPlan = plan, !.billingStatus = "ACTIVE",
                                 !.allowedUsers = defaultQuotaUpdateForPlan(plan),
                                 !.enabledModules = modules]
<1>1. IsOrganization(org[o])
  BY DEF IInv, RowsInOrder
<1>2. /\ modules \in [shape: {"null", "list", "modules"}, keys: SUBSET DOMAIN PLATFORM_MODULES]
      /\ "maintenance" \in modules.keys
  BY DEF PLATFORM_MODULES
<1>3. IsOrganization(row)
  <2> HIDE DEF modules
  <2>1. row = [f \in DOMAIN Absent |-> row[f]]
    BY <1>1 DEF IsOrganization
  <2>2. /\ row.subscriptionPlan = plan /\ row.billingStatus = "ACTIVE"
        /\ row.allowedUsers = defaultQuotaUpdateForPlan(plan) /\ row.enabledModules = modules
    BY <1>1 DEF IsOrganization, Absent
  <2>3. /\ row.status = org[o].status /\ row.contact = org[o].contact
        /\ row.address = org[o].address /\ row.state = org[o].state /\ row.lga = org[o].lga
        /\ row.country = org[o].country /\ row.profileData = org[o].profileData
    BY <1>1 DEF IsOrganization, Absent
  <2> HIDE DEF row
  <2>4. row.subscriptionPlan \in Plans /\ row.allowedUsers \in Nat \cup {None}
    BY <2>2, PlanQuota DEF Plans
  <2>5. /\ row.enabledModules \in [shape: {"null", "list", "modules"}, keys: SUBSET DOMAIN PLATFORM_MODULES]
        /\ "maintenance" \in row.enabledModules.keys
    BY <1>2, <2>2
  <2>6. row.billingStatus = "ACTIVE"
    BY <2>2
  <2> QED BY <1>1, <2>1, <2>3, <2>4, <2>5, <2>6 DEF IsOrganization
<1>4. /\ Call("fulfillPayment", o) /\ org' = [org EXCEPT ![o] = row]
      /\ UNCHANGED <<zone, provider, users, policies>>
      /\ upgrade' = [i \in DOMAIN upgrade |->
           IF i \in Pending(o) /\ upgrade[i].requestedPlan = plan
           THEN [upgrade[i] EXCEPT !.status = "COMPLETED"] ELSE upgrade[i]]
  BY DEF fulfillPayment
<1> HIDE DEF row
<1>5. \A i \in DOMAIN upgrade : IsUpgrade(upgrade[i])
  BY DEF IInv, RowsInOrder
<1>6. \A i \in DOMAIN upgrade :
        /\ IsUpgrade([upgrade[i] EXCEPT !.status = "COMPLETED"])
        /\ [upgrade[i] EXCEPT !.status = "COMPLETED"].organizationId = upgrade[i].organizationId
        /\ [upgrade[i] EXCEPT !.status = "COMPLETED"].status = "COMPLETED"
  BY <1>5 DEF IsUpgrade
<1>7. /\ DOMAIN upgrade' = DOMAIN upgrade
      /\ \A i \in DOMAIN upgrade : \/ upgrade'[i] = [upgrade[i] EXCEPT !.status = "COMPLETED"]
                                   \/ upgrade'[i] = upgrade[i]
  BY <1>4
<1>8. \A i \in DOMAIN upgrade' : IsUpgrade(upgrade'[i])
  BY <1>5, <1>6, <1>7
<1>9. upgrade' \in Seq(Range(upgrade'))
  <2>1. upgrade = [i \in 1..Len(upgrade) |-> upgrade[i]] /\ Len(upgrade) \in Nat
    BY DEF IInv, RowsInOrder
  <2>2. upgrade' = [i \in 1..Len(upgrade) |-> upgrade'[i]]
    BY <1>4, <2>1
  <2> QED BY <2>1, <2>2 DEF Range
<1>10. \A p \in Organizations : org'[p] = IF p = o THEN row ELSE org[p]
  BY <1>4 DEF IInv, RowsInOrder
<1>11. RowsInOrder'
  <2>1. (org = [p \in Organizations |-> org[p]])'
    BY <1>4 DEF IInv, RowsInOrder
  <2>2. \A p \in Organizations : IsOrganization(org'[p])
    BY <1>3, <1>10 DEF IInv, RowsInOrder
  <2> QED BY <1>4, <1>8, <1>9, <2>1, <2>2 DEF IInv, RowsInOrder, IsProvider
<1>12. OthersKept(o) /\ UpgradesKept
  BY <1>4, <1>6, <1>7, <1>10 DEF OthersKept, UpgradesKept
<1>13. \A p \in Organizations : Pending(p)' \subseteq Pending(p)
  BY <1>6, <1>7 DEF Pending
<1> QED BY <1>4, <1>11, <1>12, <1>13, CallLeaves, Collect

LEMMA UserJoinsKeeps ==
  ASSUME IInv, NEW o \in Organizations, UserJoins(o)
  PROVE  IInv'
<1>1. /\ Call("join", o) /\ users' = [users EXCEPT ![o] = users[o] + 1] /\ users[o] < MaxUsers
      /\ UNCHANGED <<org, zone, provider, upgrade, policies>>
  BY DEF UserJoins
<1>2. users \in [Organizations -> 0..MaxUsers] /\ MaxUsers \in Nat
  BY PlansAreBounded DEF IInv, RowsInOrder
<1>3. users' \in [Organizations -> 0..MaxUsers]
  BY <1>1, <1>2
<1>4. RowsInOrder'
  BY <1>1, <1>3 DEF IInv, RowsInOrder, IsProvider, IsUpgrade
<1>5. OthersKept(o) /\ UpgradesKept /\ \A p \in Organizations : Pending(p)' \subseteq Pending(p)
  BY <1>1, <1>2 DEF OthersKept, UpgradesKept, Pending
<1> QED BY <1>1, <1>4, <1>5, CallLeaves, Collect

\* A sequence with one more element.
LEMMA OneAppended ==
  ASSUME NEW s, s \in Seq(Range(s)), NEW e
  PROVE  /\ Append(s, e) \in Seq(Range(Append(s, e))) /\ DOMAIN Append(s, e) = 1..(Len(s) + 1)
         /\ DOMAIN s = 1..Len(s) /\ Len(s) \in Nat
         /\ \A i \in 1..(Len(s) + 1) : Append(s, e)[i] = IF i = Len(s) + 1 THEN e ELSE s[i]
<1> DEFINE S == Range(s) \cup {e}
           t == Append(s, e)
<1>1. s \in Seq(S) /\ e \in S /\ DOMAIN s = 1..Len(s) /\ Len(s) \in Nat
  BY DEF Range
<1> HIDE DEF S
<1>2. t \in Seq(S) /\ Len(t) = Len(s) + 1 /\ t[Len(s) + 1] = e /\ \A i \in 1..Len(s) : t[i] = s[i]
  BY <1>1, AppendProperties
<1> HIDE DEF t
<1>3. DOMAIN t = 1..(Len(s) + 1)
  BY <1>2
<1>4. t \in Seq(Range(t))
  BY <1>2 DEF Range
<1>5. \A i \in 1..(Len(s) + 1) : t[i] = IF i = Len(s) + 1 THEN e ELSE s[i]
  <2>1. \A i \in 1..(Len(s) + 1) : i = Len(s) + 1 \/ i \in 1..Len(s)
    BY <1>1
  <2> QED BY <1>2, <2>1
<1> QED BY <1>1, <1>3, <1>4, <1>5 DEF t

\* What is written over a zone leaves a zone: the type only of what names its place.
LEMMA ZoneBuilt ==
  ASSUME NEW row, NEW dto, NEW creating \in BOOLEAN,
         dto.zoneType \in {"COUNTRY", "STATE", "LGA", None}, dto.active \in BOOLEAN \cup {None},
         \/ IsZone(row)
         \/ creating /\ row.active \in BOOLEAN,
         zoneAccepted(dto, creating)
  PROVE  IsZone(buildJurisdictionZoneData(row, dto, creating))
<1> DEFINE next == buildJurisdictionZoneData(row, dto, creating)
<1>2. /\ next.zoneType = IF dto.zoneType # None THEN dto.zoneType ELSE row.zoneType
      /\ next.country = IF dto.country = None /\ ~creating THEN row.country
                        ELSE IF Clean(dto.country) = None THEN "nigeria" ELSE dto.country
      /\ next.state = IF dto.state = None /\ ~creating THEN row.state ELSE Clean(dto.state)
      /\ next.lga = IF dto.lga = None /\ ~creating THEN row.lga ELSE Clean(dto.lga)
      /\ next.active = IF dto.active # None THEN dto.active ELSE row.active
  BY DEF buildJurisdictionZoneData
<1> HIDE DEF next
<1>3. next.zoneType \in {"COUNTRY", "STATE", "LGA"}
  BY <1>2 DEF zoneAccepted, IsZone
<1>4. next.active \in BOOLEAN
  BY <1>2 DEF IsZone
<1>5. next.country \notin {None, ""}
  BY <1>2, NoneIsNoValue DEF Clean, IsZone
<1>6. next.state # "" /\ next.lga # ""
  BY <1>2, NoneIsNoValue DEF Clean, IsZone
<1> QED BY <1>3, <1>4, <1>5, <1>6 DEF IsZone, next

LEMMA ZonesWritten ==
  ASSUME RowsInOrder, zone' \in Seq(Range(zone')), \A i \in DOMAIN zone' : IsZone(zone'[i]),
         UNCHANGED <<org, provider, upgrade, users, policies>>, NEW o
  PROVE  /\ RowsInOrder' /\ OthersKept(o) /\ UpgradesKept
         /\ \A p \in Organizations : Pending(p)' \subseteq Pending(p)
<1>1. RowsInOrder'
  BY DEF RowsInOrder, IsProvider, IsUpgrade
<1>2. OthersKept(o) /\ UpgradesKept /\ \A p \in Organizations : Pending(p)' \subseteq Pending(p)
  BY DEF OthersKept, UpgradesKept, Pending
<1> QED BY <1>1, <1>2

LEMMA ZoneStepsKeep ==
  ASSUME IInv, ZoneSteps
  PROVE  IInv'
<1>1. PICK user \in Users, dto \in workload.zones :
        \/ \E o \in Organizations : createJurisdictionZone(o, user, dto)
        \/ \E i \in DOMAIN zone : updateJurisdictionZone(i, user, dto)
  BY DEF ZoneSteps
<1>2. dto.zoneType \in {"COUNTRY", "STATE", "LGA", None} /\ dto.active \in BOOLEAN \cup {None}
  BY GivenInputs DEF IInv
<1>3. /\ Len(zone) \in Nat /\ DOMAIN zone = 1..Len(zone) /\ zone = [i \in 1..Len(zone) |-> zone[i]]
      /\ \A i \in DOMAIN zone : IsZone(zone[i])
  BY DEF IInv, RowsInOrder
<1>4. ASSUME NEW o \in Organizations, createJurisdictionZone(o, user, dto)
      PROVE  IInv'
  <2> DEFINE fresh == [organizationId |-> o, zoneType |-> "", country |-> "nigeria", state |-> None,
                       lga |-> None, active |-> TRUE]
             row == buildJurisdictionZoneData(fresh, dto, TRUE)
  <2>1. /\ Call("zone", o) /\ zone' = Append(zone, row) /\ zoneAccepted(dto, TRUE)
        /\ UNCHANGED <<org, provider, upgrade, users, policies>>
    BY <1>4 DEF createJurisdictionZone
  <2>2. fresh.active \in BOOLEAN
    OBVIOUS
  <2>3. IsZone(row)
    BY <1>2, <2>1, <2>2, ZoneBuilt
  <2> HIDE DEF row
  <2>4. /\ zone' \in Seq(Range(zone')) /\ DOMAIN zone' = 1..(Len(zone) + 1)
        /\ \A i \in 1..(Len(zone) + 1) : zone'[i] = IF i = Len(zone) + 1 THEN row ELSE zone[i]
    BY <2>1, OneAppended DEF IInv, RowsInOrder
  <2>5. \A i \in DOMAIN zone' : IsZone(zone'[i])
    <3>1. \A i \in 1..(Len(zone) + 1) : i = Len(zone) + 1 \/ i \in 1..Len(zone)
      BY <1>3
    <3> QED BY <1>3, <2>3, <2>4, <3>1
  <2> QED BY <2>1, <2>4, <2>5, ZonesWritten, CallLeaves, Collect DEF IInv
<1>5. ASSUME NEW i \in DOMAIN zone, updateJurisdictionZone(i, user, dto)
      PROVE  IInv'
  <2> DEFINE row == buildJurisdictionZoneData(zone[i], dto, FALSE)
  <2>1. /\ Call("zone", zone[i].organizationId) /\ zone' = [zone EXCEPT ![i] = row]
        /\ zoneAccepted(dto, FALSE) /\ UNCHANGED <<org, provider, upgrade, users, policies>>
    BY <1>5 DEF updateJurisdictionZone
  <2>2. IsZone(row)
    BY <1>2, <1>3, <2>1, ZoneBuilt
  <2> HIDE DEF row
  <2>3. /\ DOMAIN zone' = 1..Len(zone) /\ zone' = [j \in 1..Len(zone) |-> zone'[j]]
        /\ \A j \in 1..Len(zone) : zone'[j] = IF j = i THEN row ELSE zone[j]
    BY <1>3, <2>1
  <2>4. \A j \in DOMAIN zone' : IsZone(zone'[j])
    BY <1>3, <2>2, <2>3
  <2>5. zone' \in Seq(Range(zone'))
    BY <1>3, <2>3 DEF Range
  <2> QED BY <2>1, <2>4, <2>5, ZonesWritten, CallLeaves, Collect DEF IInv
<1> QED BY <1>1, <1>4, <1>5

-----------------------------------------------------------------------------
(* One lemma per action: upgrade requests.                                 *)

LEMMA RequestUpgradeKeeps ==
  ASSUME IInv, NEW r \in Requests, NEW o \in Organizations, NEW user,
         NEW plan \in {"STARTER", "PROFESSIONAL"}, requestUpgrade(r, o, user, plan)
  PROVE  IInv'
<1> DEFINE job == [op |-> "requestUpgrade", target |-> o, currentPlan |-> org[o].subscriptionPlan,
                   requestedPlan |-> plan]
<1>1. /\ Start(r, "requestUpgrade", job) /\ Pending(o) = {}
      /\ ~isDowngrade(org[o].subscriptionPlan, plan)
  BY DEF requestUpgrade
<1>2. /\ job.op = "requestUpgrade" /\ job.target = o /\ job.currentPlan = org[o].subscriptionPlan
      /\ job.requestedPlan = plan
  OBVIOUS
<1> HIDE DEF job
<1>3. JobInOrder(job)
  BY <1>1, <1>2 DEF JobInOrder, IsRequest, Plans
<1>4. IsFresh(job, org[o], users[o])
  BY <1>2 DEF IsFresh
<1> QED BY <1>1, <1>2, <1>3, <1>4, StartKeeps

LEMMA RequestUpgradeInsertsKeeps ==
  ASSUME IInv, NEW r \in Requests, requestUpgradeInserts(r)
  PROVE  IInv' /\ Wrote(r, req[r].target)
<1> DEFINE row == [organizationId |-> req[r].target, status |-> "PENDING",
                   currentPlan |-> req[r].currentPlan, requestedPlan |-> req[r].requestedPlan]
<1>1. IsRequest(req[r])
  BY DEF IInv, RequestsInOrder, JobInOrder, requestUpgradeInserts, Idle, IsUpdate, IsReview,
         IsConfiguring, IsPolicy, IsPlatformPolicy, IsSaving
<1>2. PICK o \in Organizations : o = req[r].target
  BY <1>1 DEF IsRequest
<1>3. /\ upgrade' = Append(upgrade, row) /\ Wrote(r, o)
      /\ UNCHANGED <<org, zone, provider, users, policies>>
  BY <1>2 DEF requestUpgradeInserts
<1>4. /\ row.organizationId = o /\ row.status = "PENDING" /\ row.currentPlan = req[r].currentPlan
      /\ row.requestedPlan = req[r].requestedPlan
      /\ row = [organizationId |-> row.organizationId, status |-> row.status,
                currentPlan |-> row.currentPlan, requestedPlan |-> row.requestedPlan]
  BY <1>2
<1> HIDE DEF row
<1>5. IsUpgrade(row)
  BY <1>1, <1>4 DEF IsUpgrade, IsRequest
<1>6. /\ upgrade' \in Seq(Range(upgrade')) /\ DOMAIN upgrade' = 1..(Len(upgrade) + 1)
      /\ DOMAIN upgrade = 1..Len(upgrade) /\ Len(upgrade) \in Nat
      /\ \A i \in 1..(Len(upgrade) + 1) : upgrade'[i] = IF i = Len(upgrade) + 1 THEN row ELSE upgrade[i]
  BY <1>3, OneAppended DEF IInv, RowsInOrder
<1>7. \A i \in 1..(Len(upgrade) + 1) : i = Len(upgrade) + 1 \/ i \in DOMAIN upgrade
  BY <1>6
<1>8. \A i \in DOMAIN upgrade' : IsUpgrade(upgrade'[i])
  BY <1>5, <1>6, <1>7 DEF IInv, RowsInOrder
<1>9. RowsInOrder'
  BY <1>3, <1>6, <1>8 DEF IInv, RowsInOrder, IsProvider
<1>10. UpgradesKept /\ OthersKept(o)
  BY <1>3, <1>6 DEF UpgradesKept, OthersKept
<1>11. /\ (workload \in Workloads /\ stale \subseteq Requests)' /\ RequestsInOrder' /\ ChecksHold'
       /\ \A p \in Organizations : Requesting(p)' = Requesting(p) \ {r}
  BY <1>3, <1>10, WroteLeaves
<1>12. PlacesHeld'
  <2> SUFFICES ASSUME NEW p \in Organizations
               PROVE  Cardinality(Pending(p)') + Cardinality(Requesting(p)') <= Cardinality(Requests)
    BY DEF PlacesHeld
  <2>1. /\ IsFiniteSet(Pending(p)) /\ Cardinality(Pending(p)) \in Nat
        /\ IsFiniteSet(Requesting(p)) /\ Cardinality(Requesting(p)) \in Nat
        /\ Cardinality(Requests) \in Nat
    BY PendingIsFinite, RequestingIsFinite, RequestsFinite, FS_CardinalityType DEF IInv
  <2>2. Cardinality(Pending(p)) + Cardinality(Requesting(p)) <= Cardinality(Requests)
    BY DEF IInv, PlacesHeld
  <2>3. CASE p = o
    <3>1. Pending(p)' = Pending(p) \cup {Len(upgrade) + 1} /\ Len(upgrade) + 1 \notin Pending(p)
      BY <1>4, <1>6, <1>7, <2>3 DEF Pending
    <3>2. Cardinality(Pending(p)') = Cardinality(Pending(p)) + 1
      BY <2>1, <3>1, OneMore
    <3>3. r \in Requesting(p)
      BY <1>1, <1>2, <2>3 DEF Requesting, IsRequest
    <3>4. Cardinality(Requesting(p)') = Cardinality(Requesting(p)) - 1
      BY <1>11, <2>1, <3>3, FS_RemoveElement
    <3> QED BY <2>1, <2>2, <3>2, <3>4
  <2>4. CASE p # o
    <3>1. Pending(p)' \subseteq Pending(p)
      BY <1>4, <1>6, <1>7, <2>4 DEF Pending
    <3>2. r \notin Requesting(p)
      BY <1>2, <2>4 DEF Requesting
    <3>3. Requesting(p)' = Requesting(p)
      BY <1>11, <3>2
    <3>4. Cardinality(Pending(p)') <= Cardinality(Pending(p)) /\ Cardinality(Pending(p)') \in Nat
      BY <2>1, <3>1, FS_Subset, FS_CardinalityType
    <3> QED BY <2>1, <2>2, <3>3, <3>4
  <2> QED BY <2>3, <2>4
<1> QED BY <1>2, <1>3, <1>9, <1>11, <1>12 DEF IInv

LEMMA ReviewUpgradeRequestKeeps ==
  ASSUME IInv, NEW r \in Requests, NEW i \in DOMAIN upgrade, NEW action,
         reviewUpgradeRequest(r, i, action)
  PROVE  IInv'
<1> DEFINE job == [op |-> "reviewUpgrade", target |-> upgrade[i].organizationId, id |-> i,
                   action |-> action]
<1>1. Start(r, "reviewUpgrade", job)
  BY DEF reviewUpgradeRequest
<1>2. job.op = "reviewUpgrade" /\ job.target = upgrade[i].organizationId /\ job.id = i
  OBVIOUS
<1> HIDE DEF job
<1>3. JobInOrder(job)
  BY <1>2 DEF JobInOrder, IsReview
<1>4. IsFresh(job, org[job.target], users[job.target])
  BY <1>2 DEF IsFresh
<1> QED BY <1>1, <1>2, <1>3, <1>4, StartKeeps

LEMMA ReviewUpgradeWritesKeeps ==
  ASSUME IInv, NEW r \in Requests, reviewUpgradeWrites(r)
  PROVE  IInv' /\ Wrote(r, req[r].target) /\ req[r].target \in Organizations
<1> DEFINE id == req[r].id
           request == upgrade[id]
           outcome == IF req[r].action = "REJECT" THEN "REJECTED" ELSE "COMPLETED"
<1>1. IsReview(req[r])
  BY DEF IInv, RequestsInOrder, JobInOrder, reviewUpgradeWrites, Idle, IsUpdate, IsRequest,
         IsConfiguring, IsPolicy, IsPlatformPolicy, IsSaving
<1>2. id \in DOMAIN upgrade /\ req[r].target = request.organizationId /\ IsUpgrade(request)
  BY <1>1 DEF IsReview, IInv, RowsInOrder
<1>3. PICK o \in Organizations : o = req[r].target
  BY <1>2 DEF IsUpgrade
<1> DEFINE row == IF req[r].action = "REJECT" THEN org[o]
                  ELSE [org[o] EXCEPT !.subscriptionPlan = request.requestedPlan,
                                      !.billingStatus = "ACTIVE",
                                      !.allowedUsers = defaultQuotaUpdateForPlan(request.requestedPlan)]
<1>4. /\ upgrade' = [upgrade EXCEPT ![id] = [request EXCEPT !.status = outcome]] /\ Wrote(r, o)
      /\ UNCHANGED <<zone, provider, users, policies>>
      /\ org' = IF req[r].action = "REJECT" THEN org
                ELSE [org EXCEPT ![o].subscriptionPlan = request.requestedPlan,
                                 ![o].billingStatus = "ACTIVE",
                                 ![o].allowedUsers = defaultQuotaUpdateForPlan(request.requestedPlan)]
  BY <1>2, <1>3 DEF reviewUpgradeWrites
<1>5. org = [p \in Organizations |-> org[p]] /\ \A p \in Organizations : IsOrganization(org[p])
  BY DEF IInv, RowsInOrder
<1>6. org' = [org EXCEPT ![o] = row]
  BY <1>4, <1>5
<1>7. IsOrganization(row)
  <2>1. CASE req[r].action = "REJECT"
    BY <1>5, <2>1
  <2>2. CASE req[r].action # "REJECT"
    <3>1. IsOrganization(org[o])
      BY <1>5
    <3>2. row = [f \in DOMAIN Absent |-> row[f]]
      BY <2>2, <3>1 DEF IsOrganization
    <3>3. /\ row.subscriptionPlan = request.requestedPlan /\ row.billingStatus = "ACTIVE"
          /\ row.allowedUsers = defaultQuotaUpdateForPlan(request.requestedPlan)
      BY <2>2, <3>1 DEF IsOrganization, Absent
    <3>4. /\ row.status = org[o].status /\ row.contact = org[o].contact
          /\ row.address = org[o].address /\ row.state = org[o].state /\ row.lga = org[o].lga
          /\ row.country = org[o].country /\ row.profileData = org[o].profileData
          /\ row.enabledModules = org[o].enabledModules
      BY <2>2, <3>1 DEF IsOrganization, Absent
    <3> HIDE DEF row
    <3>5. row.subscriptionPlan \in Plans /\ row.allowedUsers \in Nat \cup {None}
      BY <1>2, <3>3, PlanQuota DEF IsUpgrade
    <3>6. row.billingStatus = "ACTIVE"
      BY <3>3
    <3> QED BY <3>1, <3>2, <3>4, <3>5, <3>6 DEF IsOrganization
  <2> QED BY <2>1, <2>2
<1> HIDE DEF row
<1>8. /\ upgrade' \in Seq(Range(upgrade')) /\ DOMAIN upgrade' = DOMAIN upgrade
      /\ \A i \in DOMAIN upgrade : upgrade'[i] = IF i = id THEN [request EXCEPT !.status = outcome]
                                                 ELSE upgrade[i]
  <2>1. upgrade = [i \in 1..Len(upgrade) |-> upgrade[i]] /\ Len(upgrade) \in Nat
    BY DEF IInv, RowsInOrder
  <2> DEFINE next == [request EXCEPT !.status = outcome]
  <2> HIDE DEF next, id, request
  <2>2. upgrade' = [upgrade EXCEPT ![id] = next]
    BY <1>4 DEF next, request
  <2>3. /\ upgrade' = [i \in 1..Len(upgrade) |-> upgrade'[i]] /\ DOMAIN upgrade' = DOMAIN upgrade
        /\ \A i \in DOMAIN upgrade : upgrade'[i] = IF i = id THEN next ELSE upgrade[i]
    BY <2>1, <2>2
  <2>4. upgrade' \in Seq(Range(upgrade'))
    BY <2>1, <2>3 DEF Range
  <2> QED BY <2>3, <2>4 DEF next
<1>9. /\ IsUpgrade([request EXCEPT !.status = outcome])
      /\ [request EXCEPT !.status = outcome].organizationId = request.organizationId
      /\ [request EXCEPT !.status = outcome].status # "PENDING"
  BY <1>2 DEF IsUpgrade
<1>10. RowsInOrder'
  <2>1. \A i \in DOMAIN upgrade' : IsUpgrade(upgrade'[i])
    BY <1>8, <1>9 DEF IInv, RowsInOrder
  <2>2. (org = [p \in Organizations |-> org[p]])' /\ \A p \in Organizations : IsOrganization(org'[p])
    BY <1>5, <1>6, <1>7
  <2> QED BY <1>4, <1>8, <2>1, <2>2 DEF IInv, RowsInOrder, IsProvider
<1>11. UpgradesKept /\ OthersKept(o)
  BY <1>4, <1>5, <1>6, <1>8, <1>9 DEF UpgradesKept, OthersKept
<1>12. \A p \in Organizations : Pending(p)' \subseteq Pending(p)
  BY <1>8, <1>9 DEF Pending
<1>13. IInv'
  BY <1>4, <1>10, <1>11, <1>12, WroteLeaves, Collect
<1> QED BY <1>3, <1>4, <1>13

-----------------------------------------------------------------------------
(* One lemma per action: profiles, policies and capabilities.              *)

LEMMA ConfigureKeeps ==
  ASSUME IInv, NEW r \in Requests, NEW o \in Organizations, NEW user, NEW dto, NEW keeps,
         updateServiceConfiguration(r, o, user, dto, keeps)
  PROVE  IInv'
<1> DEFINE old == org[o].profileData
           new == [old EXCEPT !.configuration = mergeServiceConfiguration(
                      Overlay(old.configuration, dto, keeps), org[o].enabledModules)]
           job == [op |-> "configure", target |-> o, profileData |-> new]
<1>1. Start(r, "configure", job)
  BY DEF updateServiceConfiguration
<1>2. IsProfile(old)
  BY DEF IInv, RowsInOrder, IsOrganization
<1>3. IsProfile(new) /\ KeepsAllBut("configuration", old, new)
  BY <1>2 DEF IsProfile, KeepsAllBut, EmptyProfile
<1>4. job.op = "configure" /\ job.target = o /\ job.profileData = new
  OBVIOUS
<1> HIDE DEF job, new
<1>5. JobInOrder(job)
  BY <1>3, <1>4 DEF JobInOrder, IsConfiguring
<1>6. IsFresh(job, org[o], users[o])
  BY <1>3, <1>4 DEF IsFresh
<1> QED BY <1>1, <1>4, <1>5, <1>6, StartKeeps

LEMMA PolicyKeeps ==
  ASSUME IInv, NEW r \in Requests, NEW o \in Organizations \cup {Platform},
         NEW category \in Categories, NEW policy \in Policies,
         setCategoryCompletionPolicy(r, o, category, policy)
  PROVE  IInv'
<1>1. CASE o = Platform
  <2> DEFINE record == [policies EXCEPT ![category] = policy]
             job == [op |-> "platformPolicy", target |-> Platform, category |-> category,
                     policy |-> policy, policies |-> record]
  <2>1. Start(r, "policy", job)
    BY <1>1 DEF setCategoryCompletionPolicy
  <2>2. ArePolicies(record) /\ record[category] = policy
    BY DEF IInv, RowsInOrder, ArePolicies
  <2>3. /\ job.op = "platformPolicy" /\ job.category = category
        /\ job.policy = policy /\ job.policies = record
    OBVIOUS
  <2> HIDE DEF job, record
  <2>4. JobInOrder(job)
    BY <2>2, <2>3 DEF JobInOrder, IsPlatformPolicy, Stores
  <2>5. \A row, count : IsFresh(job, row, count)
    BY <2>3 DEF IsFresh
  <2> QED BY <2>1, <2>3, <2>4, <2>5, StartKeeps
<1>2. CASE o # Platform
  <2> DEFINE old == org[o].profileData
             new == [old EXCEPT !.policies[category] = policy]
             job == [op |-> "policy", target |-> o, category |-> category, policy |-> policy,
                     profileData |-> new]
  <2>1. Start(r, "policy", job) /\ o \in Organizations
    BY <1>2 DEF setCategoryCompletionPolicy
  <2>2. IsProfile(old)
    BY <2>1 DEF IInv, RowsInOrder, IsOrganization
  <2>3. /\ new = [f \in DOMAIN EmptyProfile |-> new[f]]
        /\ new.policies = [old.policies EXCEPT ![category] = policy]
        /\ KeepsAllBut("policies", old, new)
    BY <2>2 DEF IsProfile, KeepsAllBut, EmptyProfile
  <2>4. /\ old.policies \in [Categories -> Policies \cup {None}]
        /\ new.policies \in [Categories -> Policies \cup {None}]
        /\ new.policies[category] = policy
        /\ \A c \in Categories \ {category} : new.policies[c] = old.policies[c]
    BY <2>2, <2>3 DEF IsProfile
  <2>5. /\ job.op = "policy" /\ job.target = o /\ job.category = category
        /\ job.policy = policy /\ job.profileData = new
    OBVIOUS
  <2> HIDE DEF job, new
  <2>6. JobInOrder(job)
    BY <2>1, <2>3, <2>4, <2>5 DEF JobInOrder, IsPolicy, IsProfile, Stores, ArePolicies
  <2>7. IsFresh(job, org[o], users[o])
    BY <2>3, <2>4, <2>5 DEF IsFresh, KeepsOtherPolicies
  <2> QED BY <2>1, <2>5, <2>6, <2>7, StartKeeps
<1> QED BY <1>1, <1>2

\* Who writes a profile.
LEMMA ProfileDataWrittenKeeps ==
  ASSUME IInv, NEW r \in Requests, profileDataWritten(r)
  PROVE  /\ IInv' /\ Wrote(r, req[r].target) /\ req[r].target \in Organizations
         /\ IsConfiguring(req[r]) \/ IsPolicy(req[r])
<1>1. IsConfiguring(req[r]) \/ IsPolicy(req[r])
  BY DEF IInv, RequestsInOrder, JobInOrder, profileDataWritten, Idle, IsUpdate, IsRequest,
         IsReview, IsPlatformPolicy, IsSaving
<1>2. IsProfile(req[r].profileData) /\ req[r].target \in Organizations
  BY <1>1 DEF IsConfiguring, IsPolicy
<1>3. PICK o \in Organizations : o = req[r].target
  BY <1>2
<1> DEFINE row == [org[o] EXCEPT !.profileData = req[r].profileData]
<1>4. IsOrganization(org[o])
  BY DEF IInv, RowsInOrder
<1>5. IsOrganization(row)
  <2>1. row = [f \in DOMAIN Absent |-> row[f]]
    BY <1>4 DEF IsOrganization
  <2>2. row.profileData = req[r].profileData
    BY <1>4 DEF IsOrganization, Absent
  <2>3. /\ row.subscriptionPlan = org[o].subscriptionPlan /\ row.billingStatus = org[o].billingStatus
        /\ row.allowedUsers = org[o].allowedUsers /\ row.contact = org[o].contact
        /\ row.address = org[o].address /\ row.state = org[o].state /\ row.lga = org[o].lga
        /\ row.country = org[o].country /\ row.status = org[o].status
        /\ row.enabledModules = org[o].enabledModules
    BY <1>4 DEF IsOrganization, Absent
  <2> HIDE DEF row
  <2> QED BY <1>2, <1>4, <2>1, <2>2, <2>3 DEF IsOrganization
<1>6. /\ org' = [org EXCEPT ![o] = row] /\ Wrote(r, o)
      /\ UNCHANGED <<zone, provider, upgrade, users, policies>>
  BY <1>3 DEF profileDataWritten
<1> HIDE DEF row
<1>7. /\ RowsInOrder' /\ OthersKept(o) /\ UpgradesKept
      /\ \A p \in Organizations : Pending(p)' \subseteq Pending(p)
  BY <1>5, <1>6, OrganizationWritten DEF IInv
<1>8. IInv'
  BY <1>6, <1>7, WroteLeaves, Collect
<1> QED BY <1>1, <1>3, <1>6, <1>8

LEMMA PlatformSettingWrittenKeeps ==
  ASSUME IInv, NEW r \in Requests, platformSettingWritten(r)
  PROVE  IInv' /\ Wrote(r, Platform) /\ IsPlatformPolicy(req[r])
<1>1. IsPlatformPolicy(req[r])
  BY DEF IInv, RequestsInOrder, JobInOrder, platformSettingWritten, Idle, IsUpdate, IsRequest,
         IsReview, IsConfiguring, IsPolicy, IsSaving
<1>2. /\ policies' = req[r].policies /\ Wrote(r, Platform)
      /\ UNCHANGED <<org, zone, provider, upgrade, users>>
  BY DEF platformSettingWritten
<1>3. RowsInOrder'
  BY <1>1, <1>2 DEF IInv, RowsInOrder, IsPlatformPolicy, Stores, ArePolicies, IsProvider, IsUpgrade
<1>4. OthersKept(Platform) /\ UpgradesKept /\ \A p \in Organizations : Pending(p)' \subseteq Pending(p)
  BY <1>2 DEF OthersKept, UpgradesKept, Pending
<1>5. IInv'
  BY <1>2, <1>3, <1>4, WroteLeaves, Collect
<1> QED BY <1>1, <1>2, <1>5

\* Saving is only of capabilities that leave the unassignable one alone.
LEMMA SavingKeeps ==
  ASSUME IInv, NEW r \in Requests, NEW p \in Providers, NEW user, NEW next,
         Saving(r, p, user, next), IsAssignment(next)
  PROVE  IInv'
<1> DEFINE job == [op |-> "capabilities", target |-> p, capabilities |-> next]
<1>1. Start(r, "capabilities", job)
  BY DEF Saving
<1>2. job.op = "capabilities" /\ job.target = p /\ job.capabilities = next
  OBVIOUS
<1> HIDE DEF job
<1>3. JobInOrder(job)
  BY <1>2 DEF JobInOrder, IsSaving
<1>4. \A row, count : IsFresh(job, row, count)
  BY <1>2 DEF IsFresh
<1> QED BY <1>1, <1>2, <1>3, <1>4, StartKeeps

LEMMA ProvidersWritten ==
  ASSUME RowsInOrder, NEW p \in Providers, NEW row, IsProvider(row),
         provider' = [provider EXCEPT ![p] = row], UNCHANGED <<org, zone, upgrade, users, policies>>,
         NEW target
  PROVE  /\ RowsInOrder' /\ OthersKept(target) /\ UpgradesKept
         /\ \A o \in Organizations : Pending(o)' \subseteq Pending(o)
<1>1. RowsInOrder'
  <2>1. \A q \in Providers : provider'[q] = IF q = p THEN row ELSE provider[q]
    BY DEF RowsInOrder
  <2>2. (provider = [q \in Providers |-> provider[q]])' /\ \A q \in Providers : IsProvider(provider'[q])
    BY <2>1 DEF RowsInOrder
  <2> QED BY <2>2 DEF RowsInOrder, IsUpgrade
<1>2. OthersKept(target) /\ UpgradesKept /\ \A o \in Organizations : Pending(o)' \subseteq Pending(o)
  BY DEF OthersKept, UpgradesKept, Pending
<1> QED BY <1>1, <1>2

LEMMA CapabilityStepsKeep ==
  ASSUME IInv, NEW r \in Requests, NEW p \in Providers, NEW user,
         \/ \E dto \in workload.assignments : assignProviderCapabilities(r, p, user, dto.ids, dto.status)
         \/ \E id \in Capabilities : \/ removeProviderCapability(r, p, user, id)
                                     \/ deactivateProviderCapability(r, p, user, id)
  PROVE  IInv' /\ \E next : Saving(r, p, user, next) /\ IsAssignment(next)
<1>1. IsAssignment(provider[p].capabilities)
  BY DEF IInv, RowsInOrder, IsProvider
<1>2. "plumbing_water" \in Capabilities /\ "plumbing_water" \notin getProviderCapabilities
  BY DEF Capabilities, getProviderCapabilities
<1> DEFINE old == provider[p].capabilities
<1>3. ASSUME NEW dto \in workload.assignments,
             assignProviderCapabilities(r, p, user, dto.ids, dto.status)
      PROVE  \E next : Saving(r, p, user, next) /\ IsAssignment(next)
  <2> DEFINE next == [id \in Capabilities |-> IF id \in dto.ids \cap getProviderCapabilities
                                              THEN dto.status ELSE old[id]]
  <2>1. Saving(r, p, user, next)
    BY <1>3 DEF assignProviderCapabilities
  <2>2. dto.status \in {"ACTIVE", "INACTIVE", "PENDING"}
    BY GivenInputs DEF IInv
  <2>3. IsAssignment(next)
    BY <1>1, <1>2, <2>2 DEF IsAssignment
  <2> HIDE DEF next
  <2> QED BY <2>1, <2>3
<1>4. ASSUME NEW id \in Capabilities, removeProviderCapability(r, p, user, id)
      PROVE  \E next : Saving(r, p, user, next) /\ IsAssignment(next)
  <2> DEFINE next == [old EXCEPT ![id] = None]
  <2>1. Saving(r, p, user, next)
    BY <1>4 DEF removeProviderCapability
  <2>2. IsAssignment(next)
    BY <1>1, <1>2 DEF IsAssignment
  <2> HIDE DEF next
  <2> QED BY <2>1, <2>2
<1>5. ASSUME NEW id \in Capabilities, deactivateProviderCapability(r, p, user, id)
      PROVE  \E next : Saving(r, p, user, next) /\ IsAssignment(next)
  <2> DEFINE next == [old EXCEPT ![id] = IF @ = None THEN None ELSE "INACTIVE"]
  <2>1. Saving(r, p, user, next)
    BY <1>5 DEF deactivateProviderCapability
  <2>2. IsAssignment(next)
    BY <1>1, <1>2 DEF IsAssignment
  <2> HIDE DEF next
  <2> QED BY <2>1, <2>2
<1>6. \E next : Saving(r, p, user, next) /\ IsAssignment(next)
  BY <1>3, <1>4, <1>5
<1> QED BY <1>6, SavingKeeps

LEMMA SaveCapabilitiesKeeps ==
  ASSUME IInv, NEW r \in Requests, saveProviderCapabilities(r)
  PROVE  IInv' /\ Wrote(r, req[r].target)
<1>1. IsSaving(req[r])
  BY DEF IInv, RequestsInOrder, JobInOrder, saveProviderCapabilities, Idle, IsUpdate, IsRequest,
         IsReview, IsConfiguring, IsPolicy, IsPlatformPolicy
<1>2. PICK p \in Providers : p = req[r].target
  BY <1>1 DEF IsSaving
<1> DEFINE row == [provider[p] EXCEPT !.capabilities = req[r].capabilities]
<1>3. IsProvider(row)
  <2>1. IsProvider(provider[p]) /\ IsAssignment(req[r].capabilities)
    BY <1>1 DEF IsSaving, IInv, RowsInOrder
  <2> DEFINE next == req[r].capabilities
  <2> HIDE DEF next
  <2>2. row = [organizationId |-> provider[p].organizationId, links |-> provider[p].links,
               categories |-> provider[p].categories, active |-> provider[p].active,
               capabilities |-> next]
    BY <2>1 DEF IsProvider, next
  <2> QED BY <2>1, <2>2 DEF IsProvider, next
<1>4. /\ provider' = [provider EXCEPT ![p] = row] /\ Wrote(r, p)
      /\ UNCHANGED <<org, zone, upgrade, users, policies>>
  BY <1>2 DEF saveProviderCapabilities
<1> HIDE DEF row
<1>5. /\ RowsInOrder' /\ OthersKept(p) /\ UpgradesKept
      /\ \A o \in Organizations : Pending(o)' \subseteq Pending(o)
  BY <1>3, <1>4, ProvidersWritten DEF IInv
<1>6. IInv'
  BY <1>4, <1>5, WroteLeaves, Collect
<1> QED BY <1>2, <1>4, <1>6

LEMMA ProviderSuspendedKeeps ==
  ASSUME IInv, NEW p \in Providers, ProviderSuspended(p)
  PROVE  IInv'
<1> DEFINE row == [provider[p] EXCEPT !.active = ~provider[p].active]
<1>1. IsProvider(row)
  <2>1. IsProvider(provider[p])
    BY DEF IInv, RowsInOrder
  <2> QED BY <2>1 DEF IsProvider
<1>2. /\ provider' = [provider EXCEPT ![p] = row] /\ Call("suspend", p)
      /\ UNCHANGED <<org, zone, upgrade, users, policies>>
  BY DEF ProviderSuspended
<1> HIDE DEF row
<1>3. /\ RowsInOrder' /\ OthersKept(p) /\ UpgradesKept
      /\ \A o \in Organizations : Pending(o)' \subseteq Pending(o)
  BY <1>1, <1>2, ProvidersWritten DEF IInv
<1> QED BY <1>2, <1>3, CallLeaves, Collect

-----------------------------------------------------------------------------
(* Every step.                                                             *)

LEMMA InitInOrder == Init => IInv
<1> SUFFICES ASSUME Init PROVE IInv
  OBVIOUS
<1>1. org = [o \in Organizations |-> org[o]] /\ \A o \in Organizations : IsOrganization(org[o])
  BY GivenInputs DEF Init
<1>2. users \in [Organizations -> 0..MaxUsers]
  BY PlansAreBounded DEF Init
<1>3. /\ zone \in Seq(Range(zone)) /\ \A i \in DOMAIN zone : IsZone(zone[i])
      /\ upgrade \in Seq(Range(upgrade)) /\ \A i \in DOMAIN upgrade : IsUpgrade(upgrade[i])
  BY DEF Init
<1>4. provider = [p \in Providers |-> provider[p]] /\ \A p \in Providers : IsProvider(provider[p])
  <2>1. IsAssignment([id \in Capabilities |-> None])
    BY DEF IsAssignment, Capabilities
  <2> QED BY <2>1 DEF Init, IsProvider
<1>5. ArePolicies(policies)
  BY DEF Init, ArePolicies
<1>6. RequestsInOrder
  BY DEF Init, RequestsInOrder, JobInOrder
<1>7. ChecksHold
  BY IdleIsFresh DEF Init, ChecksHold
<1>8. PlacesHeld
  <2> SUFFICES ASSUME NEW o \in Organizations
               PROVE  Cardinality(Pending(o)) + Cardinality(Requesting(o)) <= Cardinality(Requests)
    BY DEF PlacesHeld
  <2>1. Pending(o) = {} /\ Requesting(o) = {}
    BY DEF Init, Pending, Requesting, Idle
  <2>2. Cardinality(Pending(o)) = 0 /\ Cardinality(Requesting(o)) = 0
    BY <2>1, FS_EmptySet
  <2> QED BY <2>2, RequestsFinite, FS_CardinalityType
<1> QED BY <1>1, <1>2, <1>3, <1>4, <1>5, <1>6, <1>7, <1>8 DEF IInv, RowsInOrder, Init

LEMMA StutterKeeps == ASSUME IInv, UNCHANGED vars PROVE IInv'
<1>1. RowsInOrder'
  BY DEF vars, IInv, RowsInOrder, IsUpgrade, IsProvider
<1>2. RequestsInOrder'
  BY JobsKept DEF vars, IInv, RequestsInOrder, UpgradesKept
<1>3. ChecksHold'
  BY DEF vars, IInv, ChecksHold, IsFresh, Downgrades, Fits, KeepsAllBut, KeepsOtherPolicies
<1>4. PlacesHeld'
  BY DEF vars, IInv, PlacesHeld, Pending, Requesting
<1> QED BY <1>1, <1>2, <1>3, <1>4 DEF IInv, vars

\* A step is the start of a handler, its end, or a call that only a creation of the organization
\* lets touch a profile.
Starts(r) == req[r] = Idle /\ (\A q \in Requests \ {r} : req'[q] = req[q]) /\ UNCHANGED rows

Ends(r) ==
  \/ updateWrites(r) \/ requestUpgradeInserts(r) \/ reviewUpgradeWrites(r)
  \/ profileDataWritten(r) \/ platformSettingWritten(r) \/ saveProviderCapabilities(r)

Calls ==
  /\ req' = req
  /\ \A o \in Organizations :
       org[o].status = "ABSENT" \/ org'[o].profileData = org[o].profileData

LEMMA StartStarts ==
  ASSUME IInv, NEW r \in Requests, NEW op, NEW job, Start(r, op, job)
  PROVE  Starts(r)
BY DEF Start, Starts, IInv, RequestsInOrder

\* A column other than the profile leaves the profile.
LEMMA ColumnsLeaveProfile ==
  ASSUME IInv, NEW o \in Organizations,
         \/ \E status \in {"ACTIVE", "SUSPENDED"} : setStatus(o, status)
         \/ \E plan \in {"STARTER", "PROFESSIONAL"} : fulfillPayment(o, plan)
  PROVE  Calls
<1>1. \A p \in Organizations : IsOrganization(org[p])
  BY DEF IInv, RowsInOrder
<1>2. ASSUME NEW status \in {"ACTIVE", "SUSPENDED"}, setStatus(o, status)
      PROVE  \A p \in Organizations : org'[p].profileData = org[p].profileData
  <2>1. /\ org'[o] = [org[o] EXCEPT !.status = status]
        /\ \A p \in Organizations \ {o} : org'[p] = org[p]
    BY <1>2 DEF setStatus, IInv, RowsInOrder
  <2>2. [org[o] EXCEPT !.status = status].profileData = org[o].profileData
    BY <1>1 DEF IsOrganization, Absent
  <2> QED BY <2>1, <2>2
<1>3. ASSUME NEW plan \in {"STARTER", "PROFESSIONAL"}, fulfillPayment(o, plan)
      PROVE  \A p \in Organizations : org'[p].profileData = org[p].profileData
  <2> DEFINE modules == [shape |-> "modules", keys |-> {"maintenance"}]
             quota == defaultQuotaUpdateForPlan(plan)
             row == [org[o] EXCEPT !.subscriptionPlan = plan, !.billingStatus = "ACTIVE",
                                   !.allowedUsers = quota, !.enabledModules = modules]
  <2>1. org' = [org EXCEPT ![o] = row]
    BY <1>3 DEF fulfillPayment
  <2> HIDE DEF modules, quota
  <2>2. row.profileData = org[o].profileData
    <3>1. "profileData" \in DOMAIN org[o]
      <4>1. org[o] = [f \in DOMAIN Absent |-> org[o][f]]
        BY <1>1 DEF IsOrganization
      <4>2. "profileData" \in DOMAIN Absent
        BY DEF Absent
      <4> QED BY <4>1, <4>2
    <3> QED BY ONLY <3>1 DEF row
  <2> HIDE DEF row
  <2> QED BY <2>1, <2>2 DEF IInv, RowsInOrder
<1>4. req' = req
  BY DEF setStatus, fulfillPayment, Call
<1> QED BY <1>2, <1>3, <1>4 DEF Calls

LEMMA OrganizationStepsKeep ==
  ASSUME IInv, OrganizationSteps
  PROVE  IInv' /\ ((\E r \in Requests : Starts(r) \/ Ends(r)) \/ Calls)
<1>1. ASSUME NEW o \in Organizations, NEW dto \in workload.patches, create(o, dto)
      PROVE  IInv' /\ Calls
  <2>1. req' = req /\ org[o].status = "ABSENT" /\ \A p \in Organizations \ {o} : org'[p] = org[p]
    BY <1>1 DEF create, Call, IInv, RowsInOrder
  <2>2. Calls
    BY <2>1 DEF Calls
  <2> QED BY <1>1, <2>2, CreateKeeps
<1>2. ASSUME NEW o \in Organizations, NEW status \in {"ACTIVE", "SUSPENDED"}, setStatus(o, status)
      PROVE  IInv' /\ Calls
  BY <1>2, SetStatusKeeps, ColumnsLeaveProfile
<1>3. ASSUME NEW o \in Organizations, NEW plan \in {"STARTER", "PROFESSIONAL"}, fulfillPayment(o, plan)
      PROVE  IInv' /\ Calls
  BY <1>3, FulfillPaymentKeeps, ColumnsLeaveProfile
<1>4. ASSUME NEW o \in Organizations, UserJoins(o)
      PROVE  IInv' /\ Calls
  <2>1. Calls
    BY <1>4 DEF UserJoins, Call, Calls
  <2> QED BY <1>4, <2>1, UserJoinsKeeps
<1>5. ASSUME NEW r \in Requests, NEW o \in Organizations, NEW user \in Users,
             NEW dto \in workload.patches, update(r, o, user, dto)
      PROVE  IInv' /\ Starts(r)
  BY <1>5, UpdateKeeps, StartStarts DEF update
<1>6. ASSUME NEW r \in Requests, updateWrites(r)
      PROVE  IInv' /\ Ends(r)
  BY <1>6, UpdateWritesKeeps DEF Ends
<1> QED BY <1>1, <1>2, <1>3, <1>4, <1>5, <1>6 DEF OrganizationSteps

LEMMA UpgradeStepsKeep ==
  ASSUME IInv, UpgradeSteps
  PROVE  IInv' /\ \E r \in Requests : Starts(r) \/ Ends(r)
<1>1. PICK r \in Requests :
        \/ \E o \in Organizations, user \in Users, plan \in {"STARTER", "PROFESSIONAL"} :
             requestUpgrade(r, o, user, plan)
        \/ requestUpgradeInserts(r)
        \/ \E i \in DOMAIN upgrade, action \in {"APPROVE", "REJECT"} : reviewUpgradeRequest(r, i, action)
        \/ reviewUpgradeWrites(r)
  BY DEF UpgradeSteps
<1>2. ASSUME NEW o \in Organizations, NEW user \in Users, NEW plan \in {"STARTER", "PROFESSIONAL"},
             requestUpgrade(r, o, user, plan)
      PROVE  IInv' /\ Starts(r)
  BY <1>2, RequestUpgradeKeeps, StartStarts DEF requestUpgrade
<1>3. ASSUME NEW i \in DOMAIN upgrade, NEW action \in {"APPROVE", "REJECT"},
             reviewUpgradeRequest(r, i, action)
      PROVE  IInv' /\ Starts(r)
  BY <1>3, ReviewUpgradeRequestKeeps, StartStarts DEF reviewUpgradeRequest
<1>4. requestUpgradeInserts(r) \/ reviewUpgradeWrites(r) => IInv' /\ Ends(r)
  BY RequestUpgradeInsertsKeeps, ReviewUpgradeWritesKeeps DEF Ends
<1> QED BY <1>1, <1>2, <1>3, <1>4

LEMMA ProfileStepsKeep ==
  ASSUME IInv, ProfileSteps
  PROVE  IInv' /\ \E r \in Requests : Starts(r) \/ Ends(r)
<1>1. PICK r \in Requests :
        \/ \E o \in Organizations, user \in Users, dto \in workload.configurations, keeps \in BOOLEAN :
             updateServiceConfiguration(r, o, user, dto, keeps)
        \/ \E o \in Organizations \cup {Platform}, c \in Categories, policy \in Policies :
             setCategoryCompletionPolicy(r, o, c, policy)
        \/ profileDataWritten(r)
        \/ platformSettingWritten(r)
  BY DEF ProfileSteps
<1>2. ASSUME NEW o \in Organizations, NEW user \in Users, NEW dto \in workload.configurations,
             NEW keeps \in BOOLEAN, updateServiceConfiguration(r, o, user, dto, keeps)
      PROVE  IInv' /\ Starts(r)
  BY <1>2, ConfigureKeeps, StartStarts DEF updateServiceConfiguration
<1>3. ASSUME NEW o \in Organizations \cup {Platform}, NEW c \in Categories, NEW policy \in Policies,
             setCategoryCompletionPolicy(r, o, c, policy)
      PROVE  IInv' /\ Starts(r)
  BY <1>3, PolicyKeeps, StartStarts DEF setCategoryCompletionPolicy
<1>4. profileDataWritten(r) \/ platformSettingWritten(r) => IInv' /\ Ends(r)
  BY ProfileDataWrittenKeeps, PlatformSettingWrittenKeeps DEF Ends
<1> QED BY <1>1, <1>2, <1>3, <1>4

\* The inductive invariant is one, and a step is one of three things.
LEMMA EveryStep ==
  ASSUME IInv, [Next]_vars
  PROVE  IInv' /\ ((\E r \in Requests : Starts(r) \/ Ends(r)) \/ Calls)
<1>1. CASE OrganizationSteps
  BY <1>1, OrganizationStepsKeep
<1>2. CASE ZoneSteps
  <2>1. Calls
    BY <1>2 DEF ZoneSteps, createJurisdictionZone, updateJurisdictionZone, Call, Calls
  <2> QED BY <1>2, <2>1, ZoneStepsKeep
<1>3. CASE UpgradeSteps
  BY <1>3, UpgradeStepsKeep
<1>4. CASE ProfileSteps
  BY <1>4, ProfileStepsKeep
<1>5. CASE CapabilitySteps
  <2>1. ASSUME NEW r \in Requests, NEW p \in Providers, NEW user \in Users,
               \/ \E dto \in workload.assignments :
                    assignProviderCapabilities(r, p, user, dto.ids, dto.status)
               \/ \E id \in Capabilities : \/ removeProviderCapability(r, p, user, id)
                                           \/ deactivateProviderCapability(r, p, user, id)
        PROVE  IInv' /\ Starts(r)
    BY <2>1, CapabilityStepsKeep, StartStarts DEF Saving
  <2>2. ASSUME NEW r \in Requests, saveProviderCapabilities(r)
        PROVE  IInv' /\ Ends(r)
    BY <2>2, SaveCapabilitiesKeeps DEF Ends
  <2>3. ASSUME NEW p \in Providers, ProviderSuspended(p)
        PROVE  IInv' /\ Calls
    <3>1. Calls
      BY <2>3 DEF ProviderSuspended, Call, Calls
    <3> QED BY <2>3, <3>1, ProviderSuspendedKeeps
  <2> QED BY <1>5, <2>1, <2>2, <2>3 DEF CapabilitySteps
<1>6. CASE UNCHANGED vars
  <2>1. Calls
    BY <1>6 DEF vars, Calls
  <2> QED BY <1>6, <2>1, StutterKeeps
<1> QED BY <1>1, <1>2, <1>3, <1>4, <1>5, <1>6 DEF Next

LEMMA IInvAlways == Spec => []IInv
<1>1. IInv /\ [Next]_vars => IInv'
  BY EveryStep
<1> QED BY <1>1, InitInOrder, PTL DEF Spec

-----------------------------------------------------------------------------
(* Who finishes.                                                           *)

\* A handler that finishes has written.
LEMMA WhoFinishes ==
  ASSUME IInv, [Next]_vars, NEW r \in Requests, Finishes(r)
  PROVE  Ends(r)
<1>1. req = [q \in Requests |-> req[q]]
  BY DEF IInv, RequestsInOrder
<1>2. ASSUME NEW q \in Requests, Starts(q)
      PROVE  FALSE
  BY <1>2 DEF Starts, Finishes
<1>3. ASSUME NEW q \in Requests, Ends(q), q # r
      PROVE  FALSE
  <2>1. \E target : Wrote(q, target)
    BY <1>3, UpdateWritesKeeps, RequestUpgradeInsertsKeeps, ReviewUpgradeWritesKeeps,
       ProfileDataWrittenKeeps, PlatformSettingWrittenKeeps, SaveCapabilitiesKeeps DEF Ends
  <2>2. req' = [req EXCEPT ![q] = Idle]
    BY <2>1 DEF Wrote
  <2> QED BY <1>1, <1>3, <2>2 DEF Finishes
<1>4. ~Calls
  BY DEF Calls, Finishes
<1> QED BY <1>2, <1>3, <1>4, EveryStep

-----------------------------------------------------------------------------
(* Plans.                                                                  *)

LEMMA RanksAreNumbers == ASSUME NEW plan PROVE planRank(plan) \in Nat
BY DEF planRank

UpgradeStep ==
  \A r \in Requests :
    Finishes(r) /\ req[r].op = "reviewUpgrade" =>
      LET o == req[r].target IN
      planRank(org'[o].subscriptionPlan) < planRank(org[o].subscriptionPlan) =>
        org[o].subscriptionPlan # upgrade[req[r].id].currentPlan

DowngradeStep ==
  \A r \in Requests :
    Finishes(r) /\ req[r].op = "update" =>
      LET o == req[r].target IN
      planRank(org'[o].subscriptionPlan) < planRank(org[o].subscriptionPlan) =>
        r \in stale \/ Within(users[o], defaultQuotaUpdateForPlan(org'[o].subscriptionPlan))

\* An approval sets the requested plan, which is not below the plan of the request.
LEMMA ApprovalStep == ASSUME IInv, [Next]_vars PROVE UpgradeStep
<1> SUFFICES ASSUME NEW r \in Requests, Finishes(r), req[r].op = "reviewUpgrade",
                    planRank(org'[req[r].target].subscriptionPlan)
                      < planRank(org[req[r].target].subscriptionPlan)
             PROVE  org[req[r].target].subscriptionPlan # upgrade[req[r].id].currentPlan
  BY DEF UpgradeStep
<1> DEFINE o == req[r].target
           request == upgrade[req[r].id]
<1>1. reviewUpgradeWrites(r)
  BY WhoFinishes DEF Ends, updateWrites, requestUpgradeInserts, profileDataWritten,
     platformSettingWritten, saveProviderCapabilities
<1>2. IsReview(req[r])
  BY DEF IInv, RequestsInOrder, JobInOrder, Idle, IsUpdate, IsRequest, IsConfiguring, IsPolicy,
         IsPlatformPolicy, IsSaving
<1>3. o = request.organizationId /\ IsUpgrade(request) /\ o \in Organizations
  BY <1>2 DEF IsReview, IInv, RowsInOrder, IsUpgrade
<1>4. org' = IF req[r].action = "REJECT" THEN org
             ELSE [org EXCEPT ![o].subscriptionPlan = request.requestedPlan,
                              ![o].billingStatus = "ACTIVE",
                              ![o].allowedUsers = defaultQuotaUpdateForPlan(request.requestedPlan)]
  BY <1>1, <1>3 DEF reviewUpgradeWrites
<1>5. org = [p \in Organizations |-> org[p]] /\ IsOrganization(org[o])
  BY <1>3 DEF IInv, RowsInOrder
<1>6. planRank(org'[o].subscriptionPlan) < planRank(org[o].subscriptionPlan)
  OBVIOUS
<1> HIDE DEF o, request
<1>7. CASE req[r].action = "REJECT"
  BY <1>4, <1>6, <1>7, RanksAreNumbers
<1>8. CASE req[r].action # "REJECT"
  <2>1. org'[o].subscriptionPlan = request.requestedPlan
    BY <1>3, <1>4, <1>5, <1>8 DEF IsOrganization, Absent
  <2>2. ~(planRank(request.requestedPlan) < planRank(request.currentPlan))
    BY <1>3 DEF IsUpgrade, isDowngrade
  <2>3. org[o].subscriptionPlan # request.currentPlan
    BY <1>6, <2>1, <2>2
  <2> QED BY <2>3 DEF o, request
<1> QED BY <1>7, <1>8

\* An update that was not overtaken sets a lower plan only as it checked.
LEMMA UpdateStep == ASSUME IInv, [Next]_vars PROVE DowngradeStep
<1> SUFFICES ASSUME NEW r \in Requests, Finishes(r), req[r].op = "update", r \notin stale,
                    planRank(org'[req[r].target].subscriptionPlan)
                      < planRank(org[req[r].target].subscriptionPlan)
             PROVE  Within(users[req[r].target],
                           defaultQuotaUpdateForPlan(org'[req[r].target].subscriptionPlan))
  BY DEF DowngradeStep
<1> DEFINE o == req[r].target
           data == req[r].data
<1>1. updateWrites(r)
  BY WhoFinishes DEF Ends, reviewUpgradeWrites, requestUpgradeInserts, profileDataWritten,
     platformSettingWritten, saveProviderCapabilities
<1>2. IsUpdate(req[r])
  BY DEF IInv, RequestsInOrder, JobInOrder, Idle, IsReview, IsRequest, IsConfiguring, IsPolicy,
         IsPlatformPolicy, IsSaving
<1>3. o \in Organizations /\ IsData(data) /\ IsOrganization(org[o])
  BY <1>2 DEF IsUpdate, IInv, RowsInOrder
<1>4. org'[o] = Patched(org[o], data)
  BY <1>1, <1>3 DEF updateWrites, IInv, RowsInOrder
<1>5. org'[o].subscriptionPlan = IF "subscriptionPlan" \in DOMAIN data THEN data.subscriptionPlan
                                 ELSE org[o].subscriptionPlan
  <2>1. "subscriptionPlan" \in DOMAIN Absent
    BY DEF Absent
  <2> QED BY <1>3, <1>4, <2>1, PatchedIsOrganization
<1>6. IsFresh(req[r], org[o], users[o])
  BY <1>3 DEF IInv, ChecksHold
<1>7. "subscriptionPlan" \in DOMAIN data
  BY <1>5, RanksAreNumbers
<1>8. isDowngrade(org[o].subscriptionPlan, data.subscriptionPlan)
  BY <1>5, <1>7 DEF isDowngrade
<1>9. Within(users[o], defaultQuotaUpdateForPlan(data.subscriptionPlan))
  BY <1>6, <1>7, <1>8 DEF IsFresh, Downgrades, Fits
<1> QED BY <1>5, <1>7, <1>9

-----------------------------------------------------------------------------
(* Profiles.                                                               *)

ProfileStep ==
  \A o \in Organizations :
    org'[o].profileData # org[o].profileData =>
      LET old == org[o].profileData  new == org'[o].profileData
          changed == {f \in DOMAIN old : new[f] # old[f]}
      IN \/ \E r \in Requests : /\ Finishes(r) /\ req[r].target = o
                                /\ r \in stale \/ req[r].op = "update"
         \/ org[o].status = "ABSENT"
         \/ changed = {"configuration"}
         \/ /\ changed = {"policies"}
            /\ Cardinality({c \in Categories : new.policies[c] # old.policies[c]}) = 1

\* Profiles that agree on every field but one, and are not the same, differ in that one.
LEMMA OneFieldDiffers ==
  ASSUME NEW field \in DOMAIN EmptyProfile, NEW old, NEW new, IsProfile(old), IsProfile(new),
         KeepsAllBut(field, old, new), new # old
  PROVE  {f \in DOMAIN old : new[f] # old[f]} = {field}
<1> DEFINE fields == DOMAIN EmptyProfile
<1> HIDE DEF fields
<1>1. /\ old = [f \in fields |-> old[f]] /\ new = [f \in fields |-> new[f]]
      /\ field \in fields /\ \A f \in fields \ {field} : new[f] = old[f]
  BY DEF IsProfile, KeepsAllBut, fields
<1>2. new[field] # old[field]
  BY <1>1
<1>3. DOMAIN old = fields
  BY <1>1
<1> QED BY <1>1, <1>2, <1>3

\* A handler that ends and is not an update writes over what it read, but for one field.
LEMMA ProfileEnds ==
  ASSUME IInv, [Next]_vars, NEW r \in Requests, Ends(r), NEW o \in Organizations,
         org'[o].profileData # org[o].profileData
  PROVE  LET old == org[o].profileData  new == org'[o].profileData
             changed == {f \in DOMAIN old : new[f] # old[f]}
         IN \/ Finishes(r) /\ req[r].target = o /\ (r \in stale \/ req[r].op = "update")
            \/ changed = {"configuration"}
            \/ /\ changed = {"policies"}
               /\ Cardinality({c \in Categories : new.policies[c] # old.policies[c]}) = 1
<1> DEFINE old == org[o].profileData
           new == org'[o].profileData
<1>1. /\ org = [p \in Organizations |-> org[p]] /\ \A p \in Organizations : IsOrganization(org[p])
      /\ req = [q \in Requests |-> req[q]]
  BY DEF IInv, RowsInOrder, RequestsInOrder
<1>2. ~requestUpgradeInserts(r) /\ ~platformSettingWritten(r) /\ ~saveProviderCapabilities(r)
  BY DEF requestUpgradeInserts, platformSettingWritten, saveProviderCapabilities
<1>3. ~reviewUpgradeWrites(r)
  <2> SUFFICES ASSUME reviewUpgradeWrites(r) PROVE FALSE
    OBVIOUS
  <2> DEFINE t == upgrade[req[r].id].organizationId
             plan == upgrade[req[r].id].requestedPlan
             quota == defaultQuotaUpdateForPlan(plan)
             row == [org[t] EXCEPT !.subscriptionPlan = plan, !.billingStatus = "ACTIVE",
                                   !.allowedUsers = quota]
  <2>1. org' = org \/ org' = [org EXCEPT ![t] = row]
    BY DEF reviewUpgradeWrites
  <2>2. t \in Organizations
    <3>1. IsReview(req[r])
      <4>1. req[r].op = "reviewUpgrade" /\ JobInOrder(req[r])
        BY DEF IInv, RequestsInOrder, reviewUpgradeWrites
      <4> QED BY <4>1 DEF JobInOrder, Idle, IsUpdate, IsRequest, IsConfiguring, IsPolicy,
                          IsPlatformPolicy, IsSaving
    <3> QED BY <3>1, ReviewUpgradeWritesKeeps DEF IsReview
  <2> HIDE DEF t, plan, quota
  <2>3. row.profileData = org[t].profileData
    <3>1. IsOrganization(org[t])
      BY <1>1, <2>2
    <3> QED BY <3>1 DEF IsOrganization, Absent
  <2> HIDE DEF row
  <2> QED BY <1>1, <2>1, <2>3
<1>4. CASE updateWrites(r)
  <2>1. Wrote(r, req[r].target) /\ req[r].target \in Organizations /\ req[r].op = "update"
    BY <1>4, UpdateWritesKeeps DEF updateWrites
  <2>2. req[r].target = o
    BY <1>1, <1>4, <2>1 DEF updateWrites
  <2>3. Finishes(r)
    BY <1>1, <2>1 DEF Wrote, Finishes, Idle
  <2> QED BY <2>1, <2>2, <2>3
<1>5. CASE profileDataWritten(r)
  <2>1. /\ Wrote(r, req[r].target) /\ req[r].target \in Organizations
        /\ IsConfiguring(req[r]) \/ IsPolicy(req[r])
    BY <1>5, ProfileDataWrittenKeeps
  <2>2. req[r].target = o
    BY <1>1, <1>5, <2>1 DEF profileDataWritten
  <2>3. Finishes(r)
    BY <1>1, <2>1 DEF Wrote, Finishes, Idle, IsConfiguring, IsPolicy
  <2>4. new = req[r].profileData
    <3>1. org' = [org EXCEPT ![o] = [org[o] EXCEPT !.profileData = req[r].profileData]]
      BY <1>5, <2>2 DEF profileDataWritten
    <3>2. "profileData" \in DOMAIN org[o]
      <4>1. org[o] = [f \in DOMAIN Absent |-> org[o][f]]
        BY <1>1 DEF IsOrganization
      <4> QED BY <4>1 DEF Absent
    <3>3. [org[o] EXCEPT !.profileData = req[r].profileData].profileData = req[r].profileData
      BY ONLY <3>2
    <3> QED BY <1>1, <3>1, <3>3
  <2>5. IsProfile(old) /\ IsProfile(new) /\ new # old
    BY <1>1, <2>1, <2>4 DEF IsOrganization, IsConfiguring, IsPolicy
  <2>6. r \notin stale => IsFresh(req[r], org[o], users[o])
    BY <2>2 DEF IInv, ChecksHold
  <2>7. ASSUME r \notin stale, IsConfiguring(req[r])
        PROVE  {f \in DOMAIN old : new[f] # old[f]} = {"configuration"}
    <3>1. KeepsAllBut("configuration", old, new) /\ "configuration" \in DOMAIN EmptyProfile
      BY <2>4, <2>6, <2>7 DEF IsFresh, IsConfiguring, EmptyProfile
    <3> HIDE DEF old, new
    <3> QED BY <2>5, <3>1, OneFieldDiffers
  <2>8. ASSUME r \notin stale, IsPolicy(req[r])
        PROVE  /\ {f \in DOMAIN old : new[f] # old[f]} = {"policies"}
               /\ Cardinality({c \in Categories : new.policies[c] # old.policies[c]}) = 1
    <3>1. /\ KeepsAllBut("policies", old, new) /\ "policies" \in DOMAIN EmptyProfile
          /\ KeepsOtherPolicies(req[r].category, old.policies, new.policies)
          /\ req[r].category \in Categories
      BY <2>4, <2>6, <2>8 DEF IsFresh, IsPolicy, EmptyProfile, Stores
    <3> HIDE DEF old, new
    <3>2. {f \in DOMAIN old : new[f] # old[f]} = {"policies"}
      BY <2>5, <3>1, OneFieldDiffers
    <3>3. new.policies # old.policies
      BY <3>2
    <3>4. /\ new.policies \in [Categories -> Policies \cup {None}]
          /\ old.policies \in [Categories -> Policies \cup {None}]
      BY <2>5 DEF IsProfile
    <3>5. {c \in Categories : new.policies[c] # old.policies[c]} = {req[r].category}
      BY <3>1, <3>3, <3>4 DEF KeepsOtherPolicies
    <3> QED BY <3>2, <3>5, FS_Singleton
  <2> QED BY <2>1, <2>2, <2>3, <2>7, <2>8
<1> QED BY <1>2, <1>3, <1>4, <1>5 DEF Ends

LEMMA ProfilesStep == ASSUME IInv, [Next]_vars PROVE ProfileStep
<1> SUFFICES ASSUME NEW o \in Organizations, org'[o].profileData # org[o].profileData,
                    org[o].status # "ABSENT"
             PROVE  LET old == org[o].profileData  new == org'[o].profileData
                        changed == {f \in DOMAIN old : new[f] # old[f]}
                    IN \/ \E r \in Requests : /\ Finishes(r) /\ req[r].target = o
                                              /\ r \in stale \/ req[r].op = "update"
                       \/ changed = {"configuration"}
                       \/ /\ changed = {"policies"}
                          /\ Cardinality({c \in Categories : new.policies[c] # old.policies[c]}) = 1
  BY DEF ProfileStep
<1>1. \E r \in Requests : Ends(r)
  BY EveryStep DEF Calls, Starts, rows
<1> QED BY <1>1, ProfileEnds

-----------------------------------------------------------------------------
(* Policies.                                                               *)

\* What is stored for a category governs it, or what is stored for a compatible one before it.
LEMMA StoredGoverns ==
  ASSUME NEW record, NEW c \in Categories, record[c] # None
  PROVE  \/ policyFromCategoryRecord(record, c) = record[c]
         \/ \E i, j \in DOMAIN PolicyKeys :
              /\ PolicyKeys[j] = c /\ i < j
              /\ record[PolicyKeys[i]] # None /\ categoriesCompatible(PolicyKeys[i], c)
<1> DEFINE hits == {i \in DOMAIN PolicyKeys : /\ record[PolicyKeys[i]] # None
                                             /\ categoriesCompatible(PolicyKeys[i], c)}
<1>1. PICK j \in DOMAIN PolicyKeys : PolicyKeys[j] = c
  BY DEF Categories, Range
<1>2. categoriesCompatible(c, c)
  BY DEF categoriesCompatible, Overlap
<1>3. j \in hits /\ hits \in SUBSET Nat
  BY <1>1, <1>2, KeysAreOrdered
<1>4. policyFromCategoryRecord(record, c) = IF hits = {} THEN None ELSE record[PolicyKeys[Min(hits)]]
  BY DEF policyFromCategoryRecord
<1>5. \A i \in hits : /\ i \in DOMAIN PolicyKeys /\ record[PolicyKeys[i]] # None
                      /\ categoriesCompatible(PolicyKeys[i], c)
  OBVIOUS
<1> HIDE DEF hits
<1>6. Min(hits) \in hits /\ Min(hits) <= j
  BY <1>3, LeastNumber
<1>7. CASE Min(hits) = j
  BY <1>1, <1>3, <1>4, <1>7
<1>8. CASE Min(hits) # j
  <2>1. Min(hits) < j
    BY <1>3, <1>6, <1>8
  <2> QED BY <1>1, <1>5, <1>6, <2>1
<1> QED BY <1>7, <1>8

PolicyStep ==
  \A r \in Requests, o \in Organizations, c \in Categories :
    LET job == req[r]
        own == job.op = "policy"
        stored == IF own THEN org'[o].profileData.policies ELSE policies'
    IN /\ Finishes(r) /\ job.op \in {"policy", "platformPolicy"} /\ job.category = c
       /\ own => job.target = o
       => \/ resolveCompletionPolicy(o, c)' = job.policy
          \/ \E i, j \in DOMAIN PolicyKeys :
               /\ PolicyKeys[j] = c /\ i < j
               /\ stored[PolicyKeys[i]] # None /\ categoriesCompatible(PolicyKeys[i], c)
          \/ ~own /\ completionPolicyFromCategoryMap(org[o].profileData, c) # None

\* A policy of the organization that governs is the one that is resolved, and without one, that of
\* the platform.
LEMMA Resolved ==
  ASSUME NEW o, NEW c
  PROVE  LET own == policyFromCategoryRecord(org'[o].profileData.policies, c)
             all == completionPolicyFromCategoryMap(org'[o].profileData, c)
             platform == policyFromCategoryRecord(policies', c)
         IN /\ own # None => resolveCompletionPolicy(o, c)' = own
            /\ all = None /\ platform # None => resolveCompletionPolicy(o, c)' = platform
BY DEF resolveCompletionPolicy, completionPolicyFromCategoryMap, completionPolicyFromPlatformCategory,
       OrElse

LEMMA PoliciesStep == ASSUME IInv, [Next]_vars PROVE PolicyStep
<1>1. ASSUME NEW r \in Requests, NEW o \in Organizations, NEW c \in Categories,
             Finishes(r), req[r].op = "policy", req[r].category = c, req[r].target = o
      PROVE  \/ resolveCompletionPolicy(o, c)' = req[r].policy
             \/ \E i, j \in DOMAIN PolicyKeys :
                  /\ PolicyKeys[j] = c /\ i < j
                  /\ org'[o].profileData.policies[PolicyKeys[i]] # None
                  /\ categoriesCompatible(PolicyKeys[i], c)
  <2> DEFINE stored == org'[o].profileData.policies
  <2>1. profileDataWritten(r)
    BY <1>1, WhoFinishes DEF Ends, reviewUpgradeWrites, requestUpgradeInserts, updateWrites,
       platformSettingWritten, saveProviderCapabilities
  <2>2. IsPolicy(req[r])
    BY <1>1, <2>1, ProfileDataWrittenKeeps DEF IsConfiguring
  <2>3. org'[o].profileData = req[r].profileData
    <3>1. org' = [org EXCEPT ![o] = [org[o] EXCEPT !.profileData = req[r].profileData]]
      BY <1>1, <2>1 DEF profileDataWritten
    <3>2. org = [p \in Organizations |-> org[p]] /\ IsOrganization(org[o])
      BY DEF IInv, RowsInOrder
    <3>3. [org[o] EXCEPT !.profileData = req[r].profileData].profileData = req[r].profileData
      BY <3>2 DEF IsOrganization, Absent
    <3> QED BY <3>1, <3>2, <3>3
  <2>4. stored[c] = req[r].policy /\ req[r].policy \in Policies
    BY <1>1, <2>2, <2>3 DEF IsPolicy, Stores
  <2>5. stored[c] # None
    BY <2>4, NoneIsNoValue
  <2>6. ASSUME policyFromCategoryRecord(stored, c) = stored[c]
        PROVE  resolveCompletionPolicy(o, c)' = req[r].policy
    BY <2>4, <2>5, <2>6, Resolved
  <2> HIDE DEF stored
  <2>7. \/ policyFromCategoryRecord(stored, c) = stored[c]
        \/ \E i, j \in DOMAIN PolicyKeys :
             /\ PolicyKeys[j] = c /\ i < j
             /\ stored[PolicyKeys[i]] # None /\ categoriesCompatible(PolicyKeys[i], c)
    BY <2>5, StoredGoverns
  <2> QED BY <2>6, <2>7 DEF stored
<1>2. ASSUME NEW r \in Requests, NEW o \in Organizations, NEW c \in Categories,
             Finishes(r), req[r].op = "platformPolicy", req[r].category = c
      PROVE  \/ resolveCompletionPolicy(o, c)' = req[r].policy
             \/ \E i, j \in DOMAIN PolicyKeys :
                  /\ PolicyKeys[j] = c /\ i < j
                  /\ policies'[PolicyKeys[i]] # None /\ categoriesCompatible(PolicyKeys[i], c)
             \/ completionPolicyFromCategoryMap(org[o].profileData, c) # None
  <2> DEFINE all == completionPolicyFromCategoryMap(org[o].profileData, c)
             platform == policyFromCategoryRecord(policies', c)
  <2>1. platformSettingWritten(r)
    BY <1>2, WhoFinishes DEF Ends, reviewUpgradeWrites, requestUpgradeInserts, updateWrites,
       profileDataWritten, saveProviderCapabilities
  <2>2. IsPlatformPolicy(req[r]) /\ policies' = req[r].policies /\ org' = org
    BY <2>1, PlatformSettingWrittenKeeps DEF platformSettingWritten
  <2>3. policies'[c] = req[r].policy /\ policies'[c] # None
    BY <1>2, <2>2, NoneIsNoValue DEF IsPlatformPolicy, Stores
  <2>4. completionPolicyFromCategoryMap(org'[o].profileData, c) = all
    BY <2>2
  <2>5. all = None /\ platform = policies'[c] => resolveCompletionPolicy(o, c)' = req[r].policy
    BY <2>3, <2>4, Resolved
  <2>6. \/ platform = policies'[c]
        \/ \E i, j \in DOMAIN PolicyKeys :
             /\ PolicyKeys[j] = c /\ i < j
             /\ policies'[PolicyKeys[i]] # None /\ categoriesCompatible(PolicyKeys[i], c)
    BY <2>3, StoredGoverns
  <2> QED BY <2>5, <2>6
<1> QED BY <1>1, <1>2 DEF PolicyStep

-----------------------------------------------------------------------------
(* The theorems.                                                           *)

\* What the platform derives from the rows keeps its promises: types, gates of modules and
\* features, module readiness, health, and the bound on pending upgrades.
THEOREM TenancyAlways == Spec => []TenancyInv
BY IInvAlways, InvariantHolds, PTL

\* The readiness that getReadiness tells an administrator is what the routing applies.
THEOREM ReadyAlwaysRoutable == Spec => []ReadyIsRoutable
BY IInvAlways, InvariantHolds, PTL

\* An approval lowers a plan only when it is no longer the plan of the request, and an update only
\* to what the usage fits, unless the row was written after the usage was counted.
THEOREM PlansAlwaysMoveAsChecked == Spec => PlansMoveAsChecked
<1>1. IInv /\ [Next]_vars => [UpgradeStep]_vars /\ [DowngradeStep]_vars
  BY ApprovalStep, UpdateStep
<1>2. [][UpgradeStep]_vars => UpgradeNeverLowers
  BY PTL DEF UpgradeNeverLowers, UpgradeStep
<1>3. [][DowngradeStep]_vars => DowngradeFits
  BY PTL DEF DowngradeFits, DowngradeStep
<1> QED BY <1>1, <1>2, <1>3, IInvAlways, PTL DEF Spec, PlansMoveAsChecked

\* What is saved in a profile is undone only by an update, or by a handler that read it before.
THEOREM ProfileAlwaysStands == Spec => ProfileStands
<1>1. IInv /\ [Next]_vars => [ProfileStep]_vars
  BY ProfilesStep
<1>2. [][ProfileStep]_vars => ProfileStands
  BY PTL DEF ProfileStands, ProfileStep
<1> QED BY <1>1, <1>2, IInvAlways, PTL DEF Spec

\* A policy that was set governs its category, but for a compatible one stored before it or one
\* of the organization.
THEOREM PolicyAlwaysGoverns == Spec => PolicyGoverns
<1>1. IInv /\ [Next]_vars => [PolicyStep]_vars
  BY PoliciesStep
<1>2. [][PolicyStep]_vars => PolicyGoverns
  BY PTL DEF PolicyGoverns, PolicyStep
<1> QED BY <1>1, <1>2, IInvAlways, PTL DEF Spec

=============================================================================
