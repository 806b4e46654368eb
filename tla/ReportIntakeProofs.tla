-------------------------- MODULE ReportIntakeProofs --------------------------
(***************************************************************************)
(* Theorems about the intake of reports and evidence for every number of   *)
(* organizations, reports, handlers and images.                            *)
(*                                                                         *)
(* The limits rest on counting what is in flight together with what is     *)
(* stored: a handler that passed its check holds a place until it writes.  *)
(***************************************************************************)
EXTENDS ReportIntake, FiniteSetTheorems, SequenceTheorems, WellFoundedInduction, TLAPS

IsCreation(job) ==
  /\ job.op = "createReport"
  /\ job = [op |-> "createReport", organizationId |-> job.organizationId, dto |-> job.dto, route |-> job.route]

IsUpload(job) ==
  /\ job.op = "upload"
  /\ job = [op |-> "upload", report |-> job.report, kind |-> job.kind, images |-> job.images,
            saved |-> job.saved, unpersisted |-> job.unpersisted, position |-> job.position,
            firstImage |-> job.firstImage]

\* A creation carries the decision on its draft, as long as no organization was edited.
CreationInOrder(r) ==
  LET job == req[r] IN
  /\ IsCreation(job) /\ job.organizationId \in Organizations /\ job.dto \in Drafts
  /\ job.route.organization \in Organizations \cup {None}
  /\ r \notin stale => job.route = resolveReportResponsibility(profile, Owners, job.dto)

\* An upload: the images that it saved have records, and the one that it just saved has none yet.
UploadInOrder(r) ==
  LET job == req[r] IN
  /\ IsUpload(job) /\ job.report \in Reports /\ job.kind \in Kinds
  /\ report[job.report].status # "NONE" /\ job.position = report[job.report].position
  /\ job.images \in Seq(workload.images) /\ Len(job.images) <= MaxBatch
  /\ job.saved \in Seq(Files) /\ (job.images = <<>> => job.saved # <<>>)
  /\ \A i \in DOMAIN job.saved : \E e \in RecordsOf(job.report, job.kind) : e.file = job.saved[i]
  /\ job.unpersisted # None => /\ job.unpersisted \in files /\ job.images # <<>>
                               /\ \A e \in record : e.file # job.unpersisted

\* A report of completed work, with the image that its client named.
CompletionInOrder(r) ==
  LET job == req[r] IN
  /\ job = [op |-> "complete", report |-> job.report, named |-> job.named]
  /\ job.report \in Reports /\ report[job.report].status # "NONE"
  /\ job.named \in Files \cup {None, Elsewhere}

RequestsInOrder ==
  /\ req = [r \in Requests |-> req[r]]
  /\ \A r \in Requests :
       req[r] = Idle \/ CreationInOrder(r) \/ UploadInOrder(r) \/ CompletionInOrder(r)
  /\ \A p, q \in Requests : p # q /\ req[p].op = "upload" /\ req[q].op = "upload"
                              /\ req[p].unpersisted # None
                            => req[p].unpersisted # req[q].unpersisted

\* A record tells what was assessed against the position of its report, which does not change.
RecordInOrder(e) ==
  /\ e.report \in Reports /\ e.kind \in Kinds /\ e.file \in files /\ e.geo \in workload.images
  /\ report[e.report].status # "NONE"
  /\ e.trust = IF e.kind = "report-completion"
               THEN assessCompletion(e.geo, report[e.report].position) ELSE None

RecordsInOrder == IsFiniteSet(record) /\ \A e \in record : RecordInOrder(e)

ImagesInOrder ==
  \A id \in Reports, kind \in Kinds :
    report[id].image[kind] # None =>
      \/ \E e \in RecordsOf(id, kind) : e.file = report[id].image[kind]
      \/ kind = "report-completion" /\ report[id].image[kind] = report[id].named

\* The creations of an organization that passed the quota, and the images that passed the limit
\* of evidence and have no record yet.
Creating(o) == {r \in Requests : req[r].op = "createReport" /\ req[r].organizationId = o}

Awaited(id, kind) ==
  {p \in Requests \X (1..MaxBatch) :
     /\ req[p[1]].op = "upload" /\ req[p[1]].report = id /\ req[p[1]].kind = kind
     /\ p[2] <= Len(req[p[1]].images)}

QuotaHeld ==
  allowedReportsPerMonth # None =>
    \A o \in Organizations :
      /\ IsFiniteSet(ReportsThisMonth(o))
      /\ Cardinality(ReportsThisMonth(o)) + Cardinality(Creating(o))
           <= allowedReportsPerMonth + Cardinality(Requests) - 1

EvidenceHeld ==
  \A id \in Reports, kind \in Kinds :
    Cardinality(RecordsOf(id, kind)) + Cardinality(Awaited(id, kind))
      <= evidenceLimitFor[kind] + MaxBatch * (Cardinality(Requests) - 1)

\* The inductive invariant.
IInv ==
  /\ IntakeTypeOK /\ workload \in Workloads
  /\ RequestsInOrder /\ RecordsInOrder /\ ImagesInOrder /\ QuotaHeld /\ EvidenceHeld

-----------------------------------------------------------------------------
(* The routing decision.                                                   *)

\* A set of numbers has a least one.
LEMMA LeastNumber ==
  ASSUME NEW T \in SUBSET Nat, T # {}
  PROVE  \E x \in T : \A y \in T : x <= y
<1> DEFINE Less == {pair \in Nat \X Nat : pair[1] < pair[2]}
<1>1. IsWellFoundedOn(Less, Nat)
  BY NatLessThanWellFounded DEF OpToRel
<1> HIDE DEF Less
<1>2. PICK x \in T : \A y \in T : <<y, x>> \notin Less
  BY <1>1, WFMin
<1>3. \A y \in T : ~(y < x)
  BY <1>2 DEF Less
<1> QED BY <1>3

\* The place of a zone that decides.
Place(z) == IF z.lga # None THEN z.lga ELSE IF z.state # None THEN z.state ELSE z.country

LEMMA ZoneMatches ==
  ASSUME NEW zone, NEW text
  PROVE  matchZone(zone, text) # None <=> Place(zone) \in text \ {None}
<1>1. CASE zone.lga # None
  BY <1>1, NoneIsNoLevel DEF matchZone, Place
<1>2. CASE zone.lga = None /\ zone.state # None
  BY <1>2, NoneIsNoLevel DEF matchZone, Place
<1>3. CASE zone.lga = None /\ zone.state = None
  BY <1>3, NoneIsNoLevel DEF matchZone, Place
<1> QED BY <1>1, <1>2, <1>3

\* The loop over the zones finds a match when there is one.
LEMMA FirstMatches ==
  ASSUME NEW zones, DOMAIN zones \subseteq Nat, NEW text
  PROVE  firstMatchedZone(zones, text) # None
           <=> \E i \in DOMAIN zones : Place(zones[i]) \in text \ {None}
<1> DEFINE hits == {i \in DOMAIN zones : matchZone(zones[i], text) # None}
<1>1. hits \in SUBSET Nat /\ \A i \in hits : i \in DOMAIN zones /\ matchZone(zones[i], text) # None
  OBVIOUS
<1>2. hits # {} <=> \E i \in DOMAIN zones : Place(zones[i]) \in text \ {None}
  BY ZoneMatches
<1>3. firstMatchedZone(zones, text) = IF hits = {} THEN None ELSE matchZone(zones[Min(hits)], text)
  BY DEF firstMatchedZone
<1> HIDE DEF hits
<1>4. ASSUME hits # {} PROVE Min(hits) \in hits
  <2>1. \E x \in hits : \A y \in hits : x <= y
    BY <1>1, <1>4, LeastNumber
  <2> QED BY <2>1 DEF Min
<1> QED BY <1>1, <1>2, <1>3, <1>4

\* The areas of an organization: its active zones, or else its own locality.
Areas(organization) ==
  LET governing == {z \in Range(organization.zones) : z.active} IN
  IF governing # {} THEN governing
  ELSE {z \in {[lga |-> organization.lga, state |-> organization.state,
                country |-> organization.country]} :
          z.lga # None \/ z.state # None}

LEMMA JurisdictionMeans ==
  ASSUME NEW organization, DOMAIN organization.zones \subseteq Nat, NEW text
  PROVE  LET jurisdiction == evaluateRoutingJurisdiction(organization, text) IN
         jurisdiction.configured /\ text # {} /\ jurisdiction.matched
           <=> \E z \in Areas(organization) : Place(z) \in text \ {None}
<1> DEFINE all == organization.zones
           active == activeRoutingJurisdictionZones(all)
           governing == {z \in Range(all) : z.active}
           legacy == [active |-> TRUE, lga |-> organization.lga, state |-> organization.state,
                      country |-> organization.country]
           own == [lga |-> organization.lga, state |-> organization.state,
                   country |-> organization.country]
           zones == IF DOMAIN active # {} THEN active ELSE legacyFallbackZone(organization)
           jurisdiction == evaluateRoutingJurisdiction(organization, text)
<1>1. /\ jurisdiction.configured <=> DOMAIN zones # {}
      /\ jurisdiction.matched <=> text # {} /\ firstMatchedZone(zones, text) # None
  BY DEF evaluateRoutingJurisdiction
<1>2. /\ DOMAIN active \subseteq DOMAIN all
      /\ \A i \in DOMAIN active : active[i] = all[i] /\ all[i].active
      /\ \A i \in DOMAIN all : all[i].active => i \in DOMAIN active
  BY DEF activeRoutingJurisdictionZones, Restrict
<1>3. governing # {} <=> DOMAIN active # {}
  BY <1>2 DEF Range
<1>4. DOMAIN zones \subseteq Nat
  BY <1>2 DEF legacyFallbackZone
<1>5. ASSUME DOMAIN active # {}
      PROVE  (\E i \in DOMAIN zones : Place(zones[i]) \in text \ {None})
               <=> \E z \in Areas(organization) : Place(z) \in text \ {None}
  <2>1. zones = active /\ Areas(organization) = governing
    BY <1>3, <1>5 DEF Areas
  <2>2. \A z : z \in governing <=> \E i \in DOMAIN active : z = active[i]
    BY <1>2 DEF Range
  <2> HIDE DEF governing, active, zones
  <2> QED BY <2>1, <2>2
<1>6. ASSUME DOMAIN active = {}
      PROVE  (\E i \in DOMAIN zones : Place(zones[i]) \in text \ {None})
               <=> \E z \in Areas(organization) : Place(z) \in text \ {None}
  <2>1. Place(legacy) = Place(own)
    BY DEF Place
  <2>2. zones = legacyFallbackZone(organization)
        /\ Areas(organization) = {z \in {own} : z.lga # None \/ z.state # None}
    BY <1>3, <1>6 DEF Areas
  <2>3. CASE organization.lga = None /\ organization.state = None
    <3>1. zones = <<>> /\ Areas(organization) = {}
      BY <2>2, <2>3 DEF legacyFallbackZone
    <3> QED BY <3>1
  <2>4. CASE ~(organization.lga = None /\ organization.state = None)
    <3>1. zones = <<legacy>>
      BY <2>2, <2>4 DEF legacyFallbackZone
    <3>2. Areas(organization) = {own}
      BY <2>2, <2>4
    <3> HIDE DEF zones, legacy, own
    <3>3. DOMAIN zones = {1} /\ zones[1] = legacy
      BY <3>1
    <3> QED BY <2>1, <3>2, <3>3
  <2> QED BY <2>3, <2>4
<1>7. firstMatchedZone(zones, text) # None
        <=> \E i \in DOMAIN zones : Place(zones[i]) \in text \ {None}
  BY <1>4, FirstMatches
<1> HIDE DEF zones, jurisdiction, active
<1> QED BY <1>1, <1>5, <1>6, <1>7 DEF jurisdiction

\* What an organization must cover for it to take a category.
CoversCategory(organization, category) ==
  \/ \E c \in organization.mandateCategories : categoriesCompatible(c, category)
  \/ \E p \in organization.providers :
       \/ \E c \in p.categories : categoriesCompatible(c, category)
       \/ p.capabilities \cap capabilityIdsForCategory(category) # {}
       \/ category = "" /\ p.capabilities \cap ACTIVE_MAINTENANCE_CAPABILITIES # {}

LEMMA CategoryMeans ==
  ASSUME NEW organization, NEW category
  PROVE  LET configured == \/ organization.mandateCategories # {}
                           \/ \E provider \in organization.providers : provider.categories # {}
                           \/ explicitCapabilityBacked(organization, category)
         IN /\ configured
            /\ \/ Covers(organization.mandateCategories, category)
               \/ inheritedCategoryMatch(organization, category)
               \/ capabilityCategoryMatch(organization, category)
            <=> CoversCategory(organization, category)
<1>1. category = "" => capabilityIdsForCategory(category) = {}
  BY DEF capabilityIdsForCategory
<1>2. category = "" => \A c : categoriesCompatible(c, category)
  BY DEF categoriesCompatible
<1>3. explicitCapabilityBacked(organization, category) <=>
        \E p \in organization.providers :
          \/ p.capabilities \cap capabilityIdsForCategory(category) # {}
          \/ /\ capabilityIdsForCategory(category) = {}
             /\ p.capabilities \cap ACTIVE_MAINTENANCE_CAPABILITIES # {}
  BY DEF explicitCapabilityBacked
<1>4. inheritedCategoryMatch(organization, category) <=>
        \/ category = ""
        \/ \E p \in organization.providers : \E c \in p.categories : categoriesCompatible(c, category)
  BY DEF inheritedCategoryMatch, Covers
<1>5. CASE category = ""
  BY <1>1, <1>2, <1>3, <1>4, <1>5 DEF CoversCategory, Covers, capabilityCategoryMatch
<1>6. CASE category # ""
  BY <1>3, <1>4, <1>6 DEF CoversCategory, Covers, capabilityCategoryMatch
<1> QED BY <1>5, <1>6

\* serializeOrganizationCandidate gives no reason against an organization exactly when it takes
\* the report.
LEMMA EligibleMeansTakes ==
  ASSUME NEW organization, DOMAIN organization.zones \subseteq Nat, NEW dto
  PROVE  /\ eligible(organization, dto) <=> Takes(organization, dto)
         /\ "excluded" \in exclusionReasons(organization, dto)
              <=> \E c \in organization.excludedCategories : categoriesCompatible(c, dto.category)
<1> DEFINE jurisdiction == evaluateRoutingJurisdiction(organization, dto.text)
           mandated == Covers(organization.mandateCategories, dto.category)
           inherited == inheritedCategoryMatch(organization, dto.category)
           configured == \/ organization.mandateCategories # {}
                         \/ \E provider \in organization.providers : provider.categories # {}
                         \/ explicitCapabilityBacked(organization, dto.category)
           capable == capabilityCategoryMatch(organization, dto.category)
           excluded == Covers(organization.excludedCategories, dto.category)
           failing == [inactive     |-> organization.status # "ACTIVE",
                       module       |-> ~organization.maintenance,
                       billing      |-> organization.billingStatus \in {"SUSPENDED", "CANCELLED"},
                       contact      |-> ~organization.contact,
                       jurisdiction |-> ~jurisdiction.configured,
                       location     |-> dto.text = {},
                       unconfigured |-> ~configured,
                       category     |-> configured /\ ~mandated /\ ~inherited /\ ~capable,
                       excluded     |-> excluded,
                       mismatch     |-> ~jurisdiction.matched]
<1>1. exclusionReasons(organization, dto) = {reason \in DOMAIN failing : failing[reason]}
  BY DEF exclusionReasons
<1>2. /\ failing["inactive"] <=> organization.status # "ACTIVE"
      /\ failing["module"] <=> ~organization.maintenance
      /\ failing["billing"] <=> organization.billingStatus \in {"SUSPENDED", "CANCELLED"}
      /\ failing["contact"] <=> ~organization.contact
      /\ failing["jurisdiction"] <=> ~jurisdiction.configured
      /\ failing["location"] <=> dto.text = {}
      /\ failing["unconfigured"] <=> ~configured
      /\ failing["category"] <=> configured /\ ~mandated /\ ~inherited /\ ~capable
      /\ failing["excluded"] <=> excluded
      /\ failing["mismatch"] <=> ~jurisdiction.matched
  <2> HIDE DEF jurisdiction, mandated, inherited, configured, capable, excluded
  <2> QED OBVIOUS
<1>3. DOMAIN failing = {"inactive", "module", "billing", "contact", "jurisdiction", "location",
                        "unconfigured", "category", "excluded", "mismatch"}
  <2> HIDE DEF jurisdiction, mandated, inherited, configured, capable, excluded
  <2> QED OBVIOUS
<1>4. jurisdiction.configured /\ dto.text # {} /\ jurisdiction.matched
        <=> \E z \in Areas(organization) : Place(z) \in dto.text \ {None}
  BY JurisdictionMeans
<1>5. configured /\ (mandated \/ inherited \/ capable) <=> CoversCategory(organization, dto.category)
  BY CategoryMeans
<1>6. excluded <=> \E c \in organization.excludedCategories : categoriesCompatible(c, dto.category)
  BY DEF Covers
<1>7. Takes(organization, dto) <=>
        /\ organization.status = "ACTIVE" /\ organization.maintenance /\ organization.contact
        /\ organization.billingStatus \notin {"SUSPENDED", "CANCELLED"}
        /\ ~excluded /\ CoversCategory(organization, dto.category)
        /\ \E z \in Areas(organization) : Place(z) \in dto.text \ {None}
  BY <1>6 DEF Takes, CoversCategory, Areas, Place
<1> HIDE DEF jurisdiction, mandated, inherited, configured, capable, excluded, failing
<1>8. exclusionReasons(organization, dto) = {} <=> \A reason \in DOMAIN failing : ~failing[reason]
  BY <1>1
<1>9. eligible(organization, dto) <=> Takes(organization, dto)
  BY <1>2, <1>3, <1>4, <1>5, <1>7, <1>8 DEF eligible
<1> QED BY <1>1, <1>2, <1>3, <1>6, <1>9

\* Who takes a report, and who excludes such reports.
Takers(organizations, dto) == {o \in Organizations : Takes(organizations[o], dto)}

Excluding(organizations, dto) ==
  {o \in Organizations : /\ organizations[o].status = "ACTIVE"
                         /\ \E c \in organizations[o].excludedCategories :
                              categoriesCompatible(c, dto.category)}

\* The decision chooses the only organization that takes the report, or the only one of the owners.
LEMMA DecisionMeans ==
  ASSUME NEW organizations \in [Organizations -> Profiles], NEW dto
  PROVE  LET route == resolveReportResponsibility(organizations, Owners, dto)
             takers == Takers(organizations, dto)
         IN /\ route.organization \in Organizations \cup {None}
            /\ \A o \in Organizations :
                 route.organization = o <=>
                   /\ dto.category # None /\ Excluding(organizations, dto) = {}
                   /\ takers = {o} \/ takers \cap Owners = {o}
<1> DEFINE takers == Takers(organizations, dto)
           candidates == {o \in DOMAIN organizations : organizations[o].status = "ACTIVE"}
           evaluated == {o \in candidates : eligible(organizations[o], dto)}
           restricted == {o \in candidates : "excluded" \in exclusionReasons(organizations[o], dto)}
           decisive == IF Owners \cap evaluated # {} THEN Owners \cap evaluated ELSE evaluated
           route == resolveReportResponsibility(organizations, Owners, dto)
<1>1. \A o \in Organizations : DOMAIN organizations[o].zones \subseteq Nat
  BY GivenInputs
<1>2. evaluated = takers
  BY <1>1, EligibleMeansTakes DEF Takers, Takes
<1>3. restricted = Excluding(organizations, dto)
  BY <1>1, EligibleMeansTakes DEF Excluding
<1>4. dto.text = {} => takers = {}
  BY DEF Takers, Takes
<1>5. route = CASE dto.category = None -> [outcome |-> "NO_CATEGORY", organization |-> None]
                [] dto.category # None /\ dto.text = {} -> [outcome |-> "NO_LOCATION", organization |-> None]
                [] dto.category # None /\ dto.text # {} /\ restricted # {} ->
                     [outcome |-> "RESTRICTED_OR_CONFLICTED", organization |-> None]
                [] OTHER ->
                     CASE Cardinality(decisive) = 1 ->
                            [outcome |-> "HIGH_CONFIDENCE", organization |-> CHOOSE o \in decisive : TRUE]
                       [] decisive = {} -> [outcome |-> "UNMATCHED", organization |-> None]
                       [] OTHER -> [outcome |-> "AMBIGUOUS", organization |-> None]
  BY DEF resolveReportResponsibility
<1>6. decisive \subseteq Organizations /\ IsFiniteSet(decisive)
  <2>1. decisive \subseteq Organizations
    OBVIOUS
  <2> HIDE DEF decisive
  <2> QED BY <2>1, GivenActors, FS_Subset
<1>7. Cardinality(decisive) = 1 <=> \E o : decisive = {o}
  BY <1>6, FS_Singleton
<1>8. \A o : decisive = {o} <=> takers = {o} \/ takers \cap Owners = {o}
  BY <1>2
<1>9. Cardinality({}) # 1
  BY FS_EmptySet
<1> HIDE DEF takers, evaluated, restricted, decisive, route
<1>10. CASE dto.category = None \/ dto.text = {} \/ restricted # {}
  <2>1. route.organization = None
    BY <1>5, <1>10
  <2>2. \A o \in Organizations : o # None
    BY GivenActors
  <2>3. ~(dto.category # None /\ restricted = {}) \/ takers = {}
    BY <1>4, <1>10 DEF takers
  <2> QED BY <1>3, <2>1, <2>2, <2>3 DEF route, takers
<1>11. CASE ~(dto.category = None \/ dto.text = {} \/ restricted # {})
  <2>1. CASE \E o : decisive = {o}
    <3>1. PICK o : decisive = {o}
      BY <2>1
    <3>2. (CHOOSE x \in decisive : TRUE) = o
      BY <3>1
    <3>3. route.organization = o
      BY <1>5, <1>7, <1>11, <3>1, <3>2
    <3>4. o \in Organizations
      BY <1>6, <3>1
    <3>5. \A p : p = o <=> decisive = {p}
      BY <3>1
    <3> QED BY <1>3, <1>8, <1>11, <3>3, <3>4, <3>5 DEF route, takers
  <2>2. CASE ~ \E o : decisive = {o}
    <3>1. route.organization = None
      BY <1>5, <1>7, <1>11, <2>2
    <3>2. \A o \in Organizations : o # None
      BY GivenActors
    <3> QED BY <1>3, <1>8, <2>2, <3>1, <3>2 DEF route, takers
  <2> QED BY <2>1, <2>2
<1> QED BY <1>10, <1>11

-----------------------------------------------------------------------------
(* Where an image was taken.                                               *)

\* What assessCompletion answers, said directly.
LEMMA AssessmentMeans ==
  ASSUME NEW geo, NEW position \in Nat \cup {None},
         geo.accuracy \in Nat, geo.position \in Nat \cup {None}, geo.exif \in Nat \cup {None}
  PROVE  LET near == distanceMeters(geo.position, position) <= warningDistanceMeters + geo.accuracy
             sound == /\ near /\ ~geo.outdated /\ geo.accuracy <= warningDistanceMeters
                      /\ geo.exif # None =>
                           distanceMeters(geo.position, geo.exif) <= conflictDistanceMeters
             comparable == geo.source # "LEGACY" /\ geo.position # None /\ position # None
             trust == assessCompletion(geo, position)
         IN /\ trust = "CONSISTENT" <=> comparable /\ sound
            /\ trust = "REVIEW_RECOMMENDED" <=> comparable /\ ~sound
<1> DEFINE near == distanceMeters(geo.position, position) <= warningDistanceMeters + geo.accuracy
           agrees == geo.exif # None => distanceMeters(geo.position, geo.exif) <= conflictDistanceMeters
           sound == near /\ ~geo.outdated /\ geo.accuracy <= warningDistanceMeters /\ agrees
           comparable == geo.source # "LEGACY" /\ geo.position # None /\ position # None
           trust == assessCompletion(geo, position)
<1>1. warningDistanceMeters \in Nat /\ conflictDistanceMeters \in Nat
  BY GivenInputs
<1>2. ASSUME comparable PROVE warnings(geo, position, 0) # {} <=> ~sound
  <2>1. geo.position \in Nat /\ position \in Nat
    BY <1>2
  <2>2. distanceMeters(geo.position, position) \in Nat
        /\ (geo.exif # None => distanceMeters(geo.position, geo.exif) \in Nat)
    BY <2>1 DEF distanceMeters
  <2>3. ~(distanceMeters(geo.position, position) > warningDistanceMeters + geo.accuracy + 0) <=> near
    BY <1>1, <2>2
  <2>4. ~(geo.accuracy > warningDistanceMeters) <=> geo.accuracy <= warningDistanceMeters
    BY <1>1
  <2>5. geo.exif # None /\ distanceMeters(geo.position, geo.exif) > conflictDistanceMeters <=> ~agrees
    BY <1>1, <2>2
  <2> HIDE DEF near, agrees
  <2>6. warnings(geo, position, 0) # {} <=>
          \/ "LOW_LOCATION_ACCURACY" \in warnings(geo, position, 0)
          \/ "CAPTURE_TIME_DISTANT_FROM_UPLOAD" \in warnings(geo, position, 0)
          \/ "DEVICE_AND_EXIF_LOCATION_CONFLICT" \in warnings(geo, position, 0)
          \/ "DISTANCE_EXCEEDS_THRESHOLD" \in warnings(geo, position, 0)
    BY DEF warnings
  <2>7. "LOW_LOCATION_ACCURACY" \in warnings(geo, position, 0) <=> geo.accuracy > warningDistanceMeters
    BY DEF warnings
  <2>8. "CAPTURE_TIME_DISTANT_FROM_UPLOAD" \in warnings(geo, position, 0) <=> geo.outdated
    BY DEF warnings
  <2>9. "DEVICE_AND_EXIF_LOCATION_CONFLICT" \in warnings(geo, position, 0) <=> ~agrees
    BY <1>2, <2>5 DEF warnings
  <2>10. "DISTANCE_EXCEEDS_THRESHOLD" \in warnings(geo, position, 0) <=> ~near
    BY <1>2, <2>3 DEF warnings
  <2> QED BY <2>4, <2>6, <2>7, <2>8, <2>9, <2>10
<1>3. trust = IF comparable
              THEN IF warnings(geo, position, 0) # {} THEN "REVIEW_RECOMMENDED" ELSE "CONSISTENT"
              ELSE IF geo.source = "LEGACY" THEN "LEGACY_UNASSESSED" ELSE "INSUFFICIENT_LOCATION_DATA"
  BY DEF assessCompletion
<1> HIDE DEF sound, comparable, trust
<1>4. (trust = "CONSISTENT" <=> comparable /\ sound) /\ (trust = "REVIEW_RECOMMENDED" <=> comparable /\ ~sound)
  BY <1>2, <1>3
<1> QED BY <1>4 DEF sound, comparable, trust

-----------------------------------------------------------------------------
(* What a step leaves to the others.                                       *)

\* A step that leaves alone what requests other than those of active rely on: the positions of
\* reports, the records, the files that still wait for one, and decisions that are not stale.
Mild(active) ==
  /\ workload' = workload /\ record \subseteq record'
  /\ \A id \in Reports : report[id].status # "NONE" =>
       report'[id].status # "NONE" /\ report'[id].position = report[id].position
  /\ \A q \in Requests \ active :
       /\ req'[q] = req[q]
       /\ req[q].op = "createReport" /\ q \notin stale' => q \notin stale /\ profile' = profile
       /\ req[q].op = "upload" /\ req[q].unpersisted # None =>
            /\ req[q].unpersisted \in files => req[q].unpersisted \in files'
            /\ \A e \in record' \ record : e.file # req[q].unpersisted

JobInOrder(r) ==
  req[r] = Idle \/ CreationInOrder(r) \/ UploadInOrder(r) \/ CompletionInOrder(r)

LEMMA OthersStay ==
  ASSUME IInv, NEW active, Mild(active), NEW q \in Requests \ active
  PROVE  JobInOrder(q)'
<1>1. req'[q] = req[q] /\ workload' = workload /\ record \subseteq record'
  BY DEF Mild
<1>2. JobInOrder(q)
  BY DEF IInv, RequestsInOrder, JobInOrder
<1>3. CASE req[q] = Idle
  BY <1>1, <1>3 DEF JobInOrder
<1>4. CASE CreationInOrder(q)
  <2>1. q \notin stale' => q \notin stale /\ profile' = profile
    BY <1>4 DEF Mild, CreationInOrder, IsCreation
  <2>2. CreationInOrder(q)'
    BY <1>1, <1>4, <2>1 DEF CreationInOrder, IsCreation
  <2> QED BY <2>2 DEF JobInOrder
<1>5. CASE UploadInOrder(q)
  <2>1. \A id, kind : RecordsOf(id, kind) \subseteq {e \in record' : e.report = id /\ e.kind = kind}
    BY <1>1 DEF RecordsOf
  <2>2. /\ report'[req[q].report].status # "NONE"
        /\ report'[req[q].report].position = report[req[q].report].position
    BY <1>5 DEF Mild, UploadInOrder
  <2>3. req[q].unpersisted # None =>
          req[q].unpersisted \in files' /\ \A e \in record' : e.file # req[q].unpersisted
    BY <1>5 DEF Mild, UploadInOrder, IsUpload
  <2>4. \A i \in DOMAIN req[q].saved :
          \E e \in {e \in record' : e.report = req[q].report /\ e.kind = req[q].kind} : e.file = req[q].saved[i]
    BY <1>5, <2>1 DEF UploadInOrder
  <2>5. UploadInOrder(q)'
    BY <1>1, <1>5, <2>2, <2>3, <2>4 DEF UploadInOrder, IsUpload, RecordsOf
  <2> QED BY <2>5 DEF JobInOrder
<1>6. CASE CompletionInOrder(q)
  <2>1. report'[req[q].report].status # "NONE"
    BY <1>6 DEF Mild, CompletionInOrder
  <2>2. CompletionInOrder(q)'
    BY <1>1, <1>6, <2>1 DEF CompletionInOrder
  <2> QED BY <2>2 DEF JobInOrder
<1> QED BY <1>2, <1>3, <1>4, <1>5, <1>6 DEF JobInOrder

\* A step of request r, and a step of no request.
LEMMA StepKeeps ==
  ASSUME IInv, NEW r \in Requests, Mild({r}), req' = [q \in Requests |-> req'[q]], JobInOrder(r)',
         \A q \in Requests \ {r} :
           req'[r].op = "upload" /\ req[q].op = "upload" /\ req'[r].unpersisted # None
             => req'[r].unpersisted # req[q].unpersisted,
         IntakeTypeOK', RecordsInOrder', ImagesInOrder', QuotaHeld', EvidenceHeld'
  PROVE  IInv'
<1>1. \A q \in Requests : JobInOrder(q)'
  BY OthersStay
<1>2. \A q \in Requests \ {r} : req'[q] = req[q]
  BY DEF Mild
<1>3. ASSUME NEW p \in Requests, NEW q \in Requests, p # q, req'[p].op = "upload",
             req'[q].op = "upload", req'[p].unpersisted # None
      PROVE  req'[p].unpersisted # req'[q].unpersisted
  BY <1>2, <1>3 DEF IInv, RequestsInOrder
<1>4. RequestsInOrder'
  BY <1>1, <1>3 DEF RequestsInOrder, JobInOrder
<1>5. workload' \in Workloads
  BY DEF IInv, Mild
<1> QED BY <1>4, <1>5 DEF IInv

LEMMA WorldKeeps ==
  ASSUME IInv, Mild({}), req' = req,
         IntakeTypeOK', RecordsInOrder', ImagesInOrder', QuotaHeld', EvidenceHeld'
  PROVE  IInv'
<1>1. \A q \in Requests : JobInOrder(q)'
  BY OthersStay
<1>2. RequestsInOrder'
  BY <1>1 DEF RequestsInOrder, JobInOrder, IInv
<1>3. workload' \in Workloads
  BY DEF IInv, Mild
<1> QED BY <1>2, <1>3 DEF IInv

\* Nothing new is stored, and the files of records stay.
LEMMA RecordsStay ==
  ASSUME IInv, UNCHANGED <<record, workload>>, \A e \in record : e.file \in files',
         \A id \in Reports : report[id].status # "NONE" =>
           report'[id].status # "NONE" /\ report'[id].position = report[id].position
  PROVE  RecordsInOrder'
BY DEF IInv, RecordsInOrder, RecordInOrder

LEMMA ImagesStay ==
  ASSUME IInv, record \subseteq record',
         \A id \in Reports, kind \in Kinds :
           \/ report'[id].image[kind] = report[id].image[kind] /\ report'[id].named = report[id].named
           \/ report'[id].image[kind] = None
  PROVE  ImagesInOrder'
<1>1. \A id \in Reports, kind \in Kinds :
        report[id].image[kind] # None =>
          \/ \E e \in record : e.report = id /\ e.kind = kind /\ e.file = report[id].image[kind]
          \/ kind = "report-completion" /\ report[id].image[kind] = report[id].named
  BY DEF IInv, ImagesInOrder, RecordsOf
<1> QED BY <1>1 DEF ImagesInOrder, RecordsOf

LEMMA CreatingFinite ==
  ASSUME NEW o
  PROVE  /\ IsFiniteSet(Creating(o)) /\ Cardinality(Creating(o)) \in Nat
         /\ Cardinality(Creating(o)) <= Cardinality(Requests)
         /\ IsFiniteSet(Creating(o)') /\ Cardinality(Creating(o)') \in Nat
         /\ Cardinality(Creating(o)') <= Cardinality(Requests)
<1>1. Creating(o) \subseteq Requests /\ Creating(o)' \subseteq Requests
  BY DEF Creating
<1> QED BY <1>1, GivenActors, FS_Subset, FS_CardinalityType

LEMMA AwaitedFinite ==
  ASSUME NEW id, NEW kind
  PROVE  /\ IsFiniteSet(Awaited(id, kind)) /\ Cardinality(Awaited(id, kind)) \in Nat
         /\ IsFiniteSet(Awaited(id, kind)') /\ Cardinality(Awaited(id, kind)') \in Nat
<1>1. IsFiniteSet(Requests \X (1..MaxBatch))
  <2>1. IsFiniteSet(1..MaxBatch)
    BY LimitsAreNumbers, FS_Interval
  <2> QED BY <2>1, GivenActors, FS_Product
<1>2. /\ Awaited(id, kind) \subseteq Requests \X (1..MaxBatch)
      /\ Awaited(id, kind)' \subseteq Requests \X (1..MaxBatch)
  BY DEF Awaited
<1> QED BY <1>1, <1>2, FS_Subset, FS_CardinalityType

\* A step after which no more is counted and no more is under way.
LEMMA QuotaStays ==
  ASSUME IInv,
         \A o \in Organizations : /\ ReportsThisMonth(o)' \subseteq ReportsThisMonth(o)
                                  /\ Creating(o)' \subseteq Creating(o)
  PROVE  QuotaHeld'
<1> SUFFICES ASSUME allowedReportsPerMonth # None, NEW o \in Organizations
             PROVE  /\ IsFiniteSet(ReportsThisMonth(o)')
                    /\ Cardinality(ReportsThisMonth(o)') + Cardinality(Creating(o)')
                         <= allowedReportsPerMonth + Cardinality(Requests) - 1
  BY DEF QuotaHeld
<1>1. /\ IsFiniteSet(ReportsThisMonth(o))
      /\ Cardinality(ReportsThisMonth(o)) + Cardinality(Creating(o))
           <= allowedReportsPerMonth + Cardinality(Requests) - 1
  BY DEF IInv, QuotaHeld
<1>2. /\ IsFiniteSet(ReportsThisMonth(o)')
      /\ Cardinality(ReportsThisMonth(o)') <= Cardinality(ReportsThisMonth(o))
  BY <1>1, FS_Subset
<1>3. IsFiniteSet(Creating(o)) /\ Cardinality(Creating(o)') <= Cardinality(Creating(o))
  BY CreatingFinite, FS_Subset
<1>4. /\ Cardinality(ReportsThisMonth(o)) \in Nat /\ Cardinality(ReportsThisMonth(o)') \in Nat
      /\ Cardinality(Creating(o)) \in Nat /\ Cardinality(Creating(o)') \in Nat
  BY <1>1, <1>2, CreatingFinite, FS_CardinalityType
<1>5. allowedReportsPerMonth \in Nat /\ Cardinality(Requests) \in Nat
  BY LimitsAreNumbers, GivenActors, FS_CardinalityType
<1> QED BY <1>1, <1>2, <1>3, <1>4, <1>5

LEMMA EvidenceStays ==
  ASSUME IInv, record' = record,
         \A id \in Reports, kind \in Kinds : Awaited(id, kind)' \subseteq Awaited(id, kind)
  PROVE  EvidenceHeld'
<1> SUFFICES ASSUME NEW id \in Reports, NEW kind \in Kinds
             PROVE  Cardinality(RecordsOf(id, kind)') + Cardinality(Awaited(id, kind)')
                      <= evidenceLimitFor[kind] + MaxBatch * (Cardinality(Requests) - 1)
  BY DEF EvidenceHeld
<1>1. Cardinality(RecordsOf(id, kind)) + Cardinality(Awaited(id, kind))
        <= evidenceLimitFor[kind] + MaxBatch * (Cardinality(Requests) - 1)
  BY DEF IInv, EvidenceHeld
<1>2. RecordsOf(id, kind)' = RecordsOf(id, kind)
  BY DEF RecordsOf
<1>3. Cardinality(Awaited(id, kind)') <= Cardinality(Awaited(id, kind))
  BY AwaitedFinite, FS_Subset
<1>4. Cardinality(RecordsOf(id, kind)) \in Nat
  <2>1. RecordsOf(id, kind) \subseteq record /\ IsFiniteSet(record)
    BY DEF RecordsOf, IInv, RecordsInOrder
  <2> QED BY <2>1, FS_Subset, FS_CardinalityType
<1>5. /\ Cardinality(Awaited(id, kind)) \in Nat /\ Cardinality(Awaited(id, kind)') \in Nat
      /\ evidenceLimitFor[kind] \in Nat /\ MaxBatch \in Nat /\ Cardinality(Requests) \in Nat
  BY AwaitedFinite, LimitsAreNumbers, GivenActors, FS_CardinalityType DEF Kinds
<1>6. MaxBatch * (Cardinality(Requests) - 1) \in Int
  BY <1>5
<1> QED BY <1>1, <1>2, <1>3, <1>4, <1>5, <1>6

-----------------------------------------------------------------------------
(* The steps.                                                              *)

\* What every step but an insertion has in common.
LEMMA SameReports ==
  ASSUME NEW o, report' = report
  PROVE  ReportsThisMonth(o)' = ReportsThisMonth(o)
BY DEF ReportsThisMonth

\* A request that ends, or that starts, changes what is under way for itself only.
LEMMA UnderWay ==
  ASSUME IInv, NEW r \in Requests, \A q \in Requests \ {r} : req'[q] = req[q]
  PROVE  /\ \A o : req'[r].op # "createReport" => Creating(o)' \subseteq Creating(o) \ {r}
         /\ \A id, kind : req'[r].op # "upload" => Awaited(id, kind)' \subseteq Awaited(id, kind)
BY DEF Creating, Awaited

LEMMA StartFacts ==
  ASSUME IInv, NEW r \in Requests, NEW op, NEW job, Start(r, op, job)
  PROVE  /\ req[r] = Idle /\ req'[r] = job /\ req' = [q \in Requests |-> req'[q]]
         /\ \A q \in Requests \ {r} : req'[q] = req[q]
         /\ stale' = stale \ {r} /\ UNCHANGED <<profile, report, record, files, workload>>
         /\ Mild({r}) /\ IntakeTypeOK' /\ RecordsInOrder' /\ ImagesInOrder'
<1>1. /\ req[r] = Idle /\ req'[r] = job /\ req' = [q \in Requests |-> req'[q]]
      /\ \A q \in Requests \ {r} : req'[q] = req[q]
      /\ stale' = stale \ {r} /\ UNCHANGED <<profile, report, record, files, workload>>
  BY DEF Start, IInv, RequestsInOrder
<1>2. Mild({r})
  BY <1>1 DEF Mild
<1>3. IntakeTypeOK' /\ RecordsInOrder' /\ ImagesInOrder'
  <2>1. IntakeTypeOK'
    BY <1>1 DEF IInv, IntakeTypeOK
  <2>2. RecordsInOrder'
    BY <1>1, RecordsStay DEF IInv, RecordsInOrder, RecordInOrder
  <2>3. ImagesInOrder'
    BY <1>1, ImagesStay
  <2> QED BY <2>1, <2>2, <2>3
<1> QED BY <1>1, <1>2, <1>3

\* A creation that passes the quota holds a place.
LEMMA CreateKeeps ==
  ASSUME IInv, NEW r \in Requests, NEW o \in Organizations, NEW dto \in workload.drafts,
         createReport(r, o, dto)
  PROVE  IInv'
<1> DEFINE route == resolveReportResponsibility(profile, Owners, dto)
           job == [op |-> "createReport", organizationId |-> o, dto |-> dto, route |-> route]
<1>1. Start(r, "createReport", job) /\ enforceMonthlyReportQuota(o)
  BY DEF createReport
<1>2. profile \in [Organizations -> Profiles] /\ dto \in Drafts
  BY GivenInputs DEF IInv, IntakeTypeOK
<1>3. route.organization \in Organizations \cup {None}
  BY <1>2, DecisionMeans
<1> HIDE DEF route
<1>4. /\ IsCreation(job) /\ job.op = "createReport" /\ job.organizationId = o /\ job.dto = dto
      /\ job.route = route
  BY DEF IsCreation
<1> HIDE DEF job
<1>5. /\ req[r] = Idle /\ req'[r] = job /\ req' = [q \in Requests |-> req'[q]]
      /\ \A q \in Requests \ {r} : req'[q] = req[q]
      /\ UNCHANGED <<profile, report, record, files, workload>>
      /\ Mild({r}) /\ IntakeTypeOK' /\ RecordsInOrder' /\ ImagesInOrder'
  BY <1>1, StartFacts
<1>6. CreationInOrder(r)'
  BY <1>2, <1>3, <1>4, <1>5 DEF CreationInOrder, route
<1>7. EvidenceHeld'
  <2>1. \A id, kind : Awaited(id, kind)' \subseteq Awaited(id, kind)
    BY <1>4, <1>5, UnderWay
  <2> QED BY <1>5, <2>1, EvidenceStays
<1>8. QuotaHeld'
  <2> SUFFICES ASSUME allowedReportsPerMonth # None, NEW p \in Organizations
               PROVE  /\ IsFiniteSet(ReportsThisMonth(p)')
                      /\ Cardinality(ReportsThisMonth(p)') + Cardinality(Creating(p)')
                           <= allowedReportsPerMonth + Cardinality(Requests) - 1
    BY DEF QuotaHeld
  <2>1. /\ IsFiniteSet(ReportsThisMonth(p))
        /\ Cardinality(ReportsThisMonth(p)) + Cardinality(Creating(p))
             <= allowedReportsPerMonth + Cardinality(Requests) - 1
    BY DEF IInv, QuotaHeld
  <2>2. ReportsThisMonth(p)' = ReportsThisMonth(p)
    BY <1>5, SameReports
  <2>3. /\ Cardinality(ReportsThisMonth(p)) \in Nat /\ allowedReportsPerMonth \in Nat
        /\ Cardinality(Requests) \in Nat
    BY <2>1, LimitsAreNumbers, GivenActors, FS_CardinalityType
  <2>4. CASE p = o
    <3>1. Cardinality(ReportsThisMonth(p)) < allowedReportsPerMonth
      BY <1>1, <2>4 DEF enforceMonthlyReportQuota
    <3>2. Cardinality(Creating(p)') \in Nat /\ Cardinality(Creating(p)') <= Cardinality(Requests)
      BY CreatingFinite
    <3> QED BY <2>1, <2>2, <2>3, <3>1, <3>2
  <2>5. CASE p # o
    <3>1. Creating(p)' = Creating(p)
      BY <1>4, <1>5, <2>5 DEF Creating, Idle
    <3> QED BY <2>1, <2>2, <3>1
  <2> QED BY <2>4, <2>5
<1>9. req'[r].op # "upload"
  BY <1>4, <1>5
<1> QED BY <1>5, <1>6, <1>7, <1>8, <1>9, StepKeeps DEF JobInOrder

\* An upload that passes the limit of evidence holds a place for each of its images.
LEMMA UploadingKeeps ==
  ASSUME IInv, NEW r \in Requests, NEW id \in Reports, NEW kind \in Kinds, NEW images \in Uploads,
         report[id].status # "NONE", Uploading(r, id, kind, images)
  PROVE  IInv'
<1> DEFINE first == report[id].image[kind] = None
           job == [op |-> "upload", report |-> id, kind |-> kind, images |-> images, saved |-> <<>>,
                   unpersisted |-> None, position |-> report[id].position, firstImage |-> first]
           n == Len(images)
<1>1. Start(r, kind, job) /\ assertEvidenceLimit(id, kind, n)
  BY DEF Uploading
<1>2. PICK m \in 1..MaxBatch : images \in [1..m -> workload.images]
  BY DEF Uploads
<1>3. images \in Seq(workload.images) /\ n = m /\ n \in Nat /\ n >= 1 /\ n <= MaxBatch /\ images # <<>>
  <2>1. MaxBatch \in Nat
    BY LimitsAreNumbers
  <2>2. m \in Nat /\ m >= 1 /\ m <= MaxBatch
    BY <2>1
  <2>3. images \in Seq(workload.images) /\ n = m
    BY <1>2, <2>2
  <2> HIDE DEF n
  <2>4. n # 0
    BY <2>2, <2>3
  <2>5. images # <<>>
    BY <2>3, <2>4 DEF n
  <2> QED BY <2>2, <2>3, <2>5
<1> HIDE DEF first
<1>4. /\ IsUpload(job) /\ job.op = "upload" /\ job.report = id /\ job.kind = kind
      /\ job.images = images /\ job.saved = <<>> /\ job.unpersisted = None
      /\ job.position = report[id].position
  BY DEF IsUpload
<1> HIDE DEF job
<1>5. /\ req[r] = Idle /\ req'[r] = job /\ req' = [q \in Requests |-> req'[q]]
      /\ \A q \in Requests \ {r} : req'[q] = req[q]
      /\ UNCHANGED <<profile, report, record, files, workload>>
      /\ Mild({r}) /\ IntakeTypeOK' /\ RecordsInOrder' /\ ImagesInOrder'
  BY <1>1, StartFacts
<1>6. UploadInOrder(r)'
  <2>1. <<>> \in Seq(Files) /\ DOMAIN <<>> = {}
    OBVIOUS
  <2> QED BY <1>3, <1>4, <1>5, <2>1 DEF UploadInOrder
<1>7. QuotaHeld'
  <2>1. \A o : Creating(o)' \subseteq Creating(o)
    BY <1>4, <1>5, UnderWay
  <2>2. \A o : ReportsThisMonth(o)' = ReportsThisMonth(o)
    BY <1>5, SameReports
  <2> QED BY <2>1, <2>2, QuotaStays
<1>8. EvidenceHeld'
  <2> SUFFICES ASSUME NEW i \in Reports, NEW k \in Kinds
               PROVE  Cardinality(RecordsOf(i, k)') + Cardinality(Awaited(i, k)')
                        <= evidenceLimitFor[k] + MaxBatch * (Cardinality(Requests) - 1)
    BY DEF EvidenceHeld
  <2>1. RecordsOf(i, k)' = RecordsOf(i, k)
    BY <1>5 DEF RecordsOf
  <2>2. CASE i = id /\ k = kind
    <3> DEFINE mine == {r} \X (1..n)
               others == (Requests \ {r}) \X (1..MaxBatch)
    <3>1. Awaited(i, k)' \subseteq mine \cup others
      <4> SUFFICES ASSUME NEW p \in Awaited(i, k)' PROVE p \in mine \cup others
        OBVIOUS
      <4>1. p \in Requests \X (1..MaxBatch) /\ p[2] <= Len(req'[p[1]].images)
        BY DEF Awaited
      <4>2. PICK a \in Requests, b \in 1..MaxBatch : p = <<a, b>>
        BY <4>1
      <4>3. CASE a = r
        <5>1. b <= n /\ b \in 1..n
          BY <1>3, <1>4, <1>5, <4>1, <4>2, <4>3, LimitsAreNumbers
        <5> QED BY <4>2, <4>3, <5>1
      <4>4. CASE a # r
        BY <4>2, <4>4
      <4> QED BY <4>3, <4>4
    <3>2. IsFiniteSet({r}) /\ Cardinality({r}) = 1
      BY FS_Singleton
    <3>3. IsFiniteSet(1..n) /\ Cardinality(1..n) = n
      BY <1>3, FS_Interval
    <3>4. IsFiniteSet(1..MaxBatch) /\ Cardinality(1..MaxBatch) = MaxBatch
      <4>1. MaxBatch \in Nat /\ ~(1 > MaxBatch)
        BY <1>3, LimitsAreNumbers
      <4> QED BY <4>1, FS_Interval
    <3>5. IsFiniteSet(Requests \ {r}) /\ Cardinality(Requests \ {r}) = Cardinality(Requests) - 1
      BY GivenActors, FS_RemoveElement
    <3>6. IsFiniteSet(mine) /\ Cardinality(mine) = Cardinality({r}) * Cardinality(1..n)
      BY <3>2, <3>3, FS_Product
    <3>7. IsFiniteSet(others) /\ Cardinality(others) = Cardinality(Requests \ {r}) * Cardinality(1..MaxBatch)
      BY <3>4, <3>5, FS_Product
    <3> HIDE DEF mine, others
    <3>8. Cardinality(mine) = n
      BY <1>3, <3>2, <3>3, <3>6
    <3>9. Cardinality(others) = (Cardinality(Requests) - 1) * MaxBatch
      BY <3>4, <3>5, <3>7
    <3>10. IsFiniteSet(mine \cup others)
           /\ Cardinality(mine \cup others) =
                Cardinality(mine) + Cardinality(others) - Cardinality(mine \cap others)
      BY <3>6, <3>7, FS_Union
    <3>11. IsFiniteSet(mine \cap others)
      BY <3>6, FS_Intersection
    <3>12. /\ Cardinality(mine \cap others) \in Nat /\ Cardinality(mine \cup others) \in Nat
           /\ Cardinality(others) \in Nat
      BY <3>7, <3>10, <3>11, FS_CardinalityType
    <3>13. Cardinality(Awaited(i, k)') <= Cardinality(mine \cup others)
      BY <3>1, <3>10, FS_Subset
    <3>14. Cardinality(RecordsOf(i, k)) + n <= evidenceLimitFor[k]
      BY <1>1, <2>2 DEF assertEvidenceLimit
    <3>15. Cardinality(RecordsOf(i, k)) \in Nat
      <4>1. RecordsOf(i, k) \subseteq record /\ IsFiniteSet(record)
        BY DEF RecordsOf, IInv, RecordsInOrder
      <4> QED BY <4>1, FS_Subset, FS_CardinalityType
    <3>16. /\ evidenceLimitFor[k] \in Nat /\ MaxBatch \in Nat /\ Cardinality(Requests) \in Nat
           /\ Cardinality(Awaited(i, k)') \in Nat
      BY AwaitedFinite, LimitsAreNumbers, GivenActors, FS_CardinalityType DEF Kinds
    <3>17. (Cardinality(Requests) - 1) * MaxBatch = MaxBatch * (Cardinality(Requests) - 1)
      BY <3>16
    <3>18. Cardinality(Awaited(i, k)') <= n + Cardinality(others)
      BY <1>3, <3>8, <3>10, <3>12, <3>13, <3>16
    <3>19. Cardinality(RecordsOf(i, k)) + Cardinality(Awaited(i, k)')
             <= evidenceLimitFor[k] + Cardinality(others)
      BY <1>3, <3>12, <3>14, <3>15, <3>16, <3>18
    <3> QED BY <2>1, <3>9, <3>17, <3>19
  <2>3. CASE ~(i = id /\ k = kind)
    <3>1. Awaited(i, k)' = Awaited(i, k)
      <4>1. ASSUME NEW p \in Requests \X (1..MaxBatch)
            PROVE  p \in Awaited(i, k)' <=> p \in Awaited(i, k)
        <5>1. p[1] \in Requests
          OBVIOUS
        <5>2. CASE p[1] = r
          BY <1>4, <1>5, <2>3, <5>2 DEF Awaited, Idle
        <5>3. CASE p[1] # r
          BY <1>5, <5>1, <5>3 DEF Awaited
        <5> QED BY <5>2, <5>3
      <4> QED BY <4>1 DEF Awaited
    <3>2. Cardinality(RecordsOf(i, k)) + Cardinality(Awaited(i, k))
            <= evidenceLimitFor[k] + MaxBatch * (Cardinality(Requests) - 1)
      BY DEF IInv, EvidenceHeld
    <3> QED BY <2>1, <3>1, <3>2
  <2> QED BY <2>2, <2>3
<1> QED BY <1>4, <1>5, <1>6, <1>7, <1>8, StepKeeps DEF JobInOrder

\* The insertion of a report takes the place that its creation held.
LEMMA InsertKeeps ==
  ASSUME IInv, NEW r \in Requests, NEW new \in Reports, insertReport(r, new)
  PROVE  IInv'
<1> DEFINE job == req[r]
           row == [status |-> IF job.route.organization # None THEN "ORG_REVIEW" ELSE "TRIAGE",
                   organizationId |-> job.organizationId,
                   assignedOrganizationId |-> job.route.organization,
                   thisMonth |-> TRUE, position |-> job.dto.position,
                   image |-> [kind \in Kinds |-> None], named |-> None]
<1>1. /\ job.op = "createReport" /\ report[new].status = "NONE"
      /\ report' = [report EXCEPT ![new] = row] /\ req' = [req EXCEPT ![r] = Idle]
      /\ UNCHANGED <<profile, record, files, stale, calls, workload>>
  BY DEF insertReport
<1>2. CreationInOrder(r)
  BY <1>1 DEF IInv, RequestsInOrder, UploadInOrder, IsUpload, CompletionInOrder, Idle
<1>3. row \in ReportRows
  <2>1. job.organizationId \in Organizations /\ job.route.organization \in Organizations \cup {None}
        /\ job.dto.position \in Nat \cup {None}
    BY <1>2, GivenInputs DEF CreationInOrder
  <2>2. [kind \in Kinds |-> None] \in [Kinds -> Files \cup {None, Elsewhere}]
    OBVIOUS
  <2>3. TRUE \in BOOLEAN
    OBVIOUS
  <2> QED BY <2>1, <2>2, <2>3 DEF ReportRows
<1>4. /\ row.organizationId = job.organizationId /\ row.status # "NONE"
      /\ \A kind \in Kinds : row.image[kind] = None
  OBVIOUS
<1> HIDE DEF row
<1>5. /\ req' = [q \in Requests |-> req'[q]] /\ req'[r] = Idle
      /\ \A q \in Requests \ {r} : req'[q] = req[q]
  BY <1>1 DEF IInv, RequestsInOrder
<1>6. report \in [Reports -> ReportRows]
  BY DEF IInv, IntakeTypeOK
<1>7. /\ report' \in [Reports -> ReportRows] /\ report'[new] = row
      /\ \A id \in Reports : id # new => report'[id] = report[id]
  BY <1>1, <1>3, <1>6
<1>8. Mild({r})
  BY <1>1, <1>5, <1>7 DEF Mild
<1>9. IntakeTypeOK'
  BY <1>1, <1>7 DEF IInv, IntakeTypeOK
<1>10. RecordsInOrder'
  <2>1. \A e \in record : e.file \in files'
    BY <1>1 DEF IInv, RecordsInOrder, RecordInOrder
  <2> QED BY <1>1, <1>7, <2>1, RecordsStay
<1>11. ImagesInOrder'
  BY <1>1, <1>4, <1>7, ImagesStay
<1>12. EvidenceHeld'
  <2>1. \A id, kind : Awaited(id, kind)' \subseteq Awaited(id, kind)
    BY <1>5, UnderWay DEF Idle
  <2> QED BY <1>1, <2>1, EvidenceStays
<1>13. QuotaHeld'
  <2> SUFFICES ASSUME allowedReportsPerMonth # None, NEW o \in Organizations
               PROVE  /\ IsFiniteSet(ReportsThisMonth(o)')
                      /\ Cardinality(ReportsThisMonth(o)') + Cardinality(Creating(o)')
                           <= allowedReportsPerMonth + Cardinality(Requests) - 1
    BY DEF QuotaHeld
  <2>1. /\ IsFiniteSet(ReportsThisMonth(o))
        /\ Cardinality(ReportsThisMonth(o)) + Cardinality(Creating(o))
             <= allowedReportsPerMonth + Cardinality(Requests) - 1
    BY DEF IInv, QuotaHeld
  <2>2. /\ Cardinality(ReportsThisMonth(o)) \in Nat /\ allowedReportsPerMonth \in Nat
        /\ Cardinality(Requests) \in Nat /\ IsFiniteSet(Creating(o)) /\ Cardinality(Creating(o)) \in Nat
    BY <2>1, LimitsAreNumbers, GivenActors, CreatingFinite, FS_CardinalityType
  <2>3. Creating(o)' \subseteq Creating(o) \ {r}
    BY <1>5, UnderWay DEF Idle
  <2>4. CASE o = job.organizationId
    <3>1. ReportsThisMonth(o)' \subseteq ReportsThisMonth(o) \cup {new}
      BY <1>7 DEF ReportsThisMonth
    <3>2. /\ IsFiniteSet(ReportsThisMonth(o) \cup {new})
          /\ Cardinality(ReportsThisMonth(o) \cup {new}) <= Cardinality(ReportsThisMonth(o)) + 1
      <4>1. /\ IsFiniteSet(ReportsThisMonth(o) \cup {new})
            /\ \/ Cardinality(ReportsThisMonth(o) \cup {new}) = Cardinality(ReportsThisMonth(o))
               \/ Cardinality(ReportsThisMonth(o) \cup {new}) = Cardinality(ReportsThisMonth(o)) + 1
        BY <2>1, FS_AddElement
      <4> QED BY <2>2, <4>1
    <3>3. /\ IsFiniteSet(ReportsThisMonth(o)')
          /\ Cardinality(ReportsThisMonth(o)') <= Cardinality(ReportsThisMonth(o) \cup {new})
      BY <3>1, <3>2, FS_Subset
    <3>4. r \in Creating(o)
      BY <1>1, <2>4 DEF Creating
    <3>5. IsFiniteSet(Creating(o) \ {r}) /\ Cardinality(Creating(o) \ {r}) = Cardinality(Creating(o)) - 1
      BY <2>2, <3>4, FS_RemoveElement
    <3>6. Cardinality(Creating(o)') <= Cardinality(Creating(o)) - 1
      BY <2>3, <3>5, FS_Subset
    <3>7. /\ Cardinality(ReportsThisMonth(o)') \in Nat /\ Cardinality(Creating(o)') \in Nat
          /\ Cardinality(ReportsThisMonth(o) \cup {new}) \in Nat
      BY <3>2, <3>3, CreatingFinite, FS_CardinalityType
    <3> QED BY <2>1, <2>2, <3>2, <3>3, <3>6, <3>7
  <2>5. CASE o # job.organizationId
    <3>1. ReportsThisMonth(o)' \subseteq ReportsThisMonth(o)
      BY <1>4, <1>7, <2>5 DEF ReportsThisMonth
    <3>2. /\ IsFiniteSet(ReportsThisMonth(o)')
          /\ Cardinality(ReportsThisMonth(o)') <= Cardinality(ReportsThisMonth(o))
      BY <2>1, <3>1, FS_Subset
    <3>3. Cardinality(Creating(o)') <= Cardinality(Creating(o))
      BY <2>2, <2>3, FS_Subset
    <3>4. Cardinality(ReportsThisMonth(o)') \in Nat /\ Cardinality(Creating(o)') \in Nat
      BY <3>2, CreatingFinite, FS_CardinalityType
    <3> QED BY <2>1, <2>2, <3>2, <3>3, <3>4
  <2> QED BY <2>4, <2>5
<1>14. JobInOrder(r)' /\ req'[r].op # "upload"
  BY <1>5 DEF JobInOrder, Idle
<1> QED BY <1>5, <1>8, <1>9, <1>10, <1>11, <1>12, <1>13, <1>14, StepKeeps

\* A step of an upload, which changes neither the organizations nor who creates reports.
LEMMA UploadStep ==
  ASSUME IInv, NEW r \in Requests, UploadInOrder(r),
         \A o : ReportsThisMonth(o)' \subseteq ReportsThisMonth(o),
         \A q \in Requests \ {r} : req'[q] = req[q],
         req'[r] = Idle \/ req'[r].op = "upload"
  PROVE  QuotaHeld'
<1>1. \A o : Creating(o)' \subseteq Creating(o)
  BY UnderWay DEF Idle
<1> QED BY <1>1, QuotaStays

LEMMA SaveKeeps ==
  ASSUME IInv, NEW r \in Requests, NEW f \in Files, saveBase64Image(r, f)
  PROVE  IInv'
<1> DEFINE old == req[r]
<1>1. /\ old.op = "upload" /\ old.images # <<>> /\ f \notin UsedNames /\ files' = files \cup {f}
      /\ req' = [req EXCEPT ![r].unpersisted = f]
      /\ UNCHANGED <<profile, report, record, stale, calls, workload>>
  BY DEF saveBase64Image
<1>2. UploadInOrder(r)
  BY <1>1 DEF IInv, RequestsInOrder, CreationInOrder, IsCreation, CompletionInOrder, Idle
<1>3. /\ req' = [q \in Requests |-> req'[q]] /\ req'[r] = [old EXCEPT !.unpersisted = f]
      /\ \A q \in Requests \ {r} : req'[q] = req[q]
  BY <1>1 DEF IInv, RequestsInOrder
<1>4. req'[r] = [op |-> "upload", report |-> old.report, kind |-> old.kind, images |-> old.images,
                 saved |-> old.saved, unpersisted |-> f, position |-> old.position,
                 firstImage |-> old.firstImage]
  BY <1>2, <1>3 DEF UploadInOrder, IsUpload
<1> HIDE DEF old
<1>5. /\ IsUpload(req'[r]) /\ req'[r].op = "upload" /\ req'[r].report = old.report
      /\ req'[r].kind = old.kind /\ req'[r].images = old.images /\ req'[r].saved = old.saved
      /\ req'[r].unpersisted = f /\ req'[r].position = old.position
  BY <1>4 DEF IsUpload
<1>6. /\ \A e \in record : e.file # f
      /\ \A q \in Requests : req[q].op = "upload" => req[q].unpersisted # f
  BY <1>1 DEF UsedNames
<1>7. UploadInOrder(r)'
  BY <1>1, <1>2, <1>5, <1>6 DEF UploadInOrder, IsUpload, RecordsOf, old
<1>8. Mild({r})
  BY <1>1, <1>3 DEF Mild
<1>9. IntakeTypeOK'
  BY <1>1 DEF IInv, IntakeTypeOK
<1>10. RecordsInOrder' /\ ImagesInOrder'
  <2>1. \A e \in record : e.file \in files'
    BY <1>1 DEF IInv, RecordsInOrder, RecordInOrder
  <2> QED BY <1>1, <2>1, RecordsStay, ImagesStay
<1>11. QuotaHeld'
  <2>1. \A o : ReportsThisMonth(o)' = ReportsThisMonth(o)
    BY <1>1, SameReports
  <2> QED BY <1>2, <1>3, <1>5, <2>1, UploadStep
<1>12. EvidenceHeld'
  <2>1. \A id, kind : Awaited(id, kind)' \subseteq Awaited(id, kind)
    BY <1>1, <1>3, <1>5 DEF Awaited, old
  <2> QED BY <1>1, <2>1, EvidenceStays
<1> QED BY <1>3, <1>5, <1>6, <1>7, <1>8, <1>9, <1>10, <1>11, <1>12, StepKeeps DEF JobInOrder

\* What is left of a sequence after its head.
LEMMA TailFacts ==
  ASSUME NEW S, NEW s \in Seq(S), s # <<>>
  PROVE  /\ Tail(s) \in Seq(S) /\ Len(Tail(s)) = Len(s) - 1
         /\ Len(s) \in Nat /\ Len(s) # 0 /\ Head(s) \in S
<1>1. Len(s) \in Nat /\ Len(s) # 0
  BY EmptySeq
<1> QED BY <1>1, HeadTailProperties

\* The record of an image takes the place that the image held.
LEMMA RecordKeeps ==
  ASSUME IInv, NEW r \in Requests, createEvidenceRecord(r)
  PROVE  IInv'
<1>o. PICK old : old = req[r]
  OBVIOUS
<1> DEFINE geo == Head(old.images)
           trust == IF old.kind = "report-completion" THEN assessCompletion(geo, old.position) ELSE None
<1>e. PICK e : e = [report |-> old.report, kind |-> old.kind, file |-> old.unpersisted, geo |-> geo,
                     trust |-> trust]
  OBVIOUS
<1>1. /\ old.op = "upload" /\ old.unpersisted # None /\ record' = record \cup {e}
      /\ req' = [req EXCEPT ![r].unpersisted = None, ![r].images = Tail(@),
                            ![r].saved = Append(@, old.unpersisted)]
      /\ UNCHANGED <<profile, report, files, stale, calls, workload>>
  BY <1>o, <1>e DEF createEvidenceRecord
<1>2. UploadInOrder(r)
  BY <1>o, <1>1 DEF IInv, RequestsInOrder, CreationInOrder, IsCreation, CompletionInOrder, Idle
<1>3. /\ old.images \in Seq(workload.images) /\ old.images # <<>> /\ Len(old.images) <= MaxBatch
      /\ old.report \in Reports /\ old.kind \in Kinds /\ old.saved \in Seq(Files)
      /\ old.unpersisted \in files /\ \A x \in record : x.file # old.unpersisted
      /\ old.position = report[old.report].position /\ report[old.report].status # "NONE"
  BY <1>o, <1>1, <1>2 DEF UploadInOrder
<1>4. /\ req' = [q \in Requests |-> req'[q]]
      /\ req'[r] = [old EXCEPT !.unpersisted = None, !.images = Tail(@), !.saved = Append(@, old.unpersisted)]
      /\ \A q \in Requests \ {r} : req'[q] = req[q]
  BY <1>o, <1>1, <1>2 DEF IInv, RequestsInOrder, UploadInOrder, IsUpload
<1>5. req'[r] = [op |-> "upload", report |-> old.report, kind |-> old.kind, images |-> Tail(old.images),
                 saved |-> Append(old.saved, old.unpersisted), unpersisted |-> None,
                 position |-> old.position, firstImage |-> old.firstImage]
  BY <1>o, <1>2, <1>4 DEF UploadInOrder, IsUpload
<1>6. /\ e.report = old.report /\ e.kind = old.kind /\ e.file = old.unpersisted /\ e.geo = geo
      /\ e.trust = trust
  BY <1>e
<1>7. geo \in workload.images
  BY <1>3, TailFacts
<1> HIDE DEF geo, trust
<1>8. /\ IsUpload(req'[r]) /\ req'[r].op = "upload" /\ req'[r].report = old.report
      /\ req'[r].kind = old.kind /\ req'[r].images = Tail(old.images)
      /\ req'[r].saved = Append(old.saved, old.unpersisted)
      /\ req'[r].unpersisted = None /\ req'[r].position = old.position
  BY <1>5 DEF IsUpload
<1>9. /\ Tail(old.images) \in Seq(workload.images) /\ Len(Tail(old.images)) = Len(old.images) - 1
      /\ Len(old.images) \in Nat /\ Len(old.images) # 0
  BY <1>3, TailFacts
<1>10. UploadInOrder(r)'
  <2> DEFINE saved == Append(old.saved, old.unpersisted)
             mine == {x \in record' : x.report = old.report /\ x.kind = old.kind}
  <2>1. /\ saved \in Seq(Files) /\ Len(saved) = Len(old.saved) + 1 /\ DOMAIN saved = 1..(Len(old.saved) + 1)
        /\ \A i \in 1..Len(old.saved) : saved[i] = old.saved[i]
        /\ saved[Len(old.saved) + 1] = old.unpersisted /\ Len(old.saved) \in Nat
        /\ DOMAIN old.saved = 1..Len(old.saved)
    <3>1. old.unpersisted \in Files
      BY <1>3 DEF IInv, IntakeTypeOK
    <3> QED BY <1>3, <3>1
  <2>2. saved # <<>>
    <3>1. Len(saved) # 0
      BY <2>1
    <3> QED BY <3>1, EmptySeq
  <2> HIDE DEF saved
  <2>3. ASSUME NEW i \in DOMAIN saved PROVE \E x \in mine : x.file = saved[i]
    <3>1. CASE i \in 1..Len(old.saved)
      <4>1. PICK x \in RecordsOf(old.report, old.kind) : x.file = old.saved[i]
        BY <1>o, <1>2, <2>1, <3>1 DEF UploadInOrder
      <4>2. x \in mine
        BY <1>1, <4>1 DEF RecordsOf
      <4> QED BY <2>1, <3>1, <4>1, <4>2
    <3>2. CASE i = Len(old.saved) + 1
      <4>1. e \in mine
        BY <1>1, <1>6
      <4> QED BY <1>6, <2>1, <3>2, <4>1
    <3> QED BY <2>1, <2>3, <3>1, <3>2
  <2>4. Len(Tail(old.images)) <= MaxBatch
    BY <1>3, <1>9, LimitsAreNumbers
  <2>5. \A i \in DOMAIN req'[r].saved : 
          \E x \in record' : x.report = req'[r].report /\ x.kind = req'[r].kind /\ x.file = req'[r].saved[i]
    BY <1>8, <2>3 DEF saved
  <2>6. /\ report'[req'[r].report].status # "NONE"
        /\ req'[r].position = report'[req'[r].report].position
    BY <1>1, <1>3, <1>8
  <2>7. /\ req'[r].images \in Seq(workload'.images) /\ Len(req'[r].images) <= MaxBatch
        /\ req'[r].saved \in Seq(Files) /\ req'[r].saved # <<>>
    BY <1>1, <1>8, <1>9, <2>1, <2>2, <2>4 DEF saved
  <2> HIDE DEF mine
  <2> QED BY <1>3, <1>8, <2>5, <2>6, <2>7 DEF UploadInOrder, RecordsOf
<1>11. Mild({r})
  <2>1. \A q \in Requests \ {r} : req[q].op = "upload" /\ req[q].unpersisted # None =>
          req[q].unpersisted # old.unpersisted
    BY <1>o, <1>1 DEF IInv, RequestsInOrder
  <2>2. ASSUME NEW q \in Requests \ {r}, req[q].op = "upload", req[q].unpersisted # None,
               NEW x \in record' \ record
        PROVE  x.file # req[q].unpersisted
    <3>1. x.file = old.unpersisted
      BY <1>1, <1>6, <2>2
    <3> QED BY <2>1, <2>2, <3>1
  <2>3. /\ workload' = workload /\ files' = files /\ profile' = profile /\ stale' = stale
        /\ report' = report /\ record \subseteq record'
    BY <1>1
  <2> QED BY <1>4, <2>2, <2>3 DEF Mild
<1>12. IntakeTypeOK'
  BY <1>1 DEF IInv, IntakeTypeOK
<1>13. RecordsInOrder'
  <2>1. IsFiniteSet(record')
    BY <1>1, FS_AddElement DEF IInv, RecordsInOrder
  <2>2. \A x \in record : RecordInOrder(x)'
    BY <1>1 DEF IInv, RecordsInOrder, RecordInOrder
  <2>3. RecordInOrder(e)'
    <3>1. e.trust = IF e.kind = "report-completion"
                    THEN assessCompletion(e.geo, report[e.report].position) ELSE None
      BY <1>3, <1>6 DEF trust
    <3> QED BY <1>1, <1>3, <1>6, <1>7, <3>1 DEF RecordInOrder
  <2> QED BY <1>1, <2>1, <2>2, <2>3 DEF RecordsInOrder
<1>14. ImagesInOrder'
  BY <1>1, ImagesStay
<1>15. QuotaHeld'
  <2>1. \A o : ReportsThisMonth(o)' = ReportsThisMonth(o)
    BY <1>1, SameReports
  <2> QED BY <1>2, <1>4, <1>8, <2>1, UploadStep
<1>16. EvidenceHeld'
  <2> SUFFICES ASSUME NEW i \in Reports, NEW k \in Kinds
               PROVE  Cardinality(RecordsOf(i, k)') + Cardinality(Awaited(i, k)')
                        <= evidenceLimitFor[k] + MaxBatch * (Cardinality(Requests) - 1)
    BY DEF EvidenceHeld
  <2>1. Cardinality(RecordsOf(i, k)) + Cardinality(Awaited(i, k))
          <= evidenceLimitFor[k] + MaxBatch * (Cardinality(Requests) - 1)
    BY DEF IInv, EvidenceHeld
  <2>2. IsFiniteSet(RecordsOf(i, k)) /\ Cardinality(RecordsOf(i, k)) \in Nat
    <3>1. RecordsOf(i, k) \subseteq record /\ IsFiniteSet(record)
      BY DEF RecordsOf, IInv, RecordsInOrder
    <3> QED BY <3>1, FS_Subset, FS_CardinalityType
  <2>3. /\ IsFiniteSet(Awaited(i, k)) /\ Cardinality(Awaited(i, k)) \in Nat
        /\ Cardinality(Awaited(i, k)') \in Nat /\ evidenceLimitFor[k] \in Nat
        /\ MaxBatch \in Nat /\ Cardinality(Requests) \in Nat
    BY AwaitedFinite, LimitsAreNumbers, GivenActors, FS_CardinalityType DEF Kinds
  <2>4. MaxBatch * (Cardinality(Requests) - 1) \in Int
    BY <2>3
  <2>5. CASE i = old.report /\ k = old.kind
    <3> DEFINE last == <<r, Len(old.images)>>
    <3>1. RecordsOf(i, k)' \subseteq RecordsOf(i, k) \cup {e}
      BY <1>1 DEF RecordsOf
    <3>2. /\ IsFiniteSet(RecordsOf(i, k) \cup {e})
          /\ \/ Cardinality(RecordsOf(i, k) \cup {e}) = Cardinality(RecordsOf(i, k))
             \/ Cardinality(RecordsOf(i, k) \cup {e}) = Cardinality(RecordsOf(i, k)) + 1
      BY <2>2, FS_AddElement
    <3>3. /\ IsFiniteSet(RecordsOf(i, k)')
          /\ Cardinality(RecordsOf(i, k)') <= Cardinality(RecordsOf(i, k) \cup {e})
      BY <3>1, <3>2, FS_Subset
    <3>4. last \in Awaited(i, k)
      <4>1. Len(old.images) \in 1..MaxBatch
        BY <1>3, <1>9, <2>3
      <4> QED BY <1>o, <1>1, <1>9, <2>5, <4>1 DEF Awaited
    <3>5. Awaited(i, k)' \subseteq Awaited(i, k) \ {last}
      <4> SUFFICES ASSUME NEW p \in Awaited(i, k)' PROVE p \in Awaited(i, k) /\ p # last
        OBVIOUS
      <4>1. /\ p \in Requests \X (1..MaxBatch) /\ p[2] <= Len(req'[p[1]].images)
            /\ req'[p[1]].op = "upload" /\ req'[p[1]].report = i /\ req'[p[1]].kind = k
        BY DEF Awaited
      <4>2. PICK a \in Requests, b \in 1..MaxBatch : p = <<a, b>>
        BY <4>1
      <4>3. CASE a = r
        <5>1. b <= Len(old.images) - 1 /\ b \in Nat
          <6>1. p[1] = r /\ p[2] = b
            BY <4>2, <4>3
          <6>2. b <= Len(Tail(old.images))
            BY <1>8, <4>1, <6>1
          <6> QED BY <1>9, <2>3, <6>2
        <5>2. b <= Len(old.images) /\ b # Len(old.images)
          BY <1>9, <5>1
        <5> QED BY <1>o, <1>1, <2>5, <4>1, <4>2, <4>3, <5>2 DEF Awaited
      <4>4. CASE a # r
        BY <1>4, <4>1, <4>2, <4>4 DEF Awaited
      <4> QED BY <4>3, <4>4
    <3>6. /\ IsFiniteSet(Awaited(i, k) \ {last})
          /\ Cardinality(Awaited(i, k) \ {last}) = Cardinality(Awaited(i, k)) - 1
      BY <2>3, <3>4, FS_RemoveElement
    <3>7. Cardinality(Awaited(i, k)') <= Cardinality(Awaited(i, k)) - 1
      BY <3>5, <3>6, FS_Subset
    <3>8. Cardinality(RecordsOf(i, k)') \in Nat /\ Cardinality(RecordsOf(i, k) \cup {e}) \in Nat
      BY <3>2, <3>3, FS_CardinalityType
    <3>9. Cardinality(RecordsOf(i, k)') <= Cardinality(RecordsOf(i, k)) + 1
      BY <2>2, <3>2, <3>3, <3>8
    <3> QED BY <2>1, <2>2, <2>3, <2>4, <3>7, <3>8, <3>9
  <2>6. CASE ~(i = old.report /\ k = old.kind)
    <3>1. RecordsOf(i, k)' = RecordsOf(i, k)
      BY <1>1, <1>6, <2>6 DEF RecordsOf
    <3>2. Awaited(i, k)' \subseteq Awaited(i, k)
      BY <1>4, <1>8, <2>6 DEF Awaited
    <3>3. Cardinality(Awaited(i, k)') <= Cardinality(Awaited(i, k))
      BY <2>3, <3>2, FS_Subset
    <3> QED BY <2>1, <2>2, <2>3, <2>4, <3>1, <3>3
  <2> QED BY <2>5, <2>6
<1> QED BY <1>4, <1>8, <1>10, <1>11, <1>12, <1>13, <1>14, <1>15, <1>16, StepKeeps DEF JobInOrder

\* A request that ends without a record: a step that writes nothing but the file system.
LEMMA EndKeeps ==
  ASSUME IInv, NEW r \in Requests, req' = [req EXCEPT ![r] = Idle],
         UNCHANGED <<profile, report, record, stale, workload>>,
         files' = files \/ (/\ req[r].op = "upload"
                            /\ files' = files \ {req[r].unpersisted})
  PROVE  IInv'
<1>1. /\ req' = [q \in Requests |-> req'[q]] /\ req'[r] = Idle
      /\ \A q \in Requests \ {r} : req'[q] = req[q]
  BY DEF IInv, RequestsInOrder
<1>2. req[r].op = "upload" => UploadInOrder(r)
  BY DEF IInv, RequestsInOrder, CreationInOrder, IsCreation, CompletionInOrder, Idle
<1>3. None \notin files
  BY NoneIsNoNumber, LimitsAreNumbers DEF IInv, IntakeTypeOK
<1>4. \A e \in record : e.file \in files'
  BY <1>2, <1>3 DEF IInv, RecordsInOrder, RecordInOrder, UploadInOrder
<1>5. RecordsInOrder' /\ ImagesInOrder'
  BY <1>4, RecordsStay, ImagesStay
<1>6. Mild({r})
  <2>1. ASSUME NEW q \in Requests \ {r}, req[q].op = "upload", req[q].unpersisted # None,
               req[q].unpersisted \in files
        PROVE  req[q].unpersisted \in files'
    BY <2>1 DEF IInv, RequestsInOrder
  <2> QED BY <1>1, <2>1 DEF Mild
<1>7. IntakeTypeOK'
  BY DEF IInv, IntakeTypeOK
<1>8. QuotaHeld' /\ EvidenceHeld'
  <2>1. \A o : ReportsThisMonth(o)' = ReportsThisMonth(o)
    BY SameReports
  <2>2. /\ \A o : Creating(o)' \subseteq Creating(o)
        /\ \A id, kind : Awaited(id, kind)' \subseteq Awaited(id, kind)
    BY <1>1, UnderWay DEF Idle
  <2> QED BY <2>1, <2>2, QuotaStays, EvidenceStays
<1>9. JobInOrder(r)' /\ req'[r].op # "upload"
  BY <1>1 DEF JobInOrder, Idle
<1> QED BY <1>1, <1>5, <1>6, <1>7, <1>8, <1>9, StepKeeps

LEMMA FirstImageKeeps ==
  ASSUME IInv, NEW r \in Requests, setFirstImage(r)
  PROVE  IInv'
<1> DEFINE job == req[r]
           f == Head(job.saved)
<1>1. /\ job.op = "upload" /\ job.images = <<>> /\ req' = [req EXCEPT ![r] = Idle]
      /\ UNCHANGED <<profile, record, files, stale, calls, workload>>
  BY DEF setFirstImage
<1>2. CASE report' = report
  BY <1>1, <1>2, EndKeeps
<1>3. CASE report' = [report EXCEPT ![job.report].image[job.kind] = f]
  <2>1. UploadInOrder(r)
    BY <1>1 DEF IInv, RequestsInOrder, CreationInOrder, IsCreation, CompletionInOrder, Idle
  <2>2. /\ job.saved \in Seq(Files) /\ job.saved # <<>> /\ job.report \in Reports /\ job.kind \in Kinds
        /\ \A i \in DOMAIN job.saved : \E e \in RecordsOf(job.report, job.kind) : e.file = job.saved[i]
    BY <1>1, <2>1 DEF UploadInOrder
  <2>3. f \in Files /\ 1 \in DOMAIN job.saved /\ f = job.saved[1]
    BY <2>2
  <2>4. PICK e \in RecordsOf(job.report, job.kind) : e.file = f
    BY <2>2, <2>3
  <2> DEFINE row == [report[job.report] EXCEPT !.image = [report[job.report].image EXCEPT ![job.kind] = f]]
  <2>5. report \in [Reports -> ReportRows] /\ report[job.report] \in ReportRows
    BY <2>2 DEF IInv, IntakeTypeOK
  <2>6. report' = [report EXCEPT ![job.report] = row]
    BY <1>3, <2>2, <2>5 DEF ReportRows
  <2>7. [report[job.report].image EXCEPT ![job.kind] = f] \in [Kinds -> Files \cup {None, Elsewhere}]
    BY <2>2, <2>3, <2>5 DEF ReportRows
  <2>8. row \in ReportRows
    BY <2>5, <2>7 DEF ReportRows
  <2>9. /\ row.status = report[job.report].status /\ row.position = report[job.report].position
        /\ row.organizationId = report[job.report].organizationId
        /\ row.thisMonth = report[job.report].thisMonth
        /\ row.named = report[job.report].named /\ row.image[job.kind] = f
        /\ \A kind \in Kinds : kind # job.kind => row.image[kind] = report[job.report].image[kind]
    BY <2>2, <2>5 DEF ReportRows
  <2> HIDE DEF row, f, job
  <2>10. /\ report' \in [Reports -> ReportRows] /\ report'[job.report] = row
         /\ \A id \in Reports : id # job.report => report'[id] = report[id]
    BY <2>2, <2>5, <2>6, <2>8
  <2>11. /\ req' = [q \in Requests |-> req'[q]] /\ req'[r] = Idle
         /\ \A q \in Requests \ {r} : req'[q] = req[q]
    BY <1>1 DEF IInv, RequestsInOrder
  <2>12. Mild({r})
    BY <1>1, <2>9, <2>10, <2>11 DEF Mild
  <2>13. IntakeTypeOK'
    BY <1>1, <2>10 DEF IInv, IntakeTypeOK
  <2>14. RecordsInOrder'
    <3>1. \A x \in record : x.file \in files'
      BY <1>1 DEF IInv, RecordsInOrder, RecordInOrder
    <3> QED BY <1>1, <2>9, <2>10, <3>1, RecordsStay
  <2>15. ImagesInOrder'
    <3> SUFFICES ASSUME NEW id \in Reports, NEW kind \in Kinds, report'[id].image[kind] # None
                 PROVE  \/ \E x \in record' : /\ x.report = id /\ x.kind = kind
                                             /\ x.file = report'[id].image[kind]
                        \/ kind = "report-completion" /\ report'[id].image[kind] = report'[id].named
      BY DEF ImagesInOrder, RecordsOf
    <3>1. CASE id = job.report /\ kind = job.kind
      BY <1>1, <2>4, <2>9, <2>10, <3>1 DEF RecordsOf
    <3>2. CASE ~(id = job.report /\ kind = job.kind)
      <4>1. report'[id].image[kind] = report[id].image[kind] /\ report'[id].named = report[id].named
        BY <2>9, <2>10, <3>2
      <4> QED BY <1>1, <4>1 DEF IInv, ImagesInOrder, RecordsOf
    <3> QED BY <3>1, <3>2
  <2>16. QuotaHeld' /\ EvidenceHeld'
    <3>1. \A o : ReportsThisMonth(o)' \subseteq ReportsThisMonth(o)
      BY <2>9, <2>10 DEF ReportsThisMonth
    <3>2. /\ \A o : Creating(o)' \subseteq Creating(o)
          /\ \A id, kind : Awaited(id, kind)' \subseteq Awaited(id, kind)
      BY <2>11, UnderWay DEF Idle
    <3> QED BY <1>1, <3>1, <3>2, QuotaStays, EvidenceStays
  <2>17. JobInOrder(r)' /\ req'[r].op # "upload"
    BY <2>11 DEF JobInOrder, Idle
  <2> QED BY <2>11, <2>12, <2>13, <2>14, <2>15, <2>16, <2>17, StepKeeps
<1> QED BY <1>2, <1>3 DEF setFirstImage

\* A provider reports the work as done.
LEMMA CompletingKeeps ==
  ASSUME IInv, NEW r \in Requests, NEW id \in Reports, NEW named \in workload.names,
         updateStatus(r, id, named)
  PROVE  IInv'
<1>1. PICK job : job = [op |-> "complete", report |-> id, named |-> named]
  OBVIOUS
<1>2. Start(r, "complete", job) /\ report[id].status = "IN_PROGRESS"
  BY <1>1 DEF updateStatus
<1>3. job.op = "complete" /\ job.report = id /\ job.named = named
  BY <1>1
<1>4. /\ req'[r] = job /\ req' = [q \in Requests |-> req'[q]]
      /\ \A q \in Requests \ {r} : req'[q] = req[q]
      /\ UNCHANGED <<profile, report, record, files, workload>>
      /\ Mild({r}) /\ IntakeTypeOK' /\ RecordsInOrder' /\ ImagesInOrder'
  BY <1>2, StartFacts
<1>5. named \in Files \cup {None, Elsewhere}
  BY GivenInputs DEF IInv
<1>6. CompletionInOrder(r)'
  BY <1>1, <1>2, <1>3, <1>4, <1>5 DEF CompletionInOrder
<1>7. QuotaHeld'
  <2>1. \A o : Creating(o)' \subseteq Creating(o)
    BY <1>3, <1>4, UnderWay
  <2>2. \A o : ReportsThisMonth(o)' = ReportsThisMonth(o)
    BY <1>4, SameReports
  <2> QED BY <2>1, <2>2, QuotaStays
<1>8. EvidenceHeld'
  <2>1. \A i, kind : Awaited(i, kind)' \subseteq Awaited(i, kind)
    BY <1>3, <1>4, UnderWay
  <2> QED BY <1>4, <2>1, EvidenceStays
<1>9. req'[r].op # "upload"
  BY <1>3, <1>4
<1> QED BY <1>4, <1>6, <1>7, <1>8, <1>9, StepKeeps DEF JobInOrder

\* Its write puts what the client named in the place of the image.
LEMMA CompletedKeeps ==
  ASSUME IInv, NEW r \in Requests, completeReport(r)
  PROVE  IInv'
<1>1. PICK job : job = req[r]
  OBVIOUS
<1>2. /\ job.op = "complete" /\ req' = [req EXCEPT ![r] = Idle]
      /\ UNCHANGED <<profile, record, files, stale, calls, workload>>
      /\ report' = [report EXCEPT ![job.report].status = "TRIAGE",
                                  ![job.report].image["report-completion"] = job.named,
                                  ![job.report].named = job.named]
  BY <1>1 DEF completeReport
<1>3. /\ job.report \in Reports /\ report[job.report].status # "NONE"
      /\ job.named \in Files \cup {None, Elsewhere}
  BY <1>1, <1>2 DEF IInv, RequestsInOrder, CreationInOrder, IsCreation, UploadInOrder, IsUpload,
                    CompletionInOrder, Idle
<1>4. report \in [Reports -> ReportRows] /\ report[job.report] \in ReportRows
  BY <1>3 DEF IInv, IntakeTypeOK
<1>5. PICK image : image = [report[job.report].image EXCEPT !["report-completion"] = job.named]
  OBVIOUS
<1>6. /\ image \in [Kinds -> Files \cup {None, Elsewhere}] /\ image["report-completion"] = job.named
      /\ \A kind \in Kinds : kind # "report-completion" => image[kind] = report[job.report].image[kind]
  BY <1>3, <1>4, <1>5 DEF ReportRows, Kinds
<1>7. PICK row : row = [report[job.report] EXCEPT !.status = "TRIAGE", !.image = image,
                                                  !.named = job.named]
  OBVIOUS
<1>8. report' = [report EXCEPT ![job.report] = row]
  BY <1>2, <1>3, <1>4, <1>5, <1>7 DEF ReportRows
<1>9. row \in ReportRows
  BY <1>3, <1>4, <1>6, <1>7 DEF ReportRows
<1>10. /\ row.status # "NONE" /\ row.position = report[job.report].position /\ row.image = image
       /\ row.named = job.named /\ row.organizationId = report[job.report].organizationId
       /\ row.thisMonth = report[job.report].thisMonth
  BY <1>4, <1>7 DEF ReportRows
<1>11. /\ report' \in [Reports -> ReportRows] /\ report'[job.report] = row
       /\ \A id \in Reports : id # job.report => report'[id] = report[id]
  BY <1>3, <1>4, <1>8, <1>9
<1>12. /\ req' = [q \in Requests |-> req'[q]] /\ req'[r] = Idle
       /\ \A q \in Requests \ {r} : req'[q] = req[q]
  BY <1>2 DEF IInv, RequestsInOrder
<1>13. Mild({r})
  BY <1>2, <1>10, <1>11, <1>12 DEF Mild
<1>14. IntakeTypeOK'
  BY <1>2, <1>11 DEF IInv, IntakeTypeOK
<1>15. RecordsInOrder'
  <2>1. \A x \in record : x.file \in files'
    BY <1>2 DEF IInv, RecordsInOrder, RecordInOrder
  <2> QED BY <1>2, <1>10, <1>11, <2>1, RecordsStay
<1>16. ImagesInOrder'
  <2> SUFFICES ASSUME NEW id \in Reports, NEW kind \in Kinds, report'[id].image[kind] # None
               PROVE  \/ \E x \in record' : /\ x.report = id /\ x.kind = kind
                                           /\ x.file = report'[id].image[kind]
                      \/ kind = "report-completion" /\ report'[id].image[kind] = report'[id].named
    BY DEF ImagesInOrder, RecordsOf
  <2>1. CASE id = job.report /\ kind = "report-completion"
    BY <1>6, <1>10, <1>11, <2>1
  <2>2. CASE kind # "report-completion"
    <3>1. report'[id].image[kind] = report[id].image[kind]
      BY <1>6, <1>10, <1>11, <2>2
    <3> QED BY <1>2, <2>2, <3>1 DEF IInv, ImagesInOrder, RecordsOf
  <2>3. CASE id # job.report
    <3>1. report'[id] = report[id]
      BY <1>11, <2>3
    <3>2. \/ \E x \in record : x.report = id /\ x.kind = kind /\ x.file = report[id].image[kind]
          \/ kind = "report-completion" /\ report[id].image[kind] = report[id].named
      BY <3>1 DEF IInv, ImagesInOrder, RecordsOf
    <3> QED BY <1>2, <3>1, <3>2
  <2> QED BY <2>1, <2>2, <2>3
<1>17. QuotaHeld' /\ EvidenceHeld'
  <2>1. \A o : ReportsThisMonth(o)' \subseteq ReportsThisMonth(o)
    BY <1>3, <1>10, <1>11 DEF ReportsThisMonth
  <2>2. /\ \A o : Creating(o)' \subseteq Creating(o)
        /\ \A id, kind : Awaited(id, kind)' \subseteq Awaited(id, kind)
    BY <1>12, UnderWay DEF Idle
  <2> QED BY <1>2, <2>1, <2>2, QuotaStays, EvidenceStays
<1>18. JobInOrder(r)' /\ req'[r].op # "upload"
  BY <1>12 DEF JobInOrder, Idle
<1> QED BY <1>12, <1>13, <1>14, <1>15, <1>16, <1>17, <1>18, StepKeeps

-----------------------------------------------------------------------------
(* What happens elsewhere.                                                 *)

LEMMA EditKeeps ==
  ASSUME IInv, NEW o \in Organizations, EditOrganization(o)
  PROVE  IInv'
<1>1. PICK p \in workload.profiles : profile' = [profile EXCEPT ![o] = p]
  BY DEF EditOrganization
<1>2. /\ stale' = {r \in Requests : req[r].op = "createReport"}
      /\ UNCHANGED <<report, record, files, req, workload>>
  BY DEF EditOrganization
<1>3. p \in Profiles
  BY <1>1, GivenInputs DEF IInv
<1>4. IntakeTypeOK'
  BY <1>1, <1>2, <1>3 DEF IInv, IntakeTypeOK
<1>5. Mild({})
  BY <1>2 DEF Mild
<1>6. RecordsInOrder'
  BY <1>2 DEF IInv, RecordsInOrder, RecordInOrder
<1>7. ImagesInOrder'
  BY <1>2, ImagesStay
<1>8. QuotaHeld'
  <2>1. \A q : ReportsThisMonth(q)' = ReportsThisMonth(q)
    BY <1>2, SameReports
  <2>2. \A q : Creating(q)' = Creating(q)
    BY <1>2 DEF Creating
  <2> QED BY <2>1, <2>2, QuotaStays
<1>9. EvidenceHeld'
  <2>1. \A id, kind : Awaited(id, kind)' = Awaited(id, kind)
    BY <1>2 DEF Awaited
  <2> QED BY <1>2, <2>1, EvidenceStays
<1> QED BY <1>2, <1>4, <1>5, <1>6, <1>7, <1>8, <1>9, WorldKeeps

\* The rows of the reports keep what the intake wrote, other than the month.
LEMMA RowsKeep ==
  ASSUME IInv, UNCHANGED <<profile, record, files, req, stale, workload>>,
         report' \in [Reports -> ReportRows],
         \A id \in Reports : /\ report[id].status = "NONE" <=> report'[id].status = "NONE"
                             /\ report'[id].position = report[id].position
                             /\ report'[id].image = report[id].image
                             /\ report'[id].named = report[id].named
                             /\ report'[id].organizationId = report[id].organizationId
                             /\ report'[id].thisMonth => report[id].thisMonth
  PROVE  IInv'
<1>1. IntakeTypeOK'
  BY DEF IInv, IntakeTypeOK
<1>2. Mild({})
  BY DEF Mild
<1>3. RecordsInOrder'
  <2>1. \A e \in record : e.file \in files'
    BY DEF IInv, RecordsInOrder, RecordInOrder
  <2> QED BY <2>1, RecordsStay
<1>4. ImagesInOrder'
  BY ImagesStay
<1>5. QuotaHeld'
  <2>1. \A q : ReportsThisMonth(q)' \subseteq ReportsThisMonth(q)
    BY DEF ReportsThisMonth
  <2>2. \A q : Creating(q)' = Creating(q)
    BY DEF Creating
  <2> QED BY <2>1, <2>2, QuotaStays
<1>6. EvidenceHeld'
  <2>1. \A id, kind : Awaited(id, kind)' = Awaited(id, kind)
    BY DEF Awaited
  <2> QED BY <2>1, EvidenceStays
<1> QED BY <1>1, <1>2, <1>3, <1>4, <1>5, <1>6, WorldKeeps

LEMMA MovesKeep ==
  ASSUME IInv, NEW id \in Reports, StatusMoves(id)
  PROVE  IInv'
<1> DEFINE next == IF report[id].status = "IN_PROGRESS" THEN "TRIAGE" ELSE "IN_PROGRESS"
           row == [report[id] EXCEPT !.status = next]
<1>1. report \in [Reports -> ReportRows] /\ report[id] \in ReportRows
  BY DEF IInv, IntakeTypeOK
<1>2. report' = [report EXCEPT ![id] = row]
  BY <1>1 DEF StatusMoves
<1>3. next \in {"TRIAGE", "IN_PROGRESS"}
  OBVIOUS
<1> HIDE DEF next
<1>4. row \in ReportRows
  BY <1>1, <1>3 DEF ReportRows
<1>5. /\ row.status # "NONE" /\ row.position = report[id].position
      /\ row.image = report[id].image /\ row.organizationId = report[id].organizationId
      /\ row.thisMonth = report[id].thisMonth /\ row.named = report[id].named
  BY <1>1, <1>3 DEF ReportRows
<1> HIDE DEF row
<1>6. /\ report' \in [Reports -> ReportRows] /\ report'[id] = row
      /\ \A x \in Reports : x # id => report'[x] = report[x]
  BY <1>1, <1>2, <1>4
<1>7. report[id].status # "NONE" /\ UNCHANGED <<profile, record, files, req, stale, workload>>
  BY DEF StatusMoves
<1> QED BY <1>5, <1>6, <1>7, RowsKeep

LEMMA MonthKeeps ==
  ASSUME IInv, MonthEnds
  PROVE  IInv'
<1>1. report \in [Reports -> ReportRows]
  BY DEF IInv, IntakeTypeOK
<1>2. /\ report' = [r \in Reports |-> [report[r] EXCEPT !.thisMonth = FALSE]]
      /\ UNCHANGED <<profile, record, files, req, stale, workload>>
  BY DEF MonthEnds
<1>3. ASSUME NEW id \in Reports
      PROVE  /\ report'[id] \in ReportRows /\ report'[id].status = report[id].status
             /\ report'[id].position = report[id].position /\ report'[id].image = report[id].image
             /\ report'[id].organizationId = report[id].organizationId
             /\ report'[id].named = report[id].named
             /\ ~report'[id].thisMonth
  <2>1. report[id] \in ReportRows /\ report'[id] = [report[id] EXCEPT !.thisMonth = FALSE]
    BY <1>1, <1>2
  <2>2. FALSE \in BOOLEAN
    OBVIOUS
  <2> QED BY <2>1, <2>2 DEF ReportRows
<1>4. report' \in [Reports -> ReportRows]
  BY <1>2, <1>3
<1> QED BY <1>2, <1>3, <1>4, RowsKeep

-----------------------------------------------------------------------------
(* The invariant.                                                          *)

LEMMA InitHolds == Init => IInv
<1> SUFFICES ASSUME Init PROVE IInv
  OBVIOUS
<1>1. workload \in Workloads /\ workload.profiles \subseteq Profiles
  BY GivenInputs DEF Init
<1>2. IntakeTypeOK
  <2>1. FALSE \in BOOLEAN
    OBVIOUS
  <2>2. [kind \in Kinds |-> None] \in [Kinds -> Files \cup {None, Elsewhere}]
    OBVIOUS
  <2>3. [status |-> "NONE", organizationId |-> None, assignedOrganizationId |-> None,
         thisMonth |-> FALSE, position |-> None, image |-> [kind \in Kinds |-> None],
         named |-> None] \in ReportRows
    BY <2>1, <2>2 DEF ReportRows
  <2> QED BY <1>1, <2>3 DEF Init, IntakeTypeOK
<1>3. RequestsInOrder
  BY DEF Init, RequestsInOrder, Idle
<1>4. RecordsInOrder
  BY FS_EmptySet DEF Init, RecordsInOrder
<1>5. ImagesInOrder
  BY DEF Init, ImagesInOrder
<1>6. Cardinality({}) = 0 /\ IsFiniteSet({})
  BY FS_EmptySet
<1>7. Cardinality(Requests) \in Nat /\ Cardinality(Requests) # 0
  BY GivenActors, FS_CardinalityType, FS_EmptySet
<1>8. QuotaHeld
  <2> SUFFICES ASSUME allowedReportsPerMonth # None, NEW o \in Organizations
               PROVE  /\ IsFiniteSet(ReportsThisMonth(o))
                      /\ Cardinality(ReportsThisMonth(o)) + Cardinality(Creating(o))
                           <= allowedReportsPerMonth + Cardinality(Requests) - 1
    BY DEF QuotaHeld
  <2>1. ReportsThisMonth(o) = {} /\ Creating(o) = {}
    BY DEF Init, ReportsThisMonth, Creating, Idle
  <2>2. allowedReportsPerMonth \in Nat
    BY LimitsAreNumbers
  <2> QED BY <1>6, <1>7, <2>1, <2>2
<1>9. EvidenceHeld
  <2> SUFFICES ASSUME NEW id \in Reports, NEW kind \in Kinds
               PROVE  Cardinality(RecordsOf(id, kind)) + Cardinality(Awaited(id, kind))
                        <= evidenceLimitFor[kind] + MaxBatch * (Cardinality(Requests) - 1)
    BY DEF EvidenceHeld
  <2>1. RecordsOf(id, kind) = {} /\ Awaited(id, kind) = {}
    BY DEF Init, RecordsOf, Awaited, Idle
  <2>2. evidenceLimitFor[kind] \in Nat /\ MaxBatch \in Nat
    BY LimitsAreNumbers DEF Kinds
  <2>3. MaxBatch * (Cardinality(Requests) - 1) \in Nat
    <3>1. Cardinality(Requests) - 1 \in Nat
      BY <1>7
    <3>2. \A m, n \in Nat : m * n \in Nat
      OBVIOUS
    <3> QED BY <2>2, <3>1, <3>2
  <2> QED BY <1>6, <2>1, <2>2, <2>3
<1> QED BY <1>1, <1>2, <1>3, <1>4, <1>5, <1>8, <1>9 DEF IInv

LEMMA NextKeeps == IInv /\ [Next]_vars => IInv'
<1> SUFFICES ASSUME IInv, [Next]_vars PROVE IInv'
  OBVIOUS
<1>1. ASSUME NEW r \in Requests, NEW o \in Organizations, NEW dto \in workload.drafts,
             createReport(r, o, dto)
      PROVE  IInv'
  BY <1>1, CreateKeeps
<1>2. ASSUME NEW r \in Requests, NEW id \in Reports, NEW images \in Uploads,
             uploadReportEvidence(r, id, images) \/ uploadCompletionEvidence(r, id, images)
      PROVE  IInv'
  <2>1. PICK kind \in Kinds : Uploading(r, id, kind, images) /\ report[id].status # "NONE"
    BY <1>2 DEF uploadReportEvidence, uploadCompletionEvidence, Kinds
  <2> QED BY <2>1, UploadingKeeps
<1>3. ASSUME NEW r \in Requests, NEW new \in Reports, insertReport(r, new) PROVE IInv'
  BY <1>3, InsertKeeps
<1>4. ASSUME NEW r \in Requests, NEW f \in Files, saveBase64Image(r, f) PROVE IInv'
  BY <1>4, SaveKeeps
<1>5. ASSUME NEW r \in Requests, createEvidenceRecord(r) PROVE IInv'
  BY <1>5, RecordKeeps
<1>6. ASSUME NEW r \in Requests, cleanupUnpersistedEvidenceFiles(r) PROVE IInv'
  <2>1. /\ req[r].op = "upload" /\ req' = [req EXCEPT ![r] = Idle]
        /\ UNCHANGED <<profile, report, record, stale, workload>>
        /\ files' = files \/ files' = files \ {req[r].unpersisted}
    BY <1>6 DEF cleanupUnpersistedEvidenceFiles
  <2> QED BY <2>1, EndKeeps
<1>7. ASSUME NEW r \in Requests, setFirstImage(r) PROVE IInv'
  BY <1>7, FirstImageKeeps
<1>8. ASSUME NEW r \in Requests, Crash(r) PROVE IInv'
  <2>1. /\ req' = [req EXCEPT ![r] = Idle] /\ files' = files
        /\ UNCHANGED <<profile, report, record, stale, workload>>
    BY <1>8 DEF Crash
  <2> QED BY <2>1, EndKeeps
<1>9. ASSUME NEW o \in Organizations, EditOrganization(o) PROVE IInv'
  BY <1>9, EditKeeps
<1>10. ASSUME NEW id \in Reports, StatusMoves(id) PROVE IInv'
  BY <1>10, MovesKeep
<1>11. CASE MonthEnds
  BY <1>11, MonthKeeps
<1>13. ASSUME NEW r \in Requests, NEW id \in Reports, NEW named \in workload.names,
              updateStatus(r, id, named)
       PROVE  IInv'
  BY <1>13, CompletingKeeps
<1>14. ASSUME NEW r \in Requests, completeReport(r) PROVE IInv'
  BY <1>14, CompletedKeeps
<1>12. CASE UNCHANGED vars
  <2>1. report' \in [Reports -> ReportRows] /\ UNCHANGED <<profile, record, files, req, stale, workload, report>>
    BY <1>12 DEF vars, IInv, IntakeTypeOK
  <2> QED BY <2>1, RowsKeep
<1> QED BY <1>1, <1>2, <1>3, <1>4, <1>5, <1>6, <1>7, <1>8, <1>9, <1>10, <1>11, <1>12, <1>13, <1>14
       DEF Next

LEMMA Invariance == Spec => []IInv
BY InitHolds, NextKeeps, PTL DEF Spec

\* Rows keep their types, and what is counted before it is inserted (enforceMonthlyReportQuota,
\* assertEvidenceLimit) exceeds its limit at most by what the other handlers have in flight, for
\* every limit and every number of handlers.
THEOREM IntakeAlwaysInOrder == Spec => []IntakeInv
<1>1. IInv => IntakeInv
  <2> SUFFICES ASSUME IInv PROVE IntakeInv
    OBVIOUS
  <2>1. QuotaOverrun
    <3> SUFFICES ASSUME allowedReportsPerMonth # None, NEW o \in Organizations
                 PROVE  Cardinality(ReportsThisMonth(o)) < allowedReportsPerMonth + Cardinality(Requests)
      BY DEF QuotaOverrun
    <3>1. /\ IsFiniteSet(ReportsThisMonth(o))
          /\ Cardinality(ReportsThisMonth(o)) + Cardinality(Creating(o))
               <= allowedReportsPerMonth + Cardinality(Requests) - 1
      BY DEF IInv, QuotaHeld
    <3>2. /\ Cardinality(ReportsThisMonth(o)) \in Nat /\ Cardinality(Creating(o)) \in Nat
          /\ Cardinality(Requests) \in Nat /\ allowedReportsPerMonth \in Nat
      BY <3>1, CreatingFinite, FS_CardinalityType, GivenActors, LimitsAreNumbers
    <3> QED BY <3>1, <3>2
  <2>2. EvidenceOverrun
    <3> SUFFICES ASSUME NEW id \in Reports, NEW kind \in Kinds
                 PROVE  Cardinality(RecordsOf(id, kind))
                          <= evidenceLimitFor[kind] + MaxBatch * (Cardinality(Requests) - 1)
      BY DEF EvidenceOverrun
    <3>1. Cardinality(RecordsOf(id, kind)) + Cardinality(Awaited(id, kind))
            <= evidenceLimitFor[kind] + MaxBatch * (Cardinality(Requests) - 1)
      BY DEF IInv, EvidenceHeld
    <3>2. RecordsOf(id, kind) \subseteq record /\ IsFiniteSet(record)
      BY DEF RecordsOf, IInv, RecordsInOrder
    <3>3. Cardinality(RecordsOf(id, kind)) \in Nat /\ Cardinality(Awaited(id, kind)) \in Nat
      BY <3>2, AwaitedFinite, FS_Subset, FS_CardinalityType
    <3>4. evidenceLimitFor[kind] \in Nat /\ MaxBatch \in Nat /\ Cardinality(Requests) \in Nat
      BY LimitsAreNumbers, GivenActors, FS_CardinalityType DEF Kinds
    <3>5. MaxBatch * (Cardinality(Requests) - 1) \in Int
      BY <3>4
    <3> QED BY <3>1, <3>3, <3>4, <3>5
  <2> QED BY <2>1, <2>2 DEF IInv, IntakeInv
<1> QED BY <1>1, Invariance, PTL

\* Every image that a report offers is on the disk and in a record of the report, whatever
\* uploads failed, overlapped, were cleaned up or were cut off by a restart; but for the completion
\* image that updateStatus took from its client.  Images of the kind report-evidence have no
\* exception.
THEOREM OfferedImageAlwaysStored == Spec => []OfferedImageIsStored
<1>1. IInv => OfferedImageIsStored
  <2> SUFFICES ASSUME IInv, NEW id \in Reports, NEW kind \in Kinds, NEW f \in Files,
                      reportHasEvidencePath(id, kind, f),
                      ~(kind = "report-completion" /\ f = report[id].named)
               PROVE  f \in files /\ \E e \in RecordsOf(id, kind) : e.file = f
    BY DEF OfferedImageIsStored
  <2>1. f # None
    BY NoneIsNoNumber, LimitsAreNumbers
  <2>2. PICK e \in RecordsOf(id, kind) : e.file = f
    BY <2>1 DEF reportHasEvidencePath, IInv, ImagesInOrder
  <2>3. f \in files
    BY <2>2 DEF RecordsOf, IInv, RecordsInOrder, RecordInOrder
  <2> QED BY <2>2, <2>3
<1> QED BY <1>1, Invariance, PTL

\* The trust outcome of a completion image is what its distances, its age and the accuracy say,
\* against the position of the report as it stands: an upload assesses with the position that it
\* read first, which no later step changes.
THEOREM TrustAlwaysEarned == Spec => []TrustIsEarned
<1>1. IInv => TrustIsEarned
  <2> SUFFICES ASSUME IInv PROVE TrustIsEarned
    OBVIOUS
  <2>1. ASSUME NEW e \in record, e.kind = "report-completion"
        PROVE  /\ e.trust = assessCompletion(e.geo, report[e.report].position)
               /\ report[e.report].position \in Nat \cup {None}
               /\ e.geo.accuracy \in Nat /\ e.geo.position \in Nat \cup {None}
               /\ e.geo.exif \in Nat \cup {None}
    <3>1. /\ e.report \in Reports /\ e.geo \in workload.images
          /\ e.trust = assessCompletion(e.geo, report[e.report].position)
      BY <2>1 DEF IInv, RecordsInOrder, RecordInOrder
    <3>2. report[e.report] \in ReportRows /\ workload \in Workloads
      BY <3>1 DEF IInv, IntakeTypeOK
    <3>3. report[e.report].position \in Nat \cup {None}
      BY <3>2 DEF ReportRows
    <3> QED BY <3>1, <3>2, <3>3, GivenInputs
  <2> QED BY <2>1, AssessmentMeans DEF TrustIsEarned
<1> QED BY <1>1, Invariance, PTL

\* What a step does to the reports.
RoutedStep ==
  \A new \in Reports, r \in Requests :
    report[new].status = "NONE" /\ report'[new].status # "NONE" /\ req'[r] # req[r] /\ r \notin stale
    => LET dto == req[r].dto
           takers == {o \in Organizations : Takes(profile[o], dto)}
           excluding == {o \in Organizations :
                           /\ profile[o].status = "ACTIVE"
                           /\ \E c \in profile[o].excludedCategories :
                                categoriesCompatible(c, dto.category)}
       IN \A o \in Organizations :
            report'[new].assignedOrganizationId = o <=>
              /\ dto.category # None /\ excluding = {}
              /\ takers = {o} \/ takers \cap Owners = {o}

LEMMA OnlyInsertCreates ==
  ASSUME IInv, Next, NEW new \in Reports, report[new].status = "NONE", report'[new].status # "NONE"
  PROVE  \E r \in Requests : insertReport(r, new)
<1>1. report \in [Reports -> ReportRows] /\ report' # report
  BY DEF IInv, IntakeTypeOK
<1>2. ASSUME NEW r \in Requests, setFirstImage(r) PROVE FALSE
  <2>1. UploadInOrder(r)
    BY <1>2 DEF setFirstImage, IInv, RequestsInOrder, CreationInOrder, IsCreation, CompletionInOrder, Idle
  <2>2. report' = [report EXCEPT ![req[r].report].image[req[r].kind] = Head(req[r].saved)]
    BY <1>1, <1>2 DEF setFirstImage
  <2>3. report[req[r].report] \in ReportRows /\ report[new] \in ReportRows
    BY <1>1, <2>1 DEF UploadInOrder
  <2> QED BY <1>1, <2>1, <2>2, <2>3 DEF ReportRows
<1>8. ASSUME NEW r \in Requests, completeReport(r) PROVE FALSE
  <2>1. /\ req[r].report \in Reports /\ report[req[r].report].status # "NONE"
    BY <1>8 DEF completeReport, IInv, RequestsInOrder, CreationInOrder, IsCreation, UploadInOrder,
                IsUpload, CompletionInOrder, Idle
  <2>2. report'[new] = report[new]
    BY <1>1, <1>8, <2>1 DEF completeReport
  <2> QED BY <2>2
<1>3. ASSUME NEW id \in Reports, StatusMoves(id) PROVE FALSE
  BY <1>1, <1>3 DEF StatusMoves
<1>4. ASSUME MonthEnds PROVE FALSE
  <2>1. report'[new] = [report[new] EXCEPT !.thisMonth = FALSE] /\ report[new] \in ReportRows
    BY <1>1, <1>4 DEF MonthEnds
  <2> QED BY <2>1 DEF ReportRows
<1>5. ASSUME NEW r \in Requests, NEW id \in Reports, insertReport(r, id) PROVE id = new
  BY <1>1, <1>5 DEF insertReport
<1>6. ASSUME NEW r \in Requests
      PROVE  /\ \A o \in Organizations, dto \in workload.drafts : ~createReport(r, o, dto)
             /\ \A id \in Reports, images \in Uploads :
                  ~uploadReportEvidence(r, id, images) /\ ~uploadCompletionEvidence(r, id, images)
             /\ \A id \in Reports, named \in workload.names : ~updateStatus(r, id, named)
             /\ \A f \in Files : ~saveBase64Image(r, f)
             /\ ~createEvidenceRecord(r) /\ ~cleanupUnpersistedEvidenceFiles(r) /\ ~Crash(r)
  BY <1>1 DEF createReport, uploadReportEvidence, uploadCompletionEvidence, updateStatus, Uploading, Start,
              saveBase64Image, createEvidenceRecord, cleanupUnpersistedEvidenceFiles, Crash
<1>7. \A o \in Organizations : ~EditOrganization(o)
  BY <1>1 DEF EditOrganization
<1> QED BY <1>2, <1>3, <1>4, <1>5, <1>6, <1>7, <1>8 DEF Next

\* A report goes to an organization exactly when that organization takes such reports, nobody
\* excludes them and it is the only taker, or the only one among the owners; for every list of
\* organizations, and every profile of an organization.
THEOREM AlwaysRoutedToTheOne == Spec => RoutedToTheOne
<1>1. IInv /\ [Next]_vars => [RoutedStep]_vars
  <2> SUFFICES ASSUME IInv, Next, NEW new \in Reports, NEW r \in Requests,
                      report[new].status = "NONE", report'[new].status # "NONE",
                      req'[r] # req[r], r \notin stale
               PROVE  \A o \in Organizations :
                        report'[new].assignedOrganizationId = o <=>
                          /\ req[r].dto.category # None /\ Excluding(profile, req[r].dto) = {}
                          /\ \/ Takers(profile, req[r].dto) = {o}
                             \/ Takers(profile, req[r].dto) \cap Owners = {o}
    BY DEF RoutedStep, Takers, Excluding
  <2>1. PICK q \in Requests : insertReport(q, new)
    BY OnlyInsertCreates
  <2>2. q = r /\ req[r].op = "createReport"
    BY <2>1 DEF insertReport, IInv, RequestsInOrder
  <2>3. CreationInOrder(r)
    BY <2>2 DEF IInv, RequestsInOrder, UploadInOrder, IsUpload, CompletionInOrder, Idle
  <2>4. report'[new].assignedOrganizationId = req[r].route.organization
    BY <2>1, <2>2 DEF insertReport, IInv, IntakeTypeOK
  <2>5. req[r].route = resolveReportResponsibility(profile, Owners, req[r].dto)
    BY <2>3 DEF CreationInOrder
  <2>6. profile \in [Organizations -> Profiles]
    BY DEF IInv, IntakeTypeOK
  <2>7. PICK dto : dto = req[r].dto
    OBVIOUS
  <2> DEFINE route == resolveReportResponsibility(profile, Owners, dto)
  <2>8. \A o \in Organizations :
          route.organization = o <=>
            /\ dto.category # None /\ Excluding(profile, dto) = {}
            /\ Takers(profile, dto) = {o} \/ Takers(profile, dto) \cap Owners = {o}
    BY <2>6, DecisionMeans
  <2>9. report'[new].assignedOrganizationId = route.organization
    BY <2>4, <2>5, <2>7
  <2> HIDE DEF route
  <2> QED BY <2>7, <2>8, <2>9
<1>2. [][RoutedStep]_vars => RoutedToTheOne
  BY PTL DEF RoutedToTheOne, RoutedStep
<1> QED BY <1>1, <1>2, Invariance, PTL DEF Spec

=============================================================================
