---------------------------- MODULE Responsibility ----------------------------
(***************************************************************************)
(* Which organization a new report is routed to: the pure decision of      *)
(* resolveReportResponsibility (report.service.ts) and of                  *)
(* routing-jurisdiction.ts.                                                *)
(*                                                                         *)
(* A location text is the set of places that it names, a category is its   *)
(* normalized form (the empty string when nothing remains of it), and      *)
(* Includes says which normalized category contains which other one as a   *)
(* substring.                                                              *)
(***************************************************************************)
EXTENDS Naturals, Sequences, FiniteSets, FiniteSetsExt

CONSTANTS None,
          Includes  \* pairs <<longer, shorter>> of normalized categories

ASSUME NoneIsNoLevel == None \notin {"LGA", "STATE", "COUNTRY"}

-----------------------------------------------------------------------------
(* Jurisdiction.                                                           *)

\* The active zones, at their places in the list.
activeRoutingJurisdictionZones(zones) == Restrict(zones, {i \in DOMAIN zones : zones[i].active})

\* Mutant: any place of a zone is enough.
matchAnyPlace(zone, text) ==
  IF text \cap ({zone.lga, zone.state, zone.country} \ {None}) # {} THEN "LGA" ELSE None

\* The most specific place of a zone decides; the level of the match, or None.
matchZone(zone, text) ==
  CASE zone.lga # None /\ zone.lga \in text -> "LGA"
    [] zone.lga = None /\ zone.state # None /\ zone.state \in text -> "STATE"
    [] /\ zone.lga = None /\ zone.state = None
       /\ zone.country # None /\ zone.country \in text -> "COUNTRY"
    [] OTHER -> None

firstMatchedZone(zones, text) ==
  LET hits == {i \in DOMAIN zones : matchZone(zones[i], text) # None} IN
  IF hits = {} THEN None ELSE matchZone(zones[Min(hits)], text)

\* The address columns of the organization, when it has no zone.
legacyFallbackZone(organization) ==
  IF organization.lga = None /\ organization.state = None THEN <<>>
  ELSE <<[active |-> TRUE, lga |-> organization.lga, state |-> organization.state,
          country |-> organization.country]>>

evaluateRoutingJurisdiction(organization, text) ==
  LET activeZones == activeRoutingJurisdictionZones(organization.zones)
      zones == IF DOMAIN activeZones # {} THEN activeZones ELSE legacyFallbackZone(organization)
  IN [configured |-> DOMAIN zones # {},
      matched    |-> text # {} /\ firstMatchedZone(zones, text) # None,
      source     |-> IF DOMAIN activeZones # {} THEN "JURISDICTION_ZONE"
                     ELSE IF DOMAIN zones # {} THEN "LEGACY_ORGANIZATION_LOCALITY" ELSE "NONE"]

-----------------------------------------------------------------------------
(* Categories and capabilities.                                            *)

ACTIVE_MAINTENANCE_CAPABILITIES ==
  {"electrical", "plumbing", "mechanical", "civil_works", "ict", "facilities"}

CATEGORY_CAPABILITY_ALIASES ==
  [alias \in {"telecom", "telecommunications", "internet", "network", "fibre", "fiber", "road",
              "pothole", "drainage", "water", "plumbing", "electrical", "electricity", "light",
              "lighting", "waste", "cleaning"} |->
     CASE alias \in {"road", "pothole"} -> {"civil_works"}
       [] alias = "drainage" -> {"civil_works", "plumbing"}
       [] alias \in {"water", "plumbing"} -> {"plumbing"}
       [] alias \in {"electrical", "electricity", "light", "lighting"} -> {"electrical"}
       [] alias \in {"waste", "cleaning"} -> {"facilities"}
       [] OTHER -> {"ict", "electrical"}]

Overlap(left, right) == left = right \/ <<left, right>> \in Includes \/ <<right, left>> \in Includes

capabilityIdsForCategory(category) ==
  UNION {CATEGORY_CAPABILITY_ALIASES[alias] :
           alias \in {a \in DOMAIN CATEGORY_CAPABILITY_ALIASES : category # "" /\ Overlap(category, a)}}

categoriesCompatible(left, right) ==
  \/ left = "" \/ right = "" \/ Overlap(left, right)
  \/ capabilityIdsForCategory(left) \cap capabilityIdsForCategory(right) # {}

Covers(categories, category) == \E c \in categories : categoriesCompatible(c, category)

\* The providers of an organization: its members and its active links, both active accounts.
explicitCapabilityBacked(organization, category) ==
  LET required == capabilityIdsForCategory(category) IN
  \E provider \in organization.providers :
    provider.capabilities
      \cap (IF required # {} THEN required ELSE ACTIVE_MAINTENANCE_CAPABILITIES) # {}

capabilityCategoryMatch(organization, category) ==
  capabilityIdsForCategory(category) # {} /\ explicitCapabilityBacked(organization, category)

inheritedCategoryMatch(organization, category) ==
  \/ category = ""
  \/ Covers(UNION {provider.categories : provider \in organization.providers}, category)

-----------------------------------------------------------------------------
(* Candidates and the decision.                                            *)

\* Why an organization does not take reports such as dto: the reasons of
\* serializeOrganizationCandidate.
exclusionReasons(organization, dto) ==
  LET jurisdiction == evaluateRoutingJurisdiction(organization, dto.text)
      mandated == Covers(organization.mandateCategories, dto.category)
      inherited == inheritedCategoryMatch(organization, dto.category)
      configured == \/ organization.mandateCategories # {}
                    \/ \E provider \in organization.providers : provider.categories # {}
                    \/ explicitCapabilityBacked(organization, dto.category)
      failing == [inactive     |-> organization.status # "ACTIVE",
                  module       |-> ~organization.maintenance,
                  billing      |-> organization.billingStatus \in {"SUSPENDED", "CANCELLED"},
                  contact      |-> ~organization.contact,
                  jurisdiction |-> ~jurisdiction.configured,
                  location     |-> dto.text = {},
                  unconfigured |-> ~configured,
                  category     |-> /\ configured /\ ~mandated /\ ~inherited
                                   /\ ~capabilityCategoryMatch(organization, dto.category),
                  excluded     |-> Covers(organization.excludedCategories, dto.category),
                  mismatch     |-> ~jurisdiction.matched]
  IN {reason \in DOMAIN failing : failing[reason]}

eligible(organization, dto) == exclusionReasons(organization, dto) = {}

\* profile: the organizations; owners: the organizations that own an asset of that kind.
resolveReportResponsibility(profile, owners, dto) ==
  LET candidates == {o \in DOMAIN profile : profile[o].status = "ACTIVE"}
      evaluated == {o \in candidates : eligible(profile[o], dto)}
      restricted == {o \in candidates : "excluded" \in exclusionReasons(profile[o], dto)}
      decisive == IF owners \cap evaluated # {} THEN owners \cap evaluated ELSE evaluated
      Result(outcome) == [outcome |-> outcome, organization |-> None]
  IN CASE dto.category = None -> Result("NO_CATEGORY")
       [] dto.category # None /\ dto.text = {} -> Result("NO_LOCATION")
       [] dto.category # None /\ dto.text # {} /\ restricted # {} ->
            Result("RESTRICTED_OR_CONFLICTED")
       [] OTHER ->
            CASE Cardinality(decisive) = 1 ->
                   [outcome |-> "HIGH_CONFIDENCE", organization |-> CHOOSE o \in decisive : TRUE]
              [] decisive = {} -> Result("UNMATCHED")
              [] OTHER -> Result("AMBIGUOUS")

-----------------------------------------------------------------------------
(* What the decision means.                                                *)

\* An organization takes a report: every requirement, said directly.
Takes(organization, dto) ==
  /\ organization.status = "ACTIVE" /\ organization.maintenance /\ organization.contact
  /\ organization.billingStatus \notin {"SUSPENDED", "CANCELLED"}
  /\ ~ \E c \in organization.excludedCategories : categoriesCompatible(c, dto.category)
  /\ \/ \E c \in organization.mandateCategories : categoriesCompatible(c, dto.category)
     \/ \E p \in organization.providers :
          \/ \E c \in p.categories : categoriesCompatible(c, dto.category)
          \/ p.capabilities \cap capabilityIdsForCategory(dto.category) # {}
          \/ dto.category = "" /\ p.capabilities \cap ACTIVE_MAINTENANCE_CAPABILITIES # {}
  /\ LET governing == {z \in Range(organization.zones) : z.active}
         areas == IF governing # {} THEN governing
                  ELSE {z \in {[lga |-> organization.lga, state |-> organization.state,
                                country |-> organization.country]} :
                          z.lga # None \/ z.state # None}
     IN \E z \in areas :
          (IF z.lga # None THEN z.lga ELSE IF z.state # None THEN z.state ELSE z.country)
            \in dto.text \ {None}

=============================================================================
