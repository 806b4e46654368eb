------------------------------- MODULE MCTenancy -------------------------------
(***************************************************************************)
(* Instances of Tenancy for TLC.                                           *)
(***************************************************************************)
EXTENDS Tenancy, TLC

CONSTANTS town, city, fitter, builder

ProvidersOf ==
  [p \in {fitter, builder} |->
     IF p = fitter THEN [organizationId |-> town, links |-> {}, categories |-> {"road"}]
     ELSE [organizationId |-> city, links |-> {town}, categories |-> {}]]

UsersOfPlans == [plan \in {"FREE", "STARTER", "PROFESSIONAL", "GOVERNMENT", "ENTERPRISE"} |->
                   CASE plan = "FREE" -> 1 [] plan = "STARTER" -> 2 [] plan = "ENTERPRISE" -> None
                     [] OTHER -> 3]

StoredOrder == <<"road", "pothole">>

\* As registered, with a mandate, and on a plan.
Town == [Absent EXCEPT !.status = "ACTIVE", !.contact = TRUE, !.state = "lagos",
                       !.enabledModules = toJson({}), !.profileData.mandates = {"road"}]

Only(row) == {[o \in Organizations |-> IF o = town THEN row ELSE Absent]}

Patch(f, value) == [g \in {f} |-> value]

\* The environment has a policy for roads, and a profile as an update can replace it has one in the
\* nested map.
FromEnvironment == [c \in Categories |-> IF c = "road" THEN "BOTH_REQUIRED" ELSE None]

Nested == [EmptyProfile EXCEPT !.otherPolicies[2]["pothole"] = "BOTH_REQUIRED"]

Mandate == [EmptyProfile EXCEPT !.mandates = {"water"}, !.excluded = {"pothole"}]

ProfilePatches ==
  {Patch("contact", FALSE), Patch("state", ""), Patch("address", TRUE), Patch("lga", "ikeja"),
   Patch("billingStatus", "SUSPENDED"), Patch("billingStatus", "PAST_DUE"),
   Patch("enabledModules", {"healthcare", "evidence_export"}), Patch("enabledModules", {}),
   Patch("profileData", Mandate), Patch("profileData", EmptyProfile)}

ZoneDto(zoneType, country, state, lga, active) ==
  [zoneType |-> zoneType, country |-> country, state |-> state, lga |-> lga, active |-> active]

ZoneDtos == {ZoneDto("LGA", None, "lagos", "ikeja", None), ZoneDto("STATE", None, "lagos", None, None),
             ZoneDto("COUNTRY", "ghana", "", None, None), ZoneDto(None, None, None, "", None),
             ZoneDto(None, "", "", None, None), ZoneDto(None, None, None, None, FALSE),
             ZoneDto("LGA", None, None, "", None)}

Config(services, default) ==
  [NoConfiguration EXCEPT !.enabledServices = services, !.defaultService = default]

Configurations == {Config({"future_legal"}, None), Config(None, "future_legal"),
                   Config({"maintenance_report", "unheard_of"}, "unheard_of")}

Assignments == {[ids |-> {"electrical", "civil_works", "plumbing_water"}, status |-> "ACTIVE"],
                [ids |-> {"plumbing"}, status |-> "PENDING"]}

Mix(ops, seeds, patches, maxCalls) ==
  [ops |-> ops, seeds |-> seeds, patches |-> patches, zones |-> ZoneDtos,
   configurations |-> Configurations, assignments |-> Assignments, maxCalls |-> maxCalls]

\* Readiness while an organization and its zones are edited; plans, upgrades and payments;
\* the writers of profileData; capabilities; and the health of a tenant.
Mixes ==
  {Mix({"create", "update", "setStatus", "zone", "suspend"}, Only(Absent) \cup Only(Town),
       ProfilePatches, 3),
   Mix({"update", "join", "requestUpgrade", "reviewUpgrade", "fulfillPayment"},
       Only([Town EXCEPT !.subscriptionPlan = "STARTER"]),
       {Patch("subscriptionPlan", "FREE"), Patch("subscriptionPlan", "PROFESSIONAL"),
        Patch("allowedUsers", 2)}, 5),
   Mix({"requestUpgrade"}, Only(Town), {}, 3),
   Mix({"update", "configure", "policy", "fulfillPayment"}, Only(Town),
       {Patch("profileData", Mandate), Patch("profileData", Nested),
        Patch("enabledModules", {"healthcare"})}, 3),
   Mix({"capabilities", "suspend"}, Only(Town), {}, 3),
   Mix({"update", "configure", "setStatus"}, Only(Town),
       {Patch("billingStatus", "PAST_DUE")}, 3)}

Symmetry == Permutations(Requests)

=============================================================================
