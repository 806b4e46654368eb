------------------------------- MODULE MCIntake -------------------------------
(***************************************************************************)
(* Instances of ReportIntake for TLC.                                      *)
(***************************************************************************)
EXTENDS ReportIntake, TLC

CONSTANTS works, board

Zone(active, lga, state, country) ==
  [active |-> active, lga |-> lga, state |-> state, country |-> country]

\* An organization of Lagos that is responsible for roads.
Roads == [status |-> "ACTIVE", maintenance |-> TRUE, billingStatus |-> "ACTIVE", contact |-> TRUE,
          zones |-> <<>>, lga |-> None, state |-> "lagos", country |-> "nigeria",
          mandateCategories |-> {"road"}, excludedCategories |-> {}, providers |-> {}]

\* The same with one thing changed.
Variants ==
  {Roads,
   [Roads EXCEPT !.status = "SUSPENDED"],
   [Roads EXCEPT !.billingStatus = "CANCELLED"],
   [Roads EXCEPT !.contact = FALSE],
   [Roads EXCEPT !.maintenance = FALSE],
   [Roads EXCEPT !.state = None],
   [Roads EXCEPT !.excludedCategories = {"road_signs"}],
   [Roads EXCEPT !.zones = <<Zone(FALSE, "ikeja", None, None), Zone(TRUE, "bwari", "lagos", None)>>],
   [Roads EXCEPT !.zones = <<Zone(TRUE, "bwari", None, None), Zone(TRUE, None, "lagos", None)>>],
   [Roads EXCEPT !.zones = <<Zone(TRUE, None, None, "nigeria"), Zone(TRUE, "ikeja", "fct", None)>>],
   [Roads EXCEPT !.mandateCategories = {"waste"}],
   [Roads EXCEPT !.mandateCategories = {},
                 !.providers = {[categories |-> {"drainage"}, capabilities |-> {}]}],
   [Roads EXCEPT !.mandateCategories = {},
                 !.providers = {[categories |-> {}, capabilities |-> {"civil_works"}]}],
   [Roads EXCEPT !.mandateCategories = {}]}

Draft(category, text) == [category |-> category, text |-> text, position |-> 1]

ReportedProblems ==
  {Draft("pothole", {"ikeja", "lagos"}), Draft("water", {"nigeria"}), Draft("road_signs", {"lagos"}),
   Draft(None, {"lagos"}), Draft("pothole", {}), Draft("", {"lagos"}),
   [category |-> "pothole", text |-> {"lagos"}, position |-> None]}

Geo(position, accuracy, exif, outdated, source) ==
  [position |-> position, accuracy |-> accuracy, exif |-> exif, outdated |-> outdated,
   source |-> source]

\* At the threshold, beyond it, with poor accuracy, refused, without position, and old.
Photos == {Geo(3, 0, None, FALSE, "DEVICE_GPS"), Geo(4, 0, 3, FALSE, "DEVICE_GPS"),
           Geo(5, 2, 3, FALSE, "DEVICE_GPS"), Geo(1, 9, None, FALSE, "DEVICE_GPS"),
           Geo(None, 0, None, TRUE, "UNAVAILABLE"), Geo(1, 0, 1, TRUE, "DEVICE_GPS"),
           Geo(9, 0, None, FALSE, "LEGACY")}

CategoryNames == {<<"road_signs", "road">>}

Limits == [kind \in Kinds |-> IF kind = "report-evidence" THEN 1 ELSE 2]

Pothole == Draft("pothole", {"ikeja", "lagos"})

Mix(ops, profiles, drafts, images, names, maxCalls) ==
  [ops |-> ops, profiles |-> profiles, drafts |-> drafts, images |-> images, names |-> names,
   maxCalls |-> maxCalls]

\* Every pair of organizations with every draft; routing while organizations are edited;
\* the quota; every kind of image; and overlapping uploads, of which some fail;
\* and completions that name an image, among uploads.
Mixes ==
  {Mix({"createReport", "edit"}, Variants, ReportedProblems, {}, {}, 1),
   Mix({"createReport", "edit"},
       {Roads, [Roads EXCEPT !.excludedCategories = {"road_signs"}],
        [Roads EXCEPT !.status = "SUSPENDED"]}, {Pothole}, {}, {}, 3),
   Mix({"createReport"}, {Roads}, {Pothole}, {}, {}, 4),
   Mix({"createReport", "report-completion"}, {Roads},
       {Pothole, [Pothole EXCEPT !.position = None]}, Photos, {}, 2),
   Mix({"createReport", "report-evidence", "report-completion"}, {Roads}, {Pothole},
       {Geo(1, 0, None, FALSE, "DEVICE_GPS"), Geo(1, 9, None, FALSE, "DEVICE_GPS")}, {}, 4),
   Mix({"createReport", "report-completion", "complete"}, {Roads}, {Pothole},
       {Geo(1, 0, None, FALSE, "DEVICE_GPS")}, {None, 2, Elsewhere}, 4)}

AllDrafts == UNION {w.drafts : w \in Mixes}

Symmetry == Permutations(Requests)

=============================================================================
