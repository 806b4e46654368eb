---------------------------- MODULE MCPlatformTools ----------------------------
(* Instances of PlatformTools for TLC.                                     *)
EXTENDS PlatformTools, TLC

CONSTANTS council, citizen, clerk, pothole, notice, case, message, evidence

TableOf == (council :> "organizations") @@ (citizen :> "users") @@ (clerk :> "users")
             @@ (pothole :> "reports") @@ (notice :> "notifications")

ParentOf == (council :> None) @@ (citizen :> None) @@ (clerk :> council)
              @@ (pothole :> citizen) @@ (notice :> pothole)

OutsideRows == (case :> [parent |-> citizen, onDelete |-> "Restrict"])
                 @@ (message :> [parent |-> pothole, onDelete |-> "Cascade"])
                 @@ (evidence :> [parent |-> citizen, onDelete |-> "SetNull"])

Mix(ops, seed, tables, claims, production, maxCalls) ==
  [ops |-> ops, seed |-> seed, tables |-> tables, claims |-> claims, production |-> production,
   maxCalls |-> maxCalls]

\* Restorations beside traffic, on users and reports, and on what hangs on them; deletions; production;
\* restorations beside the maintenance setting and beside gated and exempt traffic; the gate alone;
\* caches and settings; health checks; ages.
Mixes ==
  {Mix({"write", "backup", "restore"}, {council}, {"users", "reports"}, {"CITIZEN"}, FALSE, 4),
   Mix({"write", "backup", "restore"}, {council, citizen, pothole}, {"notifications"}, {"CITIZEN"}, FALSE, 3),
   Mix({"backup", "delete", "restore"}, {council}, {}, {"CITIZEN"}, FALSE, 4),
   Mix({"backup", "restore"}, {council}, {}, {"CITIZEN"}, TRUE, 3),
   Mix({"backup", "restore", "maintenance"}, {council}, {}, {"CITIZEN"}, FALSE, 4),
   Mix({"write", "me", "backup", "restore", "maintenance"}, {council}, {"users"}, {"CITIZEN", "ORG_ADMIN"}, FALSE, 3),
   Mix({"write", "login", "me", "maintenance"}, {council, clerk}, {"users"}, {"CITIZEN", "ORG_ADMIN"}, FALSE, 4),
   Mix({"clear", "maintenance"}, {council}, {}, {"CITIZEN"}, FALSE, 3),
   Mix({"health"}, {council}, {}, {"CITIZEN"}, FALSE, 3),
   Mix({"backup", "delete", "time"}, {council}, {}, {"CITIZEN"}, FALSE, 3)}

Symmetry == Permutations(Requests)

=============================================================================
