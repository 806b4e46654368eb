----------------------------- MODULE PlatformTools -----------------------------
(***************************************************************************)
(* The super administrator's tools (platform-tools.service.ts) beside the  *)
(* traffic that the maintenance gate lets in (maintenance.middleware.ts):  *)
(* metadata snapshots and their restoration, maintenance mode, the caches  *)
(* and the operational health check.                                       *)
(*                                                                         *)
(* A table is the set of its rows; a row is its key, the key of the row it *)
(* refers to, and its Json column.  Every await of the service is a step,  *)
(* each statement of the restoring transaction too; the last write of a    *)
(* handler and its audit entry are one.                                    *)
(* Fields of requests that only properties read (history): began, torn,    *)
(* outlived, company.                                                      *)
(***************************************************************************)
EXTENDS Naturals, Sequences, FiniteSets

CONSTANTS Requests, Backups, None,
          Table,          \* the table of every row (by its key) that a snapshot covers
          Parent,         \* the row it refers to when it is inserted, or None
          Outside,        \* rows of other tables: [parent, onDelete]
          WarningHours, CriticalHours,   \* freshness thresholds, or None
          WarningFree, CriticalFree,     \* free percent of the upload disk
          MaxClock,       \* bound on the hours that pass
          Workloads       \* [ops, seed, tables, claims, production, maxCalls]: what is enumerated together

ASSUME ToolsAssumption ==
  /\ MaxClock \in Nat /\ {WarningFree, CriticalFree} \subseteq 0..100
  /\ {WarningHours, CriticalHours} \subseteq Nat \cup {None}

VARIABLES db, outside, backup, files, cache, canaries, answers, req, clock,
          names, removed, restores, excused, calls, workload

\* names: the names given to snapshots.  History: removed, the snapshots whose file deleteBackup
\* removed; restores, those whose tables were put back; excused, the canaries left by a full disk
\* or a stopped process.
vars == <<db, outside, backup, files, cache, canaries, answers, req, clock,
          names, removed, restores, excused, calls, workload>>
disk == <<files, cache, canaries, excused>>
ledger == <<backup, names, removed, restores>>

Rows == DOMAIN Table
Roles == {"CITIZEN", "ORG_ADMIN", "SUPER_ADMIN"}
Ops == {"write", "login", "me", "backup", "delete", "restore", "maintenance", "clear", "health"}
Directories == {"api", "demo", "uploads", "temporary"}
Idle == [op |-> "idle"]

\* What becomes of the rows of each table when a row that they refer to is deleted.
OnDelete ==
  [organizations |-> [organizations |-> "SetNull"], users |-> [organizations |-> "SetNull"],
   reports |-> [organizations |-> "Restrict", users |-> "Restrict"],
   notifications |-> [users |-> "Cascade", reports |-> "SetNull"]]

ASSUME RowsAssumption ==
  /\ \A row \in Rows :
       /\ Table[row] \in DOMAIN OnDelete
       /\ Parent[row] # None =>
            Parent[row] \in Rows /\ Table[Parent[row]] \in DOMAIN OnDelete[Table[row]]
  /\ \A w \in Workloads : /\ w.seed \subseteq Rows /\ w.claims \subseteq Roles
                          /\ \A row \in w.seed : Parent[row] # None => Parent[row] \in w.seed

ASSUME NoneIsNoRow == None \notin Rows /\ None # "data"

\* What the tables, and the files of snapshots, can hold.  A value of None is a null in a nullable
\* Json column; the value of a setting is what it says yes to, or the scope of the cache.
Referring == [id: Rows, parent: Rows \cup {None}, value: {None, "data"}]
Entries == [id: Nat, parent: {None}, value: {"data"}]
Settings == [id: {"maintenance_mode", "cache_status"}, parent: {None},
             value: SUBSET {"enabled", "allowAdminBypass", "api", "all"}]

Tables ==
  [organizations: SUBSET Referring, users: SUBSET Referring, reports: SUBSET Referring,
   notifications: SUBSET Referring, demoAuditLogs: SUBSET Entries, platformSettings: SUBSET Settings]

FileRows == [tables: Tables, began: Tables, torn: SUBSET Ops]

ASSUME NoneIsNoFile == None \notin FileRows

TableNames == {"organizations", "users", "reports", "notifications", "demoAuditLogs", "platformSettings"}
EmptyTables == [t \in TableNames |-> {}]
Ids(rows) == {row.id : row \in rows}

\* Every reference is met.
ReferencesMet(tables) ==
  \A t \in TableNames : \A row \in tables[t] :
    row.parent # None => row.parent \in Ids(tables[Table[row.parent]])

-----------------------------------------------------------------------------
(* Maintenance mode.                                                       *)

Enabled(tables) ==
  \E s \in tables.platformSettings : s.id = "maintenance_mode" /\ "enabled" \in s.value

AllowAdminBypass(tables) ==
  \A s \in tables.platformSettings : s.id = "maintenance_mode" => "allowAdminBypass" \in s.value

\* Mutant: any token passes for an administrator's.
isAnyRequest(claim) == claim \in Roles

\* claim is the role that the bearer token names, which nobody has verified yet: it may be stale or
\* invented.  ORG_ADMIN stands for dispatch officers too.
isAdminRequest(claim) == claim \in {"SUPER_ADMIN", "ORG_ADMIN"}

\* The paths of setMaintenance, /auth/login and /auth/me are exempt from the gate; those of the
\* other tools are not.
Exempt == {"maintenance", "login", "me"}

passes(claim, op) ==
  \/ op \in Exempt
  \/ ~Enabled(db)
  \/ AllowAdminBypass(db) /\ isAdminRequest(claim)

\* A request that the gate answers with 503 changes nothing.
use(r, claim, op, arg) ==
  /\ op \in workload.ops /\ req[r] = Idle
  /\ passes(claim, op)
  /\ req' = [req EXCEPT ![r] = [op |-> op, claim |-> claim, arg |-> arg, call |-> calls,
                                step |-> "start", doc |-> None, began |-> None, torn |-> {},
                                outlived |-> FALSE, company |-> FALSE]]
  /\ calls' = calls + 1
  /\ UNCHANGED <<db, outside, disk, ledger, answers, clock, workload>>

At(r, op, step) == req[r] # Idle /\ req[r].op = op /\ req[r].step = step
To(r, step) == [req[r] EXCEPT !.step = step]
InTransaction(r) == At(r, "restore", "transaction")

\* The gate is closed, or closed to administrators too.
Closes(tables) ==
  Enabled(tables) /\ (~Enabled(db) \/ (AllowAdminBypass(db) /\ ~AllowAdminBypass(tables)))

\* The keys that r writes: those of the rows that change, or all when it commits a restoration.
Written(r, tables) ==
  [t \in TableNames |-> Ids(IF InTransaction(r) THEN tables[t] ELSE tables[t] \ db[t])]

\* The document of a transaction while others write keys.
Overtaken(doc, keys) == [doc EXCEPT !.late = [t \in TableNames |-> @[t] \cup keys[t]]]

\* Request r goes on as job while the tables become tables.
Continue(r, job, tables) ==
  /\ db' = tables
  /\ req' = [q \in Requests |->
       IF q = r THEN job
       ELSE IF req[q] = Idle THEN Idle
       ELSE [req[q] EXCEPT
               !.outlived = @ \/ Closes(tables),
               !.torn = IF req[q].step = "reading" /\ tables # db THEN @ \cup {req[r].op} ELSE @,
               !.doc = IF InTransaction(q) /\ tables # db THEN Overtaken(@, Written(r, tables)) ELSE @,
               !.company = @ \/ (req[q].step = "stat" /\ req[r].op = "health")]]
  /\ UNCHANGED <<clock, calls, workload>>

Entry(r) == [id |-> req[r].call, parent |-> None, value |-> "data"]
Audited(r, tables) == [tables EXCEPT !.demoAuditLogs = @ \cup {Entry(r)}]

setJsonSetting(tables, key, value) ==
  [tables EXCEPT !.platformSettings =
     {s \in @ : s.id # key} \cup {[id |-> key, parent |-> None, value |-> value]}]

-----------------------------------------------------------------------------
(* The transaction of a restoration: doc is its file, the next statement,  *)
(* the keys that it has deleted, and the keys that others have written     *)
(* since it began.                                                         *)

\* Mutants: users come before the organizations they belong to; notifications are not put back.
CreateUsersFirst ==
  <<"users", "organizations", "reports", "notifications", "demoAuditLogs", "platformSettings">>

CreateAllButNotifications ==
  <<"organizations", "users", "reports", "demoAuditLogs", "platformSettings">>

\* The order of the createMany calls, and of the deleteMany calls before them.
CreateOrder ==
  <<"organizations", "users", "reports", "notifications", "demoAuditLogs", "platformSettings">>

DeleteOrder ==
  <<"notifications", "reports", "users", "organizations", "demoAuditLogs", "platformSettings">>

\* The tables that it has filled, and all tables as it sees them: what it has not deleted, without
\* references to what it has, and what it has created.
Filled(doc) == {CreateOrder[i] : i \in {i \in DOMAIN CreateOrder : i + Len(DeleteOrder) < doc.at}}

Survivor(doc, row) ==
  [row EXCEPT !.parent = IF @ # None /\ @ \in doc.gone[Table[@]] THEN None ELSE @]

View(doc) ==
  [t \in TableNames |->
     {Survivor(doc, row) : row \in {row \in db[t] : row.id \notin doc.gone[t]}}
       \cup (IF t \in Filled(doc) THEN doc.file.tables[t] ELSE {})]

\* The keys that other transactions have deleted or created: whoever needs one of them waits.
Held(r, t) ==
  UNION {req[q].doc.gone[t] \cup (IF t \in Filled(req[q].doc) THEN Ids(req[q].doc.file.tables[t]) ELSE {}) :
         q \in {q \in Requests \ {r} : InTransaction(q)}}

-----------------------------------------------------------------------------
(* Traffic, as far as it reaches tables that a snapshot covers.            *)

setMaintenance(r) ==
  /\ At(r, "maintenance", "start") /\ "maintenance_mode" \notin Held(r, "platformSettings")
  /\ Continue(r, Idle, Audited(r, setJsonSetting(db, "maintenance_mode", req[r].arg)))
  /\ UNCHANGED <<outside, disk, ledger, answers>>

\* A sign-in, allowed or refused, leaves an entry in the audit log.
login(r) ==
  /\ At(r, "login", "start")
  /\ Continue(r, Idle, Audited(r, db))
  /\ UNCHANGED <<outside, disk, ledger, answers>>

\* A user fills in the Json column of their own row.
updateMe(r) ==
  /\ At(r, "me", "start")
  /\ \E user \in db.users :
       /\ user.id \notin Held(r, "users")
       /\ Continue(r, Idle, Audited(r, [db EXCEPT !.users =
                                          (@ \ {user}) \cup {[user EXCEPT !.value = "data"]}]))
  /\ UNCHANGED <<outside, disk, ledger, answers>>

\* Other handlers insert a row whose parent exists.
Insert(r) ==
  /\ At(r, "write", "start")
  /\ \/ \E row \in Rows, value \in {None, "data"} :
          /\ Table[row] \in workload.tables /\ row \notin Ids(db[Table[row]]) \cup Held(r, Table[row])
          /\ value = None => Table[row] \in {"organizations", "users"}
          /\ Parent[row] # None =>
               Parent[row] \in Ids(db[Table[Parent[row]]]) \ Held(r, Table[Parent[row]])
          /\ Continue(r, Idle, [db EXCEPT ![Table[row]] =
                                  @ \cup {[id |-> row, parent |-> Parent[row], value |-> value]}])
          /\ UNCHANGED outside
     \/ \E row \in DOMAIN Outside : LET parent == Outside[row].parent IN
          /\ outside[row] = "absent" /\ parent \in Ids(db[Table[parent]]) \ Held(r, Table[parent])
          /\ outside' = [outside EXCEPT ![row] = "linked"]
          /\ Continue(r, Idle, db)
  /\ UNCHANGED <<disk, ledger, answers>>

-----------------------------------------------------------------------------
(* Snapshots.                                                              *)

ReadOrder == <<"organizations", "users", "reports", "notifications", "demoAuditLogs", "platformSettings">>

createBackup(r) ==
  /\ At(r, "backup", "start")
  /\ \E b \in Backups :
       /\ b \notin names /\ \A a \in Backups : a < b => a \in names
       /\ names' = names \cup {b}
       /\ Continue(r, [To(r, "reading") EXCEPT !.arg = b, !.doc = [at |-> 1, tables |-> EmptyTables],
                                               !.began = db], db)
  /\ UNCHANGED <<outside, disk, backup, removed, restores, answers>>

\* One findMany: the tables are read one after the other, outside any transaction.
readTable(r) ==
  /\ At(r, "backup", "reading")
  /\ LET at == req[r].doc.at IN
     Continue(r, [To(r, IF at = Len(ReadOrder) THEN "read" ELSE "reading") EXCEPT
                    !.doc = [at |-> at + 1, tables |-> [@.tables EXCEPT ![ReadOrder[at]] = db[ReadOrder[at]]]]], db)
  /\ UNCHANGED <<outside, disk, ledger, answers>>

writeBackupFile(r) ==
  /\ At(r, "backup", "read")
  /\ files' = [files EXCEPT ![req[r].arg] =
                 [tables |-> req[r].doc.tables, began |-> req[r].began, torn |-> req[r].torn]]
  /\ Continue(r, To(r, "written"), db)
  /\ UNCHANGED <<outside, cache, canaries, excused, ledger, answers>>

insertBackupRow(r) ==
  /\ At(r, "backup", "written")
  /\ backup' = [backup EXCEPT ![req[r].arg] = [createdAt |-> clock, restored |-> FALSE]]
  /\ Continue(r, Idle, Audited(r, db))
  /\ UNCHANGED <<outside, disk, names, removed, restores, answers>>

\* A handler that needs a row which is not there ends with an error.
findBackup(r, step) ==
  Continue(r, IF backup[req[r].arg] = None THEN Idle ELSE To(r, step), db)

deleteBackup(r) ==
  /\ At(r, "delete", "start")
  /\ findBackup(r, "found")
  /\ UNCHANGED <<outside, disk, ledger, answers>>

removeBackupFile(r) ==
  /\ At(r, "delete", "found")
  /\ files' = [files EXCEPT ![req[r].arg] = None]
  /\ removed' = removed \cup {req[r].arg}
  /\ Continue(r, To(r, "removed"), db)
  /\ UNCHANGED <<outside, cache, canaries, excused, backup, names, restores, answers>>

deleteBackupRow(r) ==
  /\ At(r, "delete", "removed")
  /\ backup' = [backup EXCEPT ![req[r].arg] = None]
  /\ Continue(r, Idle, IF backup[req[r].arg] = None THEN db ELSE Audited(r, db))
  /\ UNCHANGED <<outside, disk, names, removed, restores, answers>>

-----------------------------------------------------------------------------
(* Restoring a snapshot.                                                   *)

\* In production a restoration is refused, and the refusal logged.
restoreBackup(r) ==
  /\ At(r, "restore", "start")
  /\ IF backup[req[r].arg] # None /\ workload.production
     THEN Continue(r, Idle, Audited(r, db)) ELSE findBackup(r, "found")
  /\ UNCHANGED <<outside, disk, ledger, answers>>

readBackupFile(r) ==
  /\ At(r, "restore", "found")
  /\ LET file == files[req[r].arg] IN
     Continue(r, IF file = None THEN Idle
                 ELSE [To(r, "transaction") EXCEPT
                         !.doc = [file |-> file, at |-> 1, gone |-> EmptyTables, late |-> EmptyTables]], db)
  /\ UNCHANGED <<outside, disk, ledger, answers>>

\* What the deletion of the rows with keys victims of table t meets: rows that it may not leave
\* behind, and rows that go with them.
Children(doc, u, t, victims) == {row \in db[u] : row.id \notin doc.gone[u] /\ row.parent \in victims}

Restricted(doc, t, victims) ==
  \/ \E u \in {u \in DOMAIN OnDelete : u # t /\ t \in DOMAIN OnDelete[u] /\ OnDelete[u][t] = "Restrict"} :
       Children(doc, u, t, victims) # {}
  \/ \E row \in DOMAIN Outside :
       outside[row] = "linked" /\ Outside[row].onDelete = "Restrict" /\ Outside[row].parent \in victims

Taken(doc, u, t, victims) ==
  CASE u = t -> victims
    [] u # t /\ u \in DOMAIN OnDelete /\ t \in DOMAIN OnDelete[u] /\ OnDelete[u][t] = "Cascade" ->
         Ids(Children(doc, u, t, victims))
    [] OTHER -> {}

\* deleteMany of the next table.  A call that waited for another restoration does not see the rows
\* that appeared meanwhile.  A refused call rolls the transaction back.
deleteMany(r) ==
  LET doc == req[r].doc  t == DeleteOrder[doc.at] IN
  /\ InTransaction(r) /\ doc.at <= Len(DeleteOrder)
  /\ \E missed \in {{}, doc.late[t]} :
       LET victims == Ids(db[t]) \ (missed \cup doc.gone[t])
           taken == [u \in TableNames |-> Taken(doc, u, t, victims)]
           moved == [doc EXCEPT !.at = @ + 1, !.gone = [u \in TableNames |-> @[u] \cup taken[u]]]
       IN /\ \A u \in TableNames : taken[u] \cap Held(r, u) = {}
          /\ Continue(r, IF Restricted(doc, t, victims) THEN Idle ELSE [req[r] EXCEPT !.doc = moved], db)
  /\ UNCHANGED <<outside, disk, ledger, answers>>

\* What createMany accepts: no null in a Json column (the file does not tell a missing value from
\* the Json null, and the client takes neither), no key that is taken, no reference to what is not there.
Accepts(doc, t) ==
  \A row \in doc.file.tables[t] :
    /\ row.value # None /\ row.id \notin Ids(View(doc)[t])
    /\ row.parent # None =>
         row.parent \in Ids(View(doc)[Table[row.parent]]) \cup Ids(doc.file.tables[t])

createMany(r) ==
  LET doc == req[r].doc  t == CreateOrder[doc.at - Len(DeleteOrder)] IN
  /\ InTransaction(r) /\ doc.at > Len(DeleteOrder)
  /\ doc.at <= Len(DeleteOrder) + Len(CreateOrder)
  /\ Ids(doc.file.tables[t]) \cap Held(r, t) = {}
  /\ Continue(r, IF Accepts(doc, t) THEN [req[r] EXCEPT !.doc.at = @ + 1] ELSE Idle, db)
  /\ UNCHANGED <<outside, disk, ledger, answers>>

\* The commit: the database never commits a reference that is not met.
replaceTables(r) ==
  LET doc == req[r].doc IN
  /\ InTransaction(r) /\ doc.at > Len(DeleteOrder) + Len(CreateOrder) /\ ReferencesMet(View(doc))
  /\ outside' = [row \in DOMAIN Outside |->
       LET parent == Outside[row].parent IN
       CASE outside[row] # "linked" \/ parent \notin doc.gone[Table[parent]] -> outside[row]
         [] outside[row] = "linked" /\ parent \in doc.gone[Table[parent]] ->
              IF Outside[row].onDelete = "Cascade" THEN "absent" ELSE "unlinked"]
  /\ restores' = restores \cup {req[r].arg}
  /\ Continue(r, [To(r, "record") EXCEPT !.outlived = @ \/ Closes(View(doc))], View(doc))
  /\ UNCHANGED <<disk, backup, names, removed, answers>>

recordRestore(r) ==
  /\ At(r, "restore", "record")
  /\ IF backup[req[r].arg] = None
     THEN UNCHANGED backup /\ Continue(r, Idle, db)
     ELSE /\ backup' = [backup EXCEPT ![req[r].arg].restored = TRUE]
          /\ Continue(r, Idle, Audited(r, db))
  /\ UNCHANGED <<outside, disk, names, removed, restores, answers>>

-----------------------------------------------------------------------------
(* Caches: every directory of the scope is removed and made again.         *)

cachePathFor(scope) == IF scope = "all" THEN <<"api", "demo", "uploads", "temporary">> ELSE <<scope>>

clearCache(r) ==
  /\ At(r, "clear", "start")
  /\ Continue(r, [To(r, "rm") EXCEPT !.doc = cachePathFor(req[r].arg)], db)
  /\ UNCHANGED <<outside, disk, ledger, answers>>

clearDirectory(r) ==
  /\ \/ /\ At(r, "clear", "rm")
        /\ cache' = [cache EXCEPT ![Head(req[r].doc)] = "missing"]
        /\ Continue(r, To(r, "mkdir"), db)
     \/ /\ At(r, "clear", "mkdir")
        /\ cache' = [cache EXCEPT ![Head(req[r].doc)] = "empty"]
        /\ Continue(r, [To(r, IF Len(req[r].doc) = 1 THEN "setting" ELSE "rm") EXCEPT !.doc = Tail(@)], db)
  /\ UNCHANGED <<outside, files, canaries, excused, ledger, answers>>

cacheCleared(r) ==
  /\ At(r, "clear", "setting") /\ "cache_status" \notin Held(r, "platformSettings")
  /\ Continue(r, Idle, Audited(r, setJsonSetting(db, "cache_status", {req[r].arg})))
  /\ UNCHANGED <<outside, disk, ledger, answers>>

-----------------------------------------------------------------------------
(* The operational health check.  Its canary is named by req[r].arg.       *)

Answer(r, state, canaryRemoved, fault) ==
  /\ answers' = answers \cup {[canary |-> req[r].arg, state |-> state, canaryRemoved |-> canaryRemoved,
                                fault |-> fault, company |-> req[r].company]}
  /\ Continue(r, Idle, db)

\* The root cannot be used; or the disk fills up between the creation of the file and its content.
writeCanary(r) ==
  /\ At(r, "health", "start")
  /\ \/ /\ canaries' = canaries \cup {req[r].arg}
        /\ Continue(r, To(r, "written"), db)
        /\ UNCHANGED <<excused, answers>>
     \/ \E left \in {{}, {req[r].arg}} :
          /\ canaries' = canaries \cup left /\ excused' = excused \cup left
          /\ Answer(r, "CRITICAL", TRUE, TRUE)
  /\ UNCHANGED <<outside, files, cache, ledger>>

\* The canary is read and unlinked; either may fail.
removeCanary(r) ==
  /\ At(r, "health", "written")
  /\ \/ /\ canaries' = canaries \ {req[r].arg}
        /\ Continue(r, To(r, "listing"), db)
     \/ /\ UNCHANGED canaries
        /\ Continue(r, To(r, "cleanup"), db)
  /\ UNCHANGED <<outside, files, cache, excused, ledger, answers>>

cleanUpCanary(r) ==
  /\ At(r, "health", "cleanup")
  /\ \E left \in {{}, {req[r].arg}} : /\ canaries' = (canaries \ {req[r].arg}) \cup left
                                     /\ Answer(r, "CRITICAL", left = {}, TRUE)
  /\ UNCHANGED <<outside, files, cache, excused, ledger>>

\* Mutant: the listing of the directory is the one made before the canary was unlinked.
listUploadsEarly(r) ==
  /\ At(r, "health", "listing")
  /\ Continue(r, [To(r, "stat") EXCEPT !.doc = canaries \cup {req[r].arg}], db)
  /\ UNCHANGED <<outside, disk, ledger, answers>>

\* directoryStats lists the upload root, which holds the canaries of other checks, ...
listUploads(r) ==
  /\ At(r, "health", "listing")
  /\ Continue(r, [To(r, "stat") EXCEPT !.doc = canaries], db)
  /\ UNCHANGED <<outside, disk, ledger, answers>>

\* ... and then looks at every file: one that is gone, or that cannot be read,
\* fails the check.
statUploads(r) ==
  /\ At(r, "health", "stat")
  /\ \/ Answer(r, IF req[r].doc \subseteq canaries THEN "HEALTHY" ELSE "CRITICAL", TRUE, FALSE)
     \/ Answer(r, "CRITICAL", TRUE, TRUE)
  /\ UNCHANGED <<outside, disk, ledger>>

diskCapacityState(freeBytes, totalBytes) ==
  IF totalBytes = 0 THEN "UNKNOWN"
  ELSE LET freePercent == (200 * freeBytes + totalBytes) \div (2 * totalBytes) IN
       IF freePercent <= CriticalFree THEN "CRITICAL" ELSE IF freePercent <= WarningFree THEN "WARNING" ELSE "HEALTHY"

LatestBackup == {b \in Backups : /\ backup[b] # None
                                 /\ \A a \in Backups : backup[a] # None => backup[a].createdAt <= backup[b].createdAt}

\* No threshold makes the freshness of a snapshot HEALTHY: it is no operational backup.
backupFreshnessState ==
  IF LatestBackup = {} THEN "UNKNOWN"
  ELSE LET ageHours == clock - backup[CHOOSE b \in LatestBackup : TRUE].createdAt IN
       CASE CriticalHours # None /\ ageHours >= CriticalHours -> "CRITICAL"
         [] ~(CriticalHours # None /\ ageHours >= CriticalHours) /\ WarningHours # None /\ ageHours >= WarningHours
              -> "WARNING"
         [] OTHER -> "UNKNOWN"

worstState(states) ==
  CASE "CRITICAL" \in states -> "CRITICAL"
    [] "CRITICAL" \notin states /\ "WARNING" \in states -> "WARNING"
    [] states \cap {"CRITICAL", "WARNING"} = {} /\ "UNKNOWN" \in states -> "UNKNOWN"
    [] OTHER -> "HEALTHY"

operationalHealth(database, uploads, capacity, freshness) ==
  worstState({"HEALTHY", database, uploads, capacity, freshness})

-----------------------------------------------------------------------------
\* The process stops, or the database or the disk fails a call: the handler ends where it is.
Crash(r) ==
  /\ req[r] # Idle
  /\ req' = [req EXCEPT ![r] = Idle]
  /\ excused' = excused \cup (IF req[r].op = "health" THEN canaries \cap {req[r].arg} ELSE {})
  /\ UNCHANGED <<db, outside, files, cache, canaries, ledger, answers, clock, calls, workload>>

Hour ==
  /\ "time" \in workload.ops /\ clock < MaxClock
  /\ clock' = clock + 1
  /\ UNCHANGED <<db, outside, disk, ledger, answers, req, calls, workload>>

Init ==
  /\ workload \in Workloads
  /\ db = [t \in TableNames |-> {[id |-> row, parent |-> Parent[row], value |-> "data"] :
                                  row \in {row \in workload.seed : Table[row] = t}}]
  /\ outside = [row \in DOMAIN Outside |-> "absent"]
  /\ backup = [b \in Backups |-> None] /\ files = [b \in Backups |-> None]
  /\ cache = [d \in Directories |-> "used"]
  /\ canaries = {} /\ answers = {} /\ req = [r \in Requests |-> Idle] /\ clock = 0
  /\ names = {} /\ removed = {} /\ restores = {} /\ excused = {} /\ calls = 0

Arrivals ==
  /\ calls < workload.maxCalls
  /\ \E r \in Requests :
       \/ \E claim \in workload.claims : use(r, claim, "write", None)
       \/ use(r, "CITIZEN", "login", None) \/ use(r, "CITIZEN", "me", None)
       \/ use(r, "SUPER_ADMIN", "backup", None)
       \/ \E b \in names, op \in {"delete", "restore"} : use(r, "SUPER_ADMIN", op, b)
       \/ \E state \in SUBSET {"enabled", "allowAdminBypass"} : use(r, "SUPER_ADMIN", "maintenance", state)
       \/ \E scope \in {"api", "all"} : use(r, "SUPER_ADMIN", "clear", scope)
       \/ use(r, "SUPER_ADMIN", "health", calls)

Steps ==
  \E r \in Requests :
    \/ setMaintenance(r) \/ login(r) \/ updateMe(r) \/ Insert(r) \/ Crash(r)
    \/ createBackup(r) \/ readTable(r) \/ writeBackupFile(r) \/ insertBackupRow(r)
    \/ deleteBackup(r) \/ removeBackupFile(r) \/ deleteBackupRow(r)
    \/ restoreBackup(r) \/ readBackupFile(r) \/ deleteMany(r) \/ createMany(r) \/ replaceTables(r)
    \/ recordRestore(r)
    \/ clearCache(r) \/ clearDirectory(r) \/ cacheCleared(r)
    \/ writeCanary(r) \/ removeCanary(r) \/ cleanUpCanary(r) \/ listUploads(r) \/ statUploads(r)

Next == Arrivals \/ Steps \/ Hour

Spec == Init /\ [][Next]_vars

-----------------------------------------------------------------------------
(* Properties.                                                             *)

\* The rows of snapshots and the settings are well formed, whatever fails and whoever deletes.
ToolsTypeOK ==
  /\ db \in Tables /\ \A t \in DOMAIN OnDelete : \A row \in db[t] : Table[row.id] = t
  /\ outside \in [DOMAIN Outside -> {"absent", "linked", "unlinked"}]
  /\ \A b \in Backups : backup[b] = None \/ backup[b] \in [createdAt : 0..MaxClock, restored : BOOLEAN]
  /\ cache \in [Directories -> {"used", "missing", "empty"}]
  /\ removed \cup restores \subseteq names /\ excused \subseteq canaries

\* A snapshot on the list (listBackups) has its file, unless a deletion has removed it: a createBackup
\* that stops halfway leaves a file without a row, never a row without a file.
ListedHasFile == \A b \in Backups : backup[b] # None /\ files[b] = None => b \in removed

\* createMany refuses a snapshot that was read while nobody wrote only for a null in one of its Json
\* columns, or for a key that someone else has written since the transaction began: the order of the
\* tables suits such a snapshot, and the deletions before made room for it.
RestorableUnlessTorn ==
  \A r \in Requests : InTransaction(r) =>
    LET doc == req[r].doc  file == doc.file IN
    \A i \in DOMAIN CreateOrder :
      /\ doc.at = Len(DeleteOrder) + i /\ file.torn = {}
      /\ \A row \in file.tables[CreateOrder[i]] : row.value # None /\ row.id \notin doc.late[CreateOrder[i]]
      => Accepts(doc, CreateOrder[i])

\* A restoration of a snapshot that was not torn brings back every row and setting as it was at the
\* moment at which createBackup started, whatever happened since; what is there besides was written
\* by others while its transaction ran.
RestoreIsExact ==
  [][\A r \in Requests :
       /\ InTransaction(r) /\ At(r, "restore", "record")' /\ req[r].doc.file.torn = {}
       => \A t \in TableNames :
            LET began == req[r].doc.file.began[t] IN
            began \subseteq db'[t] /\ Ids(db'[t] \ began) \subseteq req[r].doc.late[t]]_vars

\* restoredAt marks only snapshots whose tables were really put back: the handler records it after
\* its transaction.
RestoredMeansCommitted == \A b \in Backups : backup[b] # None /\ backup[b].restored => b \in restores

\* Under maintenance a request on a gated path changes tables only if its token claims an
\* administrator's role and the bypass is on, or if it had passed before the gate was closed to it
\* (by setMaintenance or by a restored snapshot).
GateHolds ==
  [][\A r \in Requests :
       /\ req[r] # Idle /\ req[r].op \notin {"maintenance", "login", "me"} /\ Enabled(db)
       /\ <<db, outside>>' # <<db, outside>> /\ (req'[r] = Idle \/ req'[r].step # req[r].step)
       => \/ req[r].outlived
          \/ AllowAdminBypass(db) /\ req[r].claim \in {"SUPER_ADMIN", "ORG_ADMIN"}]_vars

\* A canary stays in the upload root only while its check runs, when the answer says so, or when the
\* disk filled up while it was written or the process stopped.
CanaryAccounted ==
  \A c \in canaries \ excused :
    \/ \E r \in Requests : req[r] # Idle /\ req[r].op = "health" /\ req[r].arg = c
    \/ \E a \in answers : a.canary = c /\ ~a.canaryRemoved

\* The upload check is CRITICAL only if a call on the upload root failed, or another check was at
\* work there while this one looked at the files it had listed.
CriticalHasCause == \A a \in answers : a.state = "CRITICAL" => a.fault \/ a.company

\* The overall state never hides a failed check, a disk at its critical threshold or an outdated
\* snapshot, and is never HEALTHY: nothing the application sees is an operational backup.
HealthNotMasked ==
  LET freshness == backupFreshnessState
      outdated == CriticalHours # None /\ \E b \in Backups :
                    /\ backup[b] # None
                    /\ \A a \in Backups : backup[a] # None => clock - backup[a].createdAt >= CriticalHours
  IN \A freeBytes \in 0..4 : LET capacity == diskCapacityState(freeBytes, 20) IN
       \A database, uploads \in {"HEALTHY", "CRITICAL"} :
         LET overall == operationalHealth(database, uploads, capacity, freshness)
         IN /\ overall # "HEALTHY"
            /\ "CRITICAL" \in {database, uploads} \/ 100 * freeBytes <= 20 * CriticalFree \/ outdated
                 => overall = "CRITICAL"

\* What the tools list and answer is so, whatever fails between disk and database: types, snapshots
\* and their files, restorations that are marked, and the answers of the health check.
ToolsInv ==
  /\ ToolsTypeOK /\ ListedHasFile /\ RestoredMeansCommitted
  /\ CanaryAccounted /\ CriticalHasCause /\ HealthNotMasked

=============================================================================
