------------------------- MODULE PlatformToolsProofs -------------------------
(***************************************************************************)
(* Theorems about the super administrator's tools for every number of      *)
(* requests, snapshots and rows, and for every number of calls.            *)
(*                                                                         *)
(* A step of one request changes the others only as Continue says: what    *)
(* they rely on is shown to survive that once (OthersKeep), and the step   *)
(* of each handler then answers for its own request and rows.              *)
(***************************************************************************)
EXTENDS PlatformTools, WellFoundedInduction, TLAPS

RowTables == {"organizations", "users", "reports", "notifications"}
BackupRows == [createdAt: 0..MaxClock, restored: BOOLEAN]

\* Every row is in its own table, and refers to its own parent or to none.
InTheirTables(tables) ==
  /\ tables \in Tables
  /\ \A t \in RowTables : \A row \in tables[t] :
       Table[row.id] = t /\ (row.parent # None => row.parent = Parent[row.id])

\* A snapshot that was not torn holds the tables of the moment at which it began.
FileInOrder(file) ==
  /\ file \in FileRows /\ InTheirTables(file.tables)
  /\ InTheirTables(file.began) /\ ReferencesMet(file.began)
  /\ file.torn = {} => file.tables = file.began

IsJob(job) ==
  job = [op |-> job.op, claim |-> job.claim, arg |-> job.arg, call |-> job.call,
         step |-> job.step, doc |-> job.doc, began |-> job.began, torn |-> job.torn,
         outlived |-> job.outlived, company |-> job.company]

\* The same call goes on, as it passed the gate.
SameCall(job, old) ==
  /\ IsJob(job) /\ job.op = old.op /\ job.claim = old.claim /\ job.call = old.call
  /\ job.outlived = old.outlived

USE DEF SameCall

\* While a snapshot is read, the tables that were read are those of the start unless it is torn.
Reading(job) ==
  /\ job.arg \in names
  /\ job.doc = [at |-> job.doc.at, tables |-> job.doc.tables] /\ job.doc.at \in 1..6
  /\ InTheirTables(job.doc.tables) /\ InTheirTables(job.began) /\ ReferencesMet(job.began)
  /\ job.torn = {} =>
       /\ db = job.began
       /\ \A i \in 1..6 : i < job.doc.at => job.doc.tables[ReadOrder[i]] = job.began[ReadOrder[i]]

BackupInOrder(job) ==
  /\ job.step = "reading" => Reading(job)
  /\ job.step = "read" =>
       /\ job.arg \in names
       /\ FileInOrder([tables |-> job.doc.tables, began |-> job.began, torn |-> job.torn])
  /\ job.step = "written" => job.arg \in names /\ (files[job.arg] # None \/ job.arg \in removed)

\* The document of a restoration's transaction.
IsDoc(doc) ==
  doc = [file |-> doc.file, at |-> doc.at, gone |-> doc.gone, late |-> doc.late]

\* What is left in the tables that it has emptied was written by others since it began.
Emptied(doc, tables) ==
  \A i \in 1..6 : i < doc.at =>
    Ids(tables[DeleteOrder[i]]) \ doc.gone[DeleteOrder[i]] \subseteq doc.late[DeleteOrder[i]]

TransactionInOrder(doc) ==
  /\ IsDoc(doc) /\ FileInOrder(doc.file) /\ doc.at \in 1..13
  /\ Emptied(doc, db)

RestoreInOrder(job) ==
  /\ job.step = "transaction" => TransactionInOrder(job.doc)
  /\ job.step = "record" => job.arg \in restores

ClearInOrder(job) ==
  /\ job.arg \in {"api", "all"}
  /\ job.step \in {"rm", "mkdir"} => job.doc \in Seq(Directories) /\ job.doc # <<>>

HealthInOrder(job) ==
  /\ job.arg \in Nat /\ job.arg < calls /\ job.arg \notin excused
  /\ job.step = "stat" => job.company \/ job.doc \subseteq canaries

\* The gate as tables have it: closed, and closed to the claim of a job.
Shut(tables, claim) == Enabled(tables) /\ ~(AllowAdminBypass(tables) /\ isAdminRequest(claim))

\* A request on a gated path to which the gate is shut had passed before.
Gated(job) == job.op \notin Exempt /\ Shut(db, job.claim) => job.outlived

\* What a request in flight rests on.
JobInOrder(q) ==
  LET job == req[q] IN
  /\ IsJob(job) /\ job.op \in Ops /\ job.call \in Nat /\ job.torn \subseteq Ops
  /\ Gated(job)
  /\ job.op = "maintenance" => job.arg \in SUBSET {"enabled", "allowAdminBypass"}
  /\ job.op = "backup" => BackupInOrder(job)
  /\ job.op \in {"delete", "restore"} => job.arg \in names
  /\ job.op = "restore" => RestoreInOrder(job)
  /\ job.op = "clear" => ClearInOrder(job)
  /\ job.op = "health" => HealthInOrder(job)

RequestsInOrder ==
  /\ req = [q \in Requests |-> req[q]]
  /\ \A q \in Requests : req[q] = Idle \/ JobInOrder(q)
  /\ \A p, q \in Requests :
       /\ p # q /\ req[p] # Idle /\ req[q] # Idle /\ req[p].op = "health" /\ req[q].op = "health"
       => req[p].arg # req[q].arg

\* Whose canary it is while it is there.
CanaryHeld(c) ==
  \/ \E r \in Requests : /\ At(r, "health", "written") \/ At(r, "health", "cleanup")
                         /\ req[r].arg = c
  \/ \E a \in answers : a.canary = c /\ ~a.canaryRemoved

CanariesHeld == \A c \in canaries \ excused : CanaryHeld(c)

DatabaseInOrder ==
  InTheirTables(db) /\ ReferencesMet(db) /\ outside \in [DOMAIN Outside -> {"absent", "linked", "unlinked"}]

SnapshotsInOrder ==
  /\ backup \in [Backups -> BackupRows \cup {None}] /\ clock \in 0..MaxClock
  /\ files \in [Backups -> FileRows \cup {None}]
  /\ \A b \in Backups : files[b] = None \/ FileInOrder(files[b])
  /\ names \subseteq Backups /\ removed \subseteq names /\ restores \subseteq names
  /\ ListedHasFile /\ RestoredMeansCommitted

DiskInOrder ==
  /\ cache \in [Directories -> {"used", "missing", "empty"}] /\ excused \subseteq canaries
  /\ calls \in Nat /\ \A c \in excused : c \in Nat /\ c < calls
  /\ CriticalHasCause

\* The inductive invariant.
IInv == RequestsInOrder /\ CanariesHeld /\ DatabaseInOrder /\ SnapshotsInOrder /\ DiskInOrder

-----------------------------------------------------------------------------
(* Tables and snapshots.                                                   *)

\* A set of numbers has a least one.
LEMMA LeastNumber ==
  ASSUME NEW T \in SUBSET Nat, T # {}
  PROVE  \E x \in T : \A y \in T : x <= y
<1> DEFINE Less == {pair \in Nat \X Nat : pair[1] < pair[2]}
<1>1. IsWellFoundedOn(Less, Nat)
  BY NatLessThanWellFounded DEF OpToRel
<1> HIDE DEF Less
<1>2. PICK x \in T : \A y \in T : <<y, x>> \notin Less
  BY <1>1, WFMin
<1>3. \A y \in T : ~(y < x)
  BY <1>2 DEF Less
<1> QED BY <1>3

\* The rows of a table have the fields of that table, and the references of the four tables of
\* rows are to tables that they may refer to; entries and settings refer to nothing.
LEMMA RowFacts ==
  ASSUME NEW tables, InTheirTables(tables), NEW t \in TableNames, NEW row \in tables[t]
  PROVE  /\ row = [id |-> row.id, parent |-> row.parent, value |-> row.value]
         /\ t \in RowTables => row \in Referring
         /\ row.parent # None =>
              /\ t \in RowTables /\ row.parent \in Rows
              /\ Table[row.parent] \in RowTables \cap DOMAIN OnDelete[t]
<1>1. tables \in Tables
  BY DEF InTheirTables
<1>2. CASE t \in RowTables
  <2>1. row \in Referring
    BY <1>1, <1>2 DEF Tables, RowTables
  <2>2. row.id \in Rows /\ row = [id |-> row.id, parent |-> row.parent, value |-> row.value]
    BY <2>1 DEF Referring
  <2>3. ASSUME row.parent # None
        PROVE  row.parent \in Rows /\ Table[row.parent] \in RowTables \cap DOMAIN OnDelete[t]
    <3>1. Table[row.id] = t /\ row.parent = Parent[row.id]
      BY <1>2, <2>3 DEF InTheirTables
    <3>2. row.parent \in Rows /\ Table[row.parent] \in DOMAIN OnDelete[t] /\ Table[row.parent] \in DOMAIN OnDelete
      BY <2>2, <2>3, <3>1, RowsAssumption
    <3>3. DOMAIN OnDelete = RowTables
      BY DEF OnDelete, RowTables
    <3> QED BY <3>2, <3>3
  <2> QED BY <1>2, <2>1, <2>2, <2>3
<1>3. CASE t = "demoAuditLogs"
  BY <1>1, <1>3 DEF Tables, Entries, RowTables
<1>4. CASE t = "platformSettings"
  BY <1>1, <1>4 DEF Tables, Settings, RowTables
<1> QED BY <1>2, <1>3, <1>4 DEF TableNames, RowTables

\* Tables that keep every key of the others, whose references are theirs or met.
LEMMA ReferencesStayMet ==
  ASSUME NEW old, NEW new, InTheirTables(old), InTheirTables(new), ReferencesMet(old),
         \A t \in RowTables : Ids(old[t]) \subseteq Ids(new[t]),
         \A t \in RowTables : \A row \in new[t] :
           row.parent # None => \/ \E same \in old[t] : same.parent = row.parent
                                \/ row.parent \in Ids(old[Table[row.parent]])
  PROVE  ReferencesMet(new)
<1> SUFFICES ASSUME NEW t \in TableNames, NEW row \in new[t], row.parent # None
             PROVE  row.parent \in Ids(new[Table[row.parent]])
  BY DEF ReferencesMet
<1>1. t \in RowTables /\ Table[row.parent] \in RowTables
  BY RowFacts
<1>2. row.parent \in Ids(old[Table[row.parent]])
  BY <1>1 DEF ReferencesMet
<1> QED BY <1>1, <1>2

\* Tables that differ in the audit log and the settings only.
LEMMA SameRows ==
  ASSUME NEW old, NEW new \in Tables, InTheirTables(old), ReferencesMet(old),
         \A t \in RowTables : new[t] = old[t]
  PROVE  InTheirTables(new) /\ ReferencesMet(new)
<1>1. InTheirTables(new)
  BY DEF InTheirTables
<1> QED BY <1>1, ReferencesStayMet

LEMMA AuditedInOrder ==
  ASSUME NEW tables, InTheirTables(tables), ReferencesMet(tables), NEW r, req[r].call \in Nat
  PROVE  /\ InTheirTables(Audited(r, tables)) /\ ReferencesMet(Audited(r, tables))
         /\ Audited(r, tables).platformSettings = tables.platformSettings
<1>1. tables \in Tables
  BY DEF InTheirTables
<1>2. Entry(r) \in Entries
  BY DEF Entry, Entries
<1>3. Audited(r, tables) \in Tables /\ \A t \in RowTables : Audited(r, tables)[t] = tables[t]
  BY <1>1, <1>2 DEF Audited, Tables, RowTables
<1>4. Audited(r, tables).platformSettings = tables.platformSettings
  BY <1>1 DEF Audited, Tables
<1> QED BY <1>3, <1>4, SameRows

LEMMA SettingInOrder ==
  ASSUME NEW tables, InTheirTables(tables), ReferencesMet(tables),
         NEW key \in {"maintenance_mode", "cache_status"},
         NEW value \in SUBSET {"enabled", "allowAdminBypass", "api", "all"}
  PROVE  /\ InTheirTables(setJsonSetting(tables, key, value))
         /\ ReferencesMet(setJsonSetting(tables, key, value))
<1> DEFINE new == setJsonSetting(tables, key, value)
           setting == [id |-> key, parent |-> None, value |-> value]
<1>1. tables \in Tables
  BY DEF InTheirTables
<1>2. setting \in Settings
  BY DEF Settings
<1> HIDE DEF setting
<1>3. {s \in tables.platformSettings : s.id # key} \cup {setting} \subseteq Settings
  BY <1>1, <1>2 DEF Tables
<1>4. new = [tables EXCEPT !.platformSettings = {s \in tables.platformSettings : s.id # key} \cup {setting}]
  BY <1>1 DEF setJsonSetting, Tables, setting
<1>5. new \in Tables /\ \A t \in RowTables : new[t] = tables[t]
  BY <1>1, <1>3, <1>4 DEF Tables, RowTables
<1> QED BY <1>5, SameRows

LEMMA EmptyInOrder == InTheirTables(EmptyTables) /\ ReferencesMet(EmptyTables)
<1>1. EmptyTables \in Tables
  BY DEF EmptyTables, Tables, TableNames
<1> QED BY <1>1 DEF InTheirTables, ReferencesMet, EmptyTables, RowTables, TableNames

\* One more table is read.
ReadInto(tables, source, at) == [tables EXCEPT ![ReadOrder[at]] = source[ReadOrder[at]]]

LEMMA TableRead ==
  ASSUME NEW tables, NEW source, InTheirTables(tables), InTheirTables(source), NEW at \in 1..6
  PROVE  LET new == ReadInto(tables, source, at) IN
         /\ InTheirTables(new) /\ new[ReadOrder[at]] = source[ReadOrder[at]]
         /\ \A i \in 1..6 : i # at => new[ReadOrder[i]] = tables[ReadOrder[i]]
<1> DEFINE t == ReadOrder[at]  new == [tables EXCEPT ![t] = source[t]]
<1>1. /\ ReadOrder[1] = "organizations" /\ ReadOrder[2] = "users" /\ ReadOrder[3] = "reports"
      /\ ReadOrder[4] = "notifications" /\ ReadOrder[5] = "demoAuditLogs"
      /\ ReadOrder[6] = "platformSettings"
  BY DEF ReadOrder
<1>2. \A i \in 1..6 : i # at => ReadOrder[i] # t
  BY <1>1
<1>3. tables \in Tables /\ source \in Tables
  BY DEF InTheirTables
<1>4. new \in Tables
  BY <1>1, <1>3 DEF Tables
<1>5. t \in DOMAIN tables
  BY <1>1, <1>3 DEF Tables
<1>6. new[t] = source[t] /\ \A u \in DOMAIN tables : u # t => new[u] = tables[u]
  BY <1>5
<1>7. \A i \in 1..6 : ReadOrder[i] \in DOMAIN tables
  BY <1>1, <1>3 DEF Tables
<1>8. RowTables \subseteq DOMAIN tables
  BY <1>3 DEF Tables, RowTables
<1> HIDE DEF new
<1>9. InTheirTables(new)
  BY <1>4, <1>6, <1>8 DEF InTheirTables
<1> QED BY <1>2, <1>6, <1>7, <1>9 DEF new, ReadInto

\* Tables that agree in all six are the same.
LEMMA SameTables ==
  ASSUME NEW a \in Tables, NEW b \in Tables,
         \A i \in 1..6 : a[ReadOrder[i]] = b[ReadOrder[i]]
  PROVE  a = b
<1>1. /\ a["organizations"] = b["organizations"] /\ a["users"] = b["users"]
      /\ a["reports"] = b["reports"] /\ a["notifications"] = b["notifications"]
      /\ a["demoAuditLogs"] = b["demoAuditLogs"] /\ a["platformSettings"] = b["platformSettings"]
  <2>1. /\ ReadOrder[1] = "organizations" /\ ReadOrder[2] = "users" /\ ReadOrder[3] = "reports"
        /\ ReadOrder[4] = "notifications" /\ ReadOrder[5] = "demoAuditLogs"
        /\ ReadOrder[6] = "platformSettings"
    BY DEF ReadOrder
  <2>2. 1 \in 1..6 /\ 2 \in 1..6 /\ 3 \in 1..6 /\ 4 \in 1..6 /\ 5 \in 1..6 /\ 6 \in 1..6
    OBVIOUS
  <2> QED BY <2>1, <2>2
<1> QED BY <1>1 DEF Tables

-----------------------------------------------------------------------------
(* What the others keep.                                                   *)

\* The document of a restoration's transaction, while others change the tables.
Followed(new, old) ==
  /\ IsDoc(new) /\ new.file = old.file /\ new.at = old.at /\ new.gone = old.gone
  /\ \A t \in TableNames : /\ old.late[t] \subseteq new.late[t]
                           /\ Ids(db'[t]) \ Ids(db[t]) \subseteq new.late[t]

\* A request that another one's step leaves where it is: history fields only grow, and they
\* say when the tables changed under a snapshot that is read or under a restoration, when the gate
\* was closed, and when a health check was at work beside another.
Kept(q, r) ==
  LET old == req[q]  new == req'[q] IN
  /\ IsJob(new) /\ new.op = old.op /\ new.claim = old.claim /\ new.call = old.call
  /\ new.arg = old.arg /\ new.step = old.step /\ new.began = old.began /\ new.torn \subseteq Ops
  /\ IF InTransaction(q) THEN Followed(new.doc, old.doc) ELSE new.doc = old.doc
  /\ old.torn \subseteq new.torn /\ (old.step = "reading" /\ db' # db => new.torn # {})
  /\ old.outlived \/ (Shut(db, old.claim)' /\ ~Shut(db, old.claim)) => new.outlived
  /\ old.company \/ (old.step = "stat" /\ req[r] # Idle /\ req[r].op = "health") => new.company

\* A step of r takes nothing away that others rely on.
Gentle(r) ==
  /\ names \subseteq names' /\ restores \subseteq restores'
  /\ \A b \in Backups : files[b] # None \/ b \in removed => files'[b] # None \/ b \in removed'
  /\ calls \in Nat /\ calls' \in Nat /\ calls <= calls'
  /\ \A c \in excused' \ excused : req[r] # Idle /\ req[r].op = "health" /\ c = req[r].arg
  /\ canaries \subseteq canaries' \/ (req[r] # Idle /\ req[r].op = "health")

\* The tables that a restoration empties, in order.
LEMMA DeleteOrderIs ==
  /\ DeleteOrder[1] = "notifications" /\ DeleteOrder[2] = "reports" /\ DeleteOrder[3] = "users"
  /\ DeleteOrder[4] = "organizations" /\ DeleteOrder[5] = "demoAuditLogs"
  /\ DeleteOrder[6] = "platformSettings" /\ Len(DeleteOrder) = 6
  /\ \A i \in 1..6 : DeleteOrder[i] \in TableNames
  /\ \A t \in TableNames : \E i \in 1..6 : t = DeleteOrder[i]
<1>1. /\ DeleteOrder[1] = "notifications" /\ DeleteOrder[2] = "reports" /\ DeleteOrder[3] = "users"
      /\ DeleteOrder[4] = "organizations" /\ DeleteOrder[5] = "demoAuditLogs"
      /\ DeleteOrder[6] = "platformSettings" /\ Len(DeleteOrder) = 6
  BY DEF DeleteOrder
<1>2. 1 \in 1..6 /\ 2 \in 1..6 /\ 3 \in 1..6 /\ 4 \in 1..6 /\ 5 \in 1..6 /\ 6 \in 1..6
      /\ \A i \in 1..6 : i = 1 \/ i = 2 \/ i = 3 \/ i = 4 \/ i = 5 \/ i = 6
  OBVIOUS
<1>3. \A i \in 1..6 : DeleteOrder[i] \in TableNames
  BY <1>1, <1>2 DEF TableNames
<1>4. \A t \in TableNames : \E i \in 1..6 : t = DeleteOrder[i]
  BY <1>1, <1>2 DEF TableNames
<1> QED BY <1>1, <1>3, <1>4

LEMMA FollowedInOrder ==
  ASSUME NEW old, NEW new, TransactionInOrder(old), Followed(new, old)
  PROVE  TransactionInOrder(new)'
<1>1. ASSUME NEW i \in 1..6, i < new.at
      PROVE  Ids(db'[DeleteOrder[i]]) \ new.gone[DeleteOrder[i]] \subseteq new.late[DeleteOrder[i]]
  <2> DEFINE t == DeleteOrder[i]
  <2>1. t \in TableNames
    BY DeleteOrderIs
  <2>2. Ids(db[t]) \ old.gone[t] \subseteq old.late[t]
    BY <1>1 DEF TransactionInOrder, Emptied, Followed
  <2>3. /\ new.gone = old.gone /\ old.late[t] \subseteq new.late[t]
        /\ Ids(db'[t]) \ Ids(db[t]) \subseteq new.late[t]
    BY <2>1 DEF Followed
  <2> HIDE DEF t
  <2>4. Ids(db'[t]) \ new.gone[t] \subseteq new.late[t]
    BY <2>2, <2>3
  <2> QED BY <2>4 DEF t
<1>2. IsDoc(new) /\ FileInOrder(new.file) /\ new.at \in 1..13
  BY DEF TransactionInOrder, Followed
<1>3. Emptied(new, db')
  BY <1>1 DEF Emptied
<1> QED BY <1>2, <1>3 DEF TransactionInOrder

LEMMA OthersKeep ==
  ASSUME IInv, NEW r \in Requests, NEW q \in Requests \ {r}, req[q] # Idle,
         Kept(q, r), Gentle(r)
  PROVE  JobInOrder(q)'
<1> USE DEF IInv, RequestsInOrder
<1> DEFINE old == req[q]  new == req'[q]
<1>1. JobInOrder(q)
  OBVIOUS
<1>2. /\ IsJob(new) /\ new.op = old.op /\ new.claim = old.claim /\ new.call = old.call
      /\ new.arg = old.arg /\ new.step = old.step /\ new.began = old.began
      /\ new.torn \subseteq Ops
      /\ old.torn \subseteq new.torn /\ (old.step = "reading" /\ db' # db => new.torn # {})
  BY DEF Kept
<1>3. /\ IsJob(req[q])' /\ req'[q].op \in Ops /\ req'[q].call \in Nat
      /\ req'[q].torn \subseteq Ops
      /\ req'[q].op = "maintenance" => req'[q].arg \in SUBSET {"enabled", "allowAdminBypass"}
      /\ req'[q].op \in {"delete", "restore"} => req'[q].arg \in names'
  BY <1>1, <1>2 DEF JobInOrder, Gentle, IsJob
<1>4. Gated(req[q])'
  BY <1>1, <1>2 DEF JobInOrder, Kept, Gated
<1>5. ASSUME old.op = "backup" PROVE BackupInOrder(req[q])'
  <2>0. BackupInOrder(old) /\ new.doc = old.doc
    BY <1>1, <1>5 DEF JobInOrder, Kept, InTransaction, At
  <2>1. ASSUME old.step = "reading" PROVE Reading(req[q])'
    <3>1. Reading(old)
      BY <2>0, <2>1 DEF BackupInOrder
    <3>2. new.torn = {} => db' = db /\ old.torn = {}
      BY <1>2, <2>1
    <3> QED BY <1>2, <2>0, <3>1, <3>2 DEF Reading, Gentle
  <2>2. ASSUME old.step = "read"
        PROVE  /\ new.arg \in names'
               /\ FileInOrder([tables |-> new.doc.tables, began |-> new.began, torn |-> new.torn])
    <3> DEFINE before == [tables |-> old.doc.tables, began |-> old.began, torn |-> old.torn]
               after == [tables |-> new.doc.tables, began |-> new.began, torn |-> new.torn]
    <3>1. old.arg \in names /\ FileInOrder(before)
      BY <2>0, <2>2 DEF BackupInOrder
    <3>2. /\ before.tables = after.tables /\ before.began = after.began
          /\ after.torn \subseteq Ops /\ before.torn \subseteq after.torn
      BY <1>2, <2>0
    <3>3. after \in FileRows
      BY <1>2, <2>0, <3>1 DEF FileInOrder, FileRows
    <3> HIDE DEF before, after
    <3>4. FileInOrder(after)
      BY <3>1, <3>2, <3>3 DEF FileInOrder
    <3> QED BY <1>2, <3>1, <3>4 DEF Gentle, after
  <2>3. old.step = "written" => new.arg \in names' /\ (files'[new.arg] # None \/ new.arg \in removed')
    BY <1>2, <2>0 DEF BackupInOrder, Gentle, SnapshotsInOrder
  <2> QED BY <1>2, <2>1, <2>2, <2>3 DEF BackupInOrder
<1>6. ASSUME old.op = "restore" PROVE RestoreInOrder(req[q])'
  <2>1. RestoreInOrder(old)
    BY <1>1, <1>6 DEF JobInOrder
  <2>2. ASSUME old.step = "transaction" PROVE TransactionInOrder(req[q].doc)'
    <3>1. InTransaction(q) /\ TransactionInOrder(old.doc)
      BY <1>6, <2>1, <2>2 DEF InTransaction, At, RestoreInOrder
    <3>2. PICK doc, before : doc = new.doc /\ before = old.doc
      OBVIOUS
    <3>3. Followed(doc, before) /\ TransactionInOrder(before)
      BY <3>1, <3>2 DEF Kept
    <3>4. TransactionInOrder(doc)'
      BY <3>3, FollowedInOrder
    <3> QED BY <3>2, <3>4 DEF TransactionInOrder
  <2>3. old.step = "record" => new.arg \in restores'
    BY <1>2, <2>1 DEF RestoreInOrder, Gentle
  <2> QED BY <1>2, <2>2, <2>3 DEF RestoreInOrder
<1>7. ASSUME old.op = "clear" PROVE ClearInOrder(req[q])'
  BY <1>1, <1>2, <1>7 DEF JobInOrder, ClearInOrder, Kept, InTransaction, At
<1>8. ASSUME old.op = "health" PROVE HealthInOrder(req[q])'
  <2>1. HealthInOrder(old) /\ new.doc = old.doc
    BY <1>1, <1>8 DEF JobInOrder, Kept, InTransaction, At
  <2>2. old.arg \notin excused'
    BY <1>8, <2>1 DEF Gentle, HealthInOrder
  <2>3. old.step = "stat" => new.company \/ new.doc \subseteq canaries'
    BY <1>2, <1>8, <2>1 DEF Gentle, HealthInOrder, Kept
  <2>4. new.arg \in Nat /\ new.arg < calls'
    BY <1>2, <2>1 DEF Gentle, HealthInOrder
  <2> QED BY <1>2, <2>2, <2>3, <2>4 DEF HealthInOrder
<1> QED BY <1>2, <1>3, <1>4, <1>5, <1>6, <1>7, <1>8 DEF JobInOrder

\* When tables shut the gate to a claim to which it was open, they close it.
LEMMA ShutCloses ==
  ASSUME NEW tables, NEW claim, Shut(tables, claim), ~Shut(db, claim)
  PROVE  Closes(tables)
BY DEF Shut, Closes

\* What Continue does to the others.
LEMMA ContinueKeeps ==
  ASSUME IInv, NEW r \in Requests, req[r] # Idle, NEW job, NEW tables, Continue(r, job, tables),
         NEW q \in Requests \ {r}
  PROVE  IF req[q] = Idle THEN req'[q] = Idle ELSE Kept(q, r) /\ req'[q] # Idle
<1> USE DEF IInv, RequestsInOrder
<1>1. CASE req[q] = Idle
  BY <1>1 DEF Continue
<1>2. CASE req[q] # Idle
  <2> DEFINE old == req[q]
             outlived == old.outlived \/ Closes(tables)
             torn == IF old.step = "reading" /\ tables # db THEN old.torn \cup {req[r].op} ELSE old.torn
             late == [t \in TableNames |-> old.doc.late[t] \cup Written(r, tables)[t]]
             doc == IF InTransaction(q) /\ tables # db
                    THEN Overtaken(old.doc, Written(r, tables)) ELSE old.doc
             company == old.company \/ (old.step = "stat" /\ req[r].op = "health")
  <2>1. JobInOrder(q) /\ JobInOrder(r)
    BY <1>2
  <2>2. IsJob(old) /\ old.torn \subseteq Ops /\ req[r].op \in Ops /\ old.op \in Ops
    BY <2>1 DEF JobInOrder
  <2>3. db' = tables /\ req'[q] = [old EXCEPT !.outlived = outlived, !.torn = torn,
                                              !.doc = doc, !.company = company]
    BY <1>2 DEF Continue
  <2>4. req'[q] = [op |-> old.op, claim |-> old.claim, arg |-> old.arg, call |-> old.call,
                   step |-> old.step, doc |-> doc, began |-> old.began, torn |-> torn,
                   outlived |-> outlived, company |-> company]
    <3> HIDE DEF outlived, torn, company, doc
    <3> QED BY <2>2, <2>3 DEF IsJob
  <2>5. /\ torn \subseteq Ops /\ old.torn \subseteq torn
        /\ old.step = "reading" /\ tables # db => torn # {}
    BY <2>2
  <2>6. /\ old.outlived \/ Closes(tables) => outlived
        /\ old.company \/ (old.step = "stat" /\ req[r].op = "health") => company
    OBVIOUS
  <2>7. IF InTransaction(q) THEN Followed(doc, old.doc) ELSE doc = old.doc
    <3>1. CASE ~InTransaction(q)
      BY <3>1
    <3>2. CASE InTransaction(q) /\ tables = db
      <4>1. doc = old.doc /\ db' = db
        BY <2>3, <3>2
      <4>2. IsDoc(old.doc)
        BY <2>1, <3>2 DEF JobInOrder, InTransaction, At, RestoreInOrder, TransactionInOrder
      <4> HIDE DEF doc
      <4> QED BY <3>2, <4>1, <4>2 DEF Followed
    <3>3. CASE InTransaction(q) /\ tables # db
      <4>1. IsDoc(old.doc)
        BY <2>1, <3>3 DEF JobInOrder, InTransaction, At, RestoreInOrder, TransactionInOrder
      <4>2. doc = [old.doc EXCEPT !.late = late]
        BY <3>3 DEF Overtaken
      <4> HIDE DEF late, doc
      <4>3. doc = [file |-> old.doc.file, at |-> old.doc.at, gone |-> old.doc.gone, late |-> late]
        BY <4>1, <4>2 DEF IsDoc
      <4>4. ASSUME NEW t \in TableNames
            PROVE  old.doc.late[t] \subseteq late[t] /\ Ids(tables[t]) \ Ids(db[t]) \subseteq late[t]
        <5>1. late[t] = old.doc.late[t] \cup Written(r, tables)[t]
          BY DEF late
        <5>2. Ids(tables[t]) \ Ids(db[t]) \subseteq Written(r, tables)[t]
          BY DEF Written, Ids
        <5> QED BY <5>1, <5>2
      <4>5. IsDoc(doc) /\ doc.file = old.doc.file /\ doc.at = old.doc.at
            /\ doc.gone = old.doc.gone /\ doc.late = late
        BY <4>3 DEF IsDoc
      <4> QED BY <2>3, <3>3, <4>4, <4>5 DEF Followed
    <3> QED BY <3>1, <3>2, <3>3
  <2> HIDE DEF outlived, torn, company, doc
  <2>8. /\ req'[q].outlived = outlived /\ req'[q].company = company /\ req'[q].torn = torn
        /\ req'[q].doc = doc
    BY <2>4
  <2>9. Shut(db, old.claim)' /\ ~Shut(db, old.claim) => outlived
    <3>1. Shut(db, old.claim)' => Shut(tables, old.claim)
      BY <2>3, <2>4 DEF Shut, Enabled, AllowAdminBypass
    <3> QED BY <2>6, <3>1, ShutCloses
  <2>10. /\ IsJob(req'[q]) /\ req'[q].op = old.op /\ req'[q].claim = old.claim /\ req'[q].call = old.call
         /\ req'[q].arg = old.arg /\ req'[q].step = old.step /\ req'[q].began = old.began
    BY <2>4 DEF IsJob
  <2>11. Kept(q, r)
    BY <2>3, <2>5, <2>6, <2>7, <2>8, <2>9, <2>10 DEF Kept
  <2> QED BY <1>2, <2>2, <2>10, <2>11 DEF Ops, Idle
<1> QED BY <1>1, <1>2

\* The step of r keeps the invariant when its rows and its own request are in order.
LEMMA StepKeeps ==
  ASSUME IInv, NEW r \in Requests, req[r] # Idle, NEW job, NEW tables, Continue(r, job, tables),
         Gentle(r), job = Idle \/ JobInOrder(r)',
         job # Idle /\ job.op = "health" => req[r].op = "health" /\ job.arg = req[r].arg,
         CanariesHeld', DatabaseInOrder', SnapshotsInOrder', DiskInOrder'
  PROVE  IInv'
<1>1. req' = [q \in Requests |-> req'[q]] /\ req'[r] = job
  BY DEF Continue
<1>2. \A q \in Requests \ {r} : IF req[q] = Idle THEN req'[q] = Idle
                                ELSE Kept(q, r) /\ req'[q] # Idle
  BY ContinueKeeps
<1>3. \A q \in Requests \ {r} : req'[q] = Idle \/ JobInOrder(q)'
  BY <1>2, OthersKeep
<1>4. \A q \in Requests : req'[q] = Idle \/ JobInOrder(q)'
  BY <1>1, <1>3
<1>5. \A q \in Requests : req'[q] # Idle /\ req'[q].op = "health" =>
        req[q] # Idle /\ req[q].op = "health" /\ req'[q].arg = req[q].arg
  BY <1>1, <1>2 DEF Kept
<1>6. RequestsInOrder'
  BY <1>1, <1>4, <1>5 DEF RequestsInOrder, IInv
<1> QED BY <1>6 DEF IInv

\* A canary is held as before when r is not about to give it up.
LEMMA HeldStays ==
  ASSUME IInv, NEW r \in Requests, req[r] # Idle, NEW job, NEW tables, Continue(r, job, tables),
         answers \subseteq answers', NEW c \in canaries \ excused,
         (~At(r, "health", "written") /\ ~At(r, "health", "cleanup")) \/ req[r].arg # c
  PROVE  CanaryHeld(c)'
<1>1. ASSUME NEW q \in Requests, At(q, "health", "written") \/ At(q, "health", "cleanup"), q # r
      PROVE  (At(q, "health", "written")' \/ At(q, "health", "cleanup")') /\ req'[q].arg = req[q].arg
  <2>1. req[q] # Idle
    BY <1>1 DEF At
  <2>2. Kept(q, r) /\ req'[q] # Idle
    BY <1>1, <2>1, ContinueKeeps
  <2> QED BY <1>1, <2>2 DEF Kept, At
<1>2. CanaryHeld(c)
  BY DEF IInv, CanariesHeld
<1> QED BY <1>1, <1>2 DEF CanaryHeld

LEMMA CanariesStay ==
  ASSUME IInv, NEW r \in Requests, req[r] # Idle, NEW job, NEW tables, Continue(r, job, tables),
         UNCHANGED <<canaries, excused>>, answers \subseteq answers',
         ~At(r, "health", "written"), ~At(r, "health", "cleanup")
  PROVE  CanariesHeld'
BY HeldStays DEF CanariesHeld

LEMMA DiskStays ==
  ASSUME IInv, UNCHANGED <<disk, answers, calls>>
  PROVE  DiskInOrder'
BY DEF IInv, DiskInOrder, disk, CriticalHasCause

LEMMA SnapshotsStay ==
  ASSUME IInv, UNCHANGED <<files, ledger, clock>>
  PROVE  SnapshotsInOrder'
BY DEF IInv, SnapshotsInOrder, ledger, ListedHasFile, RestoredMeansCommitted

LEMMA GentleStays ==
  ASSUME IInv, NEW r, UNCHANGED <<disk, ledger, calls>>
  PROVE  Gentle(r)
BY DEF Gentle, disk, ledger, IInv, DiskInOrder

\* A step that writes no file and no row of a snapshot.
LEMMA QuietStep ==
  ASSUME IInv, NEW r \in Requests, req[r] # Idle, NEW job, NEW tables, Continue(r, job, tables),
         UNCHANGED <<disk, ledger, answers>>,
         outside' \in [DOMAIN Outside -> {"absent", "linked", "unlinked"}],
         InTheirTables(tables), ReferencesMet(tables),
         job = Idle \/ JobInOrder(r)',
         job # Idle => job.op = req[r].op /\ job.arg = req[r].arg,
         ~At(r, "health", "written"), ~At(r, "health", "cleanup")
  PROVE  IInv'
<1>1. UNCHANGED <<clock, calls>> /\ db' = tables
  BY DEF Continue
<1>2. DiskInOrder' /\ SnapshotsInOrder'
  BY <1>1, DiskStays, SnapshotsStay DEF disk
<1>3. CanariesHeld'
  BY CanariesStay DEF disk
<1>4. Gentle(r)
  BY <1>1, GentleStays
<1>5. DatabaseInOrder'
  BY <1>1 DEF DatabaseInOrder
<1> QED BY <1>2, <1>3, <1>4, <1>5, StepKeeps

\* The request r itself: a shape, and the step it goes to.
LEMMA ToInOrder ==
  ASSUME IInv, NEW r \in Requests, req[r] # Idle, NEW step
  PROVE  /\ SameCall(To(r, step), req[r])
         /\ To(r, step).arg = req[r].arg /\ To(r, step).step = step /\ To(r, step).doc = req[r].doc
         /\ To(r, step).began = req[r].began /\ To(r, step).torn = req[r].torn
         /\ To(r, step).outlived = req[r].outlived /\ To(r, step).company = req[r].company
<1> DEFINE old == req[r]
<1>1. IsJob(old)
  BY DEF IInv, RequestsInOrder, JobInOrder
<1>2. To(r, step) = [op |-> old.op, claim |-> old.claim, arg |-> old.arg, call |-> old.call,
                     step |-> step, doc |-> old.doc, began |-> old.began, torn |-> old.torn,
                     outlived |-> old.outlived, company |-> old.company]
  BY <1>1 DEF To, IsJob
<1> HIDE DEF old
<1>3. IsJob(To(r, step))
  BY <1>2 DEF IsJob
<1>4. /\ To(r, step).op = old.op /\ To(r, step).claim = old.claim
      /\ To(r, step).call = old.call /\ To(r, step).arg = old.arg
      /\ To(r, step).step = step /\ To(r, step).doc = old.doc /\ To(r, step).began = old.began
      /\ To(r, step).torn = old.torn /\ To(r, step).outlived = old.outlived
      /\ To(r, step).company = old.company
  BY <1>2
<1> QED BY <1>3, <1>4 DEF old

ToWith(r, step, doc) == [To(r, step) EXCEPT !.doc = doc]

LEMMA DocInOrder ==
  ASSUME IInv, NEW r \in Requests, req[r] # Idle, NEW step, NEW doc, NEW job,
         job = ToWith(r, step, doc)
  PROVE  /\ SameCall(job, req[r])
         /\ job.arg = req[r].arg /\ job.step = step /\ job.doc = doc
         /\ job.began = req[r].began /\ job.torn = req[r].torn
<1> DEFINE old == To(r, step)
<1>1. /\ SameCall(old, req[r])
      /\ old.arg = req[r].arg /\ old.step = step
      /\ old.began = req[r].began /\ old.torn = req[r].torn
  BY ToInOrder
<1> HIDE DEF old
<1>2. job = [op |-> old.op, claim |-> old.claim, arg |-> old.arg, call |-> old.call, step |-> old.step,
             doc |-> doc, began |-> old.began, torn |-> old.torn,
             outlived |-> old.outlived, company |-> old.company]
  BY <1>1 DEF IsJob, old, ToWith
<1>3. IsJob(job)
  BY <1>2 DEF IsJob
<1> QED BY <1>1, <1>2, <1>3

\* The request of r goes on as it passed the gate, with what its own operation asks for.
LEMMA OwnJobInOrder ==
  ASSUME IInv, NEW r \in Requests, req[r] # Idle, NEW job, req'[r] = job,
         IsJob(job), job.op = req[r].op, job.call = req[r].call, job.torn \subseteq Ops,
         (job.claim = req[r].claim /\ job.outlived = req[r].outlived /\ db' = db) \/ Gated(req[r])',
         job.op \in {"backup", "delete", "restore", "clear", "health"},
         job.op = "backup" => BackupInOrder(req[r])',
         job.op \in {"delete", "restore"} => job.arg \in names',
         job.op = "restore" => RestoreInOrder(req[r])',
         job.op = "clear" => ClearInOrder(req[r])',
         job.op = "health" => HealthInOrder(req[r])'
  PROVE  JobInOrder(r)'
<1>1. JobInOrder(r)
  BY DEF IInv, RequestsInOrder
<1>2. Gated(req[r])'
  <2>1. CASE job.claim = req[r].claim /\ job.outlived = req[r].outlived /\ db' = db
    <3>1. Shut(db, req[r].claim)' => Shut(db, req[r].claim)
      BY <2>1 DEF Shut, Enabled, AllowAdminBypass
    <3> QED BY <1>1, <2>1, <3>1 DEF JobInOrder, Gated
  <2> QED BY <2>1
<1> QED BY <1>1, <1>2 DEF JobInOrder, Ops, IsJob

-----------------------------------------------------------------------------
(* Steps that write no file and no row of a snapshot.                      *)

\* The database and the call of a request in flight.
LEMMA Standing ==
  ASSUME IInv, NEW r \in Requests, req[r] # Idle
  PROVE  /\ InTheirTables(db) /\ ReferencesMet(db) /\ db \in Tables
         /\ outside \in [DOMAIN Outside -> {"absent", "linked", "unlinked"}]
         /\ JobInOrder(r) /\ req[r].call \in Nat
BY DEF IInv, RequestsInOrder, DatabaseInOrder, InTheirTables, JobInOrder

LEMMA MaintenanceKeeps ==
  ASSUME IInv, NEW r \in Requests, setMaintenance(r)
  PROVE  IInv'
<1> DEFINE tables == Audited(r, setJsonSetting(db, "maintenance_mode", req[r].arg))
<1>1. At(r, "maintenance", "start") /\ req[r] # Idle /\ Continue(r, Idle, tables)
  BY DEF setMaintenance, At
<1>2. req[r].arg \in SUBSET {"enabled", "allowAdminBypass", "api", "all"}
  BY <1>1, Standing DEF JobInOrder, At
<1>3. InTheirTables(tables) /\ ReferencesMet(tables)
  BY <1>1, <1>2, Standing, SettingInOrder, AuditedInOrder
<1>4. UNCHANGED <<disk, ledger, answers>> /\ outside' = outside
  BY DEF setMaintenance
<1>5. ~At(r, "health", "written") /\ ~At(r, "health", "cleanup")
  BY <1>1 DEF At
<1> HIDE DEF tables
<1> QED BY <1>1, <1>3, <1>4, <1>5, Standing, QuietStep

LEMMA LoginKeeps ==
  ASSUME IInv, NEW r \in Requests, login(r)
  PROVE  IInv'
<1>1. At(r, "login", "start") /\ req[r] # Idle /\ Continue(r, Idle, Audited(r, db))
      /\ UNCHANGED <<outside, disk, ledger, answers>>
  BY DEF login, At
<1>2. InTheirTables(Audited(r, db)) /\ ReferencesMet(Audited(r, db))
  BY <1>1, Standing, AuditedInOrder
<1>3. ~At(r, "health", "written") /\ ~At(r, "health", "cleanup")
  BY <1>1 DEF At
<1> QED BY <1>1, <1>2, <1>3, Standing, QuietStep

LEMMA UpdateMeKeeps ==
  ASSUME IInv, NEW r \in Requests, updateMe(r)
  PROVE  IInv'
<1>1. At(r, "me", "start") /\ req[r] # Idle /\ UNCHANGED <<outside, disk, ledger, answers>>
  BY DEF updateMe, At
<1>2. PICK user \in db.users :
        Continue(r, Idle, Audited(r, [db EXCEPT !.users =
                                        (@ \ {user}) \cup {[user EXCEPT !.value = "data"]}]))
  BY DEF updateMe
<1> DEFINE changed == [user EXCEPT !.value = "data"]
           new == [db EXCEPT !.users = (@ \ {user}) \cup {changed}]
<1>3. InTheirTables(db) /\ ReferencesMet(db) /\ db \in Tables
  BY <1>1, Standing
<1>4. user \in Referring
  BY <1>3 DEF Tables
<1>5. changed \in Referring /\ changed.id = user.id /\ changed.parent = user.parent
  BY <1>4 DEF Referring
<1> HIDE DEF changed
<1>6. new \in Tables
  BY <1>3, <1>5 DEF Tables
<1>7. new.users = (db.users \ {user}) \cup {changed} /\ \A u \in RowTables : u # "users" => new[u] = db[u]
  BY <1>3 DEF Tables, RowTables
<1> HIDE DEF new
<1>8. \A u \in RowTables : \A x \in new[u] : \E same \in db[u] : same.id = x.id /\ same.parent = x.parent
  BY <1>5, <1>7
<1>9. \A u \in RowTables : \A x \in db[u] : \E same \in new[u] : same.id = x.id
  BY <1>5, <1>7
<1>10. InTheirTables(new)
  BY <1>3, <1>6, <1>8 DEF InTheirTables
<1>11. \A u \in RowTables : Ids(db[u]) \subseteq Ids(new[u])
  BY <1>9 DEF Ids
<1>12. ReferencesMet(new)
  BY <1>3, <1>8, <1>10, <1>11, ReferencesStayMet
<1>13. InTheirTables(Audited(r, new)) /\ ReferencesMet(Audited(r, new))
  BY <1>1, <1>10, <1>12, Standing, AuditedInOrder
<1>14. ~At(r, "health", "written") /\ ~At(r, "health", "cleanup")
  BY <1>1 DEF At
<1>15. Continue(r, Idle, Audited(r, new))
  BY <1>2 DEF new, changed
<1> QED BY <1>1, <1>13, <1>14, <1>15, Standing, QuietStep

LEMMA InsertKeeps ==
  ASSUME IInv, NEW r \in Requests, Insert(r)
  PROVE  IInv'
<1>1. At(r, "write", "start") /\ req[r] # Idle /\ UNCHANGED <<disk, ledger, answers>>
  BY DEF Insert, At
<1>2. ~At(r, "health", "written") /\ ~At(r, "health", "cleanup")
  BY <1>1 DEF At
<1>3. InTheirTables(db) /\ ReferencesMet(db) /\ outside \in [DOMAIN Outside -> {"absent", "linked", "unlinked"}]
  BY <1>1, Standing
<1>4. ASSUME NEW id \in Rows, NEW value \in {None, "data"},
             Parent[id] # None => Parent[id] \in Ids(db[Table[Parent[id]]]),
             Continue(r, Idle, [db EXCEPT ![Table[id]] =
                                  @ \cup {[id |-> id, parent |-> Parent[id], value |-> value]}]),
             UNCHANGED outside
      PROVE  IInv'
  <2> DEFINE t == Table[id]  row == [id |-> id, parent |-> Parent[id], value |-> value]
             new == [db EXCEPT ![t] = @ \cup {row}]
  <2>1. t \in RowTables /\ (Parent[id] # None => Parent[id] \in Rows)
    BY RowsAssumption DEF OnDelete, RowTables
  <2>2. db \in Tables
    BY <1>3 DEF InTheirTables
  <2>3. row \in Referring /\ row.id = id /\ row.parent = Parent[id]
    BY <2>1 DEF Referring
  <2>4. Continue(r, Idle, new)
    BY <1>4
  <2> HIDE DEF row
  <2>5. new \in Tables
    BY <2>1, <2>2, <2>3 DEF Tables, RowTables
  <2>6. RowTables \subseteq DOMAIN db
    BY <2>2 DEF Tables, RowTables
  <2>7. new[t] = db[t] \cup {row} /\ \A u \in RowTables : u # t => new[u] = db[u]
    BY <2>1, <2>6
  <2> HIDE DEF new
  <2>8. \A u \in RowTables : \A x \in new[u] : x \in db[u] \/ (x = row /\ u = t)
    BY <2>7
  <2>9. \A u \in RowTables : Ids(db[u]) \subseteq Ids(new[u])
    BY <2>7 DEF Ids
  <2>10. InTheirTables(new)
    BY <1>3, <2>3, <2>5, <2>8 DEF InTheirTables
  <2>11. ReferencesMet(new)
    BY <1>3, <1>4, <2>3, <2>8, <2>9, <2>10, ReferencesStayMet
  <2> QED BY <1>1, <1>2, <1>3, <1>4, <2>4, <2>10, <2>11, QuietStep
<1>5. ASSUME NEW row \in DOMAIN Outside, outside' = [outside EXCEPT ![row] = "linked"],
             Continue(r, Idle, db)
      PROVE  IInv'
  <2>1. outside' \in [DOMAIN Outside -> {"absent", "linked", "unlinked"}]
    BY <1>3, <1>5
  <2> QED BY <1>1, <1>2, <1>3, <1>5, <2>1, QuietStep
<1> QED BY <1>4, <1>5 DEF Insert

\* A step of a request of the super administrator's that changes no tables.
LEMMA QuietKeeps ==
  ASSUME IInv, NEW r \in Requests, req[r] # Idle, NEW job, Continue(r, job, db),
         UNCHANGED <<outside, disk, ledger, answers>>,
         job = Idle \/ JobInOrder(r)',
         job # Idle => job.op = req[r].op /\ job.arg = req[r].arg,
         ~At(r, "health", "written"), ~At(r, "health", "cleanup")
  PROVE  IInv'
BY QuietStep DEF IInv, DatabaseInOrder

LEMMA ReadTableKeeps ==
  ASSUME IInv, NEW r \in Requests, readTable(r)
  PROVE  IInv'
<1> DEFINE old == req[r]
           at == old.doc.at
           tables == ReadInto(old.doc.tables, db, at)
           doc == [at |-> at + 1, tables |-> tables]
           step == IF at = Len(ReadOrder) THEN "read" ELSE "reading"
           job == ToWith(r, step, doc)
<1>1. /\ old # Idle /\ old.op = "backup" /\ old.step = "reading"
      /\ UNCHANGED <<outside, disk, ledger, answers>>
  BY DEF readTable, At
<1>2. JobInOrder(r) /\ Reading(old)
  BY <1>1 DEF IInv, RequestsInOrder, JobInOrder, BackupInOrder
<1>3. [To(r, step) EXCEPT !.doc = [at |-> at + 1, tables |-> [@.tables EXCEPT ![ReadOrder[at]] = db[ReadOrder[at]]]]]
        = job
  BY <1>1, ToInOrder DEF ToWith, ReadInto
<1>4. Continue(r, job, db)
  BY <1>3 DEF readTable
<1>5. InTheirTables(db) /\ at \in 1..6 /\ InTheirTables(old.doc.tables) /\ Len(ReadOrder) = 6
  BY <1>2 DEF IInv, DatabaseInOrder, Reading, ReadOrder
<1>6. /\ InTheirTables(tables) /\ tables[ReadOrder[at]] = db[ReadOrder[at]]
      /\ \A i \in 1..6 : i # at => tables[ReadOrder[i]] = old.doc.tables[ReadOrder[i]]
  BY <1>5, TableRead
<1>7. /\ SameCall(job, old)
      /\ job.arg = old.arg /\ job.step = step /\ job.doc = doc
      /\ job.began = old.began /\ job.torn = old.torn
  BY <1>1, DocInOrder
<1>8. doc.at = at + 1 /\ doc.tables = tables /\ doc = [at |-> doc.at, tables |-> doc.tables]
  OBVIOUS
<1>9. req'[r] = job /\ db' = db /\ names' = names
  BY <1>1, <1>4 DEF Continue, ledger
<1> HIDE DEF tables, doc, job
<1>10. old.torn = {} =>
         \A i \in 1..6 : i <= at => tables[ReadOrder[i]] = old.began[ReadOrder[i]]
  <2>1. \A i \in 1..6 : i <= at => i = at \/ i < at
    BY <1>5
  <2> QED BY <1>2, <1>6, <2>1 DEF Reading
<1>11. ASSUME at # 6 PROVE BackupInOrder(req[r])'
  <2>1. step = "reading" /\ at + 1 \in 1..6
    BY <1>5, <1>11
  <2>2. \A i \in 1..6 : i < at + 1 => i <= at
    BY <1>5
  <2>3. Reading(req[r])'
    BY <1>2, <1>6, <1>7, <1>8, <1>9, <1>10, <2>1, <2>2 DEF Reading
  <2> QED BY <1>7, <1>9, <2>1, <2>3 DEF BackupInOrder
<1>12. ASSUME at = 6 PROVE BackupInOrder(req[r])'
  <2>1. step = "read"
    BY <1>5, <1>12
  <2>2. old.torn = {} => tables = old.began
    BY <1>2, <1>6, <1>10, <1>12, SameTables DEF Reading, InTheirTables
  <2> DEFINE file == [tables |-> tables, began |-> old.began, torn |-> old.torn]
  <2>3. file \in FileRows
    BY <1>2, <1>6 DEF FileRows, Reading, InTheirTables, JobInOrder
  <2>4. FileInOrder(file)
    BY <1>2, <1>6, <2>2, <2>3 DEF FileInOrder, Reading
  <2> QED BY <1>2, <1>7, <1>8, <1>9, <2>1, <2>4 DEF BackupInOrder, Reading
<1>13. JobInOrder(r)'
  BY <1>1, <1>2, <1>7, <1>9, <1>11, <1>12, OwnJobInOrder DEF JobInOrder
<1> QED BY <1>1, <1>4, <1>7, <1>13, QuietKeeps DEF At

LEMMA FindKeeps ==
  ASSUME IInv, NEW r \in Requests, req[r] # Idle, req[r].op \in {"delete", "restore"},
         findBackup(r, "found"), UNCHANGED <<outside, disk, ledger, answers>>
  PROVE  IInv'
<1> DEFINE job == IF backup[req[r].arg] = None THEN Idle ELSE To(r, "found")
<1>1. Continue(r, job, db) /\ req'[r] = job /\ db' = db /\ names' = names
  BY DEF findBackup, Continue, ledger
<1>2. JobInOrder(r)
  BY DEF IInv, RequestsInOrder
<1>3. job = Idle \/ job = To(r, "found")
  OBVIOUS
<1> HIDE DEF job
<1>4. ASSUME job = To(r, "found") PROVE JobInOrder(r)'
  <2>1. /\ SameCall(job, req[r])
        /\ job.arg = req[r].arg /\ job.step = "found" /\ job.torn = req[r].torn
    BY <1>4, ToInOrder
  <2>2. RestoreInOrder(req[r])'
    BY <1>1, <2>1 DEF RestoreInOrder
  <2> QED BY <1>1, <1>2, <2>1, <2>2, OwnJobInOrder DEF JobInOrder
<1>5. job # Idle => job.op = req[r].op /\ job.arg = req[r].arg
  BY <1>3, ToInOrder
<1> QED BY <1>1, <1>3, <1>4, <1>5, QuietKeeps DEF At

LEMMA DeleteKeeps ==
  ASSUME IInv, NEW r \in Requests, deleteBackup(r)
  PROVE  IInv'
BY FindKeeps DEF deleteBackup, At

LEMMA RestoreKeeps ==
  ASSUME IInv, NEW r \in Requests, restoreBackup(r)
  PROVE  IInv'
<1>1. At(r, "restore", "start") /\ UNCHANGED <<outside, disk, ledger, answers>>
  BY DEF restoreBackup
<1>2. CASE Continue(r, Idle, Audited(r, db))
  <2>1. InTheirTables(Audited(r, db)) /\ ReferencesMet(Audited(r, db))
    BY <1>1, Standing, AuditedInOrder DEF At
  <2> QED BY <1>1, <1>2, <2>1, QuietStep DEF At, IInv, DatabaseInOrder
<1>3. CASE findBackup(r, "found")
  BY <1>1, <1>3, FindKeeps DEF At
<1> QED BY <1>2, <1>3 DEF restoreBackup

LEMMA ReadFileKeeps ==
  ASSUME IInv, NEW r \in Requests, readBackupFile(r)
  PROVE  IInv'
<1> DEFINE file == files[req[r].arg]
           doc == [file |-> file, at |-> 1, gone |-> EmptyTables, late |-> EmptyTables]
           job == IF file = None THEN Idle ELSE ToWith(r, "transaction", doc)
<1>1. /\ req[r] # Idle /\ req[r].op = "restore" /\ req[r].step = "found"
      /\ UNCHANGED <<outside, disk, ledger, answers>>
  BY DEF readBackupFile, At
<1>2. Continue(r, job, db)
  BY DEF readBackupFile, ToWith
<1>3. req'[r] = job /\ names' = names /\ db' = db
  BY <1>1, <1>2 DEF Continue, ledger
<1>4. JobInOrder(r) /\ req[r].arg \in names
  BY <1>1 DEF IInv, RequestsInOrder, JobInOrder
<1>5. file = None \/ FileInOrder(file)
  BY <1>4 DEF IInv, SnapshotsInOrder
<1>6. job = Idle \/ (job = ToWith(r, "transaction", doc) /\ file # None)
  OBVIOUS
<1>7. IsDoc(doc) /\ doc.file = file /\ doc.at = 1
  BY DEF IsDoc
<1> HIDE DEF job, doc, file
<1>8. ASSUME job = ToWith(r, "transaction", doc), file # None PROVE JobInOrder(r)'
  <2>1. /\ SameCall(job, req[r]) /\ job.doc = doc
        /\ job.arg = req[r].arg /\ job.step = "transaction" /\ job.torn = req[r].torn
    BY <1>1, <1>8, DocInOrder
  <2>2. TransactionInOrder(doc)
    BY <1>5, <1>7, <1>8 DEF TransactionInOrder, Emptied
  <2>3. RestoreInOrder(req[r])'
    BY <1>3, <2>1, <2>2 DEF RestoreInOrder, TransactionInOrder, Emptied
  <2> QED BY <1>1, <1>3, <1>4, <2>1, <2>3, OwnJobInOrder DEF JobInOrder
<1>9. job # Idle => job.op = req[r].op /\ job.arg = req[r].arg
  BY <1>1, <1>6, DocInOrder
<1> QED BY <1>1, <1>2, <1>6, <1>8, <1>9, QuietKeeps DEF At

\* A statement of a transaction ends it, or moves it on.
LEMMA StatementKeeps ==
  ASSUME IInv, NEW r \in Requests, req[r] # Idle, InTransaction(r), NEW job, NEW doc,
         UNCHANGED <<outside, disk, ledger, answers>>, Continue(r, job, db),
         job = Idle \/ job = ToWith(r, "transaction", doc), TransactionInOrder(doc)
  PROVE  IInv'
<1>1. req[r].op = "restore" /\ req'[r] = job /\ db' = db /\ names' = names
  BY DEF InTransaction, At, Continue, ledger
<1>2. ASSUME job = ToWith(r, "transaction", doc)
      PROVE  JobInOrder(r)' /\ job.op = req[r].op /\ job.arg = req[r].arg
  <2>1. /\ SameCall(job, req[r]) /\ job.doc = doc
        /\ job.arg = req[r].arg /\ job.step = "transaction" /\ job.torn = req[r].torn
    BY <1>2, DocInOrder
  <2>2. RestoreInOrder(req[r])'
    BY <1>1, <2>1 DEF RestoreInOrder, TransactionInOrder, Emptied
  <2>3. JobInOrder(r)
    BY Standing
  <2> QED BY <1>1, <2>1, <2>2, <2>3, OwnJobInOrder DEF JobInOrder
<1> QED BY <1>1, <1>2, QuietKeeps DEF At

\* The document of a transaction that is in order, as a record.
LEMMA InTransactionFacts ==
  ASSUME IInv, NEW r \in Requests, InTransaction(r)
  PROVE  /\ req[r] # Idle /\ TransactionInOrder(req[r].doc)
         /\ req[r].op = "restore" /\ req[r].step = "transaction" /\ req[r].arg \in names
         /\ \A doc : [To(r, "transaction") EXCEPT !.doc = doc] = [req[r] EXCEPT !.doc = doc]
<1>1. req[r] # Idle /\ req[r].op = "restore" /\ req[r].step = "transaction"
  BY DEF InTransaction, At
<1>2. JobInOrder(r)
  BY <1>1, Standing
<1>3. [req[r] EXCEPT !.step = "transaction"] = req[r]
  BY <1>1, <1>2 DEF JobInOrder, IsJob
<1> QED BY <1>1, <1>2, <1>3 DEF JobInOrder, RestoreInOrder, To

LEMMA DocChanges ==
  ASSUME NEW doc, IsDoc(doc), NEW n, NEW keys
  PROVE  [doc EXCEPT !.at = n, !.gone = keys]
           = [file |-> doc.file, at |-> n, gone |-> keys, late |-> doc.late]
<1>1. PICK f, l, g, m : f = doc.file /\ l = doc.late /\ g = doc.gone /\ m = doc.at
  OBVIOUS
<1>2. doc = [file |-> f, at |-> m, gone |-> g, late |-> l]
  BY <1>1 DEF IsDoc
<1>3. PICK new : new = [doc EXCEPT !.at = n, !.gone = keys]
  OBVIOUS
<1>4. new = [file |-> f, at |-> n, gone |-> keys, late |-> l]
  BY <1>2, <1>3
<1> QED BY <1>1, <1>3, <1>4

LEMMA DeleteManyKeeps ==
  ASSUME IInv, NEW r \in Requests, deleteMany(r)
  PROVE  IInv'
<1> DEFINE doc == req[r].doc  t == DeleteOrder[doc.at]
<1>1. InTransaction(r) /\ UNCHANGED <<outside, disk, ledger, answers>> /\ doc.at <= Len(DeleteOrder)
  BY DEF deleteMany
<1>2. /\ req[r] # Idle /\ IsDoc(doc) /\ FileInOrder(doc.file) /\ doc.at \in 1..13 /\ Emptied(doc, db)
      /\ \A d : ToWith(r, "transaction", d) = [req[r] EXCEPT !.doc = d]
  BY <1>1, InTransactionFacts DEF TransactionInOrder, ToWith
<1>3. doc.at \in 1..6 /\ t \in TableNames
  BY <1>1, <1>2, DeleteOrderIs
<1>4. PICK missed \in {{}, doc.late[t]} :
        LET victims == Ids(db[t]) \ (missed \cup doc.gone[t])
            taken == [u \in TableNames |-> Taken(doc, u, t, victims)]
            moved == [doc EXCEPT !.at = @ + 1, !.gone = [u \in TableNames |-> @[u] \cup taken[u]]]
        IN Continue(r, IF Restricted(doc, t, victims) THEN Idle ELSE [req[r] EXCEPT !.doc = moved], db)
  BY DEF deleteMany
<1> DEFINE victims == Ids(db[t]) \ (missed \cup doc.gone[t])
           taken == [u \in TableNames |-> Taken(doc, u, t, victims)]
           gone == [u \in TableNames |-> doc.gone[u] \cup taken[u]]
           next == [file |-> doc.file, at |-> doc.at + 1, gone |-> gone, late |-> doc.late]
           moved == [doc EXCEPT !.at = @ + 1, !.gone = [u \in TableNames |-> @[u] \cup taken[u]]]
<1>5. moved = next
  <2>1. moved = [doc EXCEPT !.at = doc.at + 1, !.gone = gone]
    OBVIOUS
  <2> HIDE DEF moved, gone
  <2>2. [doc EXCEPT !.at = doc.at + 1, !.gone = gone] = next
    BY <1>2, DocChanges
  <2> QED BY <2>1, <2>2
<1>6. PICK job : Continue(r, job, db) /\ (job = Idle \/ job = ToWith(r, "transaction", next))
  BY <1>2, <1>4, <1>5
<1>7. /\ IsDoc(next) /\ next.file = doc.file /\ next.at = doc.at + 1 /\ next.late = doc.late
      /\ next.gone = gone
  BY DEF IsDoc
<1>8. Taken(doc, t, t, victims) = victims
  BY DEF Taken
<1>9. \A u \in TableNames : doc.gone[u] \subseteq gone[u]
  OBVIOUS
<1>10. Ids(db[t]) \ gone[t] \subseteq doc.late[t]
  <2>1. taken[t] = victims
    BY <1>3, <1>8
  <2>2. gone[t] = doc.gone[t] \cup victims
    BY <1>3, <2>1
  <2> QED BY <2>2
<1> HIDE DEF gone, next
<1>11. Emptied(next, db)
  <2> SUFFICES ASSUME NEW i \in 1..6, i < doc.at + 1
               PROVE  Ids(db[DeleteOrder[i]]) \ gone[DeleteOrder[i]] \subseteq doc.late[DeleteOrder[i]]
    BY <1>7 DEF Emptied
  <2>1. CASE i = doc.at
    BY <1>10, <2>1
  <2>2. CASE i < doc.at
    BY <1>2, <1>9, <2>2, DeleteOrderIs DEF Emptied
  <2> QED BY <1>3, <2>1, <2>2
<1>12. TransactionInOrder(next)
  <2>1. next.at \in 1..13
    BY <1>3, <1>7
  <2> QED BY <1>2, <1>7, <1>11, <2>1 DEF TransactionInOrder
<1> QED BY <1>1, <1>2, <1>6, <1>12, StatementKeeps

LEMMA CreateManyKeeps ==
  ASSUME IInv, NEW r \in Requests, createMany(r)
  PROVE  IInv'
<1> DEFINE doc == req[r].doc
           next == [file |-> doc.file, at |-> doc.at + 1, gone |-> doc.gone, late |-> doc.late]
<1>1. /\ InTransaction(r) /\ UNCHANGED <<outside, disk, ledger, answers>>
      /\ doc.at <= Len(DeleteOrder) + Len(CreateOrder) /\ doc.at > Len(DeleteOrder)
  BY DEF createMany
<1>2. /\ req[r] # Idle /\ IsDoc(doc) /\ FileInOrder(doc.file) /\ doc.at \in 1..13 /\ Emptied(doc, db)
      /\ \A d : ToWith(r, "transaction", d) = [req[r] EXCEPT !.doc = d]
  BY <1>1, InTransactionFacts DEF TransactionInOrder, ToWith
<1>3. Continue(r, Idle, db) \/ Continue(r, [req[r] EXCEPT !.doc.at = @ + 1], db)
  BY DEF createMany
<1>4. [doc EXCEPT !.at = @ + 1] = next
  BY <1>2 DEF IsDoc
<1>5. [req[r] EXCEPT !.doc.at = @ + 1] = [req[r] EXCEPT !.doc = next]
  <2>1. [req[r] EXCEPT !.doc.at = @ + 1] = [req[r] EXCEPT !.doc = [doc EXCEPT !.at = @ + 1]]
    OBVIOUS
  <2> QED BY <1>4, <2>1
<1>6. PICK job : Continue(r, job, db) /\ (job = Idle \/ job = ToWith(r, "transaction", next))
  BY <1>2, <1>3, <1>5
<1>7. /\ IsDoc(next) /\ next.file = doc.file /\ next.at = doc.at + 1 /\ next.late = doc.late
      /\ next.gone = doc.gone
  BY DEF IsDoc
<1> HIDE DEF next
<1>8. next.at \in 1..13 /\ doc.at > 6
  <2>1. Len(CreateOrder) = 6 /\ Len(DeleteOrder) = 6
    BY DEF CreateOrder, DeleteOrder
  <2> QED BY <1>1, <1>2, <1>7, <2>1
<1>9. Emptied(next, db)
  BY <1>2, <1>7, <1>8 DEF Emptied
<1>10. TransactionInOrder(next)
  BY <1>2, <1>7, <1>8, <1>9 DEF TransactionInOrder
<1> QED BY <1>1, <1>2, <1>6, <1>10, StatementKeeps

LEMMA ClearKeeps ==
  ASSUME IInv, NEW r \in Requests, clearCache(r)
  PROVE  IInv'
<1> DEFINE doc == cachePathFor(req[r].arg)
           job == ToWith(r, "rm", doc)
<1>1. /\ req[r] # Idle /\ req[r].op = "clear" /\ req[r].step = "start"
      /\ UNCHANGED <<outside, disk, ledger, answers>>
  BY DEF clearCache, At
<1>2. Continue(r, job, db)
  BY DEF clearCache, ToWith
<1>3. req'[r] = job /\ db' = db
  BY <1>2 DEF Continue
<1>4. JobInOrder(r) /\ ClearInOrder(req[r])
  BY <1>1 DEF IInv, RequestsInOrder, JobInOrder
<1>5. doc \in Seq(Directories) /\ doc # <<>>
  <2>1. <<"api", "demo", "uploads", "temporary">> \in Seq(Directories)
        /\ <<"api", "demo", "uploads", "temporary">> # <<>>
    BY DEF Directories
  <2>2. <<"api">> \in Seq(Directories) /\ <<"api">> # <<>>
    BY DEF Directories
  <2>3. req[r].arg = "api" \/ req[r].arg = "all"
    BY <1>4 DEF ClearInOrder
  <2>4. CASE req[r].arg = "api"
    BY <2>2, <2>4 DEF cachePathFor
  <2>5. CASE req[r].arg = "all"
    BY <2>1, <2>5 DEF cachePathFor
  <2> QED BY <2>3, <2>4, <2>5
<1>6. /\ SameCall(job, req[r]) /\ job.doc = doc
      /\ job.arg = req[r].arg /\ job.step = "rm" /\ job.torn = req[r].torn
  BY <1>1, DocInOrder
<1> HIDE DEF job, doc
<1>7. ClearInOrder(req[r])'
  BY <1>3, <1>4, <1>5, <1>6 DEF ClearInOrder
<1>8. JobInOrder(r)'
  BY <1>1, <1>3, <1>4, <1>6, <1>7, OwnJobInOrder DEF JobInOrder
<1> QED BY <1>1, <1>2, <1>6, <1>8, QuietKeeps DEF At

LEMMA ClearedKeeps ==
  ASSUME IInv, NEW r \in Requests, cacheCleared(r)
  PROVE  IInv'
<1> DEFINE tables == Audited(r, setJsonSetting(db, "cache_status", {req[r].arg}))
<1>1. At(r, "clear", "setting") /\ req[r] # Idle /\ Continue(r, Idle, tables)
  BY DEF cacheCleared, At
<1>2. {req[r].arg} \in SUBSET {"enabled", "allowAdminBypass", "api", "all"}
  BY <1>1, Standing DEF JobInOrder, ClearInOrder, At
<1>3. InTheirTables(tables) /\ ReferencesMet(tables)
  BY <1>1, <1>2, Standing, SettingInOrder, AuditedInOrder
<1>4. UNCHANGED <<disk, ledger, answers>> /\ outside' = outside
  BY DEF cacheCleared
<1>5. ~At(r, "health", "written") /\ ~At(r, "health", "cleanup")
  BY <1>1 DEF At
<1> HIDE DEF tables
<1> QED BY <1>1, <1>3, <1>4, <1>5, Standing, QuietStep

LEMMA ListKeeps ==
  ASSUME IInv, NEW r \in Requests, listUploads(r)
  PROVE  IInv'
<1> DEFINE job == ToWith(r, "stat", canaries)
<1>1. /\ req[r] # Idle /\ req[r].op = "health" /\ req[r].step = "listing"
      /\ UNCHANGED <<outside, disk, ledger, answers>>
  BY DEF listUploads, At
<1>2. Continue(r, job, db)
  BY DEF listUploads, ToWith
<1>3. req'[r] = job /\ db' = db /\ UNCHANGED <<canaries, excused, calls>>
  BY <1>1, <1>2 DEF Continue, disk
<1>4. JobInOrder(r) /\ HealthInOrder(req[r])
  BY <1>1 DEF IInv, RequestsInOrder, JobInOrder
<1>5. /\ SameCall(job, req[r]) /\ job.doc = canaries
      /\ job.arg = req[r].arg /\ job.step = "stat" /\ job.torn = req[r].torn
  BY <1>1, DocInOrder
<1> HIDE DEF job
<1>6. HealthInOrder(req[r])'
  BY <1>3, <1>4, <1>5 DEF HealthInOrder
<1>7. JobInOrder(r)'
  BY <1>1, <1>3, <1>4, <1>5, <1>6, OwnJobInOrder DEF JobInOrder
<1> QED BY <1>1, <1>2, <1>5, <1>7, QuietKeeps DEF At

-----------------------------------------------------------------------------
(* Steps that write files and rows of snapshots, and the restoration.      *)

\* What such a step shares with the quiet ones.
LEMMA SnapshotStep ==
  ASSUME IInv, NEW r \in Requests, req[r] # Idle, NEW job, NEW tables, Continue(r, job, tables),
         UNCHANGED <<cache, canaries, excused, answers>>, req[r].op # "health",
         outside' \in [DOMAIN Outside -> {"absent", "linked", "unlinked"}],
         InTheirTables(tables), ReferencesMet(tables), SnapshotsInOrder',
         names \subseteq names', restores \subseteq restores',
         \A b \in Backups : files[b] # None \/ b \in removed => files'[b] # None \/ b \in removed',
         job = Idle \/ JobInOrder(r)',
         job # Idle => job.op = req[r].op
  PROVE  IInv'
<1>1. UNCHANGED <<clock, calls>> /\ db' = tables
  BY DEF Continue
<1>2. DiskInOrder'
  BY <1>1 DEF IInv, DiskInOrder, CriticalHasCause
<1>3. CanariesHeld'
  BY CanariesStay DEF At
<1>4. Gentle(r)
  BY <1>1 DEF Gentle, IInv, DiskInOrder
<1>5. DatabaseInOrder'
  BY <1>1 DEF DatabaseInOrder
<1> QED BY <1>2, <1>3, <1>4, <1>5, StepKeeps

LEMMA CreateKeeps ==
  ASSUME IInv, NEW r \in Requests, createBackup(r)
  PROVE  IInv'
<1> DEFINE old == req[r]
           doc == [at |-> 1, tables |-> EmptyTables]
<1>1. /\ old # Idle /\ old.op = "backup" /\ UNCHANGED <<outside, disk, backup, removed, restores, answers>>
  BY DEF createBackup, At
<1>2. PICK b \in Backups :
        /\ names' = names \cup {b}
        /\ Continue(r, [To(r, "reading") EXCEPT !.arg = b, !.doc = doc, !.began = db], db)
  BY DEF createBackup
<1>3. PICK job : job = [To(r, "reading") EXCEPT !.arg = b, !.doc = doc, !.began = db]
  OBVIOUS
<1>4. JobInOrder(r) /\ IsJob(To(r, "reading"))
  BY <1>1, ToInOrder DEF IInv, RequestsInOrder
<1>5. To(r, "reading").op = old.op /\ To(r, "reading").claim = old.claim
      /\ To(r, "reading").call = old.call /\ To(r, "reading").outlived = old.outlived
      /\ To(r, "reading").torn = old.torn /\ To(r, "reading").step = "reading"
  BY <1>1, ToInOrder
<1>6. job = [op |-> old.op, claim |-> old.claim, arg |-> b, call |-> old.call, step |-> "reading",
             doc |-> doc, began |-> db, torn |-> old.torn, outlived |-> old.outlived,
             company |-> To(r, "reading").company]
  <2> HIDE DEF doc, old
  <2> QED BY <1>3, <1>4, <1>5 DEF IsJob
<1>7. /\ SameCall(job, old) /\ job.arg = b
      /\ job.step = "reading" /\ job.doc = doc /\ job.began = db /\ job.torn = old.torn
  <2> HIDE DEF doc, old
  <2> QED BY <1>6 DEF IsJob
<1>8. Continue(r, job, db) /\ req'[r] = job /\ db' = db /\ UNCHANGED <<clock, calls>>
  BY <1>2, <1>3 DEF Continue
<1>9. doc = [at |-> doc.at, tables |-> doc.tables] /\ doc.at = 1 /\ doc.tables = EmptyTables
  OBVIOUS
<1>10. InTheirTables(db) /\ ReferencesMet(db)
  BY DEF IInv, DatabaseInOrder
<1> HIDE DEF doc
<1>11. Reading(req[r])'
  BY <1>2, <1>7, <1>8, <1>9, <1>10, EmptyInOrder DEF Reading
<1>12. JobInOrder(r)'
  <2>1. BackupInOrder(req[r])'
    BY <1>7, <1>8, <1>11 DEF BackupInOrder
  <2> QED BY <1>1, <1>4, <1>7, <1>8, <2>1, OwnJobInOrder DEF JobInOrder
<1>13. SnapshotsInOrder'
  BY <1>1, <1>2, <1>8 DEF IInv, SnapshotsInOrder, disk, ListedHasFile, RestoredMeansCommitted
<1>14. outside' \in [DOMAIN Outside -> {"absent", "linked", "unlinked"}]
  BY <1>1 DEF IInv, DatabaseInOrder
<1> QED BY <1>1, <1>2, <1>7, <1>8, <1>10, <1>12, <1>13, <1>14, SnapshotStep DEF disk

LEMMA WriteFileKeeps ==
  ASSUME IInv, NEW r \in Requests, writeBackupFile(r)
  PROVE  IInv'
<1> DEFINE old == req[r]
           file == [tables |-> old.doc.tables, began |-> old.began, torn |-> old.torn]
           job == To(r, "written")
<1>1. /\ old # Idle /\ old.op = "backup" /\ old.step = "read"
      /\ files' = [files EXCEPT ![old.arg] = file] /\ Continue(r, job, db)
      /\ UNCHANGED <<outside, cache, canaries, excused, ledger, answers>>
  BY DEF writeBackupFile, At
<1>2. JobInOrder(r) /\ old.arg \in names /\ FileInOrder(file)
  BY <1>1 DEF IInv, RequestsInOrder, JobInOrder, BackupInOrder
<1>3. file \in FileRows /\ file # None
  BY <1>2, NoneIsNoFile DEF FileInOrder
<1> HIDE DEF file
<1>4. /\ SameCall(job, old) /\ job.arg = old.arg
      /\ job.step = "written" /\ job.torn = old.torn
  BY <1>1, ToInOrder
<1> HIDE DEF job
<1>5. req'[r] = job /\ db' = db /\ UNCHANGED <<clock, calls>> /\ UNCHANGED <<backup, names, removed, restores>>
  BY <1>1 DEF Continue, ledger
<1>6. old.arg \in Backups
  BY <1>2 DEF IInv, SnapshotsInOrder
<1>7. files'[old.arg] = file /\ \A b \in Backups : b # old.arg => files'[b] = files[b]
  BY <1>1, <1>6 DEF IInv, SnapshotsInOrder
<1>8. files' \in [Backups -> FileRows \cup {None}]
  BY <1>1, <1>3, <1>6 DEF IInv, SnapshotsInOrder
<1>9. SnapshotsInOrder'
  BY <1>2, <1>3, <1>5, <1>7, <1>8 DEF IInv, SnapshotsInOrder, ListedHasFile, RestoredMeansCommitted
<1>10. BackupInOrder(req[r])'
  BY <1>2, <1>3, <1>4, <1>5, <1>7 DEF BackupInOrder
<1>11. JobInOrder(r)'
  BY <1>1, <1>2, <1>4, <1>5, <1>10, OwnJobInOrder DEF JobInOrder
<1>12. \A b \in Backups : files[b] # None \/ b \in removed => files'[b] # None \/ b \in removed'
  BY <1>3, <1>5, <1>7
<1> QED BY <1>1, <1>4, <1>5, <1>9, <1>11, <1>12, SnapshotStep DEF IInv, DatabaseInOrder

LEMMA InsertRowKeeps ==
  ASSUME IInv, NEW r \in Requests, insertBackupRow(r)
  PROVE  IInv'
<1> DEFINE old == req[r]
           row == [createdAt |-> clock, restored |-> FALSE]
<1>1. /\ old # Idle /\ old.op = "backup" /\ old.step = "written"
      /\ backup' = [backup EXCEPT ![old.arg] = row] /\ Continue(r, Idle, Audited(r, db))
      /\ UNCHANGED <<outside, disk, names, removed, restores, answers>>
  BY DEF insertBackupRow, At
<1>2. old.arg \in names /\ (files[old.arg] # None \/ old.arg \in removed)
  BY <1>1 DEF IInv, RequestsInOrder, JobInOrder, BackupInOrder
<1>3. row \in BackupRows /\ ~row.restored
  <2>1. FALSE \in BOOLEAN /\ clock \in 0..MaxClock
    BY DEF IInv, SnapshotsInOrder
  <2> QED BY <2>1 DEF BackupRows
<1> HIDE DEF row
<1>4. old.arg \in Backups
  BY <1>2 DEF IInv, SnapshotsInOrder
<1>5. /\ backup' \in [Backups -> BackupRows \cup {None}]
      /\ backup'[old.arg] = row /\ \A b \in Backups : b # old.arg => backup'[b] = backup[b]
  BY <1>1, <1>3, <1>4 DEF IInv, SnapshotsInOrder
<1>6. UNCHANGED <<clock, files, names, removed, restores>>
  BY <1>1 DEF Continue, disk
<1>7. ListedHasFile' /\ RestoredMeansCommitted'
  BY <1>2, <1>3, <1>5, <1>6 DEF IInv, SnapshotsInOrder, ListedHasFile, RestoredMeansCommitted
<1>8. SnapshotsInOrder'
  BY <1>5, <1>6, <1>7 DEF IInv, SnapshotsInOrder
<1>9. InTheirTables(Audited(r, db)) /\ ReferencesMet(Audited(r, db))
  BY <1>1, Standing, AuditedInOrder
<1> QED BY <1>1, <1>6, <1>8, <1>9, SnapshotStep DEF IInv, DatabaseInOrder, disk

LEMMA RemoveFileKeeps ==
  ASSUME IInv, NEW r \in Requests, removeBackupFile(r)
  PROVE  IInv'
<1> DEFINE old == req[r]
           job == To(r, "removed")
<1>1. /\ old # Idle /\ old.op = "delete" /\ removed' = removed \cup {old.arg}
      /\ files' = [files EXCEPT ![old.arg] = None] /\ Continue(r, job, db)
      /\ UNCHANGED <<outside, cache, canaries, excused, backup, names, restores, answers>>
  BY DEF removeBackupFile, At
<1>2. JobInOrder(r) /\ old.arg \in names
  BY <1>1 DEF IInv, RequestsInOrder, JobInOrder
<1>3. /\ SameCall(job, old) /\ job.arg = old.arg
      /\ job.step = "removed" /\ job.torn = old.torn
  BY <1>1, ToInOrder
<1> HIDE DEF job
<1>4. req'[r] = job /\ db' = db /\ UNCHANGED clock
  BY <1>1 DEF Continue
<1>5. old.arg \in Backups
  BY <1>2 DEF IInv, SnapshotsInOrder
<1>6. files'[old.arg] = None /\ \A b \in Backups : b # old.arg => files'[b] = files[b]
  BY <1>1, <1>5 DEF IInv, SnapshotsInOrder
<1>7. files' \in [Backups -> FileRows \cup {None}]
  BY <1>1, <1>5 DEF IInv, SnapshotsInOrder
<1>8. SnapshotsInOrder'
  BY <1>1, <1>2, <1>4, <1>6, <1>7 DEF IInv, SnapshotsInOrder, ListedHasFile, RestoredMeansCommitted
<1>9. JobInOrder(r)'
  BY <1>1, <1>2, <1>3, <1>4, OwnJobInOrder DEF JobInOrder
<1>10. \A b \in Backups : files[b] # None \/ b \in removed => files'[b] # None \/ b \in removed'
  BY <1>1, <1>6
<1> QED BY <1>1, <1>3, <1>8, <1>9, <1>10, SnapshotStep DEF IInv, DatabaseInOrder

LEMMA DeleteRowKeeps ==
  ASSUME IInv, NEW r \in Requests, deleteBackupRow(r)
  PROVE  IInv'
<1> DEFINE tables == IF backup[req[r].arg] = None THEN db ELSE Audited(r, db)
<1>1. /\ req[r] # Idle /\ req[r].op = "delete"
      /\ backup' = [backup EXCEPT ![req[r].arg] = None] /\ Continue(r, Idle, tables)
      /\ UNCHANGED <<outside, disk, names, removed, restores, answers>>
  BY DEF deleteBackupRow, At
<1>2. UNCHANGED <<clock, files, names, removed, restores>>
  BY <1>1 DEF Continue, disk
<1>3. /\ backup' \in [Backups -> BackupRows \cup {None}]
      /\ \A b \in Backups : backup'[b] = None \/ backup'[b] = backup[b]
  BY <1>1 DEF IInv, SnapshotsInOrder
<1>4. SnapshotsInOrder'
  BY <1>2, <1>3 DEF IInv, SnapshotsInOrder, ListedHasFile, RestoredMeansCommitted
<1>5. InTheirTables(tables) /\ ReferencesMet(tables)
  BY <1>1, Standing, AuditedInOrder
<1> HIDE DEF tables
<1> QED BY <1>1, <1>2, <1>4, <1>5, SnapshotStep DEF IInv, DatabaseInOrder, disk

\* What a transaction sees of the tables.
LEMMA ViewInOrder ==
  ASSUME InTheirTables(db), NEW doc, FileInOrder(doc.file)
  PROVE  InTheirTables(View(doc))
<1> DEFINE seen == View(doc)
<1>1. db \in Tables /\ doc.file.tables \in Tables /\ InTheirTables(doc.file.tables)
  BY DEF FileInOrder, InTheirTables
<1>2. seen = [t \in TableNames |-> seen[t]]
  BY DEF View
<1>3. ASSUME NEW t \in TableNames, NEW row \in seen[t]
      PROVE  \/ row \in doc.file.tables[t]
             \/ \E old \in db[t] : row = old \/ row = [old EXCEPT !.parent = None]
  <2>1. CASE t \in Filled(doc) /\ row \in doc.file.tables[t]
    BY <2>1
  <2>2. ASSUME NEW old \in db[t], row = Survivor(doc, old)
        PROVE  row = old \/ row = [old EXCEPT !.parent = None]
    <3>1. old = [id |-> old.id, parent |-> old.parent, value |-> old.value]
      BY RowFacts
    <3> QED BY <2>2, <3>1 DEF Survivor
  <2> QED BY <1>3, <2>1, <2>2 DEF View
<1>4. ASSUME NEW t \in TableNames, NEW old \in db[t], NEW row, row = [old EXCEPT !.parent = None]
      PROVE  row = [id |-> old.id, parent |-> None, value |-> old.value]
  BY <1>4, RowFacts
<1> HIDE DEF seen
<1>5. ASSUME NEW t \in RowTables, NEW row \in seen[t]
      PROVE  /\ row \in Referring /\ Table[row.id] = t
             /\ row.parent # None => row.parent = Parent[row.id]
  <2>1. t \in TableNames
    BY DEF RowTables, TableNames
  <2>2. CASE row \in doc.file.tables[t]
    BY <1>1, <2>1, <2>2, RowFacts DEF InTheirTables
  <2>3. ASSUME NEW old \in db[t], row = old \/ row = [old EXCEPT !.parent = None]
        PROVE  /\ row \in Referring /\ Table[row.id] = t
               /\ row.parent # None => row.parent = Parent[row.id]
    <3>1. /\ old \in Referring /\ Table[old.id] = t
          /\ old.parent # None => old.parent = Parent[old.id]
      BY <2>1, RowFacts DEF InTheirTables
    <3>2. CASE row = old
      BY <3>1, <3>2
    <3>3. CASE row = [id |-> old.id, parent |-> None, value |-> old.value]
      BY <3>1, <3>3 DEF Referring
    <3> QED BY <1>4, <2>1, <2>3, <3>2, <3>3
  <2> QED BY <1>3, <2>1, <2>2, <2>3
<1>6. seen["demoAuditLogs"] \subseteq Entries
  <2>1. doc.file.tables["demoAuditLogs"] \subseteq Entries /\ db["demoAuditLogs"] \subseteq Entries
    BY <1>1 DEF Tables
  <2>2. "demoAuditLogs" \in TableNames
    BY DEF TableNames
  <2>3. \A old \in Entries : [id |-> old.id, parent |-> None, value |-> old.value] \in Entries
    BY DEF Entries
  <2> QED BY <1>3, <1>4, <2>1, <2>2, <2>3
<1>7. seen["platformSettings"] \subseteq Settings
  <2>1. doc.file.tables["platformSettings"] \subseteq Settings /\ db["platformSettings"] \subseteq Settings
    BY <1>1 DEF Tables
  <2>2. "platformSettings" \in TableNames
    BY DEF TableNames
  <2>3. \A old \in Settings : [id |-> old.id, parent |-> None, value |-> old.value] \in Settings
    BY DEF Settings
  <2> QED BY <1>3, <1>4, <2>1, <2>2, <2>3
<1>8. /\ seen["organizations"] \subseteq Referring /\ seen["users"] \subseteq Referring
      /\ seen["reports"] \subseteq Referring /\ seen["notifications"] \subseteq Referring
  BY <1>5 DEF RowTables
<1>9. seen \in Tables
  BY <1>2, <1>6, <1>7, <1>8 DEF Tables, TableNames
<1> QED BY <1>5, <1>9 DEF InTheirTables, seen

LEMMA ReplaceKeeps ==
  ASSUME IInv, NEW r \in Requests, replaceTables(r)
  PROVE  IInv'
<1> DEFINE old == req[r]
           tables == View(old.doc)
           outlived == old.outlived \/ Closes(tables)
<1>1. /\ InTransaction(r) /\ old # Idle /\ old.op = "restore" /\ ReferencesMet(tables)
      /\ restores' = restores \cup {old.arg}
      /\ Continue(r, [To(r, "record") EXCEPT !.outlived = @ \/ Closes(tables)], tables)
      /\ UNCHANGED <<disk, backup, names, removed, answers>>
  BY DEF replaceTables, At, InTransaction
<1>2. JobInOrder(r) /\ old.arg \in names /\ FileInOrder(old.doc.file) /\ InTheirTables(db)
  BY <1>1, InTransactionFacts, Standing DEF TransactionInOrder
<1>3. InTheirTables(tables)
  BY <1>2, ViewInOrder
<1> HIDE DEF tables
<1>4. PICK job : job = [To(r, "record") EXCEPT !.outlived = @ \/ Closes(tables)]
  OBVIOUS
<1>5. /\ IsJob(To(r, "record")) /\ To(r, "record").op = old.op /\ To(r, "record").claim = old.claim
      /\ To(r, "record").call = old.call /\ To(r, "record").arg = old.arg
      /\ To(r, "record").step = "record" /\ To(r, "record").torn = old.torn
      /\ To(r, "record").outlived = old.outlived
  BY <1>1, ToInOrder
<1>6. job = [op |-> old.op, claim |-> old.claim, arg |-> old.arg, call |-> old.call,
             step |-> "record", doc |-> To(r, "record").doc, began |-> To(r, "record").began,
             torn |-> old.torn, outlived |-> outlived, company |-> To(r, "record").company]
  <2>1. job = [To(r, "record") EXCEPT !.outlived = To(r, "record").outlived \/ Closes(tables)]
    BY <1>4, <1>5 DEF IsJob
  <2>2. (To(r, "record").outlived \/ Closes(tables)) = outlived
    BY <1>5
  <2> HIDE DEF outlived, old
  <2>3. job = [To(r, "record") EXCEPT !.outlived = outlived]
    BY <2>1, <2>2
  <2> QED BY <1>5, <2>3 DEF IsJob
<1> HIDE DEF outlived
<1>7. /\ IsJob(job) /\ job.op = old.op /\ job.claim = old.claim /\ job.call = old.call
      /\ job.arg = old.arg /\ job.step = "record" /\ job.torn = old.torn /\ job.outlived = outlived
  BY <1>6 DEF IsJob
<1>8. Continue(r, job, tables) /\ req'[r] = job /\ db' = tables /\ UNCHANGED <<clock, files>>
  BY <1>1, <1>4 DEF Continue, disk
<1>9. SnapshotsInOrder'
  BY <1>1, <1>2, <1>8 DEF IInv, SnapshotsInOrder, ListedHasFile, RestoredMeansCommitted
<1>10. RestoreInOrder(req[r])'
  BY <1>1, <1>7, <1>8 DEF RestoreInOrder
<1>11. Gated(req[r])'
  <2>1. Shut(db, req[r].claim)' => Shut(tables, old.claim)
    BY <1>7, <1>8 DEF Shut, Enabled, AllowAdminBypass
  <2>2. Shut(tables, old.claim) => outlived
    BY <1>1, <1>2, ShutCloses DEF JobInOrder, Gated, Exempt, outlived
  <2> QED BY <1>7, <1>8, <2>1, <2>2 DEF Gated, Shut, Enabled, AllowAdminBypass
<1>12. JobInOrder(r)'
  BY <1>1, <1>2, <1>7, <1>8, <1>10, <1>11, OwnJobInOrder DEF JobInOrder
<1>13. outside' \in [DOMAIN Outside -> {"absent", "linked", "unlinked"}]
  <2>1. outside \in [DOMAIN Outside -> {"absent", "linked", "unlinked"}]
    BY <1>1, Standing
  <2> QED BY <2>1 DEF replaceTables
<1> QED BY <1>1, <1>3, <1>7, <1>8, <1>9, <1>12, <1>13, SnapshotStep DEF disk

LEMMA RecordKeeps ==
  ASSUME IInv, NEW r \in Requests, recordRestore(r)
  PROVE  IInv'
<1> DEFINE old == req[r]
<1>1. /\ old # Idle /\ old.op = "restore" /\ old.step = "record"
      /\ UNCHANGED <<outside, disk, names, removed, restores, answers>>
  BY DEF recordRestore, At
<1>2. old.arg \in names /\ old.arg \in restores
  BY <1>1 DEF IInv, RequestsInOrder, JobInOrder, RestoreInOrder
<1>3. old.arg \in Backups
  BY <1>2 DEF IInv, SnapshotsInOrder
<1>4. CASE UNCHANGED backup /\ Continue(r, Idle, db)
  <2>1. UNCHANGED <<files, ledger, clock>>
    BY <1>1, <1>4 DEF Continue, disk, ledger
  <2>2. SnapshotsInOrder'
    BY <2>1, SnapshotsStay
  <2> QED BY <1>1, <1>4, <2>1, <2>2, SnapshotStep DEF IInv, DatabaseInOrder, disk
<1>5. CASE /\ backup[old.arg] # None
           /\ backup' = [backup EXCEPT ![old.arg].restored = TRUE]
           /\ Continue(r, Idle, Audited(r, db))
  <2> DEFINE row == [backup[old.arg] EXCEPT !.restored = TRUE]
  <2>1. backup[old.arg] \in BackupRows
    BY <1>3, <1>5 DEF IInv, SnapshotsInOrder
  <2>2. TRUE \in BOOLEAN
    OBVIOUS
  <2>3. row \in BackupRows
    BY <2>1, <2>2 DEF BackupRows
  <2>4. backup' = [backup EXCEPT ![old.arg] = row]
    BY <1>5
  <2> HIDE DEF row
  <2>5. /\ backup' \in [Backups -> BackupRows \cup {None}]
        /\ \A b \in Backups : b # old.arg => backup'[b] = backup[b]
    BY <1>3, <2>3, <2>4 DEF IInv, SnapshotsInOrder
  <2>6. UNCHANGED <<clock, files, names, removed, restores>>
    BY <1>1, <1>5 DEF Continue, disk
  <2>7. ListedHasFile' /\ RestoredMeansCommitted'
    BY <1>2, <1>3, <1>5, <2>5, <2>6 DEF IInv, SnapshotsInOrder, ListedHasFile, RestoredMeansCommitted
  <2>8. SnapshotsInOrder'
    BY <2>5, <2>6, <2>7 DEF IInv, SnapshotsInOrder
  <2>9. InTheirTables(Audited(r, db)) /\ ReferencesMet(Audited(r, db))
    BY <1>1, Standing, AuditedInOrder
  <2> QED BY <1>1, <1>5, <2>6, <2>8, <2>9, SnapshotStep DEF IInv, DatabaseInOrder, disk
<1> QED BY <1>4, <1>5 DEF recordRestore

-----------------------------------------------------------------------------
(* Caches and the health check.                                            *)

LEMMA ClearDirectoryKeeps ==
  ASSUME IInv, NEW r \in Requests, clearDirectory(r)
  PROVE  IInv'
<1> DEFINE old == req[r]
<1>1. /\ old # Idle /\ old.op = "clear" /\ old.step \in {"rm", "mkdir"}
      /\ UNCHANGED <<outside, files, canaries, excused, ledger, answers>>
  BY DEF clearDirectory, At
<1>2. JobInOrder(r) /\ ClearInOrder(old) /\ old.doc \in Seq(Directories) /\ old.doc # <<>>
  BY <1>1 DEF IInv, RequestsInOrder, JobInOrder, ClearInOrder
<1>3. ASSUME NEW job, Continue(r, job, db), SameCall(job, old),
             job.arg = old.arg, job.torn = old.torn, ClearInOrder(job),
             NEW d, NEW state \in {"missing", "empty"}, cache' = [cache EXCEPT ![d] = state]
      PROVE  IInv'
  <2>1. req'[r] = job /\ db' = db /\ UNCHANGED <<clock, calls>>
    BY <1>3 DEF Continue
  <2>2. ClearInOrder(req[r])'
    BY <1>3, <2>1 DEF ClearInOrder
  <2>3. JobInOrder(r)'
    BY <1>1, <1>2, <1>3, <2>1, <2>2, OwnJobInOrder DEF JobInOrder
  <2>4. DiskInOrder'
    BY <1>1, <1>3, <2>1 DEF IInv, DiskInOrder, CriticalHasCause
  <2>5. SnapshotsInOrder'
    BY <1>1, <2>1, SnapshotsStay
  <2>6. CanariesHeld'
    BY <1>1, <1>3, CanariesStay DEF At
  <2>7. Gentle(r)
    BY <1>1, <2>1 DEF Gentle, IInv, DiskInOrder, ledger
  <2>8. DatabaseInOrder'
    BY <1>1, <2>1 DEF IInv, DatabaseInOrder
  <2> QED BY <1>1, <1>3, <2>3, <2>4, <2>5, <2>6, <2>7, <2>8, StepKeeps
<1>4. CASE /\ cache' = [cache EXCEPT ![Head(old.doc)] = "missing"]
           /\ Continue(r, To(r, "mkdir"), db)
  <2> DEFINE job == To(r, "mkdir")
  <2>1. /\ SameCall(job, old) /\ job.arg = old.arg
        /\ job.torn = old.torn /\ job.doc = old.doc
    BY <1>1, ToInOrder
  <2> HIDE DEF job
  <2>2. ClearInOrder(job)
    BY <1>2, <2>1 DEF ClearInOrder
  <2>3. Continue(r, job, db)
    BY <1>4 DEF job
  <2> QED BY <1>3, <1>4, <2>1, <2>2, <2>3
<1>5. CASE /\ cache' = [cache EXCEPT ![Head(old.doc)] = "empty"]
           /\ Continue(r, [To(r, IF Len(old.doc) = 1 THEN "setting" ELSE "rm") EXCEPT !.doc = Tail(@)], db)
  <2> DEFINE step == IF Len(old.doc) = 1 THEN "setting" ELSE "rm"
             job == ToWith(r, step, Tail(old.doc))
  <2>1. [To(r, step) EXCEPT !.doc = Tail(@)] = job
    BY <1>1, ToInOrder DEF ToWith
  <2>2. Continue(r, job, db)
    BY <1>5, <2>1
  <2>3. /\ SameCall(job, old) /\ job.arg = old.arg
        /\ job.torn = old.torn /\ job.doc = Tail(old.doc) /\ job.step = step
    BY <1>1, DocInOrder
  <2>4. step = "rm" => Tail(old.doc) \in Seq(Directories) /\ Tail(old.doc) # <<>>
    <3>1. Len(old.doc) \in Nat /\ Len(old.doc) # 0 /\ Tail(old.doc) \in Seq(Directories)
      BY <1>2
    <3>2. Len(Tail(old.doc)) = Len(old.doc) - 1
      BY <1>2
    <3>3. Len(old.doc) # 1 => Len(Tail(old.doc)) # 0
      BY <3>1, <3>2
    <3>4. \A s : s = <<>> => Len(s) = 0
      OBVIOUS
    <3>5. step = "rm" => Len(old.doc) # 1
      OBVIOUS
    <3> HIDE DEF step
    <3> QED BY <3>1, <3>3, <3>4, <3>5
  <2>5. step \in {"setting", "rm"}
    OBVIOUS
  <2> HIDE DEF job, step
  <2>6. ClearInOrder(job)
    BY <1>2, <2>3, <2>4, <2>5 DEF ClearInOrder
  <2> QED BY <1>3, <1>5, <2>2, <2>3, <2>6
<1> QED BY <1>4, <1>5 DEF clearDirectory

\* A step of a health check.
LEMMA HealthStep ==
  ASSUME IInv, NEW r \in Requests, req[r] # Idle, req[r].op = "health", NEW job,
         Continue(r, job, db), UNCHANGED <<outside, files, cache, ledger>>,
         answers \subseteq answers', CriticalHasCause', excused' \subseteq canaries',
         \A c \in excused' : c \in excused \/ c = req[r].arg,
         \A c \in canaries' \ excused' :
           \/ /\ c \in canaries \ excused
              /\ (~At(r, "health", "written") /\ ~At(r, "health", "cleanup")) \/ req[r].arg # c
           \/ CanaryHeld(c)',
         \/ job = Idle
         \/ /\ SameCall(job, req[r])
            /\ job.arg = req[r].arg /\ job.torn = req[r].torn /\ job.step # "stat"
            /\ excused' = excused
  PROVE  IInv'
<1> DEFINE old == req[r]
<1>1. JobInOrder(r) /\ HealthInOrder(old)
  BY DEF IInv, RequestsInOrder, JobInOrder
<1>2. req'[r] = job /\ db' = db /\ UNCHANGED <<clock, calls>>
  BY DEF Continue
<1>3. CanariesHeld'
  BY HeldStays DEF CanariesHeld
<1>4. DiskInOrder'
  BY <1>1, <1>2 DEF IInv, DiskInOrder, HealthInOrder
<1>5. SnapshotsInOrder'
  BY <1>2, SnapshotsStay
<1>6. DatabaseInOrder'
  BY <1>2 DEF IInv, DatabaseInOrder
<1>7. Gentle(r)
  BY <1>2 DEF Gentle, IInv, DiskInOrder, ledger
<1>8. ASSUME job # Idle PROVE JobInOrder(r)'
  <2>1. HealthInOrder(req[r])'
    BY <1>1, <1>2, <1>8 DEF HealthInOrder
  <2> QED BY <1>1, <1>2, <1>8, <2>1, OwnJobInOrder DEF JobInOrder
<1> QED BY <1>3, <1>4, <1>5, <1>6, <1>7, <1>8, StepKeeps

\* A health check ends with an answer.
LEMMA AnswerFacts ==
  ASSUME NEW r \in Requests, NEW state, NEW canaryRemoved, NEW fault,
         Answer(r, state, canaryRemoved, fault), CriticalHasCause, NEW c, c = req[r].arg,
         state = "CRITICAL" => fault \/ req[r].company
  PROVE  /\ answers \subseteq answers' /\ CriticalHasCause' /\ Continue(r, Idle, db)
         /\ ~canaryRemoved => CanaryHeld(c)'
<1> DEFINE a == [canary |-> req[r].arg, state |-> state, canaryRemoved |-> canaryRemoved,
                 fault |-> fault, company |-> req[r].company]
<1>1. answers' = answers \cup {a} /\ Continue(r, Idle, db)
  BY DEF Answer
<1>2. /\ a.canary = req[r].arg /\ a.state = state /\ a.canaryRemoved = canaryRemoved
      /\ a.fault = fault /\ a.company = req[r].company
  OBVIOUS
<1> HIDE DEF a
<1>3. CriticalHasCause'
  BY <1>1, <1>2 DEF CriticalHasCause
<1>4. ~canaryRemoved => CanaryHeld(c)'
  BY <1>1, <1>2 DEF CanaryHeld
<1> QED BY <1>1, <1>3, <1>4

LEMMA WriteCanaryKeeps ==
  ASSUME IInv, NEW r \in Requests, writeCanary(r)
  PROVE  IInv'
<1>1. /\ req[r] # Idle /\ req[r].op = "health" /\ req[r].step = "start"
      /\ UNCHANGED <<outside, files, cache, ledger>>
  BY DEF writeCanary, At
<1>2. excused \subseteq canaries /\ CriticalHasCause /\ JobInOrder(r) /\ HealthInOrder(req[r])
  BY <1>1 DEF IInv, DiskInOrder, RequestsInOrder, JobInOrder
<1>3. ~At(r, "health", "written") /\ ~At(r, "health", "cleanup")
  BY <1>1 DEF At
<1>4. CASE /\ canaries' = canaries \cup {req[r].arg} /\ Continue(r, To(r, "written"), db)
           /\ UNCHANGED <<excused, answers>>
  <2> PICK c : c = req[r].arg
    OBVIOUS
  <2> DEFINE job == To(r, "written")
  <2>1. /\ SameCall(job, req[r]) /\ job.arg = c
        /\ job.step = "written" /\ job.torn = req[r].torn
    BY <1>1, ToInOrder
  <2>2. Continue(r, job, db) /\ req'[r] = job
    BY <1>4 DEF Continue
  <2> HIDE DEF job
  <2>3. CanaryHeld(c)'
    BY <1>1, <2>1, <2>2 DEF CanaryHeld, At, Idle, IsJob
  <2>4. CriticalHasCause'
    BY <1>2, <1>4 DEF CriticalHasCause
  <2> QED BY <1>1, <1>2, <1>3, <1>4, <2>1, <2>2, <2>3, <2>4, HealthStep
<1>5. ASSUME NEW left \in {{}, {req[r].arg}}, canaries' = canaries \cup left,
             excused' = excused \cup left, Answer(r, "CRITICAL", TRUE, TRUE)
      PROVE  IInv'
  <2>1. answers \subseteq answers' /\ CriticalHasCause' /\ Continue(r, Idle, db)
    BY <1>2, <1>5, AnswerFacts
  <2> QED BY <1>1, <1>2, <1>3, <1>5, <2>1, HealthStep
<1> QED BY <1>4, <1>5 DEF writeCanary

LEMMA RemoveCanaryKeeps ==
  ASSUME IInv, NEW r \in Requests, removeCanary(r)
  PROVE  IInv'
<1>1. /\ req[r] # Idle /\ req[r].op = "health"
      /\ UNCHANGED <<outside, files, cache, excused, ledger, answers>>
  BY DEF removeCanary, At
<1>2. excused \subseteq canaries /\ CriticalHasCause /\ req[r].arg \notin excused
  BY <1>1 DEF IInv, DiskInOrder, RequestsInOrder, JobInOrder, HealthInOrder
<1>3. CriticalHasCause'
  BY <1>1, <1>2 DEF CriticalHasCause
<1>4. CASE canaries' = canaries \ {req[r].arg} /\ Continue(r, To(r, "listing"), db)
  <2> DEFINE job == To(r, "listing")
  <2>1. /\ SameCall(job, req[r]) /\ job.arg = req[r].arg
        /\ job.step = "listing" /\ job.torn = req[r].torn
    BY <1>1, ToInOrder
  <2>2. Continue(r, job, db)
    BY <1>4
  <2> HIDE DEF job
  <2> QED BY <1>1, <1>2, <1>3, <1>4, <2>1, <2>2, HealthStep
<1>5. CASE UNCHANGED canaries /\ Continue(r, To(r, "cleanup"), db)
  <2> PICK c : c = req[r].arg
    OBVIOUS
  <2> DEFINE job == To(r, "cleanup")
  <2>1. /\ SameCall(job, req[r]) /\ job.arg = c
        /\ job.step = "cleanup" /\ job.torn = req[r].torn
    BY <1>1, ToInOrder
  <2>2. Continue(r, job, db) /\ req'[r] = job
    BY <1>5 DEF Continue
  <2> HIDE DEF job
  <2>3. CanaryHeld(c)'
    BY <1>1, <2>1, <2>2 DEF CanaryHeld, At, Idle, IsJob
  <2> QED BY <1>1, <1>2, <1>3, <1>5, <2>1, <2>2, <2>3, HealthStep
<1> QED BY <1>4, <1>5 DEF removeCanary

LEMMA CleanUpKeeps ==
  ASSUME IInv, NEW r \in Requests, cleanUpCanary(r)
  PROVE  IInv'
<1>1. /\ req[r] # Idle /\ req[r].op = "health"
      /\ UNCHANGED <<outside, files, cache, excused, ledger>>
  BY DEF cleanUpCanary, At
<1>2. excused \subseteq canaries /\ CriticalHasCause /\ req[r].arg \notin excused
  BY <1>1 DEF IInv, DiskInOrder, RequestsInOrder, JobInOrder, HealthInOrder
<1>3. PICK c : c = req[r].arg
  OBVIOUS
<1>4. PICK left \in {{}, {c}} : /\ canaries' = (canaries \ {c}) \cup left
                                /\ Answer(r, "CRITICAL", left = {}, TRUE)
  BY <1>3 DEF cleanUpCanary
<1>5. answers \subseteq answers' /\ CriticalHasCause' /\ Continue(r, Idle, db)
      /\ (left # {} => CanaryHeld(c)')
  BY <1>2, <1>3, <1>4, AnswerFacts
<1> QED BY <1>1, <1>2, <1>3, <1>4, <1>5, HealthStep

LEMMA StatKeeps ==
  ASSUME IInv, NEW r \in Requests, statUploads(r)
  PROVE  IInv'
<1>1. /\ req[r] # Idle /\ req[r].op = "health" /\ req[r].step = "stat"
      /\ UNCHANGED <<outside, disk, ledger>>
  BY DEF statUploads, At
<1>2. excused \subseteq canaries /\ CriticalHasCause /\ HealthInOrder(req[r])
  BY <1>1 DEF IInv, DiskInOrder, RequestsInOrder, JobInOrder
<1>3. answers \subseteq answers' /\ CriticalHasCause' /\ Continue(r, Idle, db)
  <2> DEFINE state == IF req[r].doc \subseteq canaries THEN "HEALTHY" ELSE "CRITICAL"
  <2>1. state = "CRITICAL" => req[r].company
    BY <1>1, <1>2 DEF HealthInOrder
  <2>2. Answer(r, state, TRUE, FALSE) \/ Answer(r, "CRITICAL", TRUE, TRUE)
    BY DEF statUploads
  <2> HIDE DEF state
  <2>3. CASE Answer(r, state, TRUE, FALSE)
    <3>1. PICK fault : fault = FALSE
      OBVIOUS
    <3>2. Answer(r, state, TRUE, fault)
      BY <2>3, <3>1
    <3>3. state = "CRITICAL" => fault \/ req[r].company
      BY <2>1
    <3> QED BY <1>2, <3>2, <3>3, AnswerFacts
  <2>4. CASE Answer(r, "CRITICAL", TRUE, TRUE)
    BY <1>2, <2>4, AnswerFacts
  <2> QED BY <2>2, <2>3, <2>4
<1>4. ~At(r, "health", "written") /\ ~At(r, "health", "cleanup")
  BY <1>1 DEF At
<1> QED BY <1>1, <1>2, <1>3, <1>4, HealthStep DEF disk

-----------------------------------------------------------------------------
(* Arrivals, crashes and the clock.                                        *)

\* The gate: no request on a gated path starts while it is shut to its claim.
LEMMA UseKeeps ==
  ASSUME IInv, NEW r \in Requests, NEW claim, NEW op \in Ops, NEW arg, use(r, claim, op, arg),
         op = "maintenance" => arg \in SUBSET {"enabled", "allowAdminBypass"},
         op \in {"delete", "restore"} => arg \in names,
         op = "clear" => arg \in {"api", "all"},
         op = "health" => arg = calls
  PROVE  IInv'
<1> DEFINE job == [op |-> op, claim |-> claim, arg |-> arg, call |-> calls, step |-> "start",
                   doc |-> None, began |-> None, torn |-> {}, outlived |-> FALSE, company |-> FALSE]
<1>1. /\ req[r] = Idle /\ passes(claim, op) /\ req' = [req EXCEPT ![r] = job] /\ calls' = calls + 1
      /\ UNCHANGED <<db, outside, disk, ledger, answers, clock>>
  BY DEF use
<1>2. /\ IsJob(job) /\ job.op = op /\ job.claim = claim /\ job.arg = arg /\ job.step = "start"
      /\ job.torn = {} /\ job.call = calls
  BY DEF IsJob
<1> HIDE DEF job
<1>3. /\ req' = [q \in Requests |-> req'[q]] /\ req'[r] = job
      /\ \A q \in Requests : q # r => req'[q] = req[q]
  BY <1>1 DEF IInv, RequestsInOrder
<1>4. calls \in Nat /\ calls' \in Nat /\ calls < calls'
      /\ \A c \in excused : c \in Nat /\ c < calls
  BY <1>1 DEF IInv, DiskInOrder
<1>5. UNCHANGED <<files, cache, canaries, excused, backup, names, removed, restores>>
  BY <1>1 DEF disk, ledger
<1>6. DiskInOrder'
  <2>1. \A c \in excused : c \in Nat /\ c < calls'
    BY <1>4
  <2> QED BY <1>1, <1>4, <1>5, <2>1 DEF IInv, DiskInOrder, CriticalHasCause
<1>7. SnapshotsInOrder' /\ DatabaseInOrder'
  BY <1>1, <1>5, SnapshotsStay DEF IInv, DatabaseInOrder
<1>8. CanariesHeld'
  BY <1>1, <1>3, <1>5 DEF IInv, CanariesHeld, CanaryHeld, At
<1>9. JobInOrder(r)'
  <2>1. op \in Exempt \/ ~Shut(db, claim)
    BY <1>1 DEF passes, Shut
  <2>2. Gated(req[r])'
    BY <1>1, <1>2, <1>3, <2>1 DEF Gated, Shut, Enabled, AllowAdminBypass
  <2>3. calls \notin excused
    BY <1>4
  <2>4. op = "backup" => BackupInOrder(req[r])'
    BY <1>2, <1>3 DEF BackupInOrder
  <2>5. op = "restore" => RestoreInOrder(req[r])'
    BY <1>2, <1>3 DEF RestoreInOrder
  <2>6. op = "clear" => ClearInOrder(req[r])'
    BY <1>2, <1>3 DEF ClearInOrder
  <2>7. op = "health" => HealthInOrder(req[r])'
    BY <1>2, <1>3, <1>4, <1>5, <2>3 DEF HealthInOrder
  <2> QED BY <1>2, <1>3, <1>4, <1>5, <2>2, <2>4, <2>5, <2>6, <2>7 DEF JobInOrder, IsJob
<1>10. ASSUME NEW q \in Requests, q # r, req[q] # Idle PROVE JobInOrder(q)'
  <2>1. JobInOrder(q)
    BY <1>10 DEF IInv, RequestsInOrder
  <2>2. req[q].op = "health" => req[q].arg \in Nat /\ req[q].arg < calls'
    BY <1>4, <2>1 DEF JobInOrder, HealthInOrder
  <2>3. HealthInOrder(req[q]) /\ req[q].op = "health" => HealthInOrder(req[q])'
    BY <1>3, <1>5, <1>10, <2>2 DEF HealthInOrder
  <2>4. Gated(req[q]) => Gated(req[q])'
    BY <1>1, <1>3, <1>10 DEF Gated, Shut, Enabled, AllowAdminBypass
  <2>5. BackupInOrder(req[q]) => BackupInOrder(req[q])'
    BY <1>1, <1>3, <1>5, <1>10 DEF BackupInOrder, Reading
  <2>6. RestoreInOrder(req[q]) => RestoreInOrder(req[q])'
    BY <1>1, <1>3, <1>5, <1>10 DEF RestoreInOrder, TransactionInOrder, Emptied
  <2>7. ClearInOrder(req[q]) => ClearInOrder(req[q])'
    BY <1>3, <1>10 DEF ClearInOrder
  <2> QED BY <1>3, <1>5, <1>10, <2>1, <2>3, <2>4, <2>5, <2>6, <2>7 DEF JobInOrder, IsJob
<1>11. \A q \in Requests : q # r /\ req[q] # Idle /\ req[q].op = "health" => req[q].arg # calls
  BY <1>4 DEF IInv, RequestsInOrder, JobInOrder, HealthInOrder
<1>12. RequestsInOrder'
  BY <1>2, <1>3, <1>9, <1>10, <1>11 DEF RequestsInOrder, IInv
<1> QED BY <1>6, <1>7, <1>8, <1>12 DEF IInv

\* A request that stops where it is takes nothing with it but its canary, which is excused.
LEMMA CrashKeeps ==
  ASSUME IInv, NEW r \in Requests, Crash(r)
  PROVE  IInv'
<1> DEFINE lost == IF req[r].op = "health" THEN canaries \cap {req[r].arg} ELSE {}
<1>1. /\ req[r] # Idle /\ req' = [req EXCEPT ![r] = Idle] /\ excused' = excused \cup lost
      /\ UNCHANGED <<db, outside, files, cache, canaries, ledger, answers, clock, calls>>
  BY DEF Crash
<1>2. /\ \A c \in lost : c \in canaries /\ req[r].op = "health" /\ c = req[r].arg
      /\ req[r].op = "health" /\ req[r].arg \in canaries => req[r].arg \in lost
  OBVIOUS
<1> HIDE DEF lost
<1>3. /\ req' = [q \in Requests |-> req'[q]] /\ req'[r] = Idle
      /\ \A q \in Requests : q # r => req'[q] = req[q]
  BY <1>1 DEF IInv, RequestsInOrder
<1>4. JobInOrder(r)
  BY <1>1 DEF IInv, RequestsInOrder
<1>5. req[r].op = "health" => req[r].arg \in Nat /\ req[r].arg < calls
  BY <1>4 DEF JobInOrder, HealthInOrder
<1>6. DiskInOrder'
  BY <1>1, <1>2, <1>5 DEF IInv, DiskInOrder, CriticalHasCause
<1>7. SnapshotsInOrder' /\ DatabaseInOrder'
  BY <1>1, SnapshotsStay DEF IInv, DatabaseInOrder
<1>8. ASSUME NEW c \in canaries' \ excused' PROVE CanaryHeld(c)'
  <2>1. c \in canaries \ excused /\ CanaryHeld(c) /\ c \notin lost
    BY <1>1, <1>8 DEF IInv, CanariesHeld
  <2>2. req[r].op = "health" => req[r].arg # c
    BY <1>2, <2>1
  <2> QED BY <1>1, <1>3, <2>1, <2>2 DEF CanaryHeld, At
<1>9. ASSUME NEW q \in Requests, q # r, req[q] # Idle PROVE JobInOrder(q)'
  <2>1. JobInOrder(q)
    BY <1>9 DEF IInv, RequestsInOrder
  <2>2. req[q].op = "health" => req[q].arg \notin lost
    BY <1>1, <1>2, <1>9 DEF IInv, RequestsInOrder
  <2>3. req[q].op = "health" => HealthInOrder(req[q])'
    BY <1>1, <1>3, <1>9, <2>1, <2>2 DEF HealthInOrder, JobInOrder
  <2>4. UNCHANGED <<names, removed, restores>> /\ (Gated(req[q]) => Gated(req[q])')
    BY <1>1, <1>3, <1>9 DEF Gated, Shut, Enabled, AllowAdminBypass, ledger
  <2>5. BackupInOrder(req[q]) => BackupInOrder(req[q])'
    BY <1>1, <1>3, <1>9, <2>4 DEF BackupInOrder, Reading
  <2>6. RestoreInOrder(req[q]) => RestoreInOrder(req[q])'
    BY <1>1, <1>3, <1>9, <2>4 DEF RestoreInOrder, TransactionInOrder, Emptied
  <2>7. ClearInOrder(req[q]) => ClearInOrder(req[q])'
    BY <1>3, <1>9 DEF ClearInOrder
  <2> QED BY <1>3, <1>9, <2>1, <2>3, <2>4, <2>5, <2>6, <2>7 DEF JobInOrder, IsJob
<1>10. RequestsInOrder'
  BY <1>3, <1>9 DEF RequestsInOrder, IInv
<1> QED BY <1>6, <1>7, <1>8, <1>10 DEF IInv, CanariesHeld

\* What IInv says does not depend on the clock, except for its bound, nor on the workload.
LEMMA ClockKeeps ==
  ASSUME IInv, clock' \in 0..MaxClock,
         UNCHANGED <<db, outside, backup, files, cache, canaries, answers, req, names, removed,
                     restores, excused, calls>>
  PROVE  IInv'
<1>1. DatabaseInOrder' /\ DiskInOrder' /\ CanariesHeld'
  BY DEF IInv, DatabaseInOrder, DiskInOrder, CriticalHasCause, CanariesHeld, CanaryHeld, At
<1>2. SnapshotsInOrder'
  BY DEF IInv, SnapshotsInOrder, ListedHasFile, RestoredMeansCommitted
<1>3. ASSUME NEW q \in Requests, JobInOrder(q) PROVE JobInOrder(q)'
  <2>1. Gated(req[q]) => Gated(req[q])'
    BY DEF Gated, Shut, Enabled, AllowAdminBypass
  <2>2. BackupInOrder(req[q]) => BackupInOrder(req[q])'
    BY DEF BackupInOrder, Reading
  <2>3. /\ RestoreInOrder(req[q]) => RestoreInOrder(req[q])'
        /\ ClearInOrder(req[q]) => ClearInOrder(req[q])'
        /\ HealthInOrder(req[q]) => HealthInOrder(req[q])'
    BY DEF RestoreInOrder, TransactionInOrder, Emptied, ClearInOrder, HealthInOrder
  <2> QED BY <1>3, <2>1, <2>2, <2>3 DEF JobInOrder, IsJob
<1>4. RequestsInOrder'
  BY <1>3 DEF IInv, RequestsInOrder
<1> QED BY <1>1, <1>2, <1>4 DEF IInv

LEMMA InitInOrder ==
  ASSUME Init
  PROVE  IInv
<1>1. /\ req = [q \in Requests |-> req[q]] /\ \A q \in Requests : req[q] = Idle
  BY DEF Init
<1>2. RequestsInOrder /\ CanariesHeld /\ DiskInOrder
  BY <1>1 DEF Init, RequestsInOrder, CanariesHeld, DiskInOrder, CriticalHasCause, Idle
<1>3. SnapshotsInOrder
  BY ToolsAssumption DEF Init, SnapshotsInOrder, ListedHasFile, RestoredMeansCommitted
<1>4. DatabaseInOrder
  <2> DEFINE fill(t) == {[id |-> row, parent |-> Parent[row], value |-> "data"] :
                          row \in {row \in workload.seed : Table[row] = t}}
  <2>1. /\ db = [t \in TableNames |-> fill(t)]
        /\ workload \in Workloads /\ outside = [row \in DOMAIN Outside |-> "absent"]
    BY DEF Init
  <2>2. /\ workload.seed \subseteq Rows
        /\ \A row \in workload.seed : Parent[row] # None => Parent[row] \in workload.seed
    BY <2>1, RowsAssumption
  <2>3. \A row \in workload.seed : /\ Table[row] \in RowTables
                                   /\ Parent[row] # None => Parent[row] \in Rows
    BY <2>2, RowsAssumption DEF OnDelete, RowTables
  <2>4. \A t \in TableNames : \A x \in db[t] :
          /\ x \in Referring /\ x.id \in workload.seed /\ Table[x.id] = t
          /\ x.parent = Parent[x.id] /\ t \in RowTables
    BY <2>1, <2>2, <2>3 DEF Referring
  <2>5. \A row \in workload.seed : row \in Ids(db[Table[row]])
    <3> SUFFICES ASSUME NEW row \in workload.seed PROVE \E x \in db[Table[row]] : x.id = row
      BY DEF Ids
    <3>1. Table[row] \in TableNames
      BY <2>3 DEF RowTables, TableNames
    <3>2. [id |-> row, parent |-> Parent[row], value |-> "data"] \in fill(Table[row])
      OBVIOUS
    <3> QED BY <2>1, <3>1, <3>2
  <2> HIDE DEF fill
  <2>6. db["demoAuditLogs"] = {} /\ db["platformSettings"] = {}
    BY <2>4 DEF TableNames, RowTables
  <2>7. db \in Tables
    BY <2>1, <2>4, <2>6 DEF Tables, TableNames
  <2>8. InTheirTables(db)
    BY <2>4, <2>7 DEF InTheirTables, RowTables, TableNames
  <2>9. ReferencesMet(db)
    BY <2>2, <2>4, <2>5 DEF ReferencesMet
  <2> QED BY <2>1, <2>8, <2>9 DEF DatabaseInOrder
<1> QED BY <1>2, <1>3, <1>4 DEF IInv

LEMMA NextKeeps ==
  ASSUME IInv, [Next]_vars
  PROVE  IInv'
<1>1. CASE Arrivals
  <2> PICK r \in Requests :
        \/ \E claim \in workload.claims : use(r, claim, "write", None)
        \/ use(r, "CITIZEN", "login", None) \/ use(r, "CITIZEN", "me", None)
        \/ use(r, "SUPER_ADMIN", "backup", None)
        \/ \E b \in names, op \in {"delete", "restore"} : use(r, "SUPER_ADMIN", op, b)
        \/ \E state \in SUBSET {"enabled", "allowAdminBypass"} : use(r, "SUPER_ADMIN", "maintenance", state)
        \/ \E scope \in {"api", "all"} : use(r, "SUPER_ADMIN", "clear", scope)
        \/ use(r, "SUPER_ADMIN", "health", calls)
    BY <1>1 DEF Arrivals
  <2> USE DEF Ops
  <2>1. CASE \E claim \in workload.claims : use(r, claim, "write", None)
    BY <2>1, UseKeeps
  <2>2. CASE use(r, "CITIZEN", "login", None) \/ use(r, "CITIZEN", "me", None)
    BY <2>2, UseKeeps
  <2>3. CASE use(r, "SUPER_ADMIN", "backup", None)
    BY <2>3, UseKeeps
  <2>4. CASE \E b \in names, op \in {"delete", "restore"} : use(r, "SUPER_ADMIN", op, b)
    BY <2>4, UseKeeps
  <2>5. CASE \E state \in SUBSET {"enabled", "allowAdminBypass"} : use(r, "SUPER_ADMIN", "maintenance", state)
    BY <2>5, UseKeeps
  <2>6. CASE \E scope \in {"api", "all"} : use(r, "SUPER_ADMIN", "clear", scope)
    BY <2>6, UseKeeps
  <2>7. CASE use(r, "SUPER_ADMIN", "health", calls)
    BY <2>7, UseKeeps
  <2> QED BY <2>1, <2>2, <2>3, <2>4, <2>5, <2>6, <2>7
<1>2. CASE Steps
  BY <1>2, MaintenanceKeeps, LoginKeeps, UpdateMeKeeps, InsertKeeps, CrashKeeps, CreateKeeps, ReadTableKeeps, WriteFileKeeps,
     InsertRowKeeps, DeleteKeeps, RemoveFileKeeps, DeleteRowKeeps, RestoreKeeps, ReadFileKeeps,
     DeleteManyKeeps, CreateManyKeeps, ReplaceKeeps, RecordKeeps, ClearKeeps, ClearDirectoryKeeps, ClearedKeeps,
     WriteCanaryKeeps, RemoveCanaryKeeps, CleanUpKeeps, ListKeeps, StatKeeps DEF Steps
<1>3. CASE Hour
  <2>1. clock' \in 0..MaxClock
    BY <1>3, ToolsAssumption DEF Hour, IInv, SnapshotsInOrder
  <2> QED BY <1>3, <2>1, ClockKeeps DEF Hour, disk, ledger
<1>4. CASE UNCHANGED vars
  <2>1. clock' \in 0..MaxClock
    BY <1>4 DEF vars, IInv, SnapshotsInOrder
  <2> QED BY <1>4, <2>1, ClockKeeps DEF vars
<1> QED BY <1>1, <1>2, <1>3, <1>4 DEF Next

LEMMA Invariance == Spec => []IInv
<1>1. Init => IInv
  BY InitInOrder
<1>2. IInv /\ [Next]_vars => IInv'
  BY NextKeeps
<1> QED BY <1>1, <1>2, PTL DEF Spec

-----------------------------------------------------------------------------
(* What the invariant says of the tools.                                   *)

\* The snapshot that was listed last, when there is one.
LEMMA LatestExists ==
  ASSUME IInv, NEW b \in Backups, backup[b] # None
  PROVE  LatestBackup # {}
<1> DEFINE listed == {a \in Backups : backup[a] # None}
           T == {MaxClock - backup[a].createdAt : a \in listed}
<1>1. MaxClock \in Nat /\ \A a \in listed : backup[a].createdAt \in 0..MaxClock
  BY ToolsAssumption DEF IInv, SnapshotsInOrder, BackupRows
<1>2. T \in SUBSET Nat /\ T # {}
  BY <1>1
<1>3. PICK x \in T : \A y \in T : x <= y
  BY <1>2, LeastNumber
<1>4. PICK c \in listed : x = MaxClock - backup[c].createdAt
  BY <1>3
<1>5. \A a \in listed : MaxClock - backup[a].createdAt \in T
  OBVIOUS
<1>6. ASSUME NEW a \in listed PROVE backup[a].createdAt <= backup[c].createdAt
  <2>1. x <= MaxClock - backup[a].createdAt
    <3> HIDE DEF T
    <3> QED BY <1>3, <1>5, <1>6
  <2>2. /\ MaxClock \in Nat /\ backup[a].createdAt \in 0..MaxClock
        /\ backup[c].createdAt \in 0..MaxClock
    BY <1>1, <1>4, <1>6
  <2> QED BY <1>4, <2>1, <2>2
<1>7. c \in LatestBackup
  BY <1>6 DEF LatestBackup
<1> QED BY <1>7

\* The disk at its critical threshold: the rounding of freePercent does not hide it.
LEMMA DiskIsSeen ==
  ASSUME NEW freeBytes \in 0..4, 100 * freeBytes <= 20 * CriticalFree
  PROVE  diskCapacityState(freeBytes, 20) = "CRITICAL"
<1>1. CriticalFree \in 0..100
  BY ToolsAssumption
<1>2. /\ (200 * 0 + 20) \div (2 * 20) = 0 /\ (200 * 1 + 20) \div (2 * 20) = 5
      /\ (200 * 2 + 20) \div (2 * 20) = 10 /\ (200 * 3 + 20) \div (2 * 20) = 15
      /\ (200 * 4 + 20) \div (2 * 20) = 20
  OBVIOUS
<1>3. (200 * freeBytes + 20) \div (2 * 20) <= CriticalFree
  <2>1. freeBytes = 0 \/ freeBytes = 1 \/ freeBytes = 2 \/ freeBytes = 3 \/ freeBytes = 4
    OBVIOUS
  <2>2. CASE freeBytes = 0  BY <1>1, <1>2, <2>2
  <2>3. CASE freeBytes = 1  BY <1>1, <1>2, <2>3
  <2>4. CASE freeBytes = 2  BY <1>1, <1>2, <2>4
  <2>5. CASE freeBytes = 3  BY <1>1, <1>2, <2>5
  <2>6. CASE freeBytes = 4  BY <1>1, <1>2, <2>6
  <2> QED BY <2>1, <2>2, <2>3, <2>4, <2>5, <2>6
<1> QED BY <1>3 DEF diskCapacityState

LEMMA FreshnessIsSeen ==
  ASSUME IInv
  PROVE  /\ backupFreshnessState \in {"UNKNOWN", "WARNING", "CRITICAL"}
         /\ \A b \in Backups :
              /\ CriticalHours # None /\ backup[b] # None
              /\ \A a \in Backups : backup[a] # None => clock - backup[a].createdAt >= CriticalHours
              => backupFreshnessState = "CRITICAL"
<1> DEFINE latest == CHOOSE b \in LatestBackup : TRUE
           ageHours == clock - backup[latest].createdAt
<1>1. backupFreshnessState \in {"UNKNOWN", "WARNING", "CRITICAL"}
  <2> HIDE DEF ageHours
  <2>1. backupFreshnessState =
          IF LatestBackup = {} THEN "UNKNOWN"
          ELSE CASE CriticalHours # None /\ ageHours >= CriticalHours -> "CRITICAL"
                 [] ~(CriticalHours # None /\ ageHours >= CriticalHours) /\ WarningHours # None /\ ageHours >= WarningHours
                      -> "WARNING"
                 [] OTHER -> "UNKNOWN"
    BY DEF backupFreshnessState, ageHours
  <2> QED BY <2>1
<1>2. ASSUME NEW b \in Backups, CriticalHours # None, backup[b] # None,
             \A a \in Backups : backup[a] # None => clock - backup[a].createdAt >= CriticalHours
      PROVE  backupFreshnessState = "CRITICAL"
  <2>1. LatestBackup # {}
    BY <1>2, LatestExists
  <2>2. latest \in LatestBackup
    BY <2>1
  <2>3. latest \in Backups /\ backup[latest] # None
    BY <2>2 DEF LatestBackup
  <2>4. ageHours >= CriticalHours
    BY <1>2, <2>3
  <2> QED BY <1>2, <2>1, <2>4 DEF backupFreshnessState
<1> QED BY <1>1, <1>2

LEMMA HealthIsNotMasked ==
  ASSUME IInv
  PROVE  HealthNotMasked
<1> SUFFICES ASSUME NEW database \in {"HEALTHY", "CRITICAL"}, NEW uploads \in {"HEALTHY", "CRITICAL"},
                    NEW freeBytes \in 0..4
             PROVE  LET overall == operationalHealth(database, uploads, diskCapacityState(freeBytes, 20),
                                                     backupFreshnessState)
                        outdated == CriticalHours # None /\ \E b \in Backups :
                          /\ backup[b] # None
                          /\ \A a \in Backups : backup[a] # None => clock - backup[a].createdAt >= CriticalHours
                    IN /\ overall # "HEALTHY"
                       /\ "CRITICAL" \in {database, uploads} \/ 100 * freeBytes <= 20 * CriticalFree \/ outdated
                            => overall = "CRITICAL"
  BY DEF HealthNotMasked
<1> DEFINE capacity == diskCapacityState(freeBytes, 20)
           freshness == backupFreshnessState
           overall == operationalHealth(database, uploads, capacity, freshness)
           outdated == CriticalHours # None /\ \E b \in Backups :
                         /\ backup[b] # None
                         /\ \A a \in Backups : backup[a] # None => clock - backup[a].createdAt >= CriticalHours
<1>1. freshness \in {"UNKNOWN", "WARNING", "CRITICAL"} /\ (outdated => freshness = "CRITICAL")
  BY FreshnessIsSeen
<1>2. 100 * freeBytes <= 20 * CriticalFree => capacity = "CRITICAL"
  BY DiskIsSeen
<1> DEFINE states == {"HEALTHY", database, uploads, capacity, freshness}
<1>3. overall = worstState(states)
  BY DEF operationalHealth
<1> HIDE DEF overall, capacity, freshness, outdated
<1>4. "CRITICAL" \in states \/ "WARNING" \in states \/ "UNKNOWN" \in states
  BY <1>1
<1>5. "CRITICAL" \in {database, uploads} \/ 100 * freeBytes <= 20 * CriticalFree \/ outdated
        => "CRITICAL" \in states
  BY <1>1, <1>2
<1> HIDE DEF states
<1>6. overall # "HEALTHY" /\ ("CRITICAL" \in states => overall = "CRITICAL")
  BY <1>3, <1>4 DEF worstState
<1> QED BY <1>5, <1>6 DEF overall, outdated, capacity, freshness

\* What the tools list and answer is so: ToolsInv holds for every number of requests, snapshots,
\* rows and calls, and for every threshold of the health check.
THEOREM ToolsAlwaysInOrder == Spec => []ToolsInv
<1>1. ASSUME IInv PROVE ToolsTypeOK
  <2>1. db \in Tables /\ DOMAIN OnDelete = RowTables
    BY <1>1 DEF IInv, DatabaseInOrder, InTheirTables, OnDelete, RowTables
  <2>2. \A t \in RowTables : \A row \in db[t] : Table[row.id] = t
    BY <1>1 DEF IInv, DatabaseInOrder, InTheirTables
  <2>3. \A b \in Backups : backup[b] = None \/ backup[b] \in BackupRows
    BY <1>1 DEF IInv, SnapshotsInOrder
  <2> QED BY <1>1, <2>1, <2>2, <2>3
        DEF ToolsTypeOK, IInv, DatabaseInOrder, SnapshotsInOrder, DiskInOrder, BackupRows
<1>2. ASSUME IInv PROVE ListedHasFile /\ RestoredMeansCommitted /\ CriticalHasCause
  BY <1>2 DEF IInv, SnapshotsInOrder, DiskInOrder
<1>3. ASSUME IInv PROVE CanaryAccounted
  BY <1>3 DEF IInv, CanariesHeld, CanaryHeld, At, CanaryAccounted
<1>4. IInv => ToolsInv
  BY <1>1, <1>2, <1>3, HealthIsNotMasked DEF ToolsInv
<1> QED BY <1>4, Invariance, PTL

LEMMA CreateOrderIs ==
  /\ CreateOrder[1] = "organizations" /\ CreateOrder[2] = "users" /\ CreateOrder[3] = "reports"
  /\ CreateOrder[4] = "notifications" /\ CreateOrder[5] = "demoAuditLogs"
  /\ CreateOrder[6] = "platformSettings" /\ DOMAIN CreateOrder = 1..6 /\ Len(CreateOrder) = 6
BY DEF CreateOrder

\* When the n-th createMany is next, the tables before it have been filled, and no other.
LEMMA FilledIs ==
  ASSUME NEW doc, NEW n \in 1..7, doc.at = 6 + n
  PROVE  Filled(doc) = {CreateOrder[i] : i \in 1..(n - 1)}
<1>1. Len(DeleteOrder) = 6 /\ DOMAIN CreateOrder = 1..6
  BY DeleteOrderIs, CreateOrderIs
<1>2. \A i \in Int : (i \in 1..6 /\ i + 6 < 6 + n) <=> i \in 1..(n - 1)
  OBVIOUS
<1>3. {i \in 1..6 : i + 6 < 6 + n} = 1..(n - 1)
  BY <1>2
<1> QED BY <1>1, <1>3 DEF Filled

\* What is left of an emptied table was written by others.
LEMMA LeftIsLate ==
  ASSUME NEW doc, TransactionInOrder(doc), doc.at > 6, NEW t \in TableNames, NEW row \in db[t],
         row.id \notin doc.gone[t]
  PROVE  row.id \in doc.late[t]
<1>1. PICK i \in 1..6 : t = DeleteOrder[i]
  BY DeleteOrderIs
<1>2. i < doc.at
  BY DEF TransactionInOrder
<1>3. row.id \in Ids(db[t])
  BY DEF Ids
<1> QED BY <1>1, <1>2, <1>3 DEF TransactionInOrder, Emptied

LEMMA SurvivorKeepsId ==
  ASSUME NEW doc, NEW tables, InTheirTables(tables), NEW t \in TableNames, NEW row \in tables[t]
  PROVE  Survivor(doc, row).id = row.id
<1>1. row = [id |-> row.id, parent |-> row.parent, value |-> row.value]
  BY RowFacts
<1> QED BY <1>1 DEF Survivor

\* The order of the createMany calls of restoreBackup suits every snapshot that was not torn by
\* writes made while its tables were read, whatever the rows and their references; only a null in a
\* Json column or a key that somebody wrote meanwhile makes a call fail.
THEOREM QuietSnapshotAlwaysRestorable == Spec => []RestorableUnlessTorn
<1>1. ASSUME IInv PROVE RestorableUnlessTorn
  <2> SUFFICES ASSUME NEW r \in Requests, InTransaction(r), NEW i \in 1..6,
                      req[r].doc.at = 6 + i, req[r].doc.file.torn = {},
                      \A row \in req[r].doc.file.tables[CreateOrder[i]] :
                        row.value # None /\ row.id \notin req[r].doc.late[CreateOrder[i]]
               PROVE  Accepts(req[r].doc, CreateOrder[i])
    BY CreateOrderIs, DeleteOrderIs DEF RestorableUnlessTorn
  <2> DEFINE doc == req[r].doc  file == doc.file  t == CreateOrder[i]
  <2>1. TransactionInOrder(doc) /\ FileInOrder(file) /\ InTheirTables(db)
    BY <1>1, InTransactionFacts DEF TransactionInOrder, IInv, DatabaseInOrder
  <2>2. InTheirTables(file.tables) /\ ReferencesMet(file.tables)
    BY <2>1 DEF FileInOrder
  <2>3. Filled(doc) = {CreateOrder[j] : j \in 1..(i - 1)}
    BY FilledIs
  <2>4. t \in TableNames /\ t \notin Filled(doc) /\ doc.at > 6
    <3>1. i = 1 \/ i = 2 \/ i = 3 \/ i = 4 \/ i = 5 \/ i = 6
      OBVIOUS
    <3>2. \A j \in 1..(i - 1) : CreateOrder[j] # CreateOrder[i]
      BY <3>1, CreateOrderIs
    <3>3. t \in TableNames
      BY <3>1, CreateOrderIs DEF TableNames
    <3> QED BY <2>3, <3>2, <3>3
  <2>5. ASSUME NEW row \in file.tables[t] PROVE row.id \notin Ids(View(doc)[t])
    <3> SUFFICES ASSUME NEW x \in View(doc)[t], x.id = row.id PROVE FALSE
      BY DEF Ids
    <3>1. PICK old \in db[t] : old.id \notin doc.gone[t] /\ x = Survivor(doc, old)
      BY <2>4 DEF View
    <3>2. x.id = old.id
      BY <2>1, <2>4, <3>1, SurvivorKeepsId
    <3>3. old.id \in doc.late[t]
      BY <2>1, <2>4, <3>1, LeftIsLate
    <3> QED BY <3>2, <3>3
  <2>6. ASSUME NEW row \in file.tables[t], row.parent # None
        PROVE  row.parent \in Ids(View(doc)[Table[row.parent]]) \cup Ids(file.tables[t])
    <3> DEFINE u == Table[row.parent]
    <3>1. row.parent \in Ids(file.tables[u])
      BY <2>2, <2>4, <2>6 DEF ReferencesMet
    <3>2. u \in RowTables \cap DOMAIN OnDelete[t] /\ t \in RowTables
      BY <2>2, <2>4, <2>6, RowFacts
    <3> HIDE DEF u
    <3>3. u = t \/ u \in Filled(doc)
      <4>1. \/ i = 1 /\ t = "organizations"
            \/ i = 2 /\ t = "users"
            \/ i = 3 /\ t = "reports"
            \/ i = 4 /\ t = "notifications"
        <5>1. i = 1 \/ i = 2 \/ i = 3 \/ i = 4 \/ i = 5 \/ i = 6
          OBVIOUS
        <5> QED BY <3>2, <5>1, CreateOrderIs DEF RowTables
      <4>2. \/ i = 1 /\ u = "organizations"
            \/ i = 2 /\ u = "organizations"
            \/ i = 3 /\ (u = "organizations" \/ u = "users")
            \/ i = 4 /\ (u = "users" \/ u = "reports")
        BY <3>2, <4>1 DEF OnDelete
      <4> HIDE DEF t
      <4>3. u = t \/ \E j \in 1..(i - 1) : u = CreateOrder[j]
        <5>1. CASE i = 1
          BY <4>1, <4>2, <5>1
        <5>2. CASE i = 2
          <6>1. 1 \in 1..(i - 1)
            BY <5>2
          <6> QED BY <4>2, <5>2, <6>1, CreateOrderIs
        <5>3. CASE i = 3
          <6>1. 1 \in 1..(i - 1) /\ 2 \in 1..(i - 1)
            BY <5>3
          <6> QED BY <4>2, <5>3, <6>1, CreateOrderIs
        <5>4. CASE i = 4
          <6>1. 2 \in 1..(i - 1) /\ 3 \in 1..(i - 1)
            BY <5>4
          <6> QED BY <4>2, <5>4, <6>1, CreateOrderIs
        <5> QED BY <4>1, <5>1, <5>2, <5>3, <5>4
      <4> QED BY <2>3, <4>3
    <3>4. u \in Filled(doc) => Ids(file.tables[u]) \subseteq Ids(View(doc)[u])
      <4>1. u \in TableNames
        BY <3>2 DEF RowTables, TableNames
      <4>2. u \in Filled(doc) => file.tables[u] \subseteq View(doc)[u]
        BY <4>1 DEF View
      <4> QED BY <4>2 DEF Ids
    <3> QED BY <3>1, <3>3, <3>4 DEF u
  <2> QED BY <2>5, <2>6 DEF Accepts
<1> QED BY <1>1, Invariance, PTL

\* A step that puts the tables of a snapshot back that was not torn.
ExactStep ==
  \A r \in Requests :
    /\ InTransaction(r) /\ At(r, "restore", "record")' /\ req[r].doc.file.torn = {}
    => \A t \in TableNames :
         LET began == req[r].doc.file.began[t] IN
         began \subseteq db'[t] /\ Ids(db'[t] \ began) \subseteq req[r].doc.late[t]

\* A step of one request leaves another where it is.
LEMMA OthersStay ==
  ASSUME IInv, NEW r \in Requests, NEW q \in Requests \ {r}, InTransaction(q),
         \/ \E claim, op, arg : use(r, claim, op, arg)
         \/ Crash(r)
         \/ \E job, tables : req[r] # Idle /\ Continue(r, job, tables)
  PROVE  ~At(q, "restore", "record")'
<1>1. req[q] # Idle /\ req[q].step = "transaction"
  BY DEF InTransaction, At
<1>2. ASSUME \/ \E claim, op, arg : use(r, claim, op, arg)
             \/ Crash(r)
      PROVE  req'[q] = req[q]
  BY <1>2 DEF use, Crash, IInv, RequestsInOrder
<1>3. ASSUME NEW job, NEW tables, req[r] # Idle, Continue(r, job, tables) PROVE req'[q].step = req[q].step
  BY <1>1, <1>3, ContinueKeeps DEF Kept
<1> QED BY <1>1, <1>2, <1>3 DEF At

\* Restoring a snapshot that was not torn brings back every row and setting of the moment at which
\* createBackup started; whatever else is there was written while the transaction ran.
THEOREM RestoreAlwaysExact == Spec => RestoreIsExact
<1>1. ASSUME IInv, NEW r \in Requests, replaceTables(r), req[r].doc.file.torn = {},
             NEW t \in TableNames
      PROVE  LET began == req[r].doc.file.began[t] IN
             began \subseteq db'[t] /\ Ids(db'[t] \ began) \subseteq req[r].doc.late[t]
  <2> DEFINE doc == req[r].doc  began == doc.file.began[t]
  <2>1. /\ InTransaction(r) /\ doc.at > Len(DeleteOrder) + Len(CreateOrder) /\ db' = View(doc)
    BY <1>1 DEF replaceTables, Continue
  <2>2. TransactionInOrder(doc) /\ FileInOrder(doc.file) /\ InTheirTables(db) /\ doc.at \in 1..13
    BY <1>1, <2>1, InTransactionFacts DEF TransactionInOrder, IInv, DatabaseInOrder
  <2>3. doc.at = 6 + 7 /\ doc.at > 6
    BY <2>1, <2>2, DeleteOrderIs, CreateOrderIs
  <2>4. Filled(doc) = {CreateOrder[i] : i \in 1..6}
    <3>1. Filled(doc) = {CreateOrder[i] : i \in 1..(7 - 1)}
      BY <2>3, FilledIs
    <3>2. 7 - 1 = 6
      OBVIOUS
    <3> QED BY <3>1, <3>2
  <2>5. t \in Filled(doc)
    <3>1. 1 \in 1..6 /\ 2 \in 1..6 /\ 3 \in 1..6 /\ 4 \in 1..6 /\ 5 \in 1..6 /\ 6 \in 1..6
      OBVIOUS
    <3> QED BY <2>4, <3>1, CreateOrderIs DEF TableNames
  <2>6. doc.file.tables = doc.file.began
    BY <1>1, <2>2 DEF FileInOrder
  <2>7. began \subseteq db'[t]
    BY <2>1, <2>5, <2>6 DEF View
  <2>8. ASSUME NEW x \in db'[t] \ began PROVE x.id \in doc.late[t]
    <3>1. PICK old \in db[t] : old.id \notin doc.gone[t] /\ x = Survivor(doc, old)
      BY <2>1, <2>6, <2>8 DEF View
    <3>2. x.id = old.id
      BY <2>2, <3>1, SurvivorKeepsId
    <3> QED BY <2>2, <2>3, <3>1, <3>2, LeftIsLate
  <2> QED BY <2>7, <2>8 DEF Ids
<1>2. ASSUME NEW r \in Requests, InTransaction(r), At(r, "restore", "record")', Steps, IInv
      PROVE  replaceTables(r)
  <2>1. ASSUME NEW q \in Requests, q # r,
               \/ Crash(q)
               \/ \E job, tables : req[q] # Idle /\ Continue(q, job, tables)
        PROVE  FALSE
    BY <1>2, <2>1, OthersStay
  <2>2. PICK q \in Requests :
          \/ setMaintenance(q) \/ login(q) \/ updateMe(q) \/ Insert(q) \/ Crash(q)
          \/ createBackup(q) \/ readTable(q) \/ writeBackupFile(q) \/ insertBackupRow(q)
          \/ deleteBackup(q) \/ removeBackupFile(q) \/ deleteBackupRow(q)
          \/ restoreBackup(q) \/ readBackupFile(q) \/ deleteMany(q) \/ createMany(q) \/ replaceTables(q)
          \/ recordRestore(q)
          \/ clearCache(q) \/ clearDirectory(q) \/ cacheCleared(q)
          \/ writeCanary(q) \/ removeCanary(q) \/ cleanUpCanary(q) \/ listUploads(q) \/ statUploads(q)
    BY <1>2 DEF Steps
  <2>3. Crash(q) \/ \E job, tables : req[q] # Idle /\ Continue(q, job, tables)
    BY <2>2 DEF setMaintenance, login, updateMe, Insert, createBackup, readTable, writeBackupFile,
       insertBackupRow, deleteBackup, removeBackupFile, deleteBackupRow, restoreBackup, readBackupFile,
       findBackup, deleteMany, createMany, replaceTables, recordRestore, clearCache, clearDirectory,
       cacheCleared, writeCanary, removeCanary, cleanUpCanary, listUploads, statUploads, Answer, At,
       InTransaction
  <2>4. q = r
    BY <2>1, <2>3
  <2>5. req[r] # Idle /\ req[r].op = "restore" /\ req[r].step = "transaction"
    BY <1>2 DEF InTransaction, At
  <2>6. ~(Crash(r) \/ deleteMany(r) \/ createMany(r))
    <3>1. ~Crash(r)
      BY <1>2 DEF Crash, At, IInv, RequestsInOrder
    <3>2. ASSUME NEW job, Continue(r, job, db), job = Idle \/ job.step = "transaction" PROVE FALSE
      BY <1>2, <3>2 DEF Continue, At
    <3>3. \A doc : [req[r] EXCEPT !.doc = doc].step = "transaction"
      BY <1>2, <2>5 DEF IInv, RequestsInOrder, JobInOrder, IsJob
    <3>4. [req[r] EXCEPT !.doc.at = @ + 1].step = "transaction"
      BY <1>2, <2>5 DEF IInv, RequestsInOrder, JobInOrder, IsJob
    <3>5. ~deleteMany(r)
      BY <3>2, <3>3 DEF deleteMany
    <3>6. ~createMany(r)
      BY <3>2, <3>4 DEF createMany
    <3> QED BY <3>1, <3>5, <3>6
  <2> QED BY <2>2, <2>4, <2>5, <2>6 DEF setMaintenance, login, updateMe, Insert, createBackup, readTable,
       writeBackupFile, insertBackupRow, deleteBackup, removeBackupFile, deleteBackupRow, restoreBackup,
       readBackupFile, recordRestore, clearCache, clearDirectory, cacheCleared, writeCanary,
       removeCanary, cleanUpCanary, listUploads, statUploads, At
<1>3. ASSUME IInv, Arrivals, NEW r \in Requests, InTransaction(r) PROVE ~At(r, "restore", "record")'
  <2>1. PICK q \in Requests : \E claim, op, arg : use(q, claim, op, arg)
    BY <1>3 DEF Arrivals
  <2>2. q # r
    BY <1>3, <2>1 DEF use, InTransaction, At
  <2> QED BY <1>3, <2>1, <2>2, OthersStay
<1>4. ASSUME Hour, NEW r \in Requests, InTransaction(r) PROVE ~At(r, "restore", "record")'
  BY <1>4 DEF Hour, InTransaction, At
<1>5. ASSUME IInv, Next PROVE ExactStep
  BY <1>1, <1>2, <1>3, <1>4, <1>5 DEF Next, ExactStep
<1>6. IInv /\ [Next]_vars => [ExactStep]_vars
  BY <1>5
<1>7. [][ExactStep]_vars => RestoreIsExact
  BY PTL DEF RestoreIsExact, ExactStep
<1> QED BY <1>6, <1>7, Invariance, PTL DEF Spec

\* A step of a request on a gated path that changes the tables.
GateStep ==
  \A r \in Requests :
    /\ req[r] # Idle /\ req[r].op \notin {"maintenance", "login", "me"} /\ Enabled(db)
    /\ <<db, outside>>' # <<db, outside>> /\ (req'[r] = Idle \/ req'[r].step # req[r].step)
    => \/ req[r].outlived
       \/ AllowAdminBypass(db) /\ req[r].claim \in {"SUPER_ADMIN", "ORG_ADMIN"}

\* Under maintenance a request on a gated path changes tables only if its token claims an
\* administrator's role and the bypass is on, or if it had passed before the gate was closed to it.
THEOREM GateAlwaysHolds == Spec => GateHolds
<1>1. IInv => GateStep
  BY DEF IInv, RequestsInOrder, JobInOrder, Gated, Shut, Exempt, isAdminRequest, GateStep
<1>2. IInv /\ [Next]_vars => [GateStep]_vars
  BY <1>1
<1>3. [][GateStep]_vars => GateHolds
  BY PTL DEF GateHolds, GateStep
<1> QED BY <1>2, <1>3, Invariance, PTL DEF Spec

=============================================================================
