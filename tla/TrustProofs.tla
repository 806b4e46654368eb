----------------------------- MODULE TrustProofs -----------------------------
(***************************************************************************)
(* Theorems about identities, verification, evidence and disputes for      *)
(* every number of users, rows and handlers in flight, and for every       *)
(* number of calls.                                                        *)
(*                                                                         *)
(* A step of a handler leaves alone what the others rely on unless it      *)
(* marks them stale: this is shown once (OthersStay) and used by every     *)
(* step that writes a row.                                                 *)
(***************************************************************************)
EXTENDS Trust, FiniteSetTheorems, TLAPS

RowKeys ==
  ({"person"} \X Users) \cup ({"dispute"} \X Disputes)
    \cup ({"settings"} \X (Organizations \cup {None}))

\* The handlers in flight, by the step they are at.
IdentityJobs ==
  [op: {"getIdentityMe", "submitKyc", "createDispute", "createEvidence", "firebaseLogin"},
   by: Users, arg: SubmissionTypes \cup Related \cup {None}, required: SUBSET Requirements,
   level: 0..6, at: {"identity", "entitlement", "act", "create"}, row: SUBSET RowKeys,
   candidate: Nat]

ReviewJobs ==
  [op: {"reviewKyc"}, by: Users, arg: Submissions, at: {"review"}, status: ReviewStatuses,
   read: PersonRows, row: SUBSET RowKeys]

LoginJobs ==
  [op: {"firebaseLogin"}, by: Users, arg: {"phone", "email"}, at: {"login"},
   read: PersonRows, row: SUBSET RowKeys]

MessageJobs ==
  [op: {"createDispute", "addDisputeMessage", "updateDisputeStatus", "assignDispute",
        "escalateDispute", "escalateOverdueDisputes"},
   by: Users, arg: Disputes \cup {None}, at: {"message", "sweep"},
   kind: {"OPENING", "MESSAGE", "STATUS_NOTE", "ASSIGNMENT_NOTE", "ESCALATION"},
   todo: SUBSET Disputes, row: SUBSET RowKeys]

UpsertJobs ==
  [op: {"updateEnforcementSettings"}, by: Users, arg: Switches, at: {"upsert"},
   value: SUBSET Requirements, row: SUBSET RowKeys]

Jobs == IdentityJobs \cup ReviewJobs \cup LoginJobs \cup MessageJobs \cup UpsertJobs

\* What a status and a level of u rest on.
Backed(row, u) ==
  /\ RankOf(row.status) <= row.level
  /\ row.level >= 3 =>
       \E k \in Submissions : /\ kyc[k].userId = u /\ kyc[k].reviewedById # None
                              /\ LevelOf(kyc[k].submissionType) = row.level

\* A handler's arguments and reads agree with the rows it is about.
JobInOrder(r) ==
  LET job == req[r] IN
  /\ job \in IdentityJobs =>
       /\ job.row = {<<"person", job.by>>}
       /\ job.op = "submitKyc" => job.arg \in SubmissionTypes
       /\ job.op = "createEvidence" => job.arg \in Related
       /\ job.at = "create" => job.candidate \in 1 .. nextCaseNumber
  /\ job \in ReviewJobs =>
       /\ kyc[job.arg].status # "NONE"
       /\ job.row = {<<"person", kyc[job.arg].userId>>}
       /\ Backed(job.read, kyc[job.arg].userId)
  /\ job \in LoginJobs => job.row = {<<"person", job.by>>} /\ Backed(job.read, job.by)
  /\ job \in MessageJobs =>
       /\ job.row = {<<"dispute", x>> : x \in job.todo}
       /\ \A d \in job.todo : dispute[d].status # "NONE"
       /\ job.todo # {} \/ job.at = "sweep" => job.op = "escalateOverdueDisputes"

\* What a handler read is still so.
Fresh(r) ==
  LET job == req[r] IN
  /\ job \in IdentityJobs /\ job.at = "identity" /\ job.candidate # 0 =>
       person[job.by].secureZoneId = 0
  /\ job \in ReviewJobs => job.read = person[kyc[job.arg].userId]
  /\ job \in LoginJobs => job.read = person[job.by]
  /\ job \in MessageJobs => \A d \in job.todo : dispute[d].status \notin terminalStatuses

\* Case numbers are handed out without a gap.
CasesInOrder ==
  /\ \E n \in Nat : CaseNumbers = 1..n
  /\ \A d \in Disputes : dispute[d].status = "NONE" => dispute[d].caseNumber = 0

KycInOrder ==
  \A k \in Submissions :
    IF kyc[k].status = "NONE" THEN kyc[k].reviewedById = None ELSE kyc[k].userId \in Users

\* The inductive invariant.
IInv ==
  /\ TrustTypeOK /\ VerificationIsBacked /\ ClosureIsRecorded /\ EvidenceIsReadable
  /\ CasesInOrder /\ KycInOrder
  /\ workload.actors \subseteq Users
  /\ req \in [Requests -> Jobs \cup {Idle}]
  /\ \A r \in Requests : JobInOrder(r)
  /\ \A r \in Requests \ stale : Fresh(r)

-----------------------------------------------------------------------------
(* Operators.                                                              *)

\* The maximum and the minimum of two numbers.
LEMMA MaxOfTwo ==
  ASSUME NEW a \in Nat, NEW b \in Nat
  PROVE  Max({a, b}) = IF a <= b THEN b ELSE a
<1>1. \E x \in {a, b} : \A y \in {a, b} : x >= y
  OBVIOUS
<1> QED BY <1>1 DEF Max

LEMMA MinOfTwo ==
  ASSUME NEW a \in Nat, NEW b \in Nat
  PROVE  Min({a, b}) = IF a <= b THEN a ELSE b
<1>1. \E x \in {a, b} : \A y \in {a, b} : x <= y
  OBVIOUS
<1> QED BY <1>1 DEF Min

\* The next case number is one more than the cases so far.
LEMMA CaseCount ==
  ASSUME CasesInOrder
  PROVE  /\ nextCaseNumber \in Nat \ {0}
         /\ CaseNumbers = 1 .. (nextCaseNumber - 1)
         /\ nextCaseNumber \notin CaseNumbers
<1>1. PICK n \in Nat : CaseNumbers = 1..n
  BY DEF CasesInOrder
<1>2. Cardinality(1..n) = n
  BY FS_Interval
<1> QED BY <1>1, <1>2 DEF nextCaseNumber

LEMMA CaseCountAfter ==
  ASSUME NEW n \in Nat, CaseNumbers' = 1..n
  PROVE  nextCaseNumber' = n + 1
<1>1. Cardinality(1..n) = n
  BY FS_Interval
<1> QED BY <1>1 DEF nextCaseNumber

\* A SecureZone ID that is tried is a number.
LEMMA CandidatesAreNumbers ==
  ASSUME TrustTypeOK, NEW u \in Users
  PROVE  Candidates(u) \subseteq Nat
<1> DEFINE S == {v \in Users : person[v].secureZoneId # 0}
<1>1. IsFiniteSet(S)
  BY GivenRows, FS_Subset
<1>2. Cardinality(S) \in Nat
  BY <1>1, FS_CardinalityType
<1> DEFINE count == Cardinality(S)
<1>3. \A n \in (count + 1) .. (count + 5) : n \in Nat
  <2> HIDE DEF count
  <2> QED BY <1>2 DEF count
<1>4. nextSecureZoneId \subseteq Nat
  BY <1>3, GivenInputs DEF nextSecureZoneId
<1> QED BY <1>4 DEF Candidates

\* What decides that a user lists a record is what decides that the user opens it.
LEMMA ListedIsOpened ==
  ASSUME NEW u, NEW record
  PROVE  evidenceScopeWhere(u, record) <=> canAccessEvidence(u, record)
BY DEF evidenceScopeWhere, canAccessEvidence, isOrgScopedAdminRole

\* A handler is of the kind that its step tells.
LEMMA KindOfJob ==
  ASSUME NEW job \in Jobs
  PROVE  /\ job # Idle
         /\ job \in IdentityJobs <=> job.at \in {"identity", "entitlement", "act", "create"}
         /\ job \in ReviewJobs <=> job.at = "review"
         /\ job \in LoginJobs <=> job.at = "login"
         /\ job \in MessageJobs <=> job.at \in {"message", "sweep"}
         /\ job \in UpsertJobs <=> job.at = "upsert"
BY DEF Jobs, Idle, IdentityJobs, ReviewJobs, LoginJobs, MessageJobs, UpsertJobs

LEMMA IdleIsNoJob ==
  /\ Idle \notin IdentityJobs /\ Idle \notin ReviewJobs /\ Idle \notin LoginJobs
  /\ Idle \notin MessageJobs /\ Idle \notin UpsertJobs
BY DEF Idle, IdentityJobs, ReviewJobs, LoginJobs, MessageJobs, UpsertJobs

-----------------------------------------------------------------------------
(* What a step leaves alone.                                               *)

\* Submissions stay whose they are, and reviewed.
KycGrows ==
  \A k \in Submissions :
    kyc[k].status # "NONE" =>
      /\ kyc'[k].status # "NONE" /\ kyc'[k].userId = kyc[k].userId
      /\ kyc'[k].submissionType = kyc[k].submissionType
      /\ kyc[k].reviewedById # None => kyc'[k].reviewedById # None

\* Disputes and case numbers stay.
DisputesGrow ==
  /\ \A d \in Disputes : dispute[d].status # "NONE" => dispute'[d].status # "NONE"
  /\ nextCaseNumber <= nextCaseNumber'

\* A step of r marks the handlers whose row it writes.
Marks(r) ==
  /\ stale \ {r} \subseteq stale'
  /\ \A q \in Requests \ {r} :
       req[q] # Idle /\ q \notin stale' =>
         /\ \A u \in Users : <<"person", u>> \in req[q].row => person'[u] = person[u]
         /\ \A d \in Disputes :
              <<"dispute", d>> \in req[q].row => dispute'[d].status = dispute[d].status

RowsInOrder ==
  /\ TrustTypeOK /\ VerificationIsBacked /\ ClosureIsRecorded /\ EvidenceIsReadable
  /\ CasesInOrder /\ KycInOrder

\* What a level rests on is never taken away.
LEMMA BackedStays ==
  ASSUME KycInOrder, KycGrows, NEW row, NEW u, Backed(row, u)
  PROVE  Backed(row, u)'
BY DEF Backed, KycInOrder, KycGrows

\* Who is not marked can still rely on what it read.
LEMMA OthersStay ==
  ASSUME IInv, NEW r, NEW q \in Requests \ {r}, req'[q] = req[q],
         KycGrows, DisputesGrow, CasesInOrder', Marks(r)
  PROVE  JobInOrder(q)' /\ (q \notin stale' => Fresh(q)')
<1> USE DEF IInv
<1>0. ASSUME q \notin stale', req[q] # Idle
      PROVE  /\ Fresh(q)
             /\ \A u \in Users : <<"person", u>> \in req[q].row => person'[u] = person[u]
             /\ \A d \in Disputes :
                  <<"dispute", d>> \in req[q].row => dispute'[d].status = dispute[d].status
  BY <1>0 DEF Marks
<1>1. CASE req[q] = Idle
  BY <1>1, IdleIsNoJob DEF JobInOrder, Fresh
<1>2. CASE req[q] \in IdentityJobs
  <2>1. /\ req[q] \notin ReviewJobs /\ req[q] \notin LoginJobs /\ req[q] \notin MessageJobs
    BY <1>2, KindOfJob DEF Jobs
  <2>2. nextCaseNumber \in Nat /\ nextCaseNumber' \in Nat
    BY CaseCount, CaseCountAfter DEF CasesInOrder
  <2>3. req[q].candidate \in Nat /\ req[q].by \in Users
    BY <1>2 DEF IdentityJobs
  <2>4. JobInOrder(q)'
    BY <1>2, <2>1, <2>2, <2>3 DEF JobInOrder, DisputesGrow
  <2>5. q \notin stale' => Fresh(q)'
    <3> SUFFICES ASSUME q \notin stale' PROVE Fresh(q)'
      OBVIOUS
    <3>1. person'[req[q].by] = person[req[q].by] /\ Fresh(q)
      BY <1>0, <1>2, <2>3, IdleIsNoJob DEF JobInOrder
    <3> QED BY <1>2, <2>1, <3>1 DEF Fresh
  <2> QED BY <2>4, <2>5
<1>3. CASE req[q] \in ReviewJobs
  <2>1. /\ req[q] \notin IdentityJobs /\ req[q] \notin LoginJobs /\ req[q] \notin MessageJobs
    BY <1>3, KindOfJob DEF Jobs
  <2> DEFINE u == kyc[req[q].arg].userId
  <2>2. req[q].arg \in Submissions /\ u \in Users
    BY <1>3 DEF ReviewJobs, JobInOrder, KycInOrder
  <2>3. kyc'[req[q].arg].userId = u /\ kyc'[req[q].arg].status # "NONE"
    BY <1>3, <2>2 DEF JobInOrder, KycGrows
  <2>4. Backed(req[q].read, kyc[req[q].arg].userId)'
    BY <1>3, <2>2, <2>3, BackedStays DEF JobInOrder
  <2>5. JobInOrder(q)'
    BY <1>3, <2>1, <2>3, <2>4 DEF JobInOrder
  <2>6. q \notin stale' => Fresh(q)'
    <3> SUFFICES ASSUME q \notin stale' PROVE Fresh(q)'
      OBVIOUS
    <3>1. person'[u] = person[u] /\ Fresh(q)
      BY <1>0, <1>3, <2>2, IdleIsNoJob DEF JobInOrder
    <3> QED BY <1>3, <2>1, <2>3, <3>1 DEF Fresh
  <2> QED BY <2>5, <2>6
<1>4. CASE req[q] \in LoginJobs
  <2>1. /\ req[q] \notin IdentityJobs /\ req[q] \notin ReviewJobs /\ req[q] \notin MessageJobs
    BY <1>4, KindOfJob DEF Jobs
  <2>2. req[q].by \in Users
    BY <1>4 DEF LoginJobs
  <2>3. Backed(req[q].read, req[q].by)'
    BY <1>4, <2>2, BackedStays DEF JobInOrder
  <2>4. JobInOrder(q)'
    BY <1>4, <2>1, <2>3 DEF JobInOrder
  <2>5. q \notin stale' => Fresh(q)'
    <3> SUFFICES ASSUME q \notin stale' PROVE Fresh(q)'
      OBVIOUS
    <3>1. person'[req[q].by] = person[req[q].by] /\ Fresh(q)
      BY <1>0, <1>4, <2>2, IdleIsNoJob DEF JobInOrder
    <3> QED BY <1>4, <2>1, <3>1 DEF Fresh
  <2> QED BY <2>4, <2>5
<1>5. CASE req[q] \in MessageJobs
  <2>1. /\ req[q] \notin IdentityJobs /\ req[q] \notin ReviewJobs /\ req[q] \notin LoginJobs
    BY <1>5, KindOfJob DEF Jobs
  <2>2. req[q].todo \subseteq Disputes
    BY <1>5 DEF MessageJobs
  <2>3. JobInOrder(q)'
    BY <1>5, <2>1, <2>2 DEF JobInOrder, DisputesGrow
  <2>4. q \notin stale' => Fresh(q)'
    <3> SUFFICES ASSUME q \notin stale' PROVE Fresh(q)'
      OBVIOUS
    <3>1. \A d \in req[q].todo : d \in Disputes /\ <<"dispute", d>> \in req[q].row
      BY <1>5, <2>2 DEF JobInOrder
    <3>2. Fresh(q) /\ \A d \in req[q].todo : dispute'[d].status = dispute[d].status
      BY <1>0, <1>5, <3>1, IdleIsNoJob
    <3> QED BY <1>5, <2>1, <3>2 DEF Fresh
  <2> QED BY <2>3, <2>4
<1>6. CASE req[q] \in UpsertJobs
  <2>1. /\ req[q] \notin IdentityJobs /\ req[q] \notin ReviewJobs
        /\ req[q] \notin LoginJobs /\ req[q] \notin MessageJobs
    BY <1>6, KindOfJob DEF Jobs
  <2> QED BY <1>6, <2>1 DEF JobInOrder, Fresh
<1> QED BY <1>1, <1>2, <1>3, <1>4, <1>5, <1>6 DEF Jobs

\* A step of r keeps the invariant when its rows and its own job are in order.
LEMMA StepKeeps ==
  ASSUME IInv, NEW r \in Requests, NEW job \in Jobs \cup {Idle},
         req' = [req EXCEPT ![r] = job], UNCHANGED workload,
         KycGrows, DisputesGrow, Marks(r), RowsInOrder',
         JobInOrder(r)', r \notin stale' => Fresh(r)'
  PROVE  IInv'
<1>1. \A q \in Requests \ {r} : req'[q] = req[q]
  BY DEF IInv
<1>2. \A q \in Requests : JobInOrder(q)' /\ (q \notin stale' => Fresh(q)')
  BY <1>1, OthersStay DEF RowsInOrder
<1>3. req' \in [Requests -> Jobs \cup {Idle}]
  BY DEF IInv
<1> QED BY <1>2, <1>3 DEF IInv, RowsInOrder

LEMMA IdleInOrder ==
  ASSUME NEW r, req'[r] = Idle
  PROVE  JobInOrder(r)' /\ Fresh(r)'
BY IdleIsNoJob DEF JobInOrder, Fresh

rows == <<person, entitled, kyc, dispute, message, evidence, settings>>

\* Rows that no step writes stay in order.
LEMMA RowsStay ==
  ASSUME IInv, UNCHANGED <<person, kyc, dispute, evidence>>, entitled' \subseteq Users,
         settings' \in [Organizations \cup {None} -> SUBSET Requirements]
  PROVE  RowsInOrder' /\ KycGrows /\ DisputesGrow
<1>1. nextCaseNumber' = nextCaseNumber /\ CaseNumbers' = CaseNumbers
  BY DEF nextCaseNumber, CaseNumbers
<1>2. nextCaseNumber \in Nat
  BY CaseCount DEF IInv
<1>3. KycGrows /\ DisputesGrow
  BY <1>1, <1>2 DEF KycGrows, DisputesGrow
<1>4. CasesInOrder' /\ KycInOrder'
  BY <1>1 DEF CasesInOrder, KycInOrder, IInv
<1>5. TrustTypeOK' /\ VerificationIsBacked' /\ ClosureIsRecorded'
  BY DEF IInv, TrustTypeOK, VerificationIsBacked, ClosureIsRecorded
<1>6. EvidenceIsReadable'
  BY DEF IInv, EvidenceIsReadable
<1> QED BY <1>3, <1>4, <1>5, <1>6 DEF RowsInOrder

\* A step that writes no row that others read.
LEMMA QuietStep ==
  ASSUME IInv, NEW r \in Requests, NEW job \in Jobs \cup {Idle},
         req' = [req EXCEPT ![r] = job], UNCHANGED workload,
         UNCHANGED <<person, kyc, dispute, evidence>>, entitled' \subseteq Users,
         settings' \in [Organizations \cup {None} -> SUBSET Requirements],
         stale \ {r} \subseteq stale',
         job # Idle => JobInOrder(r)' /\ (r \notin stale' => Fresh(r)')
  PROVE  IInv'
<1>1. RowsInOrder' /\ KycGrows /\ DisputesGrow
  BY RowsStay
<1>2. Marks(r)
  BY DEF Marks
<1>3. job = Idle => JobInOrder(r)' /\ Fresh(r)'
  BY IdleInOrder DEF IInv
<1> QED BY <1>1, <1>2, <1>3, StepKeeps

-----------------------------------------------------------------------------
(* The steps that start a handler.                                         *)

LEMMA IdentityJobIsJob ==
  ASSUME TrustTypeOK, NEW u \in Users, NEW n \in Nat, NEW required \in SUBSET Requirements,
         NEW op \in {"getIdentityMe", "submitKyc", "createDispute", "createEvidence",
                     "firebaseLogin"},
         NEW arg \in SubmissionTypes \cup Related \cup {None}
  PROVE  IdentityJob(op, u, arg, required, n) \in IdentityJobs
<1>1. person[u].level \in 0..6
  BY DEF TrustTypeOK, PersonRows
<1>2. {<<"person", u>>} \in SUBSET RowKeys
  BY DEF RowKeys
<1> QED BY <1>1, <1>2 DEF IdentityJob, IdentityJobs

LEMMA IdentityCallKeeps ==
  ASSUME IInv, NEW r \in Requests, NEW u \in Users,
         NEW op \in {"getIdentityMe", "submitKyc", "createDispute", "createEvidence"},
         NEW arg \in SubmissionTypes \cup Related \cup {None},
         op = "submitKyc" => arg \in SubmissionTypes, op = "createEvidence" => arg \in Related,
         identityCall(r, u, op, arg), UNCHANGED workload
  PROVE  IInv'
<1>1. PICK n \in Candidates(u) :
        Start(r, op, IdentityJob(op, u, arg, settings[organizationId[u]], n))
  BY DEF identityCall
<1> DEFINE job == IdentityJob(op, u, arg, settings[organizationId[u]], n)
<1>2. n \in Nat /\ (n # 0 => person[u].secureZoneId = 0)
  BY CandidatesAreNumbers DEF IInv, Candidates
<1>3. settings[organizationId[u]] \in SUBSET Requirements
  BY GivenRows DEF IInv, TrustTypeOK
<1>4. job \in IdentityJobs
  BY <1>2, <1>3, IdentityJobIsJob DEF IInv
<1>5. /\ job.row = {<<"person", u>>} /\ job.by = u /\ job.op = op /\ job.arg = arg
      /\ job.at = "identity" /\ job.candidate = n
  BY DEF IdentityJob
<1> HIDE DEF job
<1>6. job \notin ReviewJobs /\ job \notin LoginJobs /\ job \notin MessageJobs
  BY <1>4, <1>5, KindOfJob DEF Jobs
<1>7. req'[r] = job /\ person' = person
  BY <1>1 DEF job, Start, identityCall, IInv
<1>8. JobInOrder(r)' /\ Fresh(r)'
  BY <1>2, <1>4, <1>5, <1>6, <1>7 DEF JobInOrder, Fresh
<1>9. /\ req' = [req EXCEPT ![r] = job] /\ job \in Jobs
      /\ UNCHANGED <<person, kyc, dispute, evidence, entitled, settings, stale>>
  BY <1>1, <1>4 DEF job, Start, identityCall, Jobs
<1> QED BY <1>8, <1>9, QuietStep DEF IInv, TrustTypeOK

LEMMA ReviewKycKeeps ==
  ASSUME IInv, NEW r \in Requests, NEW u \in Users, NEW k \in Submissions,
         NEW status \in ReviewStatuses, reviewKyc(r, u, k, status), UNCHANGED workload
  PROVE  IInv'
<1> DEFINE owner == kyc[k].userId
           job == [op |-> "reviewKyc", by |-> u, arg |-> k, at |-> "review", status |-> status,
                   read |-> person[owner], row |-> {<<"person", owner>>}]
<1>1. kyc[k].status # "NONE" /\ owner \in Users
  BY DEF reviewKyc, IInv, KycInOrder
<1>2. {<<"person", owner>>} \in SUBSET RowKeys
  BY <1>1 DEF RowKeys
<1>3. person[owner] \in PersonRows /\ Backed(person[owner], owner)
  BY <1>1 DEF IInv, TrustTypeOK, VerificationIsBacked, Backed
<1>4. job \in ReviewJobs
  BY <1>2, <1>3 DEF ReviewJobs
<1>5. job.arg = k /\ job.read = person[owner] /\ job.row = {<<"person", owner>>} /\ job.at = "review"
  OBVIOUS
<1> HIDE DEF job
<1>6. /\ req' = [req EXCEPT ![r] = job] /\ job \in Jobs
      /\ UNCHANGED <<person, kyc, dispute, evidence, entitled, settings, stale>>
  BY <1>4 DEF job, Start, reviewKyc, Jobs
<1>7. job \notin IdentityJobs /\ job \notin LoginJobs /\ job \notin MessageJobs
  BY <1>5, <1>6, KindOfJob
<1>8. req'[r] = job
  BY <1>6 DEF IInv
<1>9. Backed(req[r].read, kyc[req[r].arg].userId)'
  BY <1>3, <1>5, <1>6, <1>8 DEF Backed
<1>10. JobInOrder(r)' /\ Fresh(r)'
  BY <1>1, <1>5, <1>6, <1>7, <1>8, <1>9 DEF JobInOrder, Fresh
<1> QED BY <1>6, <1>10, QuietStep DEF IInv, TrustTypeOK

LEMMA FirebaseLoginKeeps ==
  ASSUME IInv, NEW r \in Requests, NEW u \in Users, NEW verified \in {"phone", "email"},
         firebaseLogin(r, u, verified), UNCHANGED workload
  PROVE  IInv'
<1> DEFINE job == [op |-> "firebaseLogin", by |-> u, arg |-> verified, at |-> "login",
                   read |-> person[u], row |-> {<<"person", u>>}]
<1>1. {<<"person", u>>} \in SUBSET RowKeys
  BY DEF RowKeys
<1>2. person[u] \in PersonRows /\ Backed(person[u], u)
  BY DEF IInv, TrustTypeOK, VerificationIsBacked, Backed
<1>3. job \in LoginJobs
  BY <1>1, <1>2 DEF LoginJobs
<1>4. job.by = u /\ job.read = person[u] /\ job.row = {<<"person", u>>} /\ job.at = "login"
  OBVIOUS
<1> HIDE DEF job
<1>5. /\ req' = [req EXCEPT ![r] = job] /\ job \in Jobs
      /\ UNCHANGED <<person, kyc, dispute, evidence, entitled, settings, stale>>
  BY <1>3 DEF job, Start, firebaseLogin, Jobs
<1>6. job \notin IdentityJobs /\ job \notin ReviewJobs /\ job \notin MessageJobs
  BY <1>4, <1>5, KindOfJob
<1>7. req'[r] = job
  BY <1>5 DEF IInv
<1>8. Backed(req[r].read, req[r].by)'
  BY <1>2, <1>4, <1>5, <1>7 DEF Backed
<1>9. JobInOrder(r)' /\ Fresh(r)'
  BY <1>4, <1>5, <1>6, <1>7, <1>8 DEF JobInOrder, Fresh
<1> QED BY <1>5, <1>9, QuietStep DEF IInv, TrustTypeOK

LEMMA SettingsCallKeeps ==
  ASSUME IInv, NEW r \in Requests, NEW u \in Users, NEW requirement \in Switches,
         NEW on \in BOOLEAN, updateEnforcementSettings(r, u, requirement, on), UNCHANGED workload
  PROVE  IInv'
<1> DEFINE current == settings[organizationId[u]]
           value == IF on THEN current \cup {requirement} ELSE current \ {requirement}
           job == [op |-> "updateEnforcementSettings", by |-> u, arg |-> requirement,
                   at |-> "upsert", value |-> value, row |-> {<<"settings", organizationId[u]>>}]
<1>1. organizationId[u] \in Organizations \cup {None}
  BY GivenRows
<1>2. {<<"settings", organizationId[u]>>} \in SUBSET RowKeys
  BY <1>1 DEF RowKeys
<1>3. value \in SUBSET Requirements
  BY <1>1, GivenInputs DEF IInv, TrustTypeOK
<1>4. job \in UpsertJobs
  BY <1>2, <1>3 DEF UpsertJobs
<1>5. job.at = "upsert"
  OBVIOUS
<1>6. /\ req' = [req EXCEPT ![r] = job] /\ job \in Jobs
      /\ UNCHANGED <<person, kyc, dispute, evidence, entitled, settings, stale>>
  BY <1>4 DEF Start, updateEnforcementSettings, Jobs
<1> HIDE DEF job
<1>7. /\ job \notin IdentityJobs /\ job \notin ReviewJobs
      /\ job \notin LoginJobs /\ job \notin MessageJobs
  BY <1>5, <1>6, KindOfJob
<1>8. req'[r] = job
  BY <1>6 DEF IInv
<1>9. JobInOrder(r)' /\ Fresh(r)'
  BY <1>7, <1>8 DEF JobInOrder, Fresh
<1> QED BY <1>6, <1>9, QuietStep DEF IInv, TrustTypeOK

LEMMA MessageJobIsJob ==
  ASSUME NEW u \in Users, NEW d \in Disputes \cup {None}, NEW todo \in SUBSET Disputes,
         NEW at \in {"message", "sweep"},
         NEW op \in {"createDispute", "addDisputeMessage", "updateDisputeStatus",
                     "assignDispute", "escalateDispute", "escalateOverdueDisputes"},
         NEW kind \in {"OPENING", "MESSAGE", "STATUS_NOTE", "ASSIGNMENT_NOTE", "ESCALATION"}
  PROVE  [MessageJob(op, u, d, kind, todo) EXCEPT !.at = at] \in MessageJobs
<1>1. {<<"dispute", x>> : x \in todo} \in SUBSET RowKeys
  BY DEF RowKeys
<1> QED BY <1>1 DEF MessageJob, MessageJobs

\* The sweep lists disputes that are not closed.
LEMMA SweepKeeps ==
  ASSUME IInv, NEW r \in Requests, NEW u \in Users, escalateOverdueDisputes(r, u),
         UNCHANGED workload
  PROVE  IInv'
<1> DEFINE todo == OverdueDisputes(u)
           job == [MessageJob("escalateOverdueDisputes", u, None, "ESCALATION", todo)
                     EXCEPT !.at = "sweep"]
<1>1. /\ todo \in SUBSET Disputes
      /\ \A d \in todo : dispute[d].status \in {"OPEN", "UNDER_REVIEW"}
  BY DEF OverdueDisputes
<1>2. /\ req' = [req EXCEPT ![r] = job]
      /\ UNCHANGED <<person, kyc, dispute, evidence, entitled, settings, stale>>
  BY DEF Start, escalateOverdueDisputes
<1> HIDE DEF todo
<1>3. job \in MessageJobs
  BY <1>1, MessageJobIsJob
<1>4. /\ job.todo = todo /\ job.at = "sweep" /\ job.op = "escalateOverdueDisputes"
      /\ job.row = {<<"dispute", x>> : x \in todo}
  BY DEF MessageJob
<1> HIDE DEF job
<1>5. job \in Jobs /\ job \notin IdentityJobs /\ job \notin ReviewJobs /\ job \notin LoginJobs
  BY <1>3, <1>4, KindOfJob DEF Jobs
<1>6. req'[r] = job
  BY <1>2 DEF IInv
<1>7. JobInOrder(r)' /\ Fresh(r)'
  BY <1>1, <1>2, <1>4, <1>5, <1>6 DEF JobInOrder, Fresh, terminalStatuses
<1> QED BY <1>2, <1>5, <1>7, QuietStep DEF IInv, TrustTypeOK

-----------------------------------------------------------------------------
(* The steps that write a dispute.                                         *)

\* A row that may stand in the table of disputes.
DisputeInOrder(row) ==
  /\ row \in DisputeRows /\ row.status # "NONE"
  /\ row.status \in terminalStatuses => row.closedById # None
  /\ row.closedById # None => row.status \in terminalStatuses \cup {"ESCALATED"}

\* A dispute that is written again keeps its case number.
LEMMA DisputeWritten ==
  ASSUME IInv, NEW d \in Disputes, NEW row, DisputeInOrder(row),
         dispute[d].status # "NONE", row.caseNumber = dispute[d].caseNumber,
         dispute' = [dispute EXCEPT ![d] = row], UNCHANGED <<person, entitled, kyc, evidence, settings>>
  PROVE  RowsInOrder' /\ KycGrows /\ DisputesGrow
<1>1. \A x \in Disputes : dispute'[x] = IF x = d THEN row ELSE dispute[x]
  BY DEF IInv, TrustTypeOK
<1>2. CaseNumbers' = CaseNumbers
  BY <1>1 DEF CaseNumbers
<1>3. nextCaseNumber' = nextCaseNumber /\ nextCaseNumber \in Nat
  BY <1>2, CaseCount DEF nextCaseNumber, IInv
<1>4. KycGrows /\ DisputesGrow
  BY <1>1, <1>3 DEF KycGrows, DisputesGrow, DisputeInOrder
<1>5. CasesInOrder' /\ KycInOrder'
  BY <1>1, <1>2 DEF CasesInOrder, KycInOrder, IInv, DisputeInOrder
<1>6. dispute' \in [Disputes -> DisputeRows]
  BY DEF IInv, TrustTypeOK, DisputeInOrder
<1>7. TrustTypeOK'
  BY <1>6 DEF IInv, TrustTypeOK
<1>8. VerificationIsBacked'
  BY DEF IInv, VerificationIsBacked
<1>9. ClosureIsRecorded'
  BY <1>1 DEF IInv, ClosureIsRecorded, DisputeInOrder
<1>10. EvidenceIsReadable'
  BY DEF IInv, EvidenceIsReadable
<1> QED BY <1>4, <1>5, <1>7, <1>8, <1>9, <1>10 DEF RowsInOrder

\* Whoever listed the dispute that is written is marked.
LEMMA DisputeMarks ==
  ASSUME IInv, NEW r, NEW d \in Disputes, NEW row, UNCHANGED person,
         dispute' = [dispute EXCEPT ![d] = row], stale \ {r} \subseteq stale',
         {q \in Requests \ {r} : req[q] # Idle /\ <<"dispute", d>> \in req[q].row} \subseteq stale'
  PROVE  Marks(r)
<1>1. \A x \in Disputes : x # d => dispute'[x] = dispute[x]
  BY DEF IInv, TrustTypeOK
<1> QED BY <1>1 DEF Marks

\* What a handler of one dispute leaves.
LEMMA DisputeHandlerKeeps ==
  ASSUME IInv, NEW r \in Requests, NEW u \in Users, NEW d \in Disputes, NEW row,
         NEW op \in {"addDisputeMessage", "updateDisputeStatus", "assignDispute",
                     "escalateDispute"},
         NEW kind \in {"MESSAGE", "STATUS_NOTE", "ASSIGNMENT_NOTE", "ESCALATION"},
         DisputeInOrder(row), row.caseNumber = dispute[d].caseNumber,
         DisputeHandler(r, op, u, d, row, kind), UNCHANGED workload
  PROVE  IInv'
<1> DEFINE job == MessageJob(op, u, d, kind, {})
<1>1. /\ dispute[d].status # "NONE" /\ dispute' = [dispute EXCEPT ![d] = row]
      /\ req' = [req EXCEPT ![r] = job]
      /\ UNCHANGED <<person, entitled, kyc, evidence, settings>>
      /\ stale' = stale \cup {q \in Requests \ {r} : req[q] # Idle /\ <<"dispute", d>> \in req[q].row}
  BY DEF DisputeHandler, Start
<1>2. RowsInOrder' /\ KycGrows /\ DisputesGrow
  BY <1>1, DisputeWritten
<1>3. Marks(r)
  BY <1>1, DisputeMarks
<1>4. job \in MessageJobs
  <2>1. [job EXCEPT !.at = "message"] \in MessageJobs
    BY MessageJobIsJob
  <2>2. job = [job EXCEPT !.at = "message"]
    BY DEF MessageJob
  <2> QED BY <2>1, <2>2
<1>5. job.todo = {} /\ job.at = "message" /\ job.row = {}
  BY DEF MessageJob
<1> HIDE DEF job
<1>6. job \in Jobs /\ job \notin IdentityJobs /\ job \notin ReviewJobs /\ job \notin LoginJobs
  BY <1>4, <1>5, KindOfJob DEF Jobs
<1>7. req'[r] = job
  BY <1>1 DEF IInv
<1>8. JobInOrder(r)' /\ Fresh(r)'
  BY <1>5, <1>6, <1>7 DEF JobInOrder, Fresh
<1> QED BY <1>1, <1>2, <1>3, <1>6, <1>8, StepKeeps

\* The handlers of one dispute write rows that are in order.
LEMMA DisputeRowsInOrder ==
  ASSUME IInv, NEW d \in Disputes, NEW u \in Users, dispute[d].status # "NONE"
  PROVE  /\ DisputeInOrder(dispute[d])
         /\ DisputeInOrder(Escalated(dispute[d]))
         /\ \A assignee \in Users :
              DisputeInOrder([dispute[d] EXCEPT !.assignedAdminId = assignee])
         /\ \A status \in DisputeStatuses :
              DisputeInOrder([dispute[d] EXCEPT !.status = status,
                  !.closedById = IF status \in terminalStatuses THEN u ELSE None])
<1> DEFINE row == dispute[d]
<1>1. row \in DisputeRows
  BY DEF IInv, TrustTypeOK
<1>2. /\ row.status \in terminalStatuses => row.closedById # None
      /\ row.closedById # None => row.status \in terminalStatuses \cup {"ESCALATED"}
      /\ row.status # "NONE"
  BY DEF IInv, ClosureIsRecorded
<1>3. u # None /\ "NONE" \notin DisputeStatuses
  BY NoneIsNoId, GivenInputs
<1> HIDE DEF row
<1>4. DisputeInOrder(row) /\ DisputeInOrder(Escalated(row))
  BY <1>1, <1>2 DEF DisputeInOrder, DisputeRows, Escalated, terminalStatuses
<1>5. ASSUME NEW assignee \in Users
      PROVE  DisputeInOrder([row EXCEPT !.assignedAdminId = assignee])
  BY <1>1, <1>2 DEF DisputeInOrder, DisputeRows
<1>6. ASSUME NEW status \in DisputeStatuses
      PROVE  DisputeInOrder([row EXCEPT !.status = status,
                  !.closedById = IF status \in terminalStatuses THEN u ELSE None])
  <2> DEFINE by == IF status \in terminalStatuses THEN u ELSE None
  <2>1. by \in Users \cup {None} /\ (by # None <=> status \in terminalStatuses)
    BY <1>3
  <2> HIDE DEF by
  <2> DEFINE new == [row EXCEPT !.status = status, !.closedById = by]
  <2>2. new \in DisputeRows /\ new.status = status /\ new.closedById = by
    BY <1>1, <2>1 DEF DisputeRows
  <2> HIDE DEF new
  <2>3. DisputeInOrder(new)
    BY <1>3, <2>1, <2>2 DEF DisputeInOrder
  <2> QED BY <2>3 DEF new, by
<1> QED BY <1>4, <1>5, <1>6 DEF row

LEMMA DisputeCallsKeep ==
  ASSUME IInv, NEW r \in Requests, NEW u \in Users, NEW d \in Disputes,
         \/ addDisputeMessage(r, u, d)
         \/ \E status \in DisputeStatuses : updateDisputeStatus(r, u, d, status)
         \/ \E assignee \in Users : assignDispute(r, u, d, assignee)
         \/ escalateDispute(r, u, d),
         UNCHANGED workload
  PROVE  IInv'
<1>0. dispute[d].status # "NONE" /\ dispute[d] \in DisputeRows
  BY DEF addDisputeMessage, updateDisputeStatus, assignDispute, escalateDispute, IInv, TrustTypeOK
<1>1. CASE addDisputeMessage(r, u, d)
  BY <1>0, <1>1, DisputeRowsInOrder, DisputeHandlerKeeps DEF addDisputeMessage
<1>2. ASSUME NEW status \in DisputeStatuses, updateDisputeStatus(r, u, d, status)
      PROVE  IInv'
  <2> DEFINE row == [dispute[d] EXCEPT !.status = status,
                       !.closedById = IF status \in terminalStatuses THEN u ELSE None]
  <2>1. DisputeInOrder(row) /\ row.caseNumber = dispute[d].caseNumber
    BY <1>0, DisputeRowsInOrder DEF DisputeRows
  <2>2. DisputeHandler(r, "updateDisputeStatus", u, d, row, "STATUS_NOTE")
    BY <1>2 DEF updateDisputeStatus
  <2> HIDE DEF row
  <2> QED BY <2>1, <2>2, DisputeHandlerKeeps
<1>3. ASSUME NEW assignee \in Users, assignDispute(r, u, d, assignee)
      PROVE  IInv'
  <2> DEFINE row == [dispute[d] EXCEPT !.assignedAdminId = assignee]
  <2>1. DisputeInOrder(row) /\ row.caseNumber = dispute[d].caseNumber
    BY <1>0, DisputeRowsInOrder DEF DisputeRows
  <2>2. DisputeHandler(r, "assignDispute", u, d, row, "ASSIGNMENT_NOTE")
    BY <1>3 DEF assignDispute
  <2> HIDE DEF row
  <2> QED BY <2>1, <2>2, DisputeHandlerKeeps
<1>4. CASE escalateDispute(r, u, d)
  <2>1. Escalated(dispute[d]).caseNumber = dispute[d].caseNumber
    BY <1>0 DEF Escalated, DisputeRows
  <2> QED BY <1>0, <1>4, <2>1, DisputeRowsInOrder, DisputeHandlerKeeps DEF escalateDispute
<1> QED BY <1>1, <1>2, <1>3, <1>4

-----------------------------------------------------------------------------
(* The steps of ensureIdentity and what follows it.                        *)

\* A job that moves on within an identity call stays in order.
LEMMA IdentityJobMoves ==
  ASSUME IInv, NEW r \in Requests, NEW new \in IdentityJobs, req'[r] = new,
         req[r] \in IdentityJobs, new.op = req[r].op, new.by = req[r].by, new.arg = req[r].arg,
         new.row = req[r].row, new.at \in {"entitlement", "act", "create"},
         new.at = "create" => new.candidate \in 1 .. nextCaseNumber'
  PROVE  JobInOrder(r)' /\ Fresh(r)'
<1>1. new \notin ReviewJobs /\ new \notin LoginJobs /\ new \notin MessageJobs
  BY KindOfJob DEF Jobs
<1> QED BY <1>1 DEF JobInOrder, Fresh, IInv

LEMMA AfterIdentityMoves ==
  ASSUME TrustTypeOK, NEW job \in IdentityJobs
  PROVE  \/ AfterIdentity(job) = Idle
         \/ /\ AfterIdentity(job) \in IdentityJobs
            /\ AfterIdentity(job).op = job.op /\ AfterIdentity(job).by = job.by
            /\ AfterIdentity(job).arg = job.arg /\ AfterIdentity(job).row = job.row
            /\ AfterIdentity(job).at \in {"entitlement", "act"}
<1>1. person[job.by].level \in 0..6
  BY DEF TrustTypeOK, PersonRows, IdentityJobs
<1>2. CASE job.op = "firebaseLogin"
  BY <1>2 DEF AfterIdentity
<1>3. CASE job.op = "submitKyc"
  <2>1. AfterIdentity(job) = [job EXCEPT !.at = "act"]
    BY <1>3 DEF AfterIdentity
  <2> QED BY <2>1 DEF IdentityJobs
<1>4. CASE job.op # "firebaseLogin" /\ job.op # "submitKyc"
  <2>1. AfterIdentity(job) = [job EXCEPT !.at = "entitlement", !.level = person[job.by].level]
    BY <1>4 DEF AfterIdentity
  <2> QED BY <1>1, <2>1 DEF IdentityJobs
<1> QED BY <1>2, <1>3, <1>4

\* A user's row is written.
LEMMA PersonWritten ==
  ASSUME IInv, NEW u \in Users, person' \in [Users -> PersonRows],
         \A v \in Users \ {u} : person'[v] = person[v], Backed(person[u], u)',
         kyc' \in [Submissions -> KycRows], KycInOrder', KycGrows,
         UNCHANGED <<entitled, dispute, evidence, settings>>
  PROVE  RowsInOrder' /\ DisputesGrow
<1>1. nextCaseNumber' = nextCaseNumber /\ CaseNumbers' = CaseNumbers
  BY DEF nextCaseNumber, CaseNumbers
<1>2. nextCaseNumber \in Nat
  BY CaseCount DEF IInv
<1>3. CasesInOrder' /\ DisputesGrow
  BY <1>1, <1>2 DEF CasesInOrder, DisputesGrow, IInv
<1>4. TrustTypeOK' /\ ClosureIsRecorded'
  BY DEF IInv, TrustTypeOK, ClosureIsRecorded
<1>5. ASSUME NEW v \in Users PROVE Backed(person[v], v)'
  <2>1. CASE v = u
    BY <2>1
  <2>2. CASE v # u
    <3>1. Backed(person[v], v)
      BY DEF IInv, VerificationIsBacked, Backed
    <3>2. person'[v] = person[v]
      BY <2>2
    <3> QED BY <3>1, <3>2 DEF Backed, KycInOrder, KycGrows, IInv
  <2> QED BY <2>1, <2>2
<1>6. VerificationIsBacked'
  BY <1>5 DEF VerificationIsBacked, Backed
<1>7. EvidenceIsReadable'
  BY DEF IInv, EvidenceIsReadable
<1> QED BY <1>3, <1>4, <1>6, <1>7 DEF RowsInOrder

\* Whoever read the user that is written is marked.
LEMMA PersonMarks ==
  ASSUME NEW r, NEW u \in Users, \A v \in Users \ {u} : person'[v] = person[v], UNCHANGED dispute,
         stale \ {r} \subseteq stale',
         {q \in Requests \ {r} : req[q] # Idle /\ <<"person", u>> \in req[q].row} \subseteq stale'
  PROVE  Marks(r)
BY DEF Marks

LEMMA WroteMarks ==
  ASSUME NEW r, NEW key, NEW job, WroteThen(r, {key}, job)
  PROVE  /\ req' = [req EXCEPT ![r] = job] /\ stale \ {r} \subseteq stale'
         /\ {q \in Requests \ {r} : req[q] # Idle /\ key \in req[q].row} \subseteq stale'
         /\ r \notin stale'
BY DEF WroteThen

LEMMA EnsureIdentityKeeps ==
  ASSUME IInv, NEW r \in Requests, ensureIdentity(r), UNCHANGED workload
  PROVE  IInv'
<1> DEFINE job == req[r]  new == AfterIdentity(job)
<1>0. job \in IdentityJobs /\ job.by \in Users /\ job.candidate \in Nat
  <2>1. job \in Jobs /\ job.at = "identity"
    BY DEF ensureIdentity, IInv
  <2> QED BY <2>1, KindOfJob DEF IdentityJobs
<1>1. PICK u \in Users : u = job.by
  BY <1>0
<1>2. \/ new = Idle
      \/ /\ new \in IdentityJobs /\ new.op = job.op /\ new.by = job.by /\ new.arg = job.arg
         /\ new.row = job.row /\ new.at \in {"entitlement", "act"}
  BY <1>0, AfterIdentityMoves DEF IInv
<1>3. new \in Jobs \cup {Idle}
  BY <1>2 DEF Jobs
<1>4. req' = [req EXCEPT ![r] = new]
  BY DEF ensureIdentity, WroteThen
<1>5. UNCHANGED <<entitled, kyc, dispute, message, evidence, settings>>
  BY DEF ensureIdentity
<1>6. req'[r] = new
  BY <1>4 DEF IInv
<1> HIDE DEF new
<1>7. JobInOrder(r)' /\ Fresh(r)'
  BY <1>0, <1>2, <1>6, IdentityJobMoves, IdleInOrder
<1>8. CASE UNCHANGED person
  <2>1. stale \ {r} \subseteq stale'
    BY DEF ensureIdentity, WroteThen
  <2> QED BY <1>3, <1>4, <1>5, <1>7, <1>8, <2>1, QuietStep DEF IInv, TrustTypeOK
<1>9. CASE /\ person' = [person EXCEPT ![u].secureZoneId = job.candidate]
           /\ WroteThen(r, {<<"person", u>>}, new)
  <2>1. person' \in [Users -> PersonRows] /\ \A v \in Users \ {u} : person'[v] = person[v]
    BY <1>0, <1>9 DEF IInv, TrustTypeOK, PersonRows
  <2>2. person'[u].level = person[u].level /\ person'[u].status = person[u].status
    BY <1>0, <1>9 DEF IInv, TrustTypeOK, PersonRows
  <2>3. Backed(person[u], u)'
    <3>1. Backed(person[u], u)
      BY <1>1 DEF IInv, VerificationIsBacked, Backed
    <3> QED BY <3>1, <2>2, <1>5 DEF Backed
  <2>4. kyc' \in [Submissions -> KycRows] /\ KycInOrder' /\ KycGrows
    BY <1>5 DEF IInv, TrustTypeOK, KycInOrder, KycGrows
  <2>5. RowsInOrder' /\ DisputesGrow
    BY <1>1, <1>5, <2>1, <2>3, <2>4, PersonWritten
  <2>6. Marks(r)
    BY <1>1, <1>5, <1>9, <2>1, WroteMarks, PersonMarks
  <2> QED BY <1>3, <1>4, <1>7, <2>4, <2>5, <2>6, StepKeeps
<1> QED BY <1>1, <1>8, <1>9 DEF ensureIdentity, new

LEMMA EnsureEntitlementKeeps ==
  ASSUME IInv, NEW r \in Requests, ensureEntitlement(r), UNCHANGED workload
  PROVE  IInv'
<1> DEFINE job == req[r]
           new == IF job.op = "getIdentityMe" THEN Idle ELSE [job EXCEPT !.at = "act"]
<1>1. job \in IdentityJobs /\ job.by \in Users
  <2>1. job \in Jobs /\ job.at = "entitlement"
    BY DEF ensureEntitlement, IInv
  <2> QED BY <2>1, KindOfJob DEF IdentityJobs
<1>2. \/ new = Idle
      \/ /\ new \in IdentityJobs /\ new.op = job.op /\ new.by = job.by /\ new.arg = job.arg
         /\ new.row = job.row /\ new.at = "act"
  BY <1>1 DEF IdentityJobs
<1>3. new \in Jobs \cup {Idle}
  BY <1>2 DEF Jobs
<1>4. /\ req' = [req EXCEPT ![r] = new] /\ entitled' \subseteq Users
      /\ UNCHANGED <<person, kyc, dispute, evidence, settings>> /\ stale \ {r} \subseteq stale'
  BY <1>1 DEF ensureEntitlement, IInv, TrustTypeOK
<1>5. req'[r] = new
  BY <1>4 DEF IInv
<1> HIDE DEF new
<1>6. JobInOrder(r)' /\ Fresh(r)'
  BY <1>1, <1>2, <1>5, IdentityJobMoves, IdleInOrder
<1> QED BY <1>3, <1>4, <1>6, QuietStep DEF IInv, TrustTypeOK

LEMMA CountCasesKeeps ==
  ASSUME IInv, NEW r \in Requests, countCases(r), UNCHANGED workload
  PROVE  IInv'
<1> DEFINE job == req[r]
           new == [job EXCEPT !.at = "create", !.candidate = nextCaseNumber]
<1>1. job \in IdentityJobs
  <2>1. job \in Jobs /\ job.at = "act"
    BY DEF countCases, IInv
  <2> QED BY <2>1, KindOfJob
<1>2. nextCaseNumber \in Nat \ {0}
  BY CaseCount DEF IInv
<1>3. /\ new \in IdentityJobs /\ new.op = job.op /\ new.by = job.by /\ new.arg = job.arg
      /\ new.row = job.row /\ new.at = "create" /\ new.candidate = nextCaseNumber
  BY <1>1, <1>2 DEF IdentityJobs
<1>4. req' = [req EXCEPT ![r] = new]
  BY DEF countCases
<1>5. UNCHANGED <<person, entitled, kyc, dispute, evidence, settings, stale>>
  BY DEF countCases
<1>6. nextCaseNumber' = nextCaseNumber
  BY <1>5 DEF nextCaseNumber, CaseNumbers
<1>7. req'[r] = new
  BY <1>4 DEF IInv
<1> HIDE DEF new
<1>8. JobInOrder(r)' /\ Fresh(r)'
  BY <1>1, <1>2, <1>3, <1>6, <1>7, IdentityJobMoves
<1> QED BY <1>3, <1>4, <1>5, <1>8, QuietStep DEF IInv, TrustTypeOK, Jobs

LEMMA FailKeeps ==
  ASSUME IInv, NEW r \in Requests, Fail(r), UNCHANGED workload
  PROVE  IInv'
BY QuietStep DEF Fail, IInv, TrustTypeOK

LEMMA UpsertKeeps ==
  ASSUME IInv, NEW r \in Requests, upsertSettings(r), UNCHANGED workload
  PROVE  IInv'
<1>1. req[r] \in UpsertJobs
  <2>1. req[r] \in Jobs /\ req[r].at = "upsert"
    BY DEF upsertSettings, IInv
  <2> QED BY <2>1, KindOfJob
<1>2. req[r].value \in SUBSET Requirements
  BY <1>1 DEF UpsertJobs
<1>3. settings' \in [Organizations \cup {None} -> SUBSET Requirements]
  BY <1>2 DEF upsertSettings, IInv, TrustTypeOK
<1>4. req' = [req EXCEPT ![r] = Idle] /\ stale \ {r} \subseteq stale'
  BY DEF upsertSettings, Wrote, WroteThen
<1> QED BY <1>3, <1>4, QuietStep DEF upsertSettings, IInv, TrustTypeOK

-----------------------------------------------------------------------------
(* Verification.                                                           *)

LEMMA SubmitKycKeeps ==
  ASSUME IInv, NEW r \in Requests, NEW k \in Submissions, submitKyc(r, k), UNCHANGED workload
  PROVE  IInv'
<1> DEFINE new == [status |-> "SUBMITTED", userId |-> req[r].by,
                   submissionType |-> req[r].arg, reviewedById |-> None]
<1>1. req[r].by \in Users /\ req[r].arg \in SubmissionTypes
  <2>1. req[r] \in Jobs /\ req[r].at = "act" /\ req[r].op = "submitKyc"
    BY DEF submitKyc, IInv
  <2> QED BY <2>1, KindOfJob DEF IdentityJobs, IInv, JobInOrder
<1>2. new \in KycRows
  BY <1>1 DEF KycRows
<1>3. /\ kyc' = [kyc EXCEPT ![k] = new] /\ kyc[k].status = "NONE"
      /\ req' = [req EXCEPT ![r] = Idle] /\ stale \ {r} \subseteq stale'
      /\ UNCHANGED <<person, entitled, dispute, evidence, settings>>
  BY DEF submitKyc, Wrote, WroteThen
<1>4. kyc' \in [Submissions -> KycRows] /\ \A x \in Submissions : kyc'[x] = IF x = k THEN new ELSE kyc[x]
  BY <1>2, <1>3 DEF IInv, TrustTypeOK
<1>5. new.status = "SUBMITTED" /\ new.userId \in Users
  BY <1>1
<1> HIDE DEF new
<1>6. KycInOrder' /\ KycGrows
  BY <1>3, <1>4, <1>5 DEF KycInOrder, KycGrows, IInv
<1>7. ASSUME NEW v \in Users PROVE Backed(person[v], v)'
  <2>1. Backed(person[v], v)
    BY DEF IInv, VerificationIsBacked, Backed
  <2> QED BY <1>3, <1>6, <2>1 DEF Backed, KycInOrder, KycGrows, IInv
<1>8. RowsInOrder' /\ DisputesGrow
  <2>1. person' \in [Users -> PersonRows]
    BY <1>3 DEF IInv, TrustTypeOK
  <2> QED BY <1>1, <1>3, <1>4, <1>6, <1>7, <2>1, PersonWritten
<1>9. Marks(r)
  BY <1>3 DEF Marks
<1>10. JobInOrder(r)' /\ Fresh(r)'
  BY <1>3, IdleInOrder DEF IInv
<1> QED BY <1>3, <1>6, <1>8, <1>9, <1>10, StepKeeps

\* What a review of a submission makes of a user.
LEMMA VerifiedRow ==
  ASSUME NEW row \in PersonRows, NEW read \in PersonRows, NEW t
  PROVE  /\ applyVerificationFromKyc(row, read, t) \in PersonRows
         /\ LET new == applyVerificationFromKyc(row, read, t) IN
            /\ RankOf(new.status) <= new.level
            /\ new.level = LevelOf(t) \/ new.level = read.level
            /\ new.level >= read.level
            /\ new.secureZoneId = row.secureZoneId
<1> DEFINE score == Min({read.trustScore + 1, 10})
           level == Max({read.level, LevelOf(t)})
           new == applyVerificationFromKyc(row, read, t)
<1>1. read.trustScore \in 0..10 /\ read.level \in 0..6 /\ LevelOf(t) \in 3..6
  BY DEF PersonRows, LevelOf
<1>2. score \in 0..10
  BY <1>1, MinOfTwo
<1>3. /\ level \in 0..6 /\ level >= read.level /\ level >= LevelOf(t)
      /\ level = LevelOf(t) \/ level = read.level
  BY <1>1, MaxOfTwo
<1>4. new = [row EXCEPT !.trustScore = score, !.status = StatusOf(t), !.level = level]
  BY DEF applyVerificationFromKyc
<1> HIDE DEF score, level
<1>5. /\ StatusOf(t) \in {"ID_VERIFIED", "FACE_VERIFIED", "ADDRESS_VERIFIED", "BUSINESS_VERIFIED"}
      /\ RankOf(StatusOf(t)) = LevelOf(t)
  BY DEF StatusOf, RankOf, LevelOf
<1>6. /\ new \in PersonRows /\ new.status = StatusOf(t) /\ new.level = level
      /\ new.secureZoneId = row.secureZoneId
  BY <1>2, <1>3, <1>4, <1>5 DEF PersonRows
<1> HIDE DEF new
<1>7. RankOf(new.status) <= new.level
  BY <1>1, <1>3, <1>5, <1>6
<1> QED BY <1>3, <1>6, <1>7 DEF new

LEMMA CommitReviewKeeps ==
  ASSUME IInv, NEW r \in Requests, commitReview(r), UNCHANGED workload
  PROVE  IInv'
<1>1. req[r] \in ReviewJobs
  <2>1. req[r] \in Jobs /\ req[r].at = "review"
    BY DEF commitReview, IInv
  <2> QED BY <2>1, KindOfJob
<1>2. PICK k \in Submissions : k = req[r].arg
  BY <1>1 DEF ReviewJobs
<1>3. /\ kyc[k].status # "NONE" /\ kyc[k].userId \in Users
      /\ Backed(req[r].read, kyc[k].userId) /\ kyc[k] \in KycRows
  BY <1>1, <1>2 DEF IInv, JobInOrder, KycInOrder, TrustTypeOK
<1>4. PICK u \in Users : u = kyc[k].userId
  BY <1>3
<1>5. PICK by \in Users, status \in ReviewStatuses, read \in PersonRows :
        by = req[r].by /\ status = req[r].status /\ read = req[r].read
  BY <1>1 DEF ReviewJobs
<1>6. by # None /\ status # "NONE"
  BY NoneIsNoId, GivenInputs
<1>7. kyc' = [kyc EXCEPT ![k].status = status, ![k].reviewedById = by]
  BY <1>2, <1>5 DEF commitReview
<1>8. /\ kyc' \in [Submissions -> KycRows]
      /\ \A x \in Submissions \ {k} : kyc'[x] = kyc[x]
      /\ kyc'[k].userId = u /\ kyc'[k].submissionType = kyc[k].submissionType
      /\ kyc'[k].status = status /\ kyc'[k].reviewedById = by
  <2> DEFINE new == [kyc[k] EXCEPT !.status = status, !.reviewedById = by]
  <2>1. kyc' = [kyc EXCEPT ![k] = new]
    BY <1>7 DEF IInv, TrustTypeOK, KycRows
  <2>2. /\ new \in KycRows /\ new.userId = u /\ new.submissionType = kyc[k].submissionType
        /\ new.status = status /\ new.reviewedById = by
    BY <1>3, <1>4 DEF KycRows
  <2> HIDE DEF new
  <2> QED BY <2>1, <2>2 DEF IInv, TrustTypeOK
<1>9. KycInOrder' /\ KycGrows
  BY <1>3, <1>4, <1>6, <1>8 DEF KycInOrder, KycGrows, IInv
<1>10. UNCHANGED <<entitled, dispute, evidence, settings>>
  BY DEF commitReview
<1>11. /\ person' \in [Users -> PersonRows] /\ \A v \in Users \ {u} : person'[v] = person[v]
       /\ Backed(person[u], u)' /\ Marks(r) /\ req' = [req EXCEPT ![r] = Idle]
  <2>1. CASE status = "APPROVED"
    <3> DEFINE new == applyVerificationFromKyc(person[u], read, kyc[k].submissionType)
    <3>1. person' = [person EXCEPT ![u] = new] /\ WroteThen(r, {<<"person", u>>}, Idle)
      BY <1>2, <1>4, <1>5, <2>1 DEF commitReview, Wrote
    <3>2. person[u] \in PersonRows
      BY DEF IInv, TrustTypeOK
    <3>3. /\ new \in PersonRows /\ RankOf(new.status) <= new.level
          /\ new.level = LevelOf(kyc[k].submissionType) \/ new.level = read.level
      BY <3>2, VerifiedRow
    <3> HIDE DEF new
    <3>4. /\ person' \in [Users -> PersonRows] /\ person'[u] = new
          /\ \A v \in Users \ {u} : person'[v] = person[v]
      BY <3>1, <3>3 DEF IInv, TrustTypeOK
    <3>5. Backed(person[u], u)'
      <4>1. CASE new.level = LevelOf(kyc[k].submissionType)
        BY <1>6, <1>8, <3>3, <3>4, <4>1 DEF Backed
      <4>2. CASE new.level = read.level
        <5>1. Backed(read, u)
          BY <1>3, <1>4, <1>5
        <5>2. Backed(read, u)'
          BY <1>9, <5>1, BackedStays DEF IInv
        <5> QED BY <3>3, <3>4, <4>2, <5>2 DEF Backed
      <4> QED BY <3>3, <4>1, <4>2
    <3>6. Marks(r) /\ req' = [req EXCEPT ![r] = Idle]
      BY <1>10, <3>1, <3>4, WroteMarks, PersonMarks
    <3> QED BY <3>4, <3>5, <3>6
  <2>2. CASE status # "APPROVED"
    <3>1. UNCHANGED person /\ req' = [req EXCEPT ![r] = Idle] /\ stale \ {r} \subseteq stale'
      BY <1>5, <2>2 DEF commitReview, Wrote, WroteThen
    <3>2. Backed(person[u], u)
      BY DEF IInv, VerificationIsBacked, Backed
    <3>3. Backed(person[u], u)'
      BY <1>9, <3>1, <3>2 DEF Backed, KycInOrder, KycGrows, IInv
    <3> QED BY <1>10, <3>1, <3>3 DEF IInv, TrustTypeOK, Marks
  <2> QED BY <2>1, <2>2
<1>12. RowsInOrder' /\ DisputesGrow
  BY <1>8, <1>9, <1>10, <1>11, PersonWritten
<1>13. JobInOrder(r)' /\ Fresh(r)'
  BY <1>11, IdleInOrder DEF IInv
<1> QED BY <1>9, <1>11, <1>12, <1>13, StepKeeps

\* What a sign-in makes of a status and a level.
LEMMA SignedInRow ==
  ASSUME NEW read \in PersonRows, NEW verified \in {"phone", "email"},
         RankOf(read.status) <= read.level
  PROVE  LET status == nextFirebaseIdentityStatus(read, verified)
             level == nextFirebaseIdentityLevel(read, verified) IN
         /\ status \in {"UNVERIFIED", "PHONE_VERIFIED", "EMAIL_VERIFIED", "ID_VERIFIED",
                        "FACE_VERIFIED", "ADDRESS_VERIFIED", "BUSINESS_VERIFIED"}
         /\ level \in 0..6 /\ level >= read.level /\ RankOf(status) <= level
         /\ level >= 3 => level = read.level
<1> DEFINE status == nextFirebaseIdentityStatus(read, verified)
           level == nextFirebaseIdentityLevel(read, verified)
           own == IF verified = "phone" THEN 2 ELSE 1
<1>1. /\ read.level \in 0..6
      /\ read.status \in {"UNVERIFIED", "PHONE_VERIFIED", "EMAIL_VERIFIED", "ID_VERIFIED",
                          "FACE_VERIFIED", "ADDRESS_VERIFIED", "BUSINESS_VERIFIED"}
  BY DEF PersonRows
<1>2. own \in {1, 2} /\ level = Max({read.level, own})
  BY DEF nextFirebaseIdentityLevel
<1> HIDE DEF own
<1>3. level = IF read.level <= own THEN own ELSE read.level
  BY <1>1, <1>2, MaxOfTwo
<1> HIDE DEF level
<1>4. level \in 0..6 /\ level >= read.level /\ level >= own /\ (level >= 3 => level = read.level)
  BY <1>1, <1>2, <1>3
<1>5. CASE read.status # "UNVERIFIED"
  <2>1. status = read.status
    BY <1>5 DEF nextFirebaseIdentityStatus
  <2>2. RankOf(read.status) \in 0..6
    BY DEF RankOf
  <2> QED BY <1>1, <1>4, <2>1, <2>2 DEF level
<1>6. CASE read.status = "UNVERIFIED"
  <2>1. status = IF verified = "phone" THEN "PHONE_VERIFIED" ELSE "EMAIL_VERIFIED"
    BY <1>6 DEF nextFirebaseIdentityStatus
  <2>2. RankOf(status) = own
    BY <2>1 DEF RankOf, own
  <2> QED BY <1>4, <2>1, <2>2 DEF level
<1> QED BY <1>5, <1>6

LEMMA CommitLoginKeeps ==
  ASSUME IInv, NEW r \in Requests, commitLogin(r), UNCHANGED workload
  PROVE  IInv'
<1>1. req[r] \in LoginJobs
  <2>1. req[r] \in Jobs /\ req[r].at = "login"
    BY DEF commitLogin, IInv
  <2> QED BY <2>1, KindOfJob
<1>2. PICK u \in Users, read \in PersonRows, verified \in {"phone", "email"} :
        u = req[r].by /\ read = req[r].read /\ verified = req[r].arg
  BY <1>1 DEF LoginJobs
<1>3. Backed(read, u) /\ person[u] \in PersonRows
  BY <1>1, <1>2 DEF IInv, JobInOrder, TrustTypeOK
<1> DEFINE status == nextFirebaseIdentityStatus(read, verified)
           level == nextFirebaseIdentityLevel(read, verified)
<1>4. /\ status \in {"UNVERIFIED", "PHONE_VERIFIED", "EMAIL_VERIFIED", "ID_VERIFIED",
                     "FACE_VERIFIED", "ADDRESS_VERIFIED", "BUSINESS_VERIFIED"}
      /\ level \in 0..6 /\ RankOf(status) <= level /\ (level >= 3 => level = read.level)
  BY <1>3, SignedInRow DEF Backed
<1>5. /\ person' = [person EXCEPT ![u].status = status, ![u].level = level]
      /\ UNCHANGED <<entitled, kyc, dispute, evidence, settings>>
  BY <1>2 DEF commitLogin
<1> HIDE DEF status, level
<1>6. /\ person' \in [Users -> PersonRows] /\ \A v \in Users \ {u} : person'[v] = person[v]
      /\ person'[u].status = status /\ person'[u].level = level
      /\ person'[u].secureZoneId = person[u].secureZoneId
  <2> DEFINE new == [person[u] EXCEPT !.status = status, !.level = level]
  <2>1. person' = [person EXCEPT ![u] = new]
    BY <1>5 DEF IInv, TrustTypeOK, PersonRows
  <2>2. /\ new \in PersonRows /\ new.status = status /\ new.level = level
        /\ new.secureZoneId = person[u].secureZoneId
    BY <1>3, <1>4 DEF PersonRows
  <2> HIDE DEF new
  <2> QED BY <2>1, <2>2 DEF IInv, TrustTypeOK
<1>7. Backed(person[u], u)'
  BY <1>3, <1>4, <1>5, <1>6 DEF Backed
<1>8. kyc' \in [Submissions -> KycRows] /\ KycInOrder' /\ KycGrows
  BY <1>5 DEF IInv, TrustTypeOK, KycInOrder, KycGrows
<1>9. RowsInOrder' /\ DisputesGrow
  BY <1>5, <1>6, <1>7, <1>8, PersonWritten
<1>10. PICK n \in Candidates(u) :
         WroteThen(r, {<<"person", u>>}, IdentityJob("firebaseLogin", u, None, {}, n))
  BY <1>2 DEF commitLogin
<1> DEFINE job == IdentityJob("firebaseLogin", u, None, {}, n)
<1>11. n \in Nat /\ (n # 0 => person[u].secureZoneId = 0)
  BY CandidatesAreNumbers DEF IInv, Candidates
<1>12. job \in IdentityJobs
  BY <1>11, IdentityJobIsJob DEF IInv
<1>13. /\ job.row = {<<"person", u>>} /\ job.by = u /\ job.op = "firebaseLogin"
       /\ job.at = "identity" /\ job.candidate = n
  BY DEF IdentityJob
<1> HIDE DEF job
<1>14. job \in Jobs /\ job \notin ReviewJobs /\ job \notin LoginJobs /\ job \notin MessageJobs
  BY <1>12, <1>13, KindOfJob DEF Jobs
<1>15. req' = [req EXCEPT ![r] = job] /\ Marks(r)
  <2>1. WroteThen(r, {<<"person", u>>}, job)
    BY <1>10 DEF job
  <2> QED BY <1>5, <1>6, <2>1, WroteMarks, PersonMarks
<1>16. req'[r] = job
  BY <1>15 DEF IInv
<1>17. JobInOrder(r)' /\ Fresh(r)'
  BY <1>6, <1>11, <1>13, <1>14, <1>16 DEF JobInOrder, Fresh
<1> QED BY <1>8, <1>9, <1>14, <1>15, <1>17, StepKeeps

\* An e-mail change and the passing of time are steps of no handler.
LEMMA NobodysStepKeeps ==
  ASSUME IInv, UNCHANGED <<req, workload>>, KycGrows, DisputesGrow, RowsInOrder', Marks(None)
  PROVE  IInv'
<1>1. None \notin Requests
  BY NoneIsNoId
<1>2. \A q \in Requests : JobInOrder(q)' /\ (q \notin stale' => Fresh(q)')
  BY <1>1, OthersStay DEF RowsInOrder
<1> QED BY <1>2 DEF IInv, RowsInOrder

LEMMA ChangeEmailKeeps ==
  ASSUME IInv, NEW u \in Users, changeEmail(u), UNCHANGED workload
  PROVE  IInv'
<1>1. /\ person' \in [Users -> PersonRows] /\ \A v \in Users \ {u} : person'[v] = person[v]
      /\ person'[u].status = "UNVERIFIED" /\ person'[u].level = person[u].level
      /\ person[u].level \in 0..6
  BY DEF changeEmail, IInv, TrustTypeOK, PersonRows
<1>2. UNCHANGED <<entitled, kyc, dispute, evidence, settings, req>>
  BY DEF changeEmail
<1>3. Backed(person[u], u)
  BY DEF IInv, VerificationIsBacked, Backed
<1>4. RankOf("UNVERIFIED") = 0
  BY DEF RankOf
<1>5. Backed(person[u], u)'
  BY <1>1, <1>2, <1>3, <1>4 DEF Backed
<1>6. kyc' \in [Submissions -> KycRows] /\ KycInOrder' /\ KycGrows
  BY <1>2 DEF IInv, TrustTypeOK, KycInOrder, KycGrows
<1>7. RowsInOrder' /\ DisputesGrow
  BY <1>1, <1>2, <1>5, <1>6, PersonWritten
<1>8. Marks(None)
  BY <1>1, <1>2, PersonMarks DEF changeEmail
<1> QED BY <1>2, <1>6, <1>7, <1>8, NobodysStepKeeps

-----------------------------------------------------------------------------
(* Evidence records.                                                       *)

\* The scope that a record is filed under: its uploader can open it, but for an administrator
\* who owns it.
LEMMA ScopeInOrder ==
  ASSUME NEW u \in Users, NEW related \in Related, NEW scope \in resolveEvidenceScope(u, related)
  PROVE  /\ scope.ownerUserId \in Users \cup {None}
         /\ scope.organizationId \in Organizations \cup {None}
         /\ isOrgScopedAdminRole(u) /\ scope.ownerUserId # u =>
              scope.organizationId = organizationId[u]
<1> USE GivenRows
<1>1. CASE related[1] = "USER" /\ related[2] = u
  BY <1>1 DEF resolveEvidenceScope
<1>2. CASE related[1] = "USER" /\ related[2] # u
  <2>1. related[2] \in Users
    BY <1>2 DEF Related
  <2>2. /\ scope = [ownerUserId |-> related[2], organizationId |-> organizationId[related[2]]]
        /\ assertCanAccessUser(u, organizationId[related[2]])
    BY <1>2 DEF resolveEvidenceScope
  <2> QED BY <2>1, <2>2 DEF assertCanAccessUser, isOrgScopedAdminRole
<1>3. CASE related[1] = "REPORT"
  <2>1. related[2] \in Reports
    BY <1>3 DEF Related
  <2>2. /\ scope = [ownerUserId |-> Report[related[2]].citizenId,
                    organizationId |-> Report[related[2]].organizationId]
        /\ canAccessReport(u, Report[related[2]])
    BY <1>3 DEF resolveEvidenceScope
  <2> QED BY <2>1, <2>2 DEF canAccessReport, canAdminAccessOrganization, isOrgScopedAdminRole
<1>4. CASE related[1] # "USER" /\ related[1] # "REPORT"
  <2>1. scope = [ownerUserId |-> u, organizationId |-> organizationId[u]]
    BY <1>4 DEF resolveEvidenceScope
  <2> QED BY <2>1
<1> QED BY <1>1, <1>2, <1>3, <1>4

LEMMA CreateEvidenceKeeps ==
  ASSUME IInv, NEW r \in Requests, NEW e \in Records, createEvidence(r, e), UNCHANGED workload
  PROVE  IInv'
<1>1. req[r].by \in Users /\ req[r].arg \in Related
  <2>1. req[r] \in Jobs /\ req[r].at = "act" /\ req[r].op = "createEvidence"
    BY DEF createEvidence, IInv
  <2> QED BY <2>1, KindOfJob DEF IdentityJobs, IInv, JobInOrder
<1>2. PICK u \in Users, related \in Related : u = req[r].by /\ related = req[r].arg
  BY <1>1
<1>3. PICK scope \in resolveEvidenceScope(u, related) :
        evidence' = [evidence EXCEPT ![e] =
                       [ownerUserId |-> scope.ownerUserId, uploadedById |-> u,
                        organizationId |-> scope.organizationId]]
  BY <1>2 DEF createEvidence
<1> DEFINE new == [ownerUserId |-> scope.ownerUserId, uploadedById |-> u,
                   organizationId |-> scope.organizationId]
<1>4. /\ scope.ownerUserId \in Users \cup {None}
      /\ scope.organizationId \in Organizations \cup {None}
      /\ isOrgScopedAdminRole(u) /\ scope.ownerUserId # u =>
           scope.organizationId = organizationId[u]
  BY ScopeInOrder
<1>5. /\ new \in EvidenceRows /\ new.uploadedById = u
      /\ isOrgScopedAdminRole(u) /\ new.ownerUserId # u => new.organizationId = organizationId[u]
  BY <1>4 DEF EvidenceRows
<1>6. evidence' \in [Records -> EvidenceRows]
  BY <1>3, <1>5 DEF IInv, TrustTypeOK
<1>7. \A x \in Records : evidence'[x] = IF x = e THEN new ELSE evidence[x]
  BY <1>3 DEF IInv, TrustTypeOK
<1> HIDE DEF new
<1>8. ASSUME NEW x \in Records, NEW v \in Users, evidence'[x].uploadedById # None
      PROVE  /\ evidenceScopeWhere(v, evidence'[x]) <=> canAccessEvidence(v, evidence'[x])
             /\ /\ v = evidence'[x].uploadedById
                /\ isOrgScopedAdminRole(v) => organizationId[v] # None /\ evidence'[x].ownerUserId # v
                => canAccessEvidence(v, evidence'[x])
  <2>1. evidenceScopeWhere(v, evidence'[x]) <=> canAccessEvidence(v, evidence'[x])
    BY ListedIsOpened
  <2>2. CASE x = e
    BY <1>5, <1>7, <2>1, <2>2 DEF canAccessEvidence
  <2>3. CASE x # e
    BY <1>7, <1>8, <2>1, <2>3 DEF IInv, EvidenceIsReadable
  <2> QED BY <2>2, <2>3
<1>9. EvidenceIsReadable'
  BY <1>8 DEF EvidenceIsReadable
<1>10. /\ req' = [req EXCEPT ![r] = Idle] /\ stale \ {r} \subseteq stale'
       /\ UNCHANGED <<person, entitled, kyc, dispute, settings>>
  BY DEF createEvidence, Wrote, WroteThen
<1>11. nextCaseNumber' = nextCaseNumber /\ CaseNumbers' = CaseNumbers /\ nextCaseNumber \in Nat
  BY <1>10, CaseCount DEF nextCaseNumber, CaseNumbers, IInv
<1>12. CasesInOrder' /\ KycInOrder' /\ KycGrows /\ DisputesGrow
  BY <1>10, <1>11 DEF CasesInOrder, KycInOrder, KycGrows, DisputesGrow, IInv
<1>13. TrustTypeOK' /\ VerificationIsBacked' /\ ClosureIsRecorded'
  BY <1>6, <1>10 DEF IInv, TrustTypeOK, VerificationIsBacked, ClosureIsRecorded
<1>14. JobInOrder(r)' /\ Fresh(r)' /\ Marks(r)
  BY <1>10, IdleInOrder DEF IInv, Marks
<1> QED BY <1>9, <1>10, <1>12, <1>13, <1>14, StepKeeps DEF RowsInOrder

-----------------------------------------------------------------------------
(* Disputes that are opened, swept and aged.                               *)

\* The number that was counted is refused unless it is the next one, so that no gap opens.
LEMMA CreateDisputeKeeps ==
  ASSUME IInv, NEW r \in Requests, NEW d \in Disputes, NEW overdue \in BOOLEAN,
         createDispute(r, d, overdue), UNCHANGED workload
  PROVE  IInv'
<1>1. req[r] \in IdentityJobs /\ req[r].at = "create"
  <2>1. req[r] \in Jobs /\ req[r].at = "create"
    BY DEF createDispute, IInv
  <2> QED BY <2>1, KindOfJob
<1>2. PICK u \in Users, n \in Nat : u = req[r].by /\ n = req[r].candidate
  BY <1>1 DEF IdentityJobs
<1>3. PICK m \in Nat : CaseNumbers = 1..m
  BY DEF IInv, CasesInOrder
<1>4. nextCaseNumber = m + 1
  <2>1. Cardinality(1..m) = m
    BY FS_Interval
  <2> QED BY <1>3, <2>1 DEF nextCaseNumber
<1>5. n = m + 1
  <2>1. n \in 1 .. nextCaseNumber /\ n \notin CaseNumbers
    BY <1>1, <1>2 DEF IInv, JobInOrder, createDispute
  <2> QED BY <1>3, <1>4, <2>1
<1> DEFINE new == [status |-> "OPEN", caseNumber |-> n, openedById |-> u, closedById |-> None,
                   assignedAdminId |-> None, overdue |-> overdue]
           job == MessageJob("createDispute", u, d, "OPENING", {})
<1>6. /\ dispute[d].status = "NONE" /\ dispute' = [dispute EXCEPT ![d] = new]
      /\ WroteThen(r, {<<"dispute", d>>}, job)
      /\ UNCHANGED <<person, entitled, kyc, evidence, settings>>
  BY <1>2 DEF createDispute
<1>7. /\ new \in DisputeRows /\ new.status = "OPEN" /\ new.caseNumber = n
      /\ new.closedById = None
  <2>1. overdue \in BOOLEAN
    OBVIOUS
  <2> QED BY <2>1 DEF DisputeRows
<1> HIDE DEF new
<1>8. /\ dispute' \in [Disputes -> DisputeRows]
      /\ \A x \in Disputes : dispute'[x] = IF x = d THEN new ELSE dispute[x]
  BY <1>6, <1>7 DEF IInv, TrustTypeOK
<1>9. CaseNumbers' = 1 .. (m + 1)
  <2>1. dispute[d].caseNumber = 0
    BY <1>6 DEF IInv, CasesInOrder
  <2>2. CaseNumbers' = CaseNumbers \cup {n}
    <3>1. n # 0
      BY <1>5
    <3> QED BY <1>7, <1>8, <2>1, <3>1 DEF CaseNumbers
  <2> QED BY <1>3, <1>5, <2>2
<1>10. nextCaseNumber' = m + 2
  BY <1>9, CaseCountAfter
<1>11. CasesInOrder' /\ KycInOrder'
  <2>1. m + 1 \in Nat
    OBVIOUS
  <2> QED BY <1>6, <1>7, <1>8, <1>9, <2>1 DEF CasesInOrder, KycInOrder, IInv
<1>12. KycGrows /\ DisputesGrow
  BY <1>4, <1>6, <1>7, <1>8, <1>10 DEF KycGrows, DisputesGrow
<1>13. TrustTypeOK' /\ VerificationIsBacked'
  BY <1>6, <1>8 DEF IInv, TrustTypeOK, VerificationIsBacked
<1>14. ClosureIsRecorded'
  BY <1>7, <1>8 DEF IInv, ClosureIsRecorded, terminalStatuses
<1>15. EvidenceIsReadable'
  BY <1>6 DEF IInv, EvidenceIsReadable
<1>16. req' = [req EXCEPT ![r] = job] /\ Marks(r)
  BY <1>6, WroteMarks, DisputeMarks
<1>17. job \in MessageJobs
  <2>1. [job EXCEPT !.at = "message"] \in MessageJobs
    BY MessageJobIsJob
  <2>2. job = [job EXCEPT !.at = "message"]
    BY DEF MessageJob
  <2> QED BY <2>1, <2>2
<1>18. job.todo = {} /\ job.at = "message" /\ job.row = {}
  BY DEF MessageJob
<1> HIDE DEF job
<1>19. job \in Jobs /\ job \notin IdentityJobs /\ job \notin ReviewJobs /\ job \notin LoginJobs
  BY <1>17, <1>18, KindOfJob DEF Jobs
<1>20. req'[r] = job
  BY <1>16 DEF IInv
<1>21. JobInOrder(r)' /\ Fresh(r)'
  BY <1>18, <1>19, <1>20 DEF JobInOrder, Fresh
<1> QED BY <1>11, <1>12, <1>13, <1>14, <1>15, <1>16, <1>19, <1>21, StepKeeps DEF RowsInOrder

LEMMA CreateMessageKeeps ==
  ASSUME IInv, NEW r \in Requests, createMessage(r), UNCHANGED workload
  PROVE  IInv'
<1>1. req[r] \in MessageJobs
  <2>1. req[r] \in Jobs /\ req[r].at = "message"
    BY DEF createMessage, IInv
  <2> QED BY <2>1, KindOfJob
<1>2. UNCHANGED <<person, entitled, kyc, dispute, evidence, settings>>
  BY DEF createMessage
<1>3. CASE req[r].todo = {}
  <2>1. req' = [req EXCEPT ![r] = Idle] /\ stale \ {r} \subseteq stale'
    BY <1>3 DEF createMessage
  <2> QED BY <1>2, <2>1, QuietStep DEF IInv, TrustTypeOK
<1>4. CASE req[r].todo # {}
  <2> DEFINE new == [req[r] EXCEPT !.at = "sweep"]
  <2>1. req' = [req EXCEPT ![r] = new] /\ UNCHANGED stale
    BY <1>4 DEF createMessage
  <2>2. /\ new \in MessageJobs /\ new.op = req[r].op /\ new.todo = req[r].todo
        /\ new.row = req[r].row /\ new.at = "sweep"
    BY <1>1 DEF MessageJobs
  <2> HIDE DEF new
  <2>3. new \in Jobs /\ new \notin IdentityJobs /\ new \notin ReviewJobs /\ new \notin LoginJobs
    BY <2>2, KindOfJob DEF Jobs
  <2>4. req'[r] = new
    BY <2>1 DEF IInv
  <2>5. JobInOrder(r)'
    BY <1>1, <1>2, <1>4, <2>2, <2>3, <2>4 DEF JobInOrder, IInv
  <2>6. r \notin stale' => Fresh(r)'
    BY <1>1, <1>2, <2>1, <2>2, <2>3, <2>4 DEF Fresh, IInv
  <2> QED BY <1>2, <2>1, <2>3, <2>5, <2>6, QuietStep DEF IInv, TrustTypeOK
<1> QED BY <1>3, <1>4

LEMMA EscalateNextKeeps ==
  ASSUME IInv, NEW r \in Requests, NEW d \in Disputes, escalateNext(r, d), UNCHANGED workload
  PROVE  IInv'
<1>1. req[r] \in MessageJobs
  <2>1. req[r] \in Jobs /\ req[r].at = "sweep"
    BY DEF escalateNext, IInv
  <2> QED BY <2>1, KindOfJob
<1>2. PICK u \in Users, todo \in SUBSET Disputes : u = req[r].by /\ todo = req[r].todo
  BY <1>1 DEF MessageJobs
<1>3. req[r].op = "escalateOverdueDisputes" /\ \A x \in todo : dispute[x].status # "NONE"
  BY <1>1, <1>2 DEF IInv, JobInOrder, escalateNext
<1> DEFINE new == Escalated(dispute[d])
           job == MessageJob("escalateOverdueDisputes", u, d, "ESCALATION", todo \ {d})
<1>4. /\ d \in todo /\ dispute' = [dispute EXCEPT ![d] = new] /\ req' = [req EXCEPT ![r] = job]
      /\ stale' = stale \cup {q \in Requests \ {r} : req[q] # Idle /\ <<"dispute", d>> \in req[q].row}
      /\ UNCHANGED <<person, entitled, kyc, evidence, settings>>
  BY <1>2, <1>3 DEF escalateNext
<1>5. dispute[d].status # "NONE" /\ dispute[d] \in DisputeRows
  BY <1>3, <1>4 DEF IInv, TrustTypeOK
<1>6. DisputeInOrder(new) /\ new.caseNumber = dispute[d].caseNumber
  BY <1>2, <1>5, DisputeRowsInOrder DEF Escalated, DisputeRows
<1> HIDE DEF new
<1>7. RowsInOrder' /\ KycGrows /\ DisputesGrow
  BY <1>4, <1>5, <1>6, DisputeWritten
<1>8. Marks(r)
  BY <1>4, DisputeMarks
<1>9. job \in MessageJobs
  <2>1. [job EXCEPT !.at = "message"] \in MessageJobs
    BY MessageJobIsJob
  <2>2. job = [job EXCEPT !.at = "message"]
    BY DEF MessageJob
  <2> QED BY <2>1, <2>2
<1>10. /\ job.todo = todo \ {d} /\ job.at = "message" /\ job.op = "escalateOverdueDisputes"
       /\ job.row = {<<"dispute", x>> : x \in todo \ {d}}
  BY DEF MessageJob
<1> HIDE DEF job
<1>11. job \in Jobs /\ job \notin IdentityJobs /\ job \notin ReviewJobs /\ job \notin LoginJobs
  BY <1>9, <1>10, KindOfJob DEF Jobs
<1>12. req'[r] = job /\ \A x \in todo \ {d} : dispute'[x] = dispute[x]
  BY <1>4 DEF IInv, TrustTypeOK
<1>13. JobInOrder(r)'
  BY <1>3, <1>10, <1>11, <1>12 DEF JobInOrder
<1>14. r \notin stale' => Fresh(r)'
  <2> SUFFICES ASSUME r \notin stale' PROVE Fresh(r)'
    OBVIOUS
  <2>1. \A x \in todo : dispute[x].status \notin terminalStatuses
    BY <1>1, <1>2, <1>4 DEF IInv, Fresh
  <2> QED BY <1>10, <1>11, <1>12, <2>1 DEF Fresh
<1> QED BY <1>4, <1>7, <1>8, <1>11, <1>13, <1>14, StepKeeps

LEMMA DisputeAgesKeeps ==
  ASSUME IInv, NEW d \in Disputes, DisputeAges(d), UNCHANGED workload
  PROVE  IInv'
<1> DEFINE new == [dispute[d] EXCEPT !.overdue = TRUE]
<1>1. /\ dispute[d].status # "NONE" /\ dispute' = [dispute EXCEPT ![d] = new]
      /\ UNCHANGED <<person, entitled, kyc, evidence, settings, req, stale>>
  BY DEF DisputeAges
<1>2. dispute[d] \in DisputeRows
  BY DEF IInv, TrustTypeOK
<1>3. new \in DisputeRows
  <2>1. TRUE \in BOOLEAN
    OBVIOUS
  <2> QED BY <1>2, <2>1 DEF DisputeRows
<1>4. /\ new.status = dispute[d].status /\ new.closedById = dispute[d].closedById
      /\ new.caseNumber = dispute[d].caseNumber
  BY <1>2 DEF DisputeRows
<1> HIDE DEF new
<1>5. DisputeInOrder(new)
  BY <1>1, <1>3, <1>4 DEF DisputeInOrder, IInv, ClosureIsRecorded
<1>6. RowsInOrder' /\ KycGrows /\ DisputesGrow
  BY <1>1, <1>4, <1>5, DisputeWritten
<1>7. \A x \in Disputes : dispute'[x].status = dispute[x].status
  BY <1>1, <1>4 DEF IInv, TrustTypeOK
<1>8. Marks(None)
  BY <1>1, <1>7 DEF Marks
<1> QED BY <1>1, <1>6, <1>8, NobodysStepKeeps

-----------------------------------------------------------------------------
(* The inductive invariant.                                                *)

LEMMA InitInOrder ==
  ASSUME Init
  PROVE  IInv
<1>1. /\ \A u \in Users : person[u] = [secureZoneId |-> 0, level |-> 0, trustScore |-> 0,
                                       status |-> "UNVERIFIED"]
      /\ \A k \in Submissions : kyc[k] = [status |-> "NONE", userId |-> None,
                                          submissionType |-> None, reviewedById |-> None]
      /\ \A d \in Disputes :
           dispute[d] = [status |-> "NONE", caseNumber |-> 0, openedById |-> None,
                         closedById |-> None, assignedAdminId |-> None, overdue |-> FALSE]
      /\ \A e \in Records : evidence[e] = [ownerUserId |-> None, uploadedById |-> None,
                                           organizationId |-> None]
      /\ \A r \in Requests : req[r] = Idle
  BY DEF Init
<1>2. person \in [Users -> PersonRows] /\ entitled \subseteq Users
  BY DEF Init, PersonRows
<1>3. kyc \in [Submissions -> KycRows] /\ evidence \in [Records -> EvidenceRows]
  BY DEF Init, KycRows, EvidenceRows
<1>4. dispute \in [Disputes -> DisputeRows]
  <2>1. FALSE \in BOOLEAN
    OBVIOUS
  <2> QED BY <2>1 DEF Init, DisputeRows
<1>5. settings \in [Organizations \cup {None} -> SUBSET Requirements]
  BY DEF Init
<1>6. VerificationIsBacked
  BY <1>1 DEF VerificationIsBacked, RankOf
<1>7. ClosureIsRecorded /\ EvidenceIsReadable
  BY <1>1 DEF ClosureIsRecorded, EvidenceIsReadable, terminalStatuses
<1>8. CasesInOrder
  <2>1. CaseNumbers = {}
    BY <1>1 DEF CaseNumbers
  <2>2. 0 \in Nat /\ 1..0 = {}
    OBVIOUS
  <2> QED BY <1>1, <2>1, <2>2 DEF CasesInOrder
<1>9. KycInOrder
  BY <1>1 DEF KycInOrder
<1>10. workload.actors \subseteq Users /\ req \in [Requests -> Jobs \cup {Idle}]
  BY GivenRows DEF Init
<1>11. \A r \in Requests : JobInOrder(r) /\ Fresh(r)
  BY <1>1, IdleIsNoJob DEF JobInOrder, Fresh
<1> QED BY <1>2, <1>3, <1>4, <1>5, <1>6, <1>7, <1>8, <1>9, <1>10, <1>11 DEF IInv, TrustTypeOK

LEMMA CallKeeps ==
  ASSUME IInv, NEW r \in Requests, NEW u \in Users, Call(r, u), UNCHANGED workload
  PROVE  IInv'
<1>1. CASE identityCall(r, u, "getIdentityMe", None) \/ identityCall(r, u, "createDispute", None)
  BY <1>1, IdentityCallKeeps
<1>2. CASE \E t \in SubmissionTypes : identityCall(r, u, "submitKyc", t)
  BY <1>2, IdentityCallKeeps
<1>3. CASE \E related \in Related : identityCall(r, u, "createEvidence", related)
  BY <1>3, IdentityCallKeeps
<1>4. CASE \E verified \in {"phone", "email"} : firebaseLogin(r, u, verified)
  BY <1>4, FirebaseLoginKeeps
<1>5. CASE \E k \in Submissions, status \in ReviewStatuses : reviewKyc(r, u, k, status)
  BY <1>5, ReviewKycKeeps
<1>6. CASE \E d \in Disputes :
             \/ addDisputeMessage(r, u, d)
             \/ \E status \in DisputeStatuses : updateDisputeStatus(r, u, d, status)
             \/ \E assignee \in Users : assignDispute(r, u, d, assignee)
             \/ escalateDispute(r, u, d)
  BY <1>6, DisputeCallsKeep
<1>7. CASE escalateOverdueDisputes(r, u)
  BY <1>7, SweepKeeps
<1>8. CASE \E requirement \in Switches, on \in BOOLEAN :
             updateEnforcementSettings(r, u, requirement, on)
  BY <1>8, SettingsCallKeeps
<1> QED BY <1>1, <1>2, <1>3, <1>4, <1>5, <1>6, <1>7, <1>8 DEF Call

LEMMA ContinueKeeps ==
  ASSUME IInv, NEW r \in Requests, Continue(r), UNCHANGED workload
  PROVE  IInv'
BY EnsureIdentityKeeps, EnsureEntitlementKeeps, SubmitKycKeeps, CommitReviewKeeps,
   CommitLoginKeeps, CreateEvidenceKeeps, CountCasesKeeps, CreateDisputeKeeps,
   CreateMessageKeeps, EscalateNextKeeps, UpsertKeeps, FailKeeps DEF Continue

LEMMA StutterKeeps ==
  ASSUME IInv, UNCHANGED vars
  PROVE  IInv'
<1>1. RowsInOrder' /\ KycGrows /\ DisputesGrow
  BY RowsStay DEF vars, IInv, TrustTypeOK
<1>2. Marks(None)
  BY DEF Marks, vars
<1> QED BY <1>1, <1>2, NobodysStepKeeps DEF vars

LEMMA NextKeeps ==
  ASSUME IInv, [Next]_vars
  PROVE  IInv'
<1>1. CASE UNCHANGED vars
  BY <1>1, StutterKeeps
<1>2. ASSUME NEW r \in Requests, Continue(r), UNCHANGED workload
      PROVE  IInv'
  BY <1>2, ContinueKeeps
<1>3. ASSUME NEW r \in Requests, NEW u \in workload.actors, Call(r, u), UNCHANGED workload
      PROVE  IInv'
  BY <1>3, CallKeeps DEF IInv
<1>4. ASSUME NEW u \in Users, changeEmail(u), UNCHANGED workload
      PROVE  IInv'
  BY <1>4, ChangeEmailKeeps
<1>5. ASSUME NEW d \in Disputes, DisputeAges(d), UNCHANGED workload
      PROVE  IInv'
  BY <1>5, DisputeAgesKeeps
<1> QED BY <1>1, <1>2, <1>3, <1>4, <1>5 DEF Next

LEMMA Invariance == Spec => []IInv
<1>1. Init => IInv
  BY InitInOrder
<1>2. IInv /\ [Next]_vars => IInv'
  BY NextKeeps
<1> QED BY <1>1, <1>2, PTL DEF Spec

\* Rows agree with what the handlers derive from them: columns keep their types, a terminal
\* dispute says who closed it, the next case number is free, and listEvidence and getEvidence
\* of trust.service.ts agree, whatever handlers overlap.
THEOREM TrustAlwaysInOrder == Spec => []TrustInv
<1>1. IInv => TrustInv
  BY CaseCount DEF IInv, TrustInv, NextCaseNumberIsFree
<1> QED BY <1>1, Invariance, PTL

\* A verification status is backed by the level, and a level above 2 by a reviewed submission
\* (reviewKyc, firebaseLogin and updateUser write both), whatever handlers overlap.
THEOREM VerificationAlwaysBacked == Spec => []VerificationIsBacked
<1>1. IInv => VerificationIsBacked
  BY DEF IInv
<1> QED BY <1>1, Invariance, PTL

-----------------------------------------------------------------------------
(* What a step may not take back.                                          *)

\* The steps that write the row of a user.
LEMMA WhoWritesPerson ==
  ASSUME [Next]_vars
  PROVE  \/ UNCHANGED person
         \/ \E r \in Requests : ensureIdentity(r) \/ commitReview(r) \/ commitLogin(r)
         \/ \E u \in Users : changeEmail(u)
<1>1. ASSUME NEW r \in Requests, NEW u, Call(r, u) PROVE UNCHANGED person
  BY <1>1 DEF Call, identityCall, firebaseLogin, reviewKyc, addDisputeMessage,
     updateDisputeStatus, assignDispute, escalateDispute, DisputeHandler,
     escalateOverdueDisputes, updateEnforcementSettings
<1>2. ASSUME NEW r \in Requests, Continue(r)
      PROVE  UNCHANGED person \/ ensureIdentity(r) \/ commitReview(r) \/ commitLogin(r)
  BY <1>2 DEF Continue, ensureEntitlement, submitKyc, createEvidence, countCases,
     createDispute, createMessage, escalateNext, upsertSettings, Fail
<1>3. ASSUME NEW d \in Disputes, DisputeAges(d) PROVE UNCHANGED person
  BY <1>3 DEF DisputeAges
<1> QED BY <1>1, <1>2, <1>3 DEF Next, vars

\* A user's level falls, or an identity number changes.
TakesBack(u) ==
  \/ person'[u].level < person[u].level
  \/ person[u].secureZoneId # 0 /\ person'[u].secureZoneId # person[u].secureZoneId

IdentityStep ==
  \A u \in Users :
    TakesBack(u) => \E r \in stale : req[r].row = {<<"person", u>>} /\ req'[r] # req[r]

LEMMA EnsureIdentityTakes ==
  ASSUME IInv, NEW r \in Requests, ensureIdentity(r), NEW u \in Users, TakesBack(u)
  PROVE  r \in stale /\ req[r].row = {<<"person", u>>} /\ req'[r] # req[r]
<1>1. req[r] \in IdentityJobs /\ req[r].at = "identity"
  <2>1. req[r] \in Jobs /\ req[r].at = "identity"
    BY DEF ensureIdentity, IInv
  <2> QED BY <2>1, KindOfJob
<1>2. person[u].level \in 0..6
  BY DEF IInv, TrustTypeOK, PersonRows
<1>3. /\ person' = [person EXCEPT ![req[r].by].secureZoneId = req[r].candidate]
      /\ req[r].candidate # 0
  BY <1>2 DEF ensureIdentity, TakesBack
<1>4. u = req[r].by /\ person[u].secureZoneId # 0
  BY <1>2, <1>3 DEF TakesBack, IInv, TrustTypeOK, PersonRows
<1>5. r \in stale /\ req[r].row = {<<"person", u>>}
  BY <1>1, <1>3, <1>4 DEF IInv, Fresh, JobInOrder
<1>6. req'[r] = AfterIdentity(req[r])
  BY DEF ensureIdentity, WroteThen, IInv
<1>7. AfterIdentity(req[r]) = Idle \/ AfterIdentity(req[r]).at \in {"entitlement", "act"}
  BY <1>1, AfterIdentityMoves DEF IInv
<1> QED BY <1>1, <1>5, <1>6, <1>7, IdleIsNoJob

LEMMA CommitReviewTakes ==
  ASSUME IInv, NEW r \in Requests, commitReview(r), NEW u \in Users, TakesBack(u)
  PROVE  r \in stale /\ req[r].row = {<<"person", u>>} /\ req'[r] # req[r]
<1>1. req[r] \in ReviewJobs /\ req[r] # Idle
  <2>1. req[r] \in Jobs /\ req[r].at = "review"
    BY DEF commitReview, IInv
  <2> QED BY <2>1, KindOfJob
<1>2. PICK k \in Submissions, read \in PersonRows : k = req[r].arg /\ read = req[r].read
  BY <1>1 DEF ReviewJobs
<1>3. PICK v : v = kyc[k].userId
  OBVIOUS
<1>4. v \in Users /\ req[r].row = {<<"person", v>>} /\ (r \notin stale => read = person[v])
  BY <1>1, <1>2, <1>3 DEF IInv, JobInOrder, KycInOrder, Fresh
<1>5. person[u] \in PersonRows /\ person[v] \in PersonRows /\ person[u].level \in Nat
  BY <1>4 DEF IInv, TrustTypeOK, PersonRows
<1> DEFINE new == applyVerificationFromKyc(person[v], read, kyc[k].submissionType)
<1>6. person' = person \/ person' = [person EXCEPT ![v] = new]
  BY <1>2, <1>3 DEF commitReview
<1>7. new.level >= read.level /\ new.secureZoneId = person[v].secureZoneId /\ new \in PersonRows
  BY <1>5, VerifiedRow
<1>8. new.level \in Nat /\ read.level \in Nat
  BY <1>7 DEF PersonRows
<1> HIDE DEF new
<1>9. u = v /\ person'[u] = new
  BY <1>4, <1>5, <1>6 DEF TakesBack, IInv, TrustTypeOK
<1>10. r \in stale
  BY <1>4, <1>5, <1>7, <1>8, <1>9 DEF TakesBack
<1>11. req'[r] = Idle
  BY DEF commitReview, Wrote, WroteThen, IInv
<1> QED BY <1>1, <1>4, <1>9, <1>10, <1>11

LEMMA CommitLoginTakes ==
  ASSUME IInv, NEW r \in Requests, commitLogin(r), NEW u \in Users, TakesBack(u)
  PROVE  r \in stale /\ req[r].row = {<<"person", u>>} /\ req'[r] # req[r]
<1>1. req[r] \in LoginJobs /\ req[r].at = "login"
  <2>1. req[r] \in Jobs /\ req[r].at = "login"
    BY DEF commitLogin, IInv
  <2> QED BY <2>1, KindOfJob
<1>2. PICK v \in Users, read \in PersonRows, verified \in {"phone", "email"} :
        v = req[r].by /\ read = req[r].read /\ verified = req[r].arg
  BY <1>1 DEF LoginJobs
<1>3. /\ req[r].row = {<<"person", v>>} /\ (r \notin stale => read = person[v])
      /\ RankOf(read.status) <= read.level
  BY <1>1, <1>2 DEF IInv, JobInOrder, Fresh, Backed
<1> DEFINE level == nextFirebaseIdentityLevel(read, verified)
           status == nextFirebaseIdentityStatus(read, verified)
<1>4. level \in 0..6 /\ level >= read.level
  BY <1>3, SignedInRow
<1>5. person' = [person EXCEPT ![v].status = status, ![v].level = level]
  BY <1>2 DEF commitLogin
<1> HIDE DEF level, status
<1>6. person[u].level \in 0..6 /\ read.level \in 0..6
  BY DEF IInv, TrustTypeOK, PersonRows
<1>7. /\ \A x \in Users \ {v} : person'[x] = person[x]
      /\ person'[v].level = level /\ person'[v].secureZoneId = person[v].secureZoneId
  BY <1>5 DEF IInv, TrustTypeOK, PersonRows
<1>8. u = v /\ level < person[u].level
  BY <1>6, <1>7 DEF TakesBack
<1>9. r \in stale
  BY <1>3, <1>4, <1>6, <1>8
<1>10. req'[r].at = "identity"
  BY DEF commitLogin, WroteThen, IdentityJob, IInv
<1> QED BY <1>1, <1>3, <1>8, <1>9, <1>10

LEMMA IdentityStepHolds ==
  ASSUME IInv, [Next]_vars
  PROVE  IdentityStep
<1> SUFFICES ASSUME NEW u \in Users, TakesBack(u)
             PROVE  \E r \in stale : req[r].row = {<<"person", u>>} /\ req'[r] # req[r]
  BY DEF IdentityStep
<1>0. person[u].level \in 0..6
  BY DEF IInv, TrustTypeOK, PersonRows
<1>1. ~UNCHANGED person
  BY <1>0 DEF TakesBack
<1>2. ~\E v \in Users : changeEmail(v)
  <2> SUFFICES ASSUME NEW v \in Users, changeEmail(v) PROVE FALSE
    OBVIOUS
  <2>1. person'[u].level = person[u].level /\ person'[u].secureZoneId = person[u].secureZoneId
    BY DEF changeEmail, IInv, TrustTypeOK, PersonRows
  <2> QED BY <1>0, <2>1 DEF TakesBack
<1>3. PICK r \in Requests : ensureIdentity(r) \/ commitReview(r) \/ commitLogin(r)
  BY <1>1, <1>2, WhoWritesPerson
<1> QED BY <1>3, EnsureIdentityTakes, CommitReviewTakes, CommitLoginTakes

\* A SecureZone ID stays and a level does not fall, unless the handler that writes the user
\* (ensureIdentity, reviewKyc, firebaseLogin) read it before another one wrote it.
THEOREM IdentityAlwaysStands == Spec => IdentityStands
<1>1. IInv /\ [Next]_vars => [IdentityStep]_vars
  BY IdentityStepHolds
<1>2. [][IdentityStep]_vars => IdentityStands
  BY PTL DEF IdentityStands, IdentityStep, TakesBack
<1> QED BY <1>1, <1>2, Invariance, PTL DEF Spec

SweepStep ==
  \A r \in Requests, d \in Disputes :
    /\ req[r].op = "escalateOverdueDisputes" /\ req'[r] # req[r]
    /\ dispute[d].status \in terminalStatuses /\ dispute'[d].status = "ESCALATED"
    => r \in stale

LEMMA SweepStepHolds ==
  ASSUME IInv, [Next]_vars
  PROVE  SweepStep
<1> SUFFICES ASSUME NEW r \in Requests, NEW d \in Disputes,
                    req[r].op = "escalateOverdueDisputes", req'[r] # req[r],
                    dispute[d].status \in terminalStatuses, dispute'[d].status = "ESCALATED"
             PROVE  r \in stale
  BY DEF SweepStep
<1>1. req[r] # Idle /\ dispute' # dispute
  BY DEF Idle, terminalStatuses
<1>2. req[r] \in MessageJobs
  BY <1>1 DEF IInv, Jobs, IdentityJobs, ReviewJobs, LoginJobs, UpsertJobs
<1>3. ASSUME NEW q \in Requests, NEW u, Call(q, u) PROVE FALSE
  <2>1. req[q] = Idle /\ \A p \in Requests \ {q} : req'[p] = req[p]
    BY <1>3 DEF IInv, Call, identityCall, firebaseLogin, reviewKyc, addDisputeMessage,
       updateDisputeStatus, assignDispute, escalateDispute, DisputeHandler,
       escalateOverdueDisputes, updateEnforcementSettings, Start
  <2> QED BY <1>1, <2>1
<1>4. ASSUME NEW q \in Requests, Continue(q)
      PROVE  \/ \E x \in Disputes : escalateNext(q, x)
             \/ \E x \in Disputes, overdue \in BOOLEAN : createDispute(q, x, overdue)
  BY <1>1, <1>4 DEF Continue, ensureIdentity, ensureEntitlement, submitKyc, commitReview,
     commitLogin, createEvidence, countCases, createMessage, upsertSettings, Fail
<1>5. ASSUME NEW q \in Requests, NEW x \in Disputes, NEW overdue \in BOOLEAN,
             createDispute(q, x, overdue)
      PROVE  FALSE
  <2>1. dispute[x].status = "NONE" /\ \A y \in Disputes \ {x} : dispute'[y] = dispute[y]
    BY <1>5 DEF createDispute, IInv, TrustTypeOK
  <2> QED BY <2>1 DEF terminalStatuses
<1>6. ASSUME NEW q \in Requests, NEW x \in Disputes, escalateNext(q, x)
      PROVE  r \in stale
  <2>1. /\ \A p \in Requests \ {q} : req'[p] = req[p]
        /\ \A y \in Disputes \ {x} : dispute'[y] = dispute[y] /\ x \in req[q].todo
    BY <1>6 DEF escalateNext, IInv, TrustTypeOK
  <2>2. q = r /\ x = d
    BY <2>1 DEF terminalStatuses
  <2>3. d \in req[r].todo
    BY <1>6, <2>2 DEF escalateNext
  <2> QED BY <1>2, <2>3 DEF IInv, Fresh
<1>7. ASSUME NEW u \in Users, changeEmail(u) PROVE FALSE
  BY <1>1, <1>7 DEF changeEmail
<1>8. ASSUME NEW x \in Disputes, DisputeAges(x) PROVE FALSE
  BY <1>8 DEF DisputeAges
<1> QED BY <1>1, <1>3, <1>4, <1>5, <1>6, <1>7, <1>8 DEF Next, vars

\* escalateOverdueDisputes reopens a closed dispute only when it was closed after the sweep
\* listed it.
THEOREM SweepAlwaysSparesClosed == Spec => SweepSparesClosed
<1>1. IInv /\ [Next]_vars => [SweepStep]_vars
  BY SweepStepHolds
<1>2. [][SweepStep]_vars => SweepSparesClosed
  BY PTL DEF SweepSparesClosed, SweepStep
<1> QED BY <1>1, <1>2, Invariance, PTL DEF Spec

=============================================================================
