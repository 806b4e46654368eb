----------------------------- MODULE ReportIntake -----------------------------
(***************************************************************************)
(* Intake of reports and their evidence (report.service.ts): creation with *)
(* the monthly quota and the routing decision of Responsibility, uploads   *)
(* of images to the disk and to evidence records, and the assessment of    *)
(* where an image was taken (geo-trust.service.ts).                        *)
(*                                                                         *)
(* A handler reads and checks in its first step; every later step is one   *)
(* write, to the database or to the disk.  stale is a history variable:    *)
(* the creations that resolved before an organization was edited.          *)
(***************************************************************************)
EXTENDS Responsibility

CONSTANTS Organizations, Reports, Requests, Files,
          Elsewhere,      \* a path that is not in the directory of the report
          Profiles,       \* profiles that an organization may have
          Drafts,         \* what citizens report: [category, text, position]
          Owners,         \* the organizations that own assets
          allowedReportsPerMonth, \* of every organization, or None
          evidenceLimitFor,       \* limit of each kind of evidence (5 and 10)
          MaxBatch,       \* bound on the images of one upload
          maxAccuracyMeters, warningDistanceMeters, conflictDistanceMeters,
          Workloads       \* [ops, profiles, drafts, images, names, maxCalls]: what is enumerated
                          \* together; an image is its [position, accuracy, exif, outdated, source],
                          \* names are what clients name as the image of a completion

ASSUME LimitsAreNumbers ==
  /\ Reports \subseteq Nat /\ Files \subseteq Nat
  /\ allowedReportsPerMonth \in Nat \cup {None} /\ MaxBatch \in Nat
  /\ evidenceLimitFor \in [{"report-evidence", "report-completion"} -> Nat]

ASSUME GivenActors ==
  /\ IsFiniteSet(Organizations) /\ None \notin Organizations
  /\ IsFiniteSet(Requests) /\ Requests # {}

ASSUME NoneIsNoNumber == None \notin Nat

\* Zones are listed, and places and distances are numbers.
ASSUME GivenInputs ==
  /\ {warningDistanceMeters, conflictDistanceMeters} \subseteq Nat
  /\ \A p \in Profiles : DOMAIN p.zones \subseteq Nat
  /\ \A dto \in Drafts : dto.position \in Nat \cup {None}
  /\ \A w \in Workloads :
       /\ w.profiles \subseteq Profiles /\ w.drafts \subseteq Drafts
       /\ w.names \subseteq Files \cup {None, Elsewhere}
       /\ \A image \in w.images : /\ image.accuracy \in Nat
                                 /\ {image.position, image.exif} \subseteq Nat \cup {None}

VARIABLES profile,   \* the organizations
          report, record, files,
          req, stale, calls, workload

vars == <<profile, report, record, files, req, stale, calls, workload>>

Kinds == {"report-evidence", "report-completion"}

Idle == [op |-> "idle"]

\* thisMonth: createdAt >= the first of the month.  image: the image columns of each kind.
\* named is a history column: the completion image that the last updateStatus named.
ReportRows ==
  [status: {"NONE", "TRIAGE", "ORG_REVIEW", "IN_PROGRESS"},
   organizationId: Organizations \cup {None}, assignedOrganizationId: Organizations \cup {None},
   thisMonth: BOOLEAN, position: Nat \cup {None},
   image: [Kinds -> Files \cup {None, Elsewhere}], named: Files \cup {None, Elsewhere}]

-----------------------------------------------------------------------------
(* Where an image was taken.  Positions are points of a line.              *)

distanceMeters(a, b) == IF a < b THEN b - a ELSE a - b

\* Mutant: an image exactly at the threshold is suspected.
warningsAtThreshold(input, position, accuracy) ==
  {w \in {"CAPTURE_TIME_DISTANT_FROM_UPLOAD", "DISTANCE_EXCEEDS_THRESHOLD"} :
     IF w = "CAPTURE_TIME_DISTANT_FROM_UPLOAD" THEN input.outdated
     ELSE /\ input.position # None /\ position # None
          /\ distanceMeters(input.position, position)
               >= warningDistanceMeters + input.accuracy + accuracy}

\* capturedAt further from now than staleCaptureMinutes is outdated.
warnings(input, position, accuracy) ==
  {w \in {"LOW_LOCATION_ACCURACY", "CAPTURE_TIME_DISTANT_FROM_UPLOAD",
          "DEVICE_AND_EXIF_LOCATION_CONFLICT", "DISTANCE_EXCEEDS_THRESHOLD"} :
     CASE w = "LOW_LOCATION_ACCURACY" -> input.accuracy > warningDistanceMeters
       [] w = "CAPTURE_TIME_DISTANT_FROM_UPLOAD" -> input.outdated
       [] w = "DEVICE_AND_EXIF_LOCATION_CONFLICT" ->
            /\ input.exif # None /\ input.position # None
            /\ distanceMeters(input.position, input.exif) > conflictDistanceMeters
       [] OTHER ->
            /\ input.position # None /\ position # None
            /\ distanceMeters(input.position, position)
                 > warningDistanceMeters + input.accuracy + accuracy}

\* The trust outcome of an image against the position of the report, which was reported
\* with an accuracy of 0.
assessCompletion(input, position) ==
  CASE input.source = "LEGACY" -> "LEGACY_UNASSESSED"
    [] input.source # "LEGACY" /\ (position = None \/ input.position = None) ->
         "INSUFFICIENT_LOCATION_DATA"
    [] OTHER -> IF warnings(input, position, 0) # {} THEN "REVIEW_RECOMMENDED" ELSE "CONSISTENT"

-----------------------------------------------------------------------------
(* Creation.                                                               *)

ReportsThisMonth(o) ==
  {r \in Reports : report[r].status # "NONE" /\ report[r].organizationId = o /\ report[r].thisMonth}

enforceMonthlyReportQuota(o) ==
  allowedReportsPerMonth # None => Cardinality(ReportsThisMonth(o)) < allowedReportsPerMonth

Start(r, op, job) ==
  /\ op \in workload.ops /\ req[r] = Idle /\ calls < workload.maxCalls
  /\ req' = [req EXCEPT ![r] = job]
  /\ calls' = calls + 1
  /\ stale' = stale \ {r}
  /\ UNCHANGED <<profile, report, record, files, workload>>

\* o is the organization of the citizen.
createReport(r, o, dto) ==
  /\ enforceMonthlyReportQuota(o)
  /\ Start(r, "createReport",
           [op |-> "createReport", organizationId |-> o, dto |-> dto,
            route |-> resolveReportResponsibility(profile, Owners, dto)])

insertReport(r, new) ==
  LET job == req[r]  routed == job.route.organization IN
  /\ job.op = "createReport" /\ report[new].status = "NONE"
  /\ \A id \in Reports : id < new => report[id].status # "NONE"
  /\ report' = [report EXCEPT ![new] =
       [status |-> IF routed # None THEN "ORG_REVIEW" ELSE "TRIAGE",
        organizationId |-> job.organizationId, assignedOrganizationId |-> routed,
        thisMonth |-> TRUE, position |-> job.dto.position,
        image |-> [kind \in Kinds |-> None], named |-> None]]
  /\ req' = [req EXCEPT ![r] = Idle]
  /\ UNCHANGED <<profile, record, files, stale, calls, workload>>

-----------------------------------------------------------------------------
(* Uploads.                                                                *)

RecordsOf(id, kind) == {e \in record : e.report = id /\ e.kind = kind}

\* Mutant: the incoming images are not counted.
assertStoredLimit(id, kind, incomingCount) ==
  incomingCount >= 1 /\ Cardinality(RecordsOf(id, kind)) <= evidenceLimitFor[kind]

assertEvidenceLimit(id, kind, incomingCount) ==
  /\ incomingCount >= 1
  /\ Cardinality(RecordsOf(id, kind)) + incomingCount <= evidenceLimitFor[kind]

\* The handler of an upload, before its loop over the images.
Uploading(r, id, kind, images) ==
  /\ assertEvidenceLimit(id, kind, Len(images))
  /\ Start(r, kind,
           [op |-> "upload", report |-> id, kind |-> kind, images |-> images, saved |-> <<>>,
            unpersisted |-> None, position |-> report[id].position,
            firstImage |-> report[id].image[kind] = None])

\* By the citizen of the report.
uploadReportEvidence(r, id, images) ==
  report[id].status # "NONE" /\ Uploading(r, id, "report-evidence", images)

\* By its provider.
uploadCompletionEvidence(r, id, images) ==
  report[id].status = "IN_PROGRESS" /\ Uploading(r, id, "report-completion", images)

\* The metadata of a completion image is refused inside the loop: earlier images stay.
Refused(job) ==
  job.kind = "report-completion" /\ Head(job.images).accuracy > maxAccuracyMeters

UsedNames ==
  files \cup {e.file : e \in record}
    \cup {req[q].unpersisted : q \in {q \in Requests : req[q].op = "upload"}}

\* f: a fresh name.
saveBase64Image(r, f) ==
  LET job == req[r] IN
  /\ job.op = "upload" /\ job.images # <<>> /\ job.unpersisted = None /\ ~Refused(job)
  /\ f \notin UsedNames /\ \A g \in Files \ UsedNames : f <= g
  /\ files' = files \cup {f}
  /\ req' = [req EXCEPT ![r].unpersisted = f]
  /\ UNCHANGED <<profile, report, record, stale, calls, workload>>

createEvidenceRecord(r) ==
  LET job == req[r]  geo == Head(job.images) IN
  /\ job.op = "upload" /\ job.unpersisted # None
  /\ record' = record \cup {[report |-> job.report, kind |-> job.kind, file |-> job.unpersisted,
                             geo |-> geo,
                             trust |-> IF job.kind = "report-completion"
                                       THEN assessCompletion(geo, job.position)
                                       ELSE None]}
  /\ req' = [req EXCEPT ![r].unpersisted = None, ![r].images = Tail(@),
                        ![r].saved = Append(@, job.unpersisted)]
  /\ UNCHANGED <<profile, report, files, stale, calls, workload>>

\* Mutant: all files of the upload are removed.
cleanupUploadedFiles(r) ==
  LET job == req[r] IN
  /\ job.op = "upload" /\ job.images # <<>>
  /\ files' = files \ ({job.unpersisted} \cup {job.saved[i] : i \in DOMAIN job.saved})
  /\ req' = [req EXCEPT ![r] = Idle]
  /\ UNCHANGED <<profile, report, record, stale, calls, workload>>

\* An error in the loop: the file without a record is removed, unless that fails too.
cleanupUnpersistedEvidenceFiles(r) ==
  LET job == req[r] IN
  /\ job.op = "upload" /\ job.images # <<>>
  /\ files' \in {files, files \ {job.unpersisted}}
  /\ req' = [req EXCEPT ![r] = Idle]
  /\ UNCHANGED <<profile, report, record, stale, calls, workload>>

\* The first image of an upload to a report that had none when the upload began.
setFirstImage(r) ==
  LET job == req[r] IN
  /\ job.op = "upload" /\ job.images = <<>>
  /\ report' = IF job.firstImage
               THEN [report EXCEPT ![job.report].image[job.kind] = Head(job.saved)]
               ELSE report
  /\ req' = [req EXCEPT ![r] = Idle]
  /\ UNCHANGED <<profile, record, files, stale, calls, workload>>

\* The provider reports the work as done and may name its image: any text that has the form of
\* a path of an upload, or an external address, is taken for the completion evidence.
updateStatus(r, id, named) ==
  /\ report[id].status = "IN_PROGRESS"
  /\ named # None \/ RecordsOf(id, "report-completion") # {}
  /\ Start(r, "complete", [op |-> "complete", report |-> id, named |-> named])

\* What was named replaces the image of the report, None included; nothing looks for the file.
completeReport(r) ==
  LET job == req[r] IN
  /\ job.op = "complete"
  /\ report' = [report EXCEPT ![job.report].status = "TRIAGE",
                               ![job.report].image["report-completion"] = job.named,
                               ![job.report].named = job.named]
  /\ req' = [req EXCEPT ![r] = Idle]
  /\ UNCHANGED <<profile, record, files, stale, calls, workload>>

\* A restart of the process, or a database error outside the loop.
Crash(r) ==
  /\ req[r] # Idle
  /\ req' = [req EXCEPT ![r] = Idle]
  /\ UNCHANGED <<profile, report, record, files, stale, calls, workload>>

\* What openEvidenceFile looks for on the disk: the image column, if it is a path of this report
\* and kind, and the records of that kind.
reportHasEvidencePath(id, kind, f) ==
  report[id].image[kind] = f \/ \E e \in RecordsOf(id, kind) : e.file = f

-----------------------------------------------------------------------------
(* What happens elsewhere.                                                 *)

\* An administrator edits an organization.
EditOrganization(o) ==
  /\ "edit" \in workload.ops /\ calls < workload.maxCalls
  /\ calls' = calls + 1
  /\ \E p \in workload.profiles \ {profile[o]} : profile' = [profile EXCEPT ![o] = p]
  /\ stale' = {r \in Requests : req[r].op = "createReport"}
  /\ UNCHANGED <<report, record, files, req, workload>>

\* The dispatch workflow starts the work on a report, or takes it from its provider; TRIAGE
\* stands for every status in which nobody works on it.
StatusMoves(id) ==
  /\ "report-completion" \in workload.ops /\ report[id].status # "NONE"
  /\ report' = [report EXCEPT ![id].status =
                  IF @ = "IN_PROGRESS" THEN "TRIAGE" ELSE "IN_PROGRESS"]
  /\ UNCHANGED <<profile, record, files, req, stale, calls, workload>>

MonthEnds ==
  /\ \E r \in Reports : report[r].thisMonth
  /\ report' = [r \in Reports |-> [report[r] EXCEPT !.thisMonth = FALSE]]
  /\ UNCHANGED <<profile, record, files, req, stale, calls, workload>>

-----------------------------------------------------------------------------
Init ==
  /\ workload \in Workloads
  /\ profile \in [Organizations -> workload.profiles]
  /\ report = [r \in Reports |-> [status |-> "NONE", organizationId |-> None,
                                  assignedOrganizationId |-> None, thisMonth |-> FALSE,
                                  position |-> None, image |-> [kind \in Kinds |-> None],
                                  named |-> None]]
  /\ record = {} /\ files = {}
  /\ req = [r \in Requests |-> Idle] /\ stale = {} /\ calls = 0

Uploads == UNION {[1..n -> workload.images] : n \in 1..MaxBatch}

Next ==
  \/ \E r \in Requests :
       \/ \E o \in Organizations, dto \in workload.drafts : createReport(r, o, dto)
       \/ \E id \in Reports, images \in Uploads :
            uploadReportEvidence(r, id, images) \/ uploadCompletionEvidence(r, id, images)
       \/ \E id \in Reports, named \in workload.names : updateStatus(r, id, named)
       \/ completeReport(r)
       \/ \E new \in Reports : insertReport(r, new)
       \/ \E f \in Files : saveBase64Image(r, f)
       \/ createEvidenceRecord(r) \/ cleanupUnpersistedEvidenceFiles(r)
       \/ setFirstImage(r) \/ Crash(r)
  \/ \E o \in Organizations : EditOrganization(o)
  \/ \E id \in Reports : StatusMoves(id)
  \/ MonthEnds

Spec == Init /\ [][Next]_vars

-----------------------------------------------------------------------------
(* Properties.                                                             *)

\* Columns keep their types.
IntakeTypeOK ==
  /\ profile \in [Organizations -> Profiles] /\ report \in [Reports -> ReportRows]
  /\ files \subseteq Files

\* A report is routed to an organization exactly when that organization takes such reports,
\* nobody excludes them, and it is the only one that takes them or the only one of the
\* owners that does; unless an organization was edited between resolution and insertion.
RoutedToTheOne ==
  [][\A new \in Reports, r \in Requests :
       report[new].status = "NONE" /\ report'[new].status # "NONE" /\ req'[r] # req[r] /\ r \notin stale
       => LET dto == req[r].dto
              takers == {o \in Organizations : Takes(profile[o], dto)}
              excluding == {o \in Organizations :
                              /\ profile[o].status = "ACTIVE"
                              /\ \E c \in profile[o].excludedCategories :
                                   categoriesCompatible(c, dto.category)}
          IN \A o \in Organizations :
               report'[new].assignedOrganizationId = o <=>
                 /\ dto.category # None /\ excluding = {}
                 /\ takers = {o} \/ takers \cap Owners = {o}]_vars

\* The monthly quota is exceeded only by creations that were in flight together, at most by
\* one less than there are handlers.
QuotaOverrun ==
  allowedReportsPerMonth # None =>
    \A o \in Organizations :
      Cardinality(ReportsThisMonth(o)) < allowedReportsPerMonth + Cardinality(Requests)

\* So is the limit of evidence images of a report, at most by what the other handlers upload.
EvidenceOverrun ==
  \A id \in Reports, kind \in Kinds :
    Cardinality(RecordsOf(id, kind))
      <= evidenceLimitFor[kind] + MaxBatch * (Cardinality(Requests) - 1)

\* Every image that a report offers is on the disk and in one of its evidence records, whatever
\* uploads failed, overlapped or were cleaned up; except the completion image that the last
\* updateStatus took from its client, which nothing checks (openEvidenceFile then finds no file).
OfferedImageIsStored ==
  \A id \in Reports, kind \in Kinds, f \in Files :
    reportHasEvidencePath(id, kind, f) =>
      \/ f \in files /\ \E e \in RecordsOf(id, kind) : e.file = f
      \/ kind = "report-completion" /\ f = report[id].named

\* A completion image is called consistent only if it and the report have positions no
\* further apart than the threshold and both accuracies allow, it was taken recently, and
\* its EXIF position agrees; a review is recommended exactly when one of these fails.
TrustIsEarned ==
  \A e \in record :
    e.kind = "report-completion" =>
      LET position == report[e.report].position
          near == distanceMeters(e.geo.position, position) <= warningDistanceMeters + e.geo.accuracy
          sound == /\ near /\ ~e.geo.outdated /\ e.geo.accuracy <= warningDistanceMeters
                   /\ e.geo.exif # None =>
                        distanceMeters(e.geo.position, e.geo.exif) <= conflictDistanceMeters
          comparable == e.geo.source # "LEGACY" /\ e.geo.position # None /\ position # None
      IN /\ e.trust = "CONSISTENT" <=> comparable /\ sound
         /\ e.trust = "REVIEW_RECOMMENDED" <=> comparable /\ ~sound

\* Types, and both limits: what is counted before it is inserted (enforceMonthlyReportQuota,
\* assertEvidenceLimit) exceeds its limit only by what is in flight together.
IntakeInv == IntakeTypeOK /\ QuotaOverrun /\ EvidenceOverrun

=============================================================================
