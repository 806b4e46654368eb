------------------------ MODULE ReportWorkflowProofs ------------------------
(***************************************************************************)
(* Theorems about the report service for every set of reports, requests,   *)
(* organizations and providers, and every workload.                        *)
(*                                                                         *)
(* The invariant of concurrent service is LedgerInv: rows and pending      *)
(* writes are well typed, the assignment columns of every row agree, and   *)
(* every pending write keeps them in agreement whatever row it meets.  The *)
(* last part is what a handler's check cannot give, since the row may have *)
(* changed by the time of the write.  A write that finalizes a report for  *)
(* the deadline processor must moreover insist, in its `where', on the     *)
(* status of a report in review.                                           *)
(*                                                                         *)
(* With one request at a time (Serial) a pending write also fits the row   *)
(* that it is going to meet.  That invariant, SerialFits, gives the action *)
(* properties of serial service and the refinement of ReportCustody.       *)
(***************************************************************************)
EXTENDS ReportWorkflow, TLAPS

\* The patch is the deadline processor's.
Finalizes(data) ==
    /\ "completionFinalizedByRole" \in DOMAIN data
    /\ data.completionFinalizedByRole = "PROCESSOR"

Guarded(w) == Finalizes(w.data) => w.where = "COMPLETED_BY_PROVIDER"

FallbacksGuarded == \A c \in Requests : \A w \in req[c].writes : Guarded(w)

LedgerInv ==
    /\ TypeOK
    /\ DispatchLedger
    /\ PendingKeepsLedger
    /\ FallbacksGuarded

-----------------------------------------------------------------------------
(* Rows and patches *)

\* Writing well-typed columns into a well-typed row leaves a well-typed row.
LEMMA PatchedIsRow ==
    ASSUME NEW row, NEW data, IsRow(row), IsPatch(data)
    PROVE  IsRow(Patched(row, data))
BY DEF IsRow, IsPatch, Patched

\* A patch that sets the assignment columns together keeps their agreement
\* in any row it is applied to.
LEMMA PatchedKeepsLedger ==
    ASSUME NEW row, NEW data, IsRow(row), IsPatch(data),
           LedgerAgrees(row), KeepsLedger(data)
    PROVE  LedgerAgrees(Patched(row, data))
<1>1. {"assignedProviderId", "assignmentDeadlineAt", "lastAssignmentOutcome",
       "lastAssignmentProviderId"} \subseteq Columns
  BY DEF Columns, ColumnType
<1> QED
  BY <1>1, NullIsNoValue DEF Patched, LedgerAgrees, KeepsLedger

\* The parts of a request's record, and of a write's.
LEMMA RecordFields ==
    /\ \A r, where, data :
         /\ Write(r, where, data).id = r
         /\ Write(r, where, data).where = where
         /\ Write(r, where, data).data = data
    /\ Idle.then = "RETURN" /\ Idle.writes = {}
    /\ {"then", "writes"} \subseteq DOMAIN Idle
BY DEF Write, Idle

-----------------------------------------------------------------------------
(* Steps of a request *)

\* A write whose columns are well typed and complete for the ledger, and
\* whose `where' guards a finalization.
SoundWrite(w) == WriteOK(w) /\ KeepsLedger(w.data) /\ Guarded(w)

\* A request may go on to any record with sound writes and a continuation
\* that has what it needs: the invariant survives.
LEMMA RequestStep ==
    ASSUME LedgerInv, NEW c \in Requests, NEW q,
           req' = [req EXCEPT ![c] = q], UNCHANGED report,
           DOMAIN q = DOMAIN Idle, q.then \in Continuations,
           q.then = "ASSIGN" => q.id \in DOMAIN report /\ q.provider \in Providers,
           \A w \in q.writes : SoundWrite(w)
    PROVE  LedgerInv'
<1> USE DEF LedgerInv
<1>1. req'[c] = q /\ \A d \in Requests \ {c} : req'[d] = req[d]
  BY DEF TypeOK
<1>2. TypeOK'
  BY <1>1 DEF TypeOK, RequestOK, WriteOK, SoundWrite
<1>3. DispatchLedger'
  BY DEF DispatchLedger, Exists
<1>4. PendingKeepsLedger'
  BY <1>1 DEF PendingKeepsLedger, SoundWrite
<1>5. FallbacksGuarded'
  BY <1>1 DEF FallbacksGuarded, SoundWrite, Guarded, Finalizes
<1> QED BY <1>2, <1>3, <1>4, <1>5

\* A handler that starts with sound writes keeps the invariant.
LEMMA ServeStep ==
    ASSUME LedgerInv, NEW c \in Requests, NEW op, NEW writes,
           NEW then \in Continuations, NEW user, NEW id, NEW provider,
           Serve(c, op, writes, then, user, id, provider),
           then = "ASSIGN" => id \in DOMAIN report /\ provider \in Providers,
           \A w \in writes : SoundWrite(w)
    PROVE  LedgerInv'
<1> DEFINE q == [op |-> op, writes |-> writes, then |-> then,
                 user |-> user, id |-> id, provider |-> provider]
<1>1. /\ req' = [req EXCEPT ![c] = q]
      /\ UNCHANGED report
  BY DEF Serve
<1>2. /\ q.then = then /\ q.writes = writes
      /\ q.id = id /\ q.provider = provider
      /\ DOMAIN q = DOMAIN Idle
  BY DEF Idle
<1> HIDE DEF q
<1> QED
  BY <1>1, <1>2, RequestStep

\* The usual handler: one unconditional update with a sound patch.
LEMMA UpdateStep ==
    ASSUME LedgerInv, NEW c \in Requests, NEW op, NEW r \in DOMAIN report,
           NEW data, IsPatch(data), KeepsLedger(data), ~Finalizes(data),
           Update(c, op, r, data)
    PROVE  LedgerInv'
<1>1. SoundWrite(Write(r, Null, data))
  BY RecordFields DEF SoundWrite, WriteOK, Guarded
<1> QED
  BY <1>1, ServeStep DEF Update, Continuations

\* An idle request is sound.
LEMMA IdleStep ==
    ASSUME LedgerInv, NEW c \in Requests,
           req' = [req EXCEPT ![c] = Idle], UNCHANGED report
    PROVE  LedgerInv'
BY RequestStep, RecordFields DEF Continuations

\* Applying a pending write to the row, as it is by then, keeps the
\* invariant: the write is well typed and complete.
LEMMA CommitStep ==
    ASSUME LedgerInv, NEW c \in Requests, CommitWrite(c)
    PROVE  LedgerInv'
<1> USE DEF LedgerInv
<1>1. PICK w \in req[c].writes :
        /\ report' = [report EXCEPT ![w.id] = Patched(@, w.data)]
        /\ req' = [req EXCEPT ![c] = After(c, w)]
  BY DEF CommitWrite
<1>2. /\ w.id \in DOMAIN report
      /\ IsPatch(w.data)
      /\ KeepsLedger(w.data)
  BY DEF TypeOK, RequestOK, WriteOK, PendingKeepsLedger
<1>3. /\ DOMAIN report' = DOMAIN report
      /\ report'[w.id] = Patched(report[w.id], w.data)
      /\ \A r \in DOMAIN report \ {w.id} : report'[r] = report[r]
      /\ report' = [r \in DOMAIN report' |-> report'[r]]
  BY <1>1, <1>2 DEF TypeOK
<1>4. \A r \in DOMAIN report' : IsRow(report'[r])
  BY <1>2, <1>3, PatchedIsRow DEF TypeOK
<1>5. /\ After(c, w).then \in {"RETURN", req[c].then}
      /\ After(c, w).writes \subseteq req[c].writes
      /\ DOMAIN After(c, w) = DOMAIN Idle
      /\ After(c, w).then = "ASSIGN" =>
           /\ req[c].then = "ASSIGN"
           /\ After(c, w).id = req[c].id
           /\ After(c, w).provider = req[c].provider
  BY RecordFields DEF After, TypeOK, RequestOK
<1>6. req'[c] = After(c, w) /\ \A d \in Requests \ {c} : req'[d] = req[d]
  BY <1>1 DEF TypeOK
<1>7. \A d \in Requests : RequestOK(req[d])'
  BY <1>3, <1>5, <1>6 DEF TypeOK, RequestOK, WriteOK, Continuations
<1>8. TypeOK'
  BY <1>1, <1>3, <1>4, <1>7 DEF TypeOK
<1>9. DispatchLedger'
  <2>1. LedgerAgrees(Patched(report[w.id], w.data))
    BY <1>2, PatchedKeepsLedger DEF TypeOK, DispatchLedger, Exists
  <2> QED
    BY <2>1, <1>3 DEF DispatchLedger, Exists
<1>10. PendingKeepsLedger'
  BY <1>5, <1>6 DEF PendingKeepsLedger
<1>11. FallbacksGuarded'
  BY <1>5, <1>6 DEF FallbacksGuarded, Guarded, Finalizes
<1> QED BY <1>8, <1>9, <1>10, <1>11

-----------------------------------------------------------------------------
(* The patches the handlers write *)

\* A patch the invariant allows a handler to write.
SoundPatch(data) == IsPatch(data) /\ KeepsLedger(data) /\ ~Finalizes(data)

\* The columns of a well-typed row hold values of their types.
LEMMA RowValues ==
    ASSUME NEW row, IsRow(row)
    PROVE  /\ row.status \in Statuses
           /\ row.organizationId \in Organizations
           /\ row.assignedOrganizationId \in Organizations \cup {Null}
           /\ row.assignedProviderId \in Providers \cup {Null}
           /\ row.completionPolicy \in CompletionPolicies \cup {Null}
BY DEF IsRow, Columns, ColumnType

\* Assigning writes provider, deadline and outcome columns together.
LEMMA AssignmentPatch ==
    ASSUME NEW p \in Providers
    PROVE  SoundPatch(AssignmentData(p))
<1>1. IsPatch(AssignmentData(p))
  BY DEF IsPatch, AssignmentData, Columns, ColumnType, Statuses, DeadlineMarks
<1>2. KeepsLedger(AssignmentData(p))
  BY NullIsNoValue DEF KeepsLedger, AssignmentData, DeadlineMarks
<1>3. ~Finalizes(AssignmentData(p))
  BY DEF Finalizes, AssignmentData
<1> QED BY <1>1, <1>2, <1>3 DEF SoundPatch

\* So do the three ways an assignment ends; a time-out names its provider.
LEMMA UnassignmentPatch ==
    ASSUME NEW p \in Providers, NEW outcome \in {"REJECTED", "TIMED_OUT"}
    PROVE  SoundPatch(UnassignmentData(p, outcome))
<1>1. IsPatch(UnassignmentData(p, outcome))
  BY DEF IsPatch, UnassignmentData, Columns, ColumnType, Statuses
<1>2. KeepsLedger(UnassignmentData(p, outcome))
  BY NullIsNoValue DEF KeepsLedger, UnassignmentData
<1>3. ~Finalizes(UnassignmentData(p, outcome))
  BY DEF Finalizes, UnassignmentData
<1> QED BY <1>1, <1>2, <1>3 DEF SoundPatch

\* The three routing patches clear outcomes, never invent them.
LEMMA RoutingPatches ==
    ASSUME NEW row, IsRow(row), NEW org \in Organizations,
           NEW establish \in BOOLEAN
    PROVE  /\ SoundPatch(RoutingData(row, org, establish))
           /\ SoundPatch(AcceptanceData(row, org))
           /\ SoundPatch(RejectionData(row))
<1>1. IsPatch(RoutingData(row, org, establish))
  BY RowValues DEF IsPatch, RoutingData, Columns, ColumnType, Statuses
<1>2. KeepsLedger(RoutingData(row, org, establish))
  BY NullIsNoValue DEF KeepsLedger, RoutingData
<1>3. IsPatch(AcceptanceData(row, org))
  BY RowValues DEF IsPatch, AcceptanceData, Columns, ColumnType, Statuses
<1>4. KeepsLedger(AcceptanceData(row, org))
  BY NullIsNoValue DEF KeepsLedger, AcceptanceData
<1>5. IsPatch(RejectionData(row))
  BY RowValues DEF IsPatch, RejectionData, Columns, ColumnType, Statuses
<1>6. KeepsLedger(RejectionData(row))
  BY NullIsNoValue DEF KeepsLedger, RejectionData
<1>7. /\ ~Finalizes(RoutingData(row, org, establish))
      /\ ~Finalizes(AcceptanceData(row, org))
      /\ ~Finalizes(RejectionData(row))
  BY DEF Finalizes, RoutingData, AcceptanceData, RejectionData
<1> QED BY <1>1, <1>2, <1>3, <1>4, <1>5, <1>6, <1>7 DEF SoundPatch

\* reviewStateFor computes a review state.
LEMMA ReviewStateType ==
    ASSUME NEW policy, NEW citizen, NEW organization
    PROVE  reviewStateFor(policy, citizen, organization) \in ReviewStates
BY DEF reviewStateFor, ReviewStates

\* A patch of review columns, and of the status, leaves the ledger alone.
LEMMA ReviewPatch ==
    ASSUME NEW data, IsPatch(data), ~Finalizes(data),
           {"assignedProviderId", "assignmentDeadlineAt",
            "lastAssignmentOutcome", "lastAssignmentProviderId"}
                \cap DOMAIN data = {}
    PROVE  SoundPatch(data)
BY DEF SoundPatch, KeepsLedger

\* PATCH :id/status writes the status, and for a completion review columns.
LEMMA StatusPatch ==
    ASSUME NEW row, IsRow(row), NEW next \in Statuses,
           NEW data \in StatusData(row, next)
    PROVE  SoundPatch(data)
<1>1. CASE next = "COMPLETED_BY_PROVIDER"
  <2>1. PICK policy \in resolveCompletionPolicy(row) : data = CompletionData(policy)
    BY <1>1 DEF StatusData
  <2>2. policy \in CompletionPolicies
    BY RowValues, PolicyChoicesAssumption DEF resolveCompletionPolicy
  <2>3. reviewDeadlineFor(policy) \in DeadlineMarks \cup {Null}
    BY DEF reviewDeadlineFor, DeadlineMarks
  <2>4. reviewStateFor(policy, Null, Null) \in ReviewStates
    BY ReviewStateType
  <2>5. IsPatch(data)
    BY <2>1, <2>2, <2>3, <2>4
    DEF IsPatch, CompletionData, Columns, ColumnType, Statuses,
        CompletionDecisions
  <2> QED
    BY <2>1, <2>5, ReviewPatch, NullIsNoValue DEF CompletionData, Finalizes
<1>2. CASE next # "COMPLETED_BY_PROVIDER"
  <2>1. data = [status |-> next]
    BY <1>2 DEF StatusData
  <2>2. IsPatch(data)
    BY <2>1 DEF IsPatch, Columns, ColumnType
  <2> QED
    BY <2>1, <2>2, ReviewPatch DEF Finalizes
<1> QED BY <1>1, <1>2

\* The two approvals write review columns and the status.
LEMMA ApprovalPatches ==
    ASSUME NEW row
    PROVE  SoundPatch(ConfirmationData(row)) /\ SoundPatch(VerificationData(row))
<1>1. IsPatch(ConfirmationData(row))
  BY ReviewStateType
  DEF IsPatch, ConfirmationData, Columns, ColumnType, Statuses, ReviewStates,
      CompletionDecisions
<1>2. IsPatch(VerificationData(row))
  BY ReviewStateType
  DEF IsPatch, VerificationData, Columns, ColumnType, Statuses, ReviewStates,
      CompletionDecisions
<1>3. SoundPatch(ConfirmationData(row))
  BY <1>1, ReviewPatch, NullIsNoValue DEF ConfirmationData, Finalizes
<1>4. SoundPatch(VerificationData(row))
  BY <1>2, ReviewPatch, NullIsNoValue DEF VerificationData, Finalizes
<1> QED BY <1>3, <1>4


\* A time-out or cancellation read from an agreeing row names its provider.
LEMMA UnassignmentWrite ==
    ASSUME LedgerInv, NEW r \in DOMAIN report,
           NEW outcome \in {"REJECTED", "TIMED_OUT"},
           report[r].assignedProviderId # Null
    PROVE  SoundWrite(Write(r, Null,
                UnassignmentData(report[r].assignedProviderId, outcome)))
<1>1. report[r].assignedProviderId \in Providers
  BY RowValues DEF LedgerInv, TypeOK
<1>2. SoundPatch(UnassignmentData(report[r].assignedProviderId, outcome))
  BY <1>1, UnassignmentPatch
<1> QED
  BY <1>2, RecordFields DEF SoundPatch, SoundWrite, WriteOK, Guarded

\* An offer that is overdue has a deadline, so by the ledger a provider: the
\* writes of both sweeps over overdue offers are sound.
LEMMA OverdueWritesSound ==
    ASSUME LedgerInv, NEW rs, NEW w \in OverdueWrites(rs)
    PROVE  SoundWrite(w)
<1>1. PICK r \in DOMAIN report :
        /\ Overdue(report[r])
        /\ w = Write(r, Null,
                  UnassignmentData(report[r].assignedProviderId, "TIMED_OUT"))
  BY DEF OverdueWrites, Exists
<1>2. LedgerAgrees(report[r])
  BY DEF LedgerInv, DispatchLedger, TypeOK, Exists
<1>3. report[r].assignedProviderId # Null
  BY <1>1, <1>2, NullIsNoValue DEF LedgerAgrees, Overdue, DeadlineMarks
<1> QED
  BY <1>1, <1>3, UnassignmentWrite

-----------------------------------------------------------------------------
(* Steps that change a row without a request: intake and the clock *)

\* A new row, of either kind, is well typed and its ledger is empty.
LEMMA NewRows ==
    ASSUME NEW home \in Organizations, NEW match \in Organizations \cup {Null}
    PROVE  /\ IsRow(NewReport(home, match))
           /\ LedgerAgrees(NewReport(home, match))
           /\ IsRow(LegacyReport(home))
           /\ LedgerAgrees(LegacyReport(home))
<1>1. \A m \in Organizations \cup {Null} :
        IsRow(NewReport(home, m)) /\ LedgerAgrees(NewReport(home, m))
  <2> TAKE m \in Organizations \cup {Null}
  <2>1. IsRow(NewReport(home, m))
    BY NullIsNoValue DEF IsRow, NewReport, Patched, Columns, ColumnType, Statuses
  <2>2. LedgerAgrees(NewReport(home, m))
    BY NullIsNoValue DEF LedgerAgrees, NewReport, Patched, Columns, ColumnType
  <2> QED BY <2>1, <2>2
<1>2. /\ LegacyReport(home) = Patched(NewReport(home, home),
             [status |-> "TRIAGE", assignedOrganizationId |-> Null])
      /\ IsPatch([status |-> "TRIAGE", assignedOrganizationId |-> Null])
      /\ KeepsLedger([status |-> "TRIAGE", assignedOrganizationId |-> Null])
  BY DEF LegacyReport, IsPatch, KeepsLedger, Columns, ColumnType, Statuses
<1> QED
  BY <1>1, <1>2, PatchedIsRow, PatchedKeepsLedger

\* A row that changes to another well-typed, agreeing row keeps the invariant.
LEMMA RowStep ==
    ASSUME LedgerInv, NEW r \in Reports, NEW row,
           IsRow(row), LedgerAgrees(row), UNCHANGED req,
           report' = [x \in DOMAIN report \cup {r} |->
                        IF x = r THEN row ELSE report[x]]
    PROVE  LedgerInv'
<1> USE DEF LedgerInv
<1>1. TypeOK'
  BY DEF TypeOK, RequestOK, WriteOK
<1>2. DispatchLedger'
  BY DEF DispatchLedger, Exists
<1>3. PendingKeepsLedger'
  BY DEF PendingKeepsLedger
<1>4. FallbacksGuarded'
  BY DEF FallbacksGuarded, Guarded, Finalizes
<1> QED BY <1>1, <1>2, <1>3, <1>4

\* The end of the acceptance window moves a deadline that was set, so the
\* row had a provider and still has.
LEMMA AssignmentWindowStep ==
    ASSUME LedgerInv, NEW r \in Reports, AssignmentWindowEnds(r)
    PROVE  LedgerInv'
<1> DEFINE row == Patched(report[r], [assignmentDeadlineAt |-> "BEHIND"])
<1>1. /\ r \in DOMAIN report
      /\ report[r].assignmentDeadlineAt = "AHEAD"
      /\ report' = [x \in DOMAIN report \cup {r} |->
                      IF x = r THEN row ELSE report[x]]
      /\ UNCHANGED req
  BY DEF AssignmentWindowEnds, Exists, LedgerInv, TypeOK
<1>2. IsRow(report[r]) /\ LedgerAgrees(report[r])
  BY <1>1 DEF LedgerInv, TypeOK, DispatchLedger, Exists
<1>3. IsPatch([assignmentDeadlineAt |-> "BEHIND"])
  BY DEF IsPatch, Columns, ColumnType, DeadlineMarks
<1>4. IsRow(row)
  BY <1>2, <1>3, PatchedIsRow
<1>5. LedgerAgrees(row)
  BY <1>1, <1>2, NullIsNoValue
  DEF LedgerAgrees, Patched, Columns, ColumnType, DeadlineMarks
<1> HIDE DEF row
<1> QED
  BY <1>1, <1>4, <1>5, RowStep

\* The end of the review window touches no assignment column.
LEMMA ReviewWindowStep ==
    ASSUME LedgerInv, NEW r \in Reports, ReviewWindowEnds(r)
    PROVE  LedgerInv'
<1> DEFINE row == Patched(report[r], [completionReviewDeadlineAt |-> "BEHIND"])
<1>1. /\ r \in DOMAIN report
      /\ report' = [x \in DOMAIN report \cup {r} |->
                      IF x = r THEN row ELSE report[x]]
      /\ UNCHANGED req
  BY DEF ReviewWindowEnds, Exists, LedgerInv, TypeOK
<1>2. IsRow(report[r]) /\ LedgerAgrees(report[r])
  BY <1>1 DEF LedgerInv, TypeOK, DispatchLedger, Exists
<1>3. SoundPatch([completionReviewDeadlineAt |-> "BEHIND"])
  BY ReviewPatch DEF IsPatch, Columns, ColumnType, DeadlineMarks, Finalizes
<1>4. IsRow(row) /\ LedgerAgrees(row)
  BY <1>2, <1>3, PatchedIsRow, PatchedKeepsLedger DEF SoundPatch
<1> HIDE DEF row
<1> QED
  BY <1>1, <1>4, RowStep

-----------------------------------------------------------------------------
(* One step per handler *)

\* Every step of intake, routing, assignment and provider work keeps the
\* invariant.
LEMMA DispatchStep ==
    ASSUME LedgerInv, DispatchNext
    PROVE  LedgerInv'
<1>a. \A r : Exists(r) => r \in DOMAIN report /\ IsRow(report[r])
  BY DEF Exists, LedgerInv, TypeOK
<1>1. ASSUME NEW r \in Reports, NEW home \in Organizations,
             NEW match \in Organizations \cup {Null},
             createReport(r, home, match)
      PROVE  LedgerInv'
  BY <1>1, NewRows, RowStep DEF createReport
<1>2. ASSUME NEW c \in Requests, ReassignSecondHalf(c)
      PROVE  LedgerInv'
  <2>1. /\ req[c].id \in DOMAIN report
        /\ req[c].provider \in Providers
        /\ UNCHANGED report
    BY <1>2 DEF ReassignSecondHalf, Reassigning, LedgerInv, TypeOK, RequestOK
  <2> DEFINE w == Write(req[c].id, Null, AssignmentData(req[c].provider))
  <2>2. SoundWrite(w)
    BY <2>1, AssignmentPatch, RecordFields
    DEF SoundPatch, SoundWrite, WriteOK, Guarded
  <2>3. CASE req' = [req EXCEPT ![c] = Idle]
    BY <2>1, <2>3, IdleStep
  <2>4. CASE req' = [req EXCEPT ![c].writes = {w}, ![c].then = "RETURN"]
    <3> DEFINE q == [[req[c] EXCEPT !.writes = {w}] EXCEPT !.then = "RETURN"]
    <3>1. req' = [req EXCEPT ![c] = q]
      BY <2>4 DEF LedgerInv, TypeOK
    <3>2. /\ DOMAIN q = DOMAIN Idle
          /\ q.then = "RETURN" /\ \A x \in q.writes : SoundWrite(x)
      BY <2>2, RecordFields DEF LedgerInv, TypeOK, RequestOK
    <3> HIDE DEF q
    <3> QED BY <2>1, <3>1, <3>2, RequestStep DEF Continuations
  <2> QED BY <1>2, <2>3, <2>4 DEF ReassignSecondHalf
<1>3. ASSUME NEW c \in Requests, ExpireOwnOffers(c)
      PROVE  LedgerInv'
  <2> DEFINE ws == OverdueWrites({r \in Reports : Exists(r)
                        /\ report[r].assignedProviderId = req[c].provider})
  <2>1. /\ UNCHANGED report
        /\ \/ req' = [req EXCEPT ![c] = Idle]
           \/ req' = [req EXCEPT ![c].writes = ws, ![c].then = "RETURN"]
    BY <1>3 DEF ExpireOwnOffers
  <2>2. \A w \in ws : SoundWrite(w)
    BY OverdueWritesSound
  <2> HIDE DEF ws
  <2>3. CASE req' = [req EXCEPT ![c] = Idle]
    BY <2>1, <2>3, IdleStep
  <2>4. CASE req' = [req EXCEPT ![c].writes = ws, ![c].then = "RETURN"]
    <3> DEFINE q == [[req[c] EXCEPT !.writes = ws] EXCEPT !.then = "RETURN"]
    <3>1. req' = [req EXCEPT ![c] = q]
      BY <2>4 DEF LedgerInv, TypeOK
    <3>2. /\ DOMAIN q = DOMAIN Idle
          /\ q.then = "RETURN" /\ \A x \in q.writes : SoundWrite(x)
      BY <2>2, RecordFields DEF LedgerInv, TypeOK, RequestOK
    <3> HIDE DEF q
    <3> QED BY <2>1, <3>1, <3>2, RequestStep DEF Continuations
  <2> QED BY <2>1, <2>3, <2>4
<1>4. ASSUME NEW c \in Requests, NEW r \in Reports, NEW org \in Organizations,
             NEW establish \in BOOLEAN,
             \/ assignOrganization(c, r, org, establish)
             \/ acceptOrganizationReport(c, r, org)
             \/ rejectOrganizationReport(c, r, org)
      PROVE  LedgerInv'
  BY <1>4, <1>a, RoutingPatches, UpdateStep
  DEF assignOrganization, acceptOrganizationReport, rejectOrganizationReport,
      SoundPatch
<1>5. ASSUME NEW c \in Requests, NEW user \in Operators, NEW r \in Reports,
             cancelAssignment(c, user, r)
      PROVE  LedgerInv'
  <2> DEFINE ws == {CancellationWrite(r)}
  <2>1. \A w \in ws : SoundWrite(w)
    BY <1>5, <1>a, UnassignmentWrite
    DEF cancelAssignment, CancellationAllowed, CancellationWrite
  <2>2. Serve(c, "cancelAssignment", ws, "RETURN", Null, r, Null)
    BY <1>5 DEF cancelAssignment
  <2> HIDE DEF ws
  <2> QED
    BY <2>1, <2>2, ServeStep DEF Continuations
<1>6. ASSUME NEW c \in Requests, NEW user \in Operators, NEW r \in Reports,
             NEW p \in Providers, reassignProvider(c, user, r, p)
      PROVE  LedgerInv'
  <2> DEFINE ws == IF report[r].assignedProviderId = Null THEN {}
                   ELSE {CancellationWrite(r)}
  <2>1. r \in DOMAIN report /\ \A w \in ws : SoundWrite(w)
    BY <1>6, <1>a, UnassignmentWrite DEF reassignProvider, CancellationWrite
  <2>2. Serve(c, "reassign", ws, "ASSIGN", user, r, p)
    BY <1>6 DEF reassignProvider
  <2> HIDE DEF ws
  <2> QED
    BY <2>1, <2>2, ServeStep DEF Continuations
<1>7. ASSUME NEW c \in Requests, NEW user \in Operators, NEW r \in Reports,
             NEW p \in Providers, NEW override \in BOOLEAN,
             assignProviderById(c, user, r, p, override)
      PROVE  LedgerInv'
  BY <1>7, <1>a, AssignmentPatch, UpdateStep DEF assignProviderById, SoundPatch
<1>8. ASSUME NEW c \in Requests, NEW user \in Operators, NEW r \in Reports,
             NEW next \in Statuses, OperatorUpdatesStatus(c, user, r, next)
      PROVE  LedgerInv'
  BY <1>8, <1>a, StatusPatch, UpdateStep DEF OperatorUpdatesStatus, SoundPatch
<1>9. ASSUME NEW c \in Requests, NEW user \in Operators,
             processOverdueAssignments(c, user)
      PROVE  LedgerInv'
  <2> DEFINE ws == OverdueWrites({r \in Reports : Exists(r)
                                    /\ MayOperate(user, report[r])})
  <2>1. \A w \in ws : SoundWrite(w)
    BY OverdueWritesSound
  <2>2. Serve(c, "expireOverdue", ws, "RETURN", Null, Null, Null)
    BY <1>9 DEF processOverdueAssignments
  <2> HIDE DEF ws
  <2> QED
    BY <2>1, <2>2, ServeStep DEF Continuations
<1>10. ASSUME NEW c \in Requests, NEW p \in Providers, NEW r \in Reports,
              AnswerTooLate(c, p, r)
       PROVE  LedgerInv'
  BY <1>10, ServeStep DEF AnswerTooLate, Continuations
<1>11. ASSUME NEW c \in Requests, NEW p \in Providers, NEW r \in Reports,
              rejectAssignment(c, p, r)
       PROVE  LedgerInv'
  BY <1>11, <1>a, UnassignmentPatch, UpdateStep DEF rejectAssignment, SoundPatch
<1>12. ASSUME NEW c \in Requests, NEW p \in Providers, NEW r \in Reports,
              NEW next \in Statuses, ProviderUpdatesStatus(c, p, r, next)
       PROVE  LedgerInv'
  BY <1>12, <1>a, StatusPatch, UpdateStep DEF ProviderUpdatesStatus, SoundPatch
<1> QED
  BY <1>1, <1>2, <1>3, <1>4, <1>5, <1>6, <1>7, <1>8, <1>9, <1>10, <1>11,
     <1>12, AssignmentWindowStep
  DEF DispatchNext

\* Every step of completion review, the fallback and governance keeps the
\* invariant: none of them writes an assignment column, and only the fallback
\* writes what the fallback writes.
LEMMA ReviewStep ==
    ASSUME LedgerInv, ReviewNext
    PROVE  LedgerInv'
<1>a. \A r : Exists(r) => r \in DOMAIN report /\ IsRow(report[r])
  BY DEF Exists, LedgerInv, TypeOK
<1> DEFINE Review(data) == IsPatch(data) /\ ~Finalizes(data) /\
               {"assignedProviderId", "assignmentDeadlineAt",
                "lastAssignmentOutcome", "lastAssignmentProviderId"}
                    \cap DOMAIN data = {}
<1>b. ASSUME NEW c \in Requests, NEW r, NEW op, NEW data, Exists(r),
             Review(data), Update(c, op, r, data)
      PROVE  LedgerInv'
  BY <1>a, <1>b, ReviewPatch, UpdateStep DEF SoundPatch
<1>c. \A row, policy : RestoredReviewState(row, policy) \in ReviewStates
  BY ReviewStateType DEF RestoredReviewState
<1>1. ASSUME NEW c \in Requests, processCompletionReviewDeadlines(c)
      PROVE  LedgerInv'
  <2> DEFINE due == {r \in Reports : Exists(r) /\ DueForFallback(report[r])}
             ws == {Write(r, "COMPLETED_BY_PROVIDER", FallbackData) : r \in due}
  <2>1. IsPatch(FallbackData) /\ KeepsLedger(FallbackData)
    BY DEF FallbackData, IsPatch, Columns, ColumnType, Statuses, ReviewStates,
           KeepsLedger
  <2>2. \A w \in ws : SoundWrite(w)
    BY <2>1, RecordFields DEF SoundWrite, WriteOK, Exists, Statuses, Guarded
  <2>3. Serve(c, "processDeadlines", ws, "RETURN", Null, Null, Null)
    BY <1>1 DEF processCompletionReviewDeadlines
  <2> HIDE DEF ws
  <2> QED
    BY <2>2, <2>3, ServeStep DEF Continuations
<1>2. ASSUME NEW c \in Requests, NEW r \in Reports,
             \/ confirmCitizenCompletion(c, r)
             \/ verifyOrganizationCompletion(c, r)
      PROVE  LedgerInv'
  BY <1>2, <1>a, ApprovalPatches, UpdateStep
  DEF confirmCitizenCompletion, verifyOrganizationCompletion, SoundPatch
<1>3. ASSUME NEW c \in Requests, NEW r \in Reports,
             \/ rejectCitizenCompletion(c, r)
             \/ requestOrganizationCompletionRework(c, r)
      PROVE  LedgerInv'
  <2>1. /\ Review([status |-> "ASSIGNED",
                   citizenCompletionDecision |-> "REWORK_REQUESTED",
                   completionReviewState |-> "REWORK_REQUESTED"])
        /\ Review([status |-> "ASSIGNED",
                   organizationCompletionDecision |-> "REWORK_REQUESTED",
                   completionReviewState |-> "REWORK_REQUESTED"])
    BY DEF IsPatch, Columns, ColumnType, Statuses, ReviewStates,
           CompletionDecisions, Finalizes
  <2> QED
    BY <1>3, <1>b, <2>1
    DEF rejectCitizenCompletion, requestOrganizationCompletionRework
<1>4. ASSUME NEW c \in Requests, NEW r \in Reports,
             \/ adminResolveAndClose(c, r)
             \/ adminReturnForCompletionRework(c, r)
             \/ adminPlaceCompletionHold(c, r)
      PROVE  LedgerInv'
  <2>1. /\ Review([status |-> "CLOSED",
                   completionReviewState |-> "CLOSED",
                   completionFinalActorType |-> "SUPER_ADMIN_GOVERNANCE",
                   completionFinalizedByRole |-> "SUPER_ADMIN"])
        /\ Review([status |-> "ASSIGNED",
                   completionReviewState |-> "REWORK_REQUESTED",
                   organizationCompletionDecision |-> "ESCALATED"])
        /\ Review([completionGovernanceHoldReason |-> "SET",
                   completionReviewState |-> "GOVERNANCE_HOLD"])
    BY DEF IsPatch, Columns, ColumnType, Statuses, ReviewStates,
           CompletionDecisions, Finalizes
  <2> QED
    BY <1>4, <1>b, <2>1
    DEF adminResolveAndClose, adminReturnForCompletionRework,
        adminPlaceCompletionHold
<1>5. ASSUME NEW c \in Requests, NEW r \in Reports,
             \/ adminRemoveCompletionHold(c, r)
             \/ adminReopenCompletion(c, r)
      PROVE  LedgerInv'
  <2>1. \A state \in ReviewStates :
          /\ Review([completionGovernanceHoldReason |-> Null,
                     completionReviewState |-> state])
          /\ Review([status |-> "COMPLETED_BY_PROVIDER",
                     completionReviewState |-> state])
    BY DEF IsPatch, Columns, ColumnType, Statuses, Finalizes
  <2>2. "CLOSED" \in ReviewStates
    BY DEF ReviewStates
  <2> HIDE DEF Review
  <2> QED
    BY <1>5, <1>b, <1>c, <2>1, <2>2
    DEF adminRemoveCompletionHold, adminReopenCompletion
<1>6. ASSUME NEW c \in Requests, NEW r \in Reports,
             NEW policy \in OverridePolicies,
             adminOverrideCompletionPolicy(c, r, policy)
      PROVE  LedgerInv'
  <2>1. \A state \in ReviewStates :
          Review([completionPolicy |-> policy,
                  completionReviewState |-> state])
    BY ReviewPoliciesAssumption DEF IsPatch, Columns, ColumnType, Finalizes
  <2> HIDE DEF Review
  <2> QED
    BY <1>6, <1>b, <1>c, <2>1 DEF adminOverrideCompletionPolicy
<1> QED
  BY <1>1, <1>2, <1>3, <1>4, <1>5, <1>6, ReviewWindowStep DEF ReviewNext

-----------------------------------------------------------------------------
(* Theorems *)

\* The invariant holds initially and is kept by every step.
LEMMA LedgerInvariant == Spec => []LedgerInv
<1>1. Init => LedgerInv
  <2> SUFFICES ASSUME Init PROVE LedgerInv
    OBVIOUS
  <2>1. PICK existing \in SUBSET Reports : report \in [existing -> LegacyReports]
    BY DEF Init
  <2>2. \A r \in DOMAIN report : IsRow(report[r]) /\ LedgerAgrees(report[r])
    BY <2>1, NewRows DEF LegacyReports
  <2>3. \A c \in Requests : req[c] = Idle
    BY DEF Init
  <2>4. TypeOK
    BY <2>1, <2>2, <2>3, RecordFields
    DEF Init, TypeOK, RequestOK, Continuations
  <2>5. DispatchLedger
    BY <2>2 DEF DispatchLedger, Exists
  <2>6. PendingKeepsLedger
    BY <2>3, RecordFields DEF PendingKeepsLedger
  <2>7. FallbacksGuarded
    BY <2>3, RecordFields DEF FallbacksGuarded
  <2> QED BY <2>4, <2>5, <2>6, <2>7 DEF LedgerInv
<1>2. LedgerInv /\ [Next]_vars => LedgerInv'
  <2> SUFFICES ASSUME LedgerInv, [Next]_vars PROVE LedgerInv'
    OBVIOUS
  <2>1. CASE DispatchNext
    BY <2>1, DispatchStep
  <2>2. CASE ReviewNext
    BY <2>2, ReviewStep
  <2>3. ASSUME NEW c \in Requests, CommitWrite(c)
        PROVE  LedgerInv'
    BY <2>3, CommitStep
  <2>4. ASSUME NEW c \in Requests, MissedWrite(c) \/ Abandon(c)
        PROVE  LedgerInv'
    BY <2>4, IdleStep DEF MissedWrite, Abandon
  <2>5. CASE UNCHANGED vars
    BY <2>5
    DEF vars, LedgerInv, TypeOK, RequestOK, WriteOK, DispatchLedger, Exists,
        PendingKeepsLedger, FallbacksGuarded, Guarded, Finalizes
  <2> QED
    BY <2>1, <2>2, <2>3, <2>4, <2>5 DEF Next
<1> QED
  BY <1>1, <1>2, PTL DEF Spec

(***************************************************************************)
(* Type correctness of the report service: for every number of reports,    *)
(* concurrent requests, organizations and providers, rows stay well typed  *)
(* and handlers only ever write existing rows.                             *)
(***************************************************************************)
THEOREM TypeCorrect == Spec => []TypeOK
<1>1. LedgerInv => TypeOK
  BY DEF LedgerInv
<1> QED
  BY <1>1, LedgerInvariant, PTL

(***************************************************************************)
(* The assignment columns of every row agree under every interleaving of   *)
(* handlers, crashes between read and write included: provider and         *)
(* acceptance deadline come and go together, and the recorded ending of an *)
(* assignment is never that of a current one.                              *)
(***************************************************************************)
THEOREM LedgerAgreesAlways == Spec => []DispatchLedger
<1>1. LedgerInv => DispatchLedger
  BY DEF LedgerInv
<1> QED
  BY <1>1, LedgerInvariant, PTL

(***************************************************************************)
(* No request is ever about to write only some of the assignment columns.  *)
(***************************************************************************)
THEOREM PendingWritesComplete == Spec => []PendingKeepsLedger
<1>1. LedgerInv => PendingKeepsLedger
  BY DEF LedgerInv
<1> QED
  BY <1>1, LedgerInvariant, PTL

-----------------------------------------------------------------------------
(* The deadline processor *)

\* Rows change by the write of a request, by intake and by the clock.
LEMMA RowsChange ==
    ASSUME Next
    PROVE  \/ UNCHANGED report
           \/ \E c \in Requests : CommitWrite(c)
           \/ \E r \in Reports, home \in Organizations,
                 match \in Organizations \cup {Null} :
                   createReport(r, home, match)
           \/ \E r \in Reports : AssignmentWindowEnds(r) \/ ReviewWindowEnds(r)
<1>1. \A c, op, writes, then, user, id, provider :
        Serve(c, op, writes, then, user, id, provider) => UNCHANGED report
  BY DEF Serve
<1>2. \A c, op, r, data : Update(c, op, r, data) => UNCHANGED report
  BY <1>1 DEF Update
<1>3. ASSUME NEW c, NEW r, NEW org, NEW establish,
             \/ assignOrganization(c, r, org, establish)
             \/ acceptOrganizationReport(c, r, org)
             \/ rejectOrganizationReport(c, r, org)
      PROVE  UNCHANGED report
  BY <1>2, <1>3
  DEF assignOrganization, acceptOrganizationReport, rejectOrganizationReport
<1>4. ASSUME NEW c, NEW user, NEW r, NEW p, NEW override, NEW next,
             \/ ReassignSecondHalf(c)
             \/ ExpireOwnOffers(c)
             \/ cancelAssignment(c, user, r)
             \/ reassignProvider(c, user, r, p)
             \/ assignProviderById(c, user, r, p, override)
             \/ OperatorUpdatesStatus(c, user, r, next)
             \/ processOverdueAssignments(c, user)
      PROVE  UNCHANGED report
  BY <1>1, <1>2, <1>4
  DEF ReassignSecondHalf, ExpireOwnOffers, cancelAssignment, reassignProvider,
      assignProviderById, OperatorUpdatesStatus, processOverdueAssignments
<1>5. ASSUME NEW c, NEW p, NEW r, NEW next,
             \/ AnswerTooLate(c, p, r)
             \/ rejectAssignment(c, p, r)
             \/ ProviderUpdatesStatus(c, p, r, next)
      PROVE  UNCHANGED report
  BY <1>1, <1>2, <1>5 DEF AnswerTooLate, rejectAssignment, ProviderUpdatesStatus
<1>6. DispatchNext =>
        \/ UNCHANGED report
        \/ \E r \in Reports, home \in Organizations,
              match \in Organizations \cup {Null} : createReport(r, home, match)
        \/ \E r \in Reports : AssignmentWindowEnds(r)
  BY <1>3, <1>4, <1>5, Zenon DEF DispatchNext
<1>7. ASSUME NEW c, NEW r, NEW policy,
             \/ processCompletionReviewDeadlines(c)
             \/ confirmCitizenCompletion(c, r)
             \/ rejectCitizenCompletion(c, r)
             \/ verifyOrganizationCompletion(c, r)
             \/ requestOrganizationCompletionRework(c, r)
      PROVE  UNCHANGED report
  BY <1>1, <1>2, <1>7
  DEF processCompletionReviewDeadlines, confirmCitizenCompletion,
      rejectCitizenCompletion, verifyOrganizationCompletion,
      requestOrganizationCompletionRework
<1>8. ASSUME NEW c, NEW r, NEW policy,
             \/ adminResolveAndClose(c, r)
             \/ adminReturnForCompletionRework(c, r)
             \/ adminPlaceCompletionHold(c, r)
             \/ adminRemoveCompletionHold(c, r)
             \/ adminReopenCompletion(c, r)
             \/ adminOverrideCompletionPolicy(c, r, policy)
      PROVE  UNCHANGED report
  BY <1>2, <1>8
  DEF adminResolveAndClose, adminReturnForCompletionRework,
      adminPlaceCompletionHold, adminRemoveCompletionHold,
      adminReopenCompletion, adminOverrideCompletionPolicy
<1>9. ReviewNext =>
        \/ UNCHANGED report
        \/ \E r \in Reports : ReviewWindowEnds(r)
  BY <1>7, <1>8, Zenon DEF ReviewNext
<1> QED
  BY <1>6, <1>9 DEF Next, MissedWrite, Abandon

\* One step of FallbackOnlyInReview.
FallbackStep ==
    \A r \in Reports :
        /\ Exists(r)
        /\ report'[r].completionFinalizedByRole = "PROCESSOR"
        /\ report[r].completionFinalizedByRole # "PROCESSOR"
        => report[r].status = "COMPLETED_BY_PROVIDER"

\* Only a committed write finalizes, and it does so with its guard checked.
LEMMA FallbackGuardedStep ==
    ASSUME LedgerInv, Next
    PROVE  FallbackStep
<1> SUFFICES ASSUME NEW r \in Reports, r \in DOMAIN report,
                    report'[r].completionFinalizedByRole = "PROCESSOR",
                    report[r].completionFinalizedByRole # "PROCESSOR"
             PROVE  report[r].status = "COMPLETED_BY_PROVIDER"
  BY DEF FallbackStep, Exists
<1>a. "completionFinalizedByRole" \in Columns
  BY DEF Columns, ColumnType
<1>b. report = [x \in DOMAIN report |-> report[x]]
  BY DEF LedgerInv, TypeOK
<1>1. ASSUME NEW c \in Requests, CommitWrite(c)
      PROVE  report[r].status = "COMPLETED_BY_PROVIDER"
  <2>1. PICK w \in req[c].writes :
          /\ WhereHolds(w)
          /\ report' = [report EXCEPT ![w.id] = Patched(@, w.data)]
    BY <1>1 DEF CommitWrite
  <2>2. w.id \in DOMAIN report /\ Guarded(w)
    BY DEF LedgerInv, TypeOK, RequestOK, WriteOK, FallbacksGuarded
  <2>3. w.id = r
    BY <1>b, <2>1, <2>2
  <2>4. report'[r] = Patched(report[r], w.data)
    BY <1>b, <2>1, <2>2, <2>3
  <2>5. Finalizes(w.data)
    BY <1>a, <2>4 DEF Patched, Finalizes
  <2>6. w.where = "COMPLETED_BY_PROVIDER"
    BY <2>2, <2>5 DEF Guarded
  <2> QED
    BY <2>1, <2>3, <2>6, NullIsNoValue DEF WhereHolds, Statuses
<1>2. ASSUME NEW x \in Reports, NEW home \in Organizations,
             NEW match \in Organizations \cup {Null},
             createReport(x, home, match)
      PROVE  FALSE
  BY <1>2, <1>b DEF createReport, Exists
<1>3. ASSUME NEW x \in Reports, AssignmentWindowEnds(x) \/ ReviewWindowEnds(x)
      PROVE  FALSE
  BY <1>3, <1>a, <1>b
  DEF AssignmentWindowEnds, ReviewWindowEnds, Patched, Exists
<1> QED
  BY <1>1, <1>2, <1>3, RowsChange

(***************************************************************************)
(* However requests interleave, the deadline processor finalizes only a    *)
(* report that is in review at the moment of the write.                    *)
(***************************************************************************)
THEOREM FallbackAlwaysInReview == Spec => FallbackOnlyInReview
<1>1. LedgerInv /\ [Next]_vars => [FallbackStep]_vars
  BY FallbackGuardedStep
<1>2. [][FallbackStep]_vars => FallbackOnlyInReview
  BY PTL DEF FallbackOnlyInReview, FallbackStep
<1> QED
  BY <1>1, <1>2, LedgerInvariant, PTL DEF Spec

-----------------------------------------------------------------------------
(* One request at a time.  A handler's check then still holds when its     *)
(* write is made: only the clock and the intake of other reports come      *)
(* between them.                                                           *)

\* Handlers do not overlap.
Serial == \A c, d \in Requests : c = d

\* The stage of ReportCustody that a row is in.
Stage(row) ==
    CASE row.status \in {"TRIAGE", "ORG_REVIEW"}    -> "routing"
      [] row.status = "PENDING"                     -> "queued"
      [] row.status \in {"ASSIGNED", "IN_PROGRESS"} -> "work"
      [] row.status = "COMPLETED_BY_PROVIDER"       -> "review"
      [] row.status = "CLOSED"                      -> "closed"

\* What may become of a row: its owner, ...
OwnerFits(row, new) ==
    new.organizationId # row.organizationId
        => new.organizationId = new.assignedOrganizationId

\* ... the decisions of its reviewers, ...
DecisionFits(row, new) ==
    \/ /\ row.status = "IN_PROGRESS"
       /\ new.status = "COMPLETED_BY_PROVIDER"
       /\ new.citizenCompletionDecision = "PENDING"
       /\ new.organizationCompletionDecision = "PENDING"
    \/ /\ row.citizenCompletionDecision = "CONFIRMED"
          => new.citizenCompletionDecision = "CONFIRMED"
       /\ row.organizationCompletionDecision = "VERIFIED"
          => new.organizationCompletionDecision \in {"VERIFIED", "ESCALATED"}

\* ... its closure, ...
ClosureFits(row, new) ==
    row.status # "CLOSED" /\ new.status = "CLOSED" =>
        /\ ~OnHold(row)
        /\ \/ new.completionFinalizedByRole = "SUPER_ADMIN"
           \/ /\ new.completionFinalizedByRole = "PROCESSOR"
              /\ DueForFallback(row)
           \/ /\ new.completionFinalizedByRole \in {"CITIZEN", "OPERATOR"}
              /\ NoActiveCompletionBlockers(row)
              /\ isCompletionSatisfied(policyForReport(row),
                        new.citizenCompletionDecision,
                        new.organizationCompletionDecision)

\* ... both decisions of a report that requires both, ...
BothDecided(row) ==
    /\ row.completionPolicy = "BOTH_REQUIRED"
    /\ row.citizenCompletionDecision = "CONFIRMED"
    /\ row.organizationCompletionDecision = "VERIFIED"
    => row.completionFinalizedByRole # Null

\* ... and who holds it.
CustodyFits(row, new) ==
    LET old == Stage(row)
        next == Stage(new)
    IN  \/ /\ new.assignedProviderId = row.assignedProviderId
           /\ \/ next = old
              \/ {old, next} \subseteq {"routing", "queued"}
              \/ old = "work" /\ next = "review"
              \/ old # "closed" /\ next \in {"work", "closed"}
              \/ old = "closed" /\ next = "review"
        \/ /\ old = "queued" /\ row.assignedProviderId = Null
           /\ next = "work" /\ new.assignedProviderId \in Providers
        \/ /\ row.assignedProviderId # Null
           /\ next = "queued" /\ new.assignedProviderId = Null

Fits(op, row, new) ==
    /\ OwnerFits(row, new)
    /\ DecisionFits(row, new)
    /\ op # "operatorStatus" => ClosureFits(row, new)
    /\ "BOTH_REQUIRED" \notin OverridePolicies =>
            (BothDecided(row) => BothDecided(new))
    /\ CustodyFits(row, new)

\* Who routes or queues a report holds it for nobody.
RowInOrder(row) ==
    /\ Stage(row) \in {"routing", "queued"} => row.assignedProviderId = Null
    /\ "BOTH_REQUIRED" \notin OverridePolicies => BothDecided(row)

\* The write still fits the row that it is for.
FitsNow(op, w) == Fits(op, report[w.id], Patched(report[w.id], w.data))

RequestFits(q) ==
    /\ \A w \in q.writes : FitsNow(q.op, w)
    /\ \A v, w \in q.writes : v.id = w.id => v = w
    /\ q.op = "operatorStatus" =>
         /\ q.then = "RETURN"
         /\ \A w \in q.writes : w.id = q.id

SerialFits ==
    /\ \A r \in DOMAIN report : RowInOrder(report[r])
    /\ \A c \in Requests : RequestFits(req[c])

\* The stage of every status.
LEMMA Stages ==
    ASSUME NEW row
    PROVE  /\ row.status = "TRIAGE" => Stage(row) = "routing"
           /\ row.status = "ORG_REVIEW" => Stage(row) = "routing"
           /\ row.status = "PENDING" => Stage(row) = "queued"
           /\ row.status = "ASSIGNED" => Stage(row) = "work"
           /\ row.status = "IN_PROGRESS" => Stage(row) = "work"
           /\ row.status = "COMPLETED_BY_PROVIDER" => Stage(row) = "review"
           /\ row.status = "CLOSED" => Stage(row) = "closed"
BY DEF Stage

\* The columns of a row after an update.
LEMMA PatchedColumns ==
    ASSUME NEW row, NEW data
    PROVE  \A k \in Columns :
             /\ k \in DOMAIN data => Patched(row, data)[k] = data[k]
             /\ k \notin DOMAIN data => Patched(row, data)[k] = row[k]
BY DEF Patched

\* Columns that the properties speak of.
LEMMA SomeColumns ==
    {"status", "organizationId", "assignedOrganizationId",
     "assignedProviderId", "completionPolicy", "completionReviewState",
     "completionFinalizedByRole", "completionGovernanceHoldReason",
     "completionReviewDeadlineAt", "completionReviewProcessedAt",
     "assignmentDeadlineAt",
     "citizenCompletionDecision", "organizationCompletionDecision"}
        \subseteq Columns
BY DEF Columns, ColumnType

\* What an update leaves alone fits.
LEMMA QuietColumns ==
    ASSUME NEW row, NEW data, NEW new, new = Patched(row, data)
    PROVE  /\ "organizationId" \notin DOMAIN data => OwnerFits(row, new)
           /\ {"completionPolicy", "completionFinalizedByRole",
               "citizenCompletionDecision", "organizationCompletionDecision"}
                    \cap DOMAIN data = {}
              => DecisionFits(row, new) /\ (BothDecided(row) => BothDecided(new))
           /\ new.status # "CLOSED" \/ "status" \notin DOMAIN data
              => ClosureFits(row, new)
           /\ {"status", "assignedProviderId"} \cap DOMAIN data = {}
              => CustodyFits(row, new)
<1>1. \A k \in Columns : k \notin DOMAIN data => new[k] = row[k]
  BY PatchedColumns
<1>2. "organizationId" \notin DOMAIN data => OwnerFits(row, new)
  BY <1>1, SomeColumns DEF OwnerFits
<1>3. ASSUME {"completionPolicy", "completionFinalizedByRole",
              "citizenCompletionDecision", "organizationCompletionDecision"}
                    \cap DOMAIN data = {}
      PROVE  DecisionFits(row, new) /\ (BothDecided(row) => BothDecided(new))
  BY <1>1, <1>3, SomeColumns DEF DecisionFits, BothDecided
<1>4. new.status # "CLOSED" \/ "status" \notin DOMAIN data
      => ClosureFits(row, new)
  BY <1>1, SomeColumns DEF ClosureFits
<1>5. ASSUME {"status", "assignedProviderId"} \cap DOMAIN data = {}
      PROVE  CustodyFits(row, new)
  <2>1. new.status = row.status /\ new.assignedProviderId = row.assignedProviderId
    BY <1>1, <1>5, SomeColumns
  <2>2. Stage(new) = Stage(row)
    BY <2>1 DEF Stage
  <2> QED
    BY <2>1, <2>2 DEF CustodyFits
<1> QED BY <1>2, <1>3, <1>4, <1>5

\* An update of dispatch columns fits when its owner and its custody do: it
\* changes no review column and closes nothing.
LEMMA DispatchFits ==
    ASSUME NEW op, NEW row, NEW data, NEW new, new = Patched(row, data),
           {"completionPolicy", "completionFinalizedByRole",
            "citizenCompletionDecision", "organizationCompletionDecision"}
                \cap DOMAIN data = {},
           new.status # "CLOSED",
           OwnerFits(row, new), CustodyFits(row, new)
    PROVE  Fits(op, row, new)
BY QuietColumns DEF Fits

\* Routing, acceptance and rejection by an organization.
LEMMA RoutingFits ==
    ASSUME NEW op, NEW row, IsRow(row), RowInOrder(row),
           NEW org \in Organizations, NEW establish \in BOOLEAN
    PROVE  /\ /\ row.status \in {"PENDING", "TRIAGE"}
              /\ row.assignedProviderId = Null
              => Fits(op, row, Patched(row, RoutingData(row, org, establish)))
           /\ AwaitsDecisionOf(row, org)
              => /\ Fits(op, row, Patched(row, AcceptanceData(row, org)))
                 /\ Fits(op, row, Patched(row, RejectionData(row)))
<1>1. ASSUME row.status \in {"PENDING", "TRIAGE"}, row.assignedProviderId = Null
      PROVE  Fits(op, row, Patched(row, RoutingData(row, org, establish)))
  <2>1. PICK data : data = RoutingData(row, org, establish) OBVIOUS
  <2>2. PICK new : new = Patched(row, data) OBVIOUS
  <2>3. /\ new.status \in {"PENDING", "ORG_REVIEW"}
        /\ new.organizationId \in {org, row.organizationId}
        /\ new.assignedOrganizationId = org
        /\ new.assignedProviderId = row.assignedProviderId
    BY <2>1, <2>2, PatchedColumns, SomeColumns DEF RoutingData
  <2>4. OwnerFits(row, new)
    BY <2>3 DEF OwnerFits
  <2>5. CustodyFits(row, new)
    BY <1>1, <2>3, Stages DEF CustodyFits
  <2> QED
    BY <2>1, <2>2, <2>3, <2>4, <2>5, DispatchFits DEF RoutingData
<1>2. ASSUME AwaitsDecisionOf(row, org)
      PROVE  Fits(op, row, Patched(row, AcceptanceData(row, org)))
  <2>1. PICK data : data = AcceptanceData(row, org) OBVIOUS
  <2>2. PICK new : new = Patched(row, data) OBVIOUS
  <2>3. /\ new.status = "PENDING"
        /\ new.organizationId = org
        /\ new.assignedOrganizationId = org
        /\ new.assignedProviderId = row.assignedProviderId
    BY <1>2, <2>1, <2>2, PatchedColumns, SomeColumns
    DEF AcceptanceData, AwaitsDecisionOf, isLegacyMatchedResponsibilityReview
  <2>4. row.status \in {"ORG_REVIEW", "TRIAGE"}
    BY <1>2 DEF AwaitsDecisionOf, isLegacyMatchedResponsibilityReview
  <2>5. OwnerFits(row, new)
    BY <2>3 DEF OwnerFits
  <2>6. CustodyFits(row, new)
    BY <2>3, <2>4, Stages DEF CustodyFits
  <2> QED
    BY <2>1, <2>2, <2>3, <2>5, <2>6, DispatchFits DEF AcceptanceData
<1>3. ASSUME AwaitsDecisionOf(row, org)
      PROVE  Fits(op, row, Patched(row, RejectionData(row)))
  <2>1. PICK data : data = RejectionData(row) OBVIOUS
  <2>2. PICK new : new = Patched(row, data) OBVIOUS
  <2>3. row.status \in {"ORG_REVIEW", "TRIAGE"}
    BY <1>3 DEF AwaitsDecisionOf, isLegacyMatchedResponsibilityReview
  <2>4. row.assignedProviderId = Null
    BY <2>3, Stages DEF RowInOrder
  <2>5. /\ new.status = "TRIAGE"
        /\ new.organizationId = row.organizationId
        /\ new.assignedProviderId = row.assignedProviderId
    BY <2>1, <2>2, <2>4, PatchedColumns, SomeColumns DEF RejectionData
  <2>6. OwnerFits(row, new)
    BY <2>5 DEF OwnerFits
  <2>7. CustodyFits(row, new)
    BY <2>3, <2>5, Stages DEF CustodyFits
  <2> QED
    BY <2>1, <2>2, <2>5, <2>6, <2>7, DispatchFits DEF RejectionData
<1> QED BY <1>1, <1>2, <1>3

\* A provider is given what waits in the queue, and what is taken back from
\* a provider returns to it.
LEMMA ProviderFits ==
    ASSUME NEW op, NEW row, NEW p \in Providers
    PROVE  /\ row.status = "PENDING" /\ row.assignedProviderId = Null
              => Fits(op, row, Patched(row, AssignmentData(p)))
           /\ row.assignedProviderId # Null
              => \A last, outcome :
                   Fits(op, row, Patched(row, UnassignmentData(last, outcome)))
<1>1. ASSUME row.status = "PENDING", row.assignedProviderId = Null
      PROVE  Fits(op, row, Patched(row, AssignmentData(p)))
  <2>1. PICK data : data = AssignmentData(p) OBVIOUS
  <2>2. PICK new : new = Patched(row, data) OBVIOUS
  <2>3. new.status = "ASSIGNED" /\ new.assignedProviderId = p
    BY <2>1, <2>2, PatchedColumns, SomeColumns DEF AssignmentData
  <2>4. CustodyFits(row, new)
    BY <1>1, <2>3, Stages DEF CustodyFits
  <2>5. OwnerFits(row, new)
    BY <2>1, <2>2, QuietColumns DEF AssignmentData
  <2> QED
    BY <2>1, <2>2, <2>3, <2>4, <2>5, DispatchFits DEF AssignmentData
<1>2. ASSUME row.assignedProviderId # Null, NEW last, NEW outcome
      PROVE  Fits(op, row, Patched(row, UnassignmentData(last, outcome)))
  <2>1. PICK data : data = UnassignmentData(last, outcome) OBVIOUS
  <2>2. PICK new : new = Patched(row, data) OBVIOUS
  <2>3. new.status = "PENDING" /\ new.assignedProviderId = Null
    BY <2>1, <2>2, PatchedColumns, SomeColumns DEF UnassignmentData
  <2>4. CustodyFits(row, new)
    BY <1>2, <2>3, Stages DEF CustodyFits
  <2>5. OwnerFits(row, new)
    BY <2>1, <2>2, QuietColumns DEF UnassignmentData
  <2> QED
    BY <2>1, <2>2, <2>3, <2>4, <2>5, DispatchFits DEF UnassignmentData
<1> QED BY <1>1, <1>2

\* PATCH :id/status follows the table of transitions.  Only an operator's
\* may close.
LEMMA StatusFits ==
    ASSUME NEW op, NEW row, IsRow(row), NEW next \in Statuses,
           canTransitionReportStatus(row.status, next), next # "ASSIGNED",
           op = "operatorStatus" \/ next # "CLOSED",
           NEW data \in StatusData(row, next)
    PROVE  Fits(op, row, Patched(row, data))
<1>1. PICK new : new = Patched(row, data) OBVIOUS
<1>2. \/ row.status = "TRIAGE" /\ next = "ORG_REVIEW"
      \/ row.status = "ORG_REVIEW" /\ next \in {"PENDING", "TRIAGE"}
      \/ row.status = "PENDING" /\ next = "ORG_REVIEW"
      \/ row.status = "ASSIGNED" /\ next = "IN_PROGRESS"
      \/ row.status = "IN_PROGRESS" /\ next = "COMPLETED_BY_PROVIDER"
      \/ row.status = "COMPLETED_BY_PROVIDER" /\ next = "CLOSED"
  <2>1. row.status \in Statuses
    BY RowValues
  <2> QED
    BY <2>1 DEF Statuses, canTransitionReportStatus, ALLOWED_REPORT_TRANSITIONS
<1>3. /\ new.status = next
      /\ {"organizationId", "assignedProviderId"} \cap DOMAIN data = {}
  <2>1. CASE next = "COMPLETED_BY_PROVIDER"
    <3>1. PICK policy : data = CompletionData(policy)
      BY <2>1 DEF StatusData
    <3> QED
      BY <1>1, <2>1, <3>1, PatchedColumns, SomeColumns DEF CompletionData
  <2>2. CASE next # "COMPLETED_BY_PROVIDER"
    <3>1. data = [status |-> next]
      BY <2>2 DEF StatusData
    <3> QED
      BY <1>1, <3>1, PatchedColumns, SomeColumns
  <2> QED BY <2>1, <2>2
<1>4. new.assignedProviderId = row.assignedProviderId
  BY <1>1, <1>3, PatchedColumns, SomeColumns
<1>5. OwnerFits(row, new)
  BY <1>1, <1>3, QuietColumns
<1>6. CustodyFits(row, new)
  BY <1>2, <1>3, <1>4, Stages DEF CustodyFits
<1>7. op # "operatorStatus" => ClosureFits(row, new)
  BY <1>3 DEF ClosureFits
<1>8. DecisionFits(row, new) /\ (BothDecided(row) => BothDecided(new))
  <2>1. CASE next = "COMPLETED_BY_PROVIDER"
    <3>1. PICK policy : data = CompletionData(policy)
      BY <2>1 DEF StatusData
    <3>2. /\ new.citizenCompletionDecision = "PENDING"
          /\ new.organizationCompletionDecision = "PENDING"
      BY <1>1, <3>1, PatchedColumns, SomeColumns DEF CompletionData
    <3>3. row.status = "IN_PROGRESS"
      BY <1>2, <2>1
    <3> QED
      BY <1>3, <2>1, <3>2, <3>3 DEF DecisionFits, BothDecided
  <2>2. CASE next # "COMPLETED_BY_PROVIDER"
    <3>1. data = [status |-> next]
      BY <2>2 DEF StatusData
    <3> QED
      BY <1>1, <3>1, QuietColumns
  <2> QED BY <2>1, <2>2
<1> QED
  BY <1>1, <1>5, <1>6, <1>7, <1>8 DEF Fits

\* Each approval closes exactly when the policy is satisfied.
LEMMA ApprovalFits ==
    ASSUME NEW op, NEW row, IsRow(row),
           row.status = "COMPLETED_BY_PROVIDER", NoActiveCompletionBlockers(row)
    PROVE  /\ Fits(op, row, Patched(row, ConfirmationData(row)))
           /\ Fits(op, row, Patched(row, VerificationData(row)))
<1>a. ~OnHold(row)
  BY DEF NoActiveCompletionBlockers
<1>b. Null \notin {"CITIZEN", "OPERATOR"}
  BY NullIsNoValue
<1>c. row.completionPolicy = "BOTH_REQUIRED"
        => policyForReport(row) = "BOTH_REQUIRED"
  BY NullIsNoValue DEF policyForReport, CompletionPolicies
<1>1. Fits(op, row, Patched(row, ConfirmationData(row)))
  <2>1. PICK data : data = ConfirmationData(row) OBVIOUS
  <2>2. PICK new : new = Patched(row, data) OBVIOUS
  <2>3. PICK closes \in BOOLEAN :
          closes = isCompletionSatisfied(policyForReport(row), "CONFIRMED",
                                         row.organizationCompletionDecision)
    BY DEF isCompletionSatisfied
  <2>4. /\ {"organizationId", "assignedProviderId", "completionPolicy",
            "organizationCompletionDecision"} \cap DOMAIN data = {}
        /\ {"status", "citizenCompletionDecision", "completionFinalizedByRole"}
              \subseteq DOMAIN data
        /\ data.status = IF closes THEN "CLOSED" ELSE "COMPLETED_BY_PROVIDER"
        /\ data.citizenCompletionDecision = "CONFIRMED"
        /\ data.completionFinalizedByRole = IF closes THEN "CITIZEN" ELSE Null
    BY <2>1, <2>3 DEF ConfirmationData
  <2>5. /\ new.status = IF closes THEN "CLOSED" ELSE "COMPLETED_BY_PROVIDER"
        /\ new.citizenCompletionDecision = "CONFIRMED"
        /\ new.completionFinalizedByRole = IF closes THEN "CITIZEN" ELSE Null
        /\ new.organizationCompletionDecision = row.organizationCompletionDecision
        /\ new.completionPolicy = row.completionPolicy
        /\ new.assignedProviderId = row.assignedProviderId
    BY <2>2, <2>4, PatchedColumns, SomeColumns
  <2>6. OwnerFits(row, new)
    BY <2>2, <2>4, QuietColumns
  <2>7. DecisionFits(row, new)
    BY <2>5 DEF DecisionFits
  <2>8. ClosureFits(row, new)
    BY <1>a, <2>3, <2>5 DEF ClosureFits
  <2>9. BothDecided(new)
    BY <1>b, <1>c, <2>3, <2>5 DEF BothDecided, isCompletionSatisfied
  <2>10. CustodyFits(row, new)
    BY <2>5, Stages DEF CustodyFits
  <2> QED
    BY <2>1, <2>2, <2>6, <2>7, <2>8, <2>9, <2>10 DEF Fits
<1>2. Fits(op, row, Patched(row, VerificationData(row)))
  <2>1. PICK data : data = VerificationData(row) OBVIOUS
  <2>2. PICK new : new = Patched(row, data) OBVIOUS
  <2>3. PICK closes \in BOOLEAN :
          closes = isCompletionSatisfied(policyForReport(row),
                                row.citizenCompletionDecision, "VERIFIED")
    BY DEF isCompletionSatisfied
  <2>4. /\ {"organizationId", "assignedProviderId", "completionPolicy",
            "citizenCompletionDecision"} \cap DOMAIN data = {}
        /\ {"status", "organizationCompletionDecision",
            "completionFinalizedByRole"} \subseteq DOMAIN data
        /\ data.status = IF closes THEN "CLOSED" ELSE "COMPLETED_BY_PROVIDER"
        /\ data.organizationCompletionDecision = "VERIFIED"
        /\ data.completionFinalizedByRole = IF closes THEN "OPERATOR" ELSE Null
    BY <2>1, <2>3 DEF VerificationData
  <2>5. /\ new.status = IF closes THEN "CLOSED" ELSE "COMPLETED_BY_PROVIDER"
        /\ new.organizationCompletionDecision = "VERIFIED"
        /\ new.completionFinalizedByRole = IF closes THEN "OPERATOR" ELSE Null
        /\ new.citizenCompletionDecision = row.citizenCompletionDecision
        /\ new.completionPolicy = row.completionPolicy
        /\ new.assignedProviderId = row.assignedProviderId
    BY <2>2, <2>4, PatchedColumns, SomeColumns
  <2>6. OwnerFits(row, new)
    BY <2>2, <2>4, QuietColumns
  <2>7. DecisionFits(row, new)
    BY <2>5 DEF DecisionFits
  <2>8. ClosureFits(row, new)
    BY <1>a, <2>3, <2>5 DEF ClosureFits
  <2>9. BothDecided(new)
    BY <1>b, <1>c, <2>3, <2>5 DEF BothDecided, isCompletionSatisfied
  <2>10. CustodyFits(row, new)
    BY <2>5, Stages DEF CustodyFits
  <2> QED
    BY <2>1, <2>2, <2>6, <2>7, <2>8, <2>9, <2>10 DEF Fits
<1> QED BY <1>1, <1>2

\* Rework sets a decision aside that was not given: the reviewer's own, or
\* for governance the organization's, which is escalated.
LEMMA ReworkFits ==
    ASSUME NEW op, NEW row, NEW data, row.status # "CLOSED",
           {"status"} \subseteq DOMAIN data, data.status = "ASSIGNED",
           DOMAIN data \subseteq {"status", "citizenCompletionDecision",
                "organizationCompletionDecision", "completionReviewState"},
           "citizenCompletionDecision" \in DOMAIN data
              => /\ row.citizenCompletionDecision # "CONFIRMED"
                 /\ data.citizenCompletionDecision # "CONFIRMED",
           "organizationCompletionDecision" \in DOMAIN data
              => /\ \/ row.organizationCompletionDecision # "VERIFIED"
                    \/ data.organizationCompletionDecision = "ESCALATED"
                 /\ data.organizationCompletionDecision # "VERIFIED",
           row.status \in Statuses
    PROVE  Fits(op, row, Patched(row, data))
<1>1. PICK new : new = Patched(row, data) OBVIOUS
<1>2. /\ new.status = "ASSIGNED"
      /\ new.assignedProviderId = row.assignedProviderId
      /\ new.completionPolicy = row.completionPolicy
      /\ new.completionFinalizedByRole = row.completionFinalizedByRole
      /\ \/ new.citizenCompletionDecision = row.citizenCompletionDecision
         \/ "CONFIRMED" \notin {row.citizenCompletionDecision,
                                new.citizenCompletionDecision}
      /\ \/ new.organizationCompletionDecision
               = row.organizationCompletionDecision
         \/ new.organizationCompletionDecision = "ESCALATED"
         \/ "VERIFIED" \notin {row.organizationCompletionDecision,
                               new.organizationCompletionDecision}
  BY <1>1, PatchedColumns, SomeColumns
<1>3. OwnerFits(row, new) /\ ClosureFits(row, new)
  BY <1>1, <1>2, QuietColumns
<1>4. DecisionFits(row, new)
  BY <1>2 DEF DecisionFits
<1>5. BothDecided(row) => BothDecided(new)
  BY <1>2 DEF BothDecided
<1>6. CustodyFits(row, new)
  BY <1>2, Stages DEF CustodyFits, Statuses
<1> QED
  BY <1>1, <1>3, <1>4, <1>5, <1>6 DEF Fits

\* Governance and the deadline processor close.
LEMMA FinalClosureFits ==
    ASSUME NEW op, NEW row, NEW data, NEW new, new = Patched(row, data),
           row.status \in Statuses,
           {"status", "completionFinalizedByRole"} \subseteq DOMAIN data,
           {"organizationId", "assignedProviderId", "completionPolicy",
            "citizenCompletionDecision", "organizationCompletionDecision"}
                \cap DOMAIN data = {},
           data.status = "CLOSED", data.completionFinalizedByRole # Null,
           ClosureFits(row, new)
    PROVE  Fits(op, row, new)
<1>1. /\ new.status = "CLOSED"
      /\ new.completionFinalizedByRole # Null
      /\ new.assignedProviderId = row.assignedProviderId
      /\ new.citizenCompletionDecision = row.citizenCompletionDecision
      /\ new.organizationCompletionDecision = row.organizationCompletionDecision
  BY PatchedColumns, SomeColumns
<1>2. OwnerFits(row, new)
  BY QuietColumns
<1>3. DecisionFits(row, new)
  BY <1>1 DEF DecisionFits
<1>4. BothDecided(new)
  BY <1>1 DEF BothDecided
<1>5. CustodyFits(row, new)
  BY <1>1, Stages DEF CustodyFits, Statuses
<1> QED
  BY <1>2, <1>3, <1>4, <1>5 DEF Fits

\* Holds and reopening leave decisions and owner alone.
LEMMA HoldFits ==
    ASSUME NEW op, NEW row, NEW state, NEW mark
    PROVE  /\ Fits(op, row, Patched(row,
                [completionGovernanceHoldReason |-> mark,
                 completionReviewState |-> state]))
           /\ row.status = "CLOSED"
              => Fits(op, row, Patched(row, [status |-> "COMPLETED_BY_PROVIDER",
                                             completionReviewState |-> state]))
<1>1. Fits(op, row, Patched(row, [completionGovernanceHoldReason |-> mark,
                                  completionReviewState |-> state]))
  <2>1. PICK data : data = [completionGovernanceHoldReason |-> mark,
                            completionReviewState |-> state]
    OBVIOUS
  <2> QED
    BY <2>1, QuietColumns DEF Fits
<1>2. ASSUME row.status = "CLOSED"
      PROVE  Fits(op, row, Patched(row, [status |-> "COMPLETED_BY_PROVIDER",
                                         completionReviewState |-> state]))
  <2>1. PICK data : data = [status |-> "COMPLETED_BY_PROVIDER",
                            completionReviewState |-> state]
    OBVIOUS
  <2>2. PICK new : new = Patched(row, data) OBVIOUS
  <2>3. /\ new.status = "COMPLETED_BY_PROVIDER"
        /\ new.assignedProviderId = row.assignedProviderId
    BY <2>1, <2>2, PatchedColumns, SomeColumns
  <2>4. CustodyFits(row, new)
    BY <1>2, <2>3, Stages DEF CustodyFits
  <2> QED
    BY <2>1, <2>2, <2>3, <2>4, QuietColumns DEF Fits
<1> QED BY <1>1, <1>2

\* An override of the policy changes when decisions close a report, and none
\* of the decisions.
LEMMA OverrideFits ==
    ASSUME NEW op, NEW row, NEW state, NEW policy \in OverridePolicies
    PROVE  Fits(op, row, Patched(row, [completionPolicy |-> policy,
                                       completionReviewState |-> state]))
<1>1. PICK data : data = [completionPolicy |-> policy,
                          completionReviewState |-> state]
  OBVIOUS
<1>2. PICK new : new = Patched(row, data) OBVIOUS
<1>3. /\ new.completionPolicy = policy
      /\ new.citizenCompletionDecision = row.citizenCompletionDecision
      /\ new.organizationCompletionDecision = row.organizationCompletionDecision
  BY <1>1, <1>2, PatchedColumns, SomeColumns
<1>4. DecisionFits(row, new)
  BY <1>3 DEF DecisionFits
<1>5. "BOTH_REQUIRED" \notin OverridePolicies => BothDecided(new)
  BY <1>3 DEF BothDecided
<1> QED
  BY <1>1, <1>2, <1>4, <1>5, QuietColumns DEF Fits

-----------------------------------------------------------------------------
(* The steps of serial service *)

\* Two rows that agree on these columns, except that a deadline may have
\* passed, are the same to every check.
SameButLater(row, later) ==
    /\ \A k \in {"status", "organizationId", "assignedOrganizationId",
                 "assignedProviderId", "completionPolicy",
                 "completionReviewState", "completionFinalizedByRole",
                 "completionGovernanceHoldReason",
                 "completionReviewProcessedAt", "citizenCompletionDecision",
                 "organizationCompletionDecision"} : later[k] = row[k]
    /\ row.completionReviewDeadlineAt = "BEHIND"
         => later.completionReviewDeadlineAt = "BEHIND"

\* What fits a row still fits when a deadline has passed since.
LEMMA LaterFits ==
    ASSUME NEW op, NEW row, NEW later, NEW data, SameButLater(row, later)
    PROVE  /\ RowInOrder(row) => RowInOrder(later)
           /\ Fits(op, row, Patched(row, data))
              => Fits(op, later, Patched(later, data))
<1>1. PICK new : new = Patched(row, data) OBVIOUS
<1>2. PICK next : next = Patched(later, data) OBVIOUS
<1>3. /\ next.status = new.status
      /\ next.organizationId = new.organizationId
      /\ next.assignedOrganizationId = new.assignedOrganizationId
      /\ next.assignedProviderId = new.assignedProviderId
      /\ next.completionPolicy = new.completionPolicy
      /\ next.completionFinalizedByRole = new.completionFinalizedByRole
      /\ next.citizenCompletionDecision = new.citizenCompletionDecision
      /\ next.organizationCompletionDecision
            = new.organizationCompletionDecision
  BY <1>1, <1>2, PatchedColumns, SomeColumns DEF SameButLater
<1>4. /\ later.status = row.status
      /\ later.organizationId = row.organizationId
      /\ later.assignedProviderId = row.assignedProviderId
      /\ later.completionPolicy = row.completionPolicy
      /\ later.completionReviewState = row.completionReviewState
      /\ later.completionFinalizedByRole = row.completionFinalizedByRole
      /\ later.completionGovernanceHoldReason
            = row.completionGovernanceHoldReason
      /\ later.completionReviewProcessedAt = row.completionReviewProcessedAt
      /\ later.citizenCompletionDecision = row.citizenCompletionDecision
      /\ later.organizationCompletionDecision
            = row.organizationCompletionDecision
      /\ row.completionReviewDeadlineAt = "BEHIND"
            => later.completionReviewDeadlineAt = "BEHIND"
  BY DEF SameButLater
<1>5. Stage(later) = Stage(row) /\ Stage(next) = Stage(new)
  BY <1>3, <1>4 DEF Stage
<1>6. OwnerFits(row, new) => OwnerFits(later, next)
  BY <1>3, <1>4 DEF OwnerFits
<1>7. DecisionFits(row, new) => DecisionFits(later, next)
  BY <1>3, <1>4 DEF DecisionFits
<1>8. ClosureFits(row, new) => ClosureFits(later, next)
  <2>1. OnHold(later) = OnHold(row)
    BY <1>4 DEF OnHold
  <2>2. DueForFallback(row) => DueForFallback(later)
    BY <1>4 DEF DueForFallback, OnHold, UnderDispute, UnderRework
  <2>3. NoActiveCompletionBlockers(row) => NoActiveCompletionBlockers(later)
    BY <1>4
    DEF NoActiveCompletionBlockers, OnHold, UnderDispute, UnderRework
  <2>4. policyForReport(later) = policyForReport(row)
    BY <1>4 DEF policyForReport
  <2> QED
    BY <1>3, <1>4, <2>1, <2>2, <2>3, <2>4 DEF ClosureFits
<1>9. /\ BothDecided(later) <=> BothDecided(row)
      /\ BothDecided(next) <=> BothDecided(new)
  BY <1>3, <1>4 DEF BothDecided
<1>10. CustodyFits(row, new) => CustodyFits(later, next)
  BY <1>3, <1>4, <1>5 DEF CustodyFits
<1>11. RowInOrder(row) => RowInOrder(later)
  BY <1>4, <1>5, <1>9 DEF RowInOrder
<1> QED
  BY <1>1, <1>2, <1>6, <1>7, <1>8, <1>9, <1>10, <1>11 DEF Fits

\* A request may go on to any record whose writes fit.
LEMMA FittingStep ==
    ASSUME LedgerInv, SerialFits, NEW c \in Requests, NEW q,
           req' = [req EXCEPT ![c] = q], UNCHANGED report, RequestFits(q)
    PROVE  SerialFits'
<1>1. req'[c] = q /\ \A d \in Requests \ {c} : req'[d] = req[d]
  BY DEF LedgerInv, TypeOK
<1>2. \A d \in Requests : RequestFits(req[d])'
  <2> SUFFICES ASSUME NEW d \in Requests PROVE RequestFits(req[d])'
    OBVIOUS
  <2>1. RequestFits(req'[d])
    BY <1>1 DEF SerialFits
  <2> QED
    BY <2>1 DEF RequestFits, FitsNow
<1> QED
  BY <1>2 DEF SerialFits

\* A handler that has done its work fits.
LEMMA IdleFits ==
    ASSUME LedgerInv, SerialFits, NEW c \in Requests,
           req' = [req EXCEPT ![c] = Idle], UNCHANGED report
    PROVE  SerialFits'
<1>1. RequestFits(Idle)
  BY DEF RequestFits, Idle
<1> QED BY <1>1, FittingStep

LEMMA ServeFits ==
    ASSUME LedgerInv, SerialFits, NEW c \in Requests, NEW op, NEW writes,
           NEW then, NEW user, NEW id, NEW provider,
           Serve(c, op, writes, then, user, id, provider),
           \A w \in writes : FitsNow(op, w),
           \A v, w \in writes : v.id = w.id => v = w,
           op = "operatorStatus" =>
             then = "RETURN" /\ \A w \in writes : w.id = id
    PROVE  SerialFits'
<1> DEFINE q == [op |-> op, writes |-> writes, then |-> then,
                 user |-> user, id |-> id, provider |-> provider]
<1>1. req' = [req EXCEPT ![c] = q] /\ UNCHANGED report
  BY DEF Serve
<1>2. q.op = op /\ q.writes = writes /\ q.then = then /\ q.id = id
  OBVIOUS
<1> HIDE DEF q
<1>3. RequestFits(q)
  BY <1>2 DEF RequestFits
<1> QED
  BY <1>1, <1>3, FittingStep

LEMMA UpdateFits ==
    ASSUME LedgerInv, SerialFits, NEW c \in Requests, NEW op, NEW r, NEW data,
           Update(c, op, r, data),
           Fits(op, report[r], Patched(report[r], data))
    PROVE  SerialFits'
<1> DEFINE ws == {Write(r, Null, data)}
<1>1. \A w \in ws : w.id = r /\ w.data = data
  BY RecordFields
<1>2. \A w \in ws : FitsNow(op, w)
  BY <1>1 DEF FitsNow
<1>3. \A v, w \in ws : v.id = w.id => v = w
  OBVIOUS
<1>4. Serve(c, op, ws, "RETURN", Null, r, Null)
  BY DEF Update
<1> HIDE DEF ws
<1> QED
  BY <1>1, <1>2, <1>3, <1>4, ServeFits

\* Making a fitting write keeps the other pending writes of the handler
\* fitting: they are for other rows.
LEMMA CommitFits ==
    ASSUME Serial, LedgerInv, SerialFits, NEW c \in Requests, CommitWrite(c)
    PROVE  SerialFits'
<1>1. PICK w \in req[c].writes :
        /\ report' = [report EXCEPT ![w.id] = Patched(@, w.data)]
        /\ req' = [req EXCEPT ![c] = After(c, w)]
  BY DEF CommitWrite
<1>2. /\ w.id \in DOMAIN report
      /\ RequestFits(req[c])
      /\ RowInOrder(report[w.id])
      /\ IsRow(report[w.id]) /\ IsPatch(w.data)
  BY DEF LedgerInv, TypeOK, RequestOK, WriteOK, SerialFits
<1>3. /\ DOMAIN report' = DOMAIN report
      /\ report'[w.id] = Patched(report[w.id], w.data)
      /\ \A r \in DOMAIN report \ {w.id} : report'[r] = report[r]
  BY <1>1, <1>2 DEF LedgerInv, TypeOK
<1>4. \A d \in Requests : d = c
  BY DEF Serial
<1>5. req'[c] = After(c, w)
  BY <1>1 DEF LedgerInv, TypeOK
<1>6. PICK new : new = Patched(report[w.id], w.data) OBVIOUS
<1>7. Fits(req[c].op, report[w.id], new)
  BY <1>2, <1>6 DEF RequestFits, FitsNow
<1>8. RowInOrder(new)
  <2>1. CustodyFits(report[w.id], new)
    BY <1>7 DEF Fits
  <2>2. Stage(new) \in {"routing", "queued"} => new.assignedProviderId = Null
    BY <1>2, <2>1 DEF CustodyFits, RowInOrder
  <2> QED
    BY <1>2, <1>7, <2>2 DEF RowInOrder, Fits
<1>9. \A r \in DOMAIN report' : RowInOrder(report'[r])
  BY <1>3, <1>6, <1>8 DEF SerialFits
<1>10. /\ After(c, w).writes \subseteq req[c].writes \ {w}
       /\ After(c, w) = Idle \/ After(c, w) = [req[c] EXCEPT
                                        !.writes = req[c].writes \ {w}]
       /\ DOMAIN req[c] = DOMAIN Idle
  BY RecordFields DEF After, LedgerInv, TypeOK, RequestOK
<1>11. RequestFits(req[c])'
  <2>1. CASE After(c, w) = Idle
    BY <1>5, <2>1 DEF RequestFits, Idle
  <2>2. CASE After(c, w) = [req[c] EXCEPT !.writes = req[c].writes \ {w}]
    <3>1. /\ req'[c].writes = req[c].writes \ {w}
          /\ req'[c].op = req[c].op
          /\ req'[c].then = req[c].then
          /\ req'[c].id = req[c].id
      BY <1>5, <1>10, <2>2 DEF Idle
    <3>2. \A v \in req'[c].writes :
            report'[v.id] = report[v.id] /\ FitsNow(req[c].op, v)
      <4> SUFFICES ASSUME NEW v \in req'[c].writes
                   PROVE  report'[v.id] = report[v.id] /\ FitsNow(req[c].op, v)
        OBVIOUS
      <4>1. v \in req[c].writes /\ v.id # w.id
        BY <1>2, <3>1 DEF RequestFits
      <4>2. v.id \in DOMAIN report
        BY <4>1 DEF LedgerInv, TypeOK, RequestOK, WriteOK
      <4> QED
        BY <1>2, <1>3, <4>1, <4>2 DEF RequestFits
    <3>3. (\A v \in req[c].writes : FitsNow(req[c].op, v))'
      BY <3>1, <3>2 DEF FitsNow
    <3> QED
      BY <1>2, <3>1, <3>3 DEF RequestFits
  <2> QED BY <1>10, <2>1, <2>2
<1> QED
  BY <1>4, <1>9, <1>11 DEF SerialFits

\* The clock leaves every pending write fitting.
LEMMA ClockFits ==
    ASSUME LedgerInv, SerialFits, NEW r \in Reports,
           AssignmentWindowEnds(r) \/ ReviewWindowEnds(r)
    PROVE  SerialFits'
<1>1. /\ r \in DOMAIN report
      /\ UNCHANGED req
      /\ DOMAIN report' = DOMAIN report
      /\ \A x \in DOMAIN report \ {r} : report'[x] = report[x]
      /\ \/ report'[r] = Patched(report[r], [assignmentDeadlineAt |-> "BEHIND"])
         \/ report'[r] = Patched(report[r],
                                 [completionReviewDeadlineAt |-> "BEHIND"])
  BY DEF AssignmentWindowEnds, ReviewWindowEnds, Exists, LedgerInv, TypeOK
<1>2. SameButLater(report[r], report'[r])
  <2>1. ASSUME NEW mark,
               mark = [assignmentDeadlineAt |-> "BEHIND"]
               \/ mark = [completionReviewDeadlineAt |-> "BEHIND"],
               report'[r] = Patched(report[r], mark)
        PROVE  SameButLater(report[r], report'[r])
    <3>1. \/ DOMAIN mark = {"assignmentDeadlineAt"}
          \/ /\ DOMAIN mark = {"completionReviewDeadlineAt"}
             /\ mark.completionReviewDeadlineAt = "BEHIND"
      BY <2>1
    <3> QED
      BY <2>1, <3>1, PatchedColumns, SomeColumns DEF SameButLater
  <2> QED BY <1>1, <2>1
<1>3. \A x \in DOMAIN report : SameButLater(report[x], report'[x])
  BY <1>1, <1>2 DEF SameButLater
<1>4. \A x \in DOMAIN report' : RowInOrder(report'[x])
  BY <1>1, <1>3, LaterFits DEF SerialFits
<1>5. ASSUME NEW c \in Requests
      PROVE  RequestFits(req[c])'
  <2>1. RequestFits(req[c]) /\ req'[c] = req[c]
    BY <1>1 DEF SerialFits
  <2>2. ASSUME NEW w \in req[c].writes
        PROVE  FitsNow(req[c].op, w)'
    <3>1. w.id \in DOMAIN report /\ FitsNow(req[c].op, w)
      BY <2>1 DEF LedgerInv, TypeOK, RequestOK, WriteOK, RequestFits
    <3>2. Fits(req[c].op, report'[w.id], Patched(report'[w.id], w.data))
      BY <1>3, <3>1, LaterFits DEF FitsNow
    <3> QED
      BY <1>1, <3>2 DEF FitsNow
  <2> QED
    BY <2>1, <2>2 DEF RequestFits
<1> QED
  BY <1>4, <1>5 DEF SerialFits

\* A new report is a row in order, and no pending write is for it.
LEMMA IntakeFits ==
    ASSUME LedgerInv, SerialFits, NEW r \in Reports, NEW home \in Organizations,
           NEW match \in Organizations \cup {Null}, createReport(r, home, match)
    PROVE  SerialFits'
<1>1. /\ r \notin DOMAIN report
      /\ UNCHANGED req
      /\ DOMAIN report' = DOMAIN report \cup {r}
      /\ report'[r] = NewReport(home, match)
      /\ \A x \in DOMAIN report : report'[x] = report[x]
  BY DEF createReport, Exists
<1>2. RowInOrder(NewReport(home, match))
  <2>1. PICK new : new = NewReport(home, match) OBVIOUS
  <2>2. /\ new.assignedProviderId = Null
        /\ new.completionPolicy = Null
    BY <2>1 DEF NewReport, Patched, Columns, ColumnType
  <2>3. BothDecided(new)
    BY <2>2, NullIsNoValue DEF BothDecided, CompletionPolicies
  <2> QED
    BY <2>1, <2>2, <2>3 DEF RowInOrder
<1>3. \A x \in DOMAIN report' : RowInOrder(report'[x])
  BY <1>1, <1>2 DEF SerialFits
<1>4. ASSUME NEW c \in Requests
      PROVE  RequestFits(req[c])'
  <2>1. RequestFits(req[c]) /\ req'[c] = req[c]
    BY <1>1 DEF SerialFits
  <2>2. ASSUME NEW w \in req[c].writes
        PROVE  FitsNow(req[c].op, w)'
    <3>1. w.id \in DOMAIN report /\ FitsNow(req[c].op, w)
      BY <2>1 DEF LedgerInv, TypeOK, RequestOK, WriteOK, RequestFits
    <3> QED
      BY <1>1, <3>1 DEF FitsNow
  <2> QED
    BY <2>1, <2>2 DEF RequestFits
<1> QED
  BY <1>3, <1>4 DEF SerialFits

\* Every handler of intake, routing, assignment and provider work decides on
\* writes that fit the rows it has read.
LEMMA DispatchHandlersFit ==
    ASSUME LedgerInv, SerialFits, DispatchNext
    PROVE  SerialFits'
<1>a. \A r : Exists(r) =>
        /\ r \in DOMAIN report /\ IsRow(report[r]) /\ RowInOrder(report[r])
        /\ LedgerAgrees(report[r])
  BY DEF Exists, LedgerInv, TypeOK, SerialFits, DispatchLedger
<1>b. \A rs : /\ \A w \in OverdueWrites(rs) : \A op : FitsNow(op, w)
              /\ \A v, w \in OverdueWrites(rs) : v.id = w.id => v = w
  <2> SUFFICES ASSUME NEW rs
               PROVE  /\ \A w \in OverdueWrites(rs) : \A op : FitsNow(op, w)
                      /\ \A v, w \in OverdueWrites(rs) : v.id = w.id => v = w
    OBVIOUS
  <2>1. ASSUME NEW w \in OverdueWrites(rs)
        PROVE  /\ \A op : FitsNow(op, w)
               /\ w = Write(w.id, Null,
                        UnassignmentData(report[w.id].assignedProviderId,
                                         "TIMED_OUT"))
    <3>1. PICK r : /\ Exists(r) /\ Overdue(report[r])
                   /\ w = Write(r, Null,
                            UnassignmentData(report[r].assignedProviderId,
                                             "TIMED_OUT"))
      BY <2>1 DEF OverdueWrites
    <3>2. /\ w.id = r
          /\ w.data = UnassignmentData(report[r].assignedProviderId, "TIMED_OUT")
      BY <3>1, RecordFields
    <3>3. report[r].assignedProviderId # Null
      BY <1>a, <3>1, NullIsNoValue DEF LedgerAgrees, Overdue, DeadlineMarks
    <3>4. PICK p \in Providers : p = report[r].assignedProviderId
      BY <1>a, <3>1, <3>3, RowValues
    <3>5. \A op : Fits(op, report[r], Patched(report[r], w.data))
      BY <3>2, <3>3, <3>4, ProviderFits
    <3> QED
      BY <3>1, <3>2, <3>5 DEF FitsNow
  <2> QED BY <2>1
<1>1. ASSUME NEW c \in Requests, ReassignSecondHalf(c)
      PROVE  SerialFits'
  <2>1. /\ req[c].id \in DOMAIN report
        /\ req[c].provider \in Providers
        /\ req[c].then = "ASSIGN"
        /\ UNCHANGED report
        /\ RequestFits(req[c])
        /\ DOMAIN req[c] = DOMAIN Idle
    BY <1>1 DEF ReassignSecondHalf, Reassigning, LedgerInv, TypeOK, RequestOK,
                SerialFits
  <2>2. CASE AssignmentAllowed(report[req[c].id], req[c].user,
                               req[c].provider, FALSE)
    <3> DEFINE w == Write(req[c].id, Null, AssignmentData(req[c].provider))
               q == [[req[c] EXCEPT !.writes = {w}] EXCEPT !.then = "RETURN"]
    <3>1. req' = [req EXCEPT ![c] = q]
      BY <1>1, <2>2 DEF ReassignSecondHalf, LedgerInv, TypeOK
    <3>2. /\ q.writes = {w}
          /\ q.op = req[c].op
          /\ q.then = "RETURN"
      BY <2>1 DEF Idle
    <3>3. w.id = req[c].id /\ w.data = AssignmentData(req[c].provider)
      BY RecordFields
    <3>4. Fits(q.op, report[w.id], Patched(report[w.id], w.data))
      BY <2>1, <2>2, <3>3, ProviderFits DEF AssignmentAllowed
    <3>5. q.op # "operatorStatus"
      BY <2>1, <3>2 DEF RequestFits
    <3> HIDE DEF q, w
    <3>6. RequestFits(q)
      BY <3>2, <3>4, <3>5 DEF RequestFits, FitsNow
    <3> QED
      BY <2>1, <3>1, <3>6, FittingStep
  <2>3. CASE ~AssignmentAllowed(report[req[c].id], req[c].user,
                                req[c].provider, FALSE)
    BY <1>1, <2>1, <2>3, IdleFits DEF ReassignSecondHalf
  <2> QED BY <2>2, <2>3
<1>2. ASSUME NEW c \in Requests, ExpireOwnOffers(c)
      PROVE  SerialFits'
  <2> DEFINE rs == {r \in Reports : Exists(r)
                        /\ report[r].assignedProviderId = req[c].provider}
             ws == OverdueWrites(rs)
  <2>1. /\ req[c].then = "EXPIRE"
        /\ UNCHANGED report
        /\ \/ req' = [req EXCEPT ![c] = Idle]
           \/ req' = [req EXCEPT ![c].writes = ws, ![c].then = "RETURN"]
        /\ RequestFits(req[c])
        /\ DOMAIN req[c] = DOMAIN Idle
    BY <1>2 DEF ExpireOwnOffers, LedgerInv, TypeOK, RequestOK, SerialFits
  <2>2. /\ \A w \in ws : \A op : FitsNow(op, w)
        /\ \A v, w \in ws : v.id = w.id => v = w
    BY <1>b
  <2> HIDE DEF ws
  <2>3. CASE req' = [req EXCEPT ![c] = Idle]
    BY <2>1, <2>3, IdleFits
  <2>4. CASE req' = [req EXCEPT ![c].writes = ws, ![c].then = "RETURN"]
    <3> DEFINE q == [[req[c] EXCEPT !.writes = ws] EXCEPT !.then = "RETURN"]
    <3>1. req' = [req EXCEPT ![c] = q]
      BY <2>4 DEF LedgerInv, TypeOK
    <3>2. q.writes = ws /\ q.op = req[c].op
      BY <2>1 DEF Idle
    <3>3. q.op # "operatorStatus"
      BY <2>1, <3>2 DEF RequestFits
    <3> HIDE DEF q
    <3>4. RequestFits(q)
      BY <2>2, <3>2, <3>3 DEF RequestFits
    <3> QED
      BY <2>1, <3>1, <3>4, FittingStep
  <2> QED BY <2>1, <2>3, <2>4
<1>3. ASSUME NEW c \in Requests, NEW r \in Reports, NEW org \in Organizations,
             NEW establish \in BOOLEAN,
             \/ assignOrganization(c, r, org, establish)
             \/ acceptOrganizationReport(c, r, org)
             \/ rejectOrganizationReport(c, r, org)
      PROVE  SerialFits'
  BY <1>3, <1>a, RoutingFits, UpdateFits
  DEF assignOrganization, acceptOrganizationReport, rejectOrganizationReport
<1>c. ASSUME NEW r, Exists(r), report[r].assignedProviderId # Null, NEW op
      PROVE  FitsNow(op, CancellationWrite(r))
  <2>1. PICK p \in Providers : p = report[r].assignedProviderId
    BY <1>a, <1>c, RowValues
  <2>2. /\ CancellationWrite(r).id = r
        /\ CancellationWrite(r).data = UnassignmentData(p, "REJECTED")
    BY <2>1, RecordFields DEF CancellationWrite
  <2>3. Fits(op, report[r], Patched(report[r], UnassignmentData(p, "REJECTED")))
    BY <1>c, <2>1, ProviderFits
  <2> QED
    BY <2>2, <2>3 DEF FitsNow
<1>4. ASSUME NEW c \in Requests, NEW user \in Operators, NEW r \in Reports,
             cancelAssignment(c, user, r)
      PROVE  SerialFits'
  <2> DEFINE ws == {CancellationWrite(r)}
  <2>1. \A w \in ws : FitsNow("cancelAssignment", w)
    BY <1>4, <1>c DEF cancelAssignment, CancellationAllowed
  <2>2. Serve(c, "cancelAssignment", ws, "RETURN", Null, r, Null)
    BY <1>4 DEF cancelAssignment
  <2>3. \A v, w \in ws : v.id = w.id => v = w
    OBVIOUS
  <2> HIDE DEF ws
  <2> QED
    BY <2>1, <2>2, <2>3, ServeFits
<1>5. ASSUME NEW c \in Requests, NEW user \in Operators, NEW r \in Reports,
             NEW p \in Providers, reassignProvider(c, user, r, p)
      PROVE  SerialFits'
  <2> DEFINE ws == IF report[r].assignedProviderId = Null THEN {}
                   ELSE {CancellationWrite(r)}
  <2>1. \A w \in ws : FitsNow("reassign", w)
    BY <1>5, <1>c DEF reassignProvider
  <2>2. Serve(c, "reassign", ws, "ASSIGN", user, r, p)
    BY <1>5 DEF reassignProvider
  <2>3. \A v, w \in ws : v.id = w.id => v = w
    OBVIOUS
  <2> HIDE DEF ws
  <2> QED
    BY <2>1, <2>2, <2>3, ServeFits
<1>6. ASSUME NEW c \in Requests, NEW user \in Operators, NEW r \in Reports,
             NEW p \in Providers, NEW override \in BOOLEAN,
             assignProviderById(c, user, r, p, override)
      PROVE  SerialFits'
  BY <1>6, <1>a, ProviderFits, UpdateFits
  DEF assignProviderById, AssignmentAllowed
<1>7. ASSUME NEW c \in Requests, NEW user \in Operators, NEW r \in Reports,
             NEW next \in Statuses, OperatorUpdatesStatus(c, user, r, next)
      PROVE  SerialFits'
  BY <1>7, <1>a, StatusFits, UpdateFits DEF OperatorUpdatesStatus
<1>8. ASSUME NEW c \in Requests, NEW user \in Operators,
             processOverdueAssignments(c, user)
      PROVE  SerialFits'
  <2> DEFINE ws == OverdueWrites({r \in Reports : Exists(r)
                                    /\ MayOperate(user, report[r])})
  <2>1. /\ \A w \in ws : FitsNow("expireOverdue", w)
        /\ \A v, w \in ws : v.id = w.id => v = w
    BY <1>b
  <2>2. Serve(c, "expireOverdue", ws, "RETURN", Null, Null, Null)
    BY <1>8 DEF processOverdueAssignments
  <2> HIDE DEF ws
  <2> QED
    BY <2>1, <2>2, ServeFits
<1>9. ASSUME NEW c \in Requests, NEW p \in Providers, NEW r \in Reports,
             AnswerTooLate(c, p, r)
      PROVE  SerialFits'
  BY <1>9, ServeFits DEF AnswerTooLate
<1>10. ASSUME NEW c \in Requests, NEW p \in Providers, NEW r \in Reports,
              rejectAssignment(c, p, r)
       PROVE  SerialFits'
  <2>1. report[r].assignedProviderId # Null
    BY <1>10, NullIsNoValue DEF rejectAssignment
  <2> QED
    BY <1>10, <2>1, ProviderFits, UpdateFits DEF rejectAssignment
<1>11. ASSUME NEW c \in Requests, NEW p \in Providers, NEW r \in Reports,
              NEW next \in Statuses, ProviderUpdatesStatus(c, p, r, next)
       PROVE  SerialFits'
  BY <1>11, <1>a, StatusFits, UpdateFits DEF ProviderUpdatesStatus
<1> QED
  BY <1>1, <1>2, <1>3, <1>4, <1>5, <1>6, <1>7, <1>8, <1>9, <1>10, <1>11,
     ClockFits, IntakeFits
  DEF DispatchNext

\* So does every handler of review, fallback and governance.
LEMMA ReviewHandlersFit ==
    ASSUME LedgerInv, SerialFits, ReviewNext
    PROVE  SerialFits'
<1>a. \A r : Exists(r) =>
        /\ r \in DOMAIN report /\ IsRow(report[r]) /\ RowInOrder(report[r])
        /\ report[r].status \in Statuses
  BY RowValues DEF Exists, LedgerInv, TypeOK, SerialFits
<1>1. ASSUME NEW c \in Requests, processCompletionReviewDeadlines(c)
      PROVE  SerialFits'
  <2> DEFINE due == {r \in Reports : Exists(r) /\ DueForFallback(report[r])}
             ws == {Write(r, "COMPLETED_BY_PROVIDER", FallbackData) : r \in due}
  <2>1. ASSUME NEW r \in due
        PROVE  Fits("processDeadlines", report[r],
                    Patched(report[r], FallbackData))
    <3>1. PICK new : new = Patched(report[r], FallbackData) OBVIOUS
    <3>2. new.completionFinalizedByRole = "PROCESSOR"
      BY <3>1, PatchedColumns, SomeColumns DEF FallbackData
    <3>3. ClosureFits(report[r], new)
      BY <2>1, <3>2 DEF ClosureFits, DueForFallback
    <3>4. "PROCESSOR" # Null
      BY NullIsNoValue
    <3>5. report[r].status \in Statuses
      BY <1>a, <2>1
    <3>6. PICK data : data = FallbackData OBVIOUS
    <3>7. /\ {"status", "completionFinalizedByRole"} \subseteq DOMAIN data
          /\ {"organizationId", "assignedProviderId", "completionPolicy",
              "citizenCompletionDecision", "organizationCompletionDecision"}
                \cap DOMAIN data = {}
          /\ data.status = "CLOSED"
          /\ data.completionFinalizedByRole = "PROCESSOR"
      BY <3>6 DEF FallbackData
    <3> QED
      BY <3>1, <3>3, <3>4, <3>5, <3>6, <3>7, FinalClosureFits
  <2>2. \A w \in ws : /\ w.id \in due
                      /\ w = Write(w.id, "COMPLETED_BY_PROVIDER", FallbackData)
                      /\ w.data = FallbackData
    BY RecordFields
  <2>3. /\ \A w \in ws : FitsNow("processDeadlines", w)
        /\ \A v, w \in ws : v.id = w.id => v = w
    BY <2>1, <2>2 DEF FitsNow
  <2>4. Serve(c, "processDeadlines", ws, "RETURN", Null, Null, Null)
    BY <1>1 DEF processCompletionReviewDeadlines
  <2> HIDE DEF ws
  <2> QED
    BY <2>3, <2>4, ServeFits
<1>2. ASSUME NEW c \in Requests, NEW r \in Reports,
             \/ confirmCitizenCompletion(c, r)
             \/ verifyOrganizationCompletion(c, r)
      PROVE  SerialFits'
  BY <1>2, <1>a, ApprovalFits, UpdateFits
  DEF confirmCitizenCompletion, verifyOrganizationCompletion
<1>3. ASSUME NEW c \in Requests, NEW r \in Reports,
             rejectCitizenCompletion(c, r)
      PROVE  SerialFits'
  <2>1. PICK data : data = [status |-> "ASSIGNED",
                            citizenCompletionDecision |-> "REWORK_REQUESTED",
                            completionReviewState |-> "REWORK_REQUESTED"]
    OBVIOUS
  <2>2. Fits("citizenReject", report[r], Patched(report[r], data))
    BY <1>3, <1>a, <2>1, ReworkFits DEF rejectCitizenCompletion
  <2> QED
    BY <1>3, <2>1, <2>2, UpdateFits DEF rejectCitizenCompletion
<1>4. ASSUME NEW c \in Requests, NEW r \in Reports,
             requestOrganizationCompletionRework(c, r)
      PROVE  SerialFits'
  <2>1. PICK data :
          data = [status |-> "ASSIGNED",
                  organizationCompletionDecision |-> "REWORK_REQUESTED",
                  completionReviewState |-> "REWORK_REQUESTED"]
    OBVIOUS
  <2>2. Fits("organizationRework", report[r], Patched(report[r], data))
    BY <1>4, <1>a, <2>1, ReworkFits DEF requestOrganizationCompletionRework
  <2> QED
    BY <1>4, <2>1, <2>2, UpdateFits DEF requestOrganizationCompletionRework
<1>5. ASSUME NEW c \in Requests, NEW r \in Reports,
             adminReturnForCompletionRework(c, r)
      PROVE  SerialFits'
  <2>1. PICK data : data = [status |-> "ASSIGNED",
                            completionReviewState |-> "REWORK_REQUESTED",
                            organizationCompletionDecision |-> "ESCALATED"]
    OBVIOUS
  <2>2. Fits("adminRework", report[r], Patched(report[r], data))
    BY <1>5, <1>a, <2>1, ReworkFits DEF adminReturnForCompletionRework
  <2> QED
    BY <1>5, <2>1, <2>2, UpdateFits DEF adminReturnForCompletionRework
<1>6. ASSUME NEW c \in Requests, NEW r \in Reports, adminResolveAndClose(c, r)
      PROVE  SerialFits'
  <2>1. PICK data : data = [status |-> "CLOSED",
                            completionReviewState |-> "CLOSED",
                            completionFinalActorType |-> "SUPER_ADMIN_GOVERNANCE",
                            completionFinalizedByRole |-> "SUPER_ADMIN"]
    OBVIOUS
  <2>2. PICK new : new = Patched(report[r], data) OBVIOUS
  <2>3. new.completionFinalizedByRole = "SUPER_ADMIN"
    BY <2>1, <2>2, PatchedColumns, SomeColumns
  <2>4. ClosureFits(report[r], new)
    BY <1>6, <2>3 DEF ClosureFits, adminResolveAndClose
  <2>5. report[r].status \in Statuses /\ "SUPER_ADMIN" # Null
    BY <1>6, <1>a, NullIsNoValue DEF adminResolveAndClose
  <2>6. Fits("adminResolve", report[r], new)
    BY <2>1, <2>2, <2>4, <2>5, FinalClosureFits
  <2> QED
    BY <1>6, <2>1, <2>2, <2>6, UpdateFits DEF adminResolveAndClose
<1>b. \A op, r : \A state, mark :
        /\ Fits(op, report[r], Patched(report[r],
                 [completionGovernanceHoldReason |-> mark,
                  completionReviewState |-> state]))
        /\ report[r].status = "CLOSED"
           => Fits(op, report[r], Patched(report[r],
                   [status |-> "COMPLETED_BY_PROVIDER",
                    completionReviewState |-> state]))
  BY HoldFits
<1>7. ASSUME NEW c \in Requests, NEW r \in Reports,
             adminPlaceCompletionHold(c, r) \/ adminRemoveCompletionHold(c, r)
      PROVE  SerialFits'
  BY <1>7, <1>b, UpdateFits
  DEF adminPlaceCompletionHold, adminRemoveCompletionHold
<1>8. ASSUME NEW c \in Requests, NEW r \in Reports, adminReopenCompletion(c, r)
      PROVE  SerialFits'
  BY <1>8, <1>b, UpdateFits DEF adminReopenCompletion
<1>9. ASSUME NEW c \in Requests, NEW r \in Reports,
             NEW policy \in OverridePolicies,
             adminOverrideCompletionPolicy(c, r, policy)
      PROVE  SerialFits'
  BY <1>9, OverrideFits, UpdateFits DEF adminOverrideCompletionPolicy
<1> QED
  BY <1>1, <1>2, <1>3, <1>4, <1>5, <1>6, <1>7, <1>8, <1>9, ClockFits
  DEF ReviewNext

\* Served one at a time, every pending write fits the row it is for.
LEMMA SerialInvariant == Serial => (Spec => []SerialFits)
<1> SUFFICES ASSUME Serial PROVE Spec => []SerialFits
  OBVIOUS
<1>1. Init => SerialFits
  <2> SUFFICES ASSUME Init PROVE SerialFits
    OBVIOUS
  <2>1. PICK existing \in SUBSET Reports : report \in [existing -> LegacyReports]
    BY DEF Init
  <2>2. ASSUME NEW r \in DOMAIN report
        PROVE  RowInOrder(report[r])
    <3>1. PICK home \in Organizations : report[r] = LegacyReport(home)
      BY <2>1 DEF LegacyReports
    <3>2. /\ report[r].assignedProviderId = Null
          /\ report[r].completionPolicy = Null
      BY <3>1 DEF LegacyReport, NewReport, Patched, Columns, ColumnType
    <3>3. BothDecided(report[r])
      BY <3>2, NullIsNoValue DEF BothDecided, CompletionPolicies
    <3> QED
      BY <3>2, <3>3 DEF RowInOrder
  <2>3. \A c \in Requests : RequestFits(req[c])
    BY DEF Init, RequestFits, Idle
  <2> QED
    BY <2>2, <2>3 DEF SerialFits
<1>2. LedgerInv /\ SerialFits /\ [Next]_vars => SerialFits'
  <2> SUFFICES ASSUME LedgerInv, SerialFits, [Next]_vars PROVE SerialFits'
    OBVIOUS
  <2>1. ASSUME NEW c \in Requests, MissedWrite(c) \/ Abandon(c)
        PROVE  SerialFits'
    BY <2>1, IdleFits DEF MissedWrite, Abandon
  <2>2. CASE UNCHANGED vars
    BY <2>2 DEF vars, SerialFits, RequestFits, FitsNow
  <2> QED
    BY <2>1, <2>2, DispatchHandlersFit, ReviewHandlersFit, CommitFits DEF Next
<1> QED
  BY <1>1, <1>2, LedgerInvariant, PTL DEF Spec

\* What a step of serial service may make of a row.
LEMMA RowsFit ==
    ASSUME Serial, LedgerInv, SerialFits, Next, NEW r \in DOMAIN report
    PROVE  /\ r \in DOMAIN report'
           /\ OwnerFits(report[r], report'[r])
           /\ DecisionFits(report[r], report'[r])
           /\ CustodyFits(report[r], report'[r])
           /\ ClosureFits(report[r], report'[r]) \/ StatusPatched(r)
<1> DEFINE Kept(row, new) ==
        /\ OwnerFits(row, new)
        /\ DecisionFits(row, new)
        /\ CustodyFits(row, new)
        /\ ClosureFits(row, new)
<1>a. \A row : Kept(row, row)
  BY DEF OwnerFits, DecisionFits, CustodyFits, ClosureFits
<1>1. ASSUME NEW c \in Requests, CommitWrite(c)
      PROVE  /\ r \in DOMAIN report'
             /\ OwnerFits(report[r], report'[r])
             /\ DecisionFits(report[r], report'[r])
             /\ CustodyFits(report[r], report'[r])
             /\ ClosureFits(report[r], report'[r]) \/ StatusPatched(r)
  <2>1. PICK w \in req[c].writes :
          /\ report' = [report EXCEPT ![w.id] = Patched(@, w.data)]
          /\ req' = [req EXCEPT ![c] = After(c, w)]
    BY <1>1 DEF CommitWrite
  <2>2. w.id \in DOMAIN report /\ RequestFits(req[c])
    BY DEF LedgerInv, TypeOK, RequestOK, WriteOK, SerialFits
  <2>3. /\ DOMAIN report' = DOMAIN report
        /\ report'[w.id] = Patched(report[w.id], w.data)
        /\ \A x \in DOMAIN report \ {w.id} : report'[x] = report[x]
    BY <2>1, <2>2 DEF LedgerInv, TypeOK
  <2>4. CASE r # w.id
    BY <1>a, <2>3, <2>4
  <2>5. CASE r = w.id
    <3>1. Fits(req[c].op, report[r], report'[r])
      BY <2>2, <2>3, <2>5 DEF RequestFits, FitsNow
    <3>2. ClosureFits(report[r], report'[r]) \/ StatusPatched(r)
      <4> SUFFICES ASSUME ~ClosureFits(report[r], report'[r])
                   PROVE  StatusPatched(r)
        OBVIOUS
      <4>1. req[c].op = "operatorStatus"
        BY <3>1 DEF Fits
      <4>2. /\ req[c].then = "RETURN"
            /\ req[c].id = r
            /\ req[c].writes \ {w} = {}
        BY <2>2, <2>5, <4>1 DEF RequestFits
      <4>3. req'[c] = Idle
        BY <2>1, <4>2 DEF After, LedgerInv, TypeOK
      <4>4. report'[r] # report[r]
        BY DEF ClosureFits
      <4>5. report' # report
        BY <4>4
      <4> QED
        BY <4>1, <4>2, <4>3, <4>5 DEF StatusPatched
    <3> QED
      BY <2>3, <3>1, <3>2 DEF Fits
  <2> QED BY <2>4, <2>5
<1>2. ASSUME NEW x \in Reports, NEW home \in Organizations,
             NEW match \in Organizations \cup {Null},
             createReport(x, home, match)
      PROVE  r \in DOMAIN report' /\ report'[r] = report[r]
  BY <1>2 DEF createReport, Exists
<1>3. ASSUME NEW x \in Reports, AssignmentWindowEnds(x) \/ ReviewWindowEnds(x)
      PROVE  /\ r \in DOMAIN report'
             /\ Kept(report[r], report'[r])
  <2>1. /\ DOMAIN report' = DOMAIN report
        /\ x # r => report'[r] = report[r]
        /\ x = r =>
             \/ report'[r] = Patched(report[r],
                                     [assignmentDeadlineAt |-> "BEHIND"])
             \/ report'[r] = Patched(report[r],
                                     [completionReviewDeadlineAt |-> "BEHIND"])
    BY <1>3
    DEF AssignmentWindowEnds, ReviewWindowEnds, Exists, LedgerInv, TypeOK
  <2>2. ASSUME NEW mark, mark = [assignmentDeadlineAt |-> "BEHIND"]
                      \/ mark = [completionReviewDeadlineAt |-> "BEHIND"]
        PROVE  Kept(report[r], Patched(report[r], mark))
    BY <2>2, QuietColumns
  <2> QED
    BY <1>a, <2>1, <2>2
<1> QED
  BY <1>1, <1>2, <1>3, <1>a, RowsChange

\* One step of each of the four properties of serial service.
SerialStep ==
    \A r \in Reports : Exists(r) =>
        /\ OwnerFits(report[r], report'[r])
        /\ DecisionFits(report[r], report'[r])
        /\ ClosureFits(report[r], report'[r]) \/ StatusPatched(r)

LEMMA SerialSteps == Serial => (Spec => [][SerialStep]_vars)
<1> SUFFICES ASSUME Serial PROVE Spec => [][SerialStep]_vars
  OBVIOUS
<1>1. LedgerInv /\ SerialFits /\ [Next]_vars => [SerialStep]_vars
  BY RowsFit DEF SerialStep, Exists
<1> QED
  BY <1>1, LedgerInvariant, SerialInvariant, PTL DEF Spec

(***************************************************************************)
(* One request at a time, a report's owner changes only to the             *)
(* organization that the report is routed to, for any organizations,       *)
(* providers, policies and workload.                                       *)
(***************************************************************************)
THEOREM OwnerAlwaysRouted == Serial => (Spec => OwnerIsRouted)
<1>1. [SerialStep]_vars =>
        [\A r \in Reports :
           Exists(r) /\ report'[r].organizationId # report[r].organizationId
           => report'[r].organizationId
                 = report'[r].assignedOrganizationId]_vars
  BY DEF SerialStep, OwnerFits
<1> QED
  BY <1>1, SerialSteps, PTL DEF OwnerIsRouted

(***************************************************************************)
(* One request at a time, a reviewer's approval stands until a new         *)
(* submission sets both decisions aside, or governance escalates.          *)
(***************************************************************************)
THEOREM DecisionAlwaysStands == Serial => (Spec => DecisionStands)
<1>1. [SerialStep]_vars =>
        [\A r \in Reports :
           Exists(r) /\ ~NewAttempt(r) =>
             /\ report[r].citizenCompletionDecision = "CONFIRMED"
                => report'[r].citizenCompletionDecision = "CONFIRMED"
             /\ report[r].organizationCompletionDecision = "VERIFIED"
                => report'[r].organizationCompletionDecision
                      \in {"VERIFIED", "ESCALATED"}]_vars
  BY DEF SerialStep, DecisionFits, NewAttempt
<1> QED
  BY <1>1, SerialSteps, PTL DEF DecisionStands

(***************************************************************************)
(* One request at a time, every closure by review, fallback or governance  *)
(* is due under the report's policy, decisions and holds.                  *)
(***************************************************************************)
THEOREM ReviewAlwaysClosesWhenDue == Serial => (Spec => ReviewClosesWhenDue)
<1>1. [SerialStep]_vars =>
        [\A r \in Reports :
           Closing(r) /\ ~StatusPatched(r) => ClosureWasDue(r)]_vars
  BY DEF SerialStep, ClosureFits, Closing, ClosureWasDue
<1> QED
  BY <1>1, SerialSteps, PTL DEF ReviewClosesWhenDue

(***************************************************************************)
(* One request at a time, and while governance overrides no policy with    *)
(* BOTH_REQUIRED, a report that has both decisions under that policy was   *)
(* finalized by the second of them.                                        *)
(***************************************************************************)
THEOREM BothDecisionsAlwaysClose ==
    Serial /\ "BOTH_REQUIRED" \notin OverridePolicies
        => (Spec => []BothDecisionsClose)
<1> SUFFICES ASSUME Serial, "BOTH_REQUIRED" \notin OverridePolicies
             PROVE  Spec => []BothDecisionsClose
  OBVIOUS
<1>1. SerialFits => BothDecisionsClose
  BY DEF SerialFits, RowInOrder, BothDecided, BothDecisionsClose, Exists
<1> QED
  BY <1>1, SerialInvariant, PTL

-----------------------------------------------------------------------------
(* Serial service implements ReportCustody *)

\* The mapping, row by row.
LEMMA MappedRow ==
    ASSUME NEW r \in DOMAIN report
    PROVE  StageOf(r) = Stage(report[r]) /\ HolderOf(r) = report[r].assignedProviderId
BY DEF StageOf, Stage, HolderOf, Exists

\* A report that does not exist yet is being routed and held by nobody.
LEMMA MappedNothing ==
    ASSUME NEW r, r \notin DOMAIN report
    PROVE  StageOf(r) = "routing" /\ HolderOf(r) = Null
BY DEF StageOf, HolderOf, Exists

\* The database of the first version maps to the initial state.
LEMMA CustodyInit == Init => Custody!Init
<1> SUFFICES ASSUME Init PROVE Custody!Init
  OBVIOUS
<1>1. PICK existing \in SUBSET Reports : report \in [existing -> LegacyReports]
  BY DEF Init
<1>2. ASSUME NEW r \in Reports
      PROVE  StageOf(r) = "routing" /\ HolderOf(r) = Null
  <2>1. CASE r \in DOMAIN report
    <3>1. PICK home \in Organizations : report[r] = LegacyReport(home)
      BY <1>1, <2>1 DEF LegacyReports
    <3>2. report[r].status = "TRIAGE" /\ report[r].assignedProviderId = Null
      BY <3>1 DEF LegacyReport, NewReport, Patched, Columns, ColumnType
    <3> QED
      BY <2>1, <3>2, MappedRow, Stages
  <2>2. CASE r \notin DOMAIN report
    BY <2>2, MappedNothing
  <2> QED BY <2>1, <2>2
<1> QED
  BY <1>2 DEF Custody!Init

\* A step changes one row at most, and a new row starts in routing.
LEMMA OneRowChanges ==
    ASSUME LedgerInv, Next
    PROVE  \/ UNCHANGED report
           \/ \E r \in Reports :
                /\ \A x \in Reports \ {r} :
                     /\ x \in DOMAIN report' <=> x \in DOMAIN report
                     /\ x \in DOMAIN report => report'[x] = report[x]
                /\ r \notin DOMAIN report =>
                     /\ r \in DOMAIN report'
                     /\ report'[r].status \in {"TRIAGE", "ORG_REVIEW"}
                     /\ report'[r].assignedProviderId = Null
<1> DEFINE Only(r) ==
        /\ \A x \in Reports \ {r} :
             /\ x \in DOMAIN report' <=> x \in DOMAIN report
             /\ x \in DOMAIN report => report'[x] = report[x]
        /\ r \notin DOMAIN report =>
             /\ r \in DOMAIN report'
             /\ report'[r].status \in {"TRIAGE", "ORG_REVIEW"}
             /\ report'[r].assignedProviderId = Null
<1>1. ASSUME NEW c \in Requests, CommitWrite(c)
      PROVE  \E r \in Reports : Only(r)
  <2>1. PICK w \in req[c].writes :
          report' = [report EXCEPT ![w.id] = Patched(@, w.data)]
    BY <1>1 DEF CommitWrite
  <2>2. w.id \in DOMAIN report /\ DOMAIN report \subseteq Reports
    BY DEF LedgerInv, TypeOK, RequestOK, WriteOK
  <2>3. Only(w.id)
    BY <2>1, <2>2 DEF LedgerInv, TypeOK
  <2> QED BY <2>2, <2>3
<1>2. ASSUME NEW r \in Reports, NEW home \in Organizations,
             NEW match \in Organizations \cup {Null},
             createReport(r, home, match)
      PROVE  Only(r)
  <2>1. /\ NewReport(home, match).status \in {"TRIAGE", "ORG_REVIEW"}
        /\ NewReport(home, match).assignedProviderId = Null
    BY DEF NewReport, Patched, Columns, ColumnType
  <2> QED
    BY <1>2, <2>1 DEF createReport, Exists
<1>3. ASSUME NEW r \in Reports, AssignmentWindowEnds(r) \/ ReviewWindowEnds(r)
      PROVE  Only(r)
  BY <1>3 DEF AssignmentWindowEnds, ReviewWindowEnds, Exists, LedgerInv, TypeOK
<1> HIDE DEF Only
<1>4. UNCHANGED report \/ \E r \in Reports : Only(r)
  BY <1>1, <1>2, <1>3, RowsChange
<1> QED BY <1>4 DEF Only

\* Every step of serial service is a step of custody, or leaves it alone.
LEMMA CustodyStep ==
    ASSUME Serial, LedgerInv, SerialFits, [Next]_vars
    PROVE  [Custody!Next]_(Custody!custody)
<1>1. ASSUME UNCHANGED report
      PROVE  UNCHANGED Custody!custody
  <2>1. \A r \in Reports : StageOf(r)' = StageOf(r) /\ HolderOf(r)' = HolderOf(r)
    BY <1>1 DEF StageOf, HolderOf, Exists
  <2> QED
    BY <2>1 DEF Custody!custody
<1>2. ASSUME Next, NEW r \in Reports,
             \A x \in Reports \ {r} :
               /\ x \in DOMAIN report' <=> x \in DOMAIN report
               /\ x \in DOMAIN report => report'[x] = report[x],
             r \notin DOMAIN report =>
               /\ r \in DOMAIN report'
               /\ report'[r].status \in {"TRIAGE", "ORG_REVIEW"}
               /\ report'[r].assignedProviderId = Null
      PROVE  [Custody!Next]_(Custody!custody)
  <2>1. \A x \in Reports \ {r} :
          StageOf(x)' = StageOf(x) /\ HolderOf(x)' = HolderOf(x)
    <3> SUFFICES ASSUME NEW x \in Reports \ {r}
                 PROVE  StageOf(x)' = StageOf(x) /\ HolderOf(x)' = HolderOf(x)
      OBVIOUS
    <3>1. CASE x \in DOMAIN report
      <4>1. report'[x] = report[x] /\ x \in DOMAIN report'
        BY <1>2, <3>1
      <4>2. /\ StageOf(x)' = Stage(report'[x])
            /\ HolderOf(x)' = report'[x].assignedProviderId
        BY <4>1 DEF StageOf, Stage, HolderOf, Exists
      <4> QED
        BY <3>1, <4>1, <4>2, MappedRow
    <3>2. CASE x \notin DOMAIN report
      <4>1. x \notin DOMAIN report'
        BY <1>2, <3>2
      <4> QED
        BY <3>2, <4>1 DEF StageOf, HolderOf, Exists
    <3> QED BY <3>1, <3>2
  <2>2. r \in DOMAIN report'
    BY <1>2, RowsFit
  <2>3. StageOf(r)' = Stage(report'[r])
        /\ HolderOf(r)' = report'[r].assignedProviderId
    BY <2>2 DEF StageOf, Stage, HolderOf, Exists
  <2>4. CASE r \notin DOMAIN report
    <3>1. StageOf(r)' = StageOf(r) /\ HolderOf(r)' = HolderOf(r)
      BY <1>2, <2>3, <2>4, MappedNothing, Stages
    <3> QED
      BY <2>1, <3>1 DEF Custody!custody
  <2>5. CASE r \in DOMAIN report
    <3>1. CustodyFits(report[r], report'[r])
      BY <1>2, <2>5, RowsFit
    <3>2. PICK old, next, from, to :
            /\ old = Stage(report[r]) /\ next = Stage(report'[r])
            /\ from = report[r].assignedProviderId
            /\ to = report'[r].assignedProviderId
      OBVIOUS
    <3>3. \/ /\ to = from
             /\ \/ next = old
                \/ {old, next} \subseteq {"routing", "queued"}
                \/ old = "work" /\ next = "review"
                \/ old # "closed" /\ next \in {"work", "closed"}
                \/ old = "closed" /\ next = "review"
          \/ old = "queued" /\ from = Null /\ next = "work" /\ to \in Providers
          \/ from # Null /\ next = "queued" /\ to = Null
      BY <3>1, <3>2 DEF CustodyFits
    <3>4. /\ [x \in Reports |-> StageOf(x)][r] = old
          /\ [x \in Reports |-> HolderOf(x)][r] = from
      BY <2>5, <3>2, MappedRow
    <3>5. /\ [x \in Reports |-> StageOf(x)]'
                = [[x \in Reports |-> StageOf(x)] EXCEPT ![r] = next]
          /\ [x \in Reports |-> HolderOf(x)]'
                = [[x \in Reports |-> HolderOf(x)] EXCEPT ![r] = to]
      BY <2>1, <2>3, <3>2
    <3>6. to = from => UNCHANGED [x \in Reports |-> HolderOf(x)]
      BY <3>4, <3>5
    <3>7. to = from /\ next = old => UNCHANGED Custody!custody
      BY <3>4, <3>5, <3>6 DEF Custody!custody
    <3>8. to = from /\ {old, next} \subseteq {"routing", "queued"}
            => Custody!Route(r)
      BY <3>4, <3>5, <3>6 DEF Custody!Route
    <3>9. to = from /\ old = "work" /\ next = "review" => Custody!Submit(r)
      BY <3>4, <3>5, <3>6 DEF Custody!Submit
    <3>10. to = from /\ old # "closed" /\ next = "work" => Custody!Rework(r)
      BY <3>4, <3>5, <3>6 DEF Custody!Rework
    <3>11. to = from /\ old # "closed" /\ next = "closed" => Custody!Close(r)
      BY <3>4, <3>5, <3>6 DEF Custody!Close
    <3>12. to = from /\ old = "closed" /\ next = "review" => Custody!Reopen(r)
      BY <3>4, <3>5, <3>6 DEF Custody!Reopen
    <3>13. old = "queued" /\ from = Null /\ next = "work"
             => Custody!Offer(r, to)
      BY <3>4, <3>5 DEF Custody!Offer
    <3>14. from # Null /\ next = "queued" /\ to = Null => Custody!TakeBack(r)
      BY <3>4, <3>5 DEF Custody!TakeBack
    <3> QED
      BY <3>3, <3>7, <3>8, <3>9, <3>10, <3>11, <3>12, <3>13, <3>14
      DEF Custody!Next
  <2> QED BY <2>4, <2>5
<1>3. CASE UNCHANGED vars
  BY <1>1, <1>3 DEF vars
<1>4. CASE Next
  BY <1>1, <1>2, <1>4, OneRowChanges
<1> QED BY <1>3, <1>4

(***************************************************************************)
(* One request at a time, the report service implements ReportCustody, for *)
(* any reports, organizations, providers, policies and workload: a         *)
(* provider is given a report only from the queue, and every way out of an *)
(* assignment goes back through the queue.                                 *)
(***************************************************************************)
THEOREM CustodyImplemented == Serial => (Spec => CustodySpec)
<1> SUFFICES ASSUME Serial PROVE Spec => CustodySpec
  OBVIOUS
<1>1. LedgerInv /\ SerialFits /\ [Next]_vars => [Custody!Next]_(Custody!custody)
  BY CustodyStep
<1> QED
  BY <1>1, CustodyInit, LedgerInvariant, SerialInvariant, PTL
  DEF Spec, CustodySpec, Custody!Spec

=============================================================================
