# FixZone Enterprise API: verification project

FixZone is a NestJS API over PostgreSQL (Prisma) for municipal and facility
problem reports: citizens report problems, organizations accept responsibility
for them, dispatchers assign providers, providers work, and reviewers decide on
the completion. Organizations pay for plans through Paystack. This directory
holds TLA+ models of the parts of it that are hard to test, the TLC
configurations that check them, and machine-checked proofs.

Run a check with `tlc -config <run>.cfg <MC module>` and a proof with
`tlapm <module>.tla`, in this directory.

## 1. Inventory

All state is in PostgreSQL tables. Handlers run on the Node event loop, and
several instances of the API may run side by side; a handler gives up control at
every `await`, and almost every handler reads a row, checks it, and later updates
it by id without checking again. There is no queue, no lock and no scheduler in
the process: periodic work (`assignments/expire-overdue`,
`completion-review/process-deadlines`, payment reconciliation, dispute escalation)
is an endpoint that something outside has to call.

| Component | State | Operations | Interacts with | Hard behaviour, and what makes it correct |
|---|---|---|---|---|
| Report dispatch (`src/report`) | `Report` row: status, owner and routed organization, assigned provider, acceptance deadline, last assignment outcome | create, route, accept or reject responsibility, assign, cancel, reassign, expire overdue offers, provider answers, status updates | completion review (same row), quota, trust gates, notifications | read-check-write handlers that interleave, two-phase reassignment, sweeps over lists read earlier. Assignment columns agree; one provider at a time; only an unanswered offer times out; the owner is the organization it was routed to |
| Completion review and governance (`src/report`) | `Report` row: completion policy, two decisions, review state and deadline, hold, finalization columns | submit, confirm, reject, verify, request rework, process review deadlines, governance (resolve, rework, hold, reopen, override) | dispatch | two reviewers at once, a processor whose list is stale, rework with old deadlines, reopened closures. A closure is due under its policy; decisions stand; the fallback touches only what is in review |
| Responsibility resolution (`src/report`, `src/organization`) | none | choose the organization for category, place and jurisdiction | report creation | a pure decision with many ties. The result equals its declarative definition |
| Evidence, geo-trust, quota (`src/report`, `src/security`) | evidence records, files on disk, image columns, month's report count | upload (a loop of images with clean-up), assess the position, count, then create | report creation | limits checked before concurrent inserts, a crash between the file and its row. Only calls in flight together exceed a limit; what a report offers is on the disk, but for the completion image that a client may name itself |
| Payments (`src/payments`) | `PaymentTransaction`, `OrganizationSubscription`, `PaymentReceipt`, plan of `Organization` | initialize, webhook, verify, reconcile, fulfil | Paystack, upgrade requests | repeated, late and reordered deliveries, lost answers. Paid before activated, activated once, receipt and subscription agree |
| Organizations and upgrade requests (`src/organization`) | `Organization`, `OrganizationUpgradeRequest` | request, review, profile editing, a Super Admin's edit of the plan | payments write the same plan and requests | a stale approval. A plan in force is accounted for by a receipt, a completed request or the last such edit |
| Authentication (`src/auth`) | user, `tokenVersion`, reset tokens | register, login, password reset | MFA, users, internal administration | rows read before `bcrypt` is awaited and used after it, resets and revocations at once. Revoked tokens stay revoked; a reset leaves no token of the old password in force; a new reset token supersedes the older ones |
| Privileged MFA (`src/auth`) | factor, pre-auth session, attempts, recovery codes, last time step | enrol, confirm, challenge | authentication | replay of a code in its time step, attempt limits under concurrency, one use of a recovery code |
| Users, onboarding (`src/users`, `src/onboarding`) | user status, invitations, provider access requests | invite, resend, revoke, accept, decline, suspend, request access | authentication, organizations | three inviting endpoints that check and then create, acceptances that write by id, second writes lost in a crash. Two live invitations for one place, or a lifted suspension, only from calls that overlapped; who accepted is a member |
| Internal administration (`src/internal-admin`) | role assignments, invitations, approval requests | assign, remove, suspend, request and decide approvals | authentication | counts read before the update that they guard. Two-person rule, last administrator, expiry |
| Trust (`src/trust`) | identity, KYC submissions, disputes, evidence | submit, review, dispute, escalate | reports | levels, scores, numbers and settings read before they are written, a sweep over old rows. Identities are backed by reviews; closures keep their author; only a stale read takes anything back |
| Governance cases (`src/governance`) | sub-administrators, regulatory cases, evidence packages | create, assign, log access | none | plain inserts and updates |
| Organizations, platform configuration, modules (`src/organization`, `src/platform-configuration`, `src/platform-modules`) | `Organization` with `profileData` and `enabledModules`, jurisdiction zones, provider capabilities, category policies | create, update, status, zones, configure services, assign capabilities, set policies, derive readiness and health | routing, payments, enterprise guard | several writers of one JSON column, quotas compared before a downgrade, derived reports that other components trust. Readiness agrees with routing; an upgrade never lowers a plan it saw; a profile keeps what its writer did not send |
| Platform tools (`src/platform-tools`) | snapshots (row and file), maintenance flag, caches, canary files | back up, restore, delete, maintenance, clear caches, health check | middleware of every request | a snapshot read while requests run, a restore that meets rows of other tables, twelve statements at READ COMMITTED beside traffic, an unverified token claim at the gate, crashes between disk and database. All of an untorn snapshot comes back, with nothing else but what was written meanwhile; what is listed has a file; the gate lets gated paths through only as its settings say |
| Notifications | append-only messages | list, mark read | all | none that another component reads |
| Analytics, public metrics, enterprise services, demo data | none of their own | read-only aggregation, seeding | all | none |

`PROJECT.json` lists the same components with their files and status, and the
hazards with the line where each bites.

## 2. Modules and how they correspond to the code

```
ReportRow        the columns of a Report and the pure functions on them
  ReportRequests   how a handler runs: read and check, then write
    ReportDispatch   intake ... provider work       (one action per endpoint)
    ReportReview     completion review, governance  (one action per endpoint)
      ReportWorkflow   both over one table: Spec, properties, refinement
        MCReport, MCReportMixes   instances for TLC
        ReportWorkflowProofs
ReportCustody    abstract specification that ReportWorkflow implements
Payments         payments and upgrade requests: Spec, properties
  MCPayments, PaymentsProofs
Authentication   login, second factor, password reset, revocation: Spec, properties
  MCAuthentication, AuthenticationProofs
Accounts         users, invitations, internal administration: Spec, properties
  MCAccounts, AccountsProofs
Trust            identity, KYC, evidence, disputes, enforcement: Spec, properties
  MCTrust, TrustProofs
Responsibility   pure: which organization a report is routed to
  ReportIntake     creation, quota, uploads, geo-trust: Spec, properties
    MCIntake, ReportIntakeProofs
  PlatformCatalog  pure: modules, services, health, readiness
    Tenancy          organizations, plans, zones, configuration: Spec, properties
      MCTenancy, TenancyProofs
PlatformTools    snapshots, maintenance, caches, health checks: Spec, properties
  MCPlatformTools, PlatformToolsProofs
```

**ReportRow.** A row is a function from column names to values (`ColumnType`), an
update's `data` object is a function from some of the columns (`IsPatch`), and
`Patched` is what `prisma.report.update` does with it. The pure functions of
`report-workflow.ts` and of the review part of `report.service.ts`
(`canTransitionReportStatus`, `reviewStateFor`, `isCompletionSatisfied`,
`assertNoActiveCompletionBlockers`, `reviewDeadlineFor`) keep their names. A time
stamp is `AHEAD` or `BEHIND` where the code compares it with now, and `SET` where
it only asks whether there is one.

**ReportRequests.** A handler is two steps or more. Its own action reads the row,
checks all the conditions of the code and puts the writes it is about to make into
`req[c]`; `CommitWrite` applies one write to the row as it is by then.
`MissedWrite` is the conditional update of `processCompletionReviewDeadlines` that
finds no row and throws; `Abandon` is a database error or a restart. A handler that
goes on afterwards says so in `then`: `reassignProvider` cancels and then assigns
from a second read, and a late answer of a provider first expires all its overdue
offers. A call that is refused changes nothing and is not a step. With one element
in `Requests` the service is serial, with two every interleaving of two handlers is
explored. `Workload` names the endpoints that are called in an instance; the proofs
hold for every workload.

**ReportDispatch, ReportReview.** One action per endpoint, with an operator `...Data`
for the columns it writes. Clocks are the actions `AssignmentWindowEnds` and
`ReviewWindowEnds`.

**ReportCustody** states who holds a report: it is routed, queued, worked on,
reviewed or closed, providers get it from the queue only and one after the other.
`CustodySpec` is that specification under the mapping `StageOf`, `HolderOf`.

**Payments.** `txn` and `upgrade` are the two tables, `charge` and `events` the
provider's side (external: its behaviour is taken from what the adapter sends and
accepts). Events stay in `events` for ever, so any of them may be delivered late,
twice, or after a newer one. `processTrustedProviderTransaction` is `Decide` (the
read in the transaction and the status it will write) and `CommitSettlement` (all
writes, with `fulfillPayment`, at once): the transaction runs at READ COMMITTED,
without locks. A call to the provider may open the charge and lose the answer.
`activated[t]` counts how often a payment started a billing period (never, once,
again), which stands for `subscriptionStartAt` being set anew. A Super Admin writes the
plan as well: `update` reads and `CommitUpdate` writes, and an organization may be created with
a plan (`Init`). `granted[o]` is history: the plan that was last given so. Other writers of the
plan, the restoration of a snapshot and the demo data, are outside this module.

**Authentication.** One account and the rows that belong to it: `account` is the
`User`, and `session`, `enrollment`, `code` and `reset` are the tables
`PrivilegedMfaPreAuthSession`, `PrivilegedMfaEnrollment`, `PrivilegedMfaBackupCode` and
`PasswordResetToken`. `accessTokens` holds what was signed: the version in the token and,
for a login with a password alone, the password that was compared (`None` after a second
factor). The handler in flight is `req[r]`, and what it read is in its job, so that an
attempt count, a token version or a row used after an `await` is the one that was read.
The opening reads of a handler are one read. A conditional `updateMany` is checked again
in the action that commits it (`CommitTotp`, `CommitRecovery`). A transaction that updates
all rows of a kind and then inserts one has two actions: `BeginTransaction` fixes the rows
it can see, the commit changes those and inserts, as READ COMMITTED allows; two
confirmations of the same factor wait for each other, because both begin by updating its
row. A privileged login is one step, since nobody can read its pre-authentication session
before its token is returned. `RecordDelivery` is a step of its own: the mail may be used
before the outcome of the delivery is stored.

**Accounts.** One module for all the endpoints that write `User`, `ProviderMembership`,
`OrganizationInvitation`, `InternalRoleAssignment` and `PrivilegedApprovalRequest`, because
they write each other's rows: an acceptance makes an account, an assignment changes a role, a
suspension must count the administrators that the others made. Three kinds of handlers look in one
step and write in another. The inviting ones (`inviteUser`, `inviteDiscoveredProvider`,
`inviteAdministrator`) leave a row `CHECKED` that `createInvitation` turns into an invitation
later. An acceptance of a user's own invitation checks it, reads invitation and account
again in its transaction (`ReadInTransaction`) and writes by id in `CommitAcceptance`; that of an
internal one checks, and writes in `CommitAcceptance` without looking again. `setUserStatus`,
`suspendAdministrator` and `setSubAdminStatus` check or count and then write. Anything may happen in between, and a crash
loses the rest. A second commit (the audit and delivery columns, the acceptance after the account)
waits in `later` likewise. `saw` in an invitation is history, the invitations that existed when its
request made the checks; so are `counted` and `role` in a waiting status change, the other active
Super Admins that the handler saw and the role of the account then, and `found`, the status that an
acceptance read.

**Trust.** Every `await` between a read and a write that depends on it is a step boundary,
for two handlers in flight. `stale` is history: the handlers whose row was written by another one
since they read it. The properties say exactly what such a handler may undo, and that nobody
else does. `nextSecureZoneId` is the set of numbers that may be given: the first free one
of the five that follow the count, or, when all are taken, any that the clock can show
(`TimestampSuffixes`).

**Responsibility, ReportIntake.** `resolveReportResponsibility` with its zones, aliases,
capabilities and exclusions is a set of operators; a text is the set of places it names, a
category its normalized name, and `Includes` the substring relation of the code. `createReport`
reads, resolves and counts in one step and inserts in the next. An upload is its loop: each image
is stored, recorded and attached in turn, and a failure removes what the `catch` block removes.
`updateStatus` to `COMPLETED_BY_PROVIDER` replaces the completion image by what its client named,
or by null; the code checks only the form of that text, so it may name a file that is not
there, one of another image, or an address elsewhere (`Elsewhere`). `named` is history: what was
named last.
Distances are those of a line. The active zones keep their places in the list of their
organization, so that the first match is the code's. `Drafts` and `Profiles` hold what the
workloads are made of.

**PlatformCatalog, Tenancy.** The catalogue derives what the platform says of an organization
from its row. `Tenancy` has the handlers that write the row, its zones, providers and upgrade
requests, read and write being two steps. Fields that a request does not send are own properties
with the value `undefined` or absent, depending on how the DTO was instantiated (ES2023 class
fields with `transform: true`); `Overlay` leaves open which, and spreads such a field over the
old value or not. The order of the keys of a JSON object is that of `jsonb` (`PolicyKeys`). A health
or readiness score is the rounded mean of how many checks have each outcome (`Count`). Each request
of `Workloads` is well formed (`GivenInputs`): the seeds are rows that the schema allows, the patches
name columns with values the DTO accepts. A handler leaves its row with `Wrote`, which records in
`stale` who else had read that row. A fulfilled payment completes the pending requests of its
organization for its plan. A completion policy is looked for in the three maps of the organization,
in the platform's setting, in the map of the environment, and then in the fallbacks
(`resolveCompletionPolicy`).

**PlatformTools.** A table is a set of rows: a key, the key of the row it refers to, and a Json
column that may be null. Rows of the tables that no snapshot covers are `Outside` with their
`onDelete` rule; `OnDelete` has the rules between the copied tables, and which row refers to which is
a constant that respects them. Traffic inserts rows (`Insert`), edits them (`updateMe`, `setMaintenance`,
`cacheCleared`) and adds audit entries while a snapshot reads table after table without a
transaction. A restoration is a transaction at READ COMMITTED, one step for each `deleteMany` and
`createMany` and one for the commit. What it has done so far is in the document of its request, and
`View` is what it sees: the committed tables without the keys it has deleted (`gone`), with the rows
it has created. Nobody waits in the model for a lock that the database would hold: a step that
needs a key of a transaction in flight is not enabled (`Held`). A `deleteMany` that had to wait
takes its snapshot before the wait, so it may miss the rows that appeared since (`late`). `createMany`
refuses a key that is taken, a reference that is not met, and a null in a Json column: the file
holds `null` for it, which the client refuses as an input for such a column. Most snapshots of a
running system hold one, because the Json columns of `User` (`serviceCategories`, `profileData`) are
null until they are filled in; audit entries of the modelled handlers always have their metadata.
The gate (`use`, `passes`) looks at the claim of the token, which the middleware decodes without
verifying it; the paths of `setMaintenance`, `login` and `/auth/me` are `Exempt`. Files, caches and
canaries are on the disk; a process stops between any two steps. The fields `began`, `torn`,
`outlived` and `company` of a request, `late` of a transaction, and the variables `removed`,
`restores` and `excused` are history, `late` but for its part in `deleteMany`.

### Abstractions

* Provider accounts are active and membership in organizations is the constant
  `Membership`; the trust and evidence gates before a provider's acceptance and
  completion only refuse, so their outcome is left open.
* The completion policy that configuration yields is any of `PolicyChoices`.
* The first read of `reassignProvider` and the read of the cancellation that it
  calls are one read.
* Timeline entries, audit entries and notifications are left out: nothing reads
  them back. That an audit entry fails matters in one place, the `try` block of
  `initializeOrganizationPayment`, and is modelled there.
* The status `DISPUTED` is in the schema and never written by this service.
* `reconcilePending` takes candidates of any age in any order and may skip any of
  them, which covers its batch size, its minimum age and its failures.
* Amount, currency and reference comparisons are one Boolean, `agrees`.
* A pre-authentication session is `closed` when it is consumed or has expired, a reset
  token `SPENT` when it is used, superseded or has expired: no handler tells these apart.
* In `Accounts`, cancelling, revoking, declining and expiring an invitation, `approveProvider` with
  its first write, `updateUser` and the first sign-in of a citizen are one step each. No property
  depends on what such a call read before its write, except as stated.
* Roles are privileged or not, account status active or not. Passwords, codes and tokens
  are identities; a time-based code is the step it belongs to. Failed logins change no
  state that is modelled; the daily limit of reset requests and a disabled delivery only
  refuse.

## 3. Runs

An `MC` module may let a behaviour keep to one *mix*: a set of calls that is made together,
with the values it is about. The next-state relation is the module's own; a mix only narrows the
calls, so that each group is explored further than all of them together could be. In `Trust`,
`ReportIntake`, `Tenancy` and `PlatformTools` the mix is the variable `workload`, chosen from
`Workloads`; in `MCReportMixes`, `MCPayments` and `MCAuthentication` it is `mix`.

| Run | Instance | Checks | Shows |
|---|---|---|---|
| `report_serial` | 1 request. Mix `dispatch`: 2 organizations, 2 providers of which one is no member. Mix `review`: policy `BOTH_REQUIRED` with overrides to two others | `TypeOK`, `BothDecisionsClose`, `OwnerIsRouted`, `DecisionStands`, `ReviewClosesWhenDue`, `CustodySpec` | serial service is consistent, closes exactly when due, and implements custody |
| `report_race` | 2 requests, fair. Mix `reviewers`: 1 report under the review window. Mix `sweep`: 2 reports, 1 provider | `DispatchLedger`, `FallbackOnlyInReview`, `RequestsEnd` | the deadline processor is safe against concurrent reviewers; assignment columns agree in every interleaving; every handler ends |
| `both_required_race` | 2 concurrent requests | `BothDecisionsClose` violated | two simultaneous approvals leave the report open with both decisions |
| `rework_timed_out` | 1 request | `ReworkIsNotTimedOut` violated | rework inherits the old acceptance deadline and is timed out |
| `payments` | Mix `serial`: 1 handler, 1 upgrade request, and 2 payments, or 1 payment and plans given by hand. Mix `race`: 1 payment of any amount, 1 upgrade request, 2 handlers | `ReceiptsMatch`, `ActivationIsPaid`, `SerialActivatedOnce`, `SerialPlanIsBacked` | nothing unpaid is activated in any interleaving; serial fulfilment is idempotent under repeated and late events; a plan in force has a receipt, a completed request or a Super Admin's edit behind it |
| `activated_twice` | 1 payment, 2 handlers | `ActivatedOnce` violated | two concurrent deliveries fulfil twice |
| `authentication` | Mixes `serial factors` (3 sessions), `factors` (2 sessions, 2 requests), `resets` (3 reset tokens, 2 passwords, 2 requests) | `AttemptsBounded`, `SerialRecoveryCodesWork`, `CurrentTokenKnowsPassword`, `LiveResetsBounded`, `FactorSpent`, `RevocationIsFinal` | while an enrolment lasts no code of it is accepted twice, only codes in flight exceed the limit, and no stale token comes into force |
| `accounts` | 2 people, 2 invitations, 1 role assignment, 1 approval, 4 calls | `AccountsInv` (`AccountsTypeOK`, `AcceptedProviderIsMember`, `DualControl`), `OneLivePending`, `SuspensionStands`, `LastSuperAdminWasCounted` | two invitations for one place, a suspension lifted by an acceptance, and the loss of the last Super Admin come only from calls that overlap; who accepted is a member; nobody decides on their own request |
| `trust` | 2 requests over a citizen, a provider and an administrator. Mixes: identity and KYC of citizen and administrator, disputes between them, evidence of all three behind the gates | `TrustInv` (`TrustTypeOK`, `ClosureIsRecorded`, `NextCaseNumberIsFree`, `EvidenceIsReadable`), `VerificationIsBacked`, `IdentityStands`, `SweepSparesClosed` | identities and closures are taken back only by a handler whose read is stale |
| `intake` | 2 organizations of 14 profiles, 7 drafts, 7 photographs, 2 requests; six mixes | `IntakeInv` (`IntakeTypeOK`, `QuotaOverrun`, `EvidenceOverrun`), `OfferedImageIsStored`, `TrustIsEarned`, `RoutedToTheOne` | a report goes to the one organization that takes it; limits are exceeded only by calls in flight together; offered images exist, but for a completion image that a client named |
| `tenancy` | 2 organizations, 2 providers, 2 requests; six mixes | `TenancyInv` (`TenancyTypeOK`, `FoundationsStayClosed`, `ModulesKeepWarnings`, `HealthWarningNeedsAll`, `PendingUpgradesBounded`), `ReadyIsRoutable`, `PlansMoveAsChecked` (`UpgradeNeverLowers`, `DowngradeFits`), `ProfileStands`, `PolicyGoverns` | plans and profiles move only as the calls in flight explain; readiness agrees with the routing and the gates |
| `tools` | 2 requests, 2 snapshots, 5 rows and 3 outside; ten mixes | `ToolsInv` (`ToolsTypeOK`, `ListedHasFile`, `RestoredMeansCommitted`, `CanaryAccounted`, `CriticalHasCause`, `HealthNotMasked`), `RestorableUnlessTorn`, `RestoreIsExact`, `GateHolds` | an untorn snapshot comes back whole, and is refused only for a null in a Json column or a key written meanwhile; gate, list and health answers say what is so |

**Bounds.** Handlers touch one row each, except the sweeps; so one report shows
every effect of a handler, two concurrent requests every effect of a stale read, and
two reports (mix `sweep`) what a sweep does to a second row. Two organizations are
needed for routing and ownership, two providers for reassignment. In `ReportWorkflow`
and `Payments` no counter is bounded: the state spaces are finite as they stand, and the
runs exhaust them. In the serial mix of `payments` every charge is of the right amount; the
race covers the others. `Authentication` names its bounds: `MaxVersion` (two advances of
`tokenVersion`, so that one handler may hold a version two behind), `MaxClock` (two time
steps, so that a code can be early, current or late), `MaxStamp` (two enrolments and two
confirmations), `MaxAttempts` 2 instead of 5 and `backupCodeCount` 1 instead of 10, so
that limits and exhaustion are reached. Three sessions in the serial mix let a second
enrolment go through an older session and be challenged afterwards; three reset tokens
let the bound of `LiveResetsBounded`, two, be exceeded by a wrong transaction. In its race of
factors the last session and the last time stamp are not taken. The later modules bound the
number of calls: `MaxCalls` 4 in `Accounts` (invite, accept, suspend, and one more; `InvitedRoles`
and `GrantedRoles` are one role of each kind that the handlers tell apart), and
`maxCalls` of each mix, from 1 (every pair of organizations with every draft) to 5 (request,
review and payment of an upgrade with changes between them). A quota of one report, evidence
limits of one and two, `MaxUsers` 3, `MaxZones` 2 and `MaxClock` 3 put each limit within reach of
two calls; `MaxBatch` 2 lets an upload fail at its second image. The proofs remove the
bounds for the invariants they cover. Symmetry is used where the constants are
interchangeable, and never where a definition picks one of them or liveness is checked.

**Deadlock** is checked in `report_serial`, `payments` and `authentication`, which
have no bound on calls. Elsewhere a behaviour may stop because its calls are over.

**Fairness.** `Fairness` (of `report_race`) is weak fairness of each handler's own steps: the event loop
and the database do finish what was started. Nothing is assumed of clients, nor of
the sweeps, which the process never starts by itself; so no property says that an
overdue offer is eventually expired.

**Other sequences met while modelling.** They follow from the same code and have no
run of their own: a hold placed after the deadline processor listed its candidates
does not stop the closure, because the update names only the status
(`report.service.ts:3555`); the sweep over overdue offers updates by id, so an
acceptance that commits in between is overwritten (`:7300`); an operator's
`PATCH :id/status` closes a completion, moves an unrouted report to `ORG_REVIEW`, or a
routed but unaccepted one to `PENDING`, by the transition table alone (`:2194`,
`:7687`). `ReviewClosesWhenDue` therefore speaks of the review, fallback and
governance endpoints. A refund of a transaction that is already `PAID` is ignored
(`payments.service.ts:375`). A closed report keeps its provider, and
`cancelAssignment` refuses only `PENDING` reports and reports without a provider, so a
cancellation returns it to the queue (`report.service.ts:1785`).
`reviewUpgradeRequest` applies the requested plan without comparing it with the plan the
organization has by then (`organization.service.ts:706`). `completePasswordReset` marks
its token used by id after the hash is awaited, so two completions in flight with one
token both commit; the last password holds, and each advances the version
(`auth.service.ts:812`).

Of the modules beside the report workflow:

* *Accounts.* Two Super Admins who suspend each other, or one who suspends while the other is
  demoted, both pass the count of `setUserStatus` and leave the platform without one
  (`users.service.ts:425`), although
  `Production_Readiness_Tranche_Provider_Lifecycle_Purge_Paystack.md:34` says that one is retained;
  `LastSuperAdminWasCounted` says that little else leads there: a suspension takes the last one only
  if the handler counted another, if the account was no Super Admin's when it decided, or if an
  acceptance writes back a suspension that it had read and that was lifted since. Two invitations
  of one person for one place that are asked for at once are both created (`users.service.ts:643`,
  `:692`). A suspension that is committed while its person accepts an invitation is lifted: the
  acceptance writes the status by id (`users.service.ts:919`, `:948`;
  `internal-admin.service.ts:296`).
* *Report intake.* A provider can name any text of the right form as the image of a completion
  (`report.service.ts:2136`, `:5936`); nobody looks whether there is such a file, and the report
  counts as having completion evidence.
* *Trust.* A submission that is reviewed again counts again towards the score
  (`trust.service.ts:136`).
* *Payments.* A Super Admin sets the plan of an organization directly, at its creation or later
  (`organization.service.ts:50`, `:111`), with no payment or request behind it.
* *Tenancy.* The default configuration of an organization with a list of modules names the
  service `maintenance`, which the service catalogue does not have, so it is invalid until it is
  saved. The keys of the enterprise features are not in the module registry, and normalization
  drops unknown keys: no organization passes that gate.
* *Platform tools.* A snapshot reads parents before children outside a transaction, so one taken
  beside traffic may be refused at its restoration. So is any snapshot with a null in a nullable Json
  column (`User.profileData`, `Organization.enabledModules`, `DemoAuditLog.metadata`), which comes
  back from the file as a plain `null` that `createMany` does not take
  (`platform-tools.service.ts:338`). Rows that others write while a restoration runs survive it, or
  make it fail. Whoever sends a token that claims an administrator's role passes the gate under the
  bypass, to be refused by the guards behind it if the token is not genuine
  (`maintenance.middleware.ts:43`). A restoration deletes with `ON DELETE
  CASCADE` the messages, verifications and payments that refer to the rows it replaces, sets the
  owner of evidence to null, is refused while disputes or invitations refer to them, and brings
  back the maintenance mode of its day. A full disk leaves the canary of a health check behind
  while the answer says that it was removed, and two checks at once see each other's canary and
  answer `CRITICAL`; the overall answer is never `HEALTHY`. Under maintenance a Super
  Admin without a session cannot pass the second factor (`maintenance.middleware.ts:16`).

## 4. Proofs

`ReportWorkflowProofs` proves, for every set of reports, requests, organizations and
providers and every workload, `TypeCorrect`, `LedgerAgreesAlways` (`DispatchLedger`) and
`PendingWritesComplete` (`PendingKeepsLedger`). `DispatchLedger` alone is not inductive:
a write computed from an old read meets a row that has changed. The inductive
invariant `LedgerInv` has `TypeOK`, `DispatchLedger` and `PendingKeepsLedger`; the last
part says that every pending `data` object sets the assignment columns together, so
that it does not matter which row it meets. The argument has one lemma per endpoint
(what it will write is sound), one for `CommitWrite` (a sound write keeps the ledger of
any row), and the combination. It uses the assumptions `PolicyChoicesAssumption`,
and those on `Null` of `ReportRow`.

`PaymentsProofs` proves, for every set of organizations, transactions, requests and
handlers, `PaymentsTypeCorrect`, `ReceiptsAlwaysMatch` (`ReceiptsMatch`) and
`ActivationAlwaysPaid` (`ActivationIsPaid`). The invariant adds `TrustIsEarned` (every
claim of an agreeing payment, in an event, in an answer already read, or in a commit
about to happen, is true of the provider's charge, which never becomes unpaid) and
`OpensOnce` (the handler that opens a charge is alone with it, so no claim about that
charge can exist yet). It uses `PlansAssumption` only.

`AuthenticationProofs` proves, for every set of requests, sessions, factors, codes,
tokens and passwords and every limit, `AuthTypeCorrect`, `AttemptsAlwaysBounded`
(`AttemptsBounded`), `CurrentTokenAlwaysKnowsPassword` (`CurrentTokenKnowsPassword`) and
`RevocationAlwaysFinal` (`RevocationIsFinal`). Neither invariant is inductive alone. For
the tokens, `SecretsInv` adds that no token and no handler holds a version that the
account has not reached, and that a handler about to sign the current version read the
current password with it; advancing the version then makes all of them stale at once.
For the attempts, `AttemptsInv` bounds the failures of a session together with the
handlers that passed `validatePreAuth` for it and may still fail: passing the check needs
a count below the limit, and recording a failure trades a handler for a count.
`RevocationIsFinal` follows from the first part, as versions only grow. The assumptions
are `RequestsFinite`, `AttemptsPositive` and `NoneIsNothing`.

`AuthenticationProofs` also proves `FactorAlwaysSpent` (`FactorSpent`): the conditional updates of
`CommitTotp` and `CommitRecovery` test the very column they change, so the types suffice; and
`LiveResetsAlwaysBounded` (`LiveResetsBounded`). The latter counts, and its invariant
`DifferentMakers` is an injection from the live tokens to handlers: a token that a transaction
does not see was made by somebody else than the handler of that transaction, so the new token may
be given to it.

`AccountsProofs` proves `AccountsInv`, `OneLivePending`, `SuspensionStands` and
`LastSuperAdminWasCounted` for all people, organizations, invitations and inputs and every bound
on calls. Two live invitations, a lifted suspension and the loss of the last Super Admin are thus
traced to overlapping calls, of which the statements name the two. The invariant adds that every
invitation names a known invitee, that an invitation that was seen when another was checked exists and
cannot be accepted for the same place, that nobody is recorded as approver before a decision, and that
what waits in `later` still fits the rows it will meet, which is where a lost or late write could go
wrong. One lemma per endpoint says
that its writes are `Sound`, one per property that sound writes keep it. The assumptions are
`DefaultExists` and `InputsAreKnown`.

`TrustProofs` proves `TrustInv`, `VerificationIsBacked`, `IdentityStands` and `SweepSparesClosed`.
The invariant is `TrustTypeOK` with `VerificationIsBacked`, `ClosureIsRecorded`,
`EvidenceIsReadable`, an order of cases and submissions, the shape of each job, and `Fresh(r)`: a
handler that is not `stale` holds what the row still says. The two action properties follow from
`Fresh`. `OthersStay` carries the jobs of the other handlers over a step; then there is one lemma
per action. The assumptions are `GivenRows` and `GivenInputs`.

`PlatformToolsProofs` proves `ToolsInv`, `RestorableUnlessTorn`, `RestoreIsExact` and `GateHolds`,
with failures of the disk and crashes between any two steps. The invariant says for every running
request what it has read, written and seen so far (`RequestsInOrder`), who answers for a canary
(`CanariesHeld`), and how rows, snapshots and files agree (`DatabaseInOrder`, `SnapshotsInOrder`,
`DiskInOrder`). A snapshot that is not torn has copied, of each table it has read, exactly what was
there when it began. Of a transaction the invariant says which keys it has deleted and which others
have written since: a key that is still there in a table whose rows it has deleted is one of the
latter. So a table has room for what the file holds, apart from those keys, and after the commit it
has nothing else. The rows of an untorn file find the rows they refer to, since the tables are filled
parents first and a transaction sees what it has written itself.
`GateHolds` needs the claim of a request and whether it outlived a change of the gate, which no step
of its own changes. The assumptions are `ToolsAssumption`, `RowsAssumption` (a row refers only to the
tables that the schema allows) and `NoneIsNoFile`.

`ReportIntakeProofs` proves `IntakeInv`, `OfferedImageIsStored`, `TrustIsEarned` and
`RoutedToTheOne`, for every limit, batch and number of handlers. The overruns are not inductive:
`QuotaHeld` bounds this month's reports together with the creations in flight that passed the count,
`EvidenceHeld` the records of a report together with the images still awaited, so that an insert
trades one for the other. `ImagesInOrder` follows an image from the disk to its record and its
report, except what `named` holds. `DecisionMeans` and `AssessmentMeans` say what the resolution of responsibility and the
assessment of a position compute, as lemmas about those operators. The assumptions are
`LimitsAreNumbers`, `GivenActors`, `GivenInputs`, `NoneIsNoNumber` and `NoneIsNoLevel`.

`TenancyProofs` proves `TenancyInv`, `ReadyIsRoutable`, `PlansMoveAsChecked`, `ProfileStands` and
`PolicyGoverns`, for every number of organizations, providers, zones and handlers, every catalog of
plans and every order of the policies. The invariant `IInv` has four parts. `RowsInOrder` types the
rows and adds to `TenancyTypeOK` that no stored upgrade request was ever for a lower plan, and that
nobody has a capability that the assignable catalog lacks. `RequestsInOrder` says what each handler
carries between its read and its write. `ChecksHold` says that a handler that is not `stale` still
holds what the row says; `DowngradeFits` and `ProfileStands` come from it, `UpgradeNeverLowers` from
the first part.
`PlacesHeld` bounds the pending upgrades of an organization together with the handlers that passed
the check for one and will insert, so that an insertion trades a handler for a row; this is why the
bound is the number of handlers. The promises about derived values need no history. They rest on
lemmas about the operators: `WarningMeans` and `NotAllReady` read the scores as the counts of
outcomes they are, `StoredModulesOpenNothing` follows a stored list through normalization,
`DecidingHasPlaces` and `FirstZoneMatches` relate the zones an administrator sees to the first match
of the routing, and `StoredGoverns` does the same for a policy and the first compatible category.
The assumptions are
`PlansAreBounded`, `RequestsFinite`, `GivenInputs`, `KeysAreOrdered`, `NoneIsNoValue` and
`NoneIsNoLevel`.

### Service without overlap

Some properties fail when handlers overlap, as the violation runs show, and hold when they do not.
They are proved under just that hypothesis, for any number of rows.

* *Reports.* `ReportWorkflowProofs` assumes `Serial` (`Requests` has at most one element) and proves
  `OwnerIsRouted`, `DecisionStands`, `ReviewClosesWhenDue`, `BothDecisionsClose` and, as
  `CustodyImplemented`, the refinement `Spec => CustodySpec`. The invariant `SerialFits` says that
  each pending write fits the row that it is going to meet: only the clock and the intake of new
  reports come between a check and its write, and both leave it fitting (`ClockFits`, `IntakeFits`).
  One lemma per group of endpoints shows that its writes fit when they are decided, `CommitFits` that
  a write that fits changes the row as each property allows. For the refinement, `CustodyInit` maps
  the initial states, and `CustodyStep` maps each step to a step of `ReportCustody` or to none.
  `BothDecisionsAlwaysClose` also assumes that no override introduces `BOTH_REQUIRED`, as the run
  does: an override from `ADMIN_RESOLUTION_REQUIRED` to it finds reports that have both decisions
  already and closes none of them. `FallbackOnlyInReview` needs no such hypothesis: it follows, in
  every interleaving, from the part `FallbacksGuarded` of `LedgerInv`, that a pending write of the
  deadline processor names the status it insists on.
* *Payments.* `PaymentsProofs` shows `ActivatedOnce` and `PlanIsBacked` for every behaviour with
  `[]OneAtATime`. Its invariant `SettledForGood` says that a payment with a receipt stays `PAID` and
  that no handler is about to settle it again; the plan of `PlanIsBacked` that has neither receipt
  nor request is the one in `granted`, which changes in the step that gives it. `SerialMixActivatesOnce` and `SerialMixPlanIsBacked`
  conclude `SerialActivatedOnce` and `SerialPlanIsBacked` of the very specification that the run
  `payments` checks: a behaviour of `MixSpec` keeps its mix (`MixStays`), and the serial mix has one
  handler at a time.
* *Recovery codes.* `AuthenticationProofs` shows `RecoveryCodesWork` for every behaviour with
  `[]OneAtATime`, and `SerialMixRecoveryCodesWork` carries it over, in the same way, to
  `SerialRecoveryCodesWork` and the `MixSpec` of the run `authentication`. The invariant adds
  `ConfirmationsInOrder`: a confirmation in flight is later than every enabled factor and has seen
  all the codes it is to delete.

`PaymentsTypeOK`, `AuthTypeOK`, `PendingKeepsLedger`, `ActivatedOnce`, `PlanIsBacked` and
`RecoveryCodesWork` are proved, and not among the properties of the passing runs as such.

Model-checked only: of the properties of the passing runs, `RequestsEnd`, because liveness under
fairness is out of the prover's reach; and the three violations, which TLC finds on small instances
and nothing needs to generalize. Every other invariant and action property of a passing run is stated
by a theorem.

## 5. Plan

In order of importance; all items are done.

1. Report dispatch over interleaved requests; its ledger, checked and proved.
2. Completion review and governance over the same rows.
3. Custody as an abstract specification, implemented by serial service.
4. Payments and upgrade requests, checked and proved.
5. Privileged MFA and sessions: challenge attempts, time-step replay, recovery codes,
   `tokenVersion`, password reset; checked and proved.
6. Responsibility resolution, quota and evidence limits, uploads and geo-trust, checked and
   proved.
7. Invitations and internal administration, checked and proved.
8. Identity, KYC, evidence, disputes and enforcement, checked and proved.
9. Organizations, platform configuration and modules, checked and proved.
10. Platform tools, checked and proved.
11. Serial service: the action properties of the review, custody, payments and recovery codes,
    proved, the last two also of the specifications that the runs check.

**Not modelled.** Analytics, public metrics, listings and presentation only read. Notifications,
audit and timeline entries are appended and decide nothing, except where named above. Demo data
is seeding by fixed scripts. The regulatory cases and evidence packages of `src/governance` are
single inserts and updates without a rule between them (its sub-administrators are in
`Accounts`). The scoring of provider recommendations orders candidates and changes nothing; a
dispatcher's choice, or that of `autoAssignBestProvider`, is any of them. Registration, profile
fields and the matching of Firebase identities beyond the identity columns are left out, as are the
decoding of images and encryption.
