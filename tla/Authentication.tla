--------------------------- MODULE Authentication ---------------------------
(***************************************************************************)
(* Sign-in of one account: login and password reset of auth.service.ts,    *)
(* the second factor of privileged-mfa.service.ts, and the revocation of   *)
(* access tokens by tokenVersion that jwt.strategy.ts enforces.            *)
(*                                                                         *)
(* A handler reads and decides in its own action, which leaves in req[r]   *)
(* what it is going to write, and writes in a second action.  A            *)
(* transaction that first updates "all rows such that" and then inserts is *)
(* a third: BeginTransaction fixes the rows it can see, so that rows that  *)
(* another transaction inserts meanwhile escape it (READ COMMITTED).       *)
(* A call that is refused without a write is not a step.                   *)
(***************************************************************************)
EXTENDS Integers, FiniteSets

CONSTANTS Requests,         \* handlers that may be in flight together
          Sessions,         \* identities of pre-authentication sessions
          Enrollments,      \* identities of enrolled factors
          RecoveryCodes,    \* identities of recovery codes
          ResetTokens,      \* identities of password reset tokens
          Passwords,        \* what a user may choose
          None,             \* no value in a column or a job
          MaxAttempts,      \* maxAttempts, 5 in the code
          backupCodeCount,  \* recovery codes of one factor, 10 in the code
          MaxVersion,       \* bound on tokenVersion
          MaxClock,         \* bound on the number of TOTP time steps
          MaxStamp,         \* bound on the number of time stamps taken
          Workload          \* endpoints that are called

ASSUME RequestsFinite == IsFiniteSet(Requests)
ASSUME AttemptsPositive == MaxAttempts \in Nat \ {0}
ASSUME NoneIsNothing ==
  None \notin Passwords \cup Enrollments \cup Sessions \cup RecoveryCodes \cup ResetTokens

VARIABLES account,       \* the User row
          session,       \* PrivilegedMfaPreAuthSession
          enrollment,    \* PrivilegedMfaEnrollment
          code,          \* PrivilegedMfaBackupCode
          reset,         \* PasswordResetToken
          accessTokens,  \* access tokens signed so far
          clock,         \* the current TOTP time step
          stamp,         \* orders the time stamps that the code compares
          req            \* the handlers in flight

vars == <<account, session, enrollment, code, reset, accessTokens, clock, stamp, req>>

-----------------------------------------------------------------------------
(* Rows and jobs.                                                          *)

NoStep == -1   \* lastVerifiedStep: null, and a code that matches no step

Accounts == [role: {"PRIVILEGED", "ORDINARY"}, accountStatus: {"ACTIVE", "SUSPENDED"},
             tokenVersion: Nat, password: Passwords]

\* closed: consumedAt is set, or expiresAt has passed.  Nothing tells them apart.
SessionRows == [purpose: {"NONE", "ENROLLMENT", "CHALLENGE"}, failedAttempts: Nat,
                closed: BOOLEAN, lockedAt: BOOLEAN]

EnrollmentRows == [status: {"NONE", "PENDING", "ACTIVE", "DISABLED"}, disabledAt: BOOLEAN,
                   createdAt: Nat, enabledAt: Nat, lastVerifiedStep: Int]

CodeRows == [state: {"NONE", "UNUSED", "USED", "DELETED"}, enrollment: Enrollments \cup {None}]

\* SPENT: usedAt or supersededAt is set, or expiresAt has passed.  recent: created less
\* than the cooldown ago.
ResetRows == [state: {"NONE", "LIVE", "SPENT"}, recent: BOOLEAN]

AccessTokens == [version: Nat, password: Passwords \cup {None}]

Ops == {"IDLE", "ISSUE", "FAIL", "START", "STARTING", "CONFIRM", "CONFIRMING", "TOTP",
        "RECOVERY", "RESET_REQUEST", "RESET_CREATING", "DELIVER", "RESET"}

Rows == Enrollments \cup RecoveryCodes \cup ResetTokens

\* A job: the session, the other row it writes, the attempts read, a time step or stamp,
\* the token version and password read or chosen, and the rows an open transaction sees.
Jobs == [op: Ops, session: Sessions \cup {None}, row: Rows \cup {None}, attempts: Nat,
         time: Int, version: Nat, password: Passwords \cup {None}, seen: SUBSET Rows]

Job(op, s, row, attempts, time, version, password) ==
  [op |-> op, session |-> s, row |-> row, attempts |-> attempts, time |-> time,
   version |-> version, password |-> password, seen |-> {}]

IdleJob == Job("IDLE", None, None, 0, 0, 0, None)

Idle(r) == req[r] = IdleJob

Finish(r) == req' = [req EXCEPT ![r] = IdleJob]

-----------------------------------------------------------------------------
(* What the handlers read.                                                 *)

requiresPrivilegedMfa == account.role = "PRIVILEGED"

ActiveEnrollments ==
  {e \in Enrollments : enrollment[e].status = "ACTIVE" /\ ~enrollment[e].disabledAt}

PendingEnrollments ==
  {e \in Enrollments : enrollment[e].status = "PENDING" /\ ~enrollment[e].disabledAt}

activeEnrollment(e) ==
  /\ e \in ActiveEnrollments
  /\ \A f \in ActiveEnrollments : enrollment[f].enabledAt <= enrollment[e].enabledAt

pendingEnrollment(e) ==
  /\ e \in PendingEnrollments
  /\ \A f \in PendingEnrollments : enrollment[f].createdAt <= enrollment[e].createdAt

ValidateUnlocked(s, purpose) ==
  /\ session[s].purpose = purpose
  /\ ~session[s].closed /\ ~session[s].lockedAt
  /\ account.accountStatus = "ACTIVE"
  /\ requiresPrivilegedMfa

validatePreAuth(s, purpose) ==
  /\ session[s].purpose = purpose
  /\ ~session[s].closed /\ ~session[s].lockedAt
  /\ session[s].failedAttempts < MaxAttempts
  /\ account.accountStatus = "ACTIVE"
  /\ requiresPrivilegedMfa

\* The steps whose codes matchTotpStep compares with what was typed.
TotpWindow == {clock - 1, clock, clock + 1} \cap Nat

LiveReset(t) == reset[t].state = "LIVE"

-----------------------------------------------------------------------------
(* What the handlers are about to write.                                   *)

FailJob(s, attempts) == Job("FAIL", s, None, attempts, 0, 0, None)

IssueJob(version, password) == Job("ISSUE", None, None, 0, 0, version, password)

StartJob(s) == Job("START", s, None, 0, 0, 0, None)

ConfirmJob(s, e, now) == Job("CONFIRM", s, e, 0, now, account.tokenVersion, None)

TotpJob(s, e, step) ==
  Job("TOTP", s, e, session[s].failedAttempts, step, account.tokenVersion, None)

RecoveryJob(s, k) ==
  Job("RECOVERY", s, k, session[s].failedAttempts, 0, account.tokenVersion, None)

RequestJob == Job("RESET_REQUEST", None, None, 0, 0, 0, None)

DeliverJob(t) == Job("DELIVER", None, t, 0, 0, 0, None)

ResetJob(t, p) == Job("RESET", None, t, 0, 0, account.tokenVersion, p)

-----------------------------------------------------------------------------
(* Login.                                                                  *)

\* The row a privileged login inserts: nobody reads it before the answer carries its
\* token, so the login is one step.
createPreAuthSession(s) ==
  /\ session[s].purpose = "NONE"
  /\ session' = [session EXCEPT ![s].purpose =
                   IF ActiveEnrollments # {} THEN "CHALLENGE" ELSE "ENROLLMENT"]
  /\ UNCHANGED <<account, enrollment, code, reset, accessTokens, clock, stamp, req>>

\* bcrypt.compare and the identity lookup are awaited between the read of the user and
\* issueTokens, which signs the tokenVersion that was read.
login(r) ==
  /\ "login" \in Workload
  /\ Idle(r)
  /\ account.accountStatus = "ACTIVE"
  /\ \/ requiresPrivilegedMfa /\ \E s \in Sessions : createPreAuthSession(s)
     \/ /\ ~requiresPrivilegedMfa
        /\ req' = [req EXCEPT ![r] = IssueJob(account.tokenVersion, account.password)]
        /\ UNCHANGED <<account, session, enrollment, code, reset, accessTokens, clock, stamp>>

IssueWithCurrentVersion(r) ==
  /\ req[r].op = "ISSUE"
  /\ accessTokens' = accessTokens
       \cup {[version |-> account.tokenVersion, password |-> req[r].password]}
  /\ Finish(r)
  /\ UNCHANGED <<account, session, enrollment, code, reset, clock, stamp>>

issueTokens(r) ==
  /\ req[r].op = "ISSUE"
  /\ accessTokens' = accessTokens
       \cup {[version |-> req[r].version, password |-> req[r].password]}
  /\ Finish(r)
  /\ UNCHANGED <<account, session, enrollment, code, reset, clock, stamp>>

-----------------------------------------------------------------------------
(* The second factor.                                                      *)

recordFailedAttempt(r) ==
  LET s == req[r].session IN
  /\ req[r].op = "FAIL"
  /\ session' = [session EXCEPT ![s].failedAttempts = @ + 1,
                                ![s].lockedAt = @ \/ req[r].attempts + 1 >= MaxAttempts]
  /\ Finish(r)
  /\ UNCHANGED <<account, enrollment, code, reset, accessTokens, clock, stamp>>

startEnrollment(r, s) ==
  /\ "enroll" \in Workload
  /\ Idle(r)
  /\ validatePreAuth(s, "ENROLLMENT")
  /\ req' = [req EXCEPT ![r] = StartJob(s)]
  /\ UNCHANGED <<account, session, enrollment, code, reset, accessTokens, clock, stamp>>

\* The rows of the table that the transaction's updateMany or deleteMany reaches.
RowsSeen(op) ==
  CASE op = "START"         -> {e \in Enrollments : enrollment[e].status # "NONE"}
    [] op = "CONFIRM"       -> {k \in RecoveryCodes : code[k].state \in {"UNUSED", "USED"}}
    [] op = "RESET_REQUEST" -> {t \in ResetTokens : reset[t].state # "NONE"}

Begun(op) ==
  CASE op = "START"         -> "STARTING"
    [] op = "CONFIRM"       -> "CONFIRMING"
    [] op = "RESET_REQUEST" -> "RESET_CREATING"

\* A confirmation updates its factor before it deletes the recovery codes: the row lock
\* keeps a second confirmation of the same factor waiting.
BeginTransaction(r) ==
  /\ req[r].op \in {"START", "CONFIRM", "RESET_REQUEST"}
  /\ req[r].op = "CONFIRM" =>
       \A q \in Requests : req[q].op = "CONFIRMING" => req[q].row # req[r].row
  /\ req' = [req EXCEPT ![r] = [@ EXCEPT !.op = Begun(req[r].op), !.seen = RowsSeen(req[r].op)]]
  /\ UNCHANGED <<account, session, enrollment, code, reset, accessTokens, clock, stamp>>

CommitEnrollment(r) ==
  /\ req[r].op = "STARTING"
  /\ stamp < MaxStamp
  /\ stamp' = stamp + 1
  /\ \E new \in Enrollments :
       /\ enrollment[new].status = "NONE"
       /\ enrollment' = [e \in Enrollments |->
            IF e = new
            THEN [enrollment[e] EXCEPT !.status = "PENDING", !.createdAt = stamp + 1]
            ELSE IF e \in req[r].seen /\ enrollment[e].status = "PENDING"
            THEN [enrollment[e] EXCEPT !.status = "DISABLED", !.disabledAt = TRUE]
            ELSE enrollment[e]]
  /\ Finish(r)
  /\ UNCHANGED <<account, session, code, reset, accessTokens, clock>>

\* The code is wrong, or there is no pending factor; or the code is one of the pending
\* factor's codes of TotpWindow.
confirmEnrollment(r, s) ==
  /\ "enroll" \in Workload
  /\ Idle(r)
  /\ validatePreAuth(s, "ENROLLMENT")
  /\ \/ /\ req' = [req EXCEPT ![r] = FailJob(s, session[s].failedAttempts)]
        /\ UNCHANGED stamp
     \/ \E e \in Enrollments :
          /\ pendingEnrollment(e)
          /\ stamp < MaxStamp
          /\ stamp' = stamp + 1
          /\ req' = [req EXCEPT ![r] = ConfirmJob(s, e, stamp + 1)]
  /\ UNCHANGED <<account, session, enrollment, code, reset, accessTokens, clock>>

CodesAdded(seen, new, e) ==
  [k \in RecoveryCodes |->
     IF k \in new THEN [state |-> "UNUSED", enrollment |-> e] ELSE code[k]]

\* deleteMany, then createMany of the new codes.
CodesReplaced(seen, new, e) ==
  [k \in RecoveryCodes |->
     IF k \in new THEN [state |-> "UNUSED", enrollment |-> e]
     ELSE IF k \in seen THEN [state |-> "DELETED", enrollment |-> None]
     ELSE code[k]]

CommitConfirmation(r) ==
  LET e == req[r].row IN
  /\ req[r].op = "CONFIRMING"
  /\ enrollment' = [enrollment EXCEPT ![e].status = "ACTIVE",
                                      ![e].enabledAt = req[r].time,
                                      ![e].lastVerifiedStep = NoStep]
  /\ \E new \in SUBSET {k \in RecoveryCodes : code[k].state = "NONE"} :
       /\ Cardinality(new) = backupCodeCount
       /\ code' = CodesReplaced(req[r].seen, new, e)
  /\ session' = [session EXCEPT ![req[r].session].closed = TRUE]
  /\ req' = [req EXCEPT ![r] = IssueJob(req[r].version, None)]
  /\ UNCHANGED <<account, reset, accessTokens, clock, stamp>>

\* step: the time step whose code was typed, NoStep for any other code.  A CHALLENGE
\* session is created only when a factor is active, and nothing disables an active one:
\* the branch of completeChallenge for an account without one cannot be taken.
completeTotpChallenge(r, s, step) ==
  /\ "challenge" \in Workload
  /\ Idle(r)
  /\ validatePreAuth(s, "CHALLENGE")
  /\ \E e \in Enrollments :
       /\ activeEnrollment(e)
       /\ req' = [req EXCEPT ![r] =
            IF step # NoStep /\ step > enrollment[e].lastVerifiedStep
            THEN TotpJob(s, e, step)
            ELSE FailJob(s, session[s].failedAttempts)]
  /\ UNCHANGED <<account, session, enrollment, code, reset, accessTokens, clock, stamp>>

StepStored(r) ==
  LET e == req[r].row IN
  /\ req[r].op = "TOTP"
  /\ enrollment' = [enrollment EXCEPT ![e].lastVerifiedStep = req[r].time]
  /\ session' = [session EXCEPT ![req[r].session].closed = TRUE]
  /\ req' = [req EXCEPT ![r] = IssueJob(req[r].version, None)]
  /\ UNCHANGED <<account, code, reset, accessTokens, clock, stamp>>

CommitTotp(r) ==
  LET e == req[r].row IN
  /\ req[r].op = "TOTP"
  /\ IF enrollment[e].lastVerifiedStep < req[r].time
     THEN /\ enrollment' = [enrollment EXCEPT ![e].lastVerifiedStep = req[r].time]
          /\ session' = [session EXCEPT ![req[r].session].closed = TRUE]
          /\ req' = [req EXCEPT ![r] = IssueJob(req[r].version, None)]
     ELSE /\ req' = [req EXCEPT ![r] = FailJob(req[r].session, req[r].attempts)]
          /\ UNCHANGED <<enrollment, session>>
  /\ UNCHANGED <<account, code, reset, accessTokens, clock, stamp>>

completeRecoveryCodeChallenge(r, s, k) ==
  /\ "challenge" \in Workload
  /\ Idle(r)
  /\ validatePreAuth(s, "CHALLENGE")
  /\ \E e \in Enrollments :
       /\ activeEnrollment(e)
       /\ req' = [req EXCEPT ![r] =
            IF code[k].state = "UNUSED" /\ code[k].enrollment = e
            THEN RecoveryJob(s, k)
            ELSE FailJob(s, session[s].failedAttempts)]
  /\ UNCHANGED <<account, session, enrollment, code, reset, accessTokens, clock, stamp>>

CommitRecovery(r) ==
  LET k == req[r].row IN
  /\ req[r].op = "RECOVERY"
  /\ IF code[k].state = "UNUSED"
     THEN /\ code' = [code EXCEPT ![k].state = "USED"]
          /\ session' = [session EXCEPT ![req[r].session].closed = TRUE]
          /\ req' = [req EXCEPT ![r] = IssueJob(req[r].version, None)]
     ELSE /\ req' = [req EXCEPT ![r] = FailJob(req[r].session, req[r].attempts)]
          /\ UNCHANGED <<code, session>>
  /\ UNCHANGED <<account, enrollment, reset, accessTokens, clock, stamp>>

-----------------------------------------------------------------------------
(* Password reset.                                                         *)

\* passwordResetRateLimited: one request per cooldown.  The daily limit and disabled
\* delivery only refuse.
requestPasswordReset(r) ==
  /\ "reset" \in Workload
  /\ Idle(r)
  /\ account.accountStatus = "ACTIVE"
  /\ \A t \in ResetTokens : ~reset[t].recent
  /\ req' = [req EXCEPT ![r] = RequestJob]
  /\ UNCHANGED <<account, session, enrollment, code, reset, accessTokens, clock, stamp>>

ResetsKept(seen, new) ==
  [t \in ResetTokens |->
     IF t = new THEN [state |-> "LIVE", recent |-> TRUE] ELSE reset[t]]

\* The tokens that are superseded, and the new one.
ResetsReplaced(seen, new) ==
  [t \in ResetTokens |->
     IF t = new THEN [state |-> "LIVE", recent |-> TRUE]
     ELSE IF t \in seen /\ LiveReset(t) THEN [reset[t] EXCEPT !.state = "SPENT"]
     ELSE reset[t]]

createPasswordResetToken(r) ==
  /\ req[r].op = "RESET_CREATING"
  /\ \E t \in ResetTokens :
       /\ reset[t].state = "NONE"
       /\ reset' = ResetsReplaced(req[r].seen, t)
       /\ req' = [req EXCEPT ![r] = DeliverJob(t)]
  /\ UNCHANGED <<account, session, enrollment, code, accessTokens, clock, stamp>>

\* The mail may already have arrived when the outcome of the delivery is written.
RecordDelivery(r) ==
  /\ req[r].op = "DELIVER"
  /\ \E delivered \in BOOLEAN :
       reset' = [reset EXCEPT ![req[r].row].state = IF delivered THEN @ ELSE "SPENT"]
  /\ Finish(r)
  /\ UNCHANGED <<account, session, enrollment, code, accessTokens, clock, stamp>>

completePasswordReset(r, t, p) ==
  /\ "reset" \in Workload
  /\ Idle(r)
  /\ LiveReset(t)
  /\ account.accountStatus = "ACTIVE"
  /\ req' = [req EXCEPT ![r] = ResetJob(t, p)]
  /\ UNCHANGED <<account, session, enrollment, code, reset, accessTokens, clock, stamp>>

\* One transaction; the version is incremented in the database.
CommitPasswordReset(r) ==
  /\ req[r].op = "RESET"
  /\ account.tokenVersion < MaxVersion
  /\ account' = [account EXCEPT !.password = req[r].password,
                                !.tokenVersion = @ + 1]
  /\ reset' = [reset EXCEPT ![req[r].row].state = "SPENT"]
  /\ Finish(r)
  /\ UNCHANGED <<session, enrollment, code, accessTokens, clock, stamp>>

-----------------------------------------------------------------------------
(* Administration of the account, and time.                                *)

\* Mutant: the version is a new random value, not the next one.
RevokeWithNonce ==
  /\ "admin" \in Workload
  /\ \E v \in 0..MaxVersion : /\ v # account.tokenVersion
                              /\ account' = [account EXCEPT !.tokenVersion = v]
  /\ UNCHANGED <<session, enrollment, code, reset, accessTokens, clock, stamp, req>>

revokeSessions ==
  /\ "admin" \in Workload
  /\ account.tokenVersion < MaxVersion
  /\ account' = [account EXCEPT !.tokenVersion = @ + 1]
  /\ UNCHANGED <<session, enrollment, code, reset, accessTokens, clock, stamp, req>>

setUserStatus(status) ==
  /\ "admin" \in Workload
  /\ account' = [account EXCEPT !.accountStatus = status]
  /\ UNCHANGED <<session, enrollment, code, reset, accessTokens, clock, stamp, req>>

updateUser(role) ==
  /\ "admin" \in Workload
  /\ account' = [account EXCEPT !.role = role]
  /\ UNCHANGED <<session, enrollment, code, reset, accessTokens, clock, stamp, req>>

NextTotpStep ==
  /\ clock < MaxClock
  /\ clock' = clock + 1
  /\ UNCHANGED <<account, session, enrollment, code, reset, accessTokens, stamp, req>>

SessionExpires(s) ==
  /\ session[s].purpose # "NONE"
  /\ session' = [session EXCEPT ![s].closed = TRUE]
  /\ UNCHANGED <<account, enrollment, code, reset, accessTokens, clock, stamp, req>>

ResetExpires(t) ==
  /\ LiveReset(t)
  /\ reset' = [reset EXCEPT ![t].state = "SPENT"]
  /\ UNCHANGED <<account, session, enrollment, code, accessTokens, clock, stamp, req>>

CooldownEnds(t) ==
  /\ reset[t].recent
  /\ reset' = [reset EXCEPT ![t].recent = FALSE]
  /\ UNCHANGED <<account, session, enrollment, code, accessTokens, clock, stamp, req>>

\* A database error or a restart; an open transaction is rolled back.
Abandon(r) ==
  /\ ~Idle(r)
  /\ Finish(r)
  /\ UNCHANGED <<account, session, enrollment, code, reset, accessTokens, clock, stamp>>

-----------------------------------------------------------------------------
Init ==
  /\ account \in [role: {"PRIVILEGED", "ORDINARY"}, accountStatus: {"ACTIVE"},
                  tokenVersion: {0}, password: Passwords]
  /\ session = [s \in Sessions |-> [purpose |-> "NONE", failedAttempts |-> 0,
                  closed |-> FALSE, lockedAt |-> FALSE]]
  /\ enrollment = [e \in Enrollments |-> [status |-> "NONE", disabledAt |-> FALSE,
                     createdAt |-> 0, enabledAt |-> 0, lastVerifiedStep |-> NoStep]]
  /\ code = [k \in RecoveryCodes |-> [state |-> "NONE", enrollment |-> None]]
  /\ reset = [t \in ResetTokens |-> [state |-> "NONE", recent |-> FALSE]]
  /\ accessTokens = {}
  /\ clock = 0
  /\ stamp = 0
  /\ req = [r \in Requests |-> IdleJob]

Handler(r) ==
  \/ login(r)
  \/ issueTokens(r)
  \/ recordFailedAttempt(r)
  \/ BeginTransaction(r)
  \/ CommitEnrollment(r)
  \/ CommitConfirmation(r)
  \/ CommitTotp(r)
  \/ CommitRecovery(r)
  \/ requestPasswordReset(r)
  \/ createPasswordResetToken(r)
  \/ RecordDelivery(r)
  \/ CommitPasswordReset(r)
  \/ Abandon(r)
  \/ \E s \in Sessions :
       \/ startEnrollment(r, s)
       \/ confirmEnrollment(r, s)
       \/ \E step \in TotpWindow \cup {NoStep} : completeTotpChallenge(r, s, step)
       \/ \E k \in RecoveryCodes : completeRecoveryCodeChallenge(r, s, k)
  \/ \E t \in ResetTokens, p \in Passwords : completePasswordReset(r, t, p)

Environment ==
  \/ revokeSessions
  \/ \E status \in {"ACTIVE", "SUSPENDED"} : setUserStatus(status)
  \/ \E role \in {"PRIVILEGED", "ORDINARY"} : updateUser(role)
  \/ NextTotpStep
  \/ \E s \in Sessions : SessionExpires(s)
  \/ \E t \in ResetTokens : ResetExpires(t) \/ CooldownEnds(t)

Next == Environment \/ \E r \in Requests : Handler(r)

Spec == Init /\ [][Next]_vars

-----------------------------------------------------------------------------
(* Properties.                                                             *)

\* The jobs that name the rows they are going to write.
RunnableJobs ==
  {q \in Jobs :
     /\ q.op \in {"FAIL", "START", "STARTING", "CONFIRM", "CONFIRMING", "TOTP", "RECOVERY"}
          => q.session \in Sessions
     /\ q.op \in {"CONFIRM", "CONFIRMING", "TOTP"} => q.row \in Enrollments
     /\ q.op = "RECOVERY" => q.row \in RecoveryCodes
     /\ q.op \in {"DELIVER", "RESET"} => q.row \in ResetTokens
     /\ q.op \in {"CONFIRM", "CONFIRMING"} => q.time \in Nat
     /\ q.op = "RESET" => q.password \in Passwords}

\* Columns and jobs keep their types, and a job names the rows it is going to write.
AuthTypeOK ==
  /\ account \in Accounts
  /\ session \in [Sessions -> SessionRows]
  /\ enrollment \in [Enrollments -> EnrollmentRows]
  /\ code \in [RecoveryCodes -> CodeRows]
  /\ reset \in [ResetTokens -> ResetRows]
  /\ accessTokens \in SUBSET AccessTokens
  /\ clock \in Nat /\ stamp \in Nat
  /\ req \in [Requests -> RunnableJobs]

\* isCurrentTokenVersion of jwt.strategy.ts.
isCurrentTokenVersion(token) == token.version = account.tokenVersion

\* An access token that jwt.strategy.ts refuses because sessions were revoked or the
\* password was reset is refused for ever, whatever logins, resets and revocations were
\* in flight: "All previously issued FixZone sessions are revoked."
RevocationIsFinal ==
  [][\A token \in accessTokens : ~isCurrentTokenVersion(token) => ~isCurrentTokenVersion(token)']_vars

\* An access token issued for a password alone is current only while that password is:
\* a login that compared the old hash and a reset that commits during the comparison
\* leave no usable token behind.
CurrentTokenKnowsPassword ==
  \A token \in accessTokens :
    token.password # None /\ isCurrentTokenVersion(token) => token.password = account.password

\* A pre-authentication session takes at most maxAttempts wrong codes, and beyond them
\* only those of handlers that had already passed validatePreAuth.
AttemptsBounded ==
  \A s \in Sessions :
    session[s].failedAttempts <= MaxAttempts + Cardinality(Requests) - 1

\* A challenge that succeeds spends its proof in the same step, however many handlers
\* present the same code: the time step moves forward, or an unused recovery code is used.
FactorSpent ==
  [][\A r \in Requests :
       req[r].op \in {"TOTP", "RECOVERY"} /\ req'[r].op = "ISSUE" =>
         \/ \E e \in Enrollments :
              enrollment'[e].lastVerifiedStep > enrollment[e].lastVerifiedStep
         \/ \E k \in RecoveryCodes : code[k].state = "UNUSED" /\ code'[k].state = "USED"]_vars

\* A new reset token supersedes the ones before it: no more of them can be live than
\* requests were creating one at the same time, and one if requests are serial.
LiveResetsBounded ==
  Cardinality({t \in ResetTokens : LiveReset(t)}) <= Cardinality(Requests)

\* When requests are serial, the recovery codes a user was given last work: unused codes
\* belong to the factor that activeEnrollment chooses for the challenge.
RecoveryCodesWork ==
  \A k \in RecoveryCodes : code[k].state = "UNUSED" => activeEnrollment(code[k].enrollment)

=============================================================================
