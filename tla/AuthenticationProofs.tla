------------------------ MODULE AuthenticationProofs ------------------------
(***************************************************************************)
(* Theorems about sign-in for every number of handlers, sessions, factors, *)
(* codes and reset tokens and every limit of attempts.                     *)
(***************************************************************************)
EXTENDS MCAuthentication, FiniteSetTheorems, TLAPS

\* The handlers that have passed validatePreAuth for s and may still record a failure.
Holders(s) == {r \in Requests : req[r].session = s}

\* The failures of a session and those still to come.
AttemptsInv ==
  \A s \in Sessions :
    session[s].failedAttempts + Cardinality(Holders(s))
      <= MaxAttempts + Cardinality(Requests) - 1

\* No access token and no handler knows a version the account has not reached.
VersionsReached ==
  /\ \A token \in accessTokens : token.version <= account.tokenVersion
  /\ \A r \in Requests : req[r].version <= account.tokenVersion

\* A handler about to sign a current version read the current password with it.
PendingTokenKnowsPassword ==
  \A r \in Requests :
    req[r].op = "ISSUE" /\ req[r].password # None /\ req[r].version = account.tokenVersion
      => req[r].password = account.password

-----------------------------------------------------------------------------
(* Jobs.                                                                   *)

\* Every job a handler makes is runnable; its fields are the ones given.
LEMMA IdleFields ==
  /\ IdleJob \in RunnableJobs
  /\ IdleJob.op = "IDLE"
  /\ IdleJob.session = None
  /\ IdleJob.version = 0
<1> QED BY DEF IdleJob, Job, Jobs, RunnableJobs, Ops, Rows

\* FailJob names the session that failed.
LEMMA FailFields ==
  ASSUME NEW s \in Sessions, NEW n \in Nat
  PROVE  /\ FailJob(s, n) \in RunnableJobs
         /\ FailJob(s, n).op = "FAIL"
         /\ FailJob(s, n).session = s
         /\ FailJob(s, n).version = 0
<1> QED BY DEF FailJob, Job, Jobs, RunnableJobs, Ops, Rows

\* IssueJob carries the version and the password that were read.
LEMMA IssueFields ==
  ASSUME NEW v \in Nat, NEW p \in Passwords \cup {None}
  PROVE  /\ IssueJob(v, p) \in RunnableJobs
         /\ IssueJob(v, p).op = "ISSUE"
         /\ IssueJob(v, p).session = None
         /\ IssueJob(v, p).version = v
         /\ IssueJob(v, p).password = p
<1> QED BY DEF IssueJob, Job, Jobs, RunnableJobs, Ops, Rows

\* StartJob carries no version.
LEMMA StartFields ==
  ASSUME NEW s \in Sessions
  PROVE  /\ StartJob(s) \in RunnableJobs
         /\ StartJob(s).op = "START"
         /\ StartJob(s).session = s
         /\ StartJob(s).version = 0
<1> QED BY DEF StartJob, Job, Jobs, RunnableJobs, Ops, Rows

\* ConfirmJob carries the version that was read.
LEMMA ConfirmFields ==
  ASSUME AuthTypeOK, NEW s \in Sessions, NEW e \in Enrollments, NEW n \in Nat
  PROVE  /\ ConfirmJob(s, e, n) \in RunnableJobs
         /\ ConfirmJob(s, e, n).op = "CONFIRM"
         /\ ConfirmJob(s, e, n).session = s
         /\ ConfirmJob(s, e, n).version = account.tokenVersion
<1>1. account.tokenVersion \in Nat
  BY DEF AuthTypeOK, Accounts, SessionRows
<1> QED BY <1>1 DEF ConfirmJob, Job, Jobs, RunnableJobs, Ops, Rows

\* TotpJob carries the version that was read and names its factor.
LEMMA TotpFields ==
  ASSUME AuthTypeOK, NEW s \in Sessions, NEW e \in Enrollments, NEW n \in Int
  PROVE  /\ TotpJob(s, e, n) \in RunnableJobs
         /\ TotpJob(s, e, n).op = "TOTP"
         /\ TotpJob(s, e, n).session = s
         /\ TotpJob(s, e, n).version = account.tokenVersion
<1>1. account.tokenVersion \in Nat /\ session[s].failedAttempts \in Nat
  BY DEF AuthTypeOK, Accounts, SessionRows
<1> QED BY <1>1 DEF TotpJob, Job, Jobs, RunnableJobs, Ops, Rows

\* RecoveryJob carries the version that was read and names its code.
LEMMA RecoveryFields ==
  ASSUME AuthTypeOK, NEW s \in Sessions, NEW k \in RecoveryCodes
  PROVE  /\ RecoveryJob(s, k) \in RunnableJobs
         /\ RecoveryJob(s, k).op = "RECOVERY"
         /\ RecoveryJob(s, k).session = s
         /\ RecoveryJob(s, k).version = account.tokenVersion
<1>1. account.tokenVersion \in Nat /\ session[s].failedAttempts \in Nat
  BY DEF AuthTypeOK, Accounts, SessionRows
<1> QED BY <1>1 DEF RecoveryJob, Job, Jobs, RunnableJobs, Ops, Rows

\* RequestJob names no session and no version.
LEMMA RequestFields ==
  /\ RequestJob \in RunnableJobs
  /\ RequestJob.op = "RESET_REQUEST"
  /\ RequestJob.session = None
  /\ RequestJob.version = 0
<1> QED BY DEF RequestJob, Job, Jobs, RunnableJobs, Ops, Rows

\* DeliverJob names the reset token that was mailed.
LEMMA DeliverFields ==
  ASSUME NEW t \in ResetTokens
  PROVE  /\ DeliverJob(t) \in RunnableJobs
         /\ DeliverJob(t).op = "DELIVER"
         /\ DeliverJob(t).session = None
         /\ DeliverJob(t).version = 0
<1> QED BY DEF DeliverJob, Job, Jobs, RunnableJobs, Ops, Rows

\* ResetJob names the reset token and the chosen password.
LEMMA ResetFields ==
  ASSUME AuthTypeOK, NEW t \in ResetTokens, NEW p \in Passwords
  PROVE  /\ ResetJob(t, p) \in RunnableJobs
         /\ ResetJob(t, p).op = "RESET"
         /\ ResetJob(t, p).session = None
         /\ ResetJob(t, p).version = account.tokenVersion
<1>1. account.tokenVersion \in Nat
  BY DEF AuthTypeOK, Accounts, SessionRows
<1> QED BY <1>1 DEF ResetJob, Job, Jobs, RunnableJobs, Ops, Rows

\* Opening a transaction keeps the session, the version and the row of the job.
LEMMA BegunFields ==
  ASSUME AuthTypeOK, NEW r \in Requests, req[r].op \in {"START", "CONFIRM", "RESET_REQUEST"},
         NEW q, q = [req[r] EXCEPT !.op = Begun(req[r].op), !.seen = RowsSeen(req[r].op)]
  PROVE  /\ q \in RunnableJobs
         /\ q.op \in {"STARTING", "CONFIRMING", "RESET_CREATING"}
         /\ q.session = req[r].session
         /\ q.version = req[r].version
<1>1. RowsSeen(req[r].op) \in SUBSET Rows
  BY DEF RowsSeen, Rows
<1>2. Begun(req[r].op) \in {"STARTING", "CONFIRMING", "RESET_CREATING"} /\ Begun(req[r].op) \in Ops
  BY DEF Begun, Ops
<1>3. /\ req[r].op = "START" => Begun(req[r].op) = "STARTING"
      /\ req[r].op = "CONFIRM" => Begun(req[r].op) = "CONFIRMING"
      /\ req[r].op = "RESET_REQUEST" => Begun(req[r].op) = "RESET_CREATING"
  BY DEF Begun
<1>4. req[r] \in Jobs /\ req[r] \in RunnableJobs
  BY DEF AuthTypeOK, RunnableJobs
<1>5. q \in Jobs
  BY <1>1, <1>2, <1>4 DEF Jobs
<1>6. /\ q.op = Begun(req[r].op) /\ q.session = req[r].session /\ q.row = req[r].row
      /\ q.version = req[r].version /\ q.time = req[r].time
  BY <1>4 DEF Jobs
<1> QED BY <1>2, <1>3, <1>4, <1>5, <1>6 DEF RunnableJobs

-----------------------------------------------------------------------------
(* Types.                                                                  *)

\* The empty tables have their types.
LEMMA TypeInit == Init => AuthTypeOK
<1> SUFFICES ASSUME Init PROVE AuthTypeOK OBVIOUS
<1>1. account \in Accounts
  BY DEF Init, Accounts
<1>2. session \in [Sessions -> SessionRows]
  BY DEF Init, SessionRows
<1>3. enrollment \in [Enrollments -> EnrollmentRows]
  BY DEF Init, EnrollmentRows, NoStep
<1>4. code \in [RecoveryCodes -> CodeRows] /\ reset \in [ResetTokens -> ResetRows]
  BY DEF Init, CodeRows, ResetRows
<1>5. accessTokens \in SUBSET AccessTokens /\ clock \in Nat /\ stamp \in Nat
  BY DEF Init
<1>6. req \in [Requests -> RunnableJobs]
  BY IdleFields DEF Init
<1> QED BY <1>1, <1>2, <1>3, <1>4, <1>5, <1>6 DEF AuthTypeOK

\* A step of a handler that changes a job and no table.
LEMMA OnlyJob ==
  ASSUME AuthTypeOK, NEW r \in Requests, NEW q \in RunnableJobs,
         req' = [req EXCEPT ![r] = q],
         UNCHANGED <<account, session, enrollment, code, reset, accessTokens, clock>>,
         stamp' \in Nat
  PROVE  AuthTypeOK'
BY DEF AuthTypeOK

\* Jobs replaced by runnable jobs keep the type of req.
LEMMA JobReplaced ==
  ASSUME AuthTypeOK, NEW r \in Requests, NEW q \in RunnableJobs, req' = [req EXCEPT ![r] = q]
  PROVE  req' \in [Requests -> RunnableJobs]
BY DEF AuthTypeOK

\* Each step of a handler keeps the types.
LEMMA HandlerType ==
  ASSUME AuthTypeOK, NEW r \in Requests, Handler(r)
  PROVE  AuthTypeOK'
<1>0. /\ req[r] \in RunnableJobs /\ req[r] \in Jobs
      /\ account.tokenVersion \in Nat /\ account.password \in Passwords
      /\ stamp \in Nat
      /\ \A s \in Sessions : session[s] \in SessionRows /\ session[s].failedAttempts \in Nat
      /\ req[r].version \in Nat /\ req[r].password \in Passwords \cup {None}
      /\ req[r].attempts \in Nat /\ req[r].time \in Int
  BY DEF AuthTypeOK, RunnableJobs, Jobs, Accounts, SessionRows
<1>1. CASE login(r)
  <2>1. ASSUME NEW s \in Sessions, createPreAuthSession(s) PROVE AuthTypeOK'
    <3>1. session' \in [Sessions -> SessionRows]
      BY <2>1 DEF createPreAuthSession, AuthTypeOK, SessionRows
    <3> QED BY <2>1, <3>1 DEF createPreAuthSession, AuthTypeOK
  <2>2. IssueJob(account.tokenVersion, account.password) \in RunnableJobs
    BY <1>0, IssueFields
  <2> QED BY <1>0, <1>1, <2>1, <2>2, OnlyJob DEF login
<1>2. CASE issueTokens(r)
  <2>1. accessTokens' \in SUBSET AccessTokens
    BY <1>0, <1>2 DEF issueTokens, AuthTypeOK, AccessTokens
  <2> QED BY <1>2, <2>1, JobReplaced, IdleFields DEF issueTokens, Finish, AuthTypeOK
<1>3. CASE recordFailedAttempt(r)
  <2>1. req[r].session \in Sessions
    BY <1>0, <1>3 DEF recordFailedAttempt, RunnableJobs
  <2>2. session' \in [Sessions -> SessionRows]
    BY <1>0, <1>3, <2>1 DEF recordFailedAttempt, AuthTypeOK, SessionRows
  <2> QED BY <1>3, <2>2, JobReplaced, IdleFields DEF recordFailedAttempt, Finish, AuthTypeOK
<1>4. CASE BeginTransaction(r)
  BY <1>0, <1>4, BegunFields, OnlyJob DEF BeginTransaction
<1>5. CASE CommitEnrollment(r)
  <2>1. PICK new \in Enrollments : enrollment' = [e \in Enrollments |->
            IF e = new
            THEN [enrollment[e] EXCEPT !.status = "PENDING", !.createdAt = stamp + 1]
            ELSE IF e \in req[r].seen /\ enrollment[e].status = "PENDING"
            THEN [enrollment[e] EXCEPT !.status = "DISABLED", !.disabledAt = TRUE]
            ELSE enrollment[e]]
    BY <1>5 DEF CommitEnrollment
  <2>2. ASSUME NEW e \in Enrollments PROVE enrollment'[e] \in EnrollmentRows
    <3>1. enrollment[e] \in EnrollmentRows /\ stamp + 1 \in Nat
      BY <1>0 DEF AuthTypeOK
    <3>2. /\ [enrollment[e] EXCEPT !.status = "PENDING", !.createdAt = stamp + 1] \in EnrollmentRows
          /\ [enrollment[e] EXCEPT !.status = "DISABLED", !.disabledAt = TRUE] \in EnrollmentRows
      BY <3>1 DEF EnrollmentRows
    <3> QED BY <2>1, <3>1, <3>2
  <2>3. enrollment' \in [Enrollments -> EnrollmentRows]
    BY <2>1, <2>2
  <2>4. req' \in [Requests -> RunnableJobs]
    BY <1>5, JobReplaced, IdleFields DEF CommitEnrollment, Finish
  <2>5. stamp' \in Nat
    <3>1. stamp' = stamp + 1
      BY <1>5, Zenon DEF CommitEnrollment
    <3> QED BY <1>0, <3>1
  <2> QED BY <1>5, <2>3, <2>4, <2>5 DEF CommitEnrollment, AuthTypeOK
<1>6. CASE CommitConfirmation(r)
  <2>1. req[r].row \in Enrollments /\ req[r].session \in Sessions /\ req[r].time \in Nat
    BY <1>0, <1>6 DEF CommitConfirmation, RunnableJobs
  <2>2. enrollment' \in [Enrollments -> EnrollmentRows]
    BY <1>6, <2>1 DEF CommitConfirmation, AuthTypeOK, EnrollmentRows, NoStep
  <2>3. session' \in [Sessions -> SessionRows]
    BY <1>6, <2>1 DEF CommitConfirmation, AuthTypeOK, SessionRows
  <2>4. PICK new \in SUBSET RecoveryCodes : code' = CodesReplaced(req[r].seen, new, req[r].row)
    BY <1>6 DEF CommitConfirmation
  <2>5. code' \in [RecoveryCodes -> CodeRows]
    BY <2>1, <2>4 DEF CodesReplaced, AuthTypeOK, CodeRows
  <2>6. IssueJob(req[r].version, None) \in RunnableJobs
    BY <1>0, IssueFields
  <2> QED BY <1>6, <2>2, <2>3, <2>5, <2>6, JobReplaced DEF CommitConfirmation, AuthTypeOK
<1>7. CASE CommitTotp(r)
  <2>1. req[r].row \in Enrollments /\ req[r].session \in Sessions
    BY <1>0, <1>7 DEF CommitTotp, RunnableJobs
  <2>2. enrollment' \in [Enrollments -> EnrollmentRows]
    BY <1>0, <1>7, <2>1 DEF CommitTotp, AuthTypeOK, EnrollmentRows
  <2>3. session' \in [Sessions -> SessionRows]
    <3>1. \/ session' = [session EXCEPT ![req[r].session].closed = TRUE]
          \/ session' = session
      BY <1>7 DEF CommitTotp
    <3> QED BY <2>1, <3>1 DEF AuthTypeOK, SessionRows
  <2>4. /\ IssueJob(req[r].version, None) \in RunnableJobs
        /\ FailJob(req[r].session, req[r].attempts) \in RunnableJobs
    BY <1>0, <2>1, IssueFields, FailFields
  <2>5. req' \in [Requests -> RunnableJobs]
    BY <1>7, <2>4, JobReplaced DEF CommitTotp
  <2> QED BY <1>7, <2>2, <2>3, <2>5 DEF CommitTotp, AuthTypeOK
<1>8. CASE CommitRecovery(r)
  <2>1. req[r].row \in RecoveryCodes /\ req[r].session \in Sessions
    BY <1>0, <1>8 DEF CommitRecovery, RunnableJobs
  <2>2. code' \in [RecoveryCodes -> CodeRows]
    BY <1>8, <2>1 DEF CommitRecovery, AuthTypeOK, CodeRows
  <2>3. session' \in [Sessions -> SessionRows]
    <3>1. \/ session' = [session EXCEPT ![req[r].session].closed = TRUE]
          \/ session' = session
      BY <1>8 DEF CommitRecovery
    <3> QED BY <2>1, <3>1 DEF AuthTypeOK, SessionRows
  <2>4. /\ IssueJob(req[r].version, None) \in RunnableJobs
        /\ FailJob(req[r].session, req[r].attempts) \in RunnableJobs
    BY <1>0, <2>1, IssueFields, FailFields
  <2>5. req' \in [Requests -> RunnableJobs]
    BY <1>8, <2>4, JobReplaced DEF CommitRecovery
  <2> QED BY <1>8, <2>2, <2>3, <2>5 DEF CommitRecovery, AuthTypeOK
<1>9. CASE requestPasswordReset(r)
  BY <1>0, <1>9, RequestFields, OnlyJob DEF requestPasswordReset
<1>10. CASE createPasswordResetToken(r)
  <2>1. PICK t \in ResetTokens :
          /\ reset' = ResetsReplaced(req[r].seen, t)
          /\ req' = [req EXCEPT ![r] = DeliverJob(t)]
    BY <1>10 DEF createPasswordResetToken
  <2>2. reset' \in [ResetTokens -> ResetRows]
    BY <2>1 DEF ResetsReplaced, AuthTypeOK, ResetRows
  <2> QED BY <1>10, <2>1, <2>2, DeliverFields, JobReplaced DEF createPasswordResetToken, AuthTypeOK
<1>11. CASE RecordDelivery(r)
  <2>1. req[r].row \in ResetTokens
    BY <1>0, <1>11 DEF RecordDelivery, RunnableJobs
  <2>2. reset' \in [ResetTokens -> ResetRows]
    BY <1>11, <2>1 DEF RecordDelivery, AuthTypeOK, ResetRows
  <2> QED BY <1>11, <2>2, IdleFields, JobReplaced DEF RecordDelivery, Finish, AuthTypeOK
<1>12. CASE CommitPasswordReset(r)
  <2>1. req[r].row \in ResetTokens /\ req[r].password \in Passwords
    BY <1>0, <1>12 DEF CommitPasswordReset, RunnableJobs
  <2>2. reset' \in [ResetTokens -> ResetRows]
    BY <1>12, <2>1 DEF CommitPasswordReset, AuthTypeOK, ResetRows
  <2>3. account' \in Accounts
    <3>1. account' = [account EXCEPT !.password = req[r].password,
                                     !.tokenVersion = account.tokenVersion + 1]
      BY <1>12 DEF CommitPasswordReset
    <3>2. account \in Accounts /\ account.tokenVersion + 1 \in Nat
      BY <1>0 DEF AuthTypeOK
    <3> QED BY <2>1, <3>1, <3>2 DEF Accounts
  <2> QED BY <1>12, <2>2, <2>3, IdleFields, JobReplaced DEF CommitPasswordReset, Finish, AuthTypeOK
<1>13. CASE Abandon(r)
  BY <1>0, <1>13, IdleFields, OnlyJob DEF Abandon, Finish
<1>14. ASSUME NEW s \in Sessions, startEnrollment(r, s) PROVE AuthTypeOK'
  BY <1>0, <1>14, StartFields, OnlyJob DEF startEnrollment
<1>15. ASSUME NEW s \in Sessions, confirmEnrollment(r, s) PROVE AuthTypeOK'
  <2>1. FailJob(s, session[s].failedAttempts) \in RunnableJobs
    BY <1>0, FailFields
  <2>2. \A e \in Enrollments : ConfirmJob(s, e, stamp + 1) \in RunnableJobs
    BY <1>0, ConfirmFields
  <2> QED BY <1>0, <1>15, <2>1, <2>2, OnlyJob DEF confirmEnrollment
<1>16. ASSUME NEW s \in Sessions, NEW step \in TotpWindow \cup {NoStep},
              completeTotpChallenge(r, s, step)
       PROVE  AuthTypeOK'
  <2>1. FailJob(s, session[s].failedAttempts) \in RunnableJobs
    BY <1>0, FailFields
  <2>2. \A e \in Enrollments : TotpJob(s, e, step) \in RunnableJobs
    BY TotpFields DEF TotpWindow, NoStep
  <2> QED BY <1>0, <1>16, <2>1, <2>2, OnlyJob DEF completeTotpChallenge
<1>17. ASSUME NEW s \in Sessions, NEW k \in RecoveryCodes, completeRecoveryCodeChallenge(r, s, k)
       PROVE  AuthTypeOK'
  <2>1. /\ FailJob(s, session[s].failedAttempts) \in RunnableJobs
        /\ RecoveryJob(s, k) \in RunnableJobs
    BY <1>0, FailFields, RecoveryFields
  <2> QED BY <1>0, <1>17, <2>1, OnlyJob DEF completeRecoveryCodeChallenge
<1>18. ASSUME NEW t \in ResetTokens, NEW p \in Passwords, completePasswordReset(r, t, p)
       PROVE  AuthTypeOK'
  BY <1>0, <1>18, ResetFields, OnlyJob DEF completePasswordReset
<1> QED BY <1>1, <1>2, <1>3, <1>4, <1>5, <1>6, <1>7, <1>8, <1>9, <1>10, <1>11, <1>12, <1>13,
           <1>14, <1>15, <1>16, <1>17, <1>18 DEF Handler

\* Administration and time keep the types.
LEMMA EnvironmentType ==
  ASSUME AuthTypeOK, Environment
  PROVE  AuthTypeOK'
<1>1. CASE revokeSessions
  BY <1>1 DEF revokeSessions, AuthTypeOK, Accounts
<1>2. ASSUME NEW status \in {"ACTIVE", "SUSPENDED"}, setUserStatus(status) PROVE AuthTypeOK'
  BY <1>2 DEF setUserStatus, AuthTypeOK, Accounts
<1>3. ASSUME NEW role \in {"PRIVILEGED", "ORDINARY"}, updateUser(role) PROVE AuthTypeOK'
  BY <1>3 DEF updateUser, AuthTypeOK, Accounts
<1>4. CASE NextTotpStep
  BY <1>4 DEF NextTotpStep, AuthTypeOK
<1>5. ASSUME NEW s \in Sessions, SessionExpires(s) PROVE AuthTypeOK'
  <2>1. session' \in [Sessions -> SessionRows]
    BY <1>5 DEF SessionExpires, AuthTypeOK, SessionRows
  <2> QED BY <1>5, <2>1 DEF SessionExpires, AuthTypeOK
<1>6. ASSUME NEW t \in ResetTokens, ResetExpires(t) \/ CooldownEnds(t) PROVE AuthTypeOK'
  <2>1. reset' \in [ResetTokens -> ResetRows]
    BY <1>6 DEF ResetExpires, CooldownEnds, AuthTypeOK, ResetRows
  <2> QED BY <1>6, <2>1 DEF ResetExpires, CooldownEnds, AuthTypeOK
<1> QED BY <1>1, <1>2, <1>3, <1>4, <1>5, <1>6 DEF Environment

\* Every step keeps the types.
LEMMA TypeStep == AuthTypeOK /\ [Next]_vars => AuthTypeOK'
<1>1. ASSUME AuthTypeOK, UNCHANGED vars PROVE AuthTypeOK'
  BY <1>1 DEF AuthTypeOK, vars
<1> QED BY <1>1, HandlerType, EnvironmentType DEF Next

\* Columns and jobs keep their types, and a job names the rows it is going to write.
THEOREM AuthTypeCorrect == Spec => []AuthTypeOK
BY TypeInit, TypeStep, PTL DEF Spec

-----------------------------------------------------------------------------
(* Versions, passwords and attempts.                                       *)

\* Versions and passwords of tokens and jobs, relative to the account.
SecretsInv ==
  /\ VersionsReached
  /\ PendingTokenKnowsPassword
  /\ CurrentTokenKnowsPassword

\* A job that claims no version and no password but those of the account.
Honest(q) ==
  /\ q.version \in Nat
  /\ q.version <= account.tokenVersion
  /\ q.op = "ISSUE" /\ q.password # None /\ q.version = account.tokenVersion
       => q.password = account.password

\* A handler that takes on an honest job and changes no account and no token.
LEMMA HonestJobKeepsSecrets ==
  ASSUME AuthTypeOK, SecretsInv, NEW r \in Requests, NEW q, Honest(q),
         req' = [req EXCEPT ![r] = q],
         UNCHANGED <<account, accessTokens>>
  PROVE  SecretsInv'
<1>1. req \in [Requests -> RunnableJobs]
  BY DEF AuthTypeOK
<1>2. \A x \in Requests : req'[x] = IF x = r THEN q ELSE req[x]
  BY <1>1
<1>3. VersionsReached'
  BY <1>2 DEF SecretsInv, VersionsReached, Honest
<1>4. PendingTokenKnowsPassword'
  BY <1>2 DEF SecretsInv, PendingTokenKnowsPassword, Honest
<1>5. CurrentTokenKnowsPassword'
  BY DEF SecretsInv, CurrentTokenKnowsPassword, isCurrentTokenVersion
<1> QED BY <1>3, <1>4, <1>5 DEF SecretsInv

\* Advancing the version leaves no current token and no current job behind.
LEMMA AdvanceKeepsSecrets ==
  ASSUME AuthTypeOK, SecretsInv,
         account'.tokenVersion = account.tokenVersion + 1,
         \A x \in Requests : req'[x].version \in Nat /\ req'[x].version <= account.tokenVersion,
         UNCHANGED accessTokens
  PROVE  SecretsInv'
<1>1. account.tokenVersion \in Nat /\ \A token \in accessTokens : token.version \in Nat
  BY DEF AuthTypeOK, Accounts, AccessTokens
<1>2. VersionsReached'
  BY <1>1 DEF SecretsInv, VersionsReached
<1>3. PendingTokenKnowsPassword'
  BY <1>1 DEF PendingTokenKnowsPassword
<1>4. CurrentTokenKnowsPassword'
  BY <1>1 DEF SecretsInv, VersionsReached, CurrentTokenKnowsPassword, isCurrentTokenVersion
<1> QED BY <1>2, <1>3, <1>4 DEF SecretsInv

\* There are finitely many handlers past validatePreAuth.
LEMMA HoldersFinite ==
  ASSUME NEW s
  PROVE  /\ IsFiniteSet(Holders(s)) /\ Cardinality(Holders(s)) \in Nat
         /\ Cardinality(Requests) \in Nat
         /\ Cardinality(Holders(s)) <= Cardinality(Requests)
BY RequestsFinite, FS_Subset, FS_CardinalityType DEF Holders

\* The same after a step.
LEMMA HoldersFiniteNext ==
  ASSUME NEW s
  PROVE  /\ IsFiniteSet(Holders(s)') /\ Cardinality(Holders(s)') \in Nat
         /\ Cardinality(Holders(s)') <= Cardinality(Requests)
BY RequestsFinite, FS_Subset, FS_CardinalityType DEF Holders

\* No failure is recorded, and the handler lets go of its session or keeps it.
LEMMA NoFailure ==
  ASSUME AuthTypeOK, AttemptsInv, NEW r \in Requests, NEW q,
         q.session = None \/ q.session = req[r].session,
         req' = [req EXCEPT ![r] = q],
         \A s \in Sessions : session'[s].failedAttempts = session[s].failedAttempts
  PROVE  AttemptsInv'
<1> SUFFICES ASSUME NEW s \in Sessions
             PROVE  session'[s].failedAttempts + Cardinality(Holders(s)')
                      <= MaxAttempts + Cardinality(Requests) - 1
  BY DEF AttemptsInv
<1>1. Holders(s)' \subseteq Holders(s)
  BY NoneIsNothing DEF AuthTypeOK, Holders
<1>2. Cardinality(Holders(s)') <= Cardinality(Holders(s))
  BY <1>1, HoldersFinite, FS_Subset
<1>3. session[s].failedAttempts \in Nat
  BY DEF AuthTypeOK, SessionRows
<1> QED BY <1>2, <1>3, HoldersFinite, HoldersFiniteNext, AttemptsPositive DEF AttemptsInv

\* A handler that validatePreAuth lets pass may add a failure.
LEMMA NewHolder ==
  ASSUME AuthTypeOK, AttemptsInv, NEW r \in Requests, NEW q, NEW s \in Sessions,
         session[s].failedAttempts < MaxAttempts, q.session = s,
         req' = [req EXCEPT ![r] = q],
         session' = session
  PROVE  AttemptsInv'
<1> SUFFICES ASSUME NEW x \in Sessions
             PROVE  session[x].failedAttempts + Cardinality(Holders(x)')
                      <= MaxAttempts + Cardinality(Requests) - 1
  BY DEF AttemptsInv
<1>1. session[x].failedAttempts \in Nat
  BY DEF AuthTypeOK, SessionRows
<1>2. CASE x = s
  <2>1. /\ Cardinality(Holders(x)') \in Nat /\ Cardinality(Requests) \in Nat
        /\ Cardinality(Holders(x)') <= Cardinality(Requests)
    BY HoldersFinite, HoldersFiniteNext
  <2>2. session[x].failedAttempts < MaxAttempts
    BY <1>2
  <2> QED BY <1>1, <2>1, <2>2, AttemptsPositive
<1>3. CASE x # s
  <2>1. Holders(x)' \subseteq Holders(x)
    BY <1>3 DEF AuthTypeOK, Holders
  <2>2. Cardinality(Holders(x)') <= Cardinality(Holders(x))
    BY <2>1, HoldersFinite, FS_Subset
  <2> QED BY <1>1, <2>2, HoldersFinite, HoldersFiniteNext, AttemptsPositive DEF AttemptsInv
<1> QED BY <1>2, <1>3

\* recordFailedAttempt: the failure is counted and its handler gone.
LEMMA CountedFailure ==
  ASSUME AuthTypeOK, AttemptsInv, NEW r \in Requests, recordFailedAttempt(r)
  PROVE  AttemptsInv'
<1> DEFINE s == req[r].session
<1>1. s \in Sessions
  BY DEF AuthTypeOK, RunnableJobs, recordFailedAttempt
<1>2. /\ req' = [req EXCEPT ![r] = IdleJob]
      /\ session' = [session EXCEPT ![s].failedAttempts = @ + 1,
                                    ![s].lockedAt = @ \/ req[r].attempts + 1 >= MaxAttempts]
  BY DEF recordFailedAttempt, Finish
<1> SUFFICES ASSUME NEW x \in Sessions
             PROVE  session'[x].failedAttempts + Cardinality(Holders(x)')
                      <= MaxAttempts + Cardinality(Requests) - 1
  BY DEF AttemptsInv
<1>3. session[x].failedAttempts \in Nat /\ session[x] \in SessionRows
  BY DEF AuthTypeOK, SessionRows
<1>4. Holders(x)' = Holders(x) \ {r}
  BY <1>2, IdleFields, NoneIsNothing DEF AuthTypeOK, Holders
<1>5. CASE x = s
  <2>1. session'[x].failedAttempts = session[x].failedAttempts + 1
    BY <1>1, <1>2, <1>3, <1>5 DEF AuthTypeOK, SessionRows
  <2>2. r \in Holders(x)
    BY <1>5 DEF Holders
  <2>3. Cardinality(Holders(x)') = Cardinality(Holders(x)) - 1
    BY <1>4, <2>2, HoldersFinite, FS_RemoveElement
  <2> QED BY <1>3, <2>1, <2>3, HoldersFinite, AttemptsPositive DEF AttemptsInv
<1>6. CASE x # s
  <2>1. session'[x].failedAttempts = session[x].failedAttempts
    BY <1>2, <1>6 DEF AuthTypeOK
  <2>2. r \notin Holders(x)
    BY <1>6 DEF Holders
  <2>3. Holders(x)' = Holders(x)
    BY <1>4, <2>2
  <2> QED BY <2>1, <2>3 DEF AttemptsInv
<1> QED BY <1>5, <1>6

\* The inductive invariant.
AuthInv == AuthTypeOK /\ SecretsInv /\ AttemptsInv

\* The invariant holds initially.
LEMMA AuthInit == Init => AuthInv
<1> SUFFICES ASSUME Init PROVE AuthInv OBVIOUS
<1>1. \A r \in Requests : req[r] = IdleJob
  BY DEF Init
<1>2. account.tokenVersion \in Nat
  BY TypeInit DEF AuthTypeOK, Accounts
<1>3. SecretsInv
  BY <1>1, <1>2, IdleFields
     DEF Init, SecretsInv, VersionsReached, PendingTokenKnowsPassword, CurrentTokenKnowsPassword
<1>4. ASSUME NEW s \in Sessions
      PROVE  session[s].failedAttempts + Cardinality(Holders(s))
               <= MaxAttempts + Cardinality(Requests) - 1
  <2>1. session[s].failedAttempts = 0
    BY DEF Init
  <2> QED BY <2>1, HoldersFinite, AttemptsPositive
<1> QED BY <1>3, <1>4, TypeInit DEF AuthInv, AttemptsInv

\* Each step of a handler keeps the invariant.
LEMMA HandlerKeeps ==
  ASSUME AuthInv, NEW r \in Requests, Handler(r)
  PROVE  SecretsInv' /\ AttemptsInv'
<1> USE DEF AuthInv
<1>0. /\ AuthTypeOK /\ SecretsInv /\ AttemptsInv
      /\ req[r] \in RunnableJobs
      /\ account.tokenVersion \in Nat /\ account.password \in Passwords
      /\ \A s \in Sessions : session[s] \in SessionRows /\ session[s].failedAttempts \in Nat
      /\ req[r].version \in Nat /\ req[r].version <= account.tokenVersion
      /\ req[r].attempts \in Nat /\ stamp \in Nat
  BY DEF AuthTypeOK, RunnableJobs, Jobs, Accounts, SessionRows, SecretsInv, VersionsReached
<1>a. Honest(IdleJob) /\ IdleJob.session = None
  BY <1>0, IdleFields DEF Honest
<1>b. Honest(IssueJob(req[r].version, None)) /\ IssueJob(req[r].version, None).session = None
  BY <1>0, IssueFields DEF Honest
<1>c. \A s \in Sessions, n \in Nat : Honest(FailJob(s, n)) /\ FailJob(s, n).session = s
  BY <1>0, FailFields DEF Honest
<1>1. CASE login(r)
  <2>1. ASSUME NEW s \in Sessions, createPreAuthSession(s) PROVE SecretsInv' /\ AttemptsInv'
    <3>1. \A x \in Sessions : session'[x].failedAttempts = session[x].failedAttempts
      BY <1>0, <2>1 DEF createPreAuthSession, AuthTypeOK, SessionRows
    <3>2. req' = [req EXCEPT ![r] = req[r]]
      BY <2>1 DEF createPreAuthSession, AuthTypeOK
    <3>3. AttemptsInv'
      BY <1>0, <3>1, <3>2, NoFailure
    <3>4. SecretsInv'
      BY <1>0, <2>1 DEF createPreAuthSession, SecretsInv, VersionsReached,
         PendingTokenKnowsPassword, CurrentTokenKnowsPassword, isCurrentTokenVersion
    <3> QED BY <3>3, <3>4
  <2>2. CASE /\ req' = [req EXCEPT ![r] = IssueJob(account.tokenVersion, account.password)]
             /\ UNCHANGED <<account, session, accessTokens>>
    <3> DEFINE q == IssueJob(account.tokenVersion, account.password)
    <3>1. Honest(q) /\ q.session = None
      BY <1>0, IssueFields DEF Honest
    <3>2. SecretsInv'
      BY <1>0, <2>2, <3>1, HonestJobKeepsSecrets
    <3>3. AttemptsInv'
      BY <1>0, <2>2, <3>1, NoFailure
    <3> QED BY <3>2, <3>3
  <2> QED BY <1>1, <2>1, <2>2 DEF login
<1>2. CASE issueTokens(r)
  <2>1. AttemptsInv'
    BY <1>0, <1>a, <1>2, NoFailure DEF issueTokens, Finish
  <2>2. \A x \in Requests : req'[x] = IF x = r THEN IdleJob ELSE req[x]
    BY <1>2 DEF issueTokens, Finish, AuthTypeOK
  <2> DEFINE new == [version |-> req[r].version, password |-> req[r].password]
  <2>3. account' = account /\ accessTokens' = accessTokens \cup {new} /\ req[r].op = "ISSUE"
    BY <1>2 DEF issueTokens
  <2>4. VersionsReached'
    BY <1>0, <1>a, <2>2, <2>3 DEF SecretsInv, VersionsReached, Honest
  <2>5. PendingTokenKnowsPassword'
    BY <1>0, <1>a, <2>2, <2>3 DEF SecretsInv, PendingTokenKnowsPassword, Honest
  <2>6. CurrentTokenKnowsPassword'
    BY <1>0, <2>3 DEF SecretsInv, PendingTokenKnowsPassword, CurrentTokenKnowsPassword,
       isCurrentTokenVersion
  <2> QED BY <2>1, <2>4, <2>5, <2>6 DEF SecretsInv
<1>3. CASE recordFailedAttempt(r)
  BY <1>0, <1>a, <1>3, CountedFailure, HonestJobKeepsSecrets DEF recordFailedAttempt, Finish
<1>4. CASE BeginTransaction(r)
  <2> DEFINE q == [req[r] EXCEPT !.op = Begun(req[r].op), !.seen = RowsSeen(req[r].op)]
  <2>1. /\ req' = [req EXCEPT ![r] = q]
        /\ req[r].op \in {"START", "CONFIRM", "RESET_REQUEST"}
        /\ UNCHANGED <<account, session, accessTokens>>
    BY <1>4 DEF BeginTransaction
  <2>2. /\ q.op \in {"STARTING", "CONFIRMING", "RESET_CREATING"}
        /\ q.session = req[r].session /\ q.version = req[r].version
    BY <1>0, <2>1, BegunFields
  <2>3. Honest(q)
    BY <1>0, <2>2 DEF Honest
  <2> HIDE DEF q
  <2>4. SecretsInv'
    BY <1>0, <2>1, <2>3, HonestJobKeepsSecrets
  <2>5. AttemptsInv'
    BY <1>0, <2>1, <2>2, NoFailure
  <2> QED BY <2>4, <2>5
<1>5. CASE CommitEnrollment(r)
  BY <1>0, <1>a, <1>5, NoFailure, HonestJobKeepsSecrets DEF CommitEnrollment, Finish
<1>6. CASE CommitConfirmation(r)
  <2>1. /\ req' = [req EXCEPT ![r] = IssueJob(req[r].version, None)]
        /\ session' = [session EXCEPT ![req[r].session].closed = TRUE]
        /\ UNCHANGED <<account, accessTokens>>
    BY <1>6 DEF CommitConfirmation
  <2>2. \A s \in Sessions : session'[s].failedAttempts = session[s].failedAttempts
    BY <1>0, <2>1 DEF AuthTypeOK, SessionRows
  <2> QED BY <1>0, <1>b, <2>1, <2>2, NoFailure, HonestJobKeepsSecrets
<1>7. ASSUME CommitTotp(r) \/ CommitRecovery(r) PROVE SecretsInv' /\ AttemptsInv'
  <2>1. req[r].session \in Sessions
    BY <1>0, <1>7 DEF CommitTotp, CommitRecovery, RunnableJobs
  <2>2. UNCHANGED <<account, accessTokens>>
    BY <1>7 DEF CommitTotp, CommitRecovery
  <2>3. \/ /\ req' = [req EXCEPT ![r] = IssueJob(req[r].version, None)]
           /\ session' = [session EXCEPT ![req[r].session].closed = TRUE]
        \/ /\ req' = [req EXCEPT ![r] = FailJob(req[r].session, req[r].attempts)]
           /\ session' = session
    BY <1>7 DEF CommitTotp, CommitRecovery
  <2>4. CASE /\ req' = [req EXCEPT ![r] = IssueJob(req[r].version, None)]
             /\ session' = [session EXCEPT ![req[r].session].closed = TRUE]
    <3>1. \A s \in Sessions : session'[s].failedAttempts = session[s].failedAttempts
      BY <1>0, <2>4 DEF AuthTypeOK, SessionRows
    <3> QED BY <1>0, <1>b, <2>2, <2>4, <3>1, NoFailure, HonestJobKeepsSecrets
  <2>5. CASE /\ req' = [req EXCEPT ![r] = FailJob(req[r].session, req[r].attempts)]
             /\ session' = session
    <3>1. /\ Honest(FailJob(req[r].session, req[r].attempts))
          /\ FailJob(req[r].session, req[r].attempts).session = req[r].session
      BY <1>0, <1>c, <2>1
    <3> QED BY <1>0, <2>2, <2>5, <3>1, NoFailure, HonestJobKeepsSecrets
  <2> QED BY <2>3, <2>4, <2>5
<1>8. CASE requestPasswordReset(r)
  <2>1. Honest(RequestJob) /\ RequestJob.session = None
    BY <1>0, RequestFields DEF Honest
  <2> QED BY <1>0, <1>8, <2>1, NoFailure, HonestJobKeepsSecrets DEF requestPasswordReset
<1>9. CASE createPasswordResetToken(r)
  <2>1. PICK t \in ResetTokens : req' = [req EXCEPT ![r] = DeliverJob(t)]
    BY <1>9 DEF createPasswordResetToken
  <2>2. UNCHANGED <<account, session, accessTokens>>
    BY <1>9 DEF createPasswordResetToken
  <2>3. Honest(DeliverJob(t)) /\ DeliverJob(t).session = None
    BY <1>0, DeliverFields DEF Honest
  <2> QED BY <1>0, <2>1, <2>2, <2>3, NoFailure, HonestJobKeepsSecrets
<1>10. CASE RecordDelivery(r)
  BY <1>0, <1>a, <1>10, NoFailure, HonestJobKeepsSecrets DEF RecordDelivery, Finish
<1>11. CASE CommitPasswordReset(r)
  <2>1. AttemptsInv'
    BY <1>0, <1>a, <1>11, NoFailure DEF CommitPasswordReset, Finish
  <2>2. \A x \in Requests : req'[x] = IF x = r THEN IdleJob ELSE req[x]
    BY <1>11 DEF CommitPasswordReset, Finish, AuthTypeOK
  <2>3. \A x \in Requests : req'[x].version \in Nat /\ req'[x].version <= account.tokenVersion
    <3>1. \A x \in Requests : req[x].version \in Nat /\ req[x].version <= account.tokenVersion
      BY DEF AuthTypeOK, RunnableJobs, Jobs, SecretsInv, VersionsReached
    <3> QED BY <1>a, <2>2, <3>1 DEF Honest
  <2>4. account'.tokenVersion = account.tokenVersion + 1 /\ UNCHANGED accessTokens
    BY <1>0, <1>11 DEF CommitPasswordReset, AuthTypeOK, Accounts
  <2> QED BY <1>0, <2>1, <2>3, <2>4, AdvanceKeepsSecrets
<1>12. CASE Abandon(r)
  BY <1>0, <1>a, <1>12, NoFailure, HonestJobKeepsSecrets DEF Abandon, Finish
<1>13. ASSUME NEW s \in Sessions, startEnrollment(r, s) PROVE SecretsInv' /\ AttemptsInv'
  <2>1. Honest(StartJob(s)) /\ StartJob(s).session = s
    BY <1>0, StartFields DEF Honest
  <2> QED BY <1>0, <1>13, <2>1, NewHolder, HonestJobKeepsSecrets DEF startEnrollment, validatePreAuth
<1>14. ASSUME NEW s \in Sessions, confirmEnrollment(r, s) PROVE SecretsInv' /\ AttemptsInv'
  <2>1. \A e \in Enrollments :
          Honest(ConfirmJob(s, e, stamp + 1)) /\ ConfirmJob(s, e, stamp + 1).session = s
    BY <1>0, ConfirmFields DEF Honest
  <2>2. PICK q : req' = [req EXCEPT ![r] = q] /\ Honest(q) /\ q.session = s
    BY <1>0, <1>c, <1>14, <2>1 DEF confirmEnrollment
  <2> QED BY <1>0, <1>14, <2>2, NewHolder, HonestJobKeepsSecrets DEF confirmEnrollment, validatePreAuth
<1>15. ASSUME NEW s \in Sessions, NEW step \in TotpWindow \cup {NoStep},
              completeTotpChallenge(r, s, step)
       PROVE  SecretsInv' /\ AttemptsInv'
  <2>1. \A e \in Enrollments : Honest(TotpJob(s, e, step)) /\ TotpJob(s, e, step).session = s
    BY <1>0, TotpFields DEF Honest, TotpWindow, NoStep
  <2>2. PICK q : req' = [req EXCEPT ![r] = q] /\ Honest(q) /\ q.session = s
    BY <1>0, <1>c, <1>15, <2>1 DEF completeTotpChallenge
  <2> QED BY <1>0, <1>15, <2>2, NewHolder, HonestJobKeepsSecrets DEF completeTotpChallenge, validatePreAuth
<1>16. ASSUME NEW s \in Sessions, NEW k \in RecoveryCodes, completeRecoveryCodeChallenge(r, s, k)
       PROVE  SecretsInv' /\ AttemptsInv'
  <2>1. Honest(RecoveryJob(s, k)) /\ RecoveryJob(s, k).session = s
    BY <1>0, RecoveryFields DEF Honest
  <2>2. PICK q : req' = [req EXCEPT ![r] = q] /\ Honest(q) /\ q.session = s
    BY <1>0, <1>c, <1>16, <2>1 DEF completeRecoveryCodeChallenge
  <2> QED BY <1>0, <1>16, <2>2, NewHolder, HonestJobKeepsSecrets
          DEF completeRecoveryCodeChallenge, validatePreAuth
<1>17. ASSUME NEW t \in ResetTokens, NEW p \in Passwords, completePasswordReset(r, t, p)
       PROVE  SecretsInv' /\ AttemptsInv'
  <2>1. Honest(ResetJob(t, p)) /\ ResetJob(t, p).session = None
    BY <1>0, ResetFields DEF Honest
  <2> QED BY <1>0, <1>17, <2>1, NoFailure, HonestJobKeepsSecrets DEF completePasswordReset
<1> QED BY <1>1, <1>2, <1>3, <1>4, <1>5, <1>6, <1>7, <1>8, <1>9, <1>10, <1>11, <1>12, <1>13,
           <1>14, <1>15, <1>16, <1>17 DEF Handler

\* Administration and time keep the invariant.
LEMMA EnvironmentKeeps ==
  ASSUME AuthInv, Environment
  PROVE  SecretsInv' /\ AttemptsInv'
<1> USE DEF AuthInv
<1>1. req' = req /\ accessTokens' = accessTokens
  BY DEF Environment, revokeSessions, setUserStatus, updateUser, NextTotpStep, SessionExpires,
         ResetExpires, CooldownEnds
<1>2. \A s \in Sessions : session'[s].failedAttempts = session[s].failedAttempts
  BY DEF Environment, revokeSessions, setUserStatus, updateUser, NextTotpStep, SessionExpires,
         ResetExpires, CooldownEnds, AuthTypeOK, SessionRows
<1>3. AttemptsInv'
  BY <1>1, <1>2 DEF AttemptsInv, Holders
<1>4. \/ account'.tokenVersion = account.tokenVersion + 1
      \/ account'.tokenVersion = account.tokenVersion /\ account'.password = account.password
  BY DEF Environment, revokeSessions, setUserStatus, updateUser, NextTotpStep, SessionExpires,
         ResetExpires, CooldownEnds, AuthTypeOK, Accounts
<1>5. CASE account'.tokenVersion = account.tokenVersion + 1
  <2>1. \A x \in Requests : req[x].version \in Nat /\ req[x].version <= account.tokenVersion
    BY DEF AuthTypeOK, RunnableJobs, Jobs, SecretsInv, VersionsReached
  <2> QED BY <1>1, <1>3, <1>5, <2>1, AdvanceKeepsSecrets
<1>6. CASE account'.tokenVersion = account.tokenVersion /\ account'.password = account.password
  BY <1>1, <1>3, <1>6 DEF SecretsInv, VersionsReached, PendingTokenKnowsPassword,
     CurrentTokenKnowsPassword, isCurrentTokenVersion
<1> QED BY <1>4, <1>5, <1>6

\* Every step keeps the invariant.
LEMMA AuthStep == AuthInv /\ [Next]_vars => AuthInv'
<1> SUFFICES ASSUME AuthInv, [Next]_vars PROVE AuthInv' OBVIOUS
<1>1. AuthTypeOK'
  BY TypeStep DEF AuthInv
<1>2. CASE UNCHANGED vars
  BY <1>1, <1>2 DEF vars, AuthInv, SecretsInv, VersionsReached, PendingTokenKnowsPassword,
     CurrentTokenKnowsPassword, isCurrentTokenVersion, AttemptsInv, Holders
<1> QED BY <1>1, <1>2, HandlerKeeps, EnvironmentKeeps DEF Next, AuthInv

\* The inductive invariant holds for ever.
LEMMA AuthInvariant == Spec => []AuthInv
BY AuthInit, AuthStep, PTL DEF Spec

-----------------------------------------------------------------------------
(* Theorems.                                                               *)

\* However many handlers present codes for a pre-authentication session, it takes at most
\* maxAttempts failures and one more for each handler but one that was already past
\* validatePreAuth.
THEOREM AttemptsAlwaysBounded == Spec => []AttemptsBounded
<1>1. AuthInv => AttemptsBounded
  <2> SUFFICES ASSUME AuthInv, NEW s \in Sessions
               PROVE  session[s].failedAttempts <= MaxAttempts + Cardinality(Requests) - 1
    BY DEF AttemptsBounded
  <2>1. session[s].failedAttempts \in Nat
    BY DEF AuthInv, AuthTypeOK, SessionRows
  <2>2. session[s].failedAttempts + Cardinality(Holders(s))
          <= MaxAttempts + Cardinality(Requests) - 1
    BY DEF AuthInv, AttemptsInv
  <2> QED BY <2>1, <2>2, HoldersFinite, AttemptsPositive
<1> QED BY <1>1, AuthInvariant, PTL

\* A current access token that was issued for a password alone was issued for the current
\* one, whatever logins and resets overlapped.
THEOREM CurrentTokenAlwaysKnowsPassword == Spec => []CurrentTokenKnowsPassword
<1>1. AuthInv => CurrentTokenKnowsPassword
  BY DEF AuthInv, SecretsInv
<1> QED BY <1>1, AuthInvariant, PTL

\* No step makes an access token current again that a revocation or a password reset has
\* made stale.
THEOREM RevocationAlwaysFinal == Spec => RevocationIsFinal
<1>1. AuthInv /\ [Next]_vars =>
        account.tokenVersion \in Nat /\ account'.tokenVersion \in Nat
        /\ account.tokenVersion <= account'.tokenVersion
  <2> SUFFICES ASSUME AuthInv, [Next]_vars
               PROVE  account.tokenVersion \in Nat /\ account'.tokenVersion \in Nat
                      /\ account.tokenVersion <= account'.tokenVersion
    OBVIOUS
  <2>1. account \in Accounts /\ account.tokenVersion \in Nat
    BY DEF AuthInv, AuthTypeOK, Accounts
  <2>2. ASSUME Environment
        PROVE  account'.tokenVersion \in {account.tokenVersion, account.tokenVersion + 1}
    BY <2>1, <2>2 DEF Environment, revokeSessions, setUserStatus, updateUser, NextTotpStep,
       SessionExpires, ResetExpires, CooldownEnds, Accounts
  <2>3. ASSUME NEW r \in Requests, Handler(r)
        PROVE  account' = account \/ CommitPasswordReset(r)
    BY <2>3 DEF Handler, login, createPreAuthSession, issueTokens, recordFailedAttempt,
       BeginTransaction, CommitEnrollment, CommitConfirmation, CommitTotp, CommitRecovery,
       requestPasswordReset, createPasswordResetToken, RecordDelivery, Abandon, startEnrollment,
       confirmEnrollment, completeTotpChallenge, completeRecoveryCodeChallenge,
       completePasswordReset
  <2>4. ASSUME NEW r \in Requests, CommitPasswordReset(r)
        PROVE  account'.tokenVersion = account.tokenVersion + 1
    BY <2>1, <2>4 DEF CommitPasswordReset, Accounts
  <2>5. account'.tokenVersion \in {account.tokenVersion, account.tokenVersion + 1}
    BY <2>2, <2>3, <2>4 DEF Next, vars
  <2> QED BY <2>1, <2>5
<1>2. AuthInv /\ [Next]_vars =>
        [\A token \in accessTokens :
           ~isCurrentTokenVersion(token) => ~isCurrentTokenVersion(token)']_vars
  <2> SUFFICES ASSUME AuthInv, [Next]_vars, NEW token \in accessTokens,
                      ~isCurrentTokenVersion(token)
               PROVE  token.version # account'.tokenVersion
    BY DEF isCurrentTokenVersion
  <2>1. token.version \in Nat /\ token.version <= account.tokenVersion
    BY DEF AuthInv, AuthTypeOK, AccessTokens, SecretsInv, VersionsReached
  <2> QED BY <1>1, <2>1 DEF isCurrentTokenVersion
<1> QED BY <1>2, AuthInvariant, PTL DEF Spec, RevocationIsFinal

-----------------------------------------------------------------------------
(* Second factors and reset tokens.                                        *)

\* What a successful challenge does to factors and recovery codes.
SpentStep ==
  \A r \in Requests :
    req[r].op \in {"TOTP", "RECOVERY"} /\ req'[r].op = "ISSUE" =>
      \/ \E e \in Enrollments :
           enrollment'[e].lastVerifiedStep > enrollment[e].lastVerifiedStep
      \/ \E k \in RecoveryCodes : code[k].state = "UNUSED" /\ code'[k].state = "USED"

\* A handler that holds a code is replaced by its own commit only.
LEMMA ChallengeEnds ==
  ASSUME AuthTypeOK, Next, NEW r \in Requests, req[r].op \in {"TOTP", "RECOVERY"},
         req'[r].op = "ISSUE"
  PROVE  CommitTotp(r) \/ CommitRecovery(r)
<1>1. req'[r] # req[r] /\ req \in [Requests -> RunnableJobs] /\ ~Idle(r)
  BY IdleFields DEF AuthTypeOK, Idle
<1>2. ~Environment
  BY <1>1 DEF Environment, revokeSessions, setUserStatus, updateUser, NextTotpStep,
     SessionExpires, ResetExpires, CooldownEnds
<1>3. PICK q \in Requests : Handler(q)
  BY <1>2 DEF Next
<1>4. q = r
  BY <1>1, <1>3 DEF Handler, login, createPreAuthSession, issueTokens, recordFailedAttempt,
     BeginTransaction, CommitEnrollment, CommitConfirmation, CommitTotp, CommitRecovery,
     requestPasswordReset, createPasswordResetToken, RecordDelivery, CommitPasswordReset, Abandon,
     startEnrollment, confirmEnrollment, completeTotpChallenge, completeRecoveryCodeChallenge,
     completePasswordReset, Finish
<1>5. ~Abandon(r)
  BY <1>1, IdleFields DEF Abandon, Finish
<1> QED BY <1>1, <1>3, <1>4, <1>5 DEF Handler, login, createPreAuthSession, issueTokens,
     recordFailedAttempt, BeginTransaction, CommitEnrollment, CommitConfirmation,
     requestPasswordReset, createPasswordResetToken, RecordDelivery, CommitPasswordReset,
     startEnrollment, confirmEnrollment, completeTotpChallenge, completeRecoveryCodeChallenge,
     completePasswordReset

\* However many handlers present one code, each challenge that succeeds moves the time step of
\* a factor forward or uses up an unused recovery code: while an enrolment lasts, no proof of it is
\* accepted twice. Confirming a new enrolment resets the step.
THEOREM FactorAlwaysSpent == Spec => FactorSpent
<1>1. AuthTypeOK /\ [Next]_vars => [SpentStep]_vars
  <2> SUFFICES ASSUME AuthTypeOK, Next, NEW r \in Requests,
                      req[r].op \in {"TOTP", "RECOVERY"}, req'[r].op = "ISSUE"
               PROVE  \/ \E e \in Enrollments :
                           enrollment'[e].lastVerifiedStep > enrollment[e].lastVerifiedStep
                      \/ \E k \in RecoveryCodes : code[k].state = "UNUSED" /\ code'[k].state = "USED"
    BY DEF SpentStep
  <2>1. /\ req[r] \in RunnableJobs /\ req[r].attempts \in Nat /\ req[r].time \in Int
        /\ req[r].session \in Sessions
    BY DEF AuthTypeOK, RunnableJobs, Jobs
  <2>2. FailJob(req[r].session, req[r].attempts).op # "ISSUE"
    BY <2>1, FailFields
  <2>3. CASE CommitTotp(r)
    <3>1. req[r].row \in Enrollments
      BY <2>1, <2>3 DEF CommitTotp, RunnableJobs
    <3>2. req' # [req EXCEPT ![r] = FailJob(req[r].session, req[r].attempts)]
      BY <2>2 DEF AuthTypeOK
    <3>3. /\ enrollment[req[r].row].lastVerifiedStep < req[r].time
          /\ enrollment' = [enrollment EXCEPT ![req[r].row].lastVerifiedStep = req[r].time]
      BY <2>3, <3>2 DEF CommitTotp
    <3>4. enrollment[req[r].row] \in EnrollmentRows
      BY <3>1 DEF AuthTypeOK
    <3>5. enrollment'[req[r].row].lastVerifiedStep = req[r].time
      BY <3>1, <3>3, <3>4 DEF AuthTypeOK, EnrollmentRows
    <3>6. enrollment[req[r].row].lastVerifiedStep \in Int
      BY <3>4 DEF EnrollmentRows
    <3> QED BY <2>1, <3>1, <3>3, <3>5, <3>6
  <2>4. CASE CommitRecovery(r)
    <3>1. req[r].row \in RecoveryCodes
      BY <2>1, <2>4 DEF CommitRecovery, RunnableJobs
    <3>2. req' # [req EXCEPT ![r] = FailJob(req[r].session, req[r].attempts)]
      BY <2>2 DEF AuthTypeOK
    <3>3. code[req[r].row].state = "UNUSED" /\ code' = [code EXCEPT ![req[r].row].state = "USED"]
      BY <2>4, <3>2 DEF CommitRecovery
    <3>4. code'[req[r].row].state = "USED"
      BY <3>1, <3>3 DEF AuthTypeOK, CodeRows
    <3> QED BY <3>1, <3>3, <3>4
  <2> QED BY <2>3, <2>4, ChallengeEnds
<1>2. [][SpentStep]_vars => FactorSpent
  BY PTL DEF FactorSpent, SpentStep
<1> QED BY <1>1, <1>2, AuthTypeCorrect, PTL DEF Spec

LiveResets == {t \in ResetTokens : LiveReset(t)}

\* Live tokens have different makers: one that a handler made before is seen, and superseded, by
\* the next transaction of the same handler.
DifferentMakers ==
  \E maker \in Injection(LiveResets, Requests) :
    \A c \in Requests : req[c].op = "RESET_CREATING" =>
      \A t \in LiveResets \ req[c].seen : maker[t] # c

\* A step that makes no token, and after which an open transaction has seen what it had not seen
\* before only if it has seen all.
LEMMA NoNewToken ==
  ASSUME DifferentMakers, LiveResets' \subseteq LiveResets,
         \A c \in Requests : req'[c].op = "RESET_CREATING" =>
           \/ req[c].op = "RESET_CREATING" /\ req'[c].seen = req[c].seen
           \/ LiveResets' \subseteq req'[c].seen
  PROVE  DifferentMakers'
<1>1. PICK maker \in Injection(LiveResets, Requests) :
        \A c \in Requests : req[c].op = "RESET_CREATING" =>
          \A t \in LiveResets \ req[c].seen : maker[t] # c
  BY DEF DifferentMakers
<1>2. PICK live : live = LiveResets'
  OBVIOUS
<1> DEFINE f == [t \in live |-> maker[t]]
<1>3. f \in Injection(live, Requests)
  BY <1>1, <1>2 DEF Injection, IsInjective
<1>4. \A t \in live : f[t] = maker[t]
  OBVIOUS
<1> HIDE DEF f
<1>5. ASSUME NEW c \in Requests, req'[c].op = "RESET_CREATING", NEW t \in live \ req'[c].seen
      PROVE  f[t] # c
  BY <1>1, <1>2, <1>4, <1>5
<1> QED BY <1>2, <1>3, <1>5 DEF DifferentMakers

\* The new token is its handler's; the tokens that its transaction had not seen are not.
LEMMA NewToken ==
  ASSUME AuthTypeOK, DifferentMakers, NEW r \in Requests, createPasswordResetToken(r)
  PROVE  DifferentMakers'
<1>1. PICK maker \in Injection(LiveResets, Requests) :
        \A c \in Requests : req[c].op = "RESET_CREATING" =>
          \A t \in LiveResets \ req[c].seen : maker[t] # c
  BY DEF DifferentMakers
<1>2. PICK new \in ResetTokens : /\ reset[new].state = "NONE" /\ reset' = ResetsReplaced(req[r].seen, new)
                                 /\ req' = [req EXCEPT ![r] = DeliverJob(new)]
                                 /\ req[r].op = "RESET_CREATING"
  BY DEF createPasswordResetToken
<1>3. PICK live : live = LiveResets'
  OBVIOUS
<1>4. live = (LiveResets \ req[r].seen) \cup {new} /\ new \notin LiveResets
  <2>1. ASSUME NEW t \in ResetTokens
        PROVE  reset'[t].state = IF t = new THEN "LIVE"
                                 ELSE IF t \in req[r].seen /\ reset[t].state = "LIVE" THEN "SPENT"
                                 ELSE reset[t].state
    BY <1>2 DEF ResetsReplaced, AuthTypeOK, ResetRows, LiveReset
  <2> QED BY <1>2, <1>3, <2>1 DEF LiveResets, LiveReset
<1> DEFINE f == [t \in live |-> IF t = new THEN r ELSE maker[t]]
<1>5. \A t \in LiveResets \ req[r].seen : maker[t] # r /\ maker[t] \in Requests
  BY <1>1, <1>2 DEF Injection
<1>6. f \in Injection(live, Requests)
  BY <1>1, <1>4, <1>5 DEF Injection, IsInjective
<1>7. \A t \in live : f[t] = IF t = new THEN r ELSE maker[t]
  OBVIOUS
<1> HIDE DEF f
<1>8. ASSUME NEW c \in Requests, req'[c].op = "RESET_CREATING", NEW t \in live \ req'[c].seen
      PROVE  f[t] # c
  <2>1. c # r
    BY <1>2, <1>8, DeliverFields DEF AuthTypeOK
  <2>2. req'[c] = req[c]
    BY <1>2, <2>1 DEF AuthTypeOK
  <2> QED BY <1>1, <1>4, <1>7, <1>8, <2>1, <2>2
<1> QED BY <1>3, <1>6, <1>8 DEF DifferentMakers

LEMMA MakersDiffer == Spec => []DifferentMakers
<1>1. Init => DifferentMakers
  <2> SUFFICES ASSUME Init PROVE DifferentMakers
    OBVIOUS
  <2>1. LiveResets = {}
    BY DEF Init, LiveResets, LiveReset
  <2>2. [t \in {} |-> t] \in Injection({}, Requests)
    BY DEF Injection, IsInjective
  <2> QED BY <2>1, <2>2 DEF DifferentMakers
<1>2. AuthTypeOK /\ DifferentMakers /\ [Next]_vars => DifferentMakers'
  <2> SUFFICES ASSUME AuthTypeOK, DifferentMakers, [Next]_vars PROVE DifferentMakers'
    OBVIOUS
  <2>0. /\ req \in [Requests -> RunnableJobs] /\ reset \in [ResetTokens -> ResetRows]
        /\ \A r \in Requests : req[r] \in RunnableJobs /\ req[r] \in Jobs
    BY DEF AuthTypeOK, RunnableJobs
  <2>1. CASE UNCHANGED vars
    <3>1. LiveResets' = LiveResets /\ req' = req
      BY <2>1 DEF vars, LiveResets, LiveReset
    <3> QED BY <3>1, NoNewToken
  <2>2. CASE Environment
    <3>1. req' = req
      BY <2>2 DEF Environment, revokeSessions, setUserStatus, updateUser, NextTotpStep,
         SessionExpires, ResetExpires, CooldownEnds
    <3>2. reset' = reset \/ \E t \in ResetTokens : ResetExpires(t) \/ CooldownEnds(t)
      BY <2>2 DEF Environment, revokeSessions, setUserStatus, updateUser, NextTotpStep, SessionExpires
    <3>3. LiveResets' \subseteq LiveResets
      BY <2>0, <3>2 DEF ResetExpires, CooldownEnds, LiveResets, LiveReset, ResetRows
    <3> QED BY <3>1, <3>3, NoNewToken
  <2>3. ASSUME NEW r \in Requests, Handler(r) PROVE DifferentMakers'
    <3>1. CASE createPasswordResetToken(r)
      BY <3>1, NewToken
    <3>2. CASE BeginTransaction(r)
      <4> DEFINE q == [req[r] EXCEPT !.op = Begun(req[r].op), !.seen = RowsSeen(req[r].op)]
      <4>1. req' = [req EXCEPT ![r] = q] /\ req[r].op \in {"START", "CONFIRM", "RESET_REQUEST"}
            /\ reset' = reset
        BY <3>2 DEF BeginTransaction
      <4>2. q.op = Begun(req[r].op) /\ q.seen = RowsSeen(req[r].op)
        BY <2>0 DEF Jobs
      <4>3. LiveResets' = LiveResets
        BY <4>1 DEF LiveResets, LiveReset
      <4>4. q.op = "RESET_CREATING" => LiveResets \subseteq q.seen
        BY <4>1, <4>2 DEF Begun, RowsSeen, LiveResets, LiveReset
      <4> HIDE DEF q
      <4> QED BY <2>0, <4>1, <4>3, <4>4, NoNewToken
    <3>3. CASE ~createPasswordResetToken(r) /\ ~BeginTransaction(r)
      <4>1. LiveResets' \subseteq LiveResets
        <5>1. reset' = reset \/ RecordDelivery(r) \/ CommitPasswordReset(r)
          BY <2>3, <3>3 DEF Handler, login, createPreAuthSession, issueTokens, recordFailedAttempt,
             CommitEnrollment, CommitConfirmation, CommitTotp, CommitRecovery,
             requestPasswordReset, Abandon, startEnrollment, confirmEnrollment,
             completeTotpChallenge, completeRecoveryCodeChallenge, completePasswordReset
        <5>2. ASSUME NEW t \in ResetTokens PROVE reset'[t].state \in {reset[t].state, "SPENT"}
          <6>1. CASE RecordDelivery(r)
            BY <2>0, <6>1 DEF RecordDelivery, ResetRows
          <6>2. CASE CommitPasswordReset(r)
            BY <2>0, <6>2 DEF CommitPasswordReset, ResetRows
          <6> QED BY <5>1, <6>1, <6>2
        <5> QED BY <5>2 DEF LiveResets, LiveReset
      <4>2. \/ req' = req
            \/ \E q : req' = [req EXCEPT ![r] = q] /\ q.op # "RESET_CREATING"
        <5>1. /\ \A s, n : FailJob(s, n).op # "RESET_CREATING"
              /\ \A v, p : IssueJob(v, p).op # "RESET_CREATING"
              /\ \A s : StartJob(s).op # "RESET_CREATING"
              /\ \A s, e, n : ConfirmJob(s, e, n).op # "RESET_CREATING"
              /\ \A s, e, n : TotpJob(s, e, n).op # "RESET_CREATING"
              /\ \A s, k : RecoveryJob(s, k).op # "RESET_CREATING"
              /\ \A t, p : ResetJob(t, p).op # "RESET_CREATING"
              /\ IdleJob.op # "RESET_CREATING" /\ RequestJob.op # "RESET_CREATING"
          BY DEF FailJob, IssueJob, StartJob, ConfirmJob, TotpJob, RecoveryJob, ResetJob, IdleJob,
             RequestJob, Job
        <5>2. ASSUME issueTokens(r) \/ recordFailedAttempt(r) \/ CommitEnrollment(r) \/ RecordDelivery(r)
                       \/ CommitPasswordReset(r) \/ Abandon(r)
              PROVE  req' = [req EXCEPT ![r] = IdleJob]
          BY <5>2 DEF issueTokens, recordFailedAttempt, CommitEnrollment, RecordDelivery,
             CommitPasswordReset, Abandon, Finish
        <5>3. ASSUME CommitConfirmation(r) \/ CommitTotp(r) \/ CommitRecovery(r)
              PROVE  \/ req' = [req EXCEPT ![r] = IssueJob(req[r].version, None)]
                     \/ req' = [req EXCEPT ![r] = FailJob(req[r].session, req[r].attempts)]
          BY <5>3 DEF CommitConfirmation, CommitTotp, CommitRecovery
        <5>4. ASSUME login(r)
              PROVE  \/ req' = req
                     \/ req' = [req EXCEPT ![r] = IssueJob(account.tokenVersion, account.password)]
          BY <5>4 DEF login, createPreAuthSession
        <5>5. ASSUME NEW s \in Sessions, startEnrollment(r, s) \/ confirmEnrollment(r, s)
              PROVE  \E q : req' = [req EXCEPT ![r] = q] /\ q.op # "RESET_CREATING"
          BY <5>1, <5>5 DEF startEnrollment, confirmEnrollment
        <5>6. ASSUME NEW s \in Sessions, NEW n, completeTotpChallenge(r, s, n)
              PROVE  \E q : req' = [req EXCEPT ![r] = q] /\ q.op # "RESET_CREATING"
          BY <5>1, <5>6 DEF completeTotpChallenge
        <5>7. ASSUME NEW s \in Sessions, NEW k, completeRecoveryCodeChallenge(r, s, k)
              PROVE  \E q : req' = [req EXCEPT ![r] = q] /\ q.op # "RESET_CREATING"
          <6>1. \/ req' = [req EXCEPT ![r] = RecoveryJob(s, k)]
                \/ req' = [req EXCEPT ![r] = FailJob(s, session[s].failedAttempts)]
            BY <5>7 DEF completeRecoveryCodeChallenge
          <6> QED BY <5>1, <6>1
        <5>8. ASSUME NEW t \in ResetTokens, NEW p \in Passwords, completePasswordReset(r, t, p)
              PROVE  req' = [req EXCEPT ![r] = ResetJob(t, p)]
          BY <5>8 DEF completePasswordReset
        <5>9. ASSUME requestPasswordReset(r) PROVE req' = [req EXCEPT ![r] = RequestJob]
          BY <5>9 DEF requestPasswordReset
        <5> QED BY <2>3, <3>3, <5>1, <5>2, <5>3, <5>4, <5>5, <5>6, <5>7, <5>8, <5>9 DEF Handler
      <4> QED BY <2>0, <4>1, <4>2, NoNewToken
    <3> QED BY <3>1, <3>2, <3>3
  <2> QED BY <2>1, <2>2, <2>3 DEF Next
<1> QED BY <1>1, <1>2, AuthTypeCorrect, PTL DEF Spec

\* A reset token supersedes those before it as far as its transaction sees them: there are never
\* more live ones than handlers.
THEOREM LiveResetsAlwaysBounded == Spec => []LiveResetsBounded
<1>1. DifferentMakers => LiveResetsBounded
  BY RequestsFinite, FS_Injection DEF DifferentMakers, LiveResetsBounded, LiveResets
<1> QED BY <1>1, MakersDiffer, PTL

-----------------------------------------------------------------------------
(* Handlers that do not overlap: recovery codes.                           *)

\* At most one handler is in flight.
OneAtATime == \A q, r \in Requests : Idle(q) \/ Idle(r) \/ q = r

\* A confirmation will make its factor the one that was enabled last, and it will delete all the
\* codes there are; no factor was enabled later than now.
ConfirmationsInOrder ==
  /\ \A e \in Enrollments : enrollment[e].enabledAt <= stamp
  /\ \A r \in Requests : req[r].op \in {"CONFIRM", "CONFIRMING"} =>
       /\ req[r].time <= stamp
       /\ ~enrollment[req[r].row].disabledAt
       /\ \A e \in Enrollments : enrollment[e].enabledAt <= req[r].time
  /\ \A r \in Requests : req[r].op = "CONFIRMING" =>
       \A k \in RecoveryCodes : code[k].state \in {"UNUSED", "USED"} => k \in req[r].seen

\* RecoveryCodesWork is not inductive alone: it needs what the confirmation in flight knows.
CodesInv == RecoveryCodesWork /\ ConfirmationsInOrder

\* Steps that enable and disable nothing, make no code usable and begin no confirmation.
LEMMA FactorsKept ==
  ASSUME AuthTypeOK, AuthTypeOK', CodesInv,
         stamp' = stamp,
         \A e \in Enrollments : /\ enrollment'[e].status = enrollment[e].status
                                /\ enrollment'[e].disabledAt = enrollment[e].disabledAt
                                /\ enrollment'[e].enabledAt = enrollment[e].enabledAt,
         \A k \in RecoveryCodes : \/ code'[k] = code[k]
                                  \/ code[k].state = "UNUSED" /\ code'[k].state = "USED",
         \A r \in Requests : req'[r].op \in {"CONFIRM", "CONFIRMING"} => req'[r] = req[r]
  PROVE  CodesInv'
<1>1. ActiveEnrollments' = ActiveEnrollments
  BY DEF ActiveEnrollments
<1>2. \A e \in Enrollments : activeEnrollment(e) => activeEnrollment(e)'
  BY <1>1 DEF activeEnrollment, ActiveEnrollments
<1>3. RecoveryCodesWork'
  <2> SUFFICES ASSUME NEW k \in RecoveryCodes, code'[k].state = "UNUSED"
               PROVE  activeEnrollment(code[k].enrollment)'
    BY DEF RecoveryCodesWork
  <2>1. code'[k] = code[k] /\ activeEnrollment(code[k].enrollment)
    BY DEF CodesInv, RecoveryCodesWork
  <2>2. PICK e : e = code[k].enrollment
    OBVIOUS
  <2>3. e \in Enrollments /\ activeEnrollment(e)
    BY <2>1, <2>2 DEF activeEnrollment, ActiveEnrollments
  <2>4. activeEnrollment(e)'
    BY <1>2, <2>3
  <2> QED BY <1>1, <2>1, <2>2, <2>4 DEF activeEnrollment
<1>4. ConfirmationsInOrder'
  <2>1. \A r \in Requests : req'[r].op \in {"CONFIRM", "CONFIRMING"} => req'[r].row \in Enrollments
    BY DEF AuthTypeOK, RunnableJobs
  <2> QED BY <2>1 DEF CodesInv, ConfirmationsInOrder
<1> QED BY <1>3, <1>4 DEF CodesInv

\* A handler that works is alone.
LEMMA AloneInFlight ==
  ASSUME AuthTypeOK, OneAtATime, NEW r \in Requests, req[r].op # "IDLE",
         NEW q \in Requests, q # r
  PROVE  req[q] = IdleJob /\ req[q].op = "IDLE"
<1> QED BY IdleFields DEF OneAtATime, Idle

\* A new factor disables pending ones only, so the active one stays.
LEMMA EnrollmentKeepsCodes ==
  ASSUME AuthTypeOK, OneAtATime, CodesInv, NEW r \in Requests, CommitEnrollment(r)
  PROVE  CodesInv'
<1>0. /\ enrollment \in [Enrollments -> EnrollmentRows] /\ stamp \in Nat
      /\ req \in [Requests -> RunnableJobs]
  BY DEF AuthTypeOK
<1>1. /\ req[r].op = "STARTING" /\ stamp' = stamp + 1 /\ code' = code
      /\ req' = [req EXCEPT ![r] = IdleJob]
  BY DEF CommitEnrollment, Finish
<1>2. PICK new \in Enrollments :
        /\ enrollment[new].status = "NONE"
        /\ enrollment' = [e \in Enrollments |->
            IF e = new
            THEN [enrollment[e] EXCEPT !.status = "PENDING", !.createdAt = stamp + 1]
            ELSE IF e \in req[r].seen /\ enrollment[e].status = "PENDING"
            THEN [enrollment[e] EXCEPT !.status = "DISABLED", !.disabledAt = TRUE]
            ELSE enrollment[e]]
  BY DEF CommitEnrollment
<1>3. \A e \in Enrollments : enrollment'[e].enabledAt = enrollment[e].enabledAt
  BY <1>0, <1>2 DEF EnrollmentRows
<1>4. ActiveEnrollments' = ActiveEnrollments
  BY <1>0, <1>2 DEF ActiveEnrollments, EnrollmentRows
<1>5. \A q \in Requests : req'[q].op = "IDLE"
  <2>1. req'[r].op = "IDLE"
    BY <1>0, <1>1, IdleFields
  <2>2. ASSUME NEW q \in Requests, q # r PROVE req'[q].op = "IDLE"
    BY <1>0, <1>1, <2>2, AloneInFlight
  <2> QED BY <2>1, <2>2
<1>6. RecoveryCodesWork'
  BY <1>1, <1>3, <1>4 DEF CodesInv, RecoveryCodesWork, activeEnrollment, ActiveEnrollments
<1>7. ConfirmationsInOrder'
  BY <1>0, <1>1, <1>3, <1>5 DEF CodesInv, ConfirmationsInOrder, EnrollmentRows
<1> QED BY <1>6, <1>7 DEF CodesInv

\* A confirmation starts with the time of its read, which is later than all the others.
LEMMA ConfirmationBegins ==
  ASSUME AuthTypeOK, OneAtATime, CodesInv, NEW r \in Requests, NEW s \in Sessions,
         confirmEnrollment(r, s), NEW e \in Enrollments, pendingEnrollment(e),
         stamp' = stamp + 1, req' = [req EXCEPT ![r] = ConfirmJob(s, e, stamp + 1)]
  PROVE  CodesInv'
<1>0. /\ enrollment \in [Enrollments -> EnrollmentRows] /\ stamp \in Nat
      /\ req \in [Requests -> RunnableJobs]
  BY DEF AuthTypeOK
<1>1. enrollment' = enrollment /\ code' = code
  BY DEF confirmEnrollment
<1>2. /\ ConfirmJob(s, e, stamp + 1).op = "CONFIRM" /\ ConfirmJob(s, e, stamp + 1).row = e
      /\ ConfirmJob(s, e, stamp + 1).time = stamp + 1
  BY DEF ConfirmJob, Job
<1>3. ~enrollment[e].disabledAt
  BY DEF pendingEnrollment, PendingEnrollments
<1>4. RecoveryCodesWork'
  BY <1>1 DEF CodesInv, RecoveryCodesWork, activeEnrollment, ActiveEnrollments
<1>5. \A x \in Enrollments : enrollment[x].enabledAt <= stamp /\ enrollment[x].enabledAt \in Nat
  BY <1>0 DEF CodesInv, ConfirmationsInOrder, EnrollmentRows
<1>6. ASSUME NEW q \in Requests, req'[q].op \in {"CONFIRM", "CONFIRMING"}
      PROVE  /\ req'[q].time <= stamp'
             /\ ~enrollment[req'[q].row].disabledAt
             /\ \A x \in Enrollments : enrollment[x].enabledAt <= req'[q].time
             /\ req'[q].op = "CONFIRMING" =>
                  \A k \in RecoveryCodes : code[k].state \in {"UNUSED", "USED"} => k \in req'[q].seen
  <2>1. CASE q = r
    BY <1>0, <1>2, <1>3, <1>5, <2>1
  <2>2. CASE q # r
    <3>1. req'[q] = req[q] /\ (req[q].op \in {"CONFIRM", "CONFIRMING"} => req[q].time \in Nat)
      BY <1>0, <2>2 DEF RunnableJobs
    <3> QED BY <1>0, <1>6, <3>1 DEF CodesInv, ConfirmationsInOrder
  <2> QED BY <2>1, <2>2
<1>7. ConfirmationsInOrder'
  <2>1. \A x \in Enrollments : enrollment'[x].enabledAt <= stamp'
    BY <1>0, <1>1, <1>5
  <2> QED BY <1>1, <1>6, <2>1 DEF ConfirmationsInOrder
<1> QED BY <1>4, <1>7 DEF CodesInv

\* The codes that a transaction sees when it begins are all the codes there are.
LEMMA TransactionKeepsCodes ==
  ASSUME AuthTypeOK, OneAtATime, CodesInv, NEW r \in Requests, BeginTransaction(r)
  PROVE  CodesInv'
<1>0. req \in [Requests -> RunnableJobs] /\ req[r] \in Jobs
  BY DEF AuthTypeOK, RunnableJobs
<1> DEFINE j == [req[r] EXCEPT !.op = Begun(req[r].op), !.seen = RowsSeen(req[r].op)]
<1>1. /\ req' = [req EXCEPT ![r] = j] /\ req[r].op \in {"START", "CONFIRM", "RESET_REQUEST"}
      /\ enrollment' = enrollment /\ code' = code /\ stamp' = stamp
  BY DEF BeginTransaction
<1>2. /\ j.op = Begun(req[r].op) /\ j.seen = RowsSeen(req[r].op)
      /\ j.row = req[r].row /\ j.time = req[r].time
  BY <1>0 DEF Jobs
<1>3. j.op \in {"CONFIRM", "CONFIRMING"} =>
        /\ req[r].op = "CONFIRM"
        /\ \A k \in RecoveryCodes : code[k].state \in {"UNUSED", "USED"} => k \in j.seen
  BY <1>1, <1>2 DEF Begun, RowsSeen
<1> HIDE DEF j
<1>4. RecoveryCodesWork'
  BY <1>1 DEF CodesInv, RecoveryCodesWork, activeEnrollment, ActiveEnrollments
<1>5. ASSUME NEW q \in Requests, req'[q].op \in {"CONFIRM", "CONFIRMING"}
      PROVE  /\ req'[q].time <= stamp
             /\ ~enrollment[req'[q].row].disabledAt
             /\ \A x \in Enrollments : enrollment[x].enabledAt <= req'[q].time
             /\ req'[q].op = "CONFIRMING" =>
                  \A k \in RecoveryCodes : code[k].state \in {"UNUSED", "USED"} => k \in req'[q].seen
  <2>1. CASE q = r
    BY <1>0, <1>1, <1>2, <1>3, <1>5, <2>1 DEF CodesInv, ConfirmationsInOrder
  <2>2. CASE q # r
    <3>1. req'[q] = req[q]
      BY <1>0, <1>1, <2>2
    <3> QED BY <1>5, <3>1 DEF CodesInv, ConfirmationsInOrder
  <2> QED BY <2>1, <2>2
<1>6. ConfirmationsInOrder'
  BY <1>1, <1>5 DEF CodesInv, ConfirmationsInOrder
<1> QED BY <1>4, <1>6 DEF CodesInv

\* A confirmation makes its factor the active one, and leaves only the codes of that factor.
LEMMA ConfirmationGivesCodes ==
  ASSUME AuthTypeOK, OneAtATime, CodesInv, NEW r \in Requests, CommitConfirmation(r)
  PROVE  CodesInv'
<1>0. /\ enrollment \in [Enrollments -> EnrollmentRows] /\ stamp \in Nat
      /\ req \in [Requests -> RunnableJobs] /\ code \in [RecoveryCodes -> CodeRows]
  BY DEF AuthTypeOK
<1>1. PICK e : e = req[r].row
  OBVIOUS
<1>2. PICK now : now = req[r].time
  OBVIOUS
<1>3. /\ req[r].op = "CONFIRMING" /\ e \in Enrollments /\ now \in Nat /\ req[r].version \in Nat
  BY <1>0, <1>1, <1>2 DEF CommitConfirmation, RunnableJobs, Jobs
<1>4. /\ enrollment' = [enrollment EXCEPT ![e].status = "ACTIVE", ![e].enabledAt = now,
                                          ![e].lastVerifiedStep = NoStep]
      /\ req' = [req EXCEPT ![r] = IssueJob(req[r].version, None)]
      /\ stamp' = stamp
  BY <1>1, <1>2 DEF CommitConfirmation
<1>5. PICK new \in SUBSET {k \in RecoveryCodes : code[k].state = "NONE"} :
        code' = CodesReplaced(req[r].seen, new, e)
  BY <1>1 DEF CommitConfirmation
<1>6. /\ now <= stamp /\ ~enrollment[e].disabledAt
      /\ \A x \in Enrollments : enrollment[x].enabledAt <= now
      /\ \A k \in RecoveryCodes : code[k].state \in {"UNUSED", "USED"} => k \in req[r].seen
  BY <1>1, <1>2, <1>3 DEF CodesInv, ConfirmationsInOrder
<1>7. /\ enrollment'[e].status = "ACTIVE" /\ enrollment'[e].enabledAt = now
      /\ ~enrollment'[e].disabledAt
      /\ \A x \in Enrollments : x # e => enrollment'[x] = enrollment[x]
  BY <1>0, <1>3, <1>4, <1>6 DEF EnrollmentRows
<1>8. \A k \in RecoveryCodes : code'[k].state = "UNUSED" => code'[k].enrollment = e
  BY <1>0, <1>5, <1>6 DEF CodesReplaced
<1>9. activeEnrollment(e)'
  BY <1>3, <1>6, <1>7 DEF activeEnrollment, ActiveEnrollments
<1>10. RecoveryCodesWork'
  BY <1>8, <1>9 DEF RecoveryCodesWork, activeEnrollment
<1>11. \A q \in Requests : req'[q].op \notin {"CONFIRM", "CONFIRMING"}
  <2>1. req'[r].op = "ISSUE"
    BY <1>0, <1>3, <1>4, IssueFields
  <2>2. ASSUME NEW q \in Requests, q # r PROVE req'[q].op = "IDLE"
    BY <1>0, <1>3, <1>4, <2>2, AloneInFlight
  <2> QED BY <2>1, <2>2
<1>12. ConfirmationsInOrder'
  <2>1. \A x \in Enrollments : enrollment'[x].enabledAt <= stamp'
    BY <1>0, <1>4, <1>6, <1>7 DEF CodesInv, ConfirmationsInOrder, EnrollmentRows
  <2> QED BY <1>11, <2>1 DEF ConfirmationsInOrder
<1> QED BY <1>10, <1>12 DEF CodesInv

LEMMA HandlerKeepsCodes ==
  ASSUME AuthTypeOK, AuthTypeOK', OneAtATime, CodesInv, NEW r \in Requests, Handler(r)
  PROVE  CodesInv'
<1>0. /\ enrollment \in [Enrollments -> EnrollmentRows] /\ code \in [RecoveryCodes -> CodeRows]
      /\ req \in [Requests -> RunnableJobs] /\ session \in [Sessions -> SessionRows]
      /\ account \in Accounts
  BY DEF AuthTypeOK
<1>1. /\ \A s, n : FailJob(s, n).op \notin {"CONFIRM", "CONFIRMING"}
      /\ \A v, p : IssueJob(v, p).op \notin {"CONFIRM", "CONFIRMING"}
      /\ \A s : StartJob(s).op \notin {"CONFIRM", "CONFIRMING"}
      /\ \A s, e, n : TotpJob(s, e, n).op \notin {"CONFIRM", "CONFIRMING"}
      /\ \A s, k : RecoveryJob(s, k).op \notin {"CONFIRM", "CONFIRMING"}
      /\ \A t, p : ResetJob(t, p).op \notin {"CONFIRM", "CONFIRMING"}
      /\ \A t : DeliverJob(t).op \notin {"CONFIRM", "CONFIRMING"}
      /\ IdleJob.op \notin {"CONFIRM", "CONFIRMING"}
      /\ RequestJob.op \notin {"CONFIRM", "CONFIRMING"}
  BY DEF FailJob, IssueJob, StartJob, TotpJob, RecoveryJob, ResetJob, DeliverJob, IdleJob,
     RequestJob, Job
<1>2. ASSUME NEW j, req' = [req EXCEPT ![r] = j], j.op \notin {"CONFIRM", "CONFIRMING"}
      PROVE  \A q \in Requests : req'[q].op \in {"CONFIRM", "CONFIRMING"} => req'[q] = req[q]
  BY <1>0, <1>2
<1>3. ASSUME UNCHANGED <<enrollment, code, stamp>>,
             req' = req \/ \E j : req' = [req EXCEPT ![r] = j] /\ j.op \notin {"CONFIRM", "CONFIRMING"}
      PROVE  CodesInv'
  <2>1. \A q \in Requests : req'[q].op \in {"CONFIRM", "CONFIRMING"} => req'[q] = req[q]
    BY <1>2, <1>3
  <2> QED BY <1>3, <2>1, FactorsKept
<1>4. ASSUME issueTokens(r) \/ recordFailedAttempt(r) \/ RecordDelivery(r)
               \/ CommitPasswordReset(r) \/ Abandon(r)
      PROVE  CodesInv'
  <2>1. req' = [req EXCEPT ![r] = IdleJob] /\ UNCHANGED <<enrollment, code, stamp>>
    BY <1>4 DEF issueTokens, recordFailedAttempt, RecordDelivery, CommitPasswordReset, Abandon, Finish
  <2> QED BY <1>1, <1>3, <2>1
<1>5. ASSUME login(r) PROVE CodesInv'
  <2>1. /\ UNCHANGED <<enrollment, code, stamp>>
        /\ \/ req' = req
           \/ req' = [req EXCEPT ![r] = IssueJob(account.tokenVersion, account.password)]
    BY <1>5 DEF login, createPreAuthSession
  <2> QED BY <1>1, <1>3, <2>1
<1>6. ASSUME CommitTotp(r) PROVE CodesInv'
  <2>1. req[r].row \in Enrollments
    BY <1>0, <1>6 DEF CommitTotp, RunnableJobs
  <2>2. /\ code' = code /\ stamp' = stamp
        /\ \/ enrollment' = enrollment
           \/ enrollment' = [enrollment EXCEPT ![req[r].row].lastVerifiedStep = req[r].time]
        /\ \/ req' = [req EXCEPT ![r] = IssueJob(req[r].version, None)]
           \/ req' = [req EXCEPT ![r] = FailJob(req[r].session, req[r].attempts)]
    BY <1>6 DEF CommitTotp
  <2>3. \A e \in Enrollments : /\ enrollment'[e].status = enrollment[e].status
                               /\ enrollment'[e].disabledAt = enrollment[e].disabledAt
                               /\ enrollment'[e].enabledAt = enrollment[e].enabledAt
    BY <1>0, <2>1, <2>2 DEF EnrollmentRows
  <2>4. \A q \in Requests : req'[q].op \in {"CONFIRM", "CONFIRMING"} => req'[q] = req[q]
    BY <1>1, <1>2, <2>2
  <2> QED BY <2>2, <2>3, <2>4, FactorsKept
<1>7. ASSUME CommitRecovery(r) PROVE CodesInv'
  <2>1. /\ enrollment' = enrollment /\ stamp' = stamp
        /\ \/ code' = code
           \/ code[req[r].row].state = "UNUSED" /\ code' = [code EXCEPT ![req[r].row].state = "USED"]
        /\ \/ req' = [req EXCEPT ![r] = IssueJob(req[r].version, None)]
           \/ req' = [req EXCEPT ![r] = FailJob(req[r].session, req[r].attempts)]
    BY <1>7 DEF CommitRecovery
  <2>2. \A k \in RecoveryCodes : \/ code'[k] = code[k]
                                 \/ code[k].state = "UNUSED" /\ code'[k].state = "USED"
    BY <1>0, <2>1 DEF CodeRows
  <2>3. \A q \in Requests : req'[q].op \in {"CONFIRM", "CONFIRMING"} => req'[q] = req[q]
    BY <1>1, <1>2, <2>1
  <2> QED BY <2>1, <2>2, <2>3, FactorsKept
<1>8. ASSUME requestPasswordReset(r) \/ createPasswordResetToken(r)
               \/ \E t \in ResetTokens, p \in Passwords : completePasswordReset(r, t, p)
      PROVE  CodesInv'
  <2>1. /\ UNCHANGED <<enrollment, code, stamp>>
        /\ \/ req' = [req EXCEPT ![r] = RequestJob]
           \/ \E t : req' = [req EXCEPT ![r] = DeliverJob(t)]
           \/ \E t, p : req' = [req EXCEPT ![r] = ResetJob(t, p)]
    BY <1>8 DEF requestPasswordReset, createPasswordResetToken, completePasswordReset
  <2> QED BY <1>1, <1>3, <2>1
<1>9. ASSUME NEW s \in Sessions, startEnrollment(r, s) PROVE CodesInv'
  <2>1. UNCHANGED <<enrollment, code, stamp>> /\ req' = [req EXCEPT ![r] = StartJob(s)]
    BY <1>9 DEF startEnrollment
  <2> QED BY <1>1, <1>3, <2>1
<1>10. ASSUME NEW s \in Sessions, confirmEnrollment(r, s) PROVE CodesInv'
  <2>1. CASE /\ req' = [req EXCEPT ![r] = FailJob(s, session[s].failedAttempts)]
             /\ stamp' = stamp
    <3>1. UNCHANGED <<enrollment, code, stamp>>
      BY <1>10, <2>1 DEF confirmEnrollment
    <3> QED BY <1>1, <1>3, <2>1, <3>1
  <2>2. CASE \E e \in Enrollments :
               /\ pendingEnrollment(e) /\ stamp' = stamp + 1
               /\ req' = [req EXCEPT ![r] = ConfirmJob(s, e, stamp + 1)]
    BY <1>10, <2>2, ConfirmationBegins
  <2> QED BY <1>10, <2>1, <2>2 DEF confirmEnrollment
<1>11. ASSUME NEW s \in Sessions, NEW n, completeTotpChallenge(r, s, n) PROVE CodesInv'
  <2>1. /\ UNCHANGED <<enrollment, code, stamp>>
        /\ \/ \E e : req' = [req EXCEPT ![r] = TotpJob(s, e, n)]
           \/ req' = [req EXCEPT ![r] = FailJob(s, session[s].failedAttempts)]
    BY <1>11 DEF completeTotpChallenge
  <2> QED BY <1>1, <1>3, <2>1
<1>12. ASSUME NEW s \in Sessions, NEW k, completeRecoveryCodeChallenge(r, s, k) PROVE CodesInv'
  <2>1. /\ UNCHANGED <<enrollment, code, stamp>>
        /\ \/ req' = [req EXCEPT ![r] = RecoveryJob(s, k)]
           \/ req' = [req EXCEPT ![r] = FailJob(s, session[s].failedAttempts)]
    BY <1>12 DEF completeRecoveryCodeChallenge
  <2> QED BY <1>1, <1>3, <2>1
<1>13. CASE CommitEnrollment(r) \/ CommitConfirmation(r) \/ BeginTransaction(r)
  BY <1>13, EnrollmentKeepsCodes, ConfirmationGivesCodes, TransactionKeepsCodes
<1> QED BY <1>4, <1>5, <1>6, <1>7, <1>8, <1>9, <1>10, <1>11, <1>12, <1>13 DEF Handler

\* When handlers do not overlap, the recovery codes that a user was given last work: every unused
\* code belongs to the factor that activeEnrollment chooses for the challenge, whatever factors
\* were enrolled, confirmed or abandoned before.
THEOREM SeriallyRecoveryCodesWork == Spec /\ []OneAtATime => []RecoveryCodesWork
<1>1. Init => CodesInv
  <2> SUFFICES ASSUME Init PROVE CodesInv
    OBVIOUS
  <2>1. \A r \in Requests : req[r].op = "IDLE"
    BY IdleFields DEF Init
  <2>2. /\ \A k \in RecoveryCodes : code[k].state = "NONE"
        /\ \A e \in Enrollments : enrollment[e].enabledAt = 0
        /\ stamp = 0
    BY DEF Init
  <2> QED BY <2>1, <2>2 DEF CodesInv, RecoveryCodesWork, ConfirmationsInOrder
<1>2. AuthTypeOK /\ AuthTypeOK' /\ OneAtATime /\ CodesInv /\ [Next]_vars => CodesInv'
  <2> SUFFICES ASSUME AuthTypeOK, AuthTypeOK', OneAtATime, CodesInv, [Next]_vars PROVE CodesInv'
    OBVIOUS
  <2>1. CASE Environment \/ UNCHANGED vars
    <3>1. UNCHANGED <<enrollment, code, stamp, req>>
      BY <2>1 DEF Environment, revokeSessions, setUserStatus, updateUser, NextTotpStep,
         SessionExpires, ResetExpires, CooldownEnds, vars
    <3> QED BY <3>1, FactorsKept
  <2>2. ASSUME NEW r \in Requests, Handler(r) PROVE CodesInv'
    BY <2>2, HandlerKeepsCodes
  <2> QED BY <2>1, <2>2 DEF Next
<1>3. CodesInv => RecoveryCodesWork
  BY DEF CodesInv
<1> QED BY <1>1, <1>2, <1>3, AuthTypeCorrect, PTL DEF Spec

\* The mix allows one handler at a time.
SerialMix == mix = "serial factors"

\* The serial mix of MCAuthentication, on any instance, is such a behaviour.
LEMMA MixStays == MixSpec => [](SerialMix /\ OneAtATime) \/ []~SerialMix
<1>1. MixInit => OneAtATime
  <2> SUFFICES ASSUME MixInit PROVE OneAtATime
    OBVIOUS
  <2>1. \A r \in Requests : Idle(r)
    BY IdleFields DEF MixInit, Init, Idle
  <2> QED BY <2>1 DEF OneAtATime
<1>2. SerialMix /\ OneAtATime /\ [MixNext]_<<vars, mix>> => (SerialMix /\ OneAtATime)'
  <2>1. CASE MixNext /\ SerialMix
    BY <2>1 DEF MixNext, InMix, OneAtATime, SerialMix
  <2>2. CASE UNCHANGED <<vars, mix>> /\ SerialMix /\ OneAtATime
    BY <2>2 DEF vars, OneAtATime, Idle, SerialMix
  <2> QED BY <2>1, <2>2
<1>3. ~SerialMix /\ [MixNext]_<<vars, mix>> => ~SerialMix'
  BY DEF MixNext, SerialMix
<1> QED BY <1>1, <1>2, <1>3, PTL DEF MixSpec

\* With one handler at a time, the recovery codes that a user was given last work: what the serial
\* mix checks, for every number of factors, codes and sessions.
THEOREM SerialMixRecoveryCodesWork == MixSpec => []SerialRecoveryCodesWork
<1>1. MixSpec => Spec
  <2>1. MixInit => Init
    BY DEF MixInit
  <2>2. [MixNext]_<<vars, mix>> => [Next]_vars
    BY DEF MixNext
  <2> QED BY <2>1, <2>2, PTL DEF MixSpec, Spec
<1>2. RecoveryCodesWork \/ ~SerialMix => SerialRecoveryCodesWork
  BY DEF SerialRecoveryCodesWork, SerialMix
<1> QED BY <1>1, <1>2, MixStays, SeriallyRecoveryCodesWork, PTL

=============================================================================
