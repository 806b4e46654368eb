-------------------------- MODULE MCAuthentication --------------------------
(***************************************************************************)
(* Instances of Authentication for TLC.  One behaviour keeps to one mix:   *)
(* second factors with one handler at a time, second factors with two, or  *)
(* password resets and administration with two.                            *)
(*                                                                         *)
(* Identities are interchangeable: handlers and passwords by symmetry, and *)
(* rows, which are never taken back, because they are taken in order.      *)
(***************************************************************************)
EXTENDS Authentication, TLC

VARIABLE mix

Factors == {"serial factors", "factors"}

\* In the race of factors the last session is not taken, nor the last time stamp.
SessionsOf(m) == CASE m = "serial factors" -> Sessions
                   [] m = "factors"        -> {s \in Sessions : \E t \in Sessions : s < t}
                   [] m = "resets"         -> {}

InOrder ==
  /\ \A s, t \in Sessions : s < t /\ session[t].purpose # "NONE" => session[s].purpose # "NONE"
  /\ \A e, f \in Enrollments : e < f /\ enrollment[f].status # "NONE" => enrollment[e].status # "NONE"
  /\ \A k, l \in RecoveryCodes : k < l /\ code[l].state # "NONE" => code[k].state # "NONE"
  /\ \A t, u \in ResetTokens : t < u /\ reset[u].state # "NONE" => reset[t].state # "NONE"

InMix ==
  /\ \A s \in Sessions \ SessionsOf(mix) : session[s].purpose = "NONE"
  /\ mix = "serial factors" => \A q, r \in Requests : Idle(q) \/ Idle(r) \/ q = r
  /\ mix = "factors" => stamp < MaxStamp
  /\ mix = "resets" => clock = 0
  /\ mix \in Factors => /\ account.tokenVersion = 0 /\ account.accountStatus = "ACTIVE"
                        /\ \A r \in Requests : req[r].op # "RESET_REQUEST"

MixInit == Init /\ mix \in Factors \cup {"resets"}

MixNext ==
  /\ Next
  /\ UNCHANGED mix
  /\ (InMix /\ InOrder)'
  /\ mix \in Factors => account'.role = account.role

MixSpec == MixInit /\ [][MixNext]_<<vars, mix>>

Symmetry == Permutations(Requests) \cup Permutations(Passwords)

\* When requests are serial, the recovery codes a user was given last work: unused codes
\* belong to the factor that activeEnrollment chooses for the challenge (confirmEnrollment).
SerialRecoveryCodesWork == mix = "serial factors" => RecoveryCodesWork

=============================================================================
