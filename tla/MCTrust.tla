------------------------------- MODULE MCTrust -------------------------------
(***************************************************************************)
(* Instances of Trust for TLC: a citizen, a provider and an administrator  *)
(* of one organization, and a report between them.                         *)
(***************************************************************************)
EXTENDS Trust, TLC

CONSTANTS citizen, provider, admin, municipality, pothole

Roles3 == [u \in Users |-> CASE u = citizen -> "CITIZEN" [] u = provider -> "PROVIDER"
                             [] OTHER -> "ORG_ADMIN"]

\* The provider works for the organization through a membership.
Organizations3 == [u \in Users |-> IF u = provider THEN None ELSE municipality]

OneMembership == {<<provider, municipality>>}

OneReport == [report \in Reports |-> [citizenId |-> citizen, assignedProviderId |-> provider,
                                      organizationId |-> municipality]]

\* Verification of the citizen and the administrator; disputes; evidence behind the gates.
Mixes ==
  {[ops |-> {"getIdentityMe", "submitKyc", "reviewKyc", "firebaseLogin", "changeEmail"},
    actors |-> {citizen, admin}, maxCalls |-> 4],
   [ops |-> {"createDispute", "addDisputeMessage", "updateDisputeStatus", "assignDispute",
             "escalateDispute", "escalateOverdueDisputes"},
    actors |-> {citizen, admin}, maxCalls |-> 4],
   [ops |-> {"createEvidence", "updateEnforcementSettings", "firebaseLogin"},
    actors |-> Users, maxCalls |-> 3]}

Symmetry == Permutations(Requests) \cup Permutations(Submissions) \cup Permutations(Disputes)

=============================================================================
