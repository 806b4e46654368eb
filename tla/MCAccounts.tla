----------------------------- MODULE MCAccounts -----------------------------
(***************************************************************************)
(* Instances of Accounts for TLC.  Identities are interchangeable, but for *)
(* the default organization.                                               *)
(***************************************************************************)
EXTENDS Accounts, TLC

Symmetry ==
  Permutations(Users) \cup Permutations(Invitations) \cup Permutations(Assignments) \cup Permutations(Approvals)

=============================================================================
