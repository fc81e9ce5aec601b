-------------------------- MODULE MCOrgDelegation --------------------------
(* Small instances of OrgDelegation for TLC. *)
EXTENDS OrgDelegation, TLC

(* The two places for a request in progress are alike. *)
Places == Permutations(Request)
=============================================================================
