---------------------------- MODULE RolePriority ----------------------------
(***************************************************************************)
(* Who outranks whom.  A role has a priority, the smaller the stronger,    *)
(* and a user is as strong as the strongest role it holds.  R is a set of  *)
(* roles, P their priorities and super the role whose code is superadmin.  *)
(***************************************************************************)
EXTENDS Naturals

NoRolePriority == 9999

EffectivePriority(R, P) ==
  IF R = {} THEN NoRolePriority
  ELSE CHOOSE n \in {P[r] : r \in R} : \A r \in R : n <= P[r]

CanManageTarget(R, T, P, super) ==
  \/ super \in R
  \/ EffectivePriority(R, P) >= 1 /\ EffectivePriority(R, P) < EffectivePriority(T, P)

CanAssignUnlessSuper(R, r, P, super) == r = super => super \in R
CanAssignRole(R, r, P, super) ==
  (r = super => super \in R) /\ P[r] >= EffectivePriority(R, P)

CanSetRolePriority(R, n, P) == n >= 1 /\ n >= EffectivePriority(R, P)
=============================================================================
