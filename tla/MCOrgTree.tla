----------------------------- MODULE MCOrgTree -----------------------------
(* Small instances of OrgTree for TLC. *)
EXTENDS OrgTree, TLC

CONSTANTS hq, branch, squad, dept, fresh

\* The root, a branch in it and a virtual group in that; two organizations can
\* be created, so that one can be inserted below the other during a Move.
ChainSeed == (hq :> <<hq>>) @@ (branch :> <<hq, branch>>)
               @@ (squad :> <<hq, branch, squad>>) @@ (dept :> <<>>) @@ (fresh :> <<>>)

\* Requests are interchangeable: nothing orders them and no property names one.
RequestSymmetry == Permutations(Request)
=============================================================================
