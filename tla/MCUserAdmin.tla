----------------------------- MODULE MCUserAdmin -----------------------------
(* Small instances of UserAdmin for TLC. *)
EXTENDS UserAdmin, TLC

CONSTANTS root, deputy, clerk, hire,      \* users
          superadmin, manager, operator   \* roles

Prio == superadmin :> 1 @@ manager :> 10 @@ operator :> 20
Bindings == root :> {superadmin} @@ deputy :> {manager} @@ clerk :> {operator} @@ hire :> {}
Lists == {{superadmin}, {manager}, {operator}}
Groups == {{root, deputy}, {clerk}}

\* Requests are interchangeable: nothing orders them and no property names one.
RequestSymmetry == Permutations(Request)
=============================================================================
