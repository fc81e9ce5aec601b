---------------------------- MODULE MCRolePolicy ----------------------------
(* Small instances of RolePolicy for TLC. *)
EXTENDS RolePolicy, TLC

CONSTANTS superadmin, boss, lead, staff, staff2,   \* roles
          root, chief, worker, norole, nomenu,
          home, page, save, get, post

Codes == superadmin :> "superadmin" @@ boss :> "boss" @@ lead :> "lead"
         @@ staff :> "staff" @@ staff2 :> "staff"
Ranks == superadmin :> 1 @@ boss :> 2 @@ lead :> 4 @@ staff :> 3 @@ staff2 :> 4
MenuApis == home :> {} @@ page :> {get} @@ save :> {post}
MenuParents == home :> nomenu @@ page :> home @@ save :> page
Bound == root :> {superadmin} @@ chief :> {boss} @@ worker :> {}
ByOrg == root :> {} @@ chief :> {} @@ worker :> {staff, staff2}
Menus == superadmin :> {} @@ boss :> {} @@ lead :> {} @@ staff :> {page} @@ staff2 :> {}
Edges == superadmin :> norole @@ boss :> norole @@ lead :> norole @@ staff :> lead @@ staff2 :> norole
Groups == {{chief}, {root}}
Lists == {{page}, {save}}

\* Requests are interchangeable: nothing orders them and no property names one.
RequestSymmetry == Permutations(Request)
=============================================================================
