--------------------------- MODULE MCTicketAccess ---------------------------
(* Small instances of TicketAccess for TLC. *)
EXTENDS TicketAccess, TLC

CONSTANTS top, dept, group
(* An entity at the root, one below it, and a virtual group below that. *)
ThreeLevels == (top :> <<top>>) @@ (dept :> <<top, dept>>) @@ (group :> <<top, dept, group>>)
=============================================================================
