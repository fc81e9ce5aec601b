---------------------------- MODULE MCTicketType ----------------------------
(* Small instances of TicketType for TLC. *)
EXTENDS TicketType, TLC

(* The default states, and a set that lacks one of them and has another. *)
TwoStateSets == {{"open", "closed"}, {"open", "done"}}
(* Transitions within the former, and within the latter. *)
TwoEdgeSets == {{<<"open", "closed">>}, {<<"open", "done">>}}
(* The places for a request in progress are alike, and so are the keys. *)
Alike == Permutations(Request) \cup Permutations(Key)
=============================================================================
