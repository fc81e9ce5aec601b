-------------------------- MODULE MCTicketLifecycle --------------------------
(* Small instances of TicketLifecycle for TLC. *)
EXTENDS TicketLifecycle, TLC

\* The default graph of ticket_types, cut to the statuses some operation
\* writes, and a graph that also lets assigned tickets be closed.
DefaultGraph == {<<"open", "assigned">>, <<"open", "closed">>, <<"assigned", "open">>,
                 <<"closed", "open">>}
DirectGraph == DefaultGraph \cup {<<"assigned", "closed">>}
OneGraph == {DirectGraph}
TwoGraphs == {DefaultGraph, DirectGraph}

\* Requests are interchangeable: nothing orders them and no property names one.
RequestSymmetry == Permutations(Request)
=============================================================================
