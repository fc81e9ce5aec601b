--------------------------- MODULE MCJobsCallback ---------------------------
(* Small instances of JobsCallback for TLC. *)
EXTENDS JobsCallback, TLC

\* Workers are interchangeable, and so are the actions that have a handler:
\* nothing orders them and no property names one.
JobsSymmetry == Permutations(Worker) \cup Permutations(Registered)
=============================================================================
