----------------------------- MODULE MCSession -----------------------------
(* Small instances of Session for TLC. *)
EXTENDS Session, TLC

\* Requests and devices are interchangeable: nothing orders them and no
\* property names one.
SessionSymmetry == Permutations(Request) \cup Permutations(Device)
=============================================================================
