----------------------------- MODULE MCEvalLog -----------------------------
(* Small instances of EvalLog for TLC. *)
EXTENDS EvalLog
=============================================================================
