----------------------------- MODULE MCDispatch -----------------------------
(* Dispatch with two calls in one thread and one task. *)
EXTENDS Dispatch
=============================================================================
