------------------------------ MODULE MCTaskLog ------------------------------
(* TaskLog with two process identities, one after the other or overlapping. *)
EXTENDS TaskLog

CONSTANTS p1, p2
=============================================================================
