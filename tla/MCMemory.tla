------------------------------- MODULE MCMemory -------------------------------
(* Two sessions on one project.                                               *)
EXTENDS Memory

=============================================================================
