------------------------------ MODULE MCTaskState ------------------------------
(* Two todos that may be exchanged; a plan of two steps, the second begun, and one of a   *)
(* single step that is blocked from the start.                                 *)
EXTENDS TaskState

CONSTANTS a, b

MCPlans == {<<"", "in_progress">>, <<"blocked">>}

Ids == Permutations(TodoIds)

=============================================================================
