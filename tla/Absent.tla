------------------------------- MODULE Absent -------------------------------
(* The None of the code, where two modules that are proved about in one place share it. *)
CONSTANT None  \* no branch, no task, no claim, no limit

=============================================================================
