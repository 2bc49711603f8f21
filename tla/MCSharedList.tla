----------------------------- MODULE MCSharedList -----------------------------
(* Small instances of the shared list for TLC. *)
EXTENDS SharedList

CONSTANTS a, b

TwoProcs == {a, b}
\* -1 is also what list_pop returns for an empty list.
TwoValues == {-1, 1}
================================================================================
