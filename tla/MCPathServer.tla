----------------------------- MODULE MCPathServer -----------------------------
(* An interactive client and one of a single request; r holds a, which has q *)
(* in it and may not be examined, or b, which has k in it and may not be     *)
(* opened; f is a file.                                                     *)
EXTENDS PathServer

CONSTANTS c1, c2, r, a, q, b, k, f

TwoClients == {c1, c2}
SecondSingle == {c2}
Tree == {r, a, q, b, k}
TreeParent == [d \in Tree |-> IF d = k THEN b ELSE IF d = q THEN a ELSE r]
TwoTrees == {{r, a, q}, {r, b, k}}
Closed == {b}
Unexamined == {a}
Files == {f}
RootOrFile == [c \in Client |-> IF c = c1 THEN {r, f} ELSE {f}]
================================================================================
