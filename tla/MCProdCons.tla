------------------------------ MODULE MCProdCons ------------------------------
(* Small instances of the producer and its consumers for TLC. *)
EXTENDS ProdCons, TLC

CONSTANTS p1, c1, c2

OneProd == {p1}
TwoCons == {c1, c2}

\* Lines of one and of two units.
LenOfThree == <<1, 2, 1>>

ConsumersAlike == Permutations(Cons)
================================================================================
