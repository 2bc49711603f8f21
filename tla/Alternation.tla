----------------------------- MODULE Alternation -----------------------------
(***************************************************************************)
(* What the two programs that write by turns promise: one text, to which    *)
(* A and B add one character each, A first, until each has written Rounds.  *)
(***************************************************************************)
EXTENDS Naturals, Sequences

CONSTANT Rounds
VARIABLE text      \* who wrote each character

Init == text = <<>>

Write(p) == /\ Len(text) < 2 * Rounds
            /\ p = (IF Len(text) % 2 = 0 THEN "A" ELSE "B")
            /\ text' = Append(text, p)

Next == \E p \in {"A", "B"} : Write(p)

Spec == Init /\ [][Next]_text
================================================================================
