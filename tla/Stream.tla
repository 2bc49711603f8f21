-------------------------------- MODULE Stream --------------------------------
(***************************************************************************)
(* What the buffer of esami/SNP58_scanner_directory promises the thread     *)
(* that reads it: the items put in come out in order, each once, and the    *)
(* end is announced after the last of them and only after the close.        *)
(***************************************************************************)
EXTENDS Naturals, Sequences

CONSTANTS Item, Capacity

VARIABLES queue,    \* what is in the buffer, oldest first
          closed,   \* nothing more will be put in
          taken,    \* the number of items handed out
          last,     \* the item handed out last
          ended     \* the end has been announced

stream == <<queue, closed, taken, last, ended>>

Init ==
    /\ queue = <<>>
    /\ closed = FALSE
    /\ taken = 0
    /\ last \in Item
    /\ ended = FALSE

Put(i) ==
    /\ ~closed
    /\ Len(queue) < Capacity
    /\ queue' = Append(queue, i)
    /\ UNCHANGED <<closed, taken, last, ended>>

Close == ~closed /\ closed' = TRUE /\ UNCHANGED <<queue, taken, last, ended>>

Take ==
    /\ queue # <<>>
    /\ last' = Head(queue)
    /\ queue' = Tail(queue)
    /\ taken' = taken + 1
    /\ UNCHANGED <<closed, ended>>

End ==
    /\ closed /\ queue = <<>> /\ ~ended
    /\ ended' = TRUE
    /\ UNCHANGED <<queue, closed, taken, last>>

Next == (\E i \in Item : Put(i)) \/ Close \/ Take \/ End

Spec == Init /\ [][Next]_stream
================================================================================
