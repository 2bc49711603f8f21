------------------------------ MODULE AtomicStack ------------------------------
(***************************************************************************)
(* What the shared list promises to the instances of the program: a        *)
(* bounded stack whose operations take effect at one instant between their *)
(* call and their return.  An instance that dies simply takes no further   *)
(* step; a new instance may be started at any time and begins by listing.  *)
(***************************************************************************)
EXTENDS Integers, Sequences

CONSTANTS Proc,       \* the instances of the program
          CAPACITY,   \* how many elements the stack holds
          Values      \* the elements

VARIABLES stack,      \* the elements, the last one inserted first
          call        \* what each instance has asked for and been told

Idle == [st |-> "idle", op |-> "none", val |-> 0, ok |-> TRUE]

Called(o, v) == [st |-> "called", op |-> o, val |-> v, ok |-> TRUE]
Done(o, v, b) == [st |-> "done", op |-> o, val |-> v, ok |-> b]

Init == /\ stack = <<>>
        /\ call = [p \in Proc |-> Idle]

Invoke(p) ==
    /\ call[p].st = "idle"
    /\ \/ \E v \in Values : call' = [call EXCEPT ![p] = Called("insert", v)]
       \/ \E o \in {"pop", "size"} : call' = [call EXCEPT ![p] = Called(o, 0)]
    /\ UNCHANGED stack

\* An element is pushed, or the stack is at its capacity and nothing changes.
Insert(p) ==
    /\ call[p].st = "called" /\ call[p].op = "insert"
    /\ LET v == call[p].val IN
       \/ /\ Len(stack) < CAPACITY
          /\ stack' = <<v>> \o stack
          /\ call' = [call EXCEPT ![p] = Done("insert", v, TRUE)]
       \/ /\ Len(stack) = CAPACITY
          /\ call' = [call EXCEPT ![p] = Done("insert", v, FALSE)]
          /\ UNCHANGED stack

Pop(p) ==
    /\ call[p].st = "called" /\ call[p].op = "pop"
    /\ \/ /\ stack # <<>>
          /\ stack' = Tail(stack)
          /\ call' = [call EXCEPT ![p] = Done("pop", Head(stack), TRUE)]
       \/ /\ stack = <<>>
          /\ call' = [call EXCEPT ![p] = Done("pop", -1, FALSE)]
          /\ UNCHANGED stack

\* Counting, listing and the memory report all show the current size.
Size(p) ==
    /\ call[p].st = "called" /\ call[p].op = "size"
    /\ call' = [call EXCEPT ![p] = Done("size", Len(stack), TRUE)]
    /\ UNCHANGED stack

Return(p) == /\ call[p].st = "done"
             /\ call' = [call EXCEPT ![p] = Idle]
             /\ UNCHANGED stack

Next == \E p \in Proc : Invoke(p) \/ Insert(p) \/ Pop(p) \/ Size(p) \/ Return(p)

Spec == Init /\ [][Next]_<<stack, call>>
================================================================================
