------------------------------ MODULE SharedList ------------------------------
(***************************************************************************)
(* A linked list kept in POSIX shared memory by the instances of           *)
(* esami/linked_list_memoria_condivisa: a fixed pool of nodes linked by     *)
(* offsets, a head, an element count and an unnamed semaphore used as lock. *)
(* Each instance obeys its user's menu; the work inside the critical       *)
(* sections is split at every point where the shared memory is written.    *)
(* The segment has been set up; README.md says how that can fail.          *)
(***************************************************************************)
EXTENDS Integers, Sequences, FiniteSets

CONSTANTS Proc,        \* the instances of the program
          MAX_NODES,   \* size of the pool
          Values,      \* the integers users insert
          MAX_BATCH,   \* bound on "how many elements do you want to insert?"
          Mortal       \* the instances whose user may hit Ctrl-C (no handler)

ASSUME MaxNodesAssumption == MAX_NODES \in Nat \ {0}
ASSUME ValuesAssumption == Values \subseteq Int
ASSUME BatchAssumption == MAX_BATCH \in Nat
ASSUME MortalAssumption == Mortal \subseteq Proc

NULL == -1
Offset == 0 .. MAX_NODES - 1

VARIABLES
    nodes,         \* the pool: data, next_offset, is_free
    head_offset,   \* offset of the first node, NULL when the list is empty
    count,         \* how many elements the list is said to hold
    mutex,         \* value of the semaphore
    pc,            \* where each instance is
    alive,         \* FALSE once an instance was killed
    op,            \* the list operation it is in
    value,         \* the value it inserts or has popped
    cur,           \* new_offset, old_head_offset or current_offset
    seen,          \* what a count, a listing or a memory dump will report
    batch          \* elements left to read of a multiple insert, NULL outside

shared == <<nodes, head_offset, count>>
locals == <<op, value, cur, seen, batch>>
vars == <<nodes, head_offset, count, mutex, pc, alive, op, value, cur, seen,
          batch>>

Ops == {"insert", "pop", "count", "print", "dump"}

FreeNode == [data |-> 0, next_offset |-> NULL, is_free |-> TRUE]

\* One instance has created and initialised the segment and shows its menu;
\* the others have not been started.
Init ==
    /\ nodes = [o \in Offset |-> FreeNode]
    /\ head_offset = NULL
    /\ count = 0
    /\ mutex = 1
    /\ \E first \in Proc :
          pc = [p \in Proc |-> IF p = first THEN "menu" ELSE "out"]
    /\ alive = [p \in Proc |-> TRUE]
    /\ op = [p \in Proc |-> "none"]
    /\ value = [p \in Proc |-> 0]
    /\ cur = [p \in Proc |-> NULL]
    /\ seen = [p \in Proc |-> 0]
    /\ batch = [p \in Proc |-> NULL]

At(p, l) == alive[p] /\ pc[p] = l
Goto(p, l) == pc' = [pc EXCEPT ![p] = l]

-------------------------------------------------------------------------------
(* The menu.                                                               *)

\* A call of list operation o with argument v reaches its sem_wait.
Call(p, o, v) ==
    /\ op' = [op EXCEPT ![p] = o]
    /\ value' = [value EXCEPT ![p] = v]
    /\ cur' = [cur EXCEPT ![p] = NULL]
    /\ seen' = [seen EXCEPT ![p] = 0]
    /\ Goto(p, "wait")
    /\ UNCHANGED <<shared, mutex, alive>>

\* A further instance attaches to the segment and lists it before its menu.
Start(p) ==
    /\ At(p, "out")
    /\ Call(p, "print", 0)
    /\ UNCHANGED batch

Choose(p) ==
    /\ At(p, "menu")
    /\ \/ \E v \in Values : Call(p, "insert", v)
       \/ \E o \in Ops \ {"insert"} : Call(p, o, 0)
    /\ UNCHANGED batch

ChooseMany(p) ==
    /\ At(p, "menu")
    /\ \E n \in 1 .. MAX_BATCH : batch' = [batch EXCEPT ![p] = n]
    /\ Goto(p, "batch")
    /\ UNCHANGED <<shared, mutex, alive, op, value, cur, seen>>

\* The next element of a multiple insert: a number is inserted, anything else
\* is skipped but counted; after the last one the list is printed.
NextOfBatch(p) ==
    /\ At(p, "batch")
    /\ \/ /\ batch[p] > 0
          /\ batch' = [batch EXCEPT ![p] = @ - 1]
          /\ \/ \E v \in Values : Call(p, "insert", v)
             \/ UNCHANGED <<shared, mutex, pc, alive, op, value, cur, seen>>
       \/ /\ batch[p] = 0
          /\ batch' = [batch EXCEPT ![p] = NULL]
          /\ Call(p, "print", 0)

Leave(p) ==
    /\ At(p, "menu")
    /\ Goto(p, "out")
    /\ UNCHANGED <<shared, mutex, alive, locals>>

-------------------------------------------------------------------------------
(* The list operations, between sem_wait and sem_post.                     *)

Acquire(p) ==
    /\ At(p, "wait")
    /\ mutex > 0
    /\ mutex' = mutex - 1
    /\ Goto(p, op[p])
    /\ UNCHANGED <<shared, alive, locals>>

IsFirstFree(o) == /\ nodes[o].is_free
                  /\ \A i \in Offset : i < o => ~nodes[i].is_free

\* Variation: the caller returns on a full pool without the sem_post.
AllocateKeepsLock(p) ==
    /\ At(p, "insert")
    /\ \/ \E o \in Offset :
             /\ IsFirstFree(o)
             /\ nodes' = [nodes EXCEPT ![o].is_free = FALSE,
                                       ![o].next_offset = NULL]
             /\ cur' = [cur EXCEPT ![p] = o]
             /\ Goto(p, "link")
       \/ /\ \A o \in Offset : ~nodes[o].is_free
          /\ Goto(p, "menu")
          /\ UNCHANGED <<nodes, cur>>
    /\ UNCHANGED <<head_offset, count, mutex, alive, op, value, seen, batch>>

allocate_node(p) ==
    /\ At(p, "insert")
    /\ \/ \E o \in Offset :
             /\ IsFirstFree(o)
             /\ nodes' = [nodes EXCEPT ![o].is_free = FALSE,
                                       ![o].next_offset = NULL]
             /\ cur' = [cur EXCEPT ![p] = o]
             /\ Goto(p, "link")
       \/ /\ \A o \in Offset : ~nodes[o].is_free
          /\ Goto(p, "post")
          /\ UNCHANGED <<nodes, cur>>
    /\ UNCHANGED <<head_offset, count, mutex, alive, op, value, seen, batch>>

\* Variation: the new node is not linked to the old head.
LinkDropsTail(p) ==
    /\ At(p, "link")
    /\ nodes' = [nodes EXCEPT ![cur[p]].data = value[p]]
    /\ head_offset' = cur[p]
    /\ Goto(p, "inc")
    /\ UNCHANGED <<count, mutex, alive, locals>>

Link(p) ==
    /\ At(p, "link")
    /\ nodes' = [nodes EXCEPT ![cur[p]].data = value[p],
                              ![cur[p]].next_offset = head_offset]
    /\ head_offset' = cur[p]
    /\ Goto(p, "inc")
    /\ UNCHANGED <<count, mutex, alive, locals>>

IncCount(p) ==
    /\ At(p, "inc")
    /\ count' = count + 1
    /\ Goto(p, "post")
    /\ UNCHANGED <<nodes, head_offset, mutex, alive, locals>>

\* Variation: the data is read after the node was freed.
UnlinkReadsLate(p) ==
    /\ At(p, "pop")
    /\ IF head_offset = NULL
       THEN /\ Goto(p, "post")
            /\ value' = [value EXCEPT ![p] = -1]
            /\ UNCHANGED <<head_offset, cur>>
       ELSE /\ Goto(p, "dec")
            /\ value' = [value EXCEPT ![p] = 0]
            /\ cur' = [cur EXCEPT ![p] = head_offset]
            /\ head_offset' = nodes[head_offset].next_offset
    /\ UNCHANGED <<nodes, count, mutex, alive, op, seen, batch>>

\* The head is taken off the list, or the list is empty and pop yields -1.
Unlink(p) ==
    /\ At(p, "pop")
    /\ \/ /\ head_offset # NULL
          /\ value' = [value EXCEPT ![p] = nodes[head_offset].data]
          /\ cur' = [cur EXCEPT ![p] = head_offset]
          /\ head_offset' = nodes[head_offset].next_offset
          /\ Goto(p, "dec")
       \/ /\ head_offset = NULL
          /\ value' = [value EXCEPT ![p] = -1]
          /\ Goto(p, "post")
          /\ UNCHANGED <<head_offset, cur>>
    /\ UNCHANGED <<nodes, count, mutex, alive, op, seen, batch>>

DecCount(p) ==
    /\ At(p, "dec")
    /\ count' = count - 1
    /\ Goto(p, "free")
    /\ UNCHANGED <<nodes, head_offset, mutex, alive, locals>>

free_node(p) ==
    /\ At(p, "free")
    /\ nodes' = [nodes EXCEPT ![cur[p]] = FreeNode]
    /\ Goto(p, "post")
    /\ UNCHANGED <<head_offset, count, mutex, alive, locals>>

list_count(p) ==
    /\ At(p, "count")
    /\ seen' = [seen EXCEPT ![p] = count]
    /\ Goto(p, "post")
    /\ UNCHANGED <<shared, mutex, alive, op, value, cur, batch>>

list_print(p) ==
    /\ At(p, "print")
    /\ cur' = [cur EXCEPT ![p] = head_offset]
    /\ Goto(p, "walk")
    /\ UNCHANGED <<shared, mutex, alive, op, value, seen, batch>>

Walk(p) ==
    /\ At(p, "walk")
    /\ \/ /\ cur[p] # NULL
          /\ seen' = [seen EXCEPT ![p] = @ + 1]
          /\ cur' = [cur EXCEPT ![p] = nodes[@].next_offset]
          /\ UNCHANGED pc
       \/ /\ cur[p] = NULL
          /\ Goto(p, "post")
          /\ UNCHANGED <<seen, cur>>
    /\ UNCHANGED <<shared, mutex, alive, op, value, batch>>

Occupied == {o \in Offset : ~nodes[o].is_free}

stampa_stato_memoria(p) ==
    /\ At(p, "dump")
    /\ seen' = [seen EXCEPT ![p] = Cardinality(Occupied)]
    /\ Goto(p, "post")
    /\ UNCHANGED <<shared, mutex, alive, op, value, cur, batch>>

Post(p) ==
    /\ At(p, "post")
    /\ mutex' = mutex + 1
    /\ Goto(p, IF batch[p] = NULL THEN "menu" ELSE "batch")
    /\ op' = [op EXCEPT ![p] = "none"]
    /\ value' = [value EXCEPT ![p] = 0]
    /\ cur' = [cur EXCEPT ![p] = NULL]
    /\ seen' = [seen EXCEPT ![p] = 0]
    /\ UNCHANGED <<shared, alive, batch>>

\* Ctrl-C: the process is gone wherever it was, the lock stays as it is.
Kill(p) ==
    /\ p \in Mortal /\ alive[p] /\ pc[p] # "out"
    /\ alive' = [alive EXCEPT ![p] = FALSE]
    /\ UNCHANGED <<shared, mutex, pc, locals>>

-------------------------------------------------------------------------------

User(p) == Start(p) \/ Choose(p) \/ ChooseMany(p) \/ NextOfBatch(p) \/ Leave(p)

Critical(p) ==
    \/ allocate_node(p) \/ Link(p) \/ IncCount(p)
    \/ Unlink(p) \/ DecCount(p) \/ free_node(p)
    \/ list_count(p) \/ list_print(p) \/ Walk(p) \/ stampa_stato_memoria(p)
    \/ Post(p)

Next == \E p \in Proc : User(p) \/ Acquire(p) \/ Critical(p) \/ Kill(p)

Spec == Init /\ [][Next]_vars

\* A running process is scheduled again; nothing is assumed of the users, nor
\* of which waiter sem_post wakes.
Fairness == /\ \A p \in Proc : WF_vars(Critical(p))
            /\ WF_vars(\E p \in Proc : Acquire(p))

FairSpec == Spec /\ Fairness

-------------------------------------------------------------------------------
(* What must hold.                                                         *)

Labels == {"out", "menu", "batch", "wait", "insert", "link", "inc", "pop",
           "dec", "free", "count", "print", "walk", "dump", "post"}

\* Every variable has a value of its kind: the count never leaves 0..MAX_NODES
\* and no link points outside the pool (list_insert, list_pop, free_node).
TypeOK ==
    /\ nodes \in [Offset -> [data : Values \cup {0, -1},
                             next_offset : Offset \cup {NULL},
                             is_free : BOOLEAN]]
    /\ head_offset \in Offset \cup {NULL}
    /\ count \in 0 .. MAX_NODES
    /\ mutex \in Nat
    /\ pc \in [Proc -> Labels]
    /\ alive \in [Proc -> BOOLEAN]
    /\ op \in [Proc -> Ops \cup {"none"}]
    /\ value \in [Proc -> Values \cup {0, -1}]
    /\ cur \in [Proc -> Offset \cup {NULL}]
    /\ seen \in [Proc -> Nat]
    /\ batch \in [Proc -> 0 .. MAX_BATCH \cup {NULL}]

Holds(p) == pc[p] \notin {"out", "menu", "batch", "wait"}

\* The lock is held by at most one instance, dead or alive, and is free exactly
\* when nobody holds it: no return path of a list operation forgets its
\* sem_post or posts twice.
MutualExclusion ==
    /\ \A p, q \in Proc : Holds(p) /\ Holds(q) => p = q
    /\ mutex = IF \E p \in Proc : Holds(p) THEN 0 ELSE 1

\* The offsets met when following the list from its head, in order.
Chains == UNION {[1 .. n -> Offset] : n \in 0 .. MAX_NODES}

IsChain(s) ==
    /\ head_offset = IF Len(s) = 0 THEN NULL ELSE s[1]
    /\ \A i \in 1 .. Len(s) :
          nodes[s[i]].next_offset = IF i = Len(s) THEN NULL ELSE s[i + 1]
    /\ \A i, j \in 1 .. Len(s) : s[i] = s[j] => i = j

\* A node is taken from the pool but not on the list only while the holder of
\* the lock is inserting it or freeing it.
InHand == {cur[p] : p \in {q \in Proc : pc[q] \in {"link", "dec", "free"}}}

\* The count lags behind the list by the one insert or pop in progress.
Lag == IF \E p \in Proc : pc[p] = "inc" THEN 1
       ELSE IF \E p \in Proc : pc[p] = "dec" THEN -1 ELSE 0

Accounts(s) ==
    /\ \A o \in Offset : nodes[o].is_free
                         <=> o \notin {s[i] : i \in 1 .. Len(s)} \cup InHand
    /\ \A i \in 1 .. Len(s) : s[i] \notin InHand
    /\ count = Len(s) - Lag

\* The shared memory always holds one finite list without cycles, whose nodes
\* are exactly the occupied ones and whose length is the count: no node leaks,
\* none is both free and linked, even if an instance is killed at any point.
ListWellFormed == \E s \in Chains : IsChain(s) /\ Accounts(s)

\* A count, a listing and a memory dump all report the number of elements the
\* list has when they report it (list_count, list_print, stampa_stato_memoria).
ReportsAgree ==
    \A p \in Proc : pc[p] = "post" /\ op[p] \in {"count", "print", "dump"}
                    => seen[p] = count

\* Whatever path an operation takes, the lock is given back, unless the one
\* who holds it is killed.
LockReleased ==
    mutex = 0 ~> mutex = 1 \/ \E p \in Proc : Holds(p) /\ ~alive[p]

-------------------------------------------------------------------------------
(* The list implements a stack whose operations are atomic.                *)

chain == CHOOSE s \in Chains : IsChain(s)
stack == [i \in DOMAIN chain |-> nodes[chain[i]].data]

callOf(p) ==
    LET before(o, l) == pc[p] \in {"wait", o} \cup l
        call(st, o, v, b) == [st |-> st, op |-> o, val |-> v, ok |-> b]
        idle == call("idle", "none", 0, TRUE)
        insert == IF before("insert", {"link"})
                  THEN call("called", "insert", value[p], TRUE)
                  ELSE call("done", "insert", value[p], cur[p] # NULL)
        pop == IF before("pop", {}) THEN call("called", "pop", 0, TRUE)
               ELSE call("done", "pop", value[p], cur[p] # NULL)
        size == IF before(op[p], {"walk"}) THEN call("called", "size", 0, TRUE)
                ELSE call("done", "size", seen[p], TRUE)
    IN CASE pc[p] \in {"out", "menu", "batch"} -> idle
         [] op[p] = "insert" -> insert
         [] op[p] = "pop" -> pop
         [] OTHER -> size

Stack == INSTANCE AtomicStack WITH CAPACITY <- MAX_NODES, stack <- stack,
                                   call <- [p \in Proc |-> callOf(p)]

\* Inserting, popping and reporting look atomic: every element inserted is
\* popped once, last in first out; an insert fails only on a full pool, a pop
\* only on an empty list (the "thread-safe" of the comments on the operations).
ImplementsStack == Stack!Spec
================================================================================
