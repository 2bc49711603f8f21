--------------------------- MODULE SharedListProofs ---------------------------
(***************************************************************************)
(* For every number of instances, every pool size and every set of values, *)
(* and whatever instance is killed wherever it is: the lock is exclusive   *)
(* and never lost, the list is well formed, every report is exact, and the *)
(* list implements a stack whose operations are atomic.                    *)
(***************************************************************************)
EXTENDS SharedList, SequenceTheorems, FunctionTheorems, FiniteSetTheorems,
        WellFoundedInduction, TLAPS

(* An inductive strengthening of the invariants of SharedList. *)

\* Which operation an instance is in follows from where it is; a node it is
\* about to link, count or free is a node of the pool.
ControlInv ==
    \A p \in Proc :
       /\ pc[p] = "wait" => op[p] \in Ops
       /\ pc[p] \in {"insert", "link", "inc"} => op[p] = "insert"
       /\ pc[p] \in {"pop", "dec", "free"} => op[p] = "pop"
       /\ pc[p] \in {"print", "walk"} => op[p] = "print"
       /\ pc[p] \in {"count", "dump"} => op[p] = pc[p]
       /\ pc[p] \in {"link", "inc", "dec", "free"} => cur[p] \in Offset
       /\ pc[p] = "inc" => head_offset = cur[p]
       /\ pc[p] \in {"wait", "print"} => seen[p] = 0

\* A listing has printed the first seen[p] elements and is at the next one.
Walking(s) ==
    \A p \in Proc : pc[p] = "walk" =>
       /\ seen[p] \in 0 .. Len(s)
       /\ cur[p] = IF seen[p] = Len(s) THEN NULL ELSE s[seen[p] + 1]

ListInv(s) == IsChain(s) /\ Accounts(s) /\ Walking(s)

IInv == /\ TypeOK
        /\ MutualExclusion
        /\ ControlInv
        /\ ReportsAgree
        /\ \E s \in Chains : ListInv(s)

-------------------------------------------------------------------------------
(* Sequences of offsets. *)

\* A function on 1..n is a sequence of length n.
LEMMA SeqOfLength ==
    ASSUME NEW S, NEW n \in Nat, NEW s \in [1 .. n -> S]
    PROVE  s \in Seq(S) /\ Len(s) = n
<1>1. s \in Seq(S)
  BY SeqDef
<1>2. 1 .. Len(s) = 1 .. n /\ Len(s) \in Nat
  BY <1>1, LenProperties
<1> QED BY <1>1, <1>2

\* A chain is a sequence of at most MAX_NODES offsets.
LEMMA ChainType ==
    ASSUME NEW s \in Chains
    PROVE  Len(s) \in 0 .. MAX_NODES /\ s \in [1 .. Len(s) -> Offset]
<1>1. PICK n \in 0 .. MAX_NODES : s \in [1 .. n -> Offset]
  BY DEF Chains
<1>2. Len(s) = n
  BY <1>1, SeqOfLength, MaxNodesAssumption
<1> QED BY <1>1, <1>2

\* Pigeonhole: offsets without repetition are at most MAX_NODES, so that the
\* pool cannot hold a longer chain.
LEMMA InjectiveIsChain ==
    ASSUME NEW n \in Nat, NEW s \in [1 .. n -> Offset],
           \A i, j \in 1 .. n : s[i] = s[j] => i = j
    PROVE  s \in Chains /\ Len(s) = n
<1>1. /\ IsFiniteSet(1 .. n) /\ Cardinality(1 .. n) = n
      /\ IsFiniteSet(Offset) /\ Cardinality(Offset) = MAX_NODES
  BY FS_Interval, MaxNodesAssumption DEF Offset
<1>2. s \in Injection(1 .. n, Offset)
  BY Fun_IsInj
<1>3. n <= MAX_NODES
  BY <1>1, <1>2, FS_Injection
<1> QED BY <1>3, SeqOfLength, MaxNodesAssumption DEF Chains

\* The offsets of a sequence without repetition are as many as its length.
LEMMA RangeSize ==
    ASSUME NEW n \in Nat, NEW s \in [1 .. n -> Offset],
           \A i, j \in 1 .. n : s[i] = s[j] => i = j
    PROVE  Cardinality({s[i] : i \in 1 .. n}) = n
<1> DEFINE R == {s[i] : i \in 1 .. n}
<1>1. s \in [1 .. n -> R] /\ \A t \in R : \E i \in 1 .. n : s[i] = t
  OBVIOUS
<1>2. s \in Bijection(1 .. n, R)
  BY <1>1, Fun_IsBij
<1>3. ExistsBijection(1 .. n, R)
  BY <1>2 DEF ExistsBijection
<1> QED BY <1>3, FS_CountingElements

\* A chain and an offset outside it make a longer chain.
LEMMA PushChain ==
    ASSUME NEW s \in Chains, NEW o \in Offset,
           \A i, j \in 1 .. Len(s) : s[i] = s[j] => i = j,
           \A i \in 1 .. Len(s) : s[i] # o
    PROVE  \E t \in Chains :
              /\ Len(t) = Len(s) + 1
              /\ t[1] = o
              /\ \A i \in 1 .. Len(s) : t[i + 1] = s[i]
              /\ \A i, j \in 1 .. Len(t) : t[i] = t[j] => i = j
              /\ {t[i] : i \in 1 .. Len(t)} = {s[i] : i \in 1 .. Len(s)} \cup {o}
<1> DEFINE t == [i \in 1 .. Len(s) + 1 |-> IF i = 1 THEN o ELSE s[i - 1]]
<1>1. Len(s) \in Nat /\ s \in [1 .. Len(s) -> Offset]
  BY ChainType, MaxNodesAssumption
<1>2. \A i \in 1 .. Len(s) + 1 : i = 1 \/ i - 1 \in 1 .. Len(s)
  BY <1>1
<1>3. t \in [1 .. Len(s) + 1 -> Offset]
  BY <1>1, <1>2
<1>4. \A i, j \in 1 .. Len(s) + 1 : t[i] = t[j] => i = j
  BY <1>1, <1>2
<1>5. Len(s) + 1 \in Nat
  BY <1>1
<1>6. t[1] = o /\ \A i \in 1 .. Len(s) : t[i + 1] = s[i]
  BY <1>1
<1> HIDE DEF t
<1>7. t \in Chains /\ Len(t) = Len(s) + 1
  BY <1>3, <1>4, <1>5, InjectiveIsChain
<1>8. \A i \in 1 .. Len(s) + 1 : i = 1 \/ t[i] = s[i - 1]
  BY <1>2, <1>6, <1>1
<1>9. {t[i] : i \in 1 .. Len(t)} = {s[i] : i \in 1 .. Len(s)} \cup {o}
  <2>1. \A i \in 1 .. Len(t) : t[i] \in {s[j] : j \in 1 .. Len(s)} \cup {o}
    BY <1>2, <1>6, <1>7, <1>8
  <2>2. \A i \in 1 .. Len(s) : i + 1 \in 1 .. Len(t) /\ t[i + 1] = s[i]
    BY <1>1, <1>6, <1>7
  <2>3. 1 \in 1 .. Len(t)
    BY <1>1, <1>7
  <2> QED BY <1>6, <2>1, <2>2, <2>3
<1>10. \A i, j \in 1 .. Len(t) : t[i] = t[j] => i = j
  BY <1>4, <1>7
<1> USE <1>7
<1> WITNESS t \in Chains
<1> QED BY <1>6, <1>7, <1>9, <1>10

\* A chain without its first offset is a chain.
LEMMA PopChain ==
    ASSUME NEW s \in Chains, Len(s) # 0,
           \A i, j \in 1 .. Len(s) : s[i] = s[j] => i = j
    PROVE  \E t \in Chains :
              /\ Len(t) = Len(s) - 1
              /\ \A i \in 1 .. Len(t) : t[i] = s[i + 1]
              /\ \A i, j \in 1 .. Len(t) : t[i] = t[j] => i = j
              /\ {t[i] : i \in 1 .. Len(t)} = {s[i] : i \in 1 .. Len(s)} \ {s[1]}
<1> DEFINE t == [i \in 1 .. Len(s) - 1 |-> s[i + 1]]
<1>1. Len(s) - 1 \in Nat /\ s \in [1 .. Len(s) -> Offset]
  BY ChainType, MaxNodesAssumption
<1>2. \A i \in 1 .. Len(s) - 1 : i + 1 \in 1 .. Len(s)
  BY <1>1
<1>3. t \in [1 .. Len(s) - 1 -> Offset]
  BY <1>1, <1>2
<1>4. \A i, j \in 1 .. Len(s) - 1 : t[i] = t[j] => i = j
  <2> TAKE i, j \in 1 .. Len(s) - 1
  <2>1. t[i] = s[i + 1] /\ t[j] = s[j + 1]
    OBVIOUS
  <2>2. s[i + 1] = s[j + 1] => i + 1 = j + 1
    BY <1>2
  <2> QED BY <1>1, <2>1, <2>2
<1>5. \A i \in 1 .. Len(s) - 1 : t[i] = s[i + 1]
  OBVIOUS
<1> HIDE DEF t
<1>6. t \in Chains /\ Len(t) = Len(s) - 1
  BY <1>1, <1>3, <1>4, InjectiveIsChain
<1>7. {t[i] : i \in 1 .. Len(t)} = {s[i] : i \in 1 .. Len(s)} \ {s[1]}
  <2>1. \A i \in 1 .. Len(s) : i # 1 => /\ i - 1 \in 1 .. Len(t)
                                       /\ t[i - 1] = s[i] /\ s[i] # s[1]
    BY <1>1, <1>5, <1>6
  <2>2. \A i \in 1 .. Len(t) : /\ i + 1 \in 1 .. Len(s) /\ i + 1 # 1
                               /\ t[i] = s[i + 1]
    BY <1>1, <1>5, <1>6
  <2> QED BY <2>1, <2>2
<1> QED BY <1>4, <1>5, <1>6, <1>7

-------------------------------------------------------------------------------
(* The control part: types, labels and the lock. *)

LEMMA InitIInv == Init => IInv
<1> SUFFICES ASSUME Init PROVE IInv
  OBVIOUS
<1> USE MaxNodesAssumption, BatchAssumption DEF Init
<1>1. \A p \in Proc : ~Holds(p) /\ pc[p] \in {"menu", "out"}
  BY DEF Holds
<1>2. TypeOK
  BY <1>1 DEF TypeOK, FreeNode, NULL, Labels
<1>3. MutualExclusion
  BY <1>1 DEF MutualExclusion
<1>4. ControlInv /\ ReportsAgree
  BY <1>1 DEF ControlInv, ReportsAgree
<1>5. \E s \in Chains : ListInv(s)
  <2> DEFINE s == [i \in 1 .. 0 |-> 0]
  <2>1. s \in [1 .. 0 -> Offset] /\ \A i, j \in 1 .. 0 : s[i] = s[j] => i = j
    OBVIOUS
  <2>2. s \in Chains /\ Len(s) = 0
    BY <2>1, InjectiveIsChain
  <2> HIDE DEF s
  <2>3. InHand = {} /\ Lag = 0
    BY <1>1 DEF InHand, Lag
  <2>4. ListInv(s)
    BY <1>1, <2>2, <2>3 DEF ListInv, IsChain, Accounts, Walking, FreeNode
  <2> QED BY <2>2, <2>4
<1> QED BY <1>2, <1>3, <1>4, <1>5 DEF IInv

\* Only the holder of the lock is inside a critical section.
LEMMA Alone ==
    ASSUME MutualExclusion, NEW p \in Proc, Holds(p)
    PROVE  (\A q \in Proc : Holds(q) => q = p) /\ mutex = 0
  BY DEF MutualExclusion

\* An instance that has the lock is inside a critical section.
LEMMA CriticalHolds ==
    ASSUME NEW p \in Proc, Critical(p)
    PROVE  Holds(p)
  BY DEF Critical, Holds, At, allocate_node, Link, IncCount, Unlink, DecCount,
         free_node, list_count, list_print, Walk, stampa_stato_memoria, Post

\* A step of the user, or a kill, moves nobody into or out of the critical
\* sections and touches neither the shared memory nor a section's locals.
LEMMA OutsideStep ==
    ASSUME TypeOK, NEW p \in Proc, User(p) \/ Kill(p)
    PROVE  /\ UNCHANGED <<shared, mutex>>
           /\ \A q \in Proc : Holds(q) \/ Holds(q)' =>
                 /\ pc'[q] = pc[q] /\ cur'[q] = cur[q]
                 /\ seen'[q] = seen[q] /\ op'[q] = op[q]
  BY DEF TypeOK, User, Kill, Start, Choose, ChooseMany, NextOfBatch, Leave,
         Call, At, Goto, Holds, locals, shared

LEMMA ControlStep ==
    ASSUME TypeOK, MutualExclusion, ControlInv, [Next]_vars
    PROVE  ControlInv'
<1> USE DEF ControlInv
<1>1. ASSUME NEW p \in Proc, User(p) \/ Kill(p)
      PROVE  ControlInv'
  <2>1. \A q \in Proc : pc'[q] = "wait" => op'[q] \in Ops /\ seen'[q] = 0
    BY <1>1 DEF TypeOK, User, Kill, Start, Choose, ChooseMany, NextOfBatch,
                Leave, Call, At, Goto, locals, shared, Ops
  <2> QED BY <1>1, <2>1, OutsideStep DEF Holds, shared
<1>2. ASSUME NEW p \in Proc, Acquire(p)
      PROVE  ControlInv'
  BY <1>2 DEF Acquire, At, Goto, TypeOK, Ops, shared, locals
<1>3. ASSUME NEW p \in Proc, Critical(p)
      PROVE  ControlInv'
  <2>1. \A q \in Proc : Holds(q) => q = p
    BY <1>3, CriticalHolds, Alone
  <2> USE <2>1 DEF TypeOK, At, Goto, Holds, shared, locals
  <2>2. CASE allocate_node(p)
    <3>1. CASE pc' = [pc EXCEPT ![p] = "post"] /\ UNCHANGED cur
      BY <2>2, <3>1 DEF allocate_node
    <3>2. ASSUME NEW o \in Offset, cur' = [cur EXCEPT ![p] = o],
                 pc' = [pc EXCEPT ![p] = "link"]
          PROVE  ControlInv'
      BY <2>2, <3>2 DEF allocate_node
    <3> QED BY <2>2, <3>1, <3>2 DEF allocate_node
  <2>3. CASE Link(p)
    BY <2>3 DEF Link
  <2>4. CASE IncCount(p) \/ DecCount(p) \/ free_node(p)
    BY <2>4 DEF IncCount, DecCount, free_node
  <2>5. CASE Unlink(p)
    BY <2>5 DEF Unlink, NULL
  <2>6. CASE list_count(p) \/ list_print(p) \/ stampa_stato_memoria(p)
    BY <2>6 DEF list_count, list_print, stampa_stato_memoria
  <2>7. CASE Walk(p) \/ Post(p)
    BY <2>7 DEF Walk, Post
  <2> QED BY <1>3, <2>2, <2>3, <2>4, <2>5, <2>6, <2>7 DEF Critical
<1>4. CASE UNCHANGED vars
  BY <1>4 DEF vars
<1> QED BY <1>1, <1>2, <1>3, <1>4 DEF Next

LEMMA MutexStep ==
    ASSUME TypeOK, MutualExclusion, ControlInv, [Next]_vars
    PROVE  MutualExclusion'
<1>1. ASSUME NEW p \in Proc, User(p) \/ Kill(p)
      PROVE  MutualExclusion'
  BY <1>1, OutsideStep DEF MutualExclusion, Holds
<1>2. ASSUME NEW p \in Proc, Acquire(p)
      PROVE  MutualExclusion'
  <2>1. /\ mutex' = 0 /\ Holds(p)'
        /\ \A q \in Proc : ~Holds(q) /\ (q # p => ~Holds(q)')
    BY <1>2 DEF Acquire, At, Goto, TypeOK, Ops, Holds, ControlInv,
                MutualExclusion
  <2> QED BY <2>1 DEF MutualExclusion
<1>3. ASSUME NEW p \in Proc, Critical(p)
      PROVE  MutualExclusion'
  <2>1. Holds(p) /\ mutex = 0 /\ \A q \in Proc : q # p => ~Holds(q)
    BY <1>3, CriticalHolds, Alone
  <2> USE <2>1 DEF TypeOK, At, Goto, Holds
  <2>2. CASE Post(p)
    <3>1. mutex' = 1 /\ \A q \in Proc : ~Holds(q)'
      BY <2>2 DEF Post
    <3> QED BY <3>1 DEF MutualExclusion
  <2>3. CASE ~Post(p)
    <3>1. PICK l \in Labels \ {"out", "menu", "batch", "wait"} :
             mutex' = mutex /\ (pc' = [pc EXCEPT ![p] = l] \/ pc' = pc)
      <4>1. CASE \/ allocate_node(p) \/ Link(p) \/ IncCount(p) \/ Unlink(p)
                 \/ DecCount(p) \/ free_node(p)
        BY <4>1 DEF allocate_node, Link, IncCount, Unlink, DecCount, free_node,
                    Labels
      <4>2. CASE \/ list_count(p) \/ list_print(p) \/ Walk(p)
                 \/ stampa_stato_memoria(p)
        BY <4>2 DEF list_count, list_print, Walk, stampa_stato_memoria, Labels
      <4> QED BY <1>3, <2>3, <4>1, <4>2 DEF Critical
    <3>2. Holds(p)' /\ \A q \in Proc : q # p => ~Holds(q)'
      BY <2>1, <3>1
    <3> QED BY <2>1, <3>1, <3>2 DEF MutualExclusion
  <2> QED BY <2>2, <2>3
<1>4. CASE UNCHANGED vars
  BY <1>4 DEF vars, MutualExclusion, Holds
<1> QED BY <1>1, <1>2, <1>3, <1>4 DEF Next

-------------------------------------------------------------------------------
(* The list part. *)

\* A step that writes nothing to the list and moves no holder keeps the list.
LEMMA ListFrame ==
    ASSUME NEW s \in Chains, ListInv(s), UNCHANGED shared,
           \A q \in Proc : Holds(q) \/ Holds(q)' =>
              pc'[q] = pc[q] /\ cur'[q] = cur[q] /\ seen'[q] = seen[q]
    PROVE  ListInv(s)'
<1> USE DEF Holds, shared
<1>1. InHand' = InHand /\ Lag' = Lag
  BY DEF InHand, Lag
<1>2. IsChain(s)' /\ Accounts(s)' /\ Walking(s)'
  BY <1>1 DEF ListInv, IsChain, Accounts, Walking
<1> QED BY <1>2 DEF ListInv

\* With one holder, what is in hand and the lag of the count are its own.
LEMMA HandOf ==
    ASSUME NEW p \in Proc, \A q \in Proc : Holds(q) => q = p
    PROVE  /\ InHand = IF pc[p] \in {"link", "dec", "free"} THEN {cur[p]}
                       ELSE {}
           /\ Lag = IF pc[p] = "inc" THEN 1 ELSE IF pc[p] = "dec" THEN -1
                    ELSE 0
           /\ \A s : Walking(s) <=> (pc[p] = "walk" =>
                 /\ seen[p] \in 0 .. Len(s)
                 /\ cur[p] = IF seen[p] = Len(s) THEN NULL ELSE s[seen[p] + 1])
  BY DEF InHand, Lag, Holds, Walking

LEMMA ListStep ==
    ASSUME IInv, [Next]_vars
    PROVE  \E s \in Chains : ListInv(s)'
<1> PICK s \in Chains : ListInv(s)
  BY DEF IInv
<1> USE DEF IInv
<1>1. ASSUME NEW p \in Proc, User(p) \/ Kill(p)
      PROVE  \E t \in Chains : ListInv(t)'
  <2>1. ListInv(s)'
    BY <1>1, OutsideStep, ListFrame DEF shared
  <2> QED BY <2>1
<1>2. CASE UNCHANGED vars
  <2>1. ListInv(s)'
    BY <1>2, ListFrame DEF vars, shared, Holds
  <2> QED BY <2>1
<1>3. ASSUME NEW p \in Proc, Acquire(p) \/ Critical(p)
      PROVE  \E t \in Chains : ListInv(t)'
  <2> DEFINE hand(l, c) == IF l \in {"link", "dec", "free"} THEN {c} ELSE {}
             lag(l) == IF l = "inc" THEN 1 ELSE IF l = "dec" THEN -1 ELSE 0
             walking(t, l, c, k) ==
                l = "walk" => /\ k \in 0 .. Len(t)
                              /\ c = IF k = Len(t) THEN NULL ELSE t[k + 1]
  <2>1. /\ \A q \in Proc : Holds(q) => q = p
        /\ \A q \in Proc : Holds(q)' => q = p
    <3>1. CASE Acquire(p)
      BY <3>1 DEF Acquire, At, Goto, TypeOK, Holds, MutualExclusion
    <3>2. CASE Critical(p)
      <4>1. \A q \in Proc : Holds(q) => q = p
        BY <3>2, CriticalHolds, Alone
      <4>2. \A q \in Proc : q # p => pc'[q] = pc[q]
        BY <3>2 DEF Critical, allocate_node, Link, IncCount, Unlink, DecCount,
             free_node, list_count, list_print, Walk, stampa_stato_memoria,
             Post, At, Goto, TypeOK
      <4> QED BY <4>1, <4>2 DEF Holds
    <3> QED BY <1>3, <3>1, <3>2
  <2>2. /\ InHand = hand(pc[p], cur[p]) /\ Lag = lag(pc[p])
        /\ walking(s, pc[p], cur[p], seen[p])
    BY <2>1, HandOf DEF ListInv
  <2>3. /\ InHand' = hand(pc'[p], cur'[p]) /\ Lag' = lag(pc'[p])
        /\ \A t : walking(t, pc'[p], cur'[p], seen'[p]) => Walking(t)'
    BY <2>1 DEF InHand, Lag, Holds, Walking
  <2>4. Len(s) \in 0 .. MAX_NODES /\ s \in [1 .. Len(s) -> Offset]
    BY ChainType
  <2>T. /\ nodes \in [Offset -> [data : Values \cup {0, -1},
                                 next_offset : Offset \cup {NULL},
                                 is_free : BOOLEAN]]
        /\ count \in Int
        /\ pc \in [Proc -> Labels] /\ cur \in [Proc -> Offset \cup {NULL}]
        /\ seen \in [Proc -> Nat] /\ op \in [Proc -> Ops \cup {"none"}]
    BY MaxNodesAssumption DEF TypeOK
  <2>5. IsChain(s) /\ Accounts(s)
    BY DEF ListInv
  \* A step that leaves nodes and head alone and keeps the account.
  <2>6. ASSUME UNCHANGED <<nodes, head_offset>>,
               hand(pc'[p], cur'[p]) = hand(pc[p], cur[p]),
               count' + lag(pc'[p]) = count + lag(pc[p]), count' \in Int,
               walking(s, pc'[p], cur'[p], seen'[p])
        PROVE  ListInv(s)'
    <3>1. IsChain(s)'
      BY <2>5, <2>6 DEF IsChain
    <3>2. Accounts(s)'
      <4>1. InHand' = InHand
        BY <2>2, <2>3, <2>6
      <4>2. \A i \in Offset : nodes'[i].is_free
               <=> i \notin {s[j] : j \in 1 .. Len(s)} \cup InHand'
        BY <2>5, <2>6, <4>1 DEF Accounts
      <4>3. \A i \in 1 .. Len(s) : s[i] \notin InHand'
        BY <2>5, <4>1 DEF Accounts
      <4>4. count' = Len(s) - Lag'
        <5>1. count = Len(s) - Lag
          BY <2>5 DEF Accounts
        <5>2. Lag = lag(pc[p]) /\ Lag' = lag(pc'[p])
          BY <2>2, <2>3
        <5>3. ASSUME NEW c \in Int, NEW d \in Int, NEW x \in Int, NEW y \in Int,
                     NEW k \in Int, d + y = c + x, c = k - x
              PROVE  d = k - y
          BY <5>3
        <5>4. lag(pc[p]) \in Int /\ lag(pc'[p]) \in Int /\ Len(s) \in Int
          BY <2>4
        <5>5. count = Len(s) - lag(pc[p])
          BY <5>1, <5>2
        <5> HIDE DEF lag
        <5>6. count' = Len(s) - lag(pc'[p])
          BY <2>6, <2>T, <5>3, <5>4, <5>5
        <5> QED BY <5>2, <5>6
      <4> QED BY <4>2, <4>3, <4>4 DEF Accounts
    <3> QED BY <2>3, <2>6, <3>1, <3>2 DEF ListInv
  <2> USE <2>T, MaxNodesAssumption DEF At, Goto, locals, shared
  <2>7. CASE Acquire(p)
    <3>1. pc[p] = "wait" /\ pc'[p] \in Ops /\ UNCHANGED <<shared, locals>>
      BY <2>7 DEF Acquire, ControlInv
    <3>2. ListInv(s)'
      BY <2>6, <3>1 DEF Ops
    <3> QED BY <3>2
  <2>8. CASE IncCount(p) \/ DecCount(p)
    <3>1. UNCHANGED <<nodes, head_offset, cur>>
      BY <2>8 DEF IncCount, DecCount
    <3>2. \/ pc[p] = "inc" /\ pc'[p] = "post" /\ count' = count + 1
          \/ pc[p] = "dec" /\ pc'[p] = "free" /\ count' = count - 1
      BY <2>8 DEF IncCount, DecCount
    <3>3. count' + lag(pc'[p]) = count + lag(pc[p]) /\ count' \in Int
      BY <3>2
    <3>4. ListInv(s)'
      BY <2>6, <3>1, <3>2, <3>3
    <3> QED BY <3>4
  <2>9. CASE list_count(p) \/ stampa_stato_memoria(p) \/ Post(p)
    <3>1. /\ pc[p] \in {"count", "dump", "post"} /\ UNCHANGED shared
          /\ pc'[p] \in {"post", "menu", "batch"}
      BY <2>9 DEF list_count, stampa_stato_memoria, Post
    <3>2. ListInv(s)'
      BY <2>6, <3>1
    <3> QED BY <3>2
  <2>10. CASE list_print(p)
    <3>1. /\ pc[p] = "print" /\ pc'[p] = "walk" /\ UNCHANGED shared
          /\ cur'[p] = head_offset /\ seen'[p] = seen[p]
      BY <2>10 DEF list_print
    <3>2. seen[p] = 0
      BY <3>1 DEF ControlInv
    <3>3. walking(s, "walk", head_offset, 0)
      BY <2>4, <2>5 DEF IsChain
    <3>4. ListInv(s)'
      BY <2>6, <3>1, <3>2, <3>3
    <3> QED BY <3>4
  <2>11. CASE Walk(p)
    <3>1. pc[p] = "walk" /\ UNCHANGED shared
      BY <2>11 DEF Walk
    <3>2. CASE cur[p] = NULL
      <4>1. pc'[p] = "post"
        BY <2>11, <3>2 DEF Walk
      <4>2. ListInv(s)'
        BY <2>6, <3>1, <4>1
      <4> QED BY <4>2
    <3>3. CASE cur[p] # NULL
      <4>1. /\ pc'[p] = "walk" /\ seen'[p] = seen[p] + 1
            /\ cur'[p] = nodes[cur[p]].next_offset
        BY <2>11, <3>3 DEF Walk
      <4>2. seen[p] \in 0 .. Len(s) - 1 /\ cur[p] = s[seen[p] + 1]
        BY <2>2, <2>4, <3>1, <3>3
      <4>3. walking(s, "walk", cur'[p], seen[p] + 1)
        BY <2>4, <2>5, <4>1, <4>2 DEF IsChain
      <4>4. ListInv(s)'
        BY <2>6, <3>1, <4>1, <4>3
      <4> QED BY <4>4
    <3> QED BY <3>2, <3>3
  <2>12. CASE allocate_node(p)
    <3>1. CASE \A o \in Offset : ~nodes[o].is_free
      <4>1. pc[p] = "insert" /\ pc'[p] = "post" /\ UNCHANGED shared
        BY <2>12, <3>1 DEF allocate_node, IsFirstFree
      <4>2. ListInv(s)'
        BY <2>6, <4>1
      <4> QED BY <4>2
    <3>2. ASSUME NEW o \in Offset, nodes[o].is_free, cur'[p] = o,
                 nodes' = [nodes EXCEPT ![o].is_free = FALSE,
                                        ![o].next_offset = NULL],
                 UNCHANGED <<head_offset, count>>,
                 pc[p] = "insert", pc'[p] = "link"
          PROVE  ListInv(s)'
      <4>1. \A i \in 1 .. Len(s) : s[i] # o
        BY <2>2, <2>4, <2>5, <3>2 DEF Accounts
      <4>2. \A i \in 1 .. Len(s) : nodes'[s[i]] = nodes[s[i]]
        BY <2>4, <3>2, <4>1
      <4>3. \A i \in Offset : nodes'[i].is_free
                              <=> nodes[i].is_free /\ i # o
        BY <3>2
      <4>4. IsChain(s)'
        BY <2>4, <2>5, <3>2, <4>2 DEF IsChain
      <4>5. Accounts(s)'
        BY <2>2, <2>3, <2>4, <2>5, <3>2, <4>1, <4>3 DEF Accounts
      <4> QED BY <2>3, <3>2, <4>4, <4>5 DEF ListInv
    <3> QED BY <2>12, <3>1, <3>2 DEF allocate_node, IsFirstFree
  <2>13. CASE Link(p)
    <3> DEFINE o == cur[p]
    <3>1. /\ pc[p] = "link" /\ pc'[p] = "inc" /\ o \in Offset
          /\ nodes' = [nodes EXCEPT ![o].data = value[p],
                                    ![o].next_offset = head_offset]
          /\ head_offset' = o /\ count' = count /\ cur' = cur
      BY <2>13 DEF Link, ControlInv
    <3>2. \A i \in 1 .. Len(s) : s[i] # o
      BY <2>2, <2>5, <3>1 DEF Accounts
    <3>3. /\ nodes'[o].next_offset = head_offset
          /\ \A i \in Offset : i # o => nodes'[i] = nodes[i]
          /\ \A i \in Offset : nodes'[i].is_free <=> nodes[i].is_free
      BY <2>T, <3>1
    <3> HIDE DEF o
    <3>4. PICK t \in Chains :
             /\ Len(t) = Len(s) + 1
             /\ t[1] = o
             /\ \A i \in 1 .. Len(s) : t[i + 1] = s[i]
             /\ \A i, j \in 1 .. Len(t) : t[i] = t[j] => i = j
             /\ {t[i] : i \in 1 .. Len(t)} = {s[i] : i \in 1 .. Len(s)} \cup {o}
      <4>1. \A i, j \in 1 .. Len(s) : s[i] = s[j] => i = j
        BY <2>5 DEF IsChain
      <4>2. o \in Offset
        BY <3>1
      <4> QED BY <3>2, <4>1, <4>2, PushChain
    <3>5. IsChain(t)'
      <4>1. \A i \in 1 .. Len(s) :
               nodes'[t[i + 1]].next_offset = IF i + 1 = Len(t) THEN NULL
                                              ELSE t[i + 2]
        <5> TAKE i \in 1 .. Len(s)
        <5>1. t[i + 1] = s[i] /\ nodes'[s[i]] = nodes[s[i]]
          BY <2>4, <3>2, <3>3, <3>4
        <5>2. nodes[s[i]].next_offset = IF i = Len(s) THEN NULL ELSE s[i + 1]
          BY <2>5 DEF IsChain
        <5>3. i # Len(s) => i + 1 \in 1 .. Len(s) /\ i + 2 = (i + 1) + 1
          <6>1. Len(s) \in Nat /\ i \in Nat /\ i <= Len(s)
            BY <2>4
          <6> QED BY <6>1
        <5>4. i # Len(s) => t[i + 2] = s[i + 1]
          BY <3>4, <5>3
        <5>5. i + 1 = Len(t) <=> i = Len(s)
          BY <2>4, <3>4
        <5> QED BY <5>1, <5>2, <5>4, <5>5
      <4>2. nodes'[t[1]].next_offset = IF 1 = Len(t) THEN NULL ELSE t[1 + 1]
        BY <2>4, <2>5, <3>3, <3>4 DEF IsChain
      <4>3. \A i \in 1 .. Len(t) :
               i = 1 \/ (i - 1 \in 1 .. Len(s) /\ i = (i - 1) + 1
                         /\ i + 1 = (i - 1) + 2)
        BY <2>4, <3>4
      <4>4. \A i \in 1 .. Len(t) :
               nodes'[t[i]].next_offset = IF i = Len(t) THEN NULL ELSE t[i + 1]
        <5> TAKE i \in 1 .. Len(t)
        <5>1. CASE i = 1
          BY <4>2, <5>1
        <5>2. CASE i # 1
          <6> DEFINE j == i - 1
          <6>1. j \in 1 .. Len(s) /\ i = j + 1 /\ i + 1 = j + 2
            BY <4>3, <5>2
          <6> HIDE DEF j
          <6> QED BY <4>1, <6>1
        <5> QED BY <5>1, <5>2
      <4>5. Len(t) # 0
        BY <2>4, <3>4
      <4> QED BY <3>1, <3>4, <4>4, <4>5 DEF IsChain
    <3>6. InHand = {o} /\ InHand' = {} /\ Lag = 0 /\ Lag' = 1
      BY <2>2, <2>3, <3>1 DEF o
    <3>7. Accounts(t)'
      <4>1. \A i \in Offset : nodes'[i].is_free
               <=> i \notin {t[j] : j \in 1 .. Len(t)} \cup InHand'
        BY <2>5, <3>3, <3>4, <3>6 DEF Accounts
      <4>2. count' = Len(t) - Lag'
        BY <2>4, <2>5, <3>1, <3>4, <3>6 DEF Accounts
      <4> QED BY <3>6, <4>1, <4>2 DEF Accounts
    <3> QED BY <2>3, <3>1, <3>5, <3>7 DEF ListInv
  <2>14. CASE Unlink(p)
    <3>1. CASE head_offset = NULL
      <4>1. pc[p] = "pop" /\ pc'[p] = "post" /\ UNCHANGED shared
        BY <2>14, <3>1 DEF Unlink
      <4>2. ListInv(s)'
        BY <2>6, <4>1
      <4> QED BY <4>2
    <3>2. CASE head_offset # NULL
      <4>1. /\ pc[p] = "pop" /\ pc'[p] = "dec" /\ cur'[p] = head_offset
            /\ head_offset' = nodes[head_offset].next_offset
            /\ nodes' = nodes /\ count' = count
        BY <2>14, <3>2 DEF Unlink
      <4>2. Len(s) # 0 /\ 1 \in 1 .. Len(s) /\ head_offset = s[1]
        BY <2>4, <2>5, <3>2 DEF IsChain
      <4>3. PICK t \in Chains :
               /\ Len(t) = Len(s) - 1
               /\ \A i \in 1 .. Len(t) : t[i] = s[i + 1]
               /\ \A i, j \in 1 .. Len(t) : t[i] = t[j] => i = j
               /\ {t[i] : i \in 1 .. Len(t)}
                  = {s[i] : i \in 1 .. Len(s)} \ {s[1]}
        BY <2>5, <4>2, PopChain DEF IsChain
      <4>4. IsChain(t)'
        <5>1. head_offset' = IF Len(t) = 0 THEN NULL ELSE t[1]
          <6>1. head_offset' = nodes[s[1]].next_offset
            BY <4>1, <4>2
          <6>2. nodes[s[1]].next_offset = IF 1 = Len(s) THEN NULL ELSE s[1 + 1]
            BY <2>5, <4>2 DEF IsChain
          <6>3. Len(t) # 0 => t[1] = s[1 + 1]
            <7>1. Len(t) # 0 => 1 \in 1 .. Len(t)
              BY <2>4, <4>3
            <7> QED BY <4>3, <7>1
          <6>4. Len(t) = 0 <=> 1 = Len(s)
            BY <2>4, <4>3
          <6> QED BY <6>1, <6>2, <6>3, <6>4
        <5>2. \A i \in 1 .. Len(t) :
                 /\ i + 1 \in 1 .. Len(s)
                 /\ nodes[t[i]].next_offset = IF i + 1 = Len(s) THEN NULL
                                              ELSE s[(i + 1) + 1]
          BY <2>4, <2>5, <4>2, <4>3 DEF IsChain
        <5>3. \A i \in 1 .. Len(t) :
                 nodes'[t[i]].next_offset = IF i = Len(t) THEN NULL
                                            ELSE t[i + 1]
          BY <2>4, <4>1, <4>2, <4>3, <5>2
        <5> QED BY <4>3, <5>1, <5>3 DEF IsChain
      <4>5. InHand = {} /\ InHand' = {s[1]} /\ Lag = 0 /\ Lag' = -1
        BY <2>2, <2>3, <4>1, <4>2
      <4>6. s[1] \in {s[i] : i \in 1 .. Len(s)}
        BY <4>2
      <4>7. Accounts(t)'
        <5>1. \A i \in Offset : nodes'[i].is_free
                 <=> i \notin {t[j] : j \in 1 .. Len(t)} \cup InHand'
          BY <2>5, <4>1, <4>3, <4>5, <4>6 DEF Accounts
        <5>2. \A i \in 1 .. Len(t) : t[i] # s[1]
          <6>1. \A i \in 1 .. Len(t) : t[i] \in {t[j] : j \in 1 .. Len(t)}
            OBVIOUS
          <6> QED BY <4>3, <6>1
        <5>3. count' = Len(t) - Lag'
          BY <2>4, <2>5, <4>1, <4>2, <4>3, <4>5 DEF Accounts
        <5> QED BY <4>5, <5>1, <5>2, <5>3 DEF Accounts
      <4> QED BY <2>3, <4>1, <4>4, <4>7 DEF ListInv
    <3> QED BY <3>1, <3>2
  <2>15. CASE free_node(p)
    <3> DEFINE o == cur[p]
    <3>1. /\ pc[p] = "free" /\ pc'[p] = "post" /\ o \in Offset
          /\ nodes' = [nodes EXCEPT ![o] = FreeNode]
          /\ UNCHANGED <<head_offset, count>>
      BY <2>15 DEF free_node, ControlInv
    <3>2. \A i \in 1 .. Len(s) : s[i] # o
      BY <2>2, <2>5, <3>1 DEF Accounts
    <3>3. \A i \in 1 .. Len(s) : nodes'[s[i]] = nodes[s[i]]
      BY <2>4, <3>1, <3>2
    <3>4. \A i \in Offset : nodes'[i].is_free <=> nodes[i].is_free \/ i = o
      BY <3>1 DEF FreeNode
    <3>5. IsChain(s)'
      BY <2>4, <2>5, <3>1, <3>3 DEF IsChain
    <3>6. Accounts(s)'
      BY <2>2, <2>3, <2>4, <2>5, <3>1, <3>2, <3>4 DEF Accounts
    <3> QED BY <2>3, <3>1, <3>5, <3>6 DEF ListInv
  <2> QED BY <1>3, <2>7, <2>8, <2>9, <2>10, <2>11, <2>12, <2>13, <2>14, <2>15
          DEF Critical
<1> QED BY <1>1, <1>2, <1>3 DEF Next

-------------------------------------------------------------------------------
(* Types and reports. *)

\* The account of the count, for the one instance that is about to change it.
LEMMA CountBounds ==
    ASSUME IInv, NEW p \in Proc
    PROVE  /\ pc[p] = "inc" => count + 1 \in 0 .. MAX_NODES
           /\ pc[p] = "dec" => count - 1 \in 0 .. MAX_NODES
<1> PICK s \in Chains : ListInv(s)
  BY DEF IInv
<1>1. Len(s) \in 0 .. MAX_NODES
  BY ChainType
<1>2. count = Len(s) - Lag
  BY DEF ListInv, Accounts
<1>3. pc[p] \in {"inc", "dec"} => \A q \in Proc : Holds(q) => q = p
  BY Alone DEF Holds, IInv
<1>4. pc[p] = "inc" => count = Len(s) - 1
  BY <1>2, <1>3 DEF Lag, Holds
<1>5. pc[p] = "dec" => count = Len(s) - (-1)
  BY <1>2, <1>3 DEF Lag, Holds
<1> QED BY <1>1, <1>4, <1>5, MaxNodesAssumption

LEMMA TypeStep ==
    ASSUME IInv, [Next]_vars
    PROVE  TypeOK'
<1> USE MaxNodesAssumption, BatchAssumption, ValuesAssumption
    DEF TypeOK, At, Goto, shared, locals, Labels
<1>T. TypeOK /\ ControlInv
  BY DEF IInv
<1>1. ASSUME NEW p \in Proc, User(p) \/ Kill(p)
      PROVE  TypeOK'
  <2>1. CASE Start(p) \/ Choose(p)
    BY <1>T, <2>1 DEF Start, Choose, Call, Ops, NULL
  <2>2. CASE ChooseMany(p) \/ Leave(p) \/ Kill(p)
    <3>1. CASE ChooseMany(p)
      <4>1. PICK n \in 1 .. MAX_BATCH : batch' = [batch EXCEPT ![p] = n]
        BY <3>1 DEF ChooseMany
      <4>2. batch' \in [Proc -> 0 .. MAX_BATCH \cup {NULL}]
        BY <1>T, <4>1
      <4> QED BY <1>T, <3>1, <4>2 DEF ChooseMany
    <3>2. CASE Leave(p)
      BY <1>T, <3>2 DEF Leave
    <3>3. CASE Kill(p)
      BY <1>T, <3>3 DEF Kill
    <3> QED BY <2>2, <3>1, <3>2, <3>3
  <2>3. CASE NextOfBatch(p)
    <3>1. batch' \in [Proc -> 0 .. MAX_BATCH \cup {NULL}]
      <4>1. batch[p] \in 0 .. MAX_BATCH /\ batch[p] > 0
            => batch[p] - 1 \in 0 .. MAX_BATCH
        OBVIOUS
      <4>2. pc[p] = "batch" /\ batch[p] > 0 /\ batch[p] # NULL
            => batch[p] - 1 \in 0 .. MAX_BATCH
        BY <1>T, <4>1
      <4>3. NULL \in Int /\ NULL < 0
        BY DEF NULL
      <4> QED BY <1>T, <2>3, <4>2, <4>3 DEF NextOfBatch
    <3> QED BY <1>T, <2>3, <3>1 DEF NextOfBatch, Call, Ops, NULL
  <2> QED BY <1>1, <2>1, <2>2, <2>3 DEF User
<1>2. ASSUME NEW p \in Proc, Acquire(p)
      PROVE  TypeOK'
  <2>1. mutex - 1 \in Nat
    BY <1>T, <1>2 DEF Acquire
  <2> QED BY <1>T, <1>2, <2>1 DEF Acquire, ControlInv, Ops
<1>3. ASSUME NEW p \in Proc, Critical(p)
      PROVE  TypeOK'
  <2>1. CASE allocate_node(p)
    <3>1. CASE \A o \in Offset : ~nodes[o].is_free
      BY <1>T, <2>1, <3>1 DEF allocate_node, IsFirstFree
    <3>2. ASSUME NEW o \in Offset, cur' = [cur EXCEPT ![p] = o],
                 nodes' = [nodes EXCEPT ![o].is_free = FALSE,
                                        ![o].next_offset = NULL],
                 pc' = [pc EXCEPT ![p] = "link"],
                 UNCHANGED <<head_offset, count, mutex, alive, op, value, seen,
                             batch>>
          PROVE  TypeOK'
      <4>1. nodes' \in [Offset -> [data : Values \cup {0, -1},
                                   next_offset : Offset \cup {NULL},
                                   is_free : BOOLEAN]]
        <5> DEFINE N == [data : Values \cup {0, -1},
                         next_offset : Offset \cup {NULL}, is_free : BOOLEAN]
        <5>1. nodes \in [Offset -> N]
          BY <1>T
        <5>2. PICK n \in N : nodes' = [nodes EXCEPT ![o] = n]
          <6>1. nodes[o] \in N
            BY <5>1
          <6>2. [nodes[o] EXCEPT !.is_free = FALSE, !.next_offset = NULL] \in N
            BY <6>1
          <6>3. nodes' = [nodes EXCEPT ![o] = [nodes[o] EXCEPT
                             !.is_free = FALSE, !.next_offset = NULL]]
            BY <3>2, <5>1
          <6> QED BY <6>2, <6>3
        <5> HIDE DEF N
        <5>3. nodes' \in [Offset -> N]
          BY <5>1, <5>2
        <5> QED BY <5>3 DEF N
      <4>2. cur' \in [Proc -> Offset \cup {NULL}] /\ pc' \in [Proc -> Labels]
        BY <1>T, <3>2
      <4> QED BY <1>T, <3>2, <4>1, <4>2
    <3> QED BY <2>1, <3>1, <3>2 DEF allocate_node, IsFirstFree
  <2>2. CASE Link(p)
    BY <1>T, <2>2 DEF Link, ControlInv
  <2>3. CASE IncCount(p) \/ DecCount(p)
    BY <1>T, <2>3, CountBounds DEF IncCount, DecCount
  <2>4. CASE Unlink(p)
    <3>1. CASE head_offset = NULL
      BY <1>T, <2>4, <3>1 DEF Unlink
    <3>2. CASE head_offset # NULL
      <4>1. /\ nodes[head_offset].data \in Values \cup {0, -1}
            /\ nodes[head_offset].next_offset \in Offset \cup {NULL}
        BY <1>T, <3>2
      <4> QED BY <1>T, <2>4, <3>2, <4>1 DEF Unlink
    <3> QED BY <3>1, <3>2
  <2>5. CASE free_node(p)
    BY <1>T, <2>5 DEF free_node, FreeNode
  <2>6. CASE list_count(p) \/ list_print(p)
    BY <1>T, <2>6 DEF list_count, list_print
  <2>7. CASE Walk(p)
    <3>1. cur[p] # NULL => nodes[cur[p]].next_offset \in Offset \cup {NULL}
      BY <1>T
    <3> QED BY <1>T, <2>7, <3>1 DEF Walk
  <2>8. CASE stampa_stato_memoria(p)
    <3>1. IsFiniteSet(Offset)
      BY FS_Interval DEF Offset
    <3>2. Cardinality(Occupied) \in Nat
      BY <3>1, FS_Subset, FS_CardinalityType DEF Occupied
    <3> QED BY <1>T, <2>8, <3>2 DEF stampa_stato_memoria
  <2>9. CASE Post(p)
    BY <1>T, <2>9 DEF Post, NULL
  <2> QED BY <1>3, <2>1, <2>2, <2>3, <2>4, <2>5, <2>6, <2>7, <2>8, <2>9
          DEF Critical
<1>4. CASE UNCHANGED vars
  BY <1>T, <1>4 DEF vars
<1> QED BY <1>1, <1>2, <1>3, <1>4 DEF Next

LEMMA ReportStep ==
    ASSUME IInv, [Next]_vars
    PROVE  ReportsAgree'
<1> USE DEF IInv
<1>1. ASSUME NEW p \in Proc, User(p) \/ Kill(p)
      PROVE  ReportsAgree'
  BY <1>1, OutsideStep DEF ReportsAgree, Holds, shared
<1>2. ASSUME NEW p \in Proc, Acquire(p)
      PROVE  ReportsAgree'
  BY <1>2 DEF Acquire, ReportsAgree, ControlInv, TypeOK, Ops, At, Goto,
              shared, locals
<1>3. ASSUME NEW p \in Proc, Critical(p)
      PROVE  ReportsAgree'
  <2>1. Holds(p) /\ \A q \in Proc : Holds(q) => q = p
    BY <1>3, CriticalHolds, Alone
  <2>2. \A q \in Proc : q # p => pc'[q] # "post"
    BY <1>3, <2>1 DEF Critical, allocate_node, Link, IncCount, Unlink,
       DecCount, free_node, list_count, list_print, Walk, stampa_stato_memoria,
       Post, At, Goto, TypeOK, Holds
  <2> SUFFICES ASSUME pc'[p] = "post", op'[p] \in {"count", "print", "dump"}
               PROVE  seen'[p] = count'
    BY <2>2 DEF ReportsAgree
  <2> PICK s \in Chains : ListInv(s)
    OBVIOUS
  <2>3. Len(s) \in 0 .. MAX_NODES /\ s \in [1 .. Len(s) -> Offset]
    BY ChainType
  <2>4. /\ pc[p] \in {"count", "walk", "dump"} => InHand = {} /\ Lag = 0
        /\ pc[p] = "walk" => cur[p] = IF seen[p] = Len(s) THEN NULL
                                      ELSE s[seen[p] + 1]
        /\ pc[p] = "walk" => seen[p] \in 0 .. Len(s)
    BY <2>1, HandOf DEF ListInv
  <2>5. pc[p] \in {"count", "walk", "dump"} => count = Len(s)
    BY <2>3, <2>4 DEF ListInv, Accounts
  <2>6. CASE list_count(p)
    BY <2>6 DEF list_count, At, TypeOK, shared
  <2>7. CASE Walk(p)
    <3>1. pc[p] = "walk" /\ cur[p] = NULL /\ UNCHANGED <<seen, count>>
      BY <2>7 DEF Walk, At, TypeOK, shared
    <3>2. seen[p] # Len(s) => s[seen[p] + 1] # NULL
      BY <2>3, <2>4, <3>1, MaxNodesAssumption DEF Offset, NULL
    <3> QED BY <2>4, <2>5, <3>1, <3>2
  <2>8. CASE stampa_stato_memoria(p)
    <3>1. /\ pc[p] = "dump" /\ count' = count
          /\ seen'[p] = Cardinality(Occupied)
      BY <2>8 DEF stampa_stato_memoria, At, TypeOK, shared
    <3>2. Occupied = {s[i] : i \in 1 .. Len(s)}
      <4>1. \A o \in Offset : nodes[o].is_free
                              <=> o \notin {s[i] : i \in 1 .. Len(s)}
        BY <2>4, <3>1 DEF ListInv, Accounts
      <4> QED BY <2>3, <4>1 DEF Occupied
    <3>3. Cardinality({s[i] : i \in 1 .. Len(s)}) = Len(s)
      <4>1. \A i, j \in 1 .. Len(s) : s[i] = s[j] => i = j
        BY DEF ListInv, IsChain
      <4>2. Len(s) \in Nat
        BY <2>3, MaxNodesAssumption
      <4> QED BY <2>3, <4>1, <4>2, RangeSize
    <3> QED BY <2>5, <3>1, <3>2, <3>3
  <2>9. CASE \/ allocate_node(p) \/ Link(p) \/ IncCount(p) \/ Unlink(p)
             \/ DecCount(p) \/ free_node(p) \/ list_print(p)
    BY <2>9 DEF allocate_node, Link, IncCount, Unlink, DecCount, free_node,
       list_print, At, Goto, TypeOK, locals, ControlInv
  <2>10. CASE Post(p)
    BY <2>10 DEF Post, Goto, TypeOK
  <2> QED BY <1>3, <2>6, <2>7, <2>8, <2>9, <2>10 DEF Critical
<1>4. CASE UNCHANGED vars
  BY <1>4 DEF vars, ReportsAgree
<1> QED BY <1>1, <1>2, <1>3, <1>4 DEF Next

-------------------------------------------------------------------------------
(* The theorems. *)

LEMMA InductiveInvariant == Spec => []IInv
<1>1. IInv /\ [Next]_vars => IInv'
  BY ControlStep, MutexStep, ListStep, TypeStep, ReportStep DEF IInv
<1> QED BY <1>1, InitIInv, PTL DEF Spec

\* Every reachable state is well typed: the count stays within the pool and no
\* link leaves it, whatever the instances do and whoever is killed.
THEOREM TypeCorrect == Spec => []TypeOK
<1>1. IInv => TypeOK
  BY DEF IInv
<1> QED BY <1>1, InductiveInvariant, PTL

\* sem_wait and sem_post pair up on every path of every list operation: at most
\* one instance is ever in a critical section, and a lock nobody holds is free.
THEOREM LockIsExclusive == Spec => []MutualExclusion
<1>1. IInv => MutualExclusion
  BY DEF IInv
<1> QED BY <1>1, InductiveInvariant, PTL

\* The pool and the list agree in every reachable state: one acyclic list,
\* exactly the occupied nodes, as long as the count says.
THEOREM ListStaysWellFormed == Spec => []ListWellFormed
<1>1. IInv => ListWellFormed
  BY DEF IInv, ListInv, ListWellFormed
<1> QED BY <1>1, InductiveInvariant, PTL

\* What list_count, list_print and stampa_stato_memoria report is the number of
\* elements on the list at that moment.
THEOREM ReportsAreExact == Spec => []ReportsAgree
<1>1. IInv => ReportsAgree
  BY DEF IInv
<1> QED BY <1>1, InductiveInvariant, PTL

-------------------------------------------------------------------------------
(* The refinement: the one chain there is, and the stack read off it. *)

\* Every non-empty set of naturals has a least element.
LEMMA LeastNat ==
    ASSUME NEW T \in SUBSET Nat, T # {}
    PROVE  \E n \in T : \A m \in T : n <= m
<1> DEFINE R == StrictSubsetOrdering(Nat)
           TT == {0 .. n : n \in T}
<1>1. IsWellFoundedOn(R, FiniteSubsetsOf(Nat))
  BY FS_StrictSubsetOrderingWellFounded
<1>2. TT \subseteq FiniteSubsetsOf(Nat) /\ TT # {}
  <2>1. \A n \in T : IsFiniteSet(0 .. n) /\ 0 .. n \subseteq Nat
    BY FS_Interval
  <2> QED BY <2>1 DEF FiniteSubsetsOf
<1> HIDE DEF R
<1>3. PICK I \in TT : \A J \in TT : <<J, I>> \notin R
  BY <1>1, <1>2, WFMin
<1>4. PICK n \in T : I = 0 .. n
  OBVIOUS
<1>5. ASSUME NEW m \in T, m < n PROVE FALSE
  <2>1. 0 .. m \in SUBSET Nat /\ 0 .. n \in SUBSET Nat /\ 0 .. m \subseteq 0 .. n
        /\ n \in 0 .. n /\ n \notin 0 .. m
    BY <1>5
  <2>2. <<0 .. m, 0 .. n>> \in R
    BY <2>1 DEF R, StrictSubsetOrdering
  <2> QED BY <1>3, <1>4, <2>2
<1> QED BY <1>5

\* There is one chain only: where two would first differ, the same node would
\* have two successors.
LEMMA ChainsAgree ==
    ASSUME NEW s \in Chains, NEW t \in Chains, IsChain(s), IsChain(t),
           NEW n \in 1 .. Len(s)
    PROVE  n \in 1 .. Len(t) /\ s[n] = t[n]
<1>1. /\ Len(s) \in Nat /\ s \in [1 .. Len(s) -> Offset]
      /\ Len(t) \in Nat /\ t \in [1 .. Len(t) -> Offset] /\ NULL \notin Offset
  BY ChainType, MaxNodesAssumption DEF Offset, NULL
<1> DEFINE Bad == {i \in 1 .. Len(s) : ~(i \in 1 .. Len(t) /\ s[i] = t[i])}
<1>2. Bad = {}
  <2> SUFFICES ASSUME Bad # {} PROVE FALSE
    OBVIOUS
  <2>1. PICK i \in Bad : \A j \in Bad : i <= j
    <3>1. Bad \in SUBSET Nat
      BY <1>1
    <3> HIDE DEF Bad
    <3> QED BY <3>1, LeastNat
  <2>0. i \in 1 .. Len(s) /\ ~(i \in 1 .. Len(t) /\ s[i] = t[i])
    BY <2>1
  <2>2. CASE i = 1
    <3>1. Len(s) # 0 /\ s[1] \in Offset
      BY <1>1, <2>0, <2>2
    <3>2. head_offset = s[1] /\ s[1] # NULL
      BY <1>1, <3>1 DEF IsChain
    <3>3. Len(t) # 0 /\ head_offset = t[1]
      BY <3>2 DEF IsChain
    <3> QED BY <1>1, <2>0, <2>2, <3>2, <3>3
  <2>3. CASE i # 1
    <3> DEFINE k == i - 1
    <3>1. k \in 1 .. Len(s) /\ k # Len(s) /\ k + 1 = i /\ ~(i <= k)
      BY <1>1, <2>3
    <3> HIDE DEF k
    <3>2. k \in 1 .. Len(t) /\ s[k] = t[k]
      BY <2>1, <3>1
    <3>3. nodes[s[k]].next_offset = s[i]
      BY <3>1 DEF IsChain
    <3>4. nodes[t[k]].next_offset = IF k = Len(t) THEN NULL ELSE t[i]
      BY <3>1, <3>2 DEF IsChain
    <3>5. s[i] # NULL
      BY <1>1
    <3>6. k # Len(t) /\ t[i] = s[i]
      BY <3>2, <3>3, <3>4, <3>5
    <3>7. i \in 1 .. Len(t)
      <4>1. k \in 1 .. Len(t) /\ k # Len(t) /\ Len(t) \in Nat
        BY <1>1, <3>2, <3>6
      <4> QED BY <3>1, <4>1
    <3> QED BY <2>0, <3>6, <3>7
  <2> QED BY <2>2, <2>3
<1> QED BY <1>2

\* The chain is a function of the memory.
LEMMA OneChain ==
    ASSUME NEW s \in Chains, NEW t \in Chains, IsChain(s), IsChain(t)
    PROVE  s = t
<1>1. /\ Len(s) \in Nat /\ s \in [1 .. Len(s) -> Offset]
      /\ Len(t) \in Nat /\ t \in [1 .. Len(t) -> Offset]
  BY ChainType, MaxNodesAssumption
<1>2. \A n \in 1 .. Len(s) : n \in 1 .. Len(t) /\ s[n] = t[n]
  BY ChainsAgree
<1>3. \A n \in 1 .. Len(t) : n \in 1 .. Len(s)
  BY ChainsAgree
<1>4. Len(s) = Len(t)
  <2>1. Len(s) # 0 => Len(s) \in 1 .. Len(s) /\ Len(s) \in 1 .. Len(t)
    BY <1>1, <1>2
  <2>2. Len(t) # 0 => Len(t) \in 1 .. Len(t) /\ Len(t) \in 1 .. Len(s)
    BY <1>1, <1>3
  <2>3. Len(s) \in Nat /\ Len(t) \in Nat
    BY <1>1
  <2> QED BY <2>1, <2>2, <2>3
<1>5. \A n \in 1 .. Len(s) : s[n] = t[n]
  BY <1>2
<1>6. t \in [1 .. Len(s) -> Offset]
  BY <1>1, <1>4
<1> HIDE DEF Chains
<1> QED BY <1>1, <1>5, <1>6

\* The stack of a memory whose chain is known.
LEMMA StackOf ==
    ASSUME NEW s \in Chains, IsChain(s)
    PROVE  chain = s /\ stack = [i \in 1 .. Len(s) |-> nodes[s[i]].data]
<1>1. chain \in Chains /\ IsChain(chain)
  BY DEF chain
<1>2. chain = s
  BY <1>1, OneChain
<1>3. DOMAIN s = 1 .. Len(s)
  BY ChainType
<1> QED BY <1>2, <1>3 DEF stack

LEMMA StackOfAny ==
    \A s \in Chains :
       IsChain(s) => stack = [i \in 1 .. Len(s) |-> nodes[s[i]].data]
  BY StackOf

\* The same of the memory after a step.
LEMMA StackOfNext ==
    \A s \in Chains :
       IsChain(s)' => stack' = [i \in 1 .. Len(s) |-> nodes'[s[i]].data]
<1>1. (\A s \in Chains :
          IsChain(s) => stack = [i \in 1 .. Len(s) |-> nodes[s[i]].data])'
  BY StackOfAny, PTL
<1> QED BY <1>1

\* A step that writes only nodes that are not on the list keeps the stack.
LEMMA StackFrame ==
    ASSUME NEW s \in Chains, IsChain(s), head_offset' = head_offset,
           \A i \in 1 .. Len(s) : nodes'[s[i]] = nodes[s[i]]
    PROVE  stack' = stack
<1>1. IsChain(s)'
  BY DEF IsChain
<1>2. stack = [i \in 1 .. Len(s) |-> nodes[s[i]].data]
  BY StackOfAny
<1>3. stack' = [i \in 1 .. Len(s) |-> nodes'[s[i]].data]
  BY <1>1, StackOfNext
<1> QED BY <1>2, <1>3

-------------------------------------------------------------------------------
(* The calls, as the abstract stack sees them. *)

\* An instance between two calls is in no operation, and has no node before
\* it has taken one: what the mapping of the calls needs besides ControlInv.
RefInv ==
    \A p \in Proc :
       /\ pc[p] \in {"out", "menu", "batch"} => op[p] = "none"
       /\ pc[p] \in {"wait", "insert", "pop", "count", "print", "dump"}
          => cur[p] = NULL
       /\ pc[p] = "post" => op[p] \in Ops

\* The variable call of AtomicStack.
calls == [p \in Proc |-> callOf(p)]

\* How far an instance's call is, by where the instance is.
LEMMA CallAt ==
    ASSUME ControlInv, RefInv, NEW p \in Proc
    PROVE  /\ pc[p] \in {"out", "menu", "batch"} => callOf(p) = Stack!Idle
           /\ pc[p] \in {"wait", "insert", "link"} /\ op[p] = "insert"
              => callOf(p) = Stack!Called("insert", value[p])
           /\ pc[p] \in {"inc", "post"} /\ op[p] = "insert"
              => callOf(p) = Stack!Done("insert", value[p], cur[p] # NULL)
           /\ pc[p] \in {"wait", "pop"} /\ op[p] = "pop"
              => callOf(p) = Stack!Called("pop", 0)
           /\ pc[p] \in {"dec", "free", "post"} /\ op[p] = "pop"
              => callOf(p) = Stack!Done("pop", value[p], cur[p] # NULL)
           /\ pc[p] \in {"wait", "count", "print", "dump", "walk"}
                 /\ op[p] \in {"count", "print", "dump"}
              => callOf(p) = Stack!Called("size", 0)
           /\ pc[p] = "post" /\ op[p] \in {"count", "print", "dump"}
              => callOf(p) = Stack!Done("size", seen[p], TRUE)
  BY DEF callOf, Stack!Idle, Stack!Called, Stack!Done, ControlInv, RefInv

\* An instance that did not move has the same call.
LEMMA CallFrame ==
    ASSUME NEW p \in Proc, pc'[p] = pc[p], op'[p] = op[p], value'[p] = value[p],
           cur'[p] = cur[p], seen'[p] = seen[p]
    PROVE  callOf(p)' = callOf(p)
  BY DEF callOf

LEMMA InitRefInv == Init => RefInv
  BY DEF Init, RefInv

LEMMA RefStep ==
    ASSUME TypeOK, ControlInv, RefInv, [Next]_vars
    PROVE  RefInv'
<1> USE DEF RefInv
<1>1. ASSUME NEW p \in Proc, User(p) \/ Kill(p)
      PROVE  RefInv'
  BY <1>1 DEF TypeOK, User, Kill, Start, Choose, ChooseMany, NextOfBatch, Leave,
              Call, At, Goto, locals, shared
<1>2. ASSUME NEW p \in Proc, Acquire(p)
      PROVE  RefInv'
  BY <1>2 DEF Acquire, At, Goto, TypeOK, ControlInv, shared, locals, Ops
<1>3. ASSUME NEW p \in Proc, Critical(p)
      PROVE  RefInv'
  <2> USE DEF TypeOK, ControlInv, At, Goto, Ops, shared, locals
  <2>1. CASE allocate_node(p)
    <3>1. PICK l \in {"link", "post"} : pc' = [pc EXCEPT ![p] = l]
      BY <2>1 DEF allocate_node
    <3>2. op[p] = "insert" /\ op' = op /\ \A q \in Proc \ {p} : cur'[q] = cur[q]
      BY <2>1 DEF allocate_node
    <3> QED BY <3>1, <3>2
  <2>5. CASE Link(p) \/ IncCount(p)
    BY <2>5 DEF Link, IncCount
  <2>2. CASE Unlink(p) \/ DecCount(p) \/ free_node(p)
    BY <2>2 DEF Unlink, DecCount, free_node
  <2>3. CASE list_count(p) \/ list_print(p) \/ stampa_stato_memoria(p)
    BY <2>3 DEF list_count, list_print, stampa_stato_memoria
  <2>4. CASE Walk(p) \/ Post(p)
    BY <2>4 DEF Walk, Post
  <2> QED BY <1>3, <2>1, <2>2, <2>3, <2>4, <2>5 DEF Critical
<1>4. CASE UNCHANGED vars
  BY <1>4 DEF vars
<1> QED BY <1>1, <1>2, <1>3, <1>4 DEF Next

\* A step of one instance leaves the others where they are.
LEMMA OneSteps ==
    ASSUME TypeOK, NEW p \in Proc,
           User(p) \/ Acquire(p) \/ Critical(p) \/ Kill(p)
    PROVE  \A q \in Proc \ {p} :
              /\ pc'[q] = pc[q] /\ op'[q] = op[q] /\ value'[q] = value[q]
              /\ cur'[q] = cur[q] /\ seen'[q] = seen[q]
<1> USE DEF TypeOK, At, Goto, locals
<1>1. CASE User(p) \/ Acquire(p) \/ Kill(p)
  BY <1>1 DEF User, Acquire, Kill, Start, Choose, ChooseMany, NextOfBatch,
              Leave, Call
<1>2. CASE Critical(p)
  BY <1>2 DEF Critical, allocate_node, Link, IncCount, Unlink, DecCount,
     free_node, list_count, list_print, Walk, stampa_stato_memoria, Post
<1> QED BY <1>1, <1>2

\* What the others have called stays.
LEMMA OneCall ==
    ASSUME TypeOK, NEW p \in Proc,
           User(p) \/ Acquire(p) \/ Critical(p) \/ Kill(p)
    PROVE  /\ calls' = [calls EXCEPT ![p] = callOf(p)']
           /\ calls[p] = callOf(p)
           /\ callOf(p)' = callOf(p) => calls' = calls
<1>1. \A q \in Proc \ {p} : callOf(q)' = callOf(q)
  BY OneSteps, CallFrame
<1> QED BY <1>1 DEF calls

-------------------------------------------------------------------------------
(* Every action is a step of the abstract stack, or a stutter. *)

Refines == [Stack!Next]_<<stack, calls>>

\* The user's steps: a call is invoked, or nothing the stack's user sees.
LEMMA UserRefines ==
    ASSUME IInv, RefInv, RefInv', ControlInv', NEW p \in Proc, User(p) \/ Kill(p)
    PROVE  Refines
<1> USE DEF IInv
<1>1. stack' = stack
  <2>1. PICK s \in Chains : IsChain(s)
    BY DEF ListInv
  <2> QED BY <2>1, StackFrame, OutsideStep DEF shared
<1>2. CASE callOf(p)' = callOf(p)
  BY <1>1, <1>2, OneCall DEF Refines
<1>3. CASE Kill(p) \/ ChooseMany(p) \/ Leave(p)
  <2>1. callOf(p)' = callOf(p)
    <3>1. CASE Kill(p)
      BY <3>1, CallFrame DEF Kill, locals
    <3>2. CASE ChooseMany(p) \/ Leave(p)
      <4>1. /\ pc[p] \in {"out", "menu", "batch"}
            /\ pc'[p] \in {"out", "menu", "batch"} /\ op'[p] = "none"
        BY <3>2 DEF ChooseMany, Leave, At, Goto, TypeOK, RefInv, locals
      <4>2. callOf(p) = Stack!Idle
        BY <4>1, CallAt
      <4>3. callOf(p)' = Stack!Idle
        BY <4>1 DEF callOf, Stack!Idle
      <4> QED BY <4>2, <4>3
    <3> QED BY <1>3, <3>1, <3>2
  <2> QED BY <1>2, <2>1
<1>4. ASSUME NEW o \in Ops, NEW v \in Values \cup {0}, Call(p, o, v),
             o = "insert" => v \in Values, pc[p] \in {"out", "menu", "batch"}
      PROVE  Refines
  <2>1. callOf(p) = Stack!Idle
    BY <1>4, CallAt
  <2>2. pc'[p] = "wait" /\ op'[p] = o /\ value'[p] = v
    BY <1>4 DEF Call, Goto, TypeOK
  <2>3. callOf(p)' = IF o = "insert" THEN Stack!Called("insert", v)
                     ELSE IF o = "pop" THEN Stack!Called("pop", 0)
                     ELSE Stack!Called("size", 0)
    BY <2>2 DEF callOf, Stack!Called, Ops
  <2>4. Stack!Invoke(p)
    <3>1. calls[p].st = "idle"
      BY <2>1, OneCall, <1>4 DEF Stack!Idle
    <3>2. calls' = [calls EXCEPT ![p] = callOf(p)']
      BY OneCall
    <3> QED BY <1>1, <1>4, <2>3, <3>1, <3>2 DEF Stack!Invoke, calls
  <2> QED BY <2>4 DEF Refines, Stack!Next
<1>5. CASE Start(p)
  BY <1>4, <1>5 DEF Start, At, Ops
<1>6. CASE Choose(p)
  BY <1>4, <1>6 DEF Choose, At, Ops
<1>7. CASE NextOfBatch(p)
  <2>1. CASE UNCHANGED <<shared, mutex, pc, alive, op, value, cur, seen>>
    BY <1>2, <2>1, CallFrame
  <2> QED BY <1>4, <1>7, <2>1 DEF NextOfBatch, At, Ops
<1> QED BY <1>3, <1>5, <1>6, <1>7 DEF User

\* Getting the lock is not seen.
LEMMA AcquireRefines ==
    ASSUME IInv, RefInv, NEW p \in Proc, Acquire(p)
    PROVE  Refines
<1> USE DEF IInv
<1>1. stack' = stack
  <2>1. PICK s \in Chains : IsChain(s)
    BY DEF ListInv
  <2> QED BY <2>1, StackFrame DEF Acquire, shared
<1>2. /\ pc[p] = "wait" /\ op[p] \in Ops /\ pc'[p] = op[p]
      /\ op'[p] = op[p] /\ value'[p] = value[p]
  BY DEF Acquire, At, Goto, TypeOK, locals, ControlInv
<1>3. callOf(p)' = callOf(p)
  BY <1>2 DEF callOf, Ops
<1> QED BY <1>1, <1>3, OneCall DEF Refines

\* The steps inside a critical section that the stack does not see.
LEMMA SilentRefines ==
    ASSUME IInv, NEW p \in Proc,
           IncCount(p) \/ DecCount(p) \/ free_node(p) \/ list_print(p)
    PROVE  Refines
<1> USE DEF IInv
<1>1. Critical(p)
  BY DEF Critical
<1>2. \A q \in Proc : Holds(q) => q = p
  BY <1>1, CriticalHolds, Alone
<1>3. PICK s \in Chains : ListInv(s)
  OBVIOUS
<1>4. stack' = stack
  <2>1. CASE free_node(p)
    <3>1. pc[p] = "free" /\ cur[p] \in Offset
      BY <2>1 DEF free_node, At, ControlInv
    <3>2. InHand = {cur[p]}
      BY <1>2, <3>1, HandOf
    <3>3. \A i \in 1 .. Len(s) : s[i] # cur[p]
      BY <1>3, <3>2 DEF ListInv, Accounts
    <3>4. \A i \in 1 .. Len(s) : s[i] \in Offset
      BY ChainType
    <3>5. head_offset' = head_offset
          /\ \A i \in 1 .. Len(s) : nodes'[s[i]] = nodes[s[i]]
      BY <2>1, <3>3, <3>4 DEF free_node, TypeOK
    <3> QED BY <1>3, <3>5, StackFrame DEF ListInv
  <2>2. CASE ~free_node(p)
    BY <1>3, <2>2, StackFrame DEF ListInv, IncCount, DecCount, list_print, shared
  <2> QED BY <2>1, <2>2
<1>5. callOf(p)' = callOf(p)
  <2>1. CASE IncCount(p)
    <3>1. /\ pc[p] = "inc" /\ pc'[p] = "post" /\ op[p] = "insert"
          /\ op'[p] = op[p] /\ value'[p] = value[p] /\ cur'[p] = cur[p]
      BY <2>1 DEF IncCount, At, Goto, TypeOK, locals, ControlInv
    <3> QED BY <3>1 DEF callOf
  <2>2. CASE DecCount(p)
    <3>1. /\ pc[p] = "dec" /\ pc'[p] = "free" /\ op[p] = "pop"
          /\ op'[p] = op[p] /\ value'[p] = value[p] /\ cur'[p] = cur[p]
      BY <2>2 DEF DecCount, At, Goto, TypeOK, locals, ControlInv
    <3> QED BY <3>1 DEF callOf
  <2>3. CASE free_node(p)
    <3>1. /\ pc[p] = "free" /\ pc'[p] = "post" /\ op[p] = "pop"
          /\ op'[p] = op[p] /\ value'[p] = value[p] /\ cur'[p] = cur[p]
      BY <2>3 DEF free_node, At, Goto, TypeOK, locals, ControlInv
    <3> QED BY <3>1 DEF callOf
  <2>4. CASE list_print(p)
    <3>1. /\ pc[p] = "print" /\ pc'[p] = "walk" /\ op[p] = "print"
          /\ op'[p] = op[p]
      BY <2>4 DEF list_print, At, Goto, TypeOK, ControlInv
    <3> QED BY <3>1 DEF callOf
  <2> QED BY <2>1, <2>2, <2>3, <2>4
<1> QED BY <1>1, <1>4, <1>5, OneCall DEF Refines

\* The length of the stack is that of the chain.
LEMMA StackLength ==
    ASSUME NEW s \in Chains, IsChain(s)
    PROVE  /\ stack \in Seq({nodes[s[i]].data : i \in 1 .. Len(s)})
           /\ Len(stack) = Len(s)
<1>1. Len(s) \in Nat
  BY ChainType, MaxNodesAssumption
<1>2. stack \in [1 .. Len(s) -> {nodes[s[i]].data : i \in 1 .. Len(s)}]
  BY StackOfAny
<1> QED BY <1>1, <1>2, SeqOfLength

\* Counting, the end of a listing and the memory report take effect at once.
LEMMA SizeRefines ==
    ASSUME IInv, RefInv, ReportsAgree', NEW p \in Proc,
           list_count(p) \/ Walk(p) \/ stampa_stato_memoria(p)
    PROVE  Refines
<1> USE DEF IInv
<1>1. Critical(p)
  BY DEF Critical
<1>2. \A q \in Proc : Holds(q) => q = p
  BY <1>1, CriticalHolds, Alone
<1>3. PICK s \in Chains : ListInv(s)
  OBVIOUS
<1>4. stack' = stack /\ count' = count
  BY <1>3, StackFrame DEF ListInv, list_count, Walk, stampa_stato_memoria, shared
<1>5. /\ pc[p] \in {"count", "walk", "dump"} /\ op'[p] = op[p]
      /\ op[p] \in {"count", "print", "dump"}
      /\ pc'[p] = "post" \/ (pc[p] = "walk" /\ pc'[p] = "walk")
  BY DEF list_count, Walk, stampa_stato_memoria, At, Goto, TypeOK, ControlInv
<1>6. callOf(p) = Stack!Called("size", 0)
  BY <1>5, CallAt
<1>7. CASE pc'[p] = "walk"
  <2>1. callOf(p)' = Stack!Called("size", 0)
    BY <1>5, <1>7 DEF callOf, Stack!Called
  <2> QED BY <1>1, <1>4, <1>6, <2>1, OneCall DEF Refines
<1>8. CASE pc'[p] = "post"
  <2>1. seen'[p] = count
    BY <1>4, <1>5, <1>8 DEF ReportsAgree
  <2>2. count = Len(stack)
    <3>1. Lag = 0
      BY <1>2, <1>5, HandOf
    <3>2. Len(s) \in Nat
      BY ChainType, MaxNodesAssumption
    <3>3. count = Len(s) - Lag /\ Len(stack) = Len(s)
      BY <1>3, StackLength DEF ListInv, Accounts
    <3> QED BY <3>1, <3>2, <3>3
  <2>3. callOf(p)' = Stack!Done("size", Len(stack), TRUE)
    BY <1>5, <1>8, <2>1, <2>2 DEF callOf, Stack!Done
  <2>4. Stack!Size(p)
    <3>1. calls[p].st = "called" /\ calls[p].op = "size"
      BY <1>1, <1>6, OneCall DEF Stack!Called
    <3>2. calls' = [calls EXCEPT ![p] = Stack!Done("size", Len(stack), TRUE)]
      BY <1>1, <2>3, OneCall
    <3> QED BY <1>4, <3>1, <3>2 DEF Stack!Size, calls
  <2> QED BY <2>4 DEF Refines, Stack!Next
<1> QED BY <1>5, <1>7, <1>8

\* The lock is given back: the call returns.
LEMMA PostRefines ==
    ASSUME IInv, RefInv, NEW p \in Proc, Post(p)
    PROVE  Refines
<1> USE DEF IInv
<1>1. Critical(p)
  BY DEF Critical
<1>2. stack' = stack
  <2>1. PICK s \in Chains : IsChain(s)
    BY DEF ListInv
  <2> QED BY <2>1, StackFrame DEF Post, shared
<1>3. /\ pc[p] = "post" /\ op[p] \in Ops
      /\ pc'[p] \in {"menu", "batch"} /\ op'[p] = "none"
  BY DEF Post, At, Goto, TypeOK, RefInv
<1>4. callOf(p).st = "done"
  BY <1>3, CallAt DEF Ops, Stack!Done
<1>5. callOf(p)' = Stack!Idle
  BY <1>3 DEF callOf, Stack!Idle
<1>6. Stack!Return(p)
  BY <1>1, <1>2, <1>4, <1>5, OneCall DEF Stack!Return, calls
<1> QED BY <1>6 DEF Refines, Stack!Next

\* A node is taken from the pool, or the pool is full: every node is then on
\* the list, since nothing is in hand.
LEMMA AllocateRefines ==
    ASSUME IInv, RefInv, NEW p \in Proc, allocate_node(p)
    PROVE  Refines
<1> USE DEF IInv
<1>1. Critical(p)
  BY DEF Critical
<1>2. \A q \in Proc : Holds(q) => q = p
  BY <1>1, CriticalHolds, Alone
<1>3. PICK s \in Chains : ListInv(s)
  OBVIOUS
<1>4. /\ pc[p] = "insert" /\ op[p] = "insert" /\ cur[p] = NULL
      /\ op'[p] = op[p] /\ value'[p] = value[p]
  BY DEF allocate_node, At, ControlInv, RefInv
<1>5. InHand = {}
  BY <1>2, <1>4, HandOf
<1>6. \A o \in Offset : nodes[o].is_free <=> o \notin {s[i] : i \in 1 .. Len(s)}
  BY <1>3, <1>5 DEF ListInv, Accounts
<1>7. Len(s) \in Nat /\ s \in [1 .. Len(s) -> Offset]
  BY ChainType, MaxNodesAssumption
<1>8. callOf(p) = Stack!Called("insert", value[p])
  BY <1>4, CallAt
<1>9. ASSUME NEW o \in Offset, nodes[o].is_free, pc' = [pc EXCEPT ![p] = "link"],
             nodes' = [nodes EXCEPT ![o].is_free = FALSE, ![o].next_offset = NULL]
      PROVE  Refines
  <2>1. \A i \in 1 .. Len(s) : s[i] # o /\ s[i] \in Offset
    BY <1>6, <1>7, <1>9
  <2>2. \A i \in 1 .. Len(s) : nodes'[s[i]] = nodes[s[i]]
    BY <1>9, <2>1 DEF TypeOK
  <2>3. stack' = stack
    BY <1>3, <2>2, StackFrame DEF ListInv, allocate_node
  <2>4. pc'[p] = "link"
    BY <1>9 DEF TypeOK
  <2>5. callOf(p)' = Stack!Called("insert", value[p])
    BY <1>4, <2>4 DEF callOf, Stack!Called
  <2> QED BY <1>1, <1>8, <2>3, <2>5, OneCall DEF Refines
<1>10. CASE (\A o \in Offset : ~nodes[o].is_free) /\ Goto(p, "post")
            /\ UNCHANGED <<nodes, cur>>
  <2>1. stack' = stack
    BY <1>3, <1>10, StackFrame DEF ListInv, allocate_node
  <2>2. Len(stack) = MAX_NODES
    <3>1. {s[i] : i \in 1 .. Len(s)} = Offset
      BY <1>6, <1>7, <1>10
    <3>2. Cardinality(Offset) = MAX_NODES
      BY FS_Interval, MaxNodesAssumption DEF Offset
    <3>3. Cardinality({s[i] : i \in 1 .. Len(s)}) = Len(s)
      <4>1. \A i, j \in 1 .. Len(s) : s[i] = s[j] => i = j
        BY <1>3 DEF ListInv, IsChain
      <4> QED BY <1>7, <4>1, RangeSize
    <3>4. Len(stack) = Len(s)
      BY <1>3, StackLength DEF ListInv
    <3> QED BY <3>1, <3>2, <3>3, <3>4
  <2>3. pc'[p] = "post" /\ cur'[p] = NULL
    BY <1>4, <1>10 DEF TypeOK, Goto
  <2>4. callOf(p)' = Stack!Done("insert", value[p], FALSE)
    BY <1>4, <2>3 DEF callOf, Stack!Done
  <2>5. Stack!Insert(p)
    <3>1. /\ calls[p].st = "called" /\ calls[p].op = "insert"
          /\ calls[p].val = value[p]
      BY <1>1, <1>8, OneCall DEF Stack!Called
    <3>2. calls' = [calls EXCEPT ![p] = Stack!Done("insert", value[p], FALSE)]
      BY <1>1, <2>4, OneCall
    <3> QED BY <2>1, <2>2, <3>1, <3>2 DEF Stack!Insert, calls
  <2> QED BY <2>5 DEF Refines, Stack!Next
<1> QED BY <1>9, <1>10 DEF allocate_node, IsFirstFree, Goto

\* The node becomes the head: the element is pushed.
LEMMA LinkRefines ==
    ASSUME IInv, RefInv, NEW p \in Proc, Link(p)
    PROVE  Refines
<1> USE DEF IInv
<1>1. Critical(p)
  BY DEF Critical
<1>2. \A q \in Proc : Holds(q) => q = p
  BY <1>1, CriticalHolds, Alone
<1>3. PICK s \in Chains : ListInv(s)
  OBVIOUS
<1> DEFINE o == cur[p]
<1>4. /\ pc[p] = "link" /\ op[p] = "insert" /\ o \in Offset /\ o # NULL
      /\ pc'[p] = "inc" /\ op'[p] = "insert" /\ value'[p] = value[p]
      /\ cur'[p] = o /\ head_offset' = o
  BY MaxNodesAssumption
     DEF Link, At, Goto, ControlInv, locals, TypeOK, Offset, NULL
<1>5. /\ nodes'[o].data = value[p] /\ nodes'[o].next_offset = head_offset
      /\ \A i \in Offset : i # o => nodes'[i] = nodes[i]
  BY <1>4 DEF Link, TypeOK
<1> HIDE DEF o
<1>6. Len(s) \in Nat /\ s \in [1 .. Len(s) -> Offset]
  BY ChainType, MaxNodesAssumption
<1>7. \A i \in 1 .. Len(s) : s[i] # o
  BY <1>2, <1>3, <1>4, HandOf DEF ListInv, Accounts, o
<1>8. PICK t \in Chains : /\ Len(t) = Len(s) + 1 /\ t[1] = o
                          /\ \A i \in 1 .. Len(s) : t[i + 1] = s[i]
                          /\ \A i, j \in 1 .. Len(t) : t[i] = t[j] => i = j
  BY <1>3, <1>4, <1>7, PushChain DEF ListInv, IsChain
<1>9. \A i \in 1 .. Len(t) : i = 1 \/ (i - 1 \in 1 .. Len(s) /\ t[i] = s[i - 1])
  <2> TAKE i \in 1 .. Len(t)
  <2>1. i \in Int /\ i >= 1 /\ i <= Len(s) + 1
    BY <1>6, <1>8
  <2>2. i # 1 => i - 1 \in 1 .. Len(s) /\ (i - 1) + 1 = i
    BY <1>6, <2>1
  <2> QED BY <1>8, <2>2
<1>10. IsChain(t)'
  <2>1. head_offset' = IF Len(t) = 0 THEN NULL ELSE t[1]
    BY <1>4, <1>6, <1>8
  <2>2. nodes'[t[1]].next_offset = IF 1 = Len(t) THEN NULL ELSE t[1 + 1]
    <3>1. Len(s) # 0 => 1 \in 1 .. Len(s)
      BY <1>6
    <3>2. 1 = Len(t) <=> Len(s) = 0
      BY <1>6, <1>8
    <3> QED BY <1>3, <1>5, <1>8, <3>1, <3>2 DEF ListInv, IsChain
  <2>3. \A i \in 1 .. Len(s) : nodes'[s[i]].next_offset
                               = IF i = Len(s) THEN NULL ELSE s[i + 1]
    <3> TAKE i \in 1 .. Len(s)
    <3>1. s[i] \in Offset /\ s[i] # o
      BY <1>6, <1>7
    <3>2. nodes[s[i]].next_offset = IF i = Len(s) THEN NULL ELSE s[i + 1]
      BY <1>3 DEF ListInv, IsChain
    <3> QED BY <1>5, <3>1, <3>2
  <2>4. \A i \in 1 .. Len(t) : i # 1 =>
           nodes'[t[i]].next_offset = IF i = Len(t) THEN NULL ELSE t[i + 1]
    <3> TAKE i \in 1 .. Len(t)
    <3> HAVE i # 1
    <3> DEFINE k == i - 1
    <3>1. k \in 1 .. Len(s) /\ t[i] = s[k] /\ i = k + 1
      BY <1>9
    <3>2. i = Len(t) <=> k = Len(s)
      BY <1>6, <1>8, <3>1
    <3>3. k # Len(s) => k + 1 \in 1 .. Len(s)
      BY <1>6, <3>1
    <3>4. k # Len(s) => t[i + 1] = s[k + 1]
      BY <1>8, <3>1, <3>3
    <3> QED BY <2>3, <3>1, <3>2, <3>4
  <2> QED BY <1>8, <2>1, <2>2, <2>4 DEF IsChain
<1>11. stack' = <<value[p]>> \o stack
  <2>1. stack = [i \in 1 .. Len(s) |-> nodes[s[i]].data]
    BY <1>3, StackOfAny DEF ListInv
  <2>2. stack' = [i \in 1 .. Len(t) |-> nodes'[t[i]].data]
    BY <1>10, StackOfNext
  <2> DEFINE D == Values \cup {0, -1}
  <2>3. stack \in Seq(D) /\ Len(stack) = Len(s)
    <3>1. stack \in [1 .. Len(s) -> D]
      BY <1>6, <2>1 DEF TypeOK
    <3> HIDE DEF D
    <3> QED BY <1>6, <3>1, SeqOfLength
  <2>4. value[p] \in D
    BY DEF TypeOK
  <2>5. \A i \in 1 .. Len(t) : stack'[i] = IF i = 1 THEN value[p] ELSE stack[i - 1]
    <3>1. stack'[1] = value[p] /\ 1 \in 1 .. Len(t)
      BY <1>5, <1>6, <1>8, <2>2
    <3>2. \A i \in 1 .. Len(t) : i # 1 => stack'[i] = stack[i - 1]
      BY <1>5, <1>6, <1>7, <1>9, <2>1, <2>2
    <3> QED BY <3>1, <3>2
  <2>6. <<value[p]>> \o stack
        = [i \in 1 .. Len(s) + 1 |-> IF i = 1 THEN value[p] ELSE stack[i - 1]]
    <3> HIDE DEF D
    <3> QED BY <1>6, <2>3, <2>4
  <2> QED BY <1>8, <2>2, <2>5, <2>6
<1>12. callOf(p) = Stack!Called("insert", value[p])
  BY <1>4, CallAt
<1>13. callOf(p)' = Stack!Done("insert", value[p], TRUE)
  BY <1>4 DEF callOf, Stack!Done
<1>14. Len(stack) < MAX_NODES
  <2>1. Len(stack) = Len(s)
    BY <1>3, StackLength DEF ListInv
  <2>2. Len(t) \in 0 .. MAX_NODES
    BY ChainType
  <2> QED BY <1>6, <1>8, <2>1, <2>2, MaxNodesAssumption
<1>15. Stack!Insert(p)
  <2>1. /\ calls[p].st = "called" /\ calls[p].op = "insert"
        /\ calls[p].val = value[p]
    BY <1>1, <1>12, OneCall DEF Stack!Called
  <2>2. calls' = [calls EXCEPT ![p] = Stack!Done("insert", value[p], TRUE)]
    BY <1>1, <1>13, OneCall
  <2> QED BY <1>11, <1>14, <2>1, <2>2 DEF Stack!Insert, calls
<1> QED BY <1>15 DEF Refines, Stack!Next

\* The head is taken off: the element is popped, or there is none.
LEMMA UnlinkRefines ==
    ASSUME IInv, RefInv, NEW p \in Proc, Unlink(p)
    PROVE  Refines
<1> USE DEF IInv
<1>1. Critical(p)
  BY DEF Critical
<1>2. PICK s \in Chains : ListInv(s)
  OBVIOUS
<1>3. Len(s) \in Nat /\ s \in [1 .. Len(s) -> Offset] /\ NULL \notin Offset
  BY ChainType, MaxNodesAssumption DEF Offset, NULL
<1>4. /\ pc[p] = "pop" /\ op[p] = "pop" /\ op'[p] = "pop" /\ cur[p] = NULL
      /\ nodes' = nodes
  BY DEF Unlink, At, ControlInv, RefInv
<1>5. callOf(p) = Stack!Called("pop", 0)
  BY <1>4, CallAt
<1>6. calls[p].st = "called" /\ calls[p].op = "pop"
  BY <1>1, <1>5, OneCall DEF Stack!Called
<1>7. stack = [i \in 1 .. Len(s) |-> nodes[s[i]].data]
  BY <1>2, StackOfAny DEF ListInv
<1>8. stack \in Seq(Values \cup {0, -1}) /\ Len(stack) = Len(s)
  <2> DEFINE D == Values \cup {0, -1}
  <2>1. stack \in [1 .. Len(s) -> D]
    BY <1>3, <1>7 DEF TypeOK
  <2> HIDE DEF D
  <2>2. stack \in Seq(D) /\ Len(stack) = Len(s)
    BY <1>3, <2>1, SeqOfLength
  <2> QED BY <2>2 DEF D
<1>9. Len(s) = 0 <=> head_offset = NULL
  BY <1>2, <1>3 DEF ListInv, IsChain
<1>10. CASE head_offset # NULL
  <2>1. /\ pc'[p] = "dec" /\ value'[p] = nodes[head_offset].data
        /\ cur'[p] = head_offset /\ head_offset' = nodes[head_offset].next_offset
    BY <1>10 DEF Unlink, Goto, TypeOK
  <2>2. Len(s) # 0 /\ 1 \in 1 .. Len(s) /\ head_offset = s[1]
    BY <1>2, <1>3, <1>9, <1>10 DEF ListInv, IsChain
  <2>3. PICK t \in Chains : /\ Len(t) = Len(s) - 1
                            /\ \A i \in 1 .. Len(t) : t[i] = s[i + 1]
                            /\ \A i, j \in 1 .. Len(t) : t[i] = t[j] => i = j
    BY <1>2, <2>2, PopChain DEF ListInv, IsChain
  <2>4. \A i \in 1 .. Len(t) : i + 1 \in 1 .. Len(s)
    BY <1>3, <2>3
  <2>5. IsChain(t)'
    <3>1. head_offset' = IF Len(t) = 0 THEN NULL ELSE t[1]
      <4>1. head_offset' = IF 1 = Len(s) THEN NULL ELSE s[1 + 1]
        BY <1>2, <2>1, <2>2 DEF ListInv, IsChain
      <4>2. Len(t) # 0 => 1 \in 1 .. Len(t)
        BY <1>3, <2>2, <2>3
      <4>3. Len(t) = 0 <=> 1 = Len(s)
        BY <1>3, <2>3
      <4> QED BY <2>3, <4>1, <4>2, <4>3
    <3>2. \A i \in 1 .. Len(t) : nodes[t[i]].next_offset
             = IF i = Len(t) THEN NULL ELSE t[i + 1]
      <4> TAKE i \in 1 .. Len(t)
      <4>1. nodes[s[i + 1]].next_offset
            = IF i + 1 = Len(s) THEN NULL ELSE s[(i + 1) + 1]
        BY <1>2, <2>4 DEF ListInv, IsChain
      <4>2. i = Len(t) <=> i + 1 = Len(s)
        BY <1>3, <2>3
      <4>3. i # Len(t) => i + 1 \in 1 .. Len(t)
        <5>1. Len(t) \in Int /\ i \in 1 .. Len(t)
          BY <1>3, <2>3
        <5> QED BY <5>1
      <4> QED BY <2>3, <4>1, <4>2, <4>3
    <3> QED BY <1>4, <2>3, <3>1, <3>2 DEF IsChain
  <2>6. stack' = [i \in 1 .. Len(t) |-> nodes[t[i]].data]
    BY <1>4, <2>5, StackOfNext
  <2>7. stack # <<>> /\ Head(stack) = value'[p]
    <3>1. stack # <<>>
      BY <1>8, <2>2
    <3>2. Head(stack) = stack[1]
      BY <1>8, <3>1
    <3> QED BY <1>7, <2>1, <2>2, <3>1, <3>2
  <2>8. stack' = Tail(stack)
    <3> DEFINE D == Values \cup {0, -1}
    <3>1. /\ Tail(stack) \in Seq(D) /\ Len(Tail(stack)) = Len(s) - 1
          /\ \A i \in 1 .. Len(Tail(stack)) : Tail(stack)[i] = stack[i + 1]
      BY <1>8, <2>7, HeadTailProperties
    <3>2. \A i \in 1 .. Len(t) : nodes[t[i]].data = stack[i + 1]
      BY <1>7, <2>3, <2>4
    <3>3. stack' \in Seq(D) /\ Len(stack') = Len(t)
      <4>1. stack' \in [1 .. Len(t) -> D]
        BY <1>3, <2>3, <2>4, <2>6 DEF TypeOK
      <4>2. Len(t) \in Nat
        BY <1>3, <2>2, <2>3
      <4> HIDE DEF D
      <4> QED BY <4>1, <4>2, SeqOfLength
    <3>4. \A i \in 1 .. Len(t) : stack'[i] = Tail(stack)[i]
      BY <2>3, <2>6, <3>1, <3>2
    <3> HIDE DEF D
    <3> QED BY <2>3, <3>1, <3>3, <3>4, SeqEqual
  <2>9. callOf(p)' = Stack!Done("pop", Head(stack), TRUE)
    <3>1. cur'[p] # NULL
      BY <1>10, <2>1
    <3> QED BY <1>4, <2>1, <2>7, <3>1 DEF callOf, Stack!Done
  <2>10. calls' = [calls EXCEPT ![p] = Stack!Done("pop", Head(stack), TRUE)]
    BY <1>1, <2>9, OneCall
  <2>11. Stack!Pop(p)
    BY <1>6, <2>7, <2>8, <2>10 DEF Stack!Pop, calls
  <2> QED BY <2>11 DEF Refines, Stack!Next
<1>11. CASE head_offset = NULL
  <2>1. /\ pc'[p] = "post" /\ value'[p] = -1 /\ cur'[p] = NULL
        /\ head_offset' = head_offset
    BY <1>4, <1>11 DEF Unlink, Goto, TypeOK
  <2>2. stack = <<>>
    BY <1>8, <1>9, <1>11, EmptySeq
  <2>3. stack' = stack
    BY <1>2, <1>4, <2>1, StackFrame DEF ListInv
  <2>4. callOf(p)' = Stack!Done("pop", -1, FALSE)
    BY <1>4, <2>1 DEF callOf, Stack!Done
  <2>5. calls' = [calls EXCEPT ![p] = Stack!Done("pop", -1, FALSE)]
    BY <1>1, <2>4, OneCall
  <2>6. Stack!Pop(p)
    BY <1>6, <2>2, <2>3, <2>5 DEF Stack!Pop, calls
  <2> QED BY <2>6 DEF Refines, Stack!Next
<1> QED BY <1>10, <1>11

\* At first the stack is empty and nobody has called.
LEMMA InitRefines == Init => Stack!Init
<1> SUFFICES ASSUME Init PROVE Stack!Init
  OBVIOUS
<1>1. IInv /\ RefInv
  BY InitIInv, InitRefInv
<1>2. PICK s \in Chains : ListInv(s)
  BY <1>1 DEF IInv
<1>3. Len(s) \in Nat /\ s \in [1 .. Len(s) -> Offset] /\ NULL \notin Offset
  BY ChainType, MaxNodesAssumption DEF Offset, NULL
<1>4. Len(s) = 0
  BY <1>2, <1>3 DEF ListInv, IsChain, Init
<1>5. stack = <<>>
  BY <1>2, <1>4, StackLength, EmptySeq DEF ListInv
<1>6. \A p \in Proc : callOf(p) = Stack!Idle
  <2>1. \A p \in Proc : pc[p] \in {"out", "menu", "batch"}
    BY DEF Init
  <2> QED BY <1>1, <2>1, CallAt DEF IInv
<1> QED BY <1>5, <1>6 DEF Stack!Init

LEMMA NextRefines ==
    ASSUME IInv, IInv', RefInv, RefInv', [Next]_vars
    PROVE  Refines
<1>1. ASSUME NEW p \in Proc, User(p) \/ Kill(p)
      PROVE  Refines
  BY <1>1, UserRefines DEF IInv
<1>2. ASSUME NEW p \in Proc, Critical(p)
      PROVE  Refines
  <2>1. CASE \/ allocate_node(p) \/ Link(p) \/ IncCount(p) \/ Unlink(p)
             \/ DecCount(p) \/ free_node(p)
    BY <2>1, AllocateRefines, LinkRefines, UnlinkRefines, SilentRefines
  <2>2. CASE \/ list_count(p) \/ list_print(p) \/ Walk(p)
             \/ stampa_stato_memoria(p) \/ Post(p)
    BY <2>2, SizeRefines, SilentRefines, PostRefines DEF IInv
  <2> QED BY <1>2, <2>1, <2>2 DEF Critical
<1>3. CASE UNCHANGED vars
  <2>1. PICK s \in Chains : IsChain(s)
    BY DEF IInv, ListInv
  <2>2. stack' = stack
    BY <1>3, <2>1, StackFrame DEF vars
  <2>3. calls' = calls
    BY <1>3, CallFrame DEF vars, calls
  <2> QED BY <2>2, <2>3 DEF Refines
<1> QED BY <1>1, <1>2, <1>3, AcquireRefines DEF Next

\* Whatever instances run and wherever one is killed, the list is a stack whose
\* operations are atomic: it implements AtomicStack step by step.
THEOREM ListIsAStack == Spec => ImplementsStack
<1>1. Spec => [](IInv /\ RefInv)
  <2>1. IInv /\ RefInv /\ [Next]_vars => (IInv /\ RefInv)'
    BY RefStep, ControlStep, MutexStep, ListStep, TypeStep, ReportStep DEF IInv
  <2> QED BY <2>1, InitIInv, InitRefInv, PTL DEF Spec
<1>2. Spec => Stack!Init
  BY InitRefines DEF Spec
<1>3. IInv /\ IInv' /\ RefInv /\ RefInv' /\ [Next]_vars => Refines
  BY NextRefines
<1>4. Spec => [][Stack!Next]_<<stack, calls>>
  BY <1>1, <1>3, PTL DEF Spec, Refines
<1> QED BY <1>2, <1>4, PTL DEF ImplementsStack, Stack!Spec, calls
================================================================================
