---------------------------- MODULE ForkingProofs ----------------------------
(***************************************************************************)
(* The two programs whose parent forks its children and reaps them when     *)
(* SIGCHLD comes.                                                          *)
(* The rotation of processes, for any number of workers, size of the buffer *)
(* and lengths of words: no byte is written outside the buffer, and what    *)
(* the handler of Ctrl-C copies without a lock, in several steps, is whole  *)
(* words in strict rotation.                                               *)
(* The path server, for any tree, clients and requests: a listing agrees    *)
(* with the tree that changed under the search, but for what stat may fail  *)
(* to examine, and every client gets the answers to its own requests, in    *)
(* step.                                                                   *)
(***************************************************************************)
EXTENDS TurnRotation, PathServer, FiniteSetTheorems, SequenceTheorems, TLAPS

-------------------------------------------------------------------------------
(* The rotation: semaphores, room in the buffer and the parent's count.    *)

\* Where a worker has the inner semaphore, and where it has the outer one.
Inner == {"check", "space", "memcpy", "advance", "count", "pass", "skip", "full"}
Outer == Inner \cup {"mutex", "post", "post_full"}

\* A semaphore is free only if nobody has it, and one worker at most has it.
SemInv ==
    /\ \A p, q \in Worker : pc[p] \in Inner /\ pc[q] \in Inner => p = q
    /\ \A p, q \in Worker : pc[p] \in Outer /\ pc[q] \in Outer => p = q
    /\ mutex_sem = 1 => \A p \in Worker : pc[p] \notin Inner
    /\ turn_sem = 1 => \A p \in Worker : pc[p] \notin Outer

\* From the test on there is room for the separator, the word and the NUL.
RoomInv ==
    \A p \in Worker :
        /\ pc[p] \in {"space", "memcpy", "advance"} => word[p] \in WordLen
        /\ At(p, "space") => current_pos + word[p] + 1 < SHARED_MEM_SIZE
        /\ pc[p] \in {"memcpy", "advance"} => current_pos + word[p] < SHARED_MEM_SIZE

\* The parent counts workers that have ended, once it has started them all.
Dead == {p \in Worker : pc[p] \in {"ended", "exit"}}
ReapInv == reaped <= Cardinality(Dead) /\ (At(MAIN, "fork") => reaped = 0)

IInv == TypeOK /\ SemInv /\ RoomInv /\ ReapInv

LEMMA Family ==
    /\ MAIN \notin Worker /\ MAIN \in Process /\ Worker \subseteq Process
    /\ 0 \in Worker /\ 0 \in Cell
    /\ WordLen \subseteq Nat /\ NUL \notin Worker /\ SPACE \notin Worker
    /\ UNSET \notin Worker \cup {NUL, SPACE}
  BY SizesAssumption DEF MAIN, Worker, Process, Cell, NUL, SPACE, UNSET

LEMMA Words == \A n \in WordLen : n \in Nat /\ n > 0
  BY SizesAssumption

LEMMA CellNat == \A c \in Cell : c \in Nat
  BY DEF Cell

LEMMA Fits ==
    ASSUME NEW c \in Cell, NEW n \in WordLen, c + n < SHARED_MEM_SIZE
    PROVE  c + n \in Cell
<1>1. c \in Nat /\ n \in Nat
  BY Family DEF Cell
<1> QED BY <1>1, SizesAssumption DEF Cell

LEMMA Next_turn == ASSUME turn \in Worker PROVE (turn + 1) % NUM_PROCESSES \in Worker
  BY SizesAssumption DEF Worker

LEMMA DeadCount ==
    ASSUME NEW S \in SUBSET Worker
    PROVE  /\ Cardinality(S) \in Nat /\ Cardinality(S) <= NUM_PROCESSES
           /\ Cardinality(S) = NUM_PROCESSES => S = Worker
           /\ \A T \in SUBSET S : Cardinality(T) <= Cardinality(S)
<1>1. IsFiniteSet(Worker) /\ Cardinality(Worker) = NUM_PROCESSES
  BY FS_Interval, SizesAssumption DEF Worker
<1>2. IsFiniteSet(S) /\ Cardinality(S) <= Cardinality(Worker)
      /\ (Cardinality(S) = Cardinality(Worker) => S = Worker)
  BY <1>1, FS_Subset
<1>3. Cardinality(S) \in Nat
  BY <1>2, FS_CardinalityType
<1>4. \A T \in SUBSET S : Cardinality(T) <= Cardinality(S)
  BY <1>2, FS_Subset
<1> QED BY <1>1, <1>2, <1>3, <1>4

\* A step that leaves the dead dead keeps the parent's count of them.
LEMMA DeadStay ==
    ASSUME Dead \subseteq Dead', TypeOK, TypeOK', ReapInv, reaped' = reaped,
           At(MAIN, "fork")' => At(MAIN, "fork")
    PROVE  ReapInv'
<1>1. Dead' \in SUBSET Worker
  BY DEF Dead
<1>2. Cardinality(Dead) <= Cardinality(Dead') /\ Cardinality(Dead') \in Nat
  BY <1>1, DeadCount
<1>3. Cardinality(Dead) \in Nat
  BY DeadCount DEF Dead
<1> QED BY <1>2, <1>3 DEF ReapInv, TypeOK

-------------------------------------------------------------------------------
LEMMA InitIInv == Init => IInv
<1> SUFFICES ASSUME Init PROVE IInv
  OBVIOUS
<1>1. TypeOK
  <2>1. /\ buffer \in [Cell -> Worker \cup {NUL, SPACE}]
        /\ pc \in [Process -> Labels] /\ word \in [Worker -> WordLen \cup {0}]
    BY DEF Init, Labels
  <2>2. /\ current_pos \in Cell /\ word_count \in Nat /\ turn \in Worker
        /\ mutex_sem \in {0, 1} /\ turn_sem \in {0, 1} /\ interrupted \in BOOLEAN
    BY Family DEF Init
  <2>3. forked \in 0 .. NUM_PROCESSES /\ reaped \in 0 .. NUM_PROCESSES
    BY SizesAssumption DEF Init
  <2>4. told \in [Process -> Nat]
        /\ temp_buffer \in [Process -> [Cell -> Worker \cup {NUL, SPACE, UNSET}]]
    BY DEF Init, Nothing_copied
  <2> QED BY <2>1, <2>2, <2>3, <2>4 DEF TypeOK
<1>2. SemInv /\ RoomInv
  BY Family DEF Init, SemInv, RoomInv, Inner, Outer, At
<1>3. Cardinality(Dead) \in Nat
  BY DeadCount DEF Dead
<1>4. ReapInv
  BY <1>3 DEF Init, ReapInv
<1> QED BY <1>1, <1>2, <1>4 DEF IInv

\* A worker's step: the three facts about workers.
LEMMA WorkerStep ==
    ASSUME TypeOK, SemInv, RoomInv, NEW p \in Worker, process_worker(p)
    PROVE  TypeOK' /\ SemInv' /\ RoomInv'
<1> USE Family DEF At, Goto, shared, sems, family, reports, TypeOK, SemInv, RoomInv, Labels
<1>1. CASE AwaitTurn(p)
  BY <1>1 DEF AwaitTurn, Inner, Outer
<1>2. CASE AwaitMutex(p)
  BY <1>2 DEF AwaitMutex, Inner, Outer
<1>3. CASE CheckTurn(p)
  <2>1. CASE pc' = [pc EXCEPT ![p] = "skip"] /\ word' = word
    BY <1>3, <2>1 DEF CheckTurn, Inner, Outer
  <2>2. CASE pc' = [pc EXCEPT ![p] = "full"] /\ word' = word
    BY <1>3, <2>2 DEF CheckTurn, Inner, Outer
  <2>3. ASSUME NEW n \in WordLen, ~(current_pos + n + 1 >= SHARED_MEM_SIZE),
               pc' = [pc EXCEPT ![p] = "space"], word' = [word EXCEPT ![p] = n]
        PROVE  TypeOK' /\ SemInv' /\ RoomInv'
    <3>1. TypeOK'
      BY <1>3, <2>3 DEF CheckTurn
    <3>2. SemInv'
      BY <1>3, <2>3 DEF CheckTurn, Inner, Outer
    <3>3. RoomInv'
      BY <1>3, <2>3, SizesAssumption DEF CheckTurn, Inner, Cell
    <3> QED BY <3>1, <3>2, <3>3
  <2> QED BY <1>3, <2>1, <2>2, <2>3 DEF CheckTurn
<1>4. CASE WriteSpace(p)
  <2>a. /\ current_pos \in Cell /\ word[p] \in WordLen /\ word[p] \in Nat
        /\ current_pos + word[p] + 1 < SHARED_MEM_SIZE
    BY <1>4 DEF WriteSpace
  <2>b. current_pos \in Nat /\ SHARED_MEM_SIZE \in Nat
    BY <2>a, SizesAssumption, CellNat
  <2>c. /\ current_pos + 1 \in Cell /\ current_pos + word[p] < SHARED_MEM_SIZE
        /\ current_pos + 1 + word[p] < SHARED_MEM_SIZE
    BY <2>a, <2>b DEF Cell
  <2>d. /\ current_pos' \in {current_pos, current_pos + 1}
        /\ buffer' \in [Cell -> Worker \cup {NUL, SPACE}]
        /\ UNCHANGED <<word_count, turn, mutex_sem, turn_sem, word, family>>
        /\ pc' = [pc EXCEPT ![p] = "memcpy"]
    BY <1>4 DEF WriteSpace
  <2>1. TypeOK'
    BY <2>a, <2>c, <2>d
  <2>2. SemInv'
    BY <1>4 DEF WriteSpace, Inner, Outer
  <2>e. current_pos' + word[p] < SHARED_MEM_SIZE
    BY <2>a, <2>b, <2>c, <2>d
  <2>f. ASSUME NEW q \in Worker, q # p PROVE pc[q] \notin {"space", "memcpy", "advance"}
    BY <1>4, <2>f DEF WriteSpace, Inner
  <2>3. RoomInv'
    BY <2>a, <2>d, <2>e, <2>f
  <2> QED BY <2>1, <2>2, <2>3
<1>5. CASE WriteWord(p)
  BY <1>5 DEF WriteWord, Inner, Outer, Cell
<1>6. CASE AdvancePos(p)
  <2>a. current_pos \in Cell /\ word[p] \in WordLen /\ current_pos + word[p] < SHARED_MEM_SIZE
    BY <1>6 DEF AdvancePos
  <2>0. current_pos + word[p] \in Cell
    BY <2>a, Fits
  <2>1. TypeOK'
    BY <1>6, <2>0 DEF AdvancePos
  <2>2. SemInv'
    BY <1>6 DEF AdvancePos, Inner, Outer
  <2>3. RoomInv'
    BY <1>6, SizesAssumption DEF AdvancePos, Inner, Cell
  <2> QED BY <2>1, <2>2, <2>3
<1>7. CASE CountWord(p)
  BY <1>7 DEF CountWord, Inner, Outer
<1>8. CASE PassTurn(p)
  BY <1>8, Next_turn DEF PassTurn, Inner, Outer
<1>9. CASE PostMutex(p)
  BY <1>9 DEF PostMutex, Inner, Outer
<1>10. CASE PostTurn(p)
  BY <1>10 DEF PostTurn, Inner, Outer
<1> QED BY <1>1, <1>2, <1>3, <1>4, <1>5, <1>6, <1>7, <1>8, <1>9, <1>10
     DEF process_worker
\* Only the parent's steps and signals change how many have ended.
LEMMA WorkerReap ==
    ASSUME TypeOK, ReapInv, TypeOK', NEW p \in Worker, process_worker(p)
    PROVE  ReapInv'
<1>1. Dead \subseteq Dead'
  BY Family DEF Dead, TypeOK, process_worker, At, Goto, AwaitTurn, AwaitMutex,
     CheckTurn, WriteSpace, WriteWord, AdvancePos, CountWord, PassTurn, PostMutex,
     PostTurn
<1>2. reaped' = reaped /\ pc'[MAIN] = pc[MAIN]
  BY Family DEF TypeOK, process_worker, At, Goto, AwaitTurn, AwaitMutex, CheckTurn,
     WriteSpace, WriteWord, AdvancePos, CountWord, PassTurn, PostMutex, PostTurn,
     family
<1> QED BY <1>1, <1>2, DeadStay DEF At

\* The handler leaves everything alone but where it is and its own data.
LEMMA HandlerLeaves ==
    ASSUME TypeOK, NEW p \in Process, sigint_handler(p)
    PROVE  /\ UNCHANGED <<shared, sems, word, interrupted, forked, reaped>>
           /\ pc[p] \notin {"unborn", "ended", "exit"}
           /\ pc'[p] \in Handler \cup {"exit"}
           /\ \A q \in Process \ {p} : pc'[q] = pc[q]
           /\ TypeOK'
<1>1. CASE PrintCount(p)
  BY <1>1 DEF PrintCount, HandlerStep, TypeOK, Goto, Labels, Handler, shared, sems
<1>2. CASE CopyText(p)
  <2> DEFINE copy == [c \in Cell |-> IF c < current_pos THEN buffer[c] ELSE UNSET]
  <2>1. copy \in [Cell -> Worker \cup {NUL, SPACE, UNSET}]
    BY DEF TypeOK
  <2>2. CASE current_pos > 0
    <3>1. /\ temp_buffer' \in [Process -> [Cell -> Worker \cup {NUL, SPACE, UNSET}]]
          /\ UNCHANGED <<told, shared, sems, word, interrupted, forked, reaped>>
          /\ At(p, "h_copy") /\ pc' = [pc EXCEPT ![p] = "h_nul"]
      <4>1. /\ temp_buffer' = [temp_buffer EXCEPT ![p] = copy]
            /\ UNCHANGED <<told, shared, sems, word, interrupted, forked, reaped>>
            /\ At(p, "h_copy") /\ pc' = [pc EXCEPT ![p] = "h_nul"]
        BY <1>2, <2>2 DEF CopyText, HandlerStep, Goto
      <4> HIDE DEF copy
      <4> QED BY <2>1, <4>1 DEF TypeOK
    <3> QED BY <3>1 DEF TypeOK, At, Labels, Handler, shared, sems
  <2>3. CASE current_pos = 0
    BY <1>2, <2>3
    DEF CopyText, HandlerStep, TypeOK, At, Goto, Labels, Handler, shared, sems
  <2> QED BY <1>2, <2>2, <2>3 DEF CopyText
<1>3. CASE EndText(p)
  BY <1>3 DEF EndText, HandlerStep, TypeOK, At, Goto, Labels, Handler, shared, sems
<1>4. CASE PrintText(p)
  BY <1>4
  DEF PrintText, HandlerStep, TypeOK, At, Goto, Labels, Handler, Nothing_copied, shared, sems
<1> QED BY <1>1, <1>2, <1>3, <1>4 DEF sigint_handler

LEMMA Step == IInv /\ [Next]_vars => IInv'
<1> SUFFICES ASSUME IInv, [Next]_vars PROVE IInv'
  OBVIOUS
<1> USE Family DEF At, Goto, shared, sems, family, reports
<1>1. ASSUME NEW p \in Worker, process_worker(p) PROVE IInv'
  BY <1>1, WorkerStep, WorkerReap DEF IInv
<1>2. CASE fork
  <2>0. /\ pc \in [Process -> Labels] /\ pc' \in [Process -> Labels]
        /\ forked' \in 0 .. NUM_PROCESSES
        /\ \A q \in Worker : pc'[q] # pc[q] => pc'[q] = "turn"
        /\ UNCHANGED <<shared, sems, word, interrupted, reaped, reports>>
    <3>1. pc \in [Process -> Labels] /\ forked \in 0 .. NUM_PROCESSES
      BY DEF IInv, TypeOK
    <3> QED BY <1>2, <3>1, SizesAssumption DEF fork, Labels, Worker
  <2>1. TypeOK'
    BY <2>0 DEF IInv, TypeOK
  <2>2. SemInv' /\ RoomInv'
    BY <2>0 DEF IInv, SemInv, RoomInv, Inner, Outer
  <2>3. Cardinality(Dead') \in Nat /\ reaped' = 0
    BY <1>2, DeadCount DEF fork, IInv, ReapInv, Dead
  <2>4. ReapInv'
    BY <2>3 DEF ReapInv
  <2> QED BY <2>1, <2>2, <2>4 DEF IInv
<1>3. CASE reap
  <2>a. reaped < Cardinality(Dead) /\ Dead' = Dead
    BY <1>3 DEF reap, Dead
  <2>b. Cardinality(Dead) \in Nat /\ Cardinality(Dead) <= NUM_PROCESSES
    BY DeadCount DEF Dead
  <2>c. reaped' \in 0 .. NUM_PROCESSES
    BY <1>3, <2>a, <2>b, SizesAssumption DEF reap, IInv, TypeOK
  <2>1. TypeOK' /\ Dead' = Dead
    BY <1>3, <2>a, <2>c DEF reap, IInv, TypeOK
  <2>2. SemInv' /\ RoomInv'
    BY <1>3 DEF reap, IInv, SemInv, RoomInv
  <2>3. ReapInv'
    BY <1>3, <2>1, DeadCount DEF reap, IInv, ReapInv, TypeOK, Dead
  <2> QED BY <2>1, <2>2, <2>3 DEF IInv
<1>4. CASE FinalCleanup
  <2>1. TypeOK'
    BY <1>4 DEF FinalCleanup, IInv, TypeOK, Labels
  <2>2. SemInv' /\ RoomInv'
    BY <1>4 DEF FinalCleanup, IInv, TypeOK, SemInv, RoomInv, Inner, Outer
  <2>3. Dead \subseteq Dead' /\ reaped' = reaped /\ ~At(MAIN, "fork")'
    BY <1>4 DEF FinalCleanup, IInv, TypeOK, Dead
  <2> QED BY <2>1, <2>2, <2>3, DeadStay DEF IInv
<1>5. CASE CtrlC
  <2>1. TypeOK' /\ SemInv' /\ RoomInv'
    BY <1>5 DEF CtrlC, IInv, TypeOK, SemInv, RoomInv, Inner, Outer
  <2>2. Dead' = Dead /\ reaped' = reaped /\ pc' = pc
    BY <1>5 DEF CtrlC, Dead
  <2> QED BY <2>1, <2>2, DeadStay DEF IInv
<1>6. ASSUME NEW p \in Process, sigint_handler(p) PROVE IInv'
  <2>0. /\ UNCHANGED <<shared, sems, word, reaped>> /\ TypeOK'
        /\ pc[p] \notin {"unborn", "ended", "exit"} /\ pc'[p] \in Handler \cup {"exit"}
        /\ \A q \in Process \ {p} : pc'[q] = pc[q]
    BY <1>6, HandlerLeaves DEF IInv
  <2>1. SemInv' /\ RoomInv'
    BY <2>0 DEF IInv, SemInv, RoomInv, Inner, Outer, Handler
  <2>2. Dead \subseteq Dead' /\ reaped' = reaped /\ (At(MAIN, "fork")' => At(MAIN, "fork"))
    BY <2>0 DEF Dead, Handler
  <2> QED BY <2>0, <2>1, <2>2, DeadStay DEF IInv
<1>7. CASE UNCHANGED vars
  BY <1>7 DEF vars, IInv, TypeOK, SemInv, RoomInv, ReapInv, Dead
<1> QED BY <1>1, <1>2, <1>3, <1>4, <1>5, <1>6, <1>7 DEF Next

\* The position never leaves the buffer, so that neither a word nor the closing
\* NUL is written outside it.
THEOREM TypeCorrect == Spec => []TypeOK
<1>1. IInv => TypeOK
  BY DEF IInv
<1> QED BY <1>1, InitIInv, Step, PTL DEF Spec
-------------------------------------------------------------------------------
(* The text.                                                               *)

\* No separator is left at the end while the semaphore is free or a worker has it,
\* but between the separator and the word it is written for, which is on the
\* other side of the position until it is complete.
NoSeparator == current_pos > 0 => buffer[current_pos - 1] # SPACE

TextInv ==
    /\ PrintedIsWritten
    /\ mutex_sem = 1 => NoSeparator
    /\ \A p \in Worker : pc[p] \in Inner \ {"memcpy", "advance"} => NoSeparator
    /\ \A p \in Worker : At(p, "advance") =>
          \A c \in Cell : current_pos <= c /\ c < current_pos + word[p]
                            => buffer[c] = p

\* Steps that leave buffer and position alone.
LEMMA TextKept ==
    ASSUME TypeOK, TextInv, UNCHANGED <<buffer, current_pos>>,
           NEW p \in Process,
           \A q \in Worker \ {p} : pc'[q] = pc[q] /\ word'[q] = word[q],
           p \in Worker => pc'[p] # "advance",
           p \in Worker /\ pc'[p] \in Inner \ {"memcpy"} => NoSeparator,
           mutex_sem' = 1 => NoSeparator
    PROVE  TextInv'
<1>1. PrintedIsWritten' /\ (NoSeparator' <=> NoSeparator)
  BY DEF TextInv, PrintedIsWritten, NoSeparator
<1>2. ASSUME NEW q \in Worker, pc'[q] \in Inner \ {"memcpy", "advance"}
      PROVE  NoSeparator
  BY <1>2 DEF TextInv
<1>3. ASSUME NEW q \in Worker, At(q, "advance")'
      PROVE  At(q, "advance") /\ word'[q] = word[q]
  BY <1>3 DEF At
<1> QED BY <1>1, <1>2, <1>3 DEF TextInv

\* Writing from the position on leaves the written text as it is.
LEMMA WrittenKept ==
    ASSUME TypeOK, PrintedIsWritten, current_pos' = current_pos,
           \A c \in Cell : c < current_pos => buffer'[c] = buffer[c]
    PROVE  PrintedIsWritten'
<1>1. ASSUME NEW c \in Cell, c < current_pos
      PROVE  buffer'[c] # NUL /\ (buffer'[c] = SPACE => c > 0 /\ buffer'[c - 1] # SPACE)
  <2>1. c > 0 => c - 1 \in Cell /\ c - 1 < current_pos
    BY <1>1, SizesAssumption DEF TypeOK, Cell
  <2>2. buffer[c] # NUL /\ (buffer[c] = SPACE => c > 0 /\ buffer[c - 1] # SPACE)
    BY <1>1 DEF PrintedIsWritten
  <2> QED BY <1>1, <2>1, <2>2
<1> QED BY <1>1 DEF PrintedIsWritten

LEMMA WorkerText ==
    ASSUME TypeOK, SemInv, RoomInv, TextInv, NEW p \in Worker, process_worker(p)
    PROVE  TextInv'
<1> USE Family
<1>1. CASE AwaitTurn(p)
  BY <1>1, TextKept DEF AwaitTurn, TextInv, TypeOK, At, Goto, shared, Inner
<1>2. CASE AwaitMutex(p)
  BY <1>2, TextKept DEF AwaitMutex, TextInv, TypeOK, At, Goto, shared, Inner
<1>3. CASE CheckTurn(p)
  <2>1. NoSeparator /\ UNCHANGED <<buffer, current_pos>>
    BY <1>3 DEF CheckTurn, TextInv, At, Inner, shared
  <2>2. /\ pc'[p] # "advance"
        /\ \A q \in Worker \ {p} : pc'[q] = pc[q] /\ word'[q] = word[q]
    BY <1>3 DEF CheckTurn, TypeOK, At, Goto
  <2> QED BY <2>1, <2>2, TextKept
<1>4. CASE WriteSpace(p)
  <2>1. NoSeparator /\ current_pos \in Cell /\ current_pos + 1 \in Cell
    <3>1. NoSeparator /\ current_pos \in Cell
      BY <1>4 DEF WriteSpace, TextInv, TypeOK, At, Inner
    <3>2. word[p] \in Nat /\ current_pos + word[p] + 1 < SHARED_MEM_SIZE
      BY <1>4 DEF WriteSpace, RoomInv, At
    <3> QED BY <3>1, <3>2, SizesAssumption DEF Cell
  <2>2. PrintedIsWritten'
    <3>1. CASE current_pos > 0
      <4>1. /\ current_pos' = current_pos + 1 /\ buffer'[current_pos] = SPACE
            /\ \A c \in Cell : c < current_pos => buffer'[c] = buffer[c]
        BY <1>4, <2>1, <3>1, CellNat DEF WriteSpace, TypeOK
      <4>2. current_pos - 1 \in Cell /\ buffer[current_pos - 1] # SPACE
        BY <2>1, <3>1, SizesAssumption DEF NoSeparator, Cell
      <4>3. SPACE # NUL /\ PrintedIsWritten
        BY DEF SPACE, NUL, TextInv
      <4>4. ASSUME NEW c \in Cell, c < current_pos + 1
            PROVE  /\ buffer'[c] # NUL
                   /\ buffer'[c] = SPACE => c > 0 /\ buffer'[c - 1] # SPACE
        <5>1. CASE c = current_pos
          BY <2>1, <3>1, <4>1, <4>2, <4>3, <5>1 DEF Cell
        <5>2. CASE c < current_pos
          <6>1. /\ buffer'[c] = buffer[c] /\ buffer[c] # NUL
                /\ buffer[c] = SPACE => c > 0 /\ buffer[c - 1] # SPACE
            BY <4>1, <4>3, <5>2 DEF PrintedIsWritten
          <6>2. c > 0 => c - 1 \in Cell /\ c - 1 < current_pos
            BY <2>1, <5>2, SizesAssumption DEF Cell
          <6> QED BY <4>1, <6>1, <6>2
        <5> QED BY <2>1, <4>4, <5>1, <5>2 DEF Cell
      <4> QED BY <4>1, <4>4 DEF PrintedIsWritten
    <3>2. CASE current_pos = 0
      BY <1>4, <3>2 DEF WriteSpace, TextInv, PrintedIsWritten
    <3> QED BY <2>1, <3>1, <3>2 DEF Cell
  <2>3. /\ mutex_sem' # 1
        /\ pc'[p] = "memcpy"
        /\ \A q \in Worker : q # p => pc'[q] \notin Inner
    BY <1>4 DEF WriteSpace, SemInv, TypeOK, At, Goto, Inner, sems
  <2> QED BY <2>2, <2>3 DEF TextInv, At, Inner
<1>5. CASE WriteWord(p)
  <2>1. /\ mutex_sem' # 1 /\ pc'[p] = "advance" /\ word' = word
        /\ current_pos' = current_pos
        /\ \A q \in Worker : q # p => pc'[q] \notin Inner
    BY <1>5 DEF WriteWord, SemInv, TypeOK, At, Goto, Inner, sems
  <2>2. \A c \in Cell : c < current_pos => buffer'[c] = buffer[c]
    BY <1>5 DEF WriteWord, TypeOK, Cell
  <2>3. PrintedIsWritten'
    BY <2>1, <2>2, WrittenKept DEF TextInv
  <2>4. word[p] \in Nat
    BY <1>5 DEF WriteWord, RoomInv, At
  <2>5. \A c \in Cell : current_pos <= c /\ c < current_pos + word[p]
                           => buffer'[c] = p
    BY <1>5, <2>4 DEF WriteWord, TypeOK, Cell
  <2> QED BY <2>1, <2>3, <2>5 DEF TextInv, At, Inner
<1>6. CASE AdvancePos(p)
  <2>1. /\ mutex_sem' # 1 /\ pc'[p] = "count" /\ buffer' = buffer
        /\ current_pos' = current_pos + word[p]
        /\ \A q \in Worker : q # p => pc'[q] \notin Inner
    BY <1>6 DEF AdvancePos, SemInv, TypeOK, At, Goto, Inner, sems
  <2>2. /\ current_pos \in Cell /\ word[p] \in Nat /\ word[p] > 0
        /\ current_pos + word[p] < SHARED_MEM_SIZE
        /\ \A c \in Cell : current_pos <= c /\ c < current_pos + word[p]
                           => buffer[c] = p
    <3>1. /\ current_pos \in Cell /\ word[p] \in WordLen
          /\ current_pos + word[p] < SHARED_MEM_SIZE
      BY <1>6 DEF AdvancePos, RoomInv, TypeOK, At
    <3>2. \A c \in Cell : current_pos <= c /\ c < current_pos + word[p]
                           => buffer[c] = p
      BY <1>6 DEF AdvancePos, TextInv, At
    <3> QED BY <3>1, <3>2, Words
  <2>3. p # NUL /\ p # SPACE
    OBVIOUS
  <2>4. PrintedIsWritten'
    BY <2>1, <2>2, <2>3 DEF TextInv, PrintedIsWritten, Cell
  <2>5. NoSeparator'
    BY <2>1, <2>2, <2>3, SizesAssumption DEF NoSeparator, Cell
  <2> QED BY <2>1, <2>4, <2>5 DEF TextInv, At, Inner
<1>7. CASE CountWord(p)
  BY <1>7, TextKept DEF CountWord, TextInv, TypeOK, At, Goto, Inner, sems
<1>8. CASE PassTurn(p)
  BY <1>8, TextKept DEF PassTurn, TextInv, TypeOK, At, Goto, Inner, sems
<1>9. CASE PostMutex(p)
  BY <1>9, TextKept DEF PostMutex, TextInv, TypeOK, At, Goto, shared, Inner
<1>10. CASE PostTurn(p)
  BY <1>10, TextKept DEF PostTurn, TextInv, TypeOK, At, Goto, shared, Inner
<1> QED BY <1>1, <1>2, <1>3, <1>4, <1>5, <1>6, <1>7, <1>8, <1>9, <1>10
     DEF process_worker

LEMMA TextStep == IInv /\ TextInv /\ [Next]_vars => TextInv'
<1> SUFFICES ASSUME TypeOK, SemInv, RoomInv, ReapInv, TextInv, [Next]_vars
             PROVE  TextInv'
  BY DEF IInv
<1> USE Family
<1>1. ASSUME NEW p \in Worker, process_worker(p) PROVE TextInv'
  BY <1>1, WorkerText
<1>2. CASE fork
  <2>1. /\ forked \in Process
        /\ \A q \in Worker : pc'[q] # pc[q] => q = forked /\ pc'[q] = "turn"
        /\ UNCHANGED <<buffer, current_pos, mutex_sem, word>>
    <3>1. pc \in [Process -> Labels] /\ forked \in 0 .. NUM_PROCESSES
      BY DEF TypeOK
    <3> QED BY <1>2, <3>1, SizesAssumption
        DEF fork, Goto, Process, Worker, MAIN, shared, sems
  <2> QED BY <2>1 DEF TextInv, PrintedIsWritten, NoSeparator, At, Inner
<1>3. CASE reap \/ CtrlC
  BY <1>3 DEF reap, CtrlC, TextInv, PrintedIsWritten, NoSeparator, At, shared, sems
<1>4. CASE FinalCleanup
  <2>1. \A q \in Worker : pc'[q] \notin Inner /\ pc'[q] # "advance"
    <3>1. Cardinality(Dead) \in Nat /\ Cardinality(Dead) >= NUM_PROCESSES
      BY <1>4, DeadCount DEF FinalCleanup, ReapInv, Dead
    <3>2. Dead = Worker
      BY <3>1, DeadCount, SizesAssumption DEF Dead
    <3> QED BY <1>4, <3>2 DEF FinalCleanup, TypeOK, Goto, Dead, Inner
  <2>2. /\ \A c \in Cell : c < current_pos => buffer'[c] = buffer[c]
        /\ UNCHANGED <<current_pos, mutex_sem>>
    BY <1>4 DEF FinalCleanup, TypeOK, Cell, sems
  <2>3. PrintedIsWritten'
    BY <2>2, WrittenKept DEF TextInv
  <2>4. NoSeparator => NoSeparator'
    <3>1. current_pos > 0 => current_pos - 1 \in Cell /\ current_pos - 1 < current_pos
      BY SizesAssumption DEF TypeOK, Cell
    <3> QED BY <2>2, <3>1 DEF NoSeparator
  <2> QED BY <2>1, <2>2, <2>3, <2>4 DEF TextInv, At
<1>5. ASSUME NEW p \in Process, sigint_handler(p) PROVE TextInv'
  <2>1. /\ \A q \in Worker : pc'[q] # pc[q] => pc'[q] \in Handler \cup {"exit"}
        /\ UNCHANGED <<buffer, current_pos, mutex_sem, word>>
    BY <1>5, HandlerLeaves DEF shared, sems
  <2> QED BY <2>1 DEF TextInv, PrintedIsWritten, NoSeparator, At, Inner, Handler
<1>6. CASE UNCHANGED vars
  BY <1>6 DEF vars, shared, sems, TextInv, PrintedIsWritten, NoSeparator, At
<1> QED BY <1>1, <1>2, <1>3, <1>4, <1>5, <1>6 DEF Next

-------------------------------------------------------------------------------
(* The rotation.                                                           *)

\* The next worker in turn is the one the number of words says.
LEMMA ModSucc ==
    ASSUME NEW N \in Nat \ {0}, NEW n \in Nat
    PROVE  ((n % N) + 1) % N = (n + 1) % N
<1>1. n % N \in 0 .. N - 1 /\ n = N * (n \div N) + (n % N) /\ n \div N \in Nat
  OBVIOUS
<1>2. PICK q \in Nat, r \in 0 .. N - 1 : n = N * q + r /\ r = n % N
  BY <1>1
<1>3. CASE r + 1 < N
  <2>1. (r + 1) % N = r + 1
    BY <1>3
  <2>2. (N * q + (r + 1)) % N = r + 1
    BY <1>3
  <2> QED BY <1>2, <2>1, <2>2
<1>4. CASE r + 1 = N
  BY <1>2, <1>4
<1> QED BY <1>2, <1>3, <1>4

\* The number of words in the buffer, and who writes the next one.
Written == Cardinality(Starts)
Due == Written % NUM_PROCESSES

\* The count is right but while a worker has still to add its word; if Ctrl-C ends
\* it there, nobody gets the inner semaphore again, and the count stays one short.
Gone == Handler \cup {"exit"}

CountInv ==
    /\ word_count \in {Written - 1, Written}
    /\ \A p \in Worker : pc[p] = "count" => word_count = Written - 1
    /\ (\A p \in Worker : pc[p] \notin {"count"} \cup Gone) => word_count = Written
    /\ mutex_sem = 1 => word_count = Written
    /\ \A p \in Worker : pc[p] \in Inner \ {"count"} => word_count = Written

\* While nobody has the inner semaphore the turn is that of the next word; it
\* stays so until the word is in the buffer, and is one behind until it is
\* passed.  A worker only writes in its turn, after a separator.
OrderInv ==
    /\ WrittenInTurn /\ CountInv
    /\ mutex_sem = 1 => turn = Due
    /\ \A p \in Worker :
       /\ pc[p] \in Inner \ {"count", "pass"} => turn = Due
       /\ pc[p] \in {"space", "memcpy", "advance"} => turn = p
       /\ pc[p] \in {"count", "pass"} => (turn + 1) % NUM_PROCESSES = Due
       /\ pc[p] \in {"memcpy", "advance"} /\ current_pos > 0
          => buffer[current_pos - 1] = SPACE

LEMMA StartsFinite ==
    IsFiniteSet(Starts) /\ Written \in Nat /\ Starts \in SUBSET Cell
<1>1. IsFiniteSet(Cell)
  BY FS_Interval, SizesAssumption DEF Cell
<1>2. Starts \in SUBSET Cell
  BY DEF Starts
<1> QED BY <1>1, <1>2, FS_Subset, FS_CardinalityType DEF Written

LEMMA Between ==
    ASSUME NEW c \in Cell, NEW d \in Cell, NEW e \in c .. d
    PROVE  e \in Cell /\ e <= d
<1>1. c \in Nat /\ d \in Nat /\ d <= SHARED_MEM_SIZE - 1
  BY SizesAssumption DEF Cell
<1> QED BY <1>1, SizesAssumption DEF Cell

\* Words that are written stay as they are.
LEMMA SameWords ==
    ASSUME TypeOK, current_pos' = current_pos,
           \A c \in Cell : c < current_pos => buffer'[c] = buffer[c]
    PROVE  /\ Starts' = Starts
           /\ Written' = Written /\ Due' = Due
           /\ WrittenInTurn => WrittenInTurn'
<1>1. current_pos \in Int /\ \A c \in Cell : c \in Nat
  BY CellNat DEF TypeOK, Cell
<1>2. \A c \in Cell : c # 0 => c - 1 \in Cell /\ c - 1 < c
  BY SizesAssumption DEF Cell
<1>3. Starts' = Starts
  BY <1>1, <1>2 DEF Starts
<1>4. Written' = Written /\ Due' = Due
  BY <1>3 DEF Written, Due
<1>5. ASSUME WrittenInTurn, NEW c \in Starts
      PROVE  /\ buffer'[c] = Cardinality({d \in Starts : d < c}) % NUM_PROCESSES
             /\ \A d \in Cell : (/\ c < d /\ d < current_pos
                                 /\ \A e \in c .. d : buffer'[e] # SPACE)
                                => buffer'[d] = buffer'[c]
  <2>1. c \in Cell /\ c < current_pos /\ buffer'[c] = buffer[c]
    BY DEF Starts
  <2>2. ASSUME NEW d \in Cell, c < d, d < current_pos,
               \A e \in c .. d : buffer'[e] # SPACE
        PROVE  buffer'[d] = buffer'[c]
    <3>1. \A e \in c .. d : e \in Cell /\ e < current_pos
      <4> TAKE e \in c .. d
      <4>1. e \in Cell /\ e <= d /\ e \in Nat /\ d \in Nat
        BY <1>1, <2>1, Between
      <4> QED BY <1>1, <2>2, <4>1
    <3>2. \A e \in c .. d : buffer[e] # SPACE
      BY <2>2, <3>1
    <3>3. buffer[d] = buffer[c]
      BY <1>5, <2>2, <3>2 DEF WrittenInTurn
    <3> QED BY <2>1, <2>2, <3>3
  <2> QED BY <1>5, <2>1, <2>2 DEF WrittenInTurn
<1> QED BY <1>3, <1>4, <1>5 DEF WrittenInTurn

\* A separator adds no word.
LEMMA OneSpace ==
    ASSUME TypeOK, WrittenInTurn, current_pos' = current_pos + 1,
           current_pos > 0,
           buffer' = [buffer EXCEPT ![current_pos] = SPACE]
    PROVE  /\ Starts' = Starts
           /\ Written' = Written /\ Due' = Due
           /\ WrittenInTurn'
<1>1. current_pos \in Nat /\ current_pos \in Cell /\ \A c \in Cell : c \in Nat
  BY CellNat DEF TypeOK, Cell
<1>2. \A c \in Cell : c # 0 => c - 1 \in Cell /\ c - 1 < c
  BY SizesAssumption DEF Cell
<1>3. /\ \A c \in Cell : c < current_pos => buffer'[c] = buffer[c]
      /\ buffer'[current_pos] = SPACE /\ SPACE \notin Worker
      /\ \A c \in Cell : c < current_pos + 1 <=> c < current_pos \/ c = current_pos
  BY <1>1, Family DEF TypeOK
<1>4. Starts' = Starts
  <2>1. ASSUME NEW c \in Cell, c < current_pos
        PROVE  c \in Starts' <=> c \in Starts
    <3>1. c # 0 => c - 1 \in Cell /\ c - 1 < current_pos
      BY <1>1, <1>2, <2>1
    <3>2. c < current_pos' /\ buffer'[c] = buffer[c]
          /\ (c # 0 => buffer'[c - 1] = buffer[c - 1])
      BY <1>1, <1>3, <2>1, <3>1
    <3> QED BY <2>1, <3>2 DEF Starts
  <2>2. current_pos \notin Starts'
    BY <1>3 DEF Starts
  <2>3. \A c \in Starts' : c \in Cell /\ (c < current_pos \/ c = current_pos)
    BY <1>3 DEF Starts
  <2>4. \A c \in Starts : c \in Cell /\ c < current_pos
    BY DEF Starts
  <2> QED BY <2>1, <2>2, <2>3, <2>4
<1>5. Written' = Written /\ Due' = Due
  BY <1>4 DEF Written, Due
<1>6. ASSUME NEW c \in Starts
      PROVE  /\ buffer'[c] = Cardinality({d \in Starts : d < c}) % NUM_PROCESSES
             /\ \A d \in Cell : (/\ c < d /\ d < current_pos'
                                 /\ \A e \in c .. d : buffer'[e] # SPACE)
                                => buffer'[d] = buffer'[c]
  <2>1. c \in Cell /\ c < current_pos /\ buffer'[c] = buffer[c]
    BY <1>3 DEF Starts
  <2>2. ASSUME NEW d \in Cell, c < d, d < current_pos',
               \A e \in c .. d : buffer'[e] # SPACE
        PROVE  buffer'[d] = buffer'[c]
    <3>0. d # current_pos
      BY <1>1, <1>3, <2>1, <2>2
    <3>1. d < current_pos /\ \A e \in c .. d : e \in Cell /\ e < current_pos
      <4>1. d < current_pos
        BY <1>3, <2>2, <3>0
      <4>2. \A e \in c .. d : e \in Cell /\ e <= d /\ e \in Nat /\ d \in Nat
        BY <1>1, <2>1, Between
      <4> QED BY <1>1, <4>1, <4>2
    <3>2. \A e \in c .. d : buffer[e] # SPACE
      BY <1>3, <2>2, <3>1
    <3>3. buffer[d] = buffer[c]
      BY <2>2, <3>1, <3>2 DEF WrittenInTurn
    <3> QED BY <1>3, <2>1, <3>1, <3>3
  <2> QED BY <2>1, <2>2 DEF WrittenInTurn
<1> QED BY <1>4, <1>5, <1>6 DEF WrittenInTurn

\* A word of the worker whose turn it is, after a separator, is one more.
LEMMA OneWord ==
    ASSUME TypeOK, WrittenInTurn, NEW p \in Worker, p = Due,
           NEW n \in Nat \ {0}, current_pos' = current_pos + n,
           current_pos + n < SHARED_MEM_SIZE,
           current_pos > 0 => buffer[current_pos - 1] = SPACE,
           \A c \in Cell : current_pos <= c /\ c < current_pos + n
                           => buffer[c] = p,
           buffer' = buffer
    PROVE  /\ Written' = Written + 1
           /\ Due' = (p + 1) % NUM_PROCESSES
           /\ WrittenInTurn'
<1> DEFINE pos == current_pos
<1>1. pos \in Nat /\ pos \in Cell /\ \A c \in Cell : c \in Nat
  BY CellNat DEF TypeOK, Cell
<1>2. \A c \in Cell : c # 0 => c - 1 \in Cell /\ c - 1 < c
  BY SizesAssumption DEF Cell
<1>3. p # SPACE /\ p \in Worker
  BY Family
<1>4. Starts' = Starts \cup {pos}
  <2>1. ASSUME NEW c \in Cell, c < pos
        PROVE  c \in Starts' <=> c \in Starts
    BY <1>1, <2>1 DEF Starts
  <2>2. pos \in Starts'
    BY <1>1, <1>3 DEF Starts
  <2>3. ASSUME NEW c \in Cell, c > pos
        PROVE  c \notin Starts'
    <3>1. CASE c < pos + n
      <4>1. c - 1 \in Cell /\ pos <= c - 1 /\ c - 1 < pos + n /\ c # 0
        BY <1>1, <1>2, <2>3, <3>1
      <4> QED BY <1>3, <4>1 DEF Starts
    <3>2. CASE ~(c < pos + n)
      BY <3>2 DEF Starts
    <3> QED BY <3>1, <3>2
  <2>4. \A c \in Starts : c < pos
    BY DEF Starts
  <2>5. Starts' \in SUBSET Cell /\ Starts \in SUBSET Cell
    BY DEF Starts
  <2>6. \A c \in Cell : c < pos \/ c = pos \/ c > pos
    BY <1>1
  <2> QED BY <2>1, <2>2, <2>3, <2>4, <2>5, <2>6
<1>5. pos \notin Starts
  BY <1>1 DEF Starts
<1>6. Written' = Written + 1
  BY <1>4, <1>5, StartsFinite, FS_AddElement DEF Written
<1>7. Due' = (p + 1) % NUM_PROCESSES
  BY <1>6, StartsFinite, ModSucc, SizesAssumption DEF Due
<1>8. ASSUME NEW c \in Starts'
      PROVE  /\ buffer[c] = Cardinality({d \in Starts' : d < c}) % NUM_PROCESSES
             /\ \A d \in Cell : (/\ c < d /\ d < current_pos'
                                 /\ \A e \in c .. d : buffer[e] # SPACE)
                                => buffer[d] = buffer[c]
  <2>1. CASE c \in Starts
    <3>1. c \in Cell /\ c < pos /\ c \in Nat
      BY <1>1, <2>1 DEF Starts
    <3>2. {d \in Starts' : d < c} = {d \in Starts : d < c}
      BY <1>1, <1>4, <3>1
    <3>3. ASSUME NEW d \in Cell, c < d, \A e \in c .. d : buffer[e] # SPACE
          PROVE  d < pos
      <4>1. CASE ~(d < pos)
        <5>1. pos - 1 \in c .. d /\ pos > 0
          BY <1>1, <3>1, <3>3, <4>1
        <5> QED BY <3>3, <5>1
      <4> QED BY <4>1
    <3> QED BY <2>1, <3>2, <3>3 DEF WrittenInTurn
  <2>2. CASE c = pos
    <3>1. {d \in Starts' : d < c} = Starts
      <4>1. \A d \in Starts : d < pos
        BY DEF Starts
      <4>2. ~(pos < pos)
        BY <1>1
      <4> QED BY <1>4, <2>2, <4>1, <4>2
    <3>2. buffer[c] = p
      BY <1>1, <2>2
    <3>3. \A d \in Cell : c < d /\ d < current_pos' => buffer[d] = p
      BY <1>1, <2>2
    <3> QED BY <3>1, <3>2, <3>3 DEF Written, Due
  <2> QED BY <1>4, <2>1, <2>2
<1> QED BY <1>6, <1>7, <1>8 DEF WrittenInTurn

\* A step of one process that adds no word to the count or to the buffer.
LEMMA CountKept ==
    ASSUME CountInv, Written' = Written, word_count' = word_count,
           NEW p \in Process, \A q \in Worker \ {p} : pc'[q] = pc[q],
           p \in Worker => /\ pc[p] = "count" <=> pc'[p] = "count"
                           /\ pc[p] \notin Gone
                           /\ pc'[p] \in Inner \ {"count"} => word_count = Written,
           mutex_sem' = 1 => word_count = Written
    PROVE  CountInv'
<1>1. ASSUME NEW q \in Worker
      PROVE  /\ pc'[q] = "count" <=> pc[q] = "count"
             /\ pc[q] \in Gone => pc'[q] \in Gone
             /\ pc'[q] \in Inner \ {"count"} => word_count = Written
  <2>1. CASE q = p
    <3>1. p \in Worker
      BY <2>1
    <3>2. /\ pc[p] = "count" <=> pc'[p] = "count"
          /\ pc[p] \notin Gone
          /\ pc'[p] \in Inner \ {"count"} => word_count = Written
      BY <3>1
    <3> QED BY <2>1, <3>2
  <2>2. CASE q # p
    BY <2>2 DEF CountInv
  <2> QED BY <2>1, <2>2
<1>2. ASSUME \A q \in Worker : pc'[q] \notin {"count"} \cup Gone
      PROVE  word_count = Written
  <2>1. \A q \in Worker : pc[q] \notin {"count"} \cup Gone
    BY <1>1, <1>2
  <2> QED BY <2>1 DEF CountInv
<1>3. \A q \in Worker : pc'[q] = "count" => word_count = Written - 1
  BY <1>1 DEF CountInv
<1> QED BY <1>1, <1>2, <1>3 DEF CountInv

\* A step of one process that leaves the words, the turn and the count alone.
LEMMA OrderKept ==
    ASSUME TypeOK, OrderInv, UNCHANGED <<current_pos, turn, word_count>>,
           \A c \in Cell : c < current_pos => buffer'[c] = buffer[c],
           NEW p \in Process, \A q \in Worker \ {p} : pc'[q] = pc[q],
           p \in Worker =>
              /\ pc[p] \notin Gone /\ (pc[p] = "count" <=> pc'[p] = "count")
              /\ pc'[p] \in Inner \ {"count"} => word_count = Written
              /\ pc'[p] \in Inner \ {"count", "pass"} => turn = Due
              /\ pc'[p] \in {"space", "memcpy", "advance"} => turn = p
              /\ pc'[p] \in {"memcpy", "advance"} /\ current_pos > 0
                 => buffer[current_pos - 1] = SPACE
              /\ pc'[p] \in {"count", "pass"}
                 => (turn + 1) % NUM_PROCESSES = Due,
           mutex_sem' = 1 => turn = Due /\ word_count = Written
    PROVE  OrderInv'
<1>1. Written' = Written /\ Due' = Due /\ WrittenInTurn'
  BY SameWords DEF OrderInv
<1>2. CountInv'
  BY <1>1, CountKept DEF OrderInv
<1>3. current_pos > 0 => buffer'[current_pos - 1] = buffer[current_pos - 1]
  <2>1. current_pos > 0 => current_pos - 1 \in Cell /\ current_pos - 1 < current_pos
    BY SizesAssumption DEF TypeOK, Cell
  <2> QED BY <2>1
<1>4. ASSUME NEW q \in Worker
      PROVE  /\ pc'[q] \in Inner \ {"count", "pass"} => turn = Due
             /\ pc'[q] \in {"space", "memcpy", "advance"} => turn = q
             /\ pc'[q] \in {"count", "pass"} => (turn + 1) % NUM_PROCESSES = Due
             /\ pc'[q] \in {"memcpy", "advance"} /\ current_pos > 0
                => buffer'[current_pos - 1] = SPACE
  <2>1. CASE q = p
    BY <1>3, <2>1
  <2>2. CASE q # p
    BY <1>3, <2>2 DEF OrderInv
  <2> QED BY <2>1, <2>2
<1> QED BY <1>1, <1>2, <1>4 DEF OrderInv

LEMMA WorkerOrder ==
    ASSUME TypeOK, SemInv, RoomInv, TextInv, OrderInv,
           NEW p \in Worker, process_worker(p)
    PROVE  OrderInv'
<1> USE Family DEF Gone, Handler
<1>1. CASE AwaitTurn(p)
  BY <1>1, OrderKept DEF AwaitTurn, OrderInv, CountInv, TypeOK, At, Goto, shared, Inner
<1>2. CASE AwaitMutex(p)
  <2>1. mutex_sem = 1 /\ turn = Due /\ word_count = Written
    BY <1>2 DEF AwaitMutex, OrderInv, CountInv, TypeOK
  <2> QED BY <1>2, <2>1, OrderKept DEF AwaitMutex, TypeOK, At, Goto, shared, Inner
<1>3. CASE CheckTurn(p)
  <2>1. /\ turn = Due /\ word_count = Written
        /\ UNCHANGED <<shared, mutex_sem>> /\ pc[p] = "check"
    BY <1>3 DEF CheckTurn, OrderInv, CountInv, At, Inner, sems
  <2>2. /\ pc'[p] \in {"skip", "full", "space"}
        /\ pc'[p] = "space" => turn = p
        /\ \A q \in Worker \ {p} : pc'[q] = pc[q]
    BY <1>3 DEF CheckTurn, TypeOK, At, Goto
  <2>3. mutex_sem' = 1 => turn = Due
    BY <2>1
  <2> QED BY <2>1, <2>2, <2>3, OrderKept DEF shared
<1>4. CASE WriteSpace(p)
  <2>1. /\ pc[p] = "space" /\ pc'[p] = "memcpy" /\ turn = Due /\ turn = p
        /\ word_count = Written
        /\ \A q \in Worker \ {p} : pc'[q] = pc[q] /\ pc[q] \notin Inner
        /\ mutex_sem # 1 /\ UNCHANGED <<turn, word_count, mutex_sem>>
    BY <1>4 DEF WriteSpace, OrderInv, CountInv, TypeOK, SemInv, At, Goto, Inner, sems
  <2>2. CASE current_pos = 0
    <3>1. UNCHANGED <<buffer, current_pos>>
      BY <1>4, <2>2 DEF WriteSpace
    <3> QED BY <2>1, <2>2, <3>1, OrderKept
  <2>3. CASE current_pos > 0
    <3>1. /\ buffer' = [buffer EXCEPT ![current_pos] = SPACE]
          /\ current_pos' = current_pos + 1
      BY <1>4, <2>3 DEF WriteSpace
    <3>2. Written' = Written /\ Due' = Due /\ WrittenInTurn'
      BY <2>3, <3>1, OneSpace DEF OrderInv
    <3>3. CountInv'
      BY <2>1, <3>2, CountKept DEF OrderInv
    <3>4. buffer'[current_pos' - 1] = SPACE
      <4>1. current_pos \in Cell /\ current_pos' - 1 = current_pos
        BY <3>1 DEF TypeOK, Cell
      <4> QED BY <3>1, <4>1 DEF TypeOK
    <3>5. \A q \in Worker \ {p} : pc'[q] \notin Inner
      BY <2>1
    <3> QED BY <2>1, <3>2, <3>3, <3>4, <3>5 DEF OrderInv, Inner
  <2> QED BY <1>4, <2>2, <2>3 DEF WriteSpace
<1>5. CASE WriteWord(p)
  <2>1. /\ pc[p] = "memcpy" /\ pc'[p] = "advance" /\ turn = Due /\ turn = p
        /\ word_count = Written
        /\ current_pos > 0 => buffer[current_pos - 1] = SPACE
        /\ \A q \in Worker \ {p} : pc'[q] = pc[q]
        /\ mutex_sem # 1
        /\ UNCHANGED <<current_pos, turn, word_count, mutex_sem>>
    BY <1>5 DEF WriteWord, OrderInv, CountInv, TypeOK, SemInv, At, Goto, Inner, sems
  <2>2. \A c \in Cell : c < current_pos => buffer'[c] = buffer[c]
    BY <1>5 DEF WriteWord, TypeOK, Cell
  <2> QED BY <2>1, <2>2, OrderKept
<1>6. CASE AdvancePos(p)
  <2>1. /\ pc[p] = "advance" /\ pc'[p] = "count" /\ turn = Due /\ turn = p
        /\ word_count = Written
        /\ current_pos > 0 => buffer[current_pos - 1] = SPACE
        /\ \A q \in Worker \ {p} : pc'[q] = pc[q] /\ pc[q] \notin Inner
        /\ mutex_sem # 1 /\ UNCHANGED <<buffer, turn, word_count, mutex_sem>>
        /\ current_pos' = current_pos + word[p]
    BY <1>6 DEF AdvancePos, OrderInv, CountInv, TypeOK, SemInv, At, Goto, Inner, sems
  <2>2. /\ word[p] \in Nat \ {0} /\ current_pos + word[p] < SHARED_MEM_SIZE
        /\ \A c \in Cell : current_pos <= c /\ c < current_pos + word[p]
                           => buffer[c] = p
    <3>1. word[p] \in WordLen /\ current_pos + word[p] < SHARED_MEM_SIZE
      BY <2>1 DEF RoomInv
    <3>2. \A c \in Cell : current_pos <= c /\ c < current_pos + word[p]
                           => buffer[c] = p
      BY <2>1 DEF TextInv, At
    <3> QED BY <3>1, <3>2, SizesAssumption
  <2>3. /\ Written' = Written + 1 /\ WrittenInTurn'
        /\ (turn' + 1) % NUM_PROCESSES = Due'
    BY <2>1, <2>2, OneWord DEF OrderInv
  <2>4. CountInv'
    <3>1. word_count' = Written' - 1
      BY <2>1, <2>3, StartsFinite
    <3> QED BY <2>1, <3>1 DEF CountInv, Inner
  <2>5. \A q \in Worker \ {p} : pc'[q] \notin Inner
    BY <2>1
  <2> QED BY <2>1, <2>3, <2>4, <2>5 DEF OrderInv, Inner
<1>7. CASE CountWord(p)
  <2>1. /\ pc[p] = "count" /\ pc'[p] = "pass"
        /\ (turn + 1) % NUM_PROCESSES = Due
        /\ \A q \in Worker \ {p} : pc'[q] = pc[q] /\ pc[q] \notin Inner
        /\ mutex_sem # 1 /\ UNCHANGED <<buffer, current_pos, turn, mutex_sem>>
        /\ word_count' = word_count + 1
    BY <1>7 DEF CountWord, OrderInv, TypeOK, SemInv, At, Goto, Inner, sems
  <2>2. Written' = Written /\ Due' = Due /\ WrittenInTurn'
    BY <2>1, SameWords DEF OrderInv
  <2>3. CountInv'
    <3>1. word_count = Written - 1
      BY <2>1 DEF OrderInv, CountInv
    <3>2. word_count' = Written'
      BY <2>1, <2>2, <3>1, StartsFinite
    <3>3. pc'[p] # "count"
      BY <2>1
    <3> QED BY <2>1, <3>2, <3>3 DEF CountInv, Inner
  <2>4. \A q \in Worker \ {p} : pc'[q] \notin Inner
    BY <2>1
  <2> QED BY <2>1, <2>2, <2>3, <2>4 DEF OrderInv, Inner
<1>8. CASE PassTurn(p)
  <2>1. /\ pc[p] = "pass" /\ pc'[p] = "skip" /\ word_count = Written
        /\ turn' = Due
        /\ \A q \in Worker \ {p} : pc'[q] = pc[q] /\ pc[q] \notin Inner
        /\ mutex_sem # 1
        /\ UNCHANGED <<buffer, current_pos, word_count, mutex_sem>>
    BY <1>8 DEF PassTurn, OrderInv, CountInv, TypeOK, SemInv, At, Goto, Inner, sems
  <2>2. Written' = Written /\ Due' = Due /\ WrittenInTurn'
    BY <2>1, SameWords DEF OrderInv
  <2>3. CountInv'
    BY <2>1, <2>2, CountKept DEF OrderInv
  <2>4. \A q \in Worker \ {p} : pc'[q] \notin Inner
    BY <2>1
  <2> QED BY <2>1, <2>2, <2>3, <2>4 DEF OrderInv, Inner
<1>9. CASE PostMutex(p)
  <2>1. turn = Due /\ word_count = Written
    BY <1>9 DEF PostMutex, OrderInv, CountInv, Inner
  <2> QED BY <1>9, <2>1, OrderKept DEF PostMutex, TypeOK, At, Goto, shared, Inner
<1>10. CASE PostTurn(p)
  BY <1>10, OrderKept DEF PostTurn, OrderInv, CountInv, TypeOK, At, Goto, shared, Inner
<1> QED BY <1>1, <1>2, <1>3, <1>4, <1>5, <1>6, <1>7, <1>8, <1>9, <1>10
     DEF process_worker

\* A worker that is not yet forked has done nothing.
BirthInv == \A q \in Worker : forked <= q => pc[q] = "unborn"

LEMMA BirthStep == TypeOK /\ BirthInv /\ [Next]_vars => BirthInv'
<1> SUFFICES ASSUME TypeOK, BirthInv, [Next]_vars PROVE BirthInv'
  OBVIOUS
<1> USE Family DEF Goto, family, reports
<1>1. ASSUME NEW p \in Worker, process_worker(p) PROVE BirthInv'
  <2>1. /\ pc[p] # "unborn" /\ forked' = forked
        /\ \A q \in Worker \ {p} : pc'[q] = pc[q]
    BY <1>1 DEF process_worker, AwaitTurn, AwaitMutex, CheckTurn, WriteSpace,
       WriteWord, AdvancePos, CountWord, PassTurn, PostMutex, PostTurn, TypeOK, At
  <2> QED BY <2>1 DEF BirthInv
<1>2. CASE fork
  BY <1>2, SizesAssumption DEF fork, BirthInv, TypeOK, Worker, MAIN
<1>3. CASE reap \/ CtrlC \/ UNCHANGED vars
  BY <1>3 DEF reap, CtrlC, vars, BirthInv
<1>4. CASE FinalCleanup
  BY <1>4 DEF FinalCleanup, BirthInv, TypeOK
<1>5. ASSUME NEW p \in Process, sigint_handler(p) PROVE BirthInv'
  <2>1. /\ pc[p] # "unborn" /\ forked' = forked
        /\ \A q \in Process \ {p} : pc'[q] = pc[q]
    BY <1>5, HandlerLeaves
  <2> QED BY <2>1 DEF BirthInv
<1> QED BY <1>1, <1>2, <1>3, <1>4, <1>5 DEF Next

\* A step that changes nothing the rotation is about.
LEMMA OrderSame == OrderInv /\ UNCHANGED <<shared, sems, pc>> => OrderInv'
  BY DEF OrderInv, CountInv, WrittenInTurn, Written, Due, Starts, shared, sems

LEMMA OrderStep ==
    IInv /\ TextInv /\ OrderInv /\ BirthInv /\ [Next]_vars => OrderInv'
<1> SUFFICES ASSUME TypeOK, SemInv, RoomInv, ReapInv, TextInv, OrderInv,
                    BirthInv, [Next]_vars
             PROVE  OrderInv'
  BY DEF IInv
<1> USE Family DEF Gone, Handler
<1>1. ASSUME NEW p \in Worker, process_worker(p) PROVE OrderInv'
  BY <1>1, WorkerOrder
<1>2. CASE fork
  <2>1. /\ forked \in Process
        /\ \A q \in Worker \ {forked} : pc'[q] = pc[q]
        /\ forked \in Worker => pc'[forked] = "turn"
        /\ UNCHANGED <<buffer, current_pos, turn, word_count, mutex_sem>>
    BY <1>2, SizesAssumption
    DEF fork, TypeOK, Goto, Process, Worker, MAIN, shared, sems
  <2>2. forked \in Worker => pc[forked] = "unborn"
    BY DEF BirthInv, Worker
  <2> QED BY <2>1, <2>2, OrderKept DEF OrderInv, CountInv, Inner
<1>3. CASE reap \/ CtrlC
  <2>1. UNCHANGED <<shared, sems, pc>>
    BY <1>3 DEF reap, CtrlC
  <2> QED BY <2>1, OrderSame
<1>4. CASE FinalCleanup
  <2>1. \A q \in Worker : pc'[q] = pc[q]
    BY <1>4 DEF FinalCleanup, TypeOK, Goto
  <2>2. /\ \A c \in Cell : c < current_pos => buffer'[c] = buffer[c]
        /\ UNCHANGED <<current_pos, turn, word_count, mutex_sem>>
    BY <1>4 DEF FinalCleanup, TypeOK, Cell, sems
  <2> QED BY <2>1, <2>2, OrderKept DEF OrderInv, CountInv
<1>5. ASSUME NEW p \in Process, sigint_handler(p) PROVE OrderInv'
  <2>1. /\ pc'[p] \in Gone /\ \A q \in Worker \ {p} : pc'[q] = pc[q]
        /\ UNCHANGED <<buffer, current_pos, turn, word_count, mutex_sem>>
    BY <1>5, HandlerLeaves DEF shared, sems
  <2>2. CASE p \in Worker
    <3>1. Due' = Due /\ Written' = Written /\ WrittenInTurn'
      BY <2>1, SameWords DEF OrderInv
    <3>2. CountInv'
      BY <2>1, <2>2, <3>1 DEF OrderInv, CountInv, Inner
    <3> QED BY <2>1, <3>1, <3>2 DEF OrderInv, Inner
  <2>3. CASE p \notin Worker
    BY <2>1, <2>3, OrderKept DEF OrderInv, CountInv
  <2> QED BY <2>2, <2>3
<1>6. CASE UNCHANGED vars
  <2>1. UNCHANGED <<shared, sems, pc>>
    BY <1>6 DEF vars
  <2> QED BY <2>1, OrderSame
<1> QED BY <1>1, <1>2, <1>3, <1>4, <1>5, <1>6 DEF Next

LEMMA InitOrder == Init => OrderInv
<1> SUFFICES ASSUME Init PROVE OrderInv
  OBVIOUS
<1>1. Starts = {}
  BY CellNat DEF Init, Starts
<1>2. Written = 0 /\ Due = 0
  BY <1>1, FS_EmptySet, SizesAssumption DEF Written, Due
<1>3. \A p \in Worker : pc[p] = "unborn"
  BY Family DEF Init
<1>4. WrittenInTurn /\ CountInv
  BY <1>1, <1>2, <1>3 DEF WrittenInTurn, CountInv, Init
<1> QED BY <1>2, <1>3, <1>4 DEF OrderInv, Inner, Init

-------------------------------------------------------------------------------
(* The handler's copy.                                                     *)

\* What a handler has read before the copy, and what it has copied.
CopyInv ==
    /\ \A p \in Process : At(p, "h_copy") => told[p] <= word_count
    /\ CopyIsWhole

\* How far the others may go between two steps of a handler: the text grows, and
\* where it ended before there is now a separator, or was one.
Grows ==
    /\ current_pos' \in Cell /\ current_pos <= current_pos'
    /\ \A c \in Cell : c < current_pos => buffer'[c] = buffer[c]
    /\ current_pos > 0 => \/ current_pos' = current_pos
                          \/ buffer'[current_pos] = SPACE
                          \/ buffer[current_pos - 1] = SPACE
    /\ word_count <= word_count'

\* A copy made before stays the beginning of the text.
LEMMA CopyStays ==
    ASSUME TypeOK, Grows, NEW p \in Process, NEW n \in Cell, 0 < n, n <= current_pos,
           CopyHas(p, n), temp_buffer'[p] = temp_buffer[p], told'[p] = told[p]
    PROVE  n <= current_pos' /\ CopyHas(p, n)'
<1>1. /\ current_pos \in Nat /\ current_pos' \in Nat /\ n \in Nat
      /\ \A c \in Cell : c \in Nat
      /\ \A c \in Cell : c # 0 => c - 1 \in Cell /\ c - 1 < c
  BY CellNat, SizesAssumption DEF TypeOK, Grows, Cell
<1>2. n <= current_pos'
  BY <1>1 DEF Grows
<1>3. \A c \in Cell : c < n => buffer'[c] = buffer[c]
  BY <1>1 DEF Grows
<1>4. {c \in Starts : c < n}' = {c \in Starts : c < n}
  <2>1. ASSUME NEW c \in Cell, c < n
        PROVE  c \in Starts' <=> c \in Starts
    <3>1. c < current_pos /\ c < current_pos' /\ (c # 0 => c - 1 \in Cell /\ c - 1 < n)
      BY <1>1, <1>2, <2>1
    <3>2. buffer'[c] = buffer[c] /\ (c # 0 => buffer'[c - 1] = buffer[c - 1])
      BY <1>3, <2>1, <3>1
    <3> QED BY <3>1, <3>2 DEF Starts
  <2>2. Starts \subseteq Cell /\ Starts' \subseteq Cell
    BY DEF Starts
  <2> QED BY <2>1, <2>2
<1>5. n = current_pos' \/ buffer'[n] = SPACE \/ buffer'[n - 1] = SPACE
  <2>1. n - 1 \in Cell /\ n - 1 < n
    BY <1>1
  <2>2. buffer'[n - 1] = buffer[n - 1]
    BY <1>3, <2>1
  <2>3. CASE n = current_pos
    BY <2>2, <2>3 DEF Grows
  <2>4. CASE n < current_pos
    BY <2>2, <2>4 DEF CopyHas, Grows
  <2> QED BY <1>1, <2>3, <2>4
<1>6. \A c \in Cell : IF c < n THEN temp_buffer'[p][c] = buffer'[c]
                      ELSE temp_buffer'[p][c] \in {UNSET, NUL}
  BY <1>3 DEF CopyHas
<1>7. told'[p] <= Cardinality({c \in Starts : c < n}')
  BY <1>4 DEF CopyHas
<1> QED BY <1>2, <1>5, <1>6, <1>7 DEF CopyHas

\* A handler whose process does not move keeps what it has.
LEMMA CopyOthers ==
    ASSUME TypeOK, CopyInv, Grows, NEW q \in Process, word_count' \in Nat,
           pc'[q] = pc[q], temp_buffer'[q] = temp_buffer[q], told'[q] = told[q]
    PROVE  /\ At(q, "h_copy")' => told'[q] <= word_count'
           /\ pc'[q] \in {"h_nul", "h_print"} =>
                 \E n \in Cell :
                    /\ 0 < n /\ n <= current_pos'
                    /\ CopyHas(q, n)'
                    /\ At(q, "h_print")' =>
                          \E c \in n .. current_pos' : temp_buffer'[q][c] = NUL
<1>0. word_count \in Nat /\ told[q] \in Nat /\ word_count <= word_count'
  BY DEF TypeOK, Grows
<1>1. At(q, "h_copy")' => told'[q] <= word_count'
  <2>1. At(q, "h_copy") => told[q] <= word_count
    BY DEF CopyInv
  <2> QED BY <1>0, <2>1 DEF At
<1>2. ASSUME pc[q] \in {"h_nul", "h_print"}
      PROVE  \E n \in Cell :
                /\ 0 < n /\ n <= current_pos'
                /\ CopyHas(q, n)'
                /\ At(q, "h_print")' =>
                      \E c \in n .. current_pos' : temp_buffer'[q][c] = NUL
  <2>1. PICK n \in Cell :
           /\ 0 < n /\ n <= current_pos /\ CopyHas(q, n)
           /\ At(q, "h_print") => \E c \in n .. current_pos : temp_buffer[q][c] = NUL
    BY <1>2 DEF CopyInv, CopyIsWhole
  <2>2. n <= current_pos' /\ CopyHas(q, n)'
    BY <2>1, CopyStays
  <2>3. n .. current_pos \subseteq n .. current_pos'
    BY DEF Grows, TypeOK, Cell
  <2>4. At(q, "h_print")' => \E c \in n .. current_pos' : temp_buffer'[q][c] = NUL
    BY <2>1, <2>3 DEF At
  <2> QED BY <2>1, <2>2, <2>4
<1> QED BY <1>1, <1>2

\* A step that moves no handler keeps what the handlers have.
LEMMA CopyAll ==
    ASSUME TypeOK, TypeOK', CopyInv, Grows, UNCHANGED reports,
           \A q \in Process : pc'[q] \in Handler => pc'[q] = pc[q]
    PROVE  CopyInv'
<1>1. ASSUME NEW q \in Process, pc'[q] \in Handler
      PROVE  /\ At(q, "h_copy")' => told'[q] <= word_count'
             /\ pc'[q] \in {"h_nul", "h_print"} =>
                   \E n \in Cell :
                      /\ 0 < n /\ n <= current_pos'
                      /\ CopyHas(q, n)'
                      /\ At(q, "h_print")' =>
                            \E c \in n .. current_pos' : temp_buffer'[q][c] = NUL
  <2>1. word_count' \in Nat
    BY DEF TypeOK
  <2>2. pc'[q] = pc[q] /\ temp_buffer'[q] = temp_buffer[q] /\ told'[q] = told[q]
    BY <1>1 DEF reports
  <2> QED BY <2>1, <2>2, CopyOthers
<1> QED BY <1>1 DEF CopyInv, CopyIsWhole, Handler, At

LEMMA WorkerGrows ==
    ASSUME TypeOK, TypeOK', RoomInv, OrderInv, NEW p \in Worker, process_worker(p)
    PROVE  /\ Grows /\ UNCHANGED reports
           /\ pc'[p] \notin Handler /\ \A q \in Process \ {p} : pc'[q] = pc[q]
<1> USE Family
<1>1. current_pos \in Nat /\ word_count \in Nat /\ current_pos' \in Cell
  BY CellNat DEF TypeOK
<1>2. UNCHANGED reports /\ pc'[p] \notin Handler /\ \A q \in Process \ {p} : pc'[q] = pc[q]
  BY DEF process_worker, AwaitTurn, AwaitMutex, CheckTurn, WriteSpace, WriteWord,
     AdvancePos, CountWord, PassTurn, PostMutex, PostTurn, TypeOK, Goto, Handler, family
<1>3. CASE UNCHANGED <<buffer, current_pos>> /\ word_count' \in {word_count, word_count + 1}
  BY <1>1, <1>2, <1>3 DEF Grows
<1>4. CASE WriteSpace(p)
  <2>1. CASE current_pos > 0
    <3>1. /\ buffer' = [buffer EXCEPT ![current_pos] = SPACE]
          /\ current_pos' = current_pos + 1 /\ word_count' = word_count
      BY <1>4, <2>1 DEF WriteSpace
    <3>2. /\ buffer'[current_pos] = SPACE
          /\ \A c \in Cell : c < current_pos => buffer'[c] = buffer[c]
      BY <1>1, <3>1, CellNat DEF TypeOK
    <3> QED BY <1>1, <1>2, <3>1, <3>2 DEF Grows
  <2>2. CASE current_pos = 0
    <3>1. UNCHANGED <<buffer, current_pos, word_count>>
      BY <1>4, <2>2 DEF WriteSpace
    <3> QED BY <1>3, <3>1
  <2> QED BY <1>1, <2>1, <2>2
<1>5. CASE WriteWord(p)
  <2>1. /\ \A c \in Cell : c < current_pos => buffer'[c] = buffer[c]
        /\ UNCHANGED <<current_pos, word_count>>
    BY <1>5 DEF WriteWord, TypeOK, Cell
  <2> QED BY <1>1, <1>2, <2>1 DEF Grows
<1>6. CASE AdvancePos(p)
  <2>1. /\ current_pos' = current_pos + word[p] /\ UNCHANGED <<buffer, word_count>>
        /\ current_pos > 0 => buffer[current_pos - 1] = SPACE
    BY <1>6 DEF AdvancePos, OrderInv, At
  <2>2. word[p] \in Nat
    BY <1>6, Words DEF AdvancePos, RoomInv, At
  <2>3. CASE current_pos > 0
    BY <1>1, <1>2, <2>1, <2>2, <2>3 DEF Grows
  <2>4. CASE current_pos = 0
    BY <1>1, <1>2, <2>1, <2>2, <2>4 DEF Grows
  <2> QED BY <1>1, <2>3, <2>4
<1> QED BY <1>3, <1>4, <1>5, <1>6
    DEF process_worker, AwaitTurn, AwaitMutex, CheckTurn, CountWord, PassTurn,
        PostMutex, PostTurn, shared

\* A step of a handler.
LEMMA HandlerCopies ==
    ASSUME TypeOK, TextInv, OrderInv, CopyInv, NEW p \in Process, sigint_handler(p)
    PROVE  CopyInv'
<1> USE Family
<1>0. /\ UNCHANGED <<shared, sems, word, interrupted, forked, reaped>> /\ TypeOK'
      /\ \A q \in Process \ {p} : pc'[q] = pc[q]
  BY HandlerLeaves
<1>1. Grows /\ word_count' \in Nat /\ word_count' = word_count
  <2>1. /\ UNCHANGED <<buffer, current_pos, word_count>>
        /\ current_pos \in Cell /\ current_pos \in Nat /\ word_count \in Nat
    BY <1>0, CellNat DEF shared, TypeOK
  <2> QED BY <2>1 DEF Grows
<1>2. \A q \in Process \ {p} : temp_buffer'[q] = temp_buffer[q] /\ told'[q] = told[q]
  <2>1. CASE PrintCount(p)
    BY <2>1 DEF PrintCount, TypeOK
  <2>2. CASE CopyText(p)
    BY <2>2 DEF CopyText, TypeOK
  <2>3. CASE EndText(p)
    BY <2>3 DEF EndText, TypeOK
  <2>4. CASE PrintText(p)
    BY <2>4 DEF PrintText, TypeOK
  <2> QED BY <2>1, <2>2, <2>3, <2>4 DEF sigint_handler
<1> DEFINE Has(q) ==
       /\ At(q, "h_copy")' => told'[q] <= word_count'
       /\ pc'[q] \in {"h_nul", "h_print"} =>
             \E n \in Cell :
                /\ 0 < n /\ n <= current_pos'
                /\ CopyHas(q, n)'
                /\ At(q, "h_print")' =>
                      \E c \in n .. current_pos' : temp_buffer'[q][c] = NUL
<1>3. \A q \in Process \ {p} : Has(q)
  BY <1>0, <1>1, <1>2, CopyOthers
<1>4. Has(p)
  <2>1. CASE PrintCount(p)
    <3>1. pc'[p] = "h_copy"
      BY <2>1 DEF PrintCount, TypeOK, Goto
    <3>2. told'[p] = word_count
      BY <2>1 DEF PrintCount, TypeOK
    <3> QED BY <1>1, <3>1, <3>2 DEF At
  <2>2. CASE CopyText(p)
    <3>1. CASE current_pos = 0
      <4>1. pc'[p] = "exit"
        BY <2>2, <3>1 DEF CopyText, TypeOK, Goto
      <4> QED BY <4>1 DEF At
    <3>2. CASE current_pos > 0
      <4>1. /\ temp_buffer'[p] = [c \in Cell |-> IF c < current_pos THEN buffer[c]
                                                  ELSE UNSET]
            /\ told' = told /\ pc'[p] = "h_nul" /\ At(p, "h_copy")
            /\ UNCHANGED <<buffer, current_pos, word_count>>
        BY <1>0, <2>2, <3>2 DEF CopyText, TypeOK, Goto, shared
      <4>2. {c \in Starts' : c < current_pos} = Starts' /\ Starts' = Starts
        BY <4>1 DEF Starts
      <4>3. told[p] <= Cardinality(Starts)
        <5>1. told[p] <= word_count /\ word_count \in {Written - 1, Written}
          BY <4>1 DEF CopyInv, OrderInv, CountInv
        <5>2. told[p] \in Nat /\ word_count \in Nat /\ Written \in Nat
          BY StartsFinite DEF TypeOK
        <5> QED BY <5>1, <5>2 DEF Written
      <4>4. CopyHas(p, current_pos)'
        <5>1. \A c \in Cell : IF c < current_pos THEN temp_buffer'[p][c] = buffer[c]
                              ELSE temp_buffer'[p][c] \in {UNSET, NUL}
          BY <4>1
        <5> QED BY <4>1, <4>2, <4>3, <5>1 DEF CopyHas
      <4>5. current_pos \in Cell /\ 0 < current_pos /\ current_pos <= current_pos
        BY <3>2, CellNat DEF TypeOK
      <4> QED BY <4>1, <4>4, <4>5 DEF At
    <3> QED BY <2>2, <3>1, <3>2 DEF CopyText
  <2>3. CASE EndText(p)
    <3>1. /\ temp_buffer'[p] = [temp_buffer[p] EXCEPT ![current_pos] = NUL]
          /\ told' = told /\ pc'[p] = "h_print" /\ At(p, "h_nul")
          /\ UNCHANGED <<buffer, current_pos, word_count>>
          /\ temp_buffer[p] \in [Cell -> Worker \cup {NUL, SPACE, UNSET}]
      BY <1>0, <2>3 DEF EndText, TypeOK, Goto, shared
    <3>2. PICK n \in Cell : 0 < n /\ n <= current_pos /\ CopyHas(p, n)
      BY <3>1 DEF CopyInv, CopyIsWhole, At
    <3>3. /\ current_pos \in Cell /\ current_pos \in Nat /\ n \in Nat
          /\ \A c \in Cell : c \in Nat
      BY CellNat DEF TypeOK
    <3>4. temp_buffer'[p][current_pos] = NUL /\ current_pos \in n .. current_pos
      BY <3>1, <3>2, <3>3
    <3>5. \A c \in Cell : IF c < n THEN temp_buffer'[p][c] = buffer[c]
                          ELSE temp_buffer'[p][c] \in {UNSET, NUL}
      BY <3>1, <3>2, <3>3 DEF CopyHas
    <3>6. Starts' = Starts
      BY <3>1 DEF Starts
    <3>7. CopyHas(p, n)'
      BY <3>1, <3>2, <3>5, <3>6 DEF CopyHas
    <3> QED BY <3>1, <3>2, <3>4, <3>7 DEF At
  <2>4. CASE PrintText(p)
    <3>1. pc'[p] = "exit"
      BY <2>4 DEF PrintText, TypeOK, Goto
    <3> QED BY <3>1 DEF At
  <2> QED BY <2>1, <2>2, <2>3, <2>4 DEF sigint_handler
<1> QED BY <1>3, <1>4 DEF CopyInv, CopyIsWhole

LEMMA CopyStep ==
    ASSUME IInv, IInv', TextInv, OrderInv, CopyInv, [Next]_vars
    PROVE  CopyInv'
<1> USE Family DEF IInv
<1>0. current_pos \in Cell /\ current_pos \in Nat /\ word_count \in Nat
  BY CellNat DEF TypeOK
<1>1. ASSUME NEW p \in Worker, process_worker(p) PROVE CopyInv'
  <2>1. /\ Grows /\ UNCHANGED reports
        /\ pc'[p] \notin Handler /\ \A q \in Process \ {p} : pc'[q] = pc[q]
    BY <1>1, WorkerGrows
  <2> QED BY <2>1, CopyAll
<1>2. CASE fork
  <2>1. /\ UNCHANGED <<buffer, current_pos, word_count, reports>>
        /\ \A q \in Process : pc'[q] \in Handler => pc'[q] = pc[q]
    <3>1. pc \in [Process -> Labels]
      BY DEF TypeOK
    <3> QED BY <1>2, <3>1 DEF fork, Goto, Handler, shared
  <2>2. Grows
    BY <1>0, <2>1 DEF Grows
  <2> QED BY <2>1, <2>2, CopyAll
<1>3. CASE reap \/ CtrlC \/ UNCHANGED vars
  <2>1. UNCHANGED <<buffer, current_pos, word_count, reports, pc>>
    BY <1>3 DEF reap, CtrlC, vars, family, shared
  <2>2. Grows
    BY <1>0, <2>1 DEF Grows
  <2> QED BY <2>1, <2>2, CopyAll
<1>4. CASE FinalCleanup
  <2>1. /\ UNCHANGED <<current_pos, word_count, reports>>
        /\ \A c \in Cell : c < current_pos => buffer'[c] = buffer[c]
        /\ \A q \in Process : pc'[q] \in Handler => pc'[q] = pc[q]
    BY <1>0, <1>4, CellNat DEF FinalCleanup, family, TypeOK, Goto, Handler
  <2>2. Grows
    BY <1>0, <2>1 DEF Grows
  <2> QED BY <2>1, <2>2, CopyAll
<1>5. ASSUME NEW p \in Process, sigint_handler(p) PROVE CopyInv'
  BY <1>5, HandlerCopies
<1> QED BY <1>1, <1>2, <1>3, <1>4, <1>5 DEF Next

\* Whenever Ctrl-C comes, and whoever is killed by it where: the words stand in the
\* buffer in strict rotation, each whole, and as many as are counted but for one;
\* and what a handler has copied meanwhile is such words, not fewer than it printed.
THEOREM WordsInTurn == Spec => []PrintedInTurn
<1>1. Init => TextInv
  BY Family DEF Init, TextInv, PrintedIsWritten, NoSeparator, Cell, Inner, At
<1>2. TextInv /\ OrderInv /\ CopyInv => PrintedInTurn
  <2> SUFFICES ASSUME TextInv, OrderInv, CopyInv PROVE PrintedInTurn
    OBVIOUS
  <2>1. CountAgrees
    <3>1. word_count \in {Written - 1, Written}
      BY DEF OrderInv, CountInv
    <3>2. ASSUME NEW p \in Worker, pc[p] = "count" PROVE word_count = Written - 1
      BY <3>2 DEF OrderInv, CountInv
    <3>3. ASSUME \A p \in Worker : pc[p] # "count", \A p \in Worker : pc[p] \notin Gone
          PROVE  word_count = Written
      BY <3>3 DEF OrderInv, CountInv
    <3>4. Written \in Nat /\ Written - 0 = Written
      BY StartsFinite
    <3> QED BY <3>1, <3>2, <3>3, <3>4 DEF CountAgrees, Written, Gone
  <2> QED BY <2>1 DEF TextInv, OrderInv, CopyInv, PrintedInTurn
<1>3. Init => BirthInv
  BY Family DEF Init, BirthInv
<1>4. IInv /\ BirthInv /\ [Next]_vars => BirthInv'
  BY BirthStep DEF IInv
<1>5. Init => CopyInv
  BY Family DEF Init, CopyInv, CopyIsWhole, At
<1>6. IInv /\ IInv' /\ TextInv /\ OrderInv /\ CopyInv /\ [Next]_vars => CopyInv'
  BY CopyStep
<1> QED BY <1>1, <1>2, <1>3, <1>4, <1>5, <1>6, InitIInv, InitOrder, Step, TextStep,
           OrderStep, PTL DEF Spec

-------------------------------------------------------------------------------
(* The path server: the tree.                                              *)

\* The recursion of Above has a solution: what is in every set that goes up from
\* the directory.
GoesUp(d, T) ==
    /\ Parent[d] # d => Parent[d] \in T
    /\ \A x \in T : Parent[x] # x => Parent[x] \in T
UpFrom(d) == {b \in Dir : \A T \in SUBSET Dir : GoesUp(d, T) => b \in T}

LEMMA UpFromUnfold ==
  ASSUME NEW d \in Dir
  PROVE  UpFrom(d) = IF Parent[d] = d THEN {} ELSE {Parent[d]} \cup UpFrom(Parent[d])
<1> DEFINE p == Parent[d]
<1>t. p \in Dir
  BY TreeAssumption
<1>1. CASE p = d
  <2>1. GoesUp(d, {})
    BY <1>1 DEF GoesUp
  <2> QED BY <1>1, <2>1 DEF UpFrom
<1>2. CASE p # d
  <2>1. ASSUME NEW T \in SUBSET Dir, GoesUp(d, T) PROVE p \in T /\ GoesUp(p, T)
    BY <1>2, <2>1 DEF GoesUp
  <2>2. {p} \cup UpFrom(p) \subseteq UpFrom(d)
    <3> HIDE DEF p
    <3> QED BY <1>t, <2>1 DEF UpFrom
  <2>3. GoesUp(d, {p} \cup UpFrom(p))
    <3>1. Parent[p] # p => Parent[p] \in UpFrom(p)
      <4>1. Parent[p] \in Dir
        BY <1>t, TreeAssumption
      <4> QED BY <4>1 DEF UpFrom, GoesUp
    <3>2. ASSUME NEW x \in UpFrom(p), Parent[x] # x PROVE Parent[x] \in UpFrom(p)
      <4>1. x \in Dir /\ Parent[x] \in Dir
        BY TreeAssumption DEF UpFrom
      <4>2. ASSUME NEW T \in SUBSET Dir, GoesUp(p, T) PROVE Parent[x] \in T
        <5>1. x \in T
          BY <4>2 DEF UpFrom
        <5> QED BY <3>2, <4>2, <5>1 DEF GoesUp
      <4> QED BY <4>1, <4>2 DEF UpFrom
    <3> QED BY <3>1, <3>2 DEF GoesUp
  <2>4. UpFrom(d) \subseteq {p} \cup UpFrom(p)
    <3>1. {p} \cup UpFrom(p) \in SUBSET Dir
      BY <1>t DEF UpFrom
    <3> QED BY <2>3, <3>1 DEF UpFrom
  <2> QED BY <1>2, <2>2, <2>4
<1> QED BY <1>1, <1>2

Climbs(f) ==
    f = [d \in Dir |-> IF Parent[d] = d THEN {} ELSE {Parent[d]} \cup f[Parent[d]]]

LEMMA AboveUnfold ==
  ASSUME NEW d \in Dir
  PROVE  Above[d] = IF Parent[d] = d THEN {} ELSE {Parent[d]} \cup Above[Parent[d]]
<1> DEFINE f == [x \in Dir |-> UpFrom(x)]
<1>1. \A x \in Dir : f[x] = IF Parent[x] = x THEN {} ELSE {Parent[x]} \cup f[Parent[x]]
  BY UpFromUnfold, TreeAssumption
<1>2. Climbs(f)
  <2> HIDE DEF f
  <2>1. f = [x \in Dir |-> f[x]]
    BY DEF f
  <2> QED BY <1>1, <2>1 DEF Climbs
<1>3. Climbs((CHOOSE g : Climbs(g)))
  BY <1>2, Zenon
<1>4. Above = CHOOSE g : Climbs(g)
  BY DEF Above, Climbs
<1>5. Climbs(Above)
  BY <1>3, <1>4
<1> QED BY <1>5 DEF Climbs

\* What is directly in a directory that is the base, or beneath it, is beneath it.
LEMMA BelowIsBeneath ==
  ASSUME NEW b \in Dir, NEW d \in Beneath(b) \cup {b}
  PROVE  Below(d) \subseteq Beneath(b)
<1> SUFFICES ASSUME NEW e \in Below(d) PROVE e \in Beneath(b)
  OBVIOUS
<1>1. e \in Dir /\ Parent[e] = d /\ Parent[e] # e
  BY DEF Below
<1>2. Above[e] = {d} \cup Above[d]
  BY <1>1, AboveUnfold
<1> QED BY <1>1, <1>2 DEF Beneath

\* A set of directories, closed upwards, of which each that is in the base or
\* in a directory of D is in D, unless it is hidden: D has all of it that is visible
\* beneath the base.
LEMMA AllBeneath ==
  ASSUME NEW b \in Dir, NEW A \in SUBSET Dir, NEW D,
         \A d \in A : Parent[d] \in A,
         \A d \in A \ Hidden : Parent[d] # d /\ Parent[d] \in D \cup {b} => d \in D
  PROVE  A \cap Visible(b) \subseteq D
<1> DEFINE S == {d \in A \cap Visible(b) : d \notin D}
<1> SUFFICES ASSUME S # {} PROVE FALSE
  OBVIOUS
<1>1. S \in SUBSET Dir
  OBVIOUS
<1>2. PICK d \in S : Parent[d] = d \/ Parent[d] \notin S
  <2> HIDE DEF S
  <2> QED BY <1>1, TreeAssumption
<1>3. /\ d \in Dir /\ d \in A /\ d \in Beneath(b) /\ b \in Above[d] /\ d \notin D
      /\ ({d} \cup Above[d]) \cap Beneath(b) \cap Hidden = {}
  BY DEF Beneath, Visible
<1>4. /\ Parent[d] # d /\ (Parent[d] = b \/ b \in Above[Parent[d]])
      /\ Above[d] = {Parent[d]} \cup Above[Parent[d]]
  <2>1. Above[d] = IF Parent[d] = d THEN {} ELSE {Parent[d]} \cup Above[Parent[d]]
    <3> HIDE DEF S
    <3> QED BY <1>3, AboveUnfold
  <2> QED BY <1>3, <2>1
<1>5. Parent[d] \in D \cup {b}
  <2>1. CASE Parent[d] = b
    BY <2>1
  <2>2. CASE Parent[d] # b
    <3>1. Parent[d] \in Beneath(b)
      BY <1>3, <1>4, <2>2, TreeAssumption DEF Beneath
    <3>2. ({Parent[d]} \cup Above[Parent[d]]) \cap Beneath(b) \cap Hidden = {}
      BY <1>3, <1>4
    <3>3. Parent[d] \in A \cap Visible(b)
      BY <1>3, <3>1, <3>2 DEF Visible
    <3> QED BY <1>2, <1>4, <3>3
  <2> QED BY <2>1, <2>2
<1>6. d \notin Hidden
  BY <1>3
<1> QED BY <1>3, <1>4, <1>5, <1>6

-------------------------------------------------------------------------------
(* Types.                                                                  *)

ClientLabels == {"off", "prompt", "body", "length", "text", "done"}
ChildLabels == {"none", "refused", "length", "path", "stat", "opendir", "readdir",
                "send", "text", "close", "zombie", "reaped"}

Reply == [of : Path \cup {NONE}, err : BOOLEAN, dirs : SUBSET Dir]
Level == [must : SUBSET Dir, may : SUBSET Dir]
ClientState == [pc : ClientLabels, req : Path \cup {NONE}, asks : Nat, screen : Reply]
ChildState == [pc : ChildLabels, path : Path \cup {NONE}, open : Seq(Level),
               todo : Path \cup {NONE}, answer : Reply]
ToServer == {Length(z) : z \in BOOLEAN} \cup {Text(q) : q \in Path}
ToClient == {Length(z) : z \in BOOLEAN} \cup {Text(r) : r \in Reply}

TreeTypeOK ==
    /\ fs \in SUBSET Dir /\ changes \in Nat
    /\ always \in [Client -> SUBSET Dir] /\ ever \in [Client -> SUBSET Dir]

DaemonTypeOK ==
    /\ main \in {"accept", "fork", "ended"}
    /\ daemon_running \in BOOLEAN /\ sigchld \in BOOLEAN
    /\ backlog \in Seq(Client)
    /\ serving \in Client \cup {NONE} /\ (main = "fork" => serving \in Client)

ClientTypeOK == client \in [Client -> ClientState]
ChildTypeOK == child \in [Client -> ChildState]
StreamTypeOK == /\ toServer \in [Client -> Seq(ToServer)]
                /\ toClient \in [Client -> Seq(ToClient)]

ServerTypeOK ==
    TreeTypeOK /\ DaemonTypeOK /\ ClientTypeOK /\ ChildTypeOK /\ StreamTypeOK

LEMMA TreeTypeStep == TreeTypeOK /\ ServerNext => TreeTypeOK'
<1> SUFFICES ASSUME TreeTypeOK, ServerNext PROVE TreeTypeOK'
  OBVIOUS
<1>1. ASSUME UNCHANGED tree PROVE TreeTypeOK'
  BY <1>1 DEF tree, TreeTypeOK
<1>2. ASSUME NEW c \in Client, get_directories_recursive(c) PROVE TreeTypeOK'
  BY <1>2 DEF get_directories_recursive, TreeTypeOK
<1>3. ASSUME NEW c \in Client, SendAnswerLength(c) PROVE TreeTypeOK'
  BY <1>3 DEF SendAnswerLength, SearchOver, TreeTypeOK
<1>4. ASSUME NEW d \in Dir, mkdir(d) PROVE TreeTypeOK'
  BY <1>4 DEF mkdir, TreeTypeOK
<1>5. ASSUME NEW d \in Dir, rmdir(d) PROVE TreeTypeOK'
  BY <1>5 DEF rmdir, TreeTypeOK
<1>6. ASSUME NEW c \in Client,
             \/ connect_to_server(c) \/ SendLength(c) \/ Run(c) \/ Quit(c)
             \/ ReceiveRequestLength(c) \/ ReceivePath(c) \/ OpenDirectory(c)
             \/ explore_directory_recursive(c) \/ CloseDirectory(c)
             \/ SendAnswerText(c) \/ Exit(c)
      PROVE  UNCHANGED tree
  BY <1>6 DEF connect_to_server, SendLength, Run, SendText, ReceiveLength, ReceiveText,
              Quit, ReceiveRequestLength, ReceivePath, OpenDirectory,
              explore_directory_recursive, CloseDirectory, SendAnswerText, Exit
<1>7. ASSUME accept \/ Fork \/ signal_handler \/ sigchld_handler PROVE UNCHANGED tree
  BY <1>7 DEF accept, Fork, signal_handler, sigchld_handler
<1> QED BY <1>1, <1>2, <1>3, <1>4, <1>5, <1>6, <1>7 DEF ServerNext, handle_client

LEMMA DaemonTypeStep == DaemonTypeOK /\ ServerNext => DaemonTypeOK'
<1> SUFFICES ASSUME DaemonTypeOK, ServerNext PROVE DaemonTypeOK'
  OBVIOUS
<1>1. ASSUME UNCHANGED daemon PROVE DaemonTypeOK'
  BY <1>1 DEF daemon, DaemonTypeOK
<1>2. ASSUME NEW c \in Client, connect_to_server(c) PROVE DaemonTypeOK'
  BY <1>2 DEF connect_to_server, DaemonTypeOK
<1>3. CASE accept
  BY <1>3 DEF accept, DaemonTypeOK
<1>4. CASE Fork
  BY <1>4 DEF Fork, DaemonTypeOK
<1>5. CASE signal_handler \/ sigchld_handler
  BY <1>5 DEF signal_handler, sigchld_handler, DaemonTypeOK
<1>6. ASSUME NEW c \in Client, Exit(c) PROVE DaemonTypeOK'
  BY <1>6 DEF Exit, DaemonTypeOK
<1>7. ASSUME NEW c \in Client,
             \/ SendLength(c) \/ Run(c) \/ Quit(c)
             \/ ReceiveRequestLength(c) \/ ReceivePath(c) \/ OpenDirectory(c)
             \/ get_directories_recursive(c) \/ explore_directory_recursive(c)
             \/ CloseDirectory(c) \/ SendAnswerLength(c) \/ SendAnswerText(c)
      PROVE  UNCHANGED daemon
  BY <1>7 DEF SendLength, Run, SendText, ReceiveLength, ReceiveText,
              Quit, ReceiveRequestLength, ReceivePath, OpenDirectory,
              get_directories_recursive, explore_directory_recursive, CloseDirectory,
              SendAnswerLength, SendAnswerText
<1>8. ASSUME NEW d \in Dir, mkdir(d) \/ rmdir(d) PROVE UNCHANGED daemon
  BY <1>8 DEF mkdir, rmdir
<1> QED BY <1>1, <1>2, <1>3, <1>4, <1>5, <1>6, <1>7, <1>8 DEF ServerNext, handle_client

\* A request is chosen before its text is sent.
Requested == \A c \in Client : ClientAt(c, "body") => client[c].req \in Path

LEMMA ClientTypeStep ==
  ClientTypeOK /\ StreamTypeOK /\ Requested /\ ServerNext => ClientTypeOK' /\ Requested'
<1> SUFFICES ASSUME ClientTypeOK, StreamTypeOK, Requested, ServerNext
             PROVE  ClientTypeOK' /\ Requested'
  OBVIOUS
<1> USE DEF ClientTypeOK, Requested, ClientAt
<1>1. ASSUME UNCHANGED client PROVE ClientTypeOK' /\ Requested'
  BY <1>1
<1>2. ASSUME NEW c \in Client, NEW l \in ClientLabels \ {"body"}, ClientGoto(c, l)
      PROVE  ClientTypeOK' /\ Requested'
  BY <1>2 DEF ClientGoto, ClientState
<1>3. Nothing \in Reply
  BY DEF Nothing, Answer, Reply
<1>4. ASSUME NEW c \in Client, SendLength(c) PROVE ClientTypeOK' /\ Requested'
  <2>1. PICK q \in Asked[c] :
          client' = [client EXCEPT ![c].pc = IF Hung(c) THEN "done" ELSE "body",
                                   ![c].req = q, ![c].asks = @ + 1,
                                   ![c].screen = Nothing]
    BY <1>4 DEF SendLength
  <2>2. q \in Path
    BY TreeAssumption DEF Path
  <2> QED BY <1>3, <2>1, <2>2 DEF ClientState, ClientLabels
<1>5. ASSUME NEW c \in Client, ReceiveText(c) PROVE ClientTypeOK' /\ Requested'
  <2>1. CASE Part(toClient[c], "text")
    <3>1. toClient[c] \in Seq(ToClient) /\ toClient[c] # <<>>
          /\ Head(toClient[c]).part = "text"
      BY <2>1 DEF StreamTypeOK, Part
    <3>2. Head(toClient[c]) \in ToClient
      BY <3>1, HeadTailProperties
    <3>3. Head(toClient[c]).text \in Reply
      BY <3>1, <3>2 DEF ToClient, Length, Text
    <3>4. client' = [client EXCEPT
                        ![c].screen = Head(toClient[c]).text,
                        ![c].pc = IF c \in Single THEN "done" ELSE "prompt"]
      BY <1>5, <3>1 DEF ReceiveText
    <3>5. /\ client'[c] \in ClientState /\ client'[c].pc # "body"
          /\ \A q \in Client \ {c} : client'[q] = client[q]
      BY <3>3, <3>4 DEF ClientState, ClientLabels
    <3>6. client' \in [Client -> ClientState]
      BY <3>4, <3>5
    <3> QED BY <3>5, <3>6
  <2>2. CASE ~Part(toClient[c], "text")
    BY <1>5, <1>2, <2>2 DEF ReceiveText, ClientLabels
  <2> QED BY <2>1, <2>2
<1>6. ASSUME NEW c \in Client, Quit(c) PROVE ClientTypeOK' /\ Requested'
  <2>1. client' = [client EXCEPT ![c].pc = "done", ![c].req = NONE, ![c].screen = Nothing]
    BY <1>6 DEF Quit
  <2>2. /\ client'[c] \in ClientState /\ client'[c].pc # "body"
        /\ \A q \in Client \ {c} : client'[q] = client[q]
    BY <1>3, <2>1 DEF ClientState, ClientLabels
  <2>3. client' \in [Client -> ClientState]
    BY <2>1, <2>2
  <2> QED BY <2>2, <2>3
<1>7. ASSUME NEW c \in Client, connect_to_server(c) \/ SendText(c) \/ ReceiveLength(c)
      PROVE  \E l \in ClientLabels \ {"body"} : ClientGoto(c, l)
  BY <1>7 DEF connect_to_server, SendText, ReceiveLength, ClientLabels
<1>8. ASSUME NEW c \in Client, handle_client(c) PROVE UNCHANGED client
  BY <1>8 DEF handle_client, ReceiveRequestLength, ReceivePath, OpenDirectory,
              get_directories_recursive, explore_directory_recursive, CloseDirectory,
              SendAnswerLength, SendAnswerText, Exit
<1>9. ASSUME NEW d \in Dir, mkdir(d) \/ rmdir(d) PROVE UNCHANGED client
  BY <1>9 DEF mkdir, rmdir
<1>10. ASSUME accept \/ Fork \/ signal_handler \/ sigchld_handler PROVE UNCHANGED client
  BY <1>10 DEF accept, Fork, signal_handler, sigchld_handler
<1> QED BY <1>1, <1>2, <1>4, <1>5, <1>6, <1>7, <1>8, <1>9, <1>10 DEF ServerNext, Run

LEMMA LevelsType ==
  ASSUME NEW s \in Seq(Level)
  PROVE  /\ \A l \in Level : Append(s, l) \in Seq(Level)
         /\ \A i \in 1 .. Len(s), l \in Level : [s EXCEPT ![i] = l] \in Seq(Level)
         /\ s # <<>> => /\ SubSeq(s, 1, Len(s) - 1) \in Seq(Level)
                        /\ Len(SubSeq(s, 1, Len(s) - 1)) = Len(s) - 1
                        /\ \A i \in 1 .. Len(s) - 1 : SubSeq(s, 1, Len(s) - 1)[i] = s[i]
<1>1. \A l \in Level : Append(s, l) \in Seq(Level)
  OBVIOUS
<1>2. \A i \in 1 .. Len(s), l \in Level : [s EXCEPT ![i] = l] \in Seq(Level)
  BY ExceptSeq
<1>3. ASSUME s # <<>>
      PROVE  /\ SubSeq(s, 1, Len(s) - 1) \in Seq(Level)
             /\ Len(SubSeq(s, 1, Len(s) - 1)) = Len(s) - 1
             /\ \A i \in 1 .. Len(s) - 1 : SubSeq(s, 1, Len(s) - 1)[i] = s[i]
  <2>1. Len(s) \in Nat \ {0}
    BY <1>3, EmptySeq
  <2> DEFINE n == Len(s) - 1
  <2>2. n \in 0 .. Len(s) /\ 1 \in 1 .. n + 1
    BY <2>1
  <2>3. /\ SubSeq(s, 1, n) \in Seq(Level) /\ Len(SubSeq(s, 1, n)) = n
        /\ \A i \in 1 .. n : SubSeq(s, 1, n)[i] = s[i]
    <3> HIDE DEF n
    <3> QED BY <2>2, SubSeqProperties
  <2> QED BY <2>3
<1> QED BY <1>1, <1>2, <1>3

\* Where explore_directory_recursive reads there is a directory open.
DeepEnough == \A c \in Client : ChildAt(c, "readdir") => child[c].open # <<>>

LEMMA ChildTypeStep ==
  TreeTypeOK /\ DaemonTypeOK /\ ChildTypeOK /\ StreamTypeOK /\ DeepEnough /\ ServerNext
    => ChildTypeOK' /\ DeepEnough'
<1> SUFFICES ASSUME TreeTypeOK, DaemonTypeOK, ChildTypeOK, StreamTypeOK, DeepEnough,
                    ServerNext
             PROVE  ChildTypeOK' /\ DeepEnough'
  OBVIOUS
<1> USE DEF ChildTypeOK
<1>1. ASSUME UNCHANGED child PROVE ChildTypeOK' /\ DeepEnough'
  BY <1>1 DEF DeepEnough, ChildAt
<1>2. ASSUME NEW c \in Client, NEW l \in ChildLabels \ {"readdir"}, ChildGoto(c, l)
      PROVE  ChildTypeOK' /\ DeepEnough'
  BY <1>2 DEF ChildGoto, ChildState, DeepEnough, ChildAt
<1>3. ASSUME NEW c \in Client, NEW ch \in ChildState,
             child' = [child EXCEPT ![c] = ch], ch.pc = "readdir" => ch.open # <<>>
      PROVE  ChildTypeOK' /\ DeepEnough'
  BY <1>3 DEF DeepEnough, ChildAt
<1>4. Nothing \in Reply
  BY DEF Nothing, Answer, Reply
<1>5. ASSUME NEW c \in Client, NextRequest(c) PROVE ChildTypeOK' /\ DeepEnough'
  <2>1. Fresh("length") \in ChildState /\ Fresh("length").pc = "length"
    BY <1>4 DEF Fresh, ChildState, ChildLabels
  <2> QED BY <1>3, <1>5, <2>1 DEF NextRequest
<1>6. ASSUME NEW c \in Client, ReceivePath(c) PROVE ChildTypeOK' /\ DeepEnough'
  <2>1. CASE Part(toServer[c], "text")
    <3>1. toServer[c] \in Seq(ToServer) /\ toServer[c] # <<>>
          /\ Head(toServer[c]).part = "text"
      BY <2>1 DEF StreamTypeOK, Part
    <3>2. Head(toServer[c]) \in ToServer
      BY <3>1, HeadTailProperties
    <3>3. Head(toServer[c]).text \in Path
      BY <3>1, <3>2 DEF ToServer, Length, Text
    <3>4. CASE child' = [child EXCEPT ![c].pc = "stat",
                                     ![c].path = Head(toServer[c]).text]
      <4>1. /\ child'[c] \in ChildState /\ child'[c].pc # "readdir"
            /\ \A q \in Client \ {c} : child'[q] = child[q]
        BY <3>3, <3>4 DEF ChildState, ChildLabels
      <4>2. child' \in [Client -> ChildState]
        BY <3>4, <4>1
      <4> QED BY <4>1, <4>2 DEF DeepEnough, ChildAt
    <3> QED BY <1>6, <1>2, <3>4 DEF ReceivePath, ChildLabels
  <2>2. CASE ~Part(toServer[c], "text")
    BY <1>6, <1>2, <2>2 DEF ReceivePath, ChildLabels
  <2> QED BY <2>1, <2>2
<1>7. ASSUME NEW c \in Client, get_directories_recursive(c)
      PROVE ChildTypeOK' /\ DeepEnough'
  <2>1. child[c] \in ChildState
    OBVIOUS
  <2>2. \A err \in BOOLEAN : Answer(child[c].path, err, {}) \in Reply
    BY <2>1 DEF Answer, Reply, ChildState
  <2>3. CASE child' = [child EXCEPT ![c].pc = "opendir", ![c].todo = child[c].path,
                         ![c].answer = Answer(child[c].path, FALSE, {})]
    BY <2>1, <2>2, <2>3 DEF ChildState, ChildLabels, DeepEnough, ChildAt
  <2>4. CASE child' = [child EXCEPT ![c].pc = "send",
                         ![c].answer = Answer(child[c].path, TRUE, {})]
    BY <2>1, <2>2, <2>4 DEF ChildState, ChildLabels, DeepEnough, ChildAt
  <2> QED BY <1>7, <2>3, <2>4 DEF get_directories_recursive
<1>8. ASSUME NEW c \in Client, OpenDirectory(c) PROVE ChildTypeOK' /\ DeepEnough'
  <2>1. child[c] \in ChildState /\ child[c].open \in Seq(Level)
    BY DEF ChildState
  <2> DEFINE d == child[c].todo
             l == [must |-> Below(d) \cap fs, may |-> Below(d) \ fs]
  <2>2. l \in Level
    BY DEF Below, Level
  <2>3. Append(child[c].open, l) \in Seq(Level) /\ Append(child[c].open, l) # <<>>
    BY <2>1, <2>2, LevelsType, AppendProperties
  <2>4. CASE child' = [child EXCEPT ![c].pc = "readdir",
                                    ![c].open = Append(child[c].open, l)]
    <3> HIDE DEF l
    <3> QED BY <2>1, <2>3, <2>4 DEF ChildState, ChildLabels, DeepEnough, ChildAt
  <2>5. CASE child' = [child EXCEPT ![c].pc = "send", ![c].open = <<>>,
                         ![c].answer = Answer(child[c].path, TRUE, {})]
    <3>1. Answer(child[c].path, TRUE, {}) \in Reply /\ <<>> \in Seq(Level)
      BY <2>1 DEF Answer, Reply, ChildState
    <3> QED BY <2>1, <2>5, <3>1 DEF ChildState, ChildLabels, DeepEnough, ChildAt
  <2> QED BY <1>8, <2>4, <2>5 DEF OpenDirectory
<1>9. ASSUME NEW c \in Client, explore_directory_recursive(c)
      PROVE ChildTypeOK' /\ DeepEnough'
  <2>1. child[c] \in ChildState /\ child[c].open \in Seq(Level) /\ child[c].open # <<>>
    BY <1>9 DEF ChildState, DeepEnough, explore_directory_recursive
  <2> DEFINE n == Len(child[c].open)
             top == child[c].open[n]
             less(e) == [child[c].open EXCEPT ![n] =
                           [must |-> top.must \ {e}, may |-> top.may \ {e}]]
  <2>2. n \in 1 .. Len(child[c].open) /\ top \in Level
    BY <2>1, EmptySeq, ElementOfSeq
  <2>3. PICK e \in top.must \cup (top.may \cap fs), is \in BOOLEAN :
          /\ is \in is_directory(e)
          /\ child' = [child EXCEPT ![c] =
                         IF is
                         THEN [child[c] EXCEPT !.open = less(e), !.pc = "opendir",
                                               !.todo = e, !.answer.dirs = @ \cup {e}]
                         ELSE [child[c] EXCEPT !.open = less(e)]]
    BY <1>9 DEF explore_directory_recursive, is_directory
  <2>4. e \in Dir
    BY <2>2 DEF Level
  <2>5. [must |-> top.must \ {e}, may |-> top.may \ {e}] \in Level
    BY <2>2 DEF Level
  <2>6. less(e) \in Seq(Level) /\ Len(less(e)) = n /\ less(e) # <<>>
    BY <2>1, <2>2, <2>5, ExceptSeq
  <2> HIDE DEF less
  <2>7. CASE is
    <3> DEFINE ch == [child[c] EXCEPT !.open = less(e), !.pc = "opendir", !.todo = e,
                                      !.answer.dirs = @ \cup {e}]
    <3>1. ch \in ChildState /\ ch.pc = "opendir"
      BY <2>1, <2>4, <2>6 DEF ChildState, ChildLabels, Reply, Path
    <3>2. child' = [child EXCEPT ![c] = ch]
      BY <2>3, <2>7
    <3> HIDE DEF ch
    <3> QED BY <3>1, <3>2, <1>3
  <2>8. CASE ~is
    <3> DEFINE ch == [child[c] EXCEPT !.open = less(e)]
    <3>1. ch \in ChildState /\ ch.open # <<>>
      BY <2>1, <2>6 DEF ChildState
    <3>2. child' = [child EXCEPT ![c] = ch]
      BY <2>3, <2>8
    <3> HIDE DEF ch
    <3> QED BY <3>1, <3>2, <1>3
  <2> QED BY <2>7, <2>8
<1>10. ASSUME NEW c \in Client, CloseDirectory(c) PROVE ChildTypeOK' /\ DeepEnough'
  <2>1. child[c] \in ChildState /\ child[c].open \in Seq(Level) /\ child[c].open # <<>>
    BY <1>10 DEF ChildState, DeepEnough, CloseDirectory
  <2> DEFINE n == Len(child[c].open)
             s == SubSeq(child[c].open, 1, n - 1)
  <2>2. n \in Nat \ {0}
    BY <2>1, EmptySeq
  <2>4. s \in Seq(Level) /\ Len(s) = n - 1
    BY <2>1, LevelsType
  <2>5. n # 1 => s # <<>>
    <3> HIDE DEF s, n
    <3> QED BY <2>2, <2>4
  <2>3. child' = [child EXCEPT ![c].open = s,
                               ![c].pc = IF n = 1 THEN "send" ELSE "readdir"]
    BY <1>10 DEF CloseDirectory
  <2> HIDE DEF s, n
  <2> QED BY <2>1, <2>2, <2>3, <2>4, <2>5 DEF ChildState, ChildLabels, DeepEnough, ChildAt
<1>11. CASE Fork
  BY <1>2, <1>11 DEF Fork, DaemonTypeOK, ChildLabels
<1>12. CASE sigchld_handler
  BY <1>12 DEF sigchld_handler, ChildState, ChildLabels, DeepEnough, ChildAt
<1>13. ASSUME NEW c \in Client, ReceiveRequestLength(c) \/ Exit(c)
       PROVE  \E l \in ChildLabels \ {"readdir"} : ChildGoto(c, l)
  BY <1>13 DEF ReceiveRequestLength, Exit, ChildLabels
<1>14. ASSUME NEW c \in Client, SendAnswerLength(c) \/ SendAnswerText(c)
       PROVE  NextRequest(c) \/ \E l \in ChildLabels \ {"readdir"} : ChildGoto(c, l)
  BY <1>14 DEF SendAnswerLength, SendAnswerText, ChildLabels
<1>15. ASSUME NEW c \in Client, connect_to_server(c) \/ SendLength(c) \/ Run(c) \/ Quit(c)
       PROVE  UNCHANGED child
  BY <1>15 DEF connect_to_server, SendLength, Run, SendText, ReceiveLength, ReceiveText,
               Quit
<1>16. ASSUME NEW d \in Dir, mkdir(d) \/ rmdir(d) PROVE UNCHANGED child
  BY <1>16 DEF mkdir, rmdir
<1>17. ASSUME accept \/ signal_handler PROVE UNCHANGED child
  BY <1>17 DEF accept, signal_handler
<1> QED BY <1>1, <1>2, <1>5, <1>6, <1>7, <1>8, <1>9, <1>10, <1>11, <1>12, <1>13, <1>14,
           <1>15, <1>16, <1>17 DEF ServerNext, handle_client

LEMMA StreamTypeStep ==
  ClientTypeOK /\ Requested /\ ChildTypeOK /\ StreamTypeOK /\ ServerNext => StreamTypeOK'
<1> SUFFICES ASSUME ClientTypeOK, Requested, ChildTypeOK, StreamTypeOK, ServerNext
             PROVE  StreamTypeOK'
  OBVIOUS
<1> USE DEF StreamTypeOK
<1>1. ASSUME UNCHANGED streams PROVE StreamTypeOK'
  BY <1>1 DEF streams
<1>2. ASSUME NEW c \in Client, NEW m \in ToServer, UNCHANGED toClient,
             \/ UNCHANGED toServer
             \/ toServer' = [toServer EXCEPT ![c] = Append(@, m)]
      PROVE  StreamTypeOK'
  <2>1. Append(toServer[c], m) \in Seq(ToServer)
    BY <1>2, AppendProperties
  <2> QED BY <1>2, <2>1
<1>3. ASSUME NEW c \in Client, NEW m \in ToClient, UNCHANGED toServer,
             \/ UNCHANGED toClient
             \/ toClient' = [toClient EXCEPT ![c] = Append(@, m)]
      PROVE  StreamTypeOK'
  <2>1. Append(toClient[c], m) \in Seq(ToClient)
    BY <1>3, AppendProperties
  <2> QED BY <1>3, <2>1
<1>4. ASSUME NEW c \in Client, UNCHANGED toClient, toServer[c] # <<>>,
             toServer' = [toServer EXCEPT ![c] = Tail(@)]
      PROVE  StreamTypeOK'
  <2>1. Tail(toServer[c]) \in Seq(ToServer)
    BY <1>4, HeadTailProperties
  <2> QED BY <1>4, <2>1
<1>5. ASSUME NEW c \in Client, UNCHANGED toServer, toClient[c] # <<>>,
             toClient' = [toClient EXCEPT ![c] = Tail(@)]
      PROVE  StreamTypeOK'
  <2>1. Tail(toClient[c]) \in Seq(ToClient)
    BY <1>5, HeadTailProperties
  <2> QED BY <1>5, <2>1
<1>6. ASSUME NEW c \in Client, SendLength(c) PROVE StreamTypeOK'
  <2>1. Length(FALSE) \in ToServer
    BY DEF ToServer
  <2>2. /\ UNCHANGED toClient
        /\ \/ UNCHANGED toServer
           \/ toServer' = [toServer EXCEPT ![c] = Append(@, Length(FALSE))]
    BY <1>6 DEF SendLength, StreamTypeOK
  <2> QED BY <2>1, <2>2, <1>2
<1>7. ASSUME NEW c \in Client, SendText(c) PROVE StreamTypeOK'
  <2>1. Text(client[c].req) \in ToServer
    BY <1>7 DEF SendText, Requested, ToServer
  <2>2. /\ UNCHANGED toClient
        /\ \/ UNCHANGED toServer
           \/ toServer' = [toServer EXCEPT ![c] = Append(@, Text(client[c].req))]
    BY <1>7 DEF SendText, StreamTypeOK
  <2> QED BY <2>1, <2>2, <1>2
<1>8. ASSUME NEW c \in Client, SendAnswerLength(c) PROVE StreamTypeOK'
  <2>1. Length(Empty(child[c].answer)) \in ToClient
    BY DEF ToClient, Empty
  <2>2. /\ UNCHANGED toServer
        /\ \/ UNCHANGED toClient
           \/ toClient' = [toClient EXCEPT ![c] = Append(@, Length(Empty(child[c].answer)))]
    BY <1>8 DEF SendAnswerLength, StreamTypeOK
  <2> QED BY <2>1, <2>2, <1>3
<1>9. ASSUME NEW c \in Client, SendAnswerText(c) PROVE StreamTypeOK'
  <2>1. Text(child[c].answer) \in ToClient
    BY DEF ToClient, ChildTypeOK, ChildState
  <2>2. /\ UNCHANGED toServer
        /\ \/ UNCHANGED toClient
           \/ toClient' = [toClient EXCEPT ![c] = Append(@, Text(child[c].answer))]
    BY <1>9 DEF SendAnswerText, StreamTypeOK
  <2> QED BY <2>1, <2>2, <1>3
<1>10. ASSUME NEW c \in Client, ReceiveLength(c) \/ ReceiveText(c) PROVE StreamTypeOK'
  BY <1>10, <1>1, <1>5 DEF ReceiveLength, ReceiveText, Part, streams
<1>11. ASSUME NEW c \in Client, ReceiveRequestLength(c) \/ ReceivePath(c)
       PROVE  StreamTypeOK'
  BY <1>11, <1>1, <1>4 DEF ReceiveRequestLength, ReceivePath, Part, streams
<1>12. ASSUME NEW c \in Client,
              \/ connect_to_server(c) \/ Quit(c) \/ get_directories_recursive(c)
              \/ OpenDirectory(c) \/ explore_directory_recursive(c)
              \/ CloseDirectory(c) \/ Exit(c)
       PROVE  UNCHANGED streams
  BY <1>12 DEF connect_to_server, Quit, get_directories_recursive, OpenDirectory,
               explore_directory_recursive, CloseDirectory, Exit
<1>13. ASSUME NEW d \in Dir, mkdir(d) \/ rmdir(d) PROVE UNCHANGED streams
  BY <1>13 DEF mkdir, rmdir
<1>14. ASSUME accept \/ Fork \/ signal_handler \/ sigchld_handler PROVE UNCHANGED streams
  BY <1>14 DEF accept, Fork, signal_handler, sigchld_handler
<1> QED BY <1>1, <1>6, <1>7, <1>8, <1>9, <1>10, <1>11, <1>12, <1>13, <1>14
        DEF ServerNext, handle_client, Run

ServerInRange == ServerTypeOK /\ Requested /\ DeepEnough

\* Values stay in range: requests are paths, answers and lists hold directories,
\* and explore_directory_recursive never reads with no directory open.
THEOREM ServerTypeCorrect == ServerSpec => []ServerInRange
<1>1. ServerInit => ServerInRange
  <2> SUFFICES ASSUME ServerInit PROVE ServerInRange
    OBVIOUS
  <2>1. Nothing \in Reply
    BY DEF Nothing, Answer, Reply
  <2>2. TreeTypeOK
    BY TreeAssumption DEF ServerInit, TreeTypeOK
  <2>3. DaemonTypeOK
    BY EmptySeq DEF ServerInit, DaemonTypeOK
  <2>4. ClientTypeOK /\ Requested
    BY <2>1 DEF ServerInit, ClientTypeOK, ClientState, ClientLabels, Requested, ClientAt
  <2>5. ChildTypeOK /\ DeepEnough
    <3>1. Fresh("none") \in ChildState /\ Fresh("none").pc = "none"
      BY <2>1 DEF Fresh, ChildState, ChildLabels
    <3> QED BY <3>1 DEF ServerInit, ChildTypeOK, DeepEnough, ChildAt
  <2>6. StreamTypeOK
    BY DEF ServerInit, StreamTypeOK
  <2> QED BY <2>2, <2>3, <2>4, <2>5, <2>6 DEF ServerInRange, ServerTypeOK
<1>2. ServerInRange /\ UNCHANGED serverVars => ServerInRange'
  BY DEF ServerInRange, ServerTypeOK, TreeTypeOK, DaemonTypeOK, ClientTypeOK,
         ChildTypeOK, StreamTypeOK, Requested, DeepEnough, ClientAt, ChildAt,
         serverVars, tree, daemon, streams
<1>3. ServerInRange /\ ServerNext => ServerInRange'
  BY TreeTypeStep, DaemonTypeStep, ClientTypeStep, ChildTypeStep, StreamTypeStep
     DEF ServerInRange, ServerTypeOK
<1> QED BY <1>1, <1>2, <1>3, PTL DEF ServerSpec

-------------------------------------------------------------------------------
(* The search.                                                             *)

\* What readdir must still return in one of the open directories.
Pending(d, levels) == \E i \in 1 .. Len(levels) : d \in levels[i].must

\* Of what was there all the time, is not hidden and is in a directory that is listed, nothing
\* is forgotten: it is listed, or is to be read in an open directory, or in the
\* one to be opened next.
Accounted(ch, al) ==
    \A d \in al \ Hidden :
      Parent[d] # d /\ Parent[d] \in ch.answer.dirs \cup {ch.answer.of} =>
        \/ d \in ch.answer.dirs
        \/ Pending(d, ch.open)
        \/ ch.pc = "opendir" /\ Parent[d] = ch.todo

\* Everything listed was there at some moment, and is beneath the base.
Sound(ch, ev) ==
    /\ ch.answer.dirs \subseteq ev \cap Beneath(ch.answer.of)
    /\ \A i \in 1 .. Len(ch.open) :
          ch.open[i].must \cup ch.open[i].may \subseteq Beneath(ch.answer.of)

SearchOK(ch, al, ev, now) ==
    /\ al \subseteq now /\ \A d \in al : Parent[d] \in al
    /\ \/ ch.pc \in {"opendir", "readdir"}
       \/ ch.pc = "send" /\ ~ch.answer.err
       => /\ ch.answer.of \in Dir /\ now \subseteq ev
          /\ Accounted(ch, al) /\ Sound(ch, ev)
    /\ ch.pc = "opendir" => ch.todo \in ch.answer.dirs \cup {ch.answer.of}
    /\ ch.pc \in {"none", "refused", "length", "path", "stat", "send"} => ch.open = <<>>

FsClosed == \A d \in fs : Parent[d] \in fs

SearchInv ==
    FsClosed /\ \A c \in Client : SearchOK(child[c], always[c], ever[c], fs)

LEMMA SearchEnds ==
  ASSUME NEW ch, NEW al \in SUBSET Dir, NEW ev, NEW now,
         SearchOK(ch, al, ev, now), ch.pc = "send", ~ch.answer.err
  PROVE  /\ al \cap Visible(ch.answer.of) \subseteq ch.answer.dirs
         /\ ch.answer.dirs \subseteq ev \cap Beneath(ch.answer.of)
<1>1. ch.answer.of \in Dir /\ Accounted(ch, al) /\ Sound(ch, ev) /\ ch.open = <<>>
  BY DEF SearchOK
<1>2. \A d \in al \ Hidden : Parent[d] # d /\ Parent[d] \in ch.answer.dirs \cup {ch.answer.of}
                       => d \in ch.answer.dirs
  BY <1>1 DEF Accounted, Pending
<1>3. \A d \in al : Parent[d] \in al
  BY DEF SearchOK
<1> QED BY <1>1, <1>2, <1>3, AllBeneath DEF Sound

LEMMA SearchStarts ==
  ASSUME NEW ch, NEW now \in SUBSET Dir, \A d \in now : Parent[d] \in now,
         ch.pc = "opendir", ch.answer = Answer(ch.todo, FALSE, {}), ch.todo \in now,
         ch.open = <<>>
  PROVE  SearchOK(ch, now, now, now)
  BY DEF SearchOK, Accounted, Sound, Answer

LEMMA LevelOpens ==
  ASSUME NEW ch \in ChildState, NEW al \in SUBSET Dir, NEW ev, NEW now \in SUBSET Dir,
         NEW new, SearchOK(ch, al, ev, now), ch.pc = "opendir", new.pc = "readdir",
         new.answer = ch.answer,
         new.open = Append(ch.open, [must |-> Below(ch.todo) \cap now,
                                     may |-> Below(ch.todo) \ now])
  PROVE  SearchOK(new, al, ev, now)
<1> DEFINE l == [must |-> Below(ch.todo) \cap now, may |-> Below(ch.todo) \ now]
<1>1. /\ ch.answer.of \in Dir /\ Accounted(ch, al) /\ Sound(ch, ev)
      /\ ch.todo \in ch.answer.dirs \cup {ch.answer.of}
      /\ al \subseteq now /\ now \subseteq ev
  BY DEF SearchOK
<1>2. /\ Len(ch.open) \in Nat /\ Len(new.open) = Len(ch.open) + 1
      /\ \A i \in 1 .. Len(ch.open) : new.open[i] = ch.open[i]
      /\ new.open[Len(ch.open) + 1] = l
  <2>1. l \in Level
    BY DEF Below, Level
  <2>2. ch.open \in Seq(Level)
    BY DEF ChildState
  <2> HIDE DEF l
  <2> QED BY <2>1, <2>2, AppendProperties DEF l
<1>3. Below(ch.todo) \subseteq Beneath(ch.answer.of)
  BY <1>1, BelowIsBeneath DEF Sound
<1>4. Sound(new, ev)
  <2>1. ASSUME NEW i \in 1 .. Len(new.open)
        PROVE  new.open[i].must \cup new.open[i].may \subseteq Beneath(new.answer.of)
    <3>1. CASE i \in 1 .. Len(ch.open)
      BY <1>1, <1>2, <3>1 DEF Sound
    <3>2. CASE i = Len(ch.open) + 1
      BY <1>2, <1>3, <3>2
    <3> QED BY <1>2, <3>1, <3>2
  <2> QED BY <1>1, <2>1 DEF Sound
<1>5. Accounted(new, al)
  <2> SUFFICES ASSUME NEW d \in al \ Hidden, Parent[d] # d,
                      Parent[d] \in ch.answer.dirs \cup {ch.answer.of},
                      d \notin ch.answer.dirs
               PROVE  Pending(d, new.open)
    BY DEF Accounted
  <2>1. CASE Pending(d, ch.open)
    BY <1>2, <2>1 DEF Pending
  <2>2. CASE Parent[d] = ch.todo
    <3>1. d \in l.must
      BY <1>1, <2>2 DEF Below
    <3> HIDE DEF l
    <3> QED BY <1>2, <3>1 DEF Pending
  <2> QED BY <1>1, <2>1, <2>2 DEF Accounted
<1> QED BY <1>1, <1>4, <1>5 DEF SearchOK

\* The entry taken from the directory opened last: nothing else leaves a level.
LEMMA EntryTaken ==
  ASSUME NEW s \in Seq(Level), s # <<>>, NEW e,
         NEW t, t = [s EXCEPT ![Len(s)] = [must |-> s[Len(s)].must \ {e},
                                           may |-> s[Len(s)].may \ {e}]]
  PROVE  /\ Len(t) = Len(s)
         /\ \A d : d # e /\ Pending(d, s) => Pending(d, t)
         /\ \A i \in 1 .. Len(t) :
               t[i].must \subseteq s[i].must /\ t[i].may \subseteq s[i].may
<1> DEFINE n == Len(s)
           l == [must |-> s[n].must \ {e}, may |-> s[n].may \ {e}]
<1>1. n \in 1 .. n
  BY EmptySeq
<1>2. l \in Level
  BY <1>1, ElementOfSeq DEF Level
<1>3. /\ Len(t) = n /\ t[n] = l /\ \A i \in 1 .. n : i # n => t[i] = s[i]
  <2>1. t = [s EXCEPT ![n] = l]
    OBVIOUS
  <2> HIDE DEF l
  <2> QED BY <1>1, <1>2, <2>1, ExceptSeq
<1>6. t[n].must = s[n].must \ {e} /\ t[n].may = s[n].may \ {e}
  <2>1. l.must = s[n].must \ {e} /\ l.may = s[n].may \ {e}
    OBVIOUS
  <2> HIDE DEF l
  <2> QED BY <1>3, <2>1
<1> HIDE DEF l, n
<1>4. \A i \in 1 .. n :
         t[i].must \subseteq s[i].must /\ t[i].may \subseteq s[i].may
  BY <1>3, <1>6
<1>5. ASSUME NEW d, d # e, Pending(d, s) PROVE Pending(d, t)
  <2>1. PICK i \in 1 .. n : d \in s[i].must
    BY <1>5 DEF Pending, n
  <2>2. d \in t[i].must
    BY <1>3, <1>5, <1>6, <2>1
  <2> QED BY <1>3, <2>1, <2>2 DEF Pending
<1> QED BY <1>3, <1>4, <1>5 DEF n

LEMMA EntryListed ==
  ASSUME NEW ch \in ChildState, NEW al \in SUBSET Dir, NEW ev, NEW now \in SUBSET Dir,
         SearchOK(ch, al, ev, now), ch.pc = "readdir", ch.open # <<>>,
         NEW e \in ch.open[Len(ch.open)].must \cup ch.open[Len(ch.open)].may, e \in now,
         NEW new, new.pc = "opendir", new.todo = e,
         new.answer = [ch.answer EXCEPT !.dirs = @ \cup {e}],
         new.open = [ch.open EXCEPT ![Len(ch.open)] =
                       [must |-> ch.open[Len(ch.open)].must \ {e},
                        may |-> ch.open[Len(ch.open)].may \ {e}]]
  PROVE  SearchOK(new, al, ev, now)
<1>1. /\ ch.answer.of \in Dir /\ Accounted(ch, al) /\ Sound(ch, ev)
      /\ al \subseteq now /\ now \subseteq ev
  BY DEF SearchOK
<1>2. /\ ch.open \in Seq(Level) /\ Len(ch.open) \in 1 .. Len(ch.open)
      /\ ch.answer \in Reply
  BY EmptySeq DEF ChildState
<1>3. /\ new.answer.of = ch.answer.of /\ new.answer.dirs = ch.answer.dirs \cup {e}
  BY <1>2 DEF Reply
<1>4. /\ Len(new.open) = Len(ch.open)
      /\ \A d : d # e /\ Pending(d, ch.open) => Pending(d, new.open)
      /\ \A i \in 1 .. Len(new.open) : /\ new.open[i].must \subseteq ch.open[i].must
                                       /\ new.open[i].may \subseteq ch.open[i].may
  <2>1. ch.open \in Seq(Level)
    BY <1>2
  <2> QED BY <2>1, EntryTaken
<1>5. e \in Beneath(ch.answer.of) /\ e \in ev
  BY <1>1, <1>2 DEF Sound
<1>6. Sound(new, ev)
  BY <1>1, <1>3, <1>4, <1>5 DEF Sound
<1>7. Accounted(new, al)
  BY <1>1, <1>3, <1>4 DEF Accounted
<1> QED BY <1>1, <1>3, <1>6, <1>7 DEF SearchOK

LEMMA EntryGone ==
  ASSUME NEW ch \in ChildState, NEW al \in SUBSET Dir, NEW ev, NEW now \in SUBSET Dir,
         SearchOK(ch, al, ev, now), ch.pc = "readdir", ch.open # <<>>,
         NEW e, e \notin now \ Hidden,
         NEW new, new.pc = "readdir", new.answer = ch.answer,
         new.open = [ch.open EXCEPT ![Len(ch.open)] =
                       [must |-> ch.open[Len(ch.open)].must \ {e},
                        may |-> ch.open[Len(ch.open)].may \ {e}]]
  PROVE  SearchOK(new, al, ev, now)
<1>1. /\ ch.answer.of \in Dir /\ Accounted(ch, al) /\ Sound(ch, ev)
      /\ al \subseteq now /\ now \subseteq ev
  BY DEF SearchOK
<1>2. ch.open \in Seq(Level)
  BY DEF ChildState
<1>3. /\ Len(new.open) = Len(ch.open)
      /\ \A d : d # e /\ Pending(d, ch.open) => Pending(d, new.open)
      /\ \A i \in 1 .. Len(new.open) : /\ new.open[i].must \subseteq ch.open[i].must
                                       /\ new.open[i].may \subseteq ch.open[i].may
  BY <1>2, EntryTaken
<1>4. Sound(new, ev)
  BY <1>1, <1>3 DEF Sound
<1>5. Accounted(new, al)
  BY <1>1, <1>3 DEF Accounted
<1> QED BY <1>1, <1>4, <1>5 DEF SearchOK

LEMMA LevelCloses ==
  ASSUME NEW ch \in ChildState, NEW al \in SUBSET Dir, NEW ev, NEW now \in SUBSET Dir,
         SearchOK(ch, al, ev, now), ch.pc = "readdir", ch.open # <<>>,
         ch.open[Len(ch.open)].must = {},
         NEW new, new.answer = ch.answer,
         new.open = SubSeq(ch.open, 1, Len(ch.open) - 1),
         new.pc = IF Len(ch.open) = 1 THEN "send" ELSE "readdir"
  PROVE  SearchOK(new, al, ev, now)
<1>1. /\ ch.answer.of \in Dir /\ Accounted(ch, al) /\ Sound(ch, ev)
      /\ al \subseteq now /\ now \subseteq ev /\ \A d \in al : Parent[d] \in al
  BY DEF SearchOK
<1>2. /\ ch.open \in Seq(Level) /\ Len(ch.open) \in Nat \ {0}
  BY EmptySeq DEF ChildState
<1>3. /\ new.open \in Seq(Level) /\ Len(new.open) = Len(ch.open) - 1
      /\ \A i \in 1 .. Len(ch.open) - 1 : new.open[i] = ch.open[i]
  BY <1>2, LevelsType
<1>4. Sound(new, ev)
  BY <1>1, <1>2, <1>3 DEF Sound
<1>5. ASSUME NEW d, Pending(d, ch.open) PROVE Pending(d, new.open)
  BY <1>2, <1>3, <1>5 DEF Pending
<1>6. Accounted(new, al)
  BY <1>1, <1>5 DEF Accounted
<1>7. new.pc = "send" => new.open = <<>>
  <2>1. ASSUME Len(ch.open) = 1 PROVE new.open = <<>>
    BY <1>3, <2>1, EmptySeq
  <2> QED BY <2>1
<1> QED BY <1>1, <1>4, <1>6, <1>7 DEF SearchOK

-------------------------------------------------------------------------------
(* The connections that wait: each client is in the queue once, or has been  *)
(* taken out of it for the fork, and has no child yet.                      *)

Waits(c) == ~ClientAt(c, "off") /\ ChildAt(c, "none")

QueueInv ==
    /\ \A i \in 1 .. Len(backlog) : Waits(backlog[i])
    /\ \A i, j \in 1 .. Len(backlog) : backlog[i] = backlog[j] => i = j
    /\ main = "fork" => /\ Waits(serving)
                        /\ \A i \in 1 .. Len(backlog) : backlog[i] # serving
    /\ \A c \in Client : ClientAt(c, "off") => ChildAt(c, "none")

\* Nothing but connect_to_server and the fork ends the state a client is in.
LEMMA StaysUnserved ==
  ASSUME ServerInRange, ServerNext, ~Fork, NEW q \in Client
  PROVE  /\ ChildAt(q, "none") => ChildAt(q, "none")'
         /\ ~ClientAt(q, "off") => ~ClientAt(q, "off")'
<1>t. client \in [Client -> ClientState] /\ child \in [Client -> ChildState]
  BY DEF ServerInRange, ServerTypeOK, ClientTypeOK, ChildTypeOK
<1>f. client[q] \in ClientState /\ child[q] \in ChildState
  BY <1>t
<1>1. ASSUME NEW c \in Client, connect_to_server(c) \/ Run(c) \/ SendLength(c) \/ Quit(c)
      PROVE  ~ClientAt(q, "off") => ~ClientAt(q, "off")'
  <2>1. ASSUME NEW l \in ClientLabels \ {"off"}, ClientGoto(c, l)
        PROVE  ~ClientAt(q, "off") => ~ClientAt(q, "off")'
    BY <1>t, <2>1 DEF ClientGoto, ClientAt, ClientState
  <2>2. CASE connect_to_server(c) \/ SendText(c) \/ ReceiveLength(c)
    <3>1. \E l \in ClientLabels \ {"off"} : ClientGoto(c, l)
      BY <2>2 DEF connect_to_server, SendText, ReceiveLength, ClientLabels
    <3> QED BY <2>1, <3>1
  <2>3. CASE ReceiveText(c) \/ SendLength(c) \/ Quit(c)
    <3>1. q # c => client'[q] = client[q]
      BY <1>t, <2>3 DEF ReceiveText, SendLength, Quit, ClientGoto
    <3>2. client'[c].pc \in {"done", "prompt", "body"}
      <4>1. client[c] \in ClientState
        BY <1>t
      <4>2. CASE ReceiveText(c)
        BY <1>t, <4>1, <4>2 DEF ReceiveText, ClientGoto, ClientState
      <4>3. CASE SendLength(c)
        BY <1>t, <4>1, <4>3 DEF SendLength, ClientState
      <4>4. CASE Quit(c)
        BY <1>t, <4>1, <4>4 DEF Quit, ClientState
      <4> QED BY <2>3, <4>2, <4>3, <4>4
    <3> QED BY <3>1, <3>2 DEF ClientAt
  <2> QED BY <1>1, <2>2, <2>3 DEF Run
<1>2. ASSUME UNCHANGED client PROVE ~ClientAt(q, "off") => ~ClientAt(q, "off")'
  BY <1>2 DEF ClientAt
<1>3. ASSUME NEW c \in Client, handle_client(c) PROVE ChildAt(q, "none") => ChildAt(q, "none")'
  <2>1. ~ChildAt(c, "none")
    BY <1>3 DEF handle_client, ReceiveRequestLength, ReceivePath, OpenDirectory,
                get_directories_recursive, explore_directory_recursive, CloseDirectory,
                SendAnswerLength, SendAnswerText, Exit, ChildAt
  <2>2. q # c => child'[q] = child[q]
    BY <1>3, <1>t DEF handle_client, ReceiveRequestLength, ReceivePath, OpenDirectory,
                get_directories_recursive, explore_directory_recursive, CloseDirectory,
                SendAnswerLength, SendAnswerText, Exit, ChildGoto, NextRequest
  <2> QED BY <2>1, <2>2 DEF ChildAt
<1>4. ASSUME sigchld_handler \/ UNCHANGED child
      PROVE  ChildAt(q, "none") => ChildAt(q, "none")'
  BY <1>4, <1>t DEF sigchld_handler, ChildAt
<1>5. ASSUME NEW c \in Client, connect_to_server(c) \/ SendLength(c) \/ Run(c) \/ Quit(c)
      PROVE  UNCHANGED child
  BY <1>5 DEF connect_to_server, SendLength, Run, SendText, ReceiveLength, ReceiveText,
              Quit
<1>6. ASSUME NEW c \in Client, handle_client(c) PROVE UNCHANGED client
  BY <1>6 DEF handle_client, ReceiveRequestLength, ReceivePath, OpenDirectory,
              get_directories_recursive, explore_directory_recursive, CloseDirectory,
              SendAnswerLength, SendAnswerText, Exit
<1>7. ASSUME NEW d \in Dir, mkdir(d) \/ rmdir(d) PROVE UNCHANGED <<client, child>>
  BY <1>7 DEF mkdir, rmdir
<1>8. ASSUME accept \/ signal_handler PROVE UNCHANGED <<client, child>>
  BY <1>8 DEF accept, signal_handler
<1>9. ASSUME sigchld_handler PROVE UNCHANGED client
  BY <1>9 DEF sigchld_handler
<1> QED BY <1>1, <1>2, <1>3, <1>4, <1>5, <1>6, <1>7, <1>8, <1>9 DEF ServerNext

LEMMA QueueStep == ServerInRange /\ QueueInv /\ ServerNext => QueueInv'
<1> SUFFICES ASSUME ServerInRange, QueueInv, ServerNext PROVE QueueInv'
  OBVIOUS
<1>t. /\ client \in [Client -> ClientState] /\ child \in [Client -> ChildState]
      /\ backlog \in Seq(Client) /\ (main = "fork" => serving \in Client)
      /\ \A i \in 1 .. Len(backlog) : backlog[i] \in Client
  <2>1. backlog \in Seq(Client)
    BY DEF ServerInRange, ServerTypeOK, DaemonTypeOK
  <2> QED BY <2>1, ElementOfSeq
          DEF ServerInRange, ServerTypeOK, ClientTypeOK, ChildTypeOK, DaemonTypeOK
<1>1. CASE Fork
  <2>1. /\ UNCHANGED <<client, backlog>> /\ serving \in Client /\ main' # "fork"
        /\ \A c \in Client : c # serving => child'[c] = child[c]
    BY <1>1, <1>t DEF Fork, ChildGoto
  <2>2. ~ClientAt(serving, "off") /\ \A i \in 1 .. Len(backlog) : backlog[i] # serving
    BY <1>1 DEF Fork, QueueInv, Waits
  <2> QED BY <1>t, <2>1, <2>2 DEF QueueInv, Waits, ClientAt, ChildAt
<1>2. CASE ~Fork
  <2>1. ASSUME NEW c \in Client, Waits(c) PROVE Waits(c)'
    BY <1>2, <2>1, StaysUnserved DEF Waits
  <2>2. \A c \in Client : ClientAt(c, "off")' => ChildAt(c, "none")'
    BY <1>2, StaysUnserved DEF QueueInv
  <2>3. CASE UNCHANGED <<main, backlog, serving>>
    BY <1>t, <2>1, <2>2, <2>3 DEF QueueInv
  <2>4. CASE accept
    <3>1. /\ backlog # <<>> /\ serving' = backlog[1] /\ main' = "fork"
          /\ Len(backlog) \in Nat \ {0} /\ Len(backlog') = Len(backlog) - 1
          /\ \A i \in 1 .. Len(backlog') : backlog'[i] = backlog[i + 1]
      BY <1>t, <2>4, HeadTailProperties, EmptySeq DEF accept
    <3>2. \A i \in 1 .. Len(backlog') : backlog'[i] # serving'
      BY <3>1 DEF QueueInv
    <3>3. Waits(serving)'
      <4>1. PICK q \in Client : q = backlog[1] /\ Waits(q)
        BY <1>t, <3>1 DEF QueueInv
      <4>2. Waits(q)'
        BY <2>1, <4>1
      <4> QED BY <3>1, <4>1, <4>2 DEF Waits, ClientAt, ChildAt
    <3>4. ASSUME NEW i \in 1 .. Len(backlog') PROVE Waits(backlog[i])'
      <4>1. PICK q \in Client : q = backlog[i + 1] /\ Waits(q)
        BY <1>t, <3>1 DEF QueueInv
      <4>2. Waits(q)'
        BY <2>1, <4>1
      <4> QED BY <3>1, <4>1, <4>2 DEF Waits, ClientAt, ChildAt
    <3>5. \A i, j \in 1 .. Len(backlog') : backlog'[i] = backlog'[j] => i = j
      BY <3>1 DEF QueueInv
    <3> QED BY <2>2, <3>2, <3>3, <3>4, <3>5 DEF QueueInv
  <2>5. ASSUME NEW c \in Client, connect_to_server(c), ~UNCHANGED backlog PROVE QueueInv'
    <3>1. /\ ClientAt(c, "off") /\ ChildAt(c, "none") /\ backlog' = Append(backlog, c)
          /\ UNCHANGED <<main, serving, child>> /\ ClientGoto(c, "prompt")
      BY <2>5 DEF connect_to_server, QueueInv
    <3>2. Waits(c)'
      BY <1>t, <3>1 DEF Waits, ClientAt, ChildAt, ClientGoto, ClientState
    <3>3. /\ Len(backlog') = Len(backlog) + 1 /\ Len(backlog) \in Nat
          /\ backlog'[Len(backlog) + 1] = c
          /\ \A i \in 1 .. Len(backlog) : backlog'[i] = backlog[i]
      BY <1>t, <3>1, AppendProperties
    <3>4. (\A i \in 1 .. Len(backlog) : backlog[i] # c) /\ (main = "fork" => serving # c)
      BY <3>1 DEF QueueInv, Waits
    <3>5. ASSUME NEW i \in 1 .. Len(backlog') PROVE Waits(backlog[i])'
      <4>1. CASE i \in 1 .. Len(backlog)
        <5>1. PICK q \in Client : q = backlog[i] /\ Waits(q)
          BY <1>t, <4>1 DEF QueueInv
        <5>2. Waits(q)'
          BY <2>1, <5>1
        <5> QED BY <3>3, <4>1, <5>1, <5>2 DEF Waits, ClientAt, ChildAt
      <4>2. CASE i = Len(backlog) + 1
        BY <3>2, <3>3, <4>2 DEF Waits, ClientAt, ChildAt
      <4> QED BY <3>3, <4>1, <4>2
    <3>6. main' = "fork" => Waits(serving)' /\ \A i \in 1 .. Len(backlog') : backlog'[i] # serving'
      <4> SUFFICES ASSUME main' = "fork"
                   PROVE  Waits(serving)' /\ \A i \in 1 .. Len(backlog') : backlog'[i] # serving'
        OBVIOUS
      <4>1. serving \in Client /\ serving' = serving /\ Waits(serving) /\ serving # c
            /\ \A i \in 1 .. Len(backlog) : backlog[i] # serving
        BY <1>t, <3>1, <3>4 DEF QueueInv
      <4>2. Waits(serving)'
        BY <1>t, <3>1, <4>1 DEF Waits, ClientAt, ChildAt, ClientGoto
      <4> QED BY <3>3, <4>1, <4>2
    <3>7. \A i, j \in 1 .. Len(backlog') : backlog'[i] = backlog'[j] => i = j
      BY <3>3, <3>4 DEF QueueInv
    <3> QED BY <2>2, <3>5, <3>6, <3>7 DEF QueueInv
  <2>6. ASSUME NEW c \in Client,
               \/ connect_to_server(c) /\ UNCHANGED backlog
               \/ SendLength(c) \/ Run(c) \/ Quit(c) \/ handle_client(c)
        PROVE  UNCHANGED <<main, backlog, serving>>
    BY <2>6 DEF connect_to_server, SendLength, Run, SendText, ReceiveLength, ReceiveText,
                Quit, handle_client, ReceiveRequestLength, ReceivePath, OpenDirectory,
                get_directories_recursive, explore_directory_recursive, CloseDirectory,
                SendAnswerLength, SendAnswerText, Exit, daemon
  <2>7. ASSUME NEW d \in Dir, mkdir(d) \/ rmdir(d) PROVE UNCHANGED <<main, backlog, serving>>
    BY <2>7 DEF mkdir, rmdir, daemon
  <2>8. ASSUME signal_handler \/ sigchld_handler PROVE UNCHANGED <<main, backlog, serving>>
    BY <2>8 DEF signal_handler, sigchld_handler
  <2> QED BY <1>2, <2>3, <2>4, <2>5, <2>6, <2>7, <2>8 DEF ServerNext
<1> QED BY <1>1, <1>2

LEMMA QueueKept == ServerSpec => []QueueInv
<1>1. ServerInit => QueueInv
  BY EmptySeq DEF ServerInit, QueueInv, ClientAt, ChildAt, Fresh
<1>2. QueueInv /\ UNCHANGED serverVars => QueueInv'
  BY DEF QueueInv, Waits, ClientAt, ChildAt, serverVars, daemon
<1>3. ServerInRange /\ QueueInv /\ [ServerNext]_serverVars => QueueInv'
  BY <1>2, QueueStep
<1> QED BY <1>1, <1>3, ServerTypeCorrect, PTL DEF ServerSpec

-------------------------------------------------------------------------------
(* The listing is complete.                                                *)

LEMMA NoSearch ==
  ASSUME NEW ch, NEW al, NEW ev, NEW now, al \subseteq now, \A d \in al : Parent[d] \in al,
         ch.pc \notin {"opendir", "readdir", "send"},
         ch.pc \in {"none", "refused", "length", "path", "stat"} => ch.open = <<>>
  PROVE  SearchOK(ch, al, ev, now)
  BY DEF SearchOK

LEMMA SearchStep ==
  ServerInRange /\ QueueInv /\ SearchInv /\ ServerNext => SearchInv'
<1> SUFFICES ASSUME ServerInRange, QueueInv, SearchInv, ServerNext PROVE SearchInv'
  OBVIOUS
<1>t. /\ child \in [Client -> ChildState] /\ fs \in SUBSET Dir
      /\ always \in [Client -> SUBSET Dir] /\ ever \in [Client -> SUBSET Dir]
      /\ FsClosed /\ DeepEnough
      /\ \A c \in Client : SearchOK(child[c], always[c], ever[c], fs)
  BY DEF ServerInRange, ServerTypeOK, ChildTypeOK, TreeTypeOK, SearchInv
<1>a. \A c \in Client : always[c] \subseteq fs /\ \A d \in always[c] : Parent[d] \in always[c]
  BY <1>t DEF SearchOK
<1>1. ASSUME UNCHANGED <<fs, child, always, ever>> PROVE SearchInv'
  BY <1>1 DEF SearchInv, FsClosed
<1>2. ASSUME NEW c \in Client, UNCHANGED fs,
             \A q \in Client \ {c} : /\ child'[q] = child[q] /\ always'[q] = always[q]
                                     /\ ever'[q] = ever[q],
             SearchOK(child'[c], always'[c], ever'[c], fs)
      PROVE  SearchInv'
  BY <1>2, <1>t DEF SearchInv, FsClosed
<1>3. ASSUME NEW c \in Client, UNCHANGED tree,
             NEW l \in {"refused", "length", "path", "stat", "close", "zombie"},
             ChildGoto(c, l),
             l \in {"refused", "length", "path", "stat"} => child[c].open = <<>>
      PROVE  SearchInv'
  <2>1. child'[c].pc = l /\ child'[c].open = child[c].open
    BY <1>3, <1>t DEF ChildGoto, ChildState
  <2>2. SearchOK(child'[c], always[c], ever[c], fs)
    BY <1>3, <1>a, <2>1, NoSearch
  <2> QED BY <1>2, <1>3, <1>t, <2>2 DEF tree, ChildGoto
<1>4. ASSUME NEW c \in Client, ReceiveRequestLength(c) PROVE SearchInv'
  <2>1. child[c].open = <<>> /\ UNCHANGED tree
    BY <1>4, <1>t DEF ReceiveRequestLength, ChildAt, SearchOK
  <2> QED BY <1>4, <1>3, <2>1 DEF ReceiveRequestLength
<1>5. ASSUME NEW c \in Client, ReceivePath(c) PROVE SearchInv'
  <2>1. child[c].open = <<>> /\ UNCHANGED tree
    BY <1>5, <1>t DEF ReceivePath, ChildAt, SearchOK
  <2>2. CASE ChildGoto(c, "close")
    BY <1>3, <2>1, <2>2
  <2>3. CASE child' = [child EXCEPT ![c].pc = "stat", ![c].path = Head(toServer[c]).text]
    <3>1. child'[c].pc = "stat" /\ child'[c].open = <<>>
      BY <1>t, <2>1, <2>3 DEF ChildState
    <3>2. SearchOK(child'[c], always[c], ever[c], fs)
      BY <1>a, <3>1, NoSearch
    <3> QED BY <1>2, <1>t, <2>1, <2>3, <3>2 DEF tree
  <2> QED BY <1>5, <2>2, <2>3 DEF ReceivePath
<1>6. ASSUME NEW c \in Client, get_directories_recursive(c) PROVE SearchInv'
  <2>1. child[c].open = <<>> /\ UNCHANGED fs
    BY <1>6, <1>t DEF get_directories_recursive, ChildAt, SearchOK
  <2> DEFINE q == child[c].path
  <2>2. CASE /\ TRUE \in is_directory(q)
             /\ child' = [child EXCEPT ![c].pc = "opendir", ![c].todo = q,
                                       ![c].answer = Answer(q, FALSE, {})]
             /\ always' = [always EXCEPT ![c] = fs]
             /\ ever' = [ever EXCEPT ![c] = fs]
    <3>1. /\ child'[c].pc = "opendir" /\ child'[c].answer = Answer(child'[c].todo, FALSE, {})
          /\ child'[c].todo \in fs /\ child'[c].open = <<>>
          /\ always'[c] = fs /\ ever'[c] = fs
      BY <1>t, <2>1, <2>2 DEF ChildState, is_directory
    <3>2. SearchOK(child'[c], fs, fs, fs)
      BY <1>t, <3>1, SearchStarts DEF FsClosed
    <3> QED BY <1>2, <1>t, <2>1, <2>2, <3>1, <3>2
  <2>3. CASE /\ child' = [child EXCEPT ![c].pc = "send", ![c].answer = Answer(q, TRUE, {})]
             /\ UNCHANGED <<always, ever>>
    <3>1. /\ child'[c].pc = "send" /\ child'[c].open = <<>>
          /\ child'[c].answer = Answer(q, TRUE, {})
      BY <1>t, <2>1, <2>3 DEF ChildState
    <3>2. SearchOK(child'[c], always[c], ever[c], fs)
      BY <1>a, <3>1 DEF SearchOK, Answer
    <3> QED BY <1>2, <1>t, <2>1, <2>3, <3>2
  <2> QED BY <1>6, <2>2, <2>3 DEF get_directories_recursive
<1>7. ASSUME NEW c \in Client, OpenDirectory(c) PROVE SearchInv'
  <2>1. /\ child[c] \in ChildState /\ child[c].pc = "opendir" /\ UNCHANGED tree
        /\ SearchOK(child[c], always[c], ever[c], fs)
        /\ always[c] \in SUBSET Dir
    BY <1>7, <1>t DEF OpenDirectory, ChildAt
  <2> DEFINE d == child[c].todo
             l == [must |-> Below(d) \cap fs, may |-> Below(d) \ fs]
  <2>2. CASE child' = [child EXCEPT ![c].pc = "readdir", ![c].open = Append(child[c].open, l)]
    <3>1. /\ child'[c].pc = "readdir" /\ child'[c].answer = child[c].answer
          /\ child'[c].open = Append(child[c].open, l)
      <4> HIDE DEF l
      <4> QED BY <1>t, <2>1, <2>2 DEF ChildState
    <3>2. SearchOK(child'[c], always[c], ever[c], fs)
      BY <1>t, <2>1, <3>1, LevelOpens
    <3> QED BY <1>2, <1>t, <2>1, <2>2, <3>2 DEF tree
  <2>3. CASE child' = [child EXCEPT ![c].pc = "send", ![c].open = <<>>,
                         ![c].answer = Answer(child[c].path, TRUE, {})]
    <3>1. /\ child'[c].pc = "send" /\ child'[c].open = <<>>
          /\ child'[c].answer = Answer(child[c].path, TRUE, {})
      BY <1>t, <2>1, <2>3 DEF ChildState
    <3>2. SearchOK(child'[c], always[c], ever[c], fs)
      BY <1>a, <3>1 DEF SearchOK, Answer
    <3> QED BY <1>2, <1>t, <2>1, <2>3, <3>2 DEF tree
  <2> QED BY <1>7, <2>2, <2>3 DEF OpenDirectory
<1>8. ASSUME NEW c \in Client, explore_directory_recursive(c) PROVE SearchInv'
  <2>1. /\ child[c] \in ChildState /\ child[c].pc = "readdir" /\ UNCHANGED tree
        /\ SearchOK(child[c], always[c], ever[c], fs)
        /\ always[c] \in SUBSET Dir /\ child[c].open # <<>>
    BY <1>8, <1>t DEF explore_directory_recursive, ChildAt, DeepEnough
  <2> DEFINE n == Len(child[c].open)
             top == child[c].open[n]
             less(e) == [child[c].open EXCEPT ![n] =
                           [must |-> top.must \ {e}, may |-> top.may \ {e}]]
  <2>2. PICK e \in top.must \cup (top.may \cap fs), is \in BOOLEAN :
          /\ is \in is_directory(e)
          /\ child' = [child EXCEPT ![c] =
                         IF is
                         THEN [child[c] EXCEPT !.open = less(e), !.pc = "opendir",
                                               !.todo = e, !.answer.dirs = @ \cup {e}]
                         ELSE [child[c] EXCEPT !.open = less(e)]]
    BY <1>8 DEF explore_directory_recursive, is_directory
  <2> DEFINE new == child'[c]
  <2>a. IF is THEN e \in fs ELSE e \notin fs \ Hidden
    BY <2>2 DEF is_directory
  <2>3. CASE is
    <3>0. e \in fs
      BY <2>a, <2>3
    <3>1. /\ new.pc = "opendir" /\ new.todo = e /\ new.open = less(e)
          /\ new.answer = [child[c].answer EXCEPT !.dirs = @ \cup {e}]
      <4> HIDE DEF less
      <4> QED BY <1>t, <2>1, <2>2, <2>3 DEF ChildState
    <3>2. SearchOK(new, always[c], ever[c], fs)
      <4> HIDE DEF new
      <4> QED BY <1>t, <2>1, <2>2, <3>0, <3>1, EntryListed
    <3> QED BY <1>2, <1>t, <2>1, <2>2, <3>2 DEF tree
  <2>4. CASE ~is
    <3>0. e \notin fs \ Hidden
      BY <2>a, <2>4
    <3>1. /\ new.pc = "readdir" /\ new.open = less(e) /\ new.answer = child[c].answer
      <4> HIDE DEF less
      <4> QED BY <1>t, <2>1, <2>2, <2>4 DEF ChildState
    <3>2. SearchOK(new, always[c], ever[c], fs)
      <4> HIDE DEF new
      <4> QED BY <1>t, <2>1, <3>0, <3>1, EntryGone
    <3> QED BY <1>2, <1>t, <2>1, <2>2, <3>2 DEF tree
  <2> QED BY <2>3, <2>4
<1>9. ASSUME NEW c \in Client, CloseDirectory(c) PROVE SearchInv'
  <2>1. /\ child[c] \in ChildState /\ child[c].pc = "readdir" /\ UNCHANGED tree
        /\ SearchOK(child[c], always[c], ever[c], fs)
        /\ always[c] \in SUBSET Dir /\ child[c].open # <<>>
        /\ child[c].open[Len(child[c].open)].must = {}
    BY <1>9, <1>t DEF CloseDirectory, ChildAt, DeepEnough
  <2> DEFINE n == Len(child[c].open)
             s == SubSeq(child[c].open, 1, n - 1)
             new == child'[c]
  <2>2. child' = [child EXCEPT ![c].open = s,
                               ![c].pc = IF n = 1 THEN "send" ELSE "readdir"]
    BY <1>9 DEF CloseDirectory
  <2>3. /\ new.answer = child[c].answer /\ new.open = s
        /\ new.pc = IF n = 1 THEN "send" ELSE "readdir"
    <3> HIDE DEF s, n
    <3> QED BY <1>t, <2>1, <2>2 DEF ChildState
  <2>4. SearchOK(new, always[c], ever[c], fs)
    <3> HIDE DEF new
    <3> QED BY <1>t, <2>1, <2>3, LevelCloses
  <2> QED BY <1>2, <1>t, <2>1, <2>2, <2>4 DEF tree
<1>10. ASSUME NEW c \in Client, NEW al, al = {}, UNCHANGED fs,
              NextRequest(c) \/ ChildGoto(c, "text"),
              always' = [always EXCEPT ![c] = al], ever' = [ever EXCEPT ![c] = {}]
       PROVE  SearchInv'
  <2>1. \/ child'[c].pc = "text"
        \/ child'[c].pc = "length" /\ child'[c].open = <<>>
    BY <1>10, <1>t DEF NextRequest, ChildGoto, Fresh, ChildState
  <2>2. SearchOK(child'[c], {}, {}, fs)
    BY <2>1, NoSearch
  <2> QED BY <1>2, <1>10, <1>t, <2>2 DEF NextRequest, ChildGoto
<1>11. ASSUME NEW c \in Client, SendAnswerLength(c) PROVE SearchInv'
  BY <1>10, <1>11 DEF SendAnswerLength, SearchOver
<1>12. ASSUME NEW c \in Client, SendAnswerText(c) PROVE SearchInv'
  <2>1. child'[c].pc = "length" /\ child'[c].open = <<>> /\ UNCHANGED tree
    BY <1>12, <1>t DEF SendAnswerText, NextRequest, Fresh
  <2>2. SearchOK(child'[c], always[c], ever[c], fs)
    BY <1>a, <2>1, NoSearch
  <2> QED BY <1>2, <1>12, <1>t, <2>1, <2>2 DEF SendAnswerText, NextRequest, tree
<1>13. ASSUME NEW c \in Client, Exit(c) PROVE SearchInv'
  BY <1>3, <1>13 DEF Exit
<1>14. CASE Fork
  <2>1. serving \in Client /\ child[serving].pc = "none" /\ UNCHANGED tree
    BY <1>14 DEF Fork, QueueInv, Waits, ChildAt, ServerInRange, ServerTypeOK, DaemonTypeOK
  <2>2. child[serving].open = <<>>
    BY <1>t, <2>1 DEF SearchOK
  <2> QED BY <1>3, <1>14, <2>1, <2>2 DEF Fork
<1>15. CASE sigchld_handler
  <2>1. \A c \in Client : \/ child'[c] = child[c]
                         \/ child'[c].pc = "reaped"
    BY <1>15, <1>t DEF sigchld_handler, ChildState
  <2>2. ASSUME NEW c \in Client PROVE SearchOK(child'[c], always[c], ever[c], fs)
    BY <1>a, <1>t, <2>1, NoSearch
  <2> QED BY <1>15, <1>t, <2>2 DEF sigchld_handler, tree, SearchInv, FsClosed
<1>16. ASSUME NEW d \in Dir, mkdir(d) PROVE SearchInv'
  <2>1. /\ fs' = fs \cup {d} /\ Parent[d] \in fs /\ UNCHANGED <<always, child>>
        /\ \A c \in Client : ever'[c] = IF Searching(c) THEN ever[c] \cup {d} ELSE ever[c]
    BY <1>16 DEF mkdir
  <2>2. FsClosed'
    BY <1>t, <2>1 DEF FsClosed
  <2>3. ASSUME NEW c \in Client PROVE SearchOK(child[c], always[c], ever'[c], fs')
    <3>1. SearchOK(child[c], always[c], ever[c], fs)
      BY <1>t
    <3> QED BY <2>1, <3>1 DEF SearchOK, Sound, Searching
  <2> QED BY <2>1, <2>2, <2>3 DEF SearchInv
<1>17. ASSUME NEW d \in Dir, rmdir(d) PROVE SearchInv'
  <2>1. /\ fs' = fs \ {d} /\ Below(d) \cap fs = {} /\ UNCHANGED <<ever, child>>
        /\ \A c \in Client : always'[c] = always[c] \ {d}
    BY <1>17 DEF rmdir
  <2>2. FsClosed'
    BY <1>t, <2>1 DEF FsClosed, Below
  <2>3. ASSUME NEW c \in Client PROVE SearchOK(child[c], always'[c], ever[c], fs')
    <3>1. SearchOK(child[c], always[c], ever[c], fs) /\ always[c] \in SUBSET Dir
      BY <1>t
    <3>2. \A e \in always'[c] : Parent[e] \in always'[c]
      BY <1>a, <2>1, <3>1 DEF Below
    <3> QED BY <2>1, <3>1, <3>2 DEF SearchOK, Accounted
  <2> QED BY <2>1, <2>2, <2>3 DEF SearchInv
<1>18. ASSUME NEW c \in Client, connect_to_server(c) \/ SendLength(c) \/ Run(c) \/ Quit(c)
       PROVE  UNCHANGED <<fs, child, always, ever>>
  BY <1>18 DEF connect_to_server, SendLength, Run, SendText, ReceiveLength, ReceiveText,
               Quit, tree
<1>19. ASSUME accept \/ signal_handler PROVE UNCHANGED <<fs, child, always, ever>>
  BY <1>19 DEF accept, signal_handler, tree
<1> QED BY <1>1, <1>4, <1>5, <1>6, <1>7, <1>8, <1>9, <1>11, <1>12, <1>13, <1>14, <1>15,
           <1>16, <1>17, <1>18, <1>19 DEF ServerNext, handle_client

\* When a child sends a listing that is no error it has every directory that was
\* below the path during the whole search, and that neither itself nor one between
\* the two is_directory may fail to examine, and only what was there at some moment,
\* however explore_directory_recursive and those who make and remove directories
\* take turns.
THEOREM ListingsComplete == ServerSpec => []ListingComplete
<1>1. ServerInit => SearchInv
  <2> SUFFICES ASSUME ServerInit PROVE SearchInv
    OBVIOUS
  <2>1. FsClosed
    BY TreeAssumption DEF ServerInit, FsClosed
  <2>2. ASSUME NEW c \in Client PROVE SearchOK(child[c], always[c], ever[c], fs)
    BY NoSearch DEF ServerInit, Fresh
  <2> QED BY <2>1, <2>2 DEF SearchInv
<1>2. SearchInv /\ UNCHANGED serverVars => SearchInv'
  BY DEF SearchInv, FsClosed, serverVars, tree
<1>3. ServerInRange /\ QueueInv /\ SearchInv /\ [ServerNext]_serverVars => SearchInv'
  BY <1>2, SearchStep
<1>4. ServerInRange /\ SearchInv => ListingComplete
  <2> SUFFICES ASSUME ServerInRange, SearchInv, NEW c \in Client,
                      ChildAt(c, "send"), ~child[c].answer.err
               PROVE  /\ always[c] \cap Visible(child[c].answer.of) \subseteq child[c].answer.dirs
                      /\ child[c].answer.dirs \subseteq ever[c] \cap Beneath(child[c].answer.of)
    BY DEF ListingComplete
  <2>1. SearchOK(child[c], always[c], ever[c], fs) /\ always[c] \in SUBSET Dir
    BY DEF SearchInv, ServerInRange, ServerTypeOK, TreeTypeOK
  <2> QED BY <2>1, SearchEnds DEF ChildAt
<1> QED BY <1>1, <1>3, <1>4, ServerTypeCorrect, QueueKept, PTL DEF ServerSpec

-------------------------------------------------------------------------------
(* The answer is to the last request.  While its client is there, a connection *)
(* is in one of these phases: nothing under way, a request half sent, sent, half *)
(* received or in the making, an answer half sent, or sent and half received.  *)

Unserved == {"none", "refused"}
Making == {"opendir", "readdir", "send", "text"}

Idle(cl, ch, up, down) ==
    cl.pc \in {"off", "prompt"} /\ ch.pc \in Unserved \cup {"length"}
    /\ up = <<>> /\ down = <<>>

HalfAsked(cl, ch, up, down) ==
    /\ cl.pc = "body" /\ down = <<>>
    /\ \/ ch.pc \in Unserved \cup {"length"} /\ up = <<Length(FALSE)>>
       \/ ch.pc = "path" /\ up = <<>>

AskedFor(cl, ch, up, down) ==
    /\ cl.pc = "length" /\ down = <<>>
    /\ \/ ch.pc \in Unserved \cup {"length"} /\ up = <<Length(FALSE), Text(cl.req)>>
       \/ ch.pc = "path" /\ up = <<Text(cl.req)>>

Answering(cl, ch, up, down) ==
    /\ up = <<>>
    /\ \/ cl.pc = "length" /\ down = <<>> /\ ch.pc = "stat" /\ ch.path = cl.req
       \/ /\ cl.pc = "length" /\ down = <<>> /\ ch.pc \in Making \ {"text"}
          /\ ch.path = cl.req /\ ch.answer.of = cl.req
       \/ /\ cl.pc = "length" /\ down = <<Length(FALSE)>>
          /\ ch.pc = "text" /\ ch.answer.of = cl.req
       \/ /\ cl.pc = "text" /\ down = <<>>
          /\ ch.pc = "text" /\ ch.answer.of = cl.req

Answered(cl, ch, up, down) ==
    /\ ch.pc = "length" /\ up = <<>>
    /\ \/ cl.pc = "length" /\ down = <<Length(TRUE)>>
       \/ \E a \in Reply : /\ a.of = cl.req
                           /\ \/ cl.pc = "length" /\ down = <<Length(FALSE), Text(a)>>
                              \/ cl.pc = "text" /\ down = <<Text(a)>>

Exchange(cl, ch, up, down) ==
    /\ cl.screen # Nothing => cl.screen.of = cl.req
    /\ \/ cl.pc = "done"
       \/ Idle(cl, ch, up, down) \/ HalfAsked(cl, ch, up, down)
       \/ AskedFor(cl, ch, up, down) \/ Answering(cl, ch, up, down)
       \/ Answered(cl, ch, up, down)

ExchangeInv ==
    \A c \in Client : Exchange(client[c], child[c], toServer[c], toClient[c])

LEMMA AppendToOne == ASSUME NEW a, NEW b PROVE Append(<<a>>, b) = <<a, b>>
<1> DEFINE S == {a, b}
           one == <<a>>
           two == <<a, b>>
<1>1. /\ one \in Seq(S) /\ two \in Seq(S) /\ b \in S /\ Len(one) = 1 /\ Len(two) = 2
      /\ one[1] = a /\ two[1] = a /\ two[2] = b
  OBVIOUS
<1> HIDE DEF S, one, two
<1>2. one \in Seq(S) /\ b \in S
  BY <1>1
<1>3. /\ Append(one, b) \in Seq(S) /\ Len(Append(one, b)) = Len(one) + 1
      /\ \A i \in 1 .. Len(one) : Append(one, b)[i] = one[i]
      /\ Append(one, b)[Len(one) + 1] = b
  BY <1>2, AppendProperties
<1> DEFINE both == Append(one, b)
<1> HIDE DEF both
<1>4. /\ both \in Seq(S) /\ Len(both) = 2 /\ both[1] = a /\ both[2] = b
  BY <1>1, <1>3 DEF both
<1>5. both = two
  BY <1>1, <1>4, SeqEqual
<1> QED BY <1>5 DEF both, one, two

LEMMA ShortMessages ==
  ASSUME NEW a, NEW b
  PROVE  /\ <<a>> # <<>> /\ Head(<<a>>) = a /\ Tail(<<a>>) = <<>>
         /\ <<a, b>> # <<>> /\ Head(<<a, b>>) = a /\ Tail(<<a, b>>) = <<b>>
         /\ Append(<<>>, a) = <<a>> /\ Append(<<a>>, b) = <<a, b>>
<1>1. <<a>> # <<>> /\ Head(<<a>>) = a
  OBVIOUS
<1>2. Tail(<<a>>) = <<>>
  OBVIOUS
<1>3. Head(<<a, b>>) = a
  OBVIOUS
<1>4. Tail(<<a, b>>) = <<b>>
  OBVIOUS
<1>5. <<a, b>> # <<>>
  <2>1. Len(<<a, b>>) = 2
    OBVIOUS
  <2>2. Len(<<>>) = 0
    OBVIOUS
  <2> QED BY <2>1, <2>2
<1>6. Append(<<>>, a) = <<a>>
  OBVIOUS
<1>7. Append(<<a>>, b) = <<a, b>>
  BY AppendToOne
<1> QED BY <1>1, <1>2, <1>3, <1>4, <1>5, <1>6, <1>7

LEMMA MessageParts ==
  /\ \A z : Length(z).part = "length"
  /\ Length(TRUE).zero /\ ~Length(FALSE).zero
  /\ \A x : Text(x).part = "text" /\ Text(x).text = x
  BY DEF Length, Text

LEMMA FirstPart ==
  /\ \A z : Part(<<Length(z)>>, "length")
  /\ \A z, x : Part(<<Length(z), Text(x)>>, "length")
  /\ \A x : Part(<<Text(x)>>, "text")
<1>1. \A m, n : <<m>> # <<>> /\ Head(<<m>>) = m /\ <<m, n>> # <<>> /\ Head(<<m, n>>) = m
  BY ShortMessages
<1> QED BY <1>1, MessageParts DEF Part

LEMMA ExchangeIsMine ==
  ASSUME NEW cl, NEW ch, NEW up, NEW down, Exchange(cl, ch, up, down)
  PROVE  /\ cl.screen # Nothing => cl.screen.of = cl.req
         /\ cl.pc \in {"length", "text"} /\ down # <<>> => Part(down, cl.pc)
         /\ cl.pc = "prompt" => down = <<>>
<1>1. ASSUME cl.pc \in {"length", "text"}, down # <<>> PROVE Part(down, cl.pc)
  <2>1. CASE Answering(cl, ch, up, down)
    BY <1>1, <2>1, FirstPart DEF Answering
  <2>2. CASE Answered(cl, ch, up, down)
    BY <1>1, <2>2, FirstPart DEF Answered
  <2> QED BY <1>1, <2>1, <2>2 DEF Exchange, Idle, HalfAsked, AskedFor
<1>2. cl.pc = "prompt" => down = <<>>
  BY DEF Exchange, Idle, HalfAsked, AskedFor, Answering, Answered
<1> QED BY <1>1, <1>2 DEF Exchange

LEMMA ClientExchange ==
  ASSUME ServerInRange, NEW c \in Client,
         Exchange(client[c], child[c], toServer[c], toClient[c]),
         connect_to_server(c) \/ SendLength(c) \/ Run(c) \/ Quit(c)
  PROVE  /\ Exchange(client'[c], child'[c], toServer'[c], toClient'[c])
         /\ \A q \in Client \ {c} : /\ client'[q] = client[q] /\ child'[q] = child[q]
                                   /\ toServer'[q] = toServer[q] /\ toClient'[q] = toClient[q]
<1>t. /\ client \in [Client -> ClientState] /\ client[c] \in ClientState
      /\ toServer \in [Client -> Seq(ToServer)] /\ toClient \in [Client -> Seq(ToClient)]
  BY DEF ServerInRange, ServerTypeOK, ClientTypeOK, StreamTypeOK
<1> DEFINE cl == client[c]
           ch == child[c]
           up == toServer[c]
           down == toClient[c]
<1>e. Exchange(cl, ch, up, down)
  OBVIOUS
<1>m. /\ \A x : Append(<<>>, x) = <<x>> /\ Head(<<x>>) = x /\ Tail(<<x>>) = <<>>
      /\ \A x, y : /\ Append(<<x>>, y) = <<x, y>> /\ Head(<<x, y>>) = x
                   /\ Tail(<<x, y>>) = <<y>>
  BY ShortMessages
<1>1. ASSUME NEW l, ClientGoto(c, l)
      PROVE  /\ client'[c].pc = l /\ client'[c].req = cl.req /\ client'[c].screen = cl.screen
             /\ \A q \in Client \ {c} : client'[q] = client[q]
  BY <1>t, <1>1 DEF ClientGoto, ClientState
<1>2. ASSUME client'[c].pc = "done", client'[c].screen = cl.screen, client'[c].req = cl.req
      PROVE  Exchange(client'[c], child'[c], toServer'[c], toClient'[c])
  BY <1>2, <1>e DEF Exchange
<1>3. CASE connect_to_server(c)
  <2>1. cl.pc = "off" /\ UNCHANGED <<child, streams>>
        /\ (ClientGoto(c, "prompt") \/ ClientGoto(c, "done"))
    BY <1>3 DEF connect_to_server, ClientAt
  <2>2. Idle(cl, ch, up, down)
    BY <2>1, <1>e DEF Exchange, HalfAsked, AskedFor, Answering, Answered
  <2>3. CASE ClientGoto(c, "prompt")
    <3>1. Idle(client'[c], ch, up, down)
      BY <1>1, <2>2, <2>3 DEF Idle
    <3> QED BY <1>1, <1>e, <2>1, <2>3, <3>1 DEF Exchange, streams
  <2> QED BY <1>1, <1>2, <2>1, <2>3 DEF streams
<1>4. CASE SendLength(c)
  <2>0. PICK p \in Asked[c] :
          client' = [client EXCEPT ![c].pc = IF Hung(c) THEN "done" ELSE "body",
                                   ![c].req = p, ![c].asks = @ + 1,
                                   ![c].screen = Nothing]
    BY <1>4 DEF SendLength
  <2>1. /\ cl.pc = "prompt" /\ UNCHANGED <<child, toClient>>
        /\ toServer'[c] = IF Hung(c) THEN up ELSE Append(up, Length(FALSE))
        /\ client'[c].pc = IF Hung(c) THEN "done" ELSE "body"
        /\ client'[c].screen = Nothing
        /\ \A q \in Client \ {c} : client'[q] = client[q] /\ toServer'[q] = toServer[q]
    <3>1. /\ client'[c].pc = IF Hung(c) THEN "done" ELSE "body"
          /\ client'[c].screen = Nothing
      BY <1>t, <2>0 DEF ClientState
    <3>2. \A q \in Client \ {c} : client'[q] = client[q] /\ toServer'[q] = toServer[q]
      BY <1>4, <1>t, <2>0 DEF SendLength
    <3>3. toServer'[c] = IF Hung(c) THEN up ELSE Append(up, Length(FALSE))
      BY <1>4, <1>t DEF SendLength
    <3> QED BY <1>4, <3>1, <3>2, <3>3 DEF SendLength, ClientAt
  <2>2. Idle(cl, ch, up, down)
    BY <2>1, <1>e DEF Exchange, HalfAsked, AskedFor, Answering, Answered
  <2>3. CASE ~Hung(c)
    <3>1. HalfAsked(client'[c], ch, toServer'[c], down)
      BY <1>m, <2>1, <2>2, <2>3 DEF Idle, HalfAsked
    <3> QED BY <2>1, <3>1 DEF Exchange
  <2> QED BY <2>1, <2>3 DEF Exchange
<1>5. CASE SendText(c)
  <2>1. /\ cl.pc = "body" /\ UNCHANGED <<child, toClient>>
        /\ toServer'[c] = IF Hung(c) THEN up ELSE Append(up, Text(cl.req))
        /\ ClientGoto(c, IF Hung(c) THEN "done" ELSE "length")
        /\ \A q \in Client \ {c} : toServer'[q] = toServer[q]
    BY <1>5, <1>t DEF SendText, ClientAt
  <2>2. HalfAsked(cl, ch, up, down)
    BY <2>1, <1>e DEF Exchange, Idle, AskedFor, Answering, Answered
  <2>3. CASE ~Hung(c)
    <3>0. client'[c].pc = "length" /\ client'[c].req = cl.req
      BY <1>1, <2>1, <2>3
    <3>a. /\ up = <<>> => Append(up, Text(cl.req)) = <<Text(cl.req)>>
          /\ up = <<Length(FALSE)>>
                => Append(up, Text(cl.req)) = <<Length(FALSE), Text(cl.req)>>
      BY <1>m
    <3>1. AskedFor(client'[c], ch, toServer'[c], down)
      BY <2>1, <2>2, <2>3, <3>0, <3>a DEF AskedFor, HalfAsked
    <3> QED BY <1>1, <1>e, <2>1, <3>1 DEF Exchange
  <2> QED BY <1>1, <1>2, <2>1, <2>3
<1>6. CASE ReceiveLength(c)
  <2>1. cl.pc = "length" /\ UNCHANGED <<child, toServer>>
    BY <1>6 DEF ReceiveLength, ClientAt
  <2>2. CASE down = <<>> /\ Hung(c) /\ ClientGoto(c, "done") /\ UNCHANGED toClient
    BY <1>1, <1>2, <2>1, <2>2
  <2>3. CASE /\ down # <<>> /\ toClient' = [toClient EXCEPT ![c] = Tail(down)]
             /\ ClientGoto(c, IF Head(down).zero THEN "done" ELSE "text")
    <3>1. toClient'[c] = Tail(down) /\ \A q \in Client \ {c} : toClient'[q] = toClient[q]
      BY <1>t, <2>3
    <3>2. CASE Answering(cl, ch, up, down)
      <4>1. /\ down = <<Length(FALSE)>> /\ ch.pc = "text" /\ ch.answer.of = cl.req
            /\ up = <<>>
        BY <2>1, <2>3, <3>2 DEF Answering
      <4>2. ~Head(down).zero /\ Tail(down) = <<>>
        BY <1>m, <4>1, MessageParts
      <4>3. Answering(client'[c], ch, up, toClient'[c])
        BY <1>1, <2>3, <3>1, <4>1, <4>2 DEF Answering
      <4> QED BY <1>1, <1>e, <2>1, <2>3, <3>1, <4>3 DEF Exchange
    <3>3. CASE Answered(cl, ch, up, down)
      <4>1. CASE down = <<Length(TRUE)>>
        <5>1. Head(down).zero
          BY <1>m, <4>1, MessageParts
        <5> QED BY <1>1, <1>2, <2>1, <2>3, <3>1, <5>1
      <4>2. CASE down # <<Length(TRUE)>>
        <5>1. PICK a \in Reply : a.of = cl.req /\ down = <<Length(FALSE), Text(a)>>
          BY <2>1, <3>3, <4>2 DEF Answered
        <5>2. ~Head(down).zero /\ Tail(down) = <<Text(a)>>
          BY <1>m, <5>1, MessageParts
        <5>3. Answered(client'[c], ch, up, toClient'[c])
          BY <1>1, <2>3, <3>1, <3>3, <5>1, <5>2 DEF Answered
        <5> QED BY <1>1, <1>e, <2>1, <2>3, <3>1, <5>3 DEF Exchange
      <4> QED BY <4>1, <4>2
    <3> QED BY <1>e, <2>1, <2>3, <3>2, <3>3 DEF Exchange, Idle, HalfAsked, AskedFor
  <2> QED BY <1>6, <2>2, <2>3 DEF ReceiveLength, Part
<1>7. CASE ReceiveText(c)
  <2>1. cl.pc = "text" /\ UNCHANGED <<child, toServer>>
    BY <1>7 DEF ReceiveText, ClientAt
  <2>2. CASE down = <<>> /\ Hung(c) /\ ClientGoto(c, "done") /\ UNCHANGED toClient
    BY <1>1, <1>2, <2>1, <2>2
  <2>3. CASE /\ down # <<>> /\ toClient' = [toClient EXCEPT ![c] = Tail(down)]
             /\ client' = [client EXCEPT ![c].screen = Head(down).text,
                                         ![c].pc = IF c \in Single THEN "done" ELSE "prompt"]
    <3>1. /\ toClient'[c] = Tail(down) /\ client'[c].screen = Head(down).text
          /\ client'[c].pc \in {"done", "prompt"} /\ client'[c].req = cl.req
          /\ \A q \in Client \ {c} : toClient'[q] = toClient[q] /\ client'[q] = client[q]
      BY <1>t, <2>3 DEF ClientState
    <3>2. Answered(cl, ch, up, down)
      BY <1>e, <2>1, <2>3 DEF Exchange, Idle, HalfAsked, AskedFor, Answering
    <3>3. PICK a \in Reply : a.of = cl.req /\ down = <<Text(a)>>
      BY <2>1, <3>2 DEF Answered
    <3>4. Head(down).text = a /\ Tail(down) = <<>>
      BY <1>m, <3>3, MessageParts
    <3>5. client'[c].screen # Nothing => client'[c].screen.of = client'[c].req
      BY <3>1, <3>3, <3>4
    <3>6. client'[c].pc = "prompt" => Idle(client'[c], ch, up, toClient'[c])
      BY <3>1, <3>2, <3>4 DEF Idle, Answered
    <3> QED BY <2>1, <3>1, <3>5, <3>6 DEF Exchange
  <2> QED BY <1>7, <2>2, <2>3 DEF ReceiveText, Part
<1>8. CASE Quit(c)
  <2>1. /\ client'[c].pc = "done" /\ client'[c].screen = Nothing
        /\ \A q \in Client \ {c} : client'[q] = client[q]
        /\ UNCHANGED <<child, streams>>
    BY <1>8, <1>t DEF Quit, ClientState
  <2> QED BY <2>1 DEF Exchange, streams
<1> QED BY <1>3, <1>4, <1>5, <1>6, <1>7, <1>8 DEF Run

LEMMA ChildExchange ==
  ASSUME ServerInRange, NEW c \in Client,
         Exchange(client[c], child[c], toServer[c], toClient[c]),
         handle_client(c)
  PROVE  /\ Exchange(client[c], child'[c], toServer'[c], toClient'[c])
         /\ \A q \in Client \ {c} : /\ child'[q] = child[q]
                                   /\ toServer'[q] = toServer[q] /\ toClient'[q] = toClient[q]
<1>t. /\ child \in [Client -> ChildState] /\ child[c] \in ChildState
      /\ child[c].answer \in Reply
      /\ toServer \in [Client -> Seq(ToServer)] /\ toClient \in [Client -> Seq(ToClient)]
  BY DEF ServerInRange, ServerTypeOK, ChildTypeOK, StreamTypeOK, ChildState
<1> DEFINE cl == client[c]
           ch == child[c]
           up == toServer[c]
           down == toClient[c]
<1>e. Exchange(cl, ch, up, down)
  OBVIOUS
<1>m. /\ \A x : Append(<<>>, x) = <<x>> /\ Head(<<x>>) = x /\ Tail(<<x>>) = <<>>
                /\ <<x>> # <<>>
      /\ \A x, y : /\ Append(<<x>>, y) = <<x, y>> /\ Head(<<x, y>>) = x
                   /\ Tail(<<x, y>>) = <<y>> /\ <<x, y>> # <<>>
  BY ShortMessages
<1>o. \A q \in Client \ {c} : /\ child'[q] = child[q] /\ toServer'[q] = toServer[q]
                              /\ toClient'[q] = toClient[q]
  <2>1. ASSUME \/ ReceiveRequestLength(c) \/ ReceivePath(c) \/ OpenDirectory(c)
               \/ get_directories_recursive(c) \/ CloseDirectory(c) \/ Exit(c)
               \/ SendAnswerLength(c) \/ SendAnswerText(c)
        PROVE  \A q \in Client \ {c} : child'[q] = child[q]
    BY <1>t, <2>1 DEF ReceiveRequestLength, ReceivePath, OpenDirectory,
                      get_directories_recursive, CloseDirectory, Exit, SendAnswerLength,
                      SendAnswerText, ChildGoto, NextRequest
  <2>2. ASSUME explore_directory_recursive(c)
        PROVE  \A q \in Client \ {c} : child'[q] = child[q]
    BY <1>t, <2>2 DEF explore_directory_recursive
  <2>3. \A q \in Client \ {c} : toServer'[q] = toServer[q] /\ toClient'[q] = toClient[q]
    BY <1>t DEF handle_client, ReceiveRequestLength, ReceivePath, OpenDirectory,
                get_directories_recursive, explore_directory_recursive, CloseDirectory,
                SendAnswerLength, SendAnswerText, Exit, streams, daemon
  <2> QED BY <2>1, <2>2, <2>3 DEF handle_client
<1>1. CASE cl.pc = "done"
  BY <1>o, <1>e, <1>1 DEF Exchange
<1> SUFFICES ASSUME cl.pc # "done" PROVE Exchange(cl, child'[c], toServer'[c], toClient'[c])
  BY <1>o, <1>1
<1>l. ~Left(c)
  BY DEF Left, ClientAt
<1>2. ASSUME NEW l, ChildGoto(c, l) \/ (NextRequest(c) /\ l = "length")
      PROVE  child'[c].pc = l
  BY <1>t, <1>2 DEF ChildGoto, NextRequest, Fresh, ChildState
<1>3. CASE ReceiveRequestLength(c)
  <2>1. /\ ch.pc = "length" /\ up # <<>> /\ ChildGoto(c, "path")
        /\ toServer'[c] = Tail(up) /\ UNCHANGED toClient
    BY <1>3, <1>l, <1>t DEF ReceiveRequestLength, ChildAt, Part
  <2>p. child'[c].pc = "path"
    BY <1>2, <2>1
  <2>2. CASE HalfAsked(cl, ch, up, down)
    <3>1. up = <<Length(FALSE)>>
      BY <2>1, <2>2 DEF HalfAsked
    <3>2. Tail(up) = <<>>
      BY <1>m, <3>1
    <3>3. HalfAsked(cl, child'[c], toServer'[c], down)
      BY <2>1, <2>p, <2>2, <3>2 DEF HalfAsked
    <3> QED BY <1>e, <2>1, <3>3 DEF Exchange
  <2>3. CASE AskedFor(cl, ch, up, down)
    <3>1. up = <<Length(FALSE), Text(cl.req)>>
      BY <2>1, <2>3 DEF AskedFor
    <3>2. Tail(up) = <<Text(cl.req)>>
      BY <1>m, <3>1
    <3>3. AskedFor(cl, child'[c], toServer'[c], down)
      BY <2>1, <2>p, <2>3, <3>2 DEF AskedFor
    <3> QED BY <1>e, <2>1, <3>3 DEF Exchange
  <2> QED BY <1>e, <2>1, <2>2, <2>3 DEF Exchange, Idle, Answering, Answered
<1>4. CASE ReceivePath(c)
  <2>1. /\ ch.pc = "path" /\ up # <<>> /\ UNCHANGED toClient
        /\ toServer'[c] = Tail(up) /\ child'[c].pc = "stat" /\ child'[c].path = Head(up).text
    BY <1>4, <1>l, <1>t DEF ReceivePath, ChildAt, Part, ChildState
  <2>2. AskedFor(cl, ch, up, down)
    BY <1>e, <2>1 DEF Exchange, Idle, HalfAsked, Answering, Answered, Unserved, Making
  <2>3. up = <<Text(cl.req)>>
    BY <2>1, <2>2 DEF AskedFor, Unserved
  <2>4. Head(up).text = cl.req /\ Tail(up) = <<>>
    BY <1>m, <2>3, MessageParts
  <2>5. Answering(cl, child'[c], toServer'[c], down)
    BY <2>1, <2>2, <2>4 DEF AskedFor, Answering
  <2> QED BY <1>e, <2>1, <2>5 DEF Exchange
<1>5. ASSUME ch.pc \in {"stat", "opendir", "readdir", "send", "text"}
      PROVE  Answering(cl, ch, up, down)
  BY <1>5, <1>e DEF Exchange, Idle, HalfAsked, AskedFor, Answered, Unserved
<1>6. ASSUME ch.pc \in {"opendir", "readdir", "send"}
      PROVE  /\ cl.pc = "length" /\ up = <<>> /\ down = <<>>
             /\ ch.path = cl.req /\ ch.answer.of = cl.req
  BY <1>5, <1>6 DEF Answering
<1>7. ASSUME cl.pc = "length", up = <<>>, down = <<>>, UNCHANGED <<toServer, toClient>>,
             child'[c].pc \in {"opendir", "readdir", "send"},
             child'[c].path = cl.req, child'[c].answer.of = cl.req
      PROVE  Exchange(cl, child'[c], toServer'[c], toClient'[c])
  <2>1. Answering(cl, child'[c], up, down)
    BY <1>7 DEF Answering, Making
  <2> QED BY <1>e, <1>7, <2>1 DEF Exchange
<1>8. CASE get_directories_recursive(c)
  <2>1. /\ ch.pc = "stat" /\ UNCHANGED <<toServer, toClient>>
        /\ child'[c].pc \in {"opendir", "send"} /\ child'[c].path = ch.path
        /\ child'[c].answer.of = ch.path
    <3>1. ch.pc = "stat" /\ UNCHANGED <<toServer, toClient>>
      BY <1>8 DEF get_directories_recursive, ChildAt, streams
    <3>2. \E err \in BOOLEAN :
            \/ child' = [child EXCEPT ![c].pc = "opendir", ![c].todo = ch.path,
                                      ![c].answer = Answer(ch.path, err, {})]
            \/ child' = [child EXCEPT ![c].pc = "send",
                                      ![c].answer = Answer(ch.path, err, {})]
      BY <1>8 DEF get_directories_recursive
    <3>3. ASSUME NEW err \in BOOLEAN PROVE Answer(ch.path, err, {}).of = ch.path
      BY DEF Answer
    <3> QED BY <1>t, <3>1, <3>2, <3>3 DEF ChildState
  <2>2. cl.pc = "length" /\ up = <<>> /\ down = <<>> /\ ch.path = cl.req
    BY <1>5, <2>1 DEF Answering
  <2> QED BY <1>7, <2>1, <2>2
<1>9. CASE OpenDirectory(c)
  <2>1. /\ ch.pc = "opendir" /\ UNCHANGED <<toServer, toClient>>
        /\ child'[c].pc \in {"readdir", "send"} /\ child'[c].path = ch.path
        /\ child'[c].answer.of \in {ch.path, ch.answer.of}
    BY <1>9, <1>t DEF OpenDirectory, ChildAt, ChildState, streams, Answer
  <2> QED BY <1>6, <1>7, <2>1
<1>10. CASE explore_directory_recursive(c)
  <2>1. /\ ch.pc = "readdir" /\ UNCHANGED <<toServer, toClient>>
        /\ child'[c].pc \in {"readdir", "opendir"} /\ child'[c].path = ch.path
        /\ child'[c].answer.of = ch.answer.of
    BY <1>10, <1>t DEF explore_directory_recursive, ChildAt, ChildState, streams, Reply
  <2> QED BY <1>6, <1>7, <2>1
<1>11. CASE CloseDirectory(c)
  <2>1. /\ ch.pc = "readdir" /\ UNCHANGED <<toServer, toClient>>
        /\ child'[c].pc \in {"readdir", "send"} /\ child'[c].path = ch.path
        /\ child'[c].answer = ch.answer
    BY <1>11, <1>t DEF CloseDirectory, ChildAt, ChildState, streams
  <2> QED BY <1>6, <1>7, <2>1
<1>12. CASE SendAnswerLength(c)
  <2>1. ch.pc = "send" /\ UNCHANGED toServer
    BY <1>12 DEF SendAnswerLength, ChildAt
  <2>2. cl.pc = "length" /\ up = <<>> /\ down = <<>> /\ ch.answer.of = cl.req
    BY <1>6, <2>1
  <2>3. CASE Empty(ch.answer)
    <3>1. child'[c].pc = "length" /\ toClient'[c] = Append(down, Length(TRUE))
      BY <1>12, <1>t, <1>l, <1>2, <2>3 DEF SendAnswerLength
    <3>2. Answered(cl, child'[c], up, toClient'[c])
      BY <1>m, <2>2, <3>1 DEF Answered
    <3> QED BY <1>e, <2>1, <3>2 DEF Exchange
  <2>4. CASE ~Empty(ch.answer)
    <3>1. ChildGoto(c, "text") /\ toClient'[c] = Append(down, Length(FALSE))
      <4>1. Empty(ch.answer) = FALSE
        BY <2>4 DEF Empty
      <4> QED BY <1>12, <1>t, <1>l, <4>1 DEF SendAnswerLength
    <3>2. child'[c].pc = "text" /\ child'[c].answer = ch.answer
      BY <1>t, <3>1 DEF ChildGoto, ChildState
    <3>3. Answering(cl, child'[c], up, toClient'[c])
      BY <1>m, <2>2, <3>1, <3>2 DEF Answering
    <3> QED BY <1>e, <2>1, <3>3 DEF Exchange
  <2> QED BY <2>3, <2>4
<1>13. CASE SendAnswerText(c)
  <2>1. /\ ch.pc = "text" /\ UNCHANGED toServer /\ child'[c].pc = "length"
        /\ toClient'[c] = Append(down, Text(ch.answer))
    BY <1>13, <1>t, <1>l, <1>2 DEF SendAnswerText, ChildAt
  <2>2. /\ up = <<>> /\ ch.answer.of = cl.req
        /\ \/ cl.pc = "length" /\ down = <<Length(FALSE)>>
           \/ cl.pc = "text" /\ down = <<>>
    BY <1>5, <2>1 DEF Answering, Making
  <2>3. Answered(cl, child'[c], up, toClient'[c])
    BY <1>t, <1>m, <2>1, <2>2 DEF Answered
  <2> QED BY <1>e, <2>1, <2>3 DEF Exchange
<1>14. CASE Exit(c)
  <2>1. ch.pc = "close"
    BY <1>14 DEF Exit, ChildAt
  <2> QED BY <1>e, <2>1 DEF Exchange, Idle, HalfAsked, AskedFor, Answering, Answered,
                            Unserved, Making
<1> QED BY <1>3, <1>4, <1>8, <1>9, <1>10, <1>11, <1>12, <1>13, <1>14 DEF handle_client

LEMMA ExchangeStep ==
  ServerInRange /\ QueueInv /\ ExchangeInv /\ ServerNext => ExchangeInv'
<1> SUFFICES ASSUME ServerInRange, QueueInv, ExchangeInv, ServerNext PROVE ExchangeInv'
  OBVIOUS
<1>t. child \in [Client -> ChildState]
  BY DEF ServerInRange, ServerTypeOK, ChildTypeOK
<1>1. ASSUME NEW c \in Client, connect_to_server(c) \/ SendLength(c) \/ Run(c) \/ Quit(c)
      PROVE  ExchangeInv'
  BY <1>1, ClientExchange DEF ExchangeInv
<1>2. ASSUME NEW c \in Client, handle_client(c) PROVE ExchangeInv'
  <2>1. UNCHANGED client
    BY <1>2 DEF handle_client, ReceiveRequestLength, ReceivePath, OpenDirectory,
                get_directories_recursive, explore_directory_recursive, CloseDirectory,
                SendAnswerLength, SendAnswerText, Exit
  <2> QED BY <1>2, <2>1, ChildExchange DEF ExchangeInv
<1>3. CASE Fork
  <2>1. serving \in Client /\ child[serving].pc = "none" /\ UNCHANGED <<client, streams>>
    BY <1>3 DEF Fork, QueueInv, Waits, ChildAt, ServerInRange, ServerTypeOK, DaemonTypeOK
  <2>2. /\ child'[serving].pc \in {"length", "refused"}
        /\ \A q \in Client \ {serving} : child'[q] = child[q]
    BY <1>3, <1>t, <2>1 DEF Fork, ChildGoto, ChildState
  <2>3. Exchange(client[serving], child[serving], toServer[serving], toClient[serving])
    BY <2>1 DEF ExchangeInv
  <2>4. Exchange(client[serving], child'[serving], toServer[serving], toClient[serving])
    BY <2>1, <2>2, <2>3 DEF Exchange, Idle, HalfAsked, AskedFor, Answering, Answered,
                            Unserved, Making
  <2> QED BY <2>1, <2>2, <2>4 DEF ExchangeInv, streams
<1>4. CASE sigchld_handler
  <2>1. /\ UNCHANGED <<client, streams>>
        /\ \A c \in Client : child[c].pc = "zombie" \/ child'[c] = child[c]
    BY <1>4 DEF sigchld_handler, ChildAt
  <2>2. ASSUME NEW c \in Client
        PROVE  Exchange(client[c], child'[c], toServer[c], toClient[c])
    BY <2>1 DEF ExchangeInv, Exchange, Idle, HalfAsked, AskedFor, Answering, Answered,
                Unserved, Making
  <2> QED BY <2>1, <2>2 DEF ExchangeInv, streams
<1>5. ASSUME \/ accept \/ signal_handler \/ \E d \in Dir : mkdir(d) \/ rmdir(d)
      PROVE  UNCHANGED <<client, child, streams>>
  BY <1>5 DEF accept, signal_handler, mkdir, rmdir
<1>6. ASSUME UNCHANGED <<client, child, streams>> PROVE ExchangeInv'
  BY <1>6 DEF ExchangeInv, streams
<1> QED BY <1>1, <1>2, <1>3, <1>4, <1>5, <1>6 DEF ServerNext

\* What a client shows is the answer to the path it asked for last, and the
\* lengths and the texts of client.c and server.c never get out of step, however
\* many requests went before, failed or came back empty, and whoever leaves.
THEOREM AnswersAreMine == ServerSpec => []AnswerIsMine
<1>1. ServerInit => ExchangeInv
  BY DEF ServerInit, ExchangeInv, Exchange, Idle, Unserved, Fresh
<1>2. ServerInRange /\ QueueInv /\ ExchangeInv /\ [ServerNext]_serverVars => ExchangeInv'
  <2>1. ExchangeInv /\ UNCHANGED serverVars => ExchangeInv'
    BY DEF ExchangeInv, serverVars, streams
  <2> QED BY <2>1, ExchangeStep
<1>3. ExchangeInv => AnswerIsMine
  BY ExchangeIsMine DEF ExchangeInv, AnswerIsMine, ClientAt
<1> QED BY <1>1, <1>2, <1>3, ServerTypeCorrect, QueueKept, PTL DEF ServerSpec

================================================================================
