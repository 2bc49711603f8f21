---------------------------- MODULE PingPongProofs ----------------------------
(***************************************************************************)
(* For any number of rounds, any segment an earlier run left, and whoever   *)
(* is stopped wherever it is: there is one permission at most, it is only   *)
(* sent to the partner, and the two programs implement the alternation.     *)
(***************************************************************************)
EXTENDS PingPong, SequenceTheorems, TLAPS

\* The permission is somewhere with p.
Holds(p) == \/ can_write[p] \/ At(p, "kill")
            \/ "USR" \in pending[p] \/ sig[p] = "usr"

\* Before A has stored its pid, and once A's writer knows B.
SetUp == {"open", "size", "index", "pid"}
Playing == {"turn", "write", "advance", "reset", "kill", "sleep"}
Done == {"join", "print", "ended"}

\* OneTurn, place by place; whoever is in the buffer holds the permission.
TokenInv ==
    /\ \A p \in Proc :
          /\ At(p, "kill") =>
                ~can_write[p] /\ "USR" \notin pending[p] /\ sig[p] # "usr"
          /\ "USR" \in pending[p] => ~can_write[p] /\ sig[p] # "usr"
          /\ sig[p] = "usr" => ~can_write[p]
          /\ pc[p] \in {"write", "advance", "reset"} => can_write[p]
    /\ ~Holds("A") \/ ~Holds("B")

\* Who is known to whom, and that nobody plays before A has set up.
PidInv ==
    /\ pc["A"] \in SetUp => pid["A"] # "A"
    /\ pc["A"] \notin SetUp \cup {"killed"} => pid["A"] = "A"
    /\ pc["A"] \in {"mask", "create", "await_b"} => pid["B"] \in {NONE, "B"}
    /\ pc["A"] \in Playing \cup Done => pid["B"] = "B"
    /\ pid["A"] # "A" =>
          /\ ~Holds("B") /\ round["B"] = 0
          /\ pc["B"] \in {"open", "pid", "mask", "create", "turn", "killed"}
    /\ pc["A"] = "pid" => write_index = 0
    /\ pc["B"] # "await_b"

\* The rounds of p whose character is in the buffer.
Written(p) == round[p] + IF pc[p] \in {"reset", "kill", "sleep"} THEN 1 ELSE 0
\* The turn of p is over, but the permission is still with it.
Leaving(p) == pc[p] \in {"reset", "kill"}

RoundInv ==
    \A p \in Proc : /\ pc[p] \notin Done \cup {"killed"} => round[p] < Rounds
                    /\ pc[p] \in Done => round[p] = Rounds
                    /\ pc[p] \in Unmasked \cup {"create", "await_b"} => round[p] = 0
                    /\ pc[p] = "advance" => buffer[write_index] = p

\* How the position follows from the rounds of each process that is alive.
CountA == pc["A"] # "killed" =>
    /\ write_index >= 2 * Written("A") - 1
    /\ Holds("A") => write_index = 2 * Written("A") - IF Leaving("A") THEN 1 ELSE 0

CountB == pc["B"] # "killed" =>
    /\ write_index >= 2 * Written("B")
    /\ Holds("B") => write_index = 2 * Written("B") + IF Leaving("B") THEN 0 ELSE 1

CountInv == pid["A"] = "A" =>
    /\ CountA /\ CountB
    /\ (\A p \in Proc : pc[p] # "killed") =>
          write_index = Written("A") + Written("B")

IInv == TypeOK /\ TokenInv /\ PidInv /\ RoundInv /\ CountInv

-------------------------------------------------------------------------------

LEMMA InitIInv == Init => IInv
<1> SUFFICES ASSUME Init PROVE IInv
  OBVIOUS
<1>1. /\ can_write = [p \in Proc |-> p = "A"]
      /\ pending = [p \in Proc |-> {}]
      /\ pc = [p \in Proc |-> "open"]
      /\ sig = [p \in Proc |-> "none"]
      /\ round = [p \in Proc |-> 0]
      /\ write_index \in 0 .. BUFFER_SIZE
      /\ pid \in [Proc -> {NONE, OLD}]
      /\ buffer = [c \in Cell |-> OLD]
      /\ shm \in {"absent", "sized"}
  BY BufferAssumption DEF Init
<1>2. TypeOK
  BY <1>1, RoundsAssumption DEF TypeOK, At, Labels, Unmasked, Gone, Proc
<1>3. TokenInv
  BY <1>1 DEF TokenInv, Holds, At, Proc
<1>4. PidInv
  BY <1>1 DEF PidInv, Holds, At, SetUp, Playing, Done, Proc, NONE, OLD
<1>5. RoundInv
  BY <1>1, RoundsAssumption DEF RoundInv, Done, Proc
<1>6. CountInv
  BY <1>1 DEF CountInv, Proc, NONE, OLD
<1> QED BY <1>2, <1>3, <1>4, <1>5, <1>6 DEF IInv

\* A writer with the permission is past the set-up and has room.
LEMMA Room ==
    ASSUME IInv, NEW p \in Proc, can_write[p],
           pc[p] \in {"turn", "write", "advance"}
    PROVE  write_index \in Nat /\ write_index < 2 * Rounds /\ pid["A"] = "A"
<1> USE RoundsAssumption DEF Proc
<1>1. write_index \in Nat /\ round[p] \in Nat
  BY BufferAssumption DEF IInv, TypeOK
<1>2. round[p] < Rounds
  BY DEF IInv, RoundInv, Done
<1>3. Holds(p)
  BY DEF Holds
<1>4. pid["A"] = "A"
  BY <1>3 DEF IInv, PidInv, SetUp
<1>5. CASE p = "A"
  BY <1>1, <1>2, <1>3, <1>4, <1>5
  DEF IInv, CountInv, CountA, Written, Leaving
<1>6. CASE p = "B"
  BY <1>1, <1>2, <1>3, <1>4, <1>6
  DEF IInv, CountInv, CountB, Written, Leaving
<1> QED BY <1>4, <1>5, <1>6

\* The permission is in one place, and whoever writes has it.
LEMMA TokenStep ==
    ASSUME IInv, [Next]_vars
    PROVE  TokenInv'
<1> USE DEF IInv, At, Goto, segment, Proc, Other
<1>1. CASE a_shm_open
  BY <1>1 DEF a_shm_open, TokenInv, Holds
<1>2. CASE a_ftruncate
  BY <1>2 DEF a_ftruncate, TokenInv, Holds
<1>3. CASE a_clear_index
  BY <1>3 DEF a_clear_index, TokenInv, Holds
<1>4. CASE a_store_pid
  BY <1>4 DEF a_store_pid, NONE, OLD, TokenInv, Holds
<1>5. CASE a_clear_pid
  BY <1>5 DEF a_clear_pid, NONE, OLD, TokenInv, Holds
<1>6. CASE a_await_b
  BY <1>6 DEF a_await_b, NONE, OLD, TokenInv, Holds
<1>7. CASE b_shm_open
  BY <1>7 DEF b_shm_open, TokenInv, Holds
<1>8. CASE b_store_pid
  BY <1>8 DEF b_store_pid, NONE, OLD, TypeOK, Labels, Unmasked, Gone, Cell,
        TokenInv, Holds
<1>9. ASSUME NEW p \in Proc, sigmask(p) PROVE TokenInv'
  BY <1>9 DEF sigmask, TokenInv, Holds
<1>10. ASSUME NEW p \in Proc, create_threads(p) PROVE TokenInv'
  BY <1>10 DEF create_threads, TokenInv, Holds
<1>11. ASSUME NEW p \in Proc, sigwait(p) PROVE TokenInv'
  BY <1>11 DEF sigwait, Gone, Unmasked, TypeOK, Labels, Cell, TokenInv, Holds
<1>12. ASSUME NEW p \in Proc, permit(p) PROVE TokenInv'
  BY <1>12 DEF permit, Gone, Unmasked, TypeOK, Labels, Cell, TokenInv, Holds
<1>13. ASSUME NEW p \in Proc, await_permission(p) PROVE TokenInv'
  BY <1>13 DEF await_permission, TokenInv, Holds
<1>14. ASSUME NEW p \in Proc, write_char(p) PROVE TokenInv'
  BY <1>14 DEF write_char, TokenInv, Holds
<1>15. ASSUME NEW p \in Proc, advance(p) PROVE TokenInv'
  BY <1>15 DEF advance, TokenInv, Holds
<1>16. ASSUME NEW p \in Proc, reset(p) PROVE TokenInv'
  BY <1>16 DEF reset, TypeOK, Labels, Unmasked, Gone, Cell, TokenInv, Holds
<1>17. ASSUME NEW p \in Proc, pass(p) PROVE TokenInv'
  BY <1>17 DEF pass, pc_after, pending_after, Gone, Unmasked, TypeOK, Labels,
        Cell, TokenInv, Holds
<1>18. ASSUME NEW p \in Proc, next_round(p) PROVE TokenInv'
  BY <1>18 DEF next_round, TokenInv, Holds
<1>19. ASSUME NEW p \in Proc, join(p) PROVE TokenInv'
  BY <1>19 DEF join, TokenInv, Holds
<1>20. ASSUME NEW p \in Proc, print_buffer(p) PROVE TokenInv'
  BY <1>20 DEF print_buffer, TokenInv, Holds
<1>21. ASSUME NEW p \in Proc, sigterm(p) PROVE TokenInv'
  BY <1>21 DEF sigterm, pc_after, pending_after, Gone, Unmasked, TokenInv,
        Holds
<1>22. ASSUME NEW p \in Proc, sigint(p) PROVE TokenInv'
  BY <1>22 DEF sigint, Gone, Unmasked, TokenInv, Holds
<1>23. CASE UNCHANGED vars
  BY <1>23 DEF vars, TokenInv, Holds
<1> QED BY <1>1, <1>2, <1>3, <1>4, <1>5, <1>6, <1>7, <1>8, <1>9, <1>10, <1>11,
   <1>12, <1>13, <1>14, <1>15, <1>16, <1>17, <1>18, <1>19, <1>20, <1>21,
   <1>22, <1>23
  DEF Next, Program, main, writer_thread, signal_thread

\* Who knows whom; nobody plays before A has set up.
LEMMA PidStep ==
    ASSUME IInv, [Next]_vars
    PROVE  PidInv'
<1> USE DEF IInv, At, Goto, segment, Proc, Other
<1>1. CASE a_shm_open
  BY <1>1 DEF a_shm_open, NONE, OLD, PidInv, SetUp, Playing, Done, Holds,
        Unmasked
<1>2. CASE a_ftruncate
  BY <1>2 DEF a_ftruncate, NONE, OLD, PidInv, SetUp, Playing, Done, Holds,
        Unmasked
<1>3. CASE a_clear_index
  BY <1>3 DEF a_clear_index, NONE, OLD, PidInv, SetUp, Playing, Done, Holds,
        Unmasked
<1>4. CASE a_store_pid
  BY <1>4 DEF a_store_pid, NONE, OLD, TypeOK, Labels, Unmasked, Gone, Cell,
        PidInv, SetUp, Playing, Done, Holds
<1>5. CASE a_clear_pid
  BY <1>5 DEF a_clear_pid, NONE, OLD, TypeOK, Labels, Unmasked, Gone, Cell,
        PidInv, SetUp, Playing, Done, Holds
<1>6. CASE a_await_b
  BY <1>6 DEF a_await_b, NONE, OLD, PidInv, SetUp, Playing, Done, Holds,
        Unmasked
<1>7. CASE b_shm_open
  BY <1>7 DEF b_shm_open, NONE, OLD, PidInv, SetUp, Playing, Done, Holds,
        Unmasked
<1>8. CASE b_store_pid
  BY <1>8 DEF b_store_pid, NONE, OLD, TypeOK, Labels, Unmasked, Gone, Cell,
        PidInv, SetUp, Playing, Done, Holds
<1>9. ASSUME NEW p \in Proc, sigmask(p) PROVE PidInv'
  BY <1>9 DEF sigmask, NONE, OLD, PidInv, SetUp, Playing, Done, Holds,
        Unmasked
<1>10. ASSUME NEW p \in Proc, create_threads(p) PROVE PidInv'
  BY <1>10 DEF create_threads, NONE, OLD, PidInv, SetUp, Playing, Done, Holds,
        Unmasked
<1>11. ASSUME NEW p \in Proc, sigwait(p) PROVE PidInv'
  BY <1>11 DEF sigwait, Gone, Unmasked, NONE, OLD, PidInv, SetUp, Playing,
        Done, Holds
<1>12. ASSUME NEW p \in Proc, permit(p) PROVE PidInv'
  BY <1>12 DEF permit, Gone, Unmasked, NONE, OLD, PidInv, SetUp, Playing,
        Done, Holds
<1>13. ASSUME NEW p \in Proc, await_permission(p) PROVE PidInv'
  BY <1>13 DEF await_permission, NONE, OLD, PidInv, SetUp, Playing, Done,
        Holds, Unmasked
<1>14. ASSUME NEW p \in Proc, write_char(p) PROVE PidInv'
  BY <1>14 DEF write_char, NONE, OLD, PidInv, SetUp, Playing, Done, Holds,
        Unmasked
<1>15. ASSUME NEW p \in Proc, advance(p) PROVE PidInv'
  BY <1>15 DEF advance, NONE, OLD, PidInv, SetUp, Playing, Done, Holds,
        Unmasked
<1>16. ASSUME NEW p \in Proc, reset(p) PROVE PidInv'
  BY <1>16 DEF reset, NONE, OLD, PidInv, SetUp, Playing, Done, Holds, Unmasked
<1>17. ASSUME NEW p \in Proc, pass(p) PROVE PidInv'
  BY <1>17 DEF pass, pc_after, pending_after, Gone, Unmasked, NONE, OLD,
        TypeOK, Labels, Cell, PidInv, SetUp, Playing, Done, Holds
<1>18. ASSUME NEW p \in Proc, next_round(p) PROVE PidInv'
  BY <1>18 DEF next_round, NONE, OLD, PidInv, SetUp, Playing, Done, Holds,
        Unmasked
<1>19. ASSUME NEW p \in Proc, join(p) PROVE PidInv'
  BY <1>19 DEF join, NONE, OLD, PidInv, SetUp, Playing, Done, Holds, Unmasked
<1>20. ASSUME NEW p \in Proc, print_buffer(p) PROVE PidInv'
  BY <1>20 DEF print_buffer, NONE, OLD, PidInv, SetUp, Playing, Done, Holds,
        Unmasked
<1>21. ASSUME NEW p \in Proc, sigterm(p) PROVE PidInv'
  BY <1>21 DEF sigterm, pc_after, pending_after, Gone, Unmasked, NONE, OLD,
        PidInv, SetUp, Playing, Done, Holds
<1>22. ASSUME NEW p \in Proc, sigint(p) PROVE PidInv'
  BY <1>22 DEF sigint, Gone, Unmasked, NONE, OLD, PidInv, SetUp, Playing,
        Done, Holds
<1>23. CASE UNCHANGED vars
  BY <1>23 DEF vars, PidInv, SetUp, Playing, Done, Holds, Unmasked
<1> QED BY <1>1, <1>2, <1>3, <1>4, <1>5, <1>6, <1>7, <1>8, <1>9, <1>10, <1>11,
   <1>12, <1>13, <1>14, <1>15, <1>16, <1>17, <1>18, <1>19, <1>20, <1>21,
   <1>22, <1>23
  DEF Next, Program, main, writer_thread, signal_thread

\* Values stay in range: the position because there is room when it advances.
LEMMA TypeStep ==
    ASSUME IInv, [Next]_vars
    PROVE  TypeOK'
<1> USE DEF IInv, At, Goto, segment, Proc, Other
<1>1. CASE a_shm_open
  BY <1>1 DEF a_shm_open, TypeOK, Labels, Unmasked, Gone, Cell
<1>2. CASE a_ftruncate
  BY <1>2 DEF a_ftruncate, TypeOK, Labels, Unmasked, Gone, Cell
<1>3. CASE a_clear_index
  BY <1>3, BufferAssumption DEF a_clear_index, TypeOK, Labels, Unmasked, Gone,
        Cell
<1>4. CASE a_store_pid
  BY <1>4 DEF a_store_pid, NONE, OLD, TypeOK, Labels, Unmasked, Gone, Cell
<1>5. CASE a_clear_pid
  BY <1>5 DEF a_clear_pid, NONE, OLD, TypeOK, Labels, Unmasked, Gone, Cell
<1>6. CASE a_await_b
  BY <1>6 DEF a_await_b, NONE, OLD, TypeOK, Labels, Unmasked, Gone, Cell
<1>7. CASE b_shm_open
  BY <1>7 DEF b_shm_open, TypeOK, Labels, Unmasked, Gone, Cell
<1>8. CASE b_store_pid
  BY <1>8 DEF b_store_pid, NONE, OLD, TypeOK, Labels, Unmasked, Gone, Cell
<1>9. ASSUME NEW p \in Proc, sigmask(p) PROVE TypeOK'
  BY <1>9 DEF sigmask, TypeOK, Labels, Unmasked, Gone, Cell
<1>10. ASSUME NEW p \in Proc, create_threads(p) PROVE TypeOK'
  BY <1>10 DEF create_threads, TypeOK, Labels, Unmasked, Gone, Cell
<1>11. ASSUME NEW p \in Proc, sigwait(p) PROVE TypeOK'
  BY <1>11 DEF sigwait, Gone, Unmasked, TypeOK, Labels, Cell
<1>12. ASSUME NEW p \in Proc, permit(p) PROVE TypeOK'
  BY <1>12 DEF permit, Gone, Unmasked, TypeOK, Labels, Cell
<1>13. ASSUME NEW p \in Proc, await_permission(p) PROVE TypeOK'
  BY <1>13, RoundsAssumption, BufferAssumption DEF await_permission, TypeOK,
        Labels, Unmasked, Gone, Cell
<1>14. ASSUME NEW p \in Proc, write_char(p) PROVE TypeOK'
  BY <1>14, BufferAssumption DEF write_char, TypeOK, Labels, Unmasked, Gone,
        Cell
<1>15. ASSUME NEW p \in Proc, advance(p) PROVE TypeOK'
  <2>1. write_index' \in 0 .. BUFFER_SIZE
    <3>1. can_write[p]
      BY <1>15 DEF advance, TokenInv
    <3>2. write_index \in Nat /\ write_index < 2 * Rounds
      BY <1>15, <3>1, Room DEF advance
    <3> QED BY <1>15, <3>2, RoundsAssumption, BufferAssumption DEF advance
  <2>2. \A q \in Proc : pc'[q] # "write"
    BY <1>15 DEF advance, TypeOK, TokenInv, Holds
  <2>3. pc' \in [Proc -> Labels]
    BY <1>15 DEF advance, TypeOK, Labels
  <2> QED BY <1>15, <2>1, <2>2, <2>3 DEF advance, TypeOK
<1>16. ASSUME NEW p \in Proc, reset(p) PROVE TypeOK'
  BY <1>16 DEF reset, TypeOK, Labels, Unmasked, Gone, Cell
<1>17. ASSUME NEW p \in Proc, pass(p) PROVE TypeOK'
  BY <1>17 DEF pass, pc_after, pending_after, Gone, Unmasked, NONE, OLD,
        TypeOK, Labels, Cell, PidInv, SetUp, Playing, Done, Holds
<1>18. ASSUME NEW p \in Proc, next_round(p) PROVE TypeOK'
  BY <1>18, RoundsAssumption DEF next_round, TypeOK, Labels, Unmasked, Gone,
        Cell, RoundInv, Done
<1>19. ASSUME NEW p \in Proc, join(p) PROVE TypeOK'
  BY <1>19 DEF join, TypeOK, Labels, Unmasked, Gone, Cell
<1>20. ASSUME NEW p \in Proc, print_buffer(p) PROVE TypeOK'
  BY <1>20 DEF print_buffer, TypeOK, Labels, Unmasked, Gone, Cell
<1>21. ASSUME NEW p \in Proc, sigterm(p) PROVE TypeOK'
  BY <1>21 DEF sigterm, pc_after, pending_after, Gone, Unmasked, TypeOK,
        Labels, Cell
<1>22. ASSUME NEW p \in Proc, sigint(p) PROVE TypeOK'
  BY <1>22 DEF sigint, Gone, Unmasked, TypeOK, Labels, Cell
<1>23. CASE UNCHANGED vars
  BY <1>23 DEF vars, TypeOK, Labels, Unmasked, Gone, Cell
<1> QED BY <1>1, <1>2, <1>3, <1>4, <1>5, <1>6, <1>7, <1>8, <1>9, <1>10, <1>11,
   <1>12, <1>13, <1>14, <1>15, <1>16, <1>17, <1>18, <1>19, <1>20, <1>21,
   <1>22, <1>23
  DEF Next, Program, main, writer_thread, signal_thread

\* The rounds, and the character about to be counted.
LEMMA RoundStep ==
    ASSUME IInv, [Next]_vars
    PROVE  RoundInv'
<1> USE DEF IInv, At, Goto, segment, Proc, Other
<1>1. CASE a_shm_open
  BY <1>1, RoundsAssumption DEF a_shm_open, RoundInv, Done, Unmasked
<1>2. CASE a_ftruncate
  BY <1>2, RoundsAssumption DEF a_ftruncate, RoundInv, Done, Unmasked
<1>3. CASE a_clear_index
  BY <1>3, RoundsAssumption DEF a_clear_index, NONE, OLD, TypeOK, Labels,
        Unmasked, Gone, Cell, PidInv, SetUp, Playing, Done, Holds, RoundInv
<1>4. CASE a_store_pid
  BY <1>4, RoundsAssumption DEF a_store_pid, NONE, OLD, RoundInv, Done,
        Unmasked
<1>5. CASE a_clear_pid
  BY <1>5, RoundsAssumption DEF a_clear_pid, NONE, OLD, RoundInv, Done,
        Unmasked
<1>6. CASE a_await_b
  BY <1>6, RoundsAssumption DEF a_await_b, NONE, OLD, RoundInv, Done, Unmasked
<1>7. CASE b_shm_open
  BY <1>7, RoundsAssumption DEF b_shm_open, RoundInv, Done, Unmasked
<1>8. CASE b_store_pid
  BY <1>8, RoundsAssumption DEF b_store_pid, NONE, OLD, TypeOK, Labels,
        Unmasked, Gone, Cell, RoundInv, Done
<1>9. ASSUME NEW p \in Proc, sigmask(p) PROVE RoundInv'
  BY <1>9, RoundsAssumption DEF sigmask, RoundInv, Done, Unmasked
<1>10. ASSUME NEW p \in Proc, create_threads(p) PROVE RoundInv'
  BY <1>10, RoundsAssumption DEF create_threads, RoundInv, Done, Unmasked
<1>11. ASSUME NEW p \in Proc, sigwait(p) PROVE RoundInv'
  BY <1>11, RoundsAssumption DEF sigwait, Gone, Unmasked, RoundInv, Done
<1>12. ASSUME NEW p \in Proc, permit(p) PROVE RoundInv'
  BY <1>12, RoundsAssumption DEF permit, Gone, Unmasked, RoundInv, Done
<1>13. ASSUME NEW p \in Proc, await_permission(p) PROVE RoundInv'
  BY <1>13, Room, BufferAssumption, RoundsAssumption DEF await_permission,
        NONE, OLD, TypeOK, Labels, Unmasked, Gone, Cell, RoundInv, Done
<1>14. ASSUME NEW p \in Proc, write_char(p) PROVE RoundInv'
  BY <1>14, RoundsAssumption DEF write_char, TypeOK, Labels, Unmasked, Gone,
        Cell, TokenInv, Holds, RoundInv, Done
<1>15. ASSUME NEW p \in Proc, advance(p) PROVE RoundInv'
  BY <1>15, RoundsAssumption DEF advance, TypeOK, Labels, Unmasked, Gone,
        Cell, RoundInv, Done
<1>16. ASSUME NEW p \in Proc, reset(p) PROVE RoundInv'
  BY <1>16, RoundsAssumption DEF reset, RoundInv, Done, Unmasked
<1>17. ASSUME NEW p \in Proc, pass(p) PROVE RoundInv'
  BY <1>17, RoundsAssumption DEF pass, pc_after, pending_after, Gone,
        Unmasked, TypeOK, Labels, Cell, RoundInv, Done
<1>18. ASSUME NEW p \in Proc, next_round(p) PROVE RoundInv'
  BY <1>18, RoundsAssumption DEF next_round, TypeOK, Labels, Unmasked, Gone,
        Cell, RoundInv, Done
<1>19. ASSUME NEW p \in Proc, join(p) PROVE RoundInv'
  BY <1>19, RoundsAssumption DEF join, RoundInv, Done, Unmasked
<1>20. ASSUME NEW p \in Proc, print_buffer(p) PROVE RoundInv'
  BY <1>20, RoundsAssumption DEF print_buffer, RoundInv, Done, Unmasked
<1>21. ASSUME NEW p \in Proc, sigterm(p) PROVE RoundInv'
  BY <1>21, RoundsAssumption DEF sigterm, pc_after, pending_after, Gone,
        Unmasked, RoundInv, Done
<1>22. ASSUME NEW p \in Proc, sigint(p) PROVE RoundInv'
  BY <1>22, RoundsAssumption DEF sigint, Gone, Unmasked, RoundInv, Done
<1>23. CASE UNCHANGED vars
  BY <1>23 DEF vars, RoundInv, Done, Unmasked
<1> QED BY <1>1, <1>2, <1>3, <1>4, <1>5, <1>6, <1>7, <1>8, <1>9, <1>10, <1>11,
   <1>12, <1>13, <1>14, <1>15, <1>16, <1>17, <1>18, <1>19, <1>20, <1>21,
   <1>22, <1>23
  DEF Next, Program, main, writer_thread, signal_thread

\* The position follows from the rounds.
LEMMA CountStep ==
    ASSUME IInv, [Next]_vars
    PROVE  CountInv'
<1> USE DEF IInv, At, Goto, segment, Proc, Other
<1>1. CASE a_shm_open
  BY <1>1 DEF a_shm_open, CountInv, CountA, CountB, Holds, Written, Leaving
<1>2. CASE a_ftruncate
  BY <1>2 DEF a_ftruncate, CountInv, CountA, CountB, Holds, Written, Leaving
<1>3. CASE a_clear_index
  BY <1>3, BufferAssumption DEF a_clear_index, NONE, OLD, TypeOK, Labels,
        Unmasked, Gone, Cell, PidInv, SetUp, Playing, Done, Holds, CountInv,
        CountA, CountB, Written, Leaving
<1>4. CASE a_store_pid
  BY <1>4 DEF a_store_pid, NONE, OLD, TypeOK, Labels, Unmasked, Gone, Cell,
        PidInv, SetUp, Playing, Done, Holds, RoundInv, CountInv, CountA,
        CountB, Written, Leaving
<1>5. CASE a_clear_pid
  BY <1>5 DEF a_clear_pid, NONE, OLD, CountInv, CountA, CountB, Holds,
        Written, Leaving
<1>6. CASE a_await_b
  BY <1>6 DEF a_await_b, NONE, OLD, CountInv, CountA, CountB, Holds, Written,
        Leaving
<1>7. CASE b_shm_open
  BY <1>7 DEF b_shm_open, CountInv, CountA, CountB, Holds, Written, Leaving
<1>8. CASE b_store_pid
  BY <1>8 DEF b_store_pid, NONE, OLD, TypeOK, Labels, Unmasked, Gone, Cell,
        CountInv, CountA, CountB, Holds, Written, Leaving
<1>9. ASSUME NEW p \in Proc, sigmask(p) PROVE CountInv'
  BY <1>9 DEF sigmask, CountInv, CountA, CountB, Holds, Written, Leaving
<1>10. ASSUME NEW p \in Proc, create_threads(p) PROVE CountInv'
  BY <1>10 DEF create_threads, CountInv, CountA, CountB, Holds, Written,
        Leaving
<1>11. ASSUME NEW p \in Proc, sigwait(p) PROVE CountInv'
  BY <1>11 DEF sigwait, Gone, Unmasked, CountInv, CountA, CountB, Holds,
        Written, Leaving
<1>12. ASSUME NEW p \in Proc, permit(p) PROVE CountInv'
  BY <1>12 DEF permit, Gone, Unmasked, CountInv, CountA, CountB, Holds,
        Written, Leaving
<1>13. ASSUME NEW p \in Proc, await_permission(p) PROVE CountInv'
  BY <1>13, BufferAssumption DEF await_permission, CountInv, CountA, CountB,
        Holds, Written, Leaving
<1>14. ASSUME NEW p \in Proc, write_char(p) PROVE CountInv'
  BY <1>14, BufferAssumption DEF write_char, CountInv, CountA, CountB, Holds,
        Written, Leaving
<1>15. ASSUME NEW p \in Proc, advance(p) PROVE CountInv'
  <2>1. /\ can_write[p] /\ pc[p] = "advance" /\ Holds(p)
        /\ write_index \in Nat /\ write_index' = write_index + 1
        /\ round' = round /\ pid' = pid /\ pid["A"] = "A"
        /\ pc' = [pc EXCEPT ![p] = "reset"] /\ round[p] \in Nat
    <3>1. can_write[p]
      BY <1>15 DEF advance, TokenInv
    <3> QED BY <1>15, <3>1, Room DEF advance, Holds, TypeOK
  <2>2. ~Holds(Other(p)) /\ Holds(p)' /\ ~Holds(Other(p))'
    BY <1>15, <2>1 DEF advance, TokenInv, Holds, TypeOK
  <2>3. /\ Written(p) = round[p] /\ Written(p)' = round[p] + 1
        /\ Written(Other(p))' = Written(Other(p))
        /\ Leaving(p)' /\ ~Leaving(p)
    BY <2>1 DEF Written, Leaving, TypeOK
  <2>4. Written(Other(p)) \in Nat
    BY RoundsAssumption DEF Written, TypeOK
  <2>5. pc' \in [Proc -> Labels] /\ \A q \in Proc : q # p => pc'[q] = pc[q]
    BY <2>1 DEF TypeOK, Labels
  <2>6. CASE p = "A"
    BY <2>1, <2>2, <2>3, <2>4, <2>5, <2>6 DEF CountInv, CountA, CountB
  <2>7. CASE p = "B"
    <3>1. CountA'
      BY <2>1, <2>2, <2>3, <2>4, <2>5, <2>7 DEF CountInv, CountA
    <3>2. CountB'
      BY <2>1, <2>2, <2>3, <2>4, <2>5, <2>7 DEF CountInv, CountB
    <3>3. (\A q \in Proc : pc[q] # "killed")' =>
             write_index' = Written("A")' + Written("B")'
      BY <2>1, <2>2, <2>3, <2>4, <2>5, <2>7 DEF CountInv
    <3> QED BY <3>1, <3>2, <3>3 DEF CountInv
  <2> QED BY <1>15, <2>6, <2>7
<1>16. ASSUME NEW p \in Proc, reset(p) PROVE CountInv'
  BY <1>16 DEF reset, TypeOK, Labels, Unmasked, Gone, Cell, TokenInv, Holds,
        CountInv, CountA, CountB, Written, Leaving
<1>17. ASSUME NEW p \in Proc, pass(p) PROVE CountInv'
  <2>1. CASE p = "A"
    BY <1>17, <2>1 DEF pass, pc_after, pending_after, Gone, Unmasked, NONE,
        OLD, TypeOK, Labels, Cell, TokenInv, Holds, PidInv, SetUp, Playing,
        Done, RoundInv, CountInv, CountA, CountB, Written, Leaving
  <2>2. CASE p = "B"
    BY <1>17, <2>2 DEF pass, pc_after, pending_after, Gone, Unmasked, NONE,
        OLD, TypeOK, Labels, Cell, TokenInv, Holds, PidInv, SetUp, Playing,
        Done, RoundInv, CountInv, CountA, CountB, Written, Leaving
  <2> QED BY <1>17, <2>1, <2>2
<1>18. ASSUME NEW p \in Proc, next_round(p) PROVE CountInv'
  BY <1>18, RoundsAssumption DEF next_round, TypeOK, Labels, Unmasked, Gone,
        Cell, TokenInv, Holds, CountInv, CountA, CountB, Written, Leaving
<1>19. ASSUME NEW p \in Proc, join(p) PROVE CountInv'
  BY <1>19 DEF join, CountInv, CountA, CountB, Holds, Written, Leaving
<1>20. ASSUME NEW p \in Proc, print_buffer(p) PROVE CountInv'
  BY <1>20 DEF print_buffer, CountInv, CountA, CountB, Holds, Written, Leaving
<1>21. ASSUME NEW p \in Proc, sigterm(p) PROVE CountInv'
  BY <1>21 DEF sigterm, pc_after, pending_after, Gone, Unmasked, CountInv,
        CountA, CountB, Holds, Written, Leaving
<1>22. ASSUME NEW p \in Proc, sigint(p) PROVE CountInv'
  BY <1>22 DEF sigint, Gone, Unmasked, CountInv, CountA, CountB, Holds,
        Written, Leaving
<1>23. CASE UNCHANGED vars
  BY <1>23 DEF vars, CountInv, CountA, CountB, Holds, Written, Leaving
<1> QED BY <1>1, <1>2, <1>3, <1>4, <1>5, <1>6, <1>7, <1>8, <1>9, <1>10, <1>11,
   <1>12, <1>13, <1>14, <1>15, <1>16, <1>17, <1>18, <1>19, <1>20, <1>21,
   <1>22, <1>23
  DEF Next, Program, main, writer_thread, signal_thread

LEMMA StepIInv == IInv /\ [Next]_vars => IInv'
  BY TokenStep, PidStep, TypeStep, RoundStep, CountStep DEF IInv

LEMMA Invariance == Spec => []IInv
  BY InitIInv, StepIInv, PTL DEF Spec

-------------------------------------------------------------------------------

\* Values stay in range, and no character is written past the buffer.
THEOREM TypeCorrect == Spec => []TypeOK
<1>1. IInv => TypeOK
  BY DEF IInv
<1> QED BY <1>1, Invariance, PTL

\* Of the permission to write there is one at most, in the variables of the
\* two processes or on its way as a signal, whatever the signals meet.
THEOREM OnePermission == Spec => []OneTurn
<1>1. TokenInv => OneTurn
  BY DEF TokenInv, OneTurn, Turn, Holds, At, Proc
<1> QED BY <1>1, Invariance, PTL DEF IInv

\* kill is only called with the pid of the partner of this run.
THEOREM OnlyToPartner == Spec => []PassedToPartner
<1>1. PidInv => PassedToPartner
  BY DEF PidInv, PassedToPartner, Holds, At, Proc, Other, SetUp, Playing
<1> QED BY <1>1, Invariance, PTL DEF IInv

\* Who gets as far as printing finds the text of all its rounds.
THEOREM WholeText == Spec => []PrintsTheText
<1> SUFFICES ASSUME IInv PROVE PrintsTheText
  BY Invariance, PTL
<1> SUFFICES ASSUME NEW p \in Proc, pc[p] \in {"print", "ended"}
             PROVE  /\ round[p] = Rounds
                    /\ write_index >= IF p = "A" THEN 2 * Rounds - 1
                                      ELSE 2 * Rounds
  BY DEF PrintsTheText
<1>1. round[p] = Rounds /\ Written(p) = Rounds
  BY RoundsAssumption DEF IInv, RoundInv, Done, Written
<1>2. pid["A"] = "A"
  BY <1>1, RoundsAssumption DEF IInv, PidInv, SetUp, Proc
<1>3. CASE p = "A"
  BY <1>1, <1>2, <1>3 DEF IInv, CountInv, CountA
<1>4. CASE p = "B"
  BY <1>1, <1>2, <1>4 DEF IInv, CountInv, CountB
<1> QED BY <1>3, <1>4 DEF Proc

-------------------------------------------------------------------------------
(* The refinement. *)

\* What a sequence given by its elements is.
LEMMA TextOf ==
    ASSUME NEW n \in Nat, NEW b
    PROVE  LET t == [i \in 1 .. n |-> b[i - 1]]
           IN  /\ t \in Seq({b[i - 1] : i \in 1 .. n}) /\ Len(t) = n
<1> DEFINE t == [i \in 1 .. n |-> b[i - 1]]
           S == {b[i - 1] : i \in 1 .. n}
<1>1. t \in [1 .. n -> S]
  OBVIOUS
<1> HIDE DEF t, S
<1>2. t \in Seq(S)
  BY <1>1, SeqDef
<1>3. Len(t) = n
  BY <1>1, <1>2, LenProperties
<1> QED BY <1>2, <1>3 DEF t, S

\* One more cell is one more character.
LEMMA TextGrows ==
    ASSUME NEW n \in Nat, NEW b
    PROVE  [i \in 1 .. n + 1 |-> b[i - 1]]
           = Append([i \in 1 .. n |-> b[i - 1]], b[n])
<1> DEFINE t == [i \in 1 .. n |-> b[i - 1]]
           S == {b[i - 1] : i \in 1 .. n} \cup {b[n]}
<1>1. t \in [1 .. n -> S]
  OBVIOUS
<1>2. t \in Seq(S) /\ Len(t) = n
  BY <1>1, SeqDef, TextOf
<1>3. /\ Append(t, b[n]) \in Seq(S)
      /\ Len(Append(t, b[n])) = n + 1
      /\ \A i \in 1 .. n : Append(t, b[n])[i] = t[i]
      /\ Append(t, b[n])[n + 1] = b[n]
  BY <1>2, AppendProperties
<1>4. DOMAIN Append(t, b[n]) = 1 .. n + 1
  BY <1>3, LenProperties
<1> QED BY <1>3, <1>4

LEMMA InitRefines == Init => Promise!Init
<1> SUFFICES ASSUME Init PROVE written = <<>>
  BY DEF Promise!Init
<1> QED BY DEF Init, written, Proc, NONE, OLD

\* The position advances over the character just written, by the process whose
\* turn the text says it is, while there are characters left to write.
LEMMA AdvanceRefines ==
    ASSUME IInv, NEW p \in Proc, advance(p)
    PROVE  Promise!Next
<1>1. pc[p] = "advance" /\ can_write[p] /\ Holds(p)
  BY DEF advance, At, IInv, TokenInv, Holds
<1>2. /\ write_index \in Nat /\ write_index < 2 * Rounds /\ pid["A"] = "A"
      /\ write_index' = write_index + 1 /\ UNCHANGED <<buffer, pid>>
  BY <1>1, Room DEF advance, segment
<1>3. written = [i \in 1 .. write_index |-> buffer[i - 1]]
  BY <1>2 DEF written
<1>4. written' = [i \in 1 .. write_index + 1 |-> buffer[i - 1]]
  BY <1>2 DEF written
<1>5. written' = Append(written, p)
  BY <1>1, <1>2, <1>3, <1>4, TextGrows DEF IInv, RoundInv
<1>6. Len(written) = write_index
  BY <1>2, <1>3, TextOf
<1>7. p = IF write_index % 2 = 0 THEN "A" ELSE "B"
  <2>1. round[p] \in Nat /\ Written(p) = round[p]
    BY <1>1, RoundsAssumption DEF IInv, TypeOK, Written
  <2>2. CASE p = "A"
    <3>1. write_index = 2 * round[p]
      BY <1>1, <1>2, <2>1, <2>2 DEF IInv, CountInv, CountA, Leaving
    <3> QED BY <2>1, <2>2, <3>1
  <2>3. CASE p = "B"
    <3>1. write_index = 2 * round[p] + 1
      BY <1>1, <1>2, <2>1, <2>3 DEF IInv, CountInv, CountB, Leaving
    <3> QED BY <2>1, <2>3, <3>1
  <2> QED BY <2>2, <2>3 DEF Proc
<1> QED BY <1>2, <1>5, <1>6, <1>7 DEF Promise!Next, Promise!Write, Proc

\* A character is written above the position, out of the text.
LEMMA WriteRefines ==
    ASSUME IInv, NEW p \in Proc, write_char(p)
    PROVE  written' = written
<1>1. /\ write_index \in Cell /\ UNCHANGED <<write_index, pid>>
      /\ buffer \in [Cell -> Proc \cup {OLD}]
      /\ buffer' = [buffer EXCEPT ![write_index] = p]
  BY DEF write_char, At, IInv, TypeOK
<1>2. \A i \in 1 .. write_index : buffer'[i - 1] = buffer[i - 1]
  BY <1>1, BufferAssumption DEF Cell
<1> QED BY <1>1, <1>2 DEF written

\* A stores its pid when it has cleared the position: the text begins empty.
LEMMA StoreRefines == IInv /\ a_store_pid => written' = written
<1> SUFFICES ASSUME IInv, a_store_pid PROVE written' = written
  OBVIOUS
<1>1. write_index = 0 /\ write_index' = 0 /\ pid["A"] # "A"
  BY DEF a_store_pid, At, IInv, PidInv, SetUp
<1> QED BY <1>1 DEF written

\* Nothing else concerns the text.
LEMMA OthersRefine ==
    ASSUME IInv, [Next]_vars, ~a_store_pid,
           \A p \in Proc : ~advance(p) /\ ~write_char(p)
    PROVE  written' = written
<1>1. UNCHANGED segment \/ a_clear_index \/ a_clear_pid \/ b_store_pid
  BY DEF Next, Program, main, writer_thread, signal_thread, vars, segment,
         a_shm_open, a_ftruncate, a_await_b, b_shm_open, sigmask,
         create_threads, sigwait, permit, await_permission, reset, pass,
         next_round, join, print_buffer, sigterm, sigint
<1>2. CASE UNCHANGED segment
  BY <1>2 DEF segment, written
<1>3. CASE a_clear_index
  BY <1>3 DEF a_clear_index, At, IInv, PidInv, SetUp, written
<1>4. CASE a_clear_pid \/ b_store_pid
  <2>1. pid'["A"] = pid["A"] /\ UNCHANGED <<buffer, write_index>>
    BY <1>4 DEF a_clear_pid, b_store_pid, IInv, TypeOK, Proc
  <2> QED BY <2>1 DEF written
<1> QED BY <1>1, <1>2, <1>3, <1>4

LEMMA NextRefines ==
    ASSUME IInv, [Next]_vars
    PROVE  [Promise!Next]_written
<1>1. CASE a_store_pid
  BY <1>1, StoreRefines
<1>2. CASE \E p \in Proc : advance(p) \/ write_char(p)
  BY <1>2, AdvanceRefines, WriteRefines
<1>3. CASE ~a_store_pid /\ \A p \in Proc : ~advance(p) /\ ~write_char(p)
  BY <1>3, OthersRefine
<1> QED BY <1>1, <1>2, <1>3

\* The two programs implement the strict alternation of Alternation.
THEOREM ByTurns == Spec => TextByTurns
<1>1. Spec => Promise!Init
  BY InitRefines DEF Spec
<1>2. IInv /\ [Next]_vars => [Promise!Next]_written
  BY NextRefines
<1>3. Spec => [][Promise!Next]_written
  BY Invariance, <1>2, PTL DEF Spec
<1> QED BY <1>1, <1>3, PTL DEF TextByTurns, Promise!Spec
================================================================================
