------------------------------ MODULE PingPong ------------------------------
(***************************************************************************)
(* esercizi/memoria_condivisa_segnali/processo_a.c and processo_b.c: two    *)
(* programs add characters to a shared buffer by turns; the permission to   *)
(* write goes from one to the other as a signal, SIGUSR1 to B and SIGUSR2   *)
(* to A, which a thread of each takes with sigwait.  The segment may be one *)
(* an earlier run left behind, the user may send SIGTERM or SIGINT to       *)
(* either at any time, and B may start before, during or after A's set-up. *)
(***************************************************************************)
EXTENDS Integers, Sequences

CONSTANTS Rounds,          \* the characters each process writes
          BUFFER_SIZE

ASSUME RoundsAssumption == Rounds \in Nat \ {0}
ASSUME BufferAssumption == BUFFER_SIZE \in Nat /\ 2 * Rounds <= BUFFER_SIZE

Proc == {"A", "B"}
Other(p) == IF p = "A" THEN "B" ELSE "A"
Cell == 0 .. BUFFER_SIZE - 1
NONE == "0"
OLD == "old"     \* what an earlier run left: a character, a pid

VARIABLES
    shm,            \* the name: "absent", "empty" until ftruncate, or "sized"
    buffer, write_index,
    pid,            \* process_a_pid and process_b_pid
    can_write,      \* a variable of each process
    pending,        \* the signals sent to each process and not yet taken
    pc,             \* each main, and its writer thread, which main joins
    sig,            \* each signal thread
    round           \* each writer's i

segment == <<buffer, write_index, pid>>
vars == <<shm, segment, can_write, pending, pc, sig, round>>

At(p, l) == pc[p] = l
Goto(p, l) == pc' = [pc EXCEPT ![p] = l]

Init ==
    /\ \/ shm = "absent" /\ write_index = 0 /\ pid = [p \in Proc |-> NONE]
       \/ shm = "sized" /\ write_index \in 0 .. BUFFER_SIZE
          /\ pid = [p \in Proc |-> OLD]
    /\ buffer = [c \in Cell |-> OLD]
    /\ can_write = [p \in Proc |-> p = "A"]
    /\ pending = [p \in Proc |-> {}]
    /\ pc = [p \in Proc |-> "open"]
    /\ sig = [p \in Proc |-> "none"]
    /\ round = [p \in Proc |-> 0]

-------------------------------------------------------------------------------
(* Set-up.  A creates the segment, or takes the one it finds, and clears it. *)

a_shm_open ==
    /\ At("A", "open")
    /\ shm' = IF shm = "absent" THEN "empty" ELSE shm
    /\ Goto("A", "size")
    /\ UNCHANGED <<segment, can_write, pending, sig, round>>

a_ftruncate ==
    /\ At("A", "size")
    /\ shm' = "sized"
    /\ Goto("A", "index")
    /\ UNCHANGED <<segment, can_write, pending, sig, round>>

\* Variation: the position an earlier run ended at is kept.
a_keep_index ==
    /\ At("A", "index")
    /\ Goto("A", "pid")
    /\ UNCHANGED <<shm, segment, can_write, pending, sig, round>>

a_clear_index ==
    /\ At("A", "index")
    /\ write_index' = 0
    /\ Goto("A", "pid")
    /\ UNCHANGED <<shm, buffer, pid, can_write, pending, sig, round>>

a_store_pid ==
    /\ At("A", "pid")
    /\ pid' = [pid EXCEPT !["A"] = "A"]
    /\ Goto("A", "clear_pid")
    /\ UNCHANGED <<shm, buffer, write_index, can_write, pending, sig, round>>

\* Variation: what an earlier run left as the pid of B is kept.
a_keep_pid ==
    /\ At("A", "clear_pid")
    /\ Goto("A", "mask")
    /\ UNCHANGED <<shm, segment, can_write, pending, sig, round>>

a_clear_pid ==
    /\ At("A", "clear_pid")
    /\ pid' = [pid EXCEPT !["B"] = NONE]
    /\ Goto("A", "mask")
    /\ UNCHANGED <<shm, buffer, write_index, can_write, pending, sig, round>>

\* B does not create the segment: without it, mmap fails and the first store
\* kills B, as it does when the object has no size yet.
b_shm_open ==
    /\ At("B", "open")
    /\ Goto("B", IF shm = "absent" THEN "killed" ELSE "pid")
    /\ UNCHANGED <<shm, segment, can_write, pending, sig, round>>

b_store_pid ==
    /\ At("B", "pid")
    /\ IF shm = "sized"
       THEN pid' = [pid EXCEPT !["B"] = "B"] /\ Goto("B", "mask")
       ELSE Goto("B", "killed") /\ UNCHANGED pid
    /\ UNCHANGED <<shm, buffer, write_index, can_write, pending, sig, round>>

sigmask(p) ==
    /\ At(p, "mask")
    /\ Goto(p, "create")
    /\ UNCHANGED <<shm, segment, can_write, pending, sig, round>>

create_threads(p) ==
    /\ At(p, "create")
    /\ sig' = [sig EXCEPT ![p] = "sigwait"]
    /\ Goto(p, IF p = "A" THEN "await_b" ELSE "turn")
    /\ UNCHANGED <<shm, segment, can_write, pending, round>>

-------------------------------------------------------------------------------
(* Signals.  They are blocked from sigmask on, and pend until sigwait takes *)
(* them; before that any of them ends the process.  A signal that pends     *)
(* already, a process that is gone and a pid of an earlier run lose it.     *)

Unmasked == {"open", "size", "index", "pid", "clear_pid", "mask"}
Gone == {"killed", "ended"}

pc_after(to, l, p) ==
    [pc EXCEPT ![p] = l,
               ![to] = IF pc[to] \in Unmasked THEN "killed" ELSE pc[to]]

pending_after(to, s) ==
    IF to \in Proc /\ pc[to] \notin Unmasked \cup Gone
    THEN [pending EXCEPT ![to] = @ \cup {s}] ELSE pending

\* sigwait of the signal thread: SIGTERM ends this thread only.
sigwait(p) ==
    /\ sig[p] = "sigwait" /\ pc[p] \notin Gone
    /\ \E s \in pending[p] :
          /\ pending' = [pending EXCEPT ![p] = @ \ {s}]
          /\ sig' = [sig EXCEPT ![p] = IF s = "USR" THEN "usr" ELSE "over"]
    /\ UNCHANGED <<shm, segment, can_write, pc, round>>

permit(p) ==
    /\ sig[p] = "usr" /\ pc[p] \notin Gone
    /\ can_write' = [can_write EXCEPT ![p] = TRUE]
    /\ sig' = [sig EXCEPT ![p] = "sigwait"]
    /\ UNCHANGED <<shm, segment, pending, pc, round>>

signal_thread(p) == sigwait(p) \/ permit(p)

-------------------------------------------------------------------------------
(* writer_thread.                                                          *)

\* A waits until B has put its pid into the segment.
a_await_b ==
    /\ At("A", "await_b")
    /\ pid["B"] # NONE
    /\ Goto("A", "turn")
    /\ UNCHANGED <<shm, segment, can_write, pending, sig, round>>

\* Variation: the permission is not waited for.
await_nothing(p) ==
    /\ At(p, "turn")
    /\ Goto(p, IF write_index >= BUFFER_SIZE THEN "join" ELSE "write")
    /\ UNCHANGED <<shm, segment, can_write, pending, sig, round>>

\* The permission, and room in the buffer.
await_permission(p) ==
    /\ At(p, "turn")
    /\ can_write[p]
    /\ Goto(p, IF write_index >= BUFFER_SIZE THEN "join" ELSE "write")
    /\ UNCHANGED <<shm, segment, can_write, pending, sig, round>>

write_char(p) ==
    /\ At(p, "write")
    /\ buffer' = [buffer EXCEPT ![write_index] = p]
    /\ Goto(p, "advance")
    /\ UNCHANGED <<shm, write_index, pid, can_write, pending, sig, round>>

advance(p) ==
    /\ At(p, "advance")
    /\ write_index' = write_index + 1
    /\ Goto(p, "reset")
    /\ UNCHANGED <<shm, buffer, pid, can_write, pending, sig, round>>

\* Variation: the permission is kept when the other is told to write.
reset_forgotten(p) ==
    /\ At(p, "reset")
    /\ Goto(p, "kill")
    /\ UNCHANGED <<shm, segment, can_write, pending, sig, round>>

reset(p) ==
    /\ At(p, "reset")
    /\ can_write' = [can_write EXCEPT ![p] = FALSE]
    /\ Goto(p, "kill")
    /\ UNCHANGED <<shm, segment, pending, sig, round>>

\* Variation: a process looks its own pid up instead of the other's; of the
\* signal it sends itself its signal thread does nothing.
pass_to_itself(p) ==
    /\ At(p, "kill")
    /\ Goto(p, "sleep")
    /\ UNCHANGED <<shm, segment, can_write, pending, sig, round>>

\* kill, to the pid the segment holds.
pass(p) ==
    /\ At(p, "kill")
    /\ LET to == pid[Other(p)] IN
       /\ pending' = pending_after(to, "USR")
       /\ pc' = pc_after(to, "sleep", p)
    /\ UNCHANGED <<shm, segment, can_write, sig, round>>

\* After its pause the writer begins its next round, or ends.
next_round(p) ==
    /\ At(p, "sleep")
    /\ round' = [round EXCEPT ![p] = @ + 1]
    /\ Goto(p, IF round[p] + 1 < Rounds THEN "turn" ELSE "join")
    /\ UNCHANGED <<shm, segment, can_write, pending, sig>>

writer_thread(p) ==
    \/ p = "A" /\ a_await_b
    \/ await_permission(p) \/ write_char(p) \/ advance(p) \/ reset(p)
    \/ pass(p) \/ next_round(p)

-------------------------------------------------------------------------------

\* main joins the writer and cancels the signal thread.
join(p) ==
    /\ At(p, "join")
    /\ sig' = [sig EXCEPT ![p] = "over"]
    /\ Goto(p, "print")
    /\ UNCHANGED <<shm, segment, can_write, pending, round>>

\* The contents up to write_index are printed; A removes the name.
print_buffer(p) ==
    /\ At(p, "print")
    /\ shm' = IF p = "A" THEN "absent" ELSE shm
    /\ Goto(p, "ended")
    /\ UNCHANGED <<segment, can_write, pending, sig, round>>

main(p) ==
    \/ p = "A" /\ (\/ a_shm_open \/ a_ftruncate \/ a_clear_index
                   \/ a_store_pid \/ a_clear_pid)
    \/ p = "B" /\ (b_shm_open \/ b_store_pid)
    \/ sigmask(p) \/ create_threads(p) \/ join(p) \/ print_buffer(p)

\* The user: SIGTERM is among the blocked signals, SIGINT is not.
sigterm(p) ==
    /\ pc[p] \notin Gone
    /\ pending' = pending_after(p, "TERM")
    /\ Goto(p, IF pc[p] \in Unmasked THEN "killed" ELSE pc[p])
    /\ UNCHANGED <<shm, segment, can_write, sig, round>>

sigint(p) ==
    /\ pc[p] \notin Gone
    /\ Goto(p, "killed")
    /\ UNCHANGED <<shm, segment, can_write, pending, sig, round>>

Program(p) == main(p) \/ writer_thread(p)

Next == \E p \in Proc : Program(p) \/ signal_thread(p) \/ sigterm(p) \/ sigint(p)

Spec == Init /\ [][Next]_vars

\* The scheduler runs every thread that can run; the user need do nothing.
FairSpec ==
    /\ Spec
    /\ \A p \in Proc : WF_vars(Program(p)) /\ WF_vars(signal_thread(p))

-------------------------------------------------------------------------------
(* Properties.                                                             *)

Labels == Unmasked \cup Gone \cup
          {"create", "await_b", "turn", "write", "advance", "reset", "kill",
           "sleep", "join", "print"}

\* Values in range, the position included: no character is written past the
\* end of the buffer.
TypeOK ==
    /\ shm \in {"absent", "empty", "sized"}
    /\ buffer \in [Cell -> Proc \cup {OLD}]
    /\ write_index \in 0 .. BUFFER_SIZE
    /\ pid \in [Proc -> Proc \cup {NONE, OLD}]
    /\ can_write \in [Proc -> BOOLEAN]
    /\ pending \in [Proc -> SUBSET {"USR", "TERM"}]
    /\ pc \in [Proc -> Labels]
    /\ sig \in [Proc -> {"none", "sigwait", "usr", "over"}]
    /\ round \in [Proc -> 0 .. Rounds]
    /\ \A p \in Proc : At(p, "write") => write_index \in Cell

\* Where the permission can be: in the variable, about to be sent, pending, or
\* taken by sigwait and not yet in the variable.
Turn(p) == {w \in {"variable", "kill", "pending", "taken"} :
               \/ w = "variable" /\ can_write[p]
               \/ w = "kill" /\ pc[p] = "kill"
               \/ w = "pending" /\ "USR" \in pending[p]
               \/ w = "taken" /\ sig[p] = "usr"}

\* There is never more than one permission to write, wherever it is on its way,
\* so that no signal merges with one pending and no two writers are in the
\* buffer (both writer_threads, which test can_write without a lock).
OneTurn ==
    /\ \A p \in Proc : \A v, w \in Turn(p) : v = w
    /\ Turn("A") = {} \/ Turn("B") = {}

\* A permission is only sent to the process of this run that waits for it,
\* though pids of an earlier run may be in the segment a process attaches.
PassedToPartner ==
    \A p \in Proc : At(p, "kill") => pid[Other(p)] = Other(p)

\* Every process that comes to its end finds the text of both in the buffer;
\* only B's last character may be missing from what A prints.
PrintsTheText ==
    \A p \in Proc : pc[p] \in {"print", "ended"} =>
        /\ round[p] = Rounds
        /\ write_index >= IF p = "A" THEN 2 * Rounds - 1 ELSE 2 * Rounds

\* The text so far: what is below the position, once A has cleared it, which it
\* does before it stores its pid.
written == IF pid["A"] = "A" THEN [i \in 1 .. write_index |-> buffer[i - 1]]
           ELSE <<>>

Promise == INSTANCE Alternation WITH text <- written

\* Whatever the two start from and whoever is stopped, the characters are added
\* to the buffer one at a time, A's and B's by turns, and none is overwritten.
TextByTurns == Promise!Spec

\* Both have blocked the signals, and A knows B.
Met == pid["B"] = "B" /\ \A p \in Proc : pc[p] \notin Unmasked \cup Gone

Stopped == \E p \in Proc : \/ pc[p] = "killed"
                           \/ "TERM" \in pending[p]
                           \/ sig[p] = "over" /\ pc[p] \notin {"print", "ended"}

\* Once the two have met, no permission gets lost on its way: both write all
\* their characters and end, unless the user stops one of them.
BothFinish == Met ~> Stopped \/ \A p \in Proc : pc[p] = "ended"
================================================================================
