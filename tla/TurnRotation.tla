----------------------------- MODULE TurnRotation -----------------------------
(***************************************************************************)
(* esami/SNP60/process1.c: a parent forks NUM_PROCESSES workers, which write *)
(* random words into a shared buffer in turn, until the buffer is full or    *)
(* the user hits Ctrl-C, which every process of the group receives and at    *)
(* any point.  Two semaphores are taken one inside the other.               *)
(***************************************************************************)
EXTENDS Integers, FiniteSets

CONSTANTS NUM_PROCESSES,     \* the workers are 0 .. NUM_PROCESSES - 1
          SHARED_MEM_SIZE,   \* size of the buffer
          WordLen            \* the lengths of the words in the file

ASSUME SizesAssumption ==
    /\ NUM_PROCESSES \in Nat \ {0}
    /\ SHARED_MEM_SIZE \in Nat \ {0}
    /\ WordLen \subseteq Nat \ {0} /\ WordLen # {}

Worker == 0 .. NUM_PROCESSES - 1
MAIN == NUM_PROCESSES
Cell == 0 .. SHARED_MEM_SIZE - 1
NUL == -1
SPACE == -2
UNSET == -3    \* a byte of the handler's own buffer nobody has written

VARIABLES
    buffer,         \* each cell: NUL, SPACE or a letter, by its writer
    current_pos, word_count, turn,
    mutex_sem, turn_sem,
    pc,             \* where each process is
    word,           \* the length of the word each worker is writing
    interrupted,    \* the processes SIGINT was sent to
    forked, reaped, \* the parent's two loops
    told,           \* the number of words each handler has printed
    temp_buffer     \* and its own copy of the text

shared == <<buffer, current_pos, word_count, turn>>
sems == <<mutex_sem, turn_sem>>
reports == <<told, temp_buffer>>
family == <<interrupted, forked, reaped, reports>>
vars == <<shared, sems, pc, word, family>>

Process == Worker \cup {MAIN}

Nothing_copied == [c \in Cell |-> UNSET]

Init ==
    /\ buffer = [c \in Cell |-> NUL]
    /\ current_pos = 0 /\ word_count = 0 /\ turn = 0
    /\ mutex_sem = 1 /\ turn_sem = 1
    /\ pc = [p \in Process |-> IF p = MAIN THEN "fork" ELSE "unborn"]
    /\ word = [p \in Worker |-> 0]
    /\ interrupted = FALSE
    /\ forked = 0 /\ reaped = 0
    /\ told = [p \in Process |-> 0]
    /\ temp_buffer = [p \in Process |-> Nothing_copied]

At(p, l) == pc[p] = l
Goto(p, l) == pc' = [pc EXCEPT ![p] = l]

-------------------------------------------------------------------------------
(* process_worker.                                                         *)

AwaitTurn(p) ==
    /\ At(p, "turn")
    /\ turn_sem > 0
    /\ turn_sem' = turn_sem - 1
    /\ Goto(p, "mutex")
    /\ UNCHANGED <<shared, mutex_sem, word, family>>

AwaitMutex(p) ==
    /\ At(p, "mutex")
    /\ mutex_sem > 0
    /\ mutex_sem' = mutex_sem - 1
    /\ Goto(p, "check")
    /\ UNCHANGED <<shared, turn_sem, word, family>>

\* Variation: the separator is left out of the room a word needs.
CheckTurnTight(p) ==
    /\ At(p, "check")
    /\ IF turn # p
       THEN Goto(p, "skip") /\ UNCHANGED word
       ELSE \E n \in WordLen :
               IF current_pos + n >= SHARED_MEM_SIZE
               THEN Goto(p, "full") /\ UNCHANGED word
               ELSE Goto(p, "space") /\ word' = [word EXCEPT ![p] = n]
    /\ UNCHANGED <<shared, sems, family>>

\* Variation: out of turn the worker goes back to wait without the two posts.
CheckTurnKeepsBoth(p) ==
    /\ At(p, "check")
    /\ IF turn # p
       THEN Goto(p, "turn") /\ UNCHANGED word
       ELSE \E n \in WordLen :
               IF current_pos + n + 1 >= SHARED_MEM_SIZE
               THEN Goto(p, "full") /\ UNCHANGED word
               ELSE Goto(p, "space") /\ word' = [word EXCEPT ![p] = n]
    /\ UNCHANGED <<shared, sems, family>>

\* Is it my turn, and does the word I picked fit with its separator?
CheckTurn(p) ==
    /\ At(p, "check")
    /\ IF turn # p
       THEN Goto(p, "skip") /\ UNCHANGED word
       ELSE \E n \in WordLen :
               IF current_pos + n + 1 >= SHARED_MEM_SIZE
               THEN Goto(p, "full") /\ UNCHANGED word
               ELSE Goto(p, "space") /\ word' = [word EXCEPT ![p] = n]
    /\ UNCHANGED <<shared, sems, family>>

WriteSpace(p) ==
    /\ At(p, "space")
    /\ \/ /\ current_pos > 0
          /\ buffer' = [buffer EXCEPT ![current_pos] = SPACE]
          /\ current_pos' = current_pos + 1
       \/ /\ current_pos = 0
          /\ UNCHANGED <<buffer, current_pos>>
    /\ Goto(p, "memcpy")
    /\ UNCHANGED <<word_count, turn, sems, word, family>>

WriteWord(p) ==
    /\ At(p, "memcpy")
    /\ buffer' = [c \in Cell |->
          IF c \in current_pos .. current_pos + word[p] - 1
          THEN p ELSE buffer[c]]
    /\ Goto(p, "advance")
    /\ UNCHANGED <<current_pos, word_count, turn, sems, word, family>>

AdvancePos(p) ==
    /\ At(p, "advance")
    /\ current_pos' = current_pos + word[p]
    /\ Goto(p, "count")
    /\ UNCHANGED <<buffer, word_count, turn, sems, word, family>>

CountWord(p) ==
    /\ At(p, "count")
    /\ word_count' = word_count + 1
    /\ Goto(p, "pass")
    /\ UNCHANGED <<buffer, current_pos, turn, sems, word, family>>

PassTurn(p) ==
    /\ At(p, "pass")
    /\ turn' = (turn + 1) % NUM_PROCESSES
    /\ Goto(p, "skip")
    /\ UNCHANGED <<buffer, current_pos, word_count, sems, word, family>>

\* The two posts, after a word, out of turn, and when the buffer is full; in
\* the last case the worker ends, and the turn stays with it.
PostMutex(p) ==
    /\ pc[p] \in {"skip", "full"}
    /\ mutex_sem' = mutex_sem + 1
    /\ Goto(p, IF pc[p] = "skip" THEN "post" ELSE "post_full")
    /\ UNCHANGED <<shared, turn_sem, word, family>>

PostTurn(p) ==
    /\ pc[p] \in {"post", "post_full"}
    /\ turn_sem' = turn_sem + 1
    /\ Goto(p, IF pc[p] = "post" THEN "turn" ELSE "ended")
    /\ UNCHANGED <<shared, mutex_sem, word, family>>

process_worker(p) ==
    \/ AwaitTurn(p) \/ AwaitMutex(p) \/ CheckTurn(p) \/ WriteSpace(p)
    \/ WriteWord(p) \/ AdvancePos(p) \/ CountWord(p) \/ PassTurn(p)
    \/ PostMutex(p) \/ PostTurn(p)

-------------------------------------------------------------------------------
(* The parent, and Ctrl-C.                                                 *)

fork ==
    /\ At(MAIN, "fork")
    /\ ~interrupted
    /\ \/ /\ forked < NUM_PROCESSES
          /\ forked' = forked + 1
          /\ pc' = [pc EXCEPT ![forked] = "turn"]
       \/ /\ forked = NUM_PROCESSES
          /\ Goto(MAIN, "wait")
          /\ UNCHANGED forked
    /\ UNCHANGED <<shared, sems, word, interrupted, reaped, reports>>

\* wait returns once for every worker that has ended.
reap ==
    /\ At(MAIN, "wait")
    /\ reaped < Cardinality({p \in Worker : pc[p] \in {"ended", "exit"}})
    /\ reaped' = reaped + 1
    /\ UNCHANGED <<shared, sems, pc, word, interrupted, forked, reports>>

\* The parent ends the contents with a NUL, prints and removes everything.
FinalCleanup ==
    /\ At(MAIN, "wait")
    /\ reaped = NUM_PROCESSES
    /\ buffer' = IF current_pos > 0 THEN [buffer EXCEPT ![current_pos] = NUL]
                 ELSE buffer
    /\ Goto(MAIN, "ended")
    /\ UNCHANGED <<current_pos, word_count, turn, sems, word, family>>

\* A signal that is pending when fork is called is handled first, so nobody
\* is born after Ctrl-C; the children inherit the handler.
CtrlC ==
    /\ ~interrupted
    /\ pc[MAIN] \in {"fork", "wait"}
    /\ interrupted' = TRUE
    /\ UNCHANGED <<shared, sems, pc, word, forked, reaped, reports>>

(* The handler of SIGINT: it takes no lock, and the others may go on between *)
(* any two of its reads.  It begins wherever the process was, whatever it    *)
(* held, and ends with exit.                                                *)

Handler == {"h_copy", "h_nul", "h_print"}

HandlerStep == UNCHANGED <<shared, sems, word, interrupted, forked, reaped>>

PrintCount(p) ==
    /\ interrupted
    /\ pc[p] \notin {"unborn", "ended", "exit"} \cup Handler
    /\ told' = [told EXCEPT ![p] = word_count]
    /\ Goto(p, "h_copy")
    /\ UNCHANGED temp_buffer /\ HandlerStep

\* With nothing written there is no copy, and the process ends.  The position
\* only grows, so that once found positive it still is when the copy is made.
CopyText(p) ==
    /\ At(p, "h_copy")
    /\ \/ /\ current_pos > 0
          /\ temp_buffer' = [temp_buffer EXCEPT ![p] =
                [c \in Cell |-> IF c < current_pos THEN buffer[c] ELSE UNSET]]
          /\ Goto(p, "h_nul")
          /\ UNCHANGED told
       \/ /\ current_pos = 0
          /\ told' = [told EXCEPT ![p] = 0]
          /\ Goto(p, "exit")
          /\ UNCHANGED temp_buffer
    /\ HandlerStep

\* Variation: the number of words is taken once the text has been copied.
EndTextCounts(p) ==
    /\ At(p, "h_nul")
    /\ temp_buffer' = [temp_buffer EXCEPT ![p][current_pos] = NUL]
    /\ told' = [told EXCEPT ![p] = word_count]
    /\ Goto(p, "h_print")
    /\ HandlerStep

\* The position is read anew for the NUL.
EndText(p) ==
    /\ At(p, "h_nul")
    /\ temp_buffer' = [temp_buffer EXCEPT ![p][current_pos] = NUL]
    /\ Goto(p, "h_print")
    /\ UNCHANGED told /\ HandlerStep

\* The copy is printed up to its NUL, and forgotten with the process.
PrintText(p) ==
    /\ At(p, "h_print")
    /\ told' = [told EXCEPT ![p] = 0]
    /\ temp_buffer' = [temp_buffer EXCEPT ![p] = Nothing_copied]
    /\ Goto(p, "exit")
    /\ HandlerStep

sigint_handler(p) ==
    \/ PrintCount(p) \/ CopyText(p) \/ EndText(p) \/ PrintText(p)

Next ==
    \/ \E p \in Worker : process_worker(p)
    \/ fork \/ reap \/ FinalCleanup \/ CtrlC
    \/ \E p \in Process : sigint_handler(p)

Spec == Init /\ [][Next]_vars

\* Each process is scheduled; a worker out of turn sleeps before it tries
\* again, so that everybody who waits for the semaphore gets it now and then.
Fairness ==
    /\ WF_vars(fork) /\ WF_vars(reap) /\ WF_vars(FinalCleanup)
    /\ \A p \in Worker : WF_vars(process_worker(p)) /\ SF_vars(AwaitTurn(p))
    /\ \A p \in Process : WF_vars(sigint_handler(p))

FairSpec == Spec /\ Fairness

\* The behaviours in which nobody hits Ctrl-C.
QuietSpec == Init /\ [][Next /\ ~interrupted']_vars /\ Fairness

-------------------------------------------------------------------------------
(* Properties.                                                             *)

Labels == {"unborn", "turn", "mutex", "check", "space", "memcpy", "advance",
           "count", "pass", "skip", "full", "post", "post_full", "fork",
           "wait", "ended", "exit"} \cup Handler

\* Values in range; the position never leaves the buffer, so that neither a
\* word nor the closing NUL is written outside it.
TypeOK ==
    /\ buffer \in [Cell -> Worker \cup {NUL, SPACE}]
    /\ current_pos \in Cell
    /\ word_count \in Nat
    /\ turn \in Worker
    /\ mutex_sem \in {0, 1} /\ turn_sem \in {0, 1}
    /\ pc \in [Process -> Labels]
    /\ word \in [Worker -> WordLen \cup {0}]
    /\ interrupted \in BOOLEAN
    /\ forked \in 0 .. NUM_PROCESSES /\ reaped \in 0 .. NUM_PROCESSES
    /\ told \in [Process -> Nat]
    /\ temp_buffer \in [Process -> [Cell -> Worker \cup {NUL, SPACE, UNSET}]]

\* Words are written strictly in turn: what is in the buffer up to the
\* position is words of workers 0, 1, 2, 0, ... with one space between two.
Starts == {c \in Cell : /\ c < current_pos /\ buffer[c] \in Worker
                        /\ c = 0 \/ buffer[c - 1] = SPACE}

WrittenInTurn ==
    \A c \in Starts :
        /\ buffer[c] = Cardinality({d \in Starts : d < c}) % NUM_PROCESSES
        /\ \A d \in Cell : (/\ c < d /\ d < current_pos
                            /\ \A e \in c .. d : buffer[e] # SPACE)
                           => buffer[d] = buffer[c]

\* Every byte below the position is written, and no two spaces stand together,
\* wherever a worker is in its update or was when Ctrl-C ended it.
PrintedIsWritten ==
    \A c \in Cell : c < current_pos =>
        /\ buffer[c] # NUL
        /\ buffer[c] = SPACE => c > 0 /\ buffer[c - 1] # SPACE

\* The number of words kept is that of the words in the buffer, but for one that
\* a worker has just written, or was writing when Ctrl-C ended it.
CountAgrees ==
    LET written == Cardinality(Starts)
        adding == \E p \in Worker : pc[p] = "count"
        died == \E p \in Worker : pc[p] \in Handler \cup {"exit"}
    IN  /\ word_count \in {written - 1, written}
        /\ ~died => word_count = written - IF adding THEN 1 ELSE 0

\* The first n bytes of the handler's copy are the text that stands in the
\* buffer, the others are not copied; they end with a word or a separator; and
\* the number printed before is not more than there is in them.
CopyHas(p, n) ==
    /\ \A c \in Cell : IF c < n THEN temp_buffer[p][c] = buffer[c]
                       ELSE temp_buffer[p][c] \in {UNSET, NUL}
    /\ n = current_pos \/ buffer[n] = SPACE \/ buffer[n - 1] = SPACE
    /\ told[p] <= Cardinality({c \in Starts : c < n})

\* A handler that has copied has whole words, and the NUL is not before their end.
CopyIsWhole ==
    \A p \in Process : pc[p] \in {"h_nul", "h_print"} =>
        \E n \in Cell :
           /\ 0 < n /\ n <= current_pos
           /\ CopyHas(p, n)
           /\ At(p, "h_print") => \E c \in n .. current_pos : temp_buffer[p][c] = NUL

\* Whenever Ctrl-C comes, and though the others go on between the reads the handler
\* does without a lock, what it has copied is whole words in rotation, as they stand
\* in memory, and at least as many as the number it has printed above them.
PrintedInTurn == WrittenInTurn /\ PrintedIsWritten /\ CountAgrees /\ CopyIsWhole

\* Not so: the bytes the handler prints are bytes it has copied ("Assicuriamoci
\* che sia null-terminated").  TLC finds the position moved before the NUL is set.
PrintsOnlyCopied ==
    \A p \in Process : At(p, "h_print") =>
        \A c \in Cell : temp_buffer[p][c] = UNSET =>
            \E d \in Cell : d < c /\ temp_buffer[p][d] = NUL

\* The turn comes to every worker again, until a worker or the user stops.
Stopped == interrupted \/ \E p \in Worker : pc[p] \in {"post_full", "ended"}

TurnGoesRound ==
    \A p \in Worker : turn = p ~> turn # p \/ Stopped

\* When a worker finds the buffer full ("buffer pieno, termino") the program
\* ends: the parent has waited for all its children.
FullBufferEnds ==
    (\E p \in Worker : pc[p] = "ended") ~> pc[MAIN] \in {"ended", "exit"}
================================================================================
