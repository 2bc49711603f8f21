----------------------------- MODULE ThreadBench -----------------------------
(***************************************************************************)
(* esami/SNP65_thread benchmark/thread_benchmark.c: one thread multiplies   *)
(* for a while, then NUM_THREADS_SCENARIO2 do, and a thread of its own      *)
(* starts, stops and reads both scenarios.  The counts are behind a mutex   *)
(* and are brought up to date a batch of multiplications at a time.         *)
(***************************************************************************)
EXTENDS Integers, FiniteSets

CONSTANTS NUM_THREADS_SCENARIO2,
          BATCH,          \* 1000
          MAX_OPS,        \* bound on the multiplications begun in a scenario
          NONE

ASSUME ThreadsAssumption == NUM_THREADS_SCENARIO2 \in Nat \ {0}
ASSUME BatchAssumption == BATCH \in Nat \ {0} /\ MAX_OPS \in Nat

Scenario == {1, 2}
Team(s) == {s} \X (1 .. IF s = 1 THEN 1 ELSE NUM_THREADS_SCENARIO2)
Worker == Team(1) \cup Team(2)

ASSUME NoneAssumption == NONE \notin Worker

VARIABLES
    running,         \* running_scenario1 and running_scenario2
    count,           \* scenario1_count and scenario2_count
    counter_mutex,   \* the worker that holds it, or NONE
    pc,              \* each worker's step; "wait" is in pthread_cond_wait
    local_count,
    read,            \* the count a worker has read to add to it
    measure, now,    \* the measuring thread's step and its scenario
    printed,         \* the count it has printed, or NONE
    main, i,
    done             \* history: the multiplications of each scenario

workers == <<pc, local_count, read, done>>
measurement == <<measure, now, printed>>
vars == <<running, count, counter_mutex, workers, measurement, main, i>>

Init ==
    /\ running = [s \in Scenario |-> FALSE]
    /\ count = [s \in Scenario |-> 0]
    /\ counter_mutex = NONE
    /\ pc = [w \in Worker |-> "off"]
    /\ local_count = [w \in Worker |-> 0]
    /\ read = [w \in Worker |-> 0]
    /\ measure = "off" /\ now = 1
    /\ printed = [s \in Scenario |-> NONE]
    /\ main = "measurement" /\ i = 1
    /\ done = [s \in Scenario |-> 0]

At(w, l) == pc[w] = l
Goto(w, l) == pc' = [pc EXCEPT ![w] = l]
Unlocked == counter_mutex = NONE

-------------------------------------------------------------------------------
(* worker_thread.                                                          *)

\* Variation: the flag is looked at before the mutex is taken.
await_start_unlocked(w) ==
    /\ \/ At(w, "start") /\ Goto(w, IF running[w[1]] THEN "loop" ELSE "sleepy")
       \/ At(w, "sleepy") /\ Unlocked /\ Goto(w, "wait")
    /\ UNCHANGED <<running, count, counter_mutex, local_count, read, done,
                   measurement, main, i>>

\* The flag of its scenario is looked at, and waited for, under the mutex.
await_start(w) ==
    /\ At(w, "start") /\ Unlocked
    /\ Goto(w, IF running[w[1]] THEN "loop" ELSE "wait")
    /\ UNCHANGED <<running, count, counter_mutex, local_count, read, done,
                   measurement, main, i>>

\* The library may end the wait for no reason.
spurious(w) ==
    /\ At(w, "wait")
    /\ Goto(w, "start")
    /\ UNCHANGED <<running, count, counter_mutex, local_count, read, done,
                   measurement, main, i>>

loop(w) ==
    /\ At(w, "loop")
    /\ IF running[w[1]]
       THEN done[w[1]] < MAX_OPS /\ Goto(w, "multiply")
       ELSE Goto(w, IF local_count[w] > 0 THEN "last" ELSE "ended")
    /\ UNCHANGED <<running, count, counter_mutex, local_count, read, done,
                   measurement, main, i>>

multiply(w) ==
    /\ At(w, "multiply")
    /\ local_count' = [local_count EXCEPT ![w] = @ + 1]
    /\ done' = [done EXCEPT ![w[1]] = @ + 1]
    /\ Goto(w, IF local_count'[w] % BATCH = 0 THEN "batch" ELSE "loop")
    /\ UNCHANGED <<running, count, counter_mutex, read, measurement, main, i>>

\* Variation: the mutex is not taken.
lock_add_racy(w) ==
    /\ pc[w] \in {"batch", "last"}
    /\ read' = [read EXCEPT ![w] = count[w[1]]]
    /\ Goto(w, IF At(w, "batch") THEN "add" ELSE "add_last")
    /\ UNCHANGED <<running, count, counter_mutex, local_count, done, measurement,
                   main, i>>

\* The count is read under the mutex, after a batch and at the end.
lock_add(w) ==
    /\ pc[w] \in {"batch", "last"} /\ Unlocked
    /\ counter_mutex' = w
    /\ read' = [read EXCEPT ![w] = count[w[1]]]
    /\ Goto(w, IF At(w, "batch") THEN "add" ELSE "add_last")
    /\ UNCHANGED <<running, count, local_count, done, measurement, main, i>>

\* What was multiplied since the last time is added, and counted from zero.
add(w) ==
    /\ pc[w] \in {"add", "add_last"}
    /\ count' = [count EXCEPT ![w[1]] = read[w] + local_count[w]]
    /\ counter_mutex' = NONE
    /\ local_count' = [local_count EXCEPT ![w] = 0]
    /\ read' = [read EXCEPT ![w] = 0]
    /\ Goto(w, IF At(w, "add") THEN "loop" ELSE "ended")
    /\ UNCHANGED <<running, done, measurement, main, i>>

worker_thread(w) ==
    await_start(w) \/ loop(w) \/ multiply(w) \/ lock_add(w) \/ add(w)

-------------------------------------------------------------------------------
(* measurement_thread: the same steps for one scenario after the other.    *)

\* The count starts from zero with the flag up.
reset ==
    /\ measure = "reset" /\ Unlocked
    /\ count' = [count EXCEPT ![now] = 0]
    /\ running' = [running EXCEPT ![now] = TRUE]
    /\ measure' = "broadcast"
    /\ UNCHANGED <<counter_mutex, workers, now, printed, main, i>>

\* Every thread that waits, of this scenario or of the other, wakes up.
broadcast ==
    /\ measure = "broadcast"
    /\ pc' = [w \in Worker |-> IF At(w, "wait") THEN "start" ELSE pc[w]]
    /\ measure' = "stop"
    /\ UNCHANGED <<running, count, counter_mutex, local_count, read, done, now,
                   printed, main, i>>

\* Variation: the flag of the first scenario is lowered both times.
stop_first ==
    /\ measure = "stop" /\ Unlocked
    /\ running' = [running EXCEPT ![1] = FALSE]
    /\ measure' = "print"
    /\ UNCHANGED <<count, counter_mutex, workers, now, printed, main, i>>

\* Variation: the flag is left up while the count is printed.
stop_late ==
    /\ measure \in {"stop", "print"} /\ Unlocked
    /\ measure' = "print"
    /\ printed' = [printed EXCEPT ![now] = count[now]]
    /\ running' = [running EXCEPT ![now] = measure # "print"]
    /\ UNCHANGED <<count, counter_mutex, workers, now, main, i>>

\* After the seconds of the test the flag is lowered.
stop ==
    /\ measure = "stop" /\ Unlocked
    /\ running' = [running EXCEPT ![now] = FALSE]
    /\ measure' = "print"
    /\ UNCHANGED <<count, counter_mutex, workers, now, printed, main, i>>

\* The count is printed as it stands, without the mutex, and whoever has not yet
\* added what it has multiplied is left out.
print ==
    /\ measure = "print"
    /\ printed' = [printed EXCEPT ![now] = count[now]]
    /\ IF now = 1 THEN now' = 2 /\ measure' = "reset"
                  ELSE measure' = "ended" /\ UNCHANGED now
    /\ UNCHANGED <<running, count, counter_mutex, workers, main, i>>

measurement_thread == reset \/ broadcast \/ stop \/ print

-------------------------------------------------------------------------------
(* main: a thread that cannot be created ends the program.                 *)

create_measurement ==
    /\ main = "measurement"
    /\ \/ main' = "worker" /\ measure' = "reset"
       \/ main' = "failed" /\ UNCHANGED measure
    /\ UNCHANGED <<running, count, counter_mutex, workers, now, printed, i>>

create_first ==
    /\ main = "worker"
    /\ \/ main' = "join" /\ Goto(<<1, 1>>, "start")
       \/ main' = "failed" /\ UNCHANGED pc
    /\ UNCHANGED <<running, count, counter_mutex, local_count, read, done,
                   measurement, i>>

\* The second scenario's threads are only created when the first's has ended.
join_first ==
    /\ main = "join" /\ At(<<1, 1>>, "ended")
    /\ main' = "workers"
    /\ UNCHANGED <<running, count, counter_mutex, workers, measurement, i>>

create_second ==
    /\ main = "workers"
    /\ \/ /\ Goto(<<2, i>>, "start")
          /\ i' = i + 1
          /\ main' = IF i = NUM_THREADS_SCENARIO2 THEN "join_all" ELSE main
       \/ main' = "failed" /\ UNCHANGED <<pc, i>>
    /\ UNCHANGED <<running, count, counter_mutex, local_count, read, done,
                   measurement>>

join_all ==
    /\ main = "join_all"
    /\ \A w \in Team(2) : At(w, "ended")
    /\ measure = "ended"
    /\ main' = "ended"
    /\ UNCHANGED <<running, count, counter_mutex, workers, measurement, i>>

main_thread ==
    create_measurement \/ create_first \/ join_first \/ create_second \/ join_all

Next ==
    /\ main # "failed"
    /\ \/ main_thread \/ measurement_thread
       \/ \E w \in Worker : worker_thread(w) \/ spurious(w)

Spec == Init /\ [][Next]_vars

\* The threads are scheduled; a wait need not end for no reason.
FairSpec ==
    /\ Spec
    /\ WF_vars(main # "failed" /\ main_thread)
    /\ WF_vars(main # "failed" /\ measurement_thread)
    /\ \A w \in Worker : WF_vars(main # "failed" /\ worker_thread(w))

-------------------------------------------------------------------------------
(* Properties.                                                             *)

\* What the workers of the scenario hold: their multiplications, each numbered.
Batches(s, held) == UNION {{w} \X (1 .. held[w]) : w \in Team(s)}
Pending(s) == Cardinality(Batches(s, local_count))

\* No multiplication is lost or counted twice: those in the count and those the
\* workers still hold are those that were made, whoever adds at the same time
\* and though the count starts from zero when a worker may be there already.
NothingLost == \A s \in Scenario : count[s] + Pending(s) = done[s]

\* The number printed is short of the multiplications that will have been made
\* by a batch for each worker at most, and never above.
ShortByABatch ==
    \A s \in Scenario :
        printed[s] # NONE =>
            done[s] - printed[s] \in 0 .. BATCH * Cardinality(Team(s))

\* Once the start has been given no worker of the scenario waits for it: one
\* that came before was woken, one that comes after finds the flag.
NoLostWakeup ==
    measure = "stop" => \A w \in Team(now) : ~At(w, "wait")

\* A worker that was not scheduled before its scenario was over waits for ever.
Late(w) == At(w, "wait") /\ ~running[w[1]] /\ printed[w[1]] # NONE

\* The program ends, unless a thread could not be created or came too late.
RunsToTheEnd ==
    <>(main \in {"ended", "failed"} \/ \E w \in Worker : Late(w))
================================================================================
