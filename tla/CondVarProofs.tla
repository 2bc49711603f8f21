---------------------------- MODULE CondVarProofs ----------------------------
(***************************************************************************)
(* The two programs whose threads wait on a condition variable.  SNP65, for *)
(* any number of threads and any batch: no worker is left waiting once the  *)
(* start has been given, the count is only written under the mutex, no      *)
(* multiplication is lost and the number printed is short by a batch a      *)
(* worker at most.  SNP67, for any number of changing threads and any       *)
(* values: no change of A is forgotten, and the greeting the client takes   *)
(* for an echo never puts the two sides more than two messages apart.       *)
(***************************************************************************)
EXTENDS ThreadBench, EnvVar, FiniteSetTheorems, SequenceTheorems, TLAPS

-------------------------------------------------------------------------------
(* The thread benchmark.                                                   *)

\* While the start has been given the flag is up, so that nobody begins to wait.
WakeInv ==
    /\ pc \in [Worker -> {"off", "start", "wait", "loop", "multiply", "batch", "add",
                          "last", "add_last", "ended"}]
    /\ now \in Scenario /\ running \in [Scenario -> BOOLEAN]
    /\ measure \in {"broadcast", "stop"} => running[now]
    /\ NoLostWakeup

\* The workers of a scenario.
LEMMA TeamScenario ==
    \A s \in Scenario : \A w \in Team(s) : w \in Worker /\ w[1] = s
  BY DEF Scenario, Team, Worker

\* Every step keeps it.
LEMMA WakeStep == WakeInv /\ [Next]_vars => WakeInv'
<1> SUFFICES ASSUME WakeInv, [Next]_vars PROVE WakeInv'
  OBVIOUS
<1> USE DEF WakeInv, NoLostWakeup, At, Goto, Scenario
<1>1. ASSUME NEW w \in Worker, await_start(w) PROVE WakeInv'
  BY <1>1, TeamScenario DEF await_start, measurement
<1>2. ASSUME NEW w \in Worker, spurious(w) PROVE WakeInv'
  BY <1>2, TeamScenario DEF spurious, measurement
<1>3. ASSUME NEW w \in Worker, loop(w) PROVE WakeInv'
  BY <1>3, TeamScenario DEF loop, measurement
<1>4. ASSUME NEW w \in Worker, multiply(w) PROVE WakeInv'
  BY <1>4, TeamScenario DEF multiply, measurement
<1>5. ASSUME NEW w \in Worker, lock_add(w) \/ add(w) PROVE WakeInv'
  BY <1>5, TeamScenario DEF lock_add, add, measurement
<1>6. CASE reset
  BY <1>6, TeamScenario DEF reset, workers
<1>7. CASE broadcast
  BY <1>7, TeamScenario DEF broadcast
<1>8. CASE stop
  BY <1>8 DEF stop, workers
<1>9. CASE print
  BY <1>9 DEF print, workers
<1>10. CASE create_measurement
  BY <1>10 DEF create_measurement, workers
<1>11. CASE create_first
  BY <1>11, TeamScenario DEF create_first, measurement
<1>12. CASE create_second
  BY <1>12, TeamScenario DEF create_second, measurement
<1>13. CASE join_first \/ join_all
  BY <1>13 DEF join_first, join_all, workers, measurement
<1>14. CASE UNCHANGED vars
  BY <1>14 DEF vars, workers, measurement
<1> QED
  BY <1>1, <1>2, <1>3, <1>4, <1>5, <1>6, <1>7, <1>8, <1>9, <1>10, <1>11, <1>12,
     <1>13, <1>14 DEF Next, main_thread, measurement_thread, worker_thread

\* Every worker of the scenario has been let through, or will be when it comes.
THEOREM AllWoken == Spec => []NoLostWakeup
<1>1. Init => WakeInv
  BY DEF Init, WakeInv, NoLostWakeup, Scenario
<1>2. WakeInv => NoLostWakeup
  BY DEF WakeInv
<1> QED BY <1>1, <1>2, WakeStep, PTL DEF Spec

-------------------------------------------------------------------------------
(* The mutex.                                                              *)

\* Whoever adds holds the mutex, and what it has read is still the count.
AddsToTheCount ==
    \A w \in Worker : pc[w] \in {"add", "add_last"} =>
                         counter_mutex = w /\ read[w] = count[w[1]]

MutexInv ==
    /\ pc \in [Worker -> {"off", "start", "wait", "loop", "multiply", "batch", "add",
                          "last", "add_last", "ended"}]
    /\ read \in [Worker -> Int] /\ count \in [Scenario -> Int]
    /\ local_count \in [Worker -> Int] /\ now \in Scenario
    /\ AddsToTheCount

\* A worker belongs to one of the two scenarios.
LEMMA WorkerScenario == ASSUME NEW w \in Worker PROVE w[1] \in Scenario
  BY DEF Worker, Team, Scenario

\* Every step keeps it.
LEMMA MutexStep == MutexInv /\ [Next]_vars => MutexInv'
<1> SUFFICES ASSUME MutexInv, [Next]_vars PROVE MutexInv'
  OBVIOUS
<1> USE DEF MutexInv, AddsToTheCount, At, Goto, Unlocked
<1>0. NONE \notin Worker
  BY NoneAssumption DEF Worker, Team
<1>1. ASSUME NEW w \in Worker,
             await_start(w) \/ spurious(w) \/ loop(w) PROVE MutexInv'
  BY <1>1 DEF await_start, spurious, loop, measurement
<1>2. ASSUME NEW w \in Worker, multiply(w) PROVE MutexInv'
  BY <1>2 DEF multiply, measurement
<1>3. ASSUME NEW w \in Worker, lock_add(w) PROVE MutexInv'
  BY <1>0, <1>3, WorkerScenario DEF lock_add, measurement
<1>4. ASSUME NEW w \in Worker, add(w) PROVE MutexInv'
  <2>1. w[1] \in Scenario
    BY WorkerScenario
  <2>2. /\ count' \in [Scenario -> Int] /\ read' \in [Worker -> Int]
        /\ local_count' \in [Worker -> Int]
    BY <1>4, <2>1 DEF add
  <2>3. \A v \in Worker : pc[v] \in {"add", "add_last"} => v = w
    BY <1>4 DEF add
  <2>4. AddsToTheCount'
    BY <1>4, <2>3 DEF add
  <2> QED BY <1>4, <2>2, <2>4 DEF add, measurement
<1>5. CASE reset
  <2>1. \A w \in Worker : pc[w] \notin {"add", "add_last"}
    BY <1>0, <1>5 DEF reset
  <2>2. UNCHANGED <<pc, read, local_count>>
    BY <1>5 DEF reset, workers
  <2>3. now' \in Scenario /\ count' = [count EXCEPT ![now] = 0]
    BY <1>5 DEF reset
  <2>4. count' \in [Scenario -> Int]
    BY <2>3
  <2> QED BY <2>1, <2>2, <2>3, <2>4
<1>6. CASE broadcast
  BY <1>6 DEF broadcast
<1>7. CASE stop \/ print
  BY <1>7 DEF stop, print, workers, Scenario
<1>8. CASE create_measurement \/ join_first \/ join_all
  BY <1>8 DEF create_measurement, join_first, join_all, workers, measurement
<1>9. CASE create_first \/ create_second
  BY <1>9 DEF create_first, create_second, measurement
<1>10. CASE UNCHANGED vars
  BY <1>10 DEF vars, workers, measurement
<1> QED
  BY <1>1, <1>2, <1>3, <1>4, <1>5, <1>6, <1>7, <1>8, <1>9, <1>10
  DEF Next, main_thread, measurement_thread, worker_thread

\* Two workers never add at once, nor while the count is set to zero.
THEOREM AddsCorrect == Spec => []AddsToTheCount
<1>1. Init => MutexInv
  BY DEF Init, MutexInv, AddsToTheCount, Scenario
<1>2. MutexInv => AddsToTheCount
  BY DEF MutexInv
<1> QED BY <1>1, <1>2, MutexStep, PTL DEF Spec
-------------------------------------------------------------------------------
(* The multiplications of a scenario: those in the count, those held by its *)
(* workers and those that a worker is about to make.                        *)

\* Numbers stay numbers.
NumInv ==
    /\ running \in [Scenario -> BOOLEAN]
    /\ count \in [Scenario -> Nat] /\ done \in [Scenario -> Nat]
    /\ local_count \in [Worker -> 0 .. BATCH]
    /\ now \in Scenario /\ i \in Nat
    /\ pc \in [Worker -> {"off", "start", "wait", "loop", "multiply", "batch", "add",
                          "last", "add_last", "ended"}]
    /\ printed \in [Scenario -> Nat \cup {NONE}]

\* The threads that main has not created yet.
NotCreated(w) ==
    \/ main \in {"measurement", "worker"}
    \/ w[1] = 2 /\ main \in {"join", "workers"} /\ w[2] >= i

OffInv ==
    /\ \A w \in Worker : NotCreated(w) => pc[w] = "off"
    /\ main = "measurement" => measure = "off"

\* A batch is added before it can be exceeded.
BatchInv ==
    \A w \in Worker :
        pc[w] \notin {"batch", "add"} => local_count[w] < BATCH

\* A scenario whose flag has not been raised for the first time.
Unstarted(s) == now < s \/ (now = s /\ measure \in {"off", "reset"})

UnstartedInv ==
    \A s \in Scenario : Unstarted(s) =>
        /\ ~running[s] /\ count[s] = 0 /\ done[s] = 0
        /\ \A w \in Team(s) : pc[w] \in {"off", "start", "wait"} /\ local_count[w] = 0

\* The next multiplication of each worker that has seen the flag up.
Begun(s, at, held) == {<<w, held[w] + 1>> : w \in {v \in Team(s) : at[v] = "multiply"}}

\* After the print only those multiplications are still to come.
Settled(s) ==
    /\ now > s \/ measure = "ended"
    /\ ~running[s]
    /\ printed[s] <= done[s]
    /\ done[s] + Cardinality(Begun(s, pc, local_count))
           <= printed[s] + BATCH * Cardinality(Team(s))

PrintInv ==
    /\ measure = "print" => ~running[now]
    /\ \A s \in Scenario : printed[s] # NONE => Settled(s)

BenchInv ==
    NumInv /\ OffInv /\ BatchInv /\ UnstartedInv /\ NothingLost /\ PrintInv

\* A team is finite.
LEMMA TeamFinite ==
  ASSUME NEW s \in Scenario
  PROVE  IsFiniteSet(Team(s)) /\ Cardinality(Team(s)) \in Nat /\ Team(s) \subseteq Worker
<1> DEFINE n == IF s = 1 THEN 1 ELSE NUM_THREADS_SCENARIO2
<1>1. n \in Int
  BY ThreadsAssumption
<1>2. IsFiniteSet(1 .. n)
  BY <1>1, FS_Interval
<1>3. IsFiniteSet({s})
  BY FS_Singleton
<1>4. IsFiniteSet(Team(s))
  BY <1>2, <1>3, FS_Product DEF Team
<1>5. Cardinality(Team(s)) \in Nat
  BY <1>4, FS_CardinalityType
<1> QED BY <1>4, <1>5 DEF Worker, Scenario

\* A batch belongs to a worker of the team, and is one it holds.
LEMMA BatchesIn ==
  ASSUME NEW s \in Scenario, NEW held \in [Worker -> 0 .. BATCH]
  PROVE  /\ Batches(s, held) =
               {h \in Team(s) \X (1 .. BATCH) : h[2] <= held[h[1]]}
         /\ IsFiniteSet(Team(s) \X (1 .. BATCH))
         /\ Cardinality(Team(s) \X (1 .. BATCH)) = BATCH * Cardinality(Team(s))
<1> DEFINE All == Team(s) \X (1 .. BATCH)
<1>1. BATCH \in Nat /\ Team(s) \subseteq Worker
  BY BatchAssumption, TeamFinite
<1>2. ASSUME NEW h \in Batches(s, held)
      PROVE  h \in {g \in All : g[2] <= held[g[1]]}
  <2>1. PICK w \in Team(s) : h \in {w} \X (1 .. held[w])
    BY <1>2 DEF Batches
  <2>2. held[w] \in 0 .. BATCH
    BY <1>1
  <2> QED BY <1>1, <2>1, <2>2
<1>3. ASSUME NEW h \in All, h[2] <= held[h[1]]
      PROVE  h \in Batches(s, held)
  <2>1. h[1] \in Team(s) /\ h[2] \in 1 .. BATCH /\ h = <<h[1], h[2]>>
    OBVIOUS
  <2>2. held[h[1]] \in 0 .. BATCH
    BY <1>1, <2>1
  <2>3. h[2] \in 1 .. held[h[1]]
    BY <1>1, <1>3, <2>1, <2>2
  <2>4. h \in {h[1]} \X (1 .. held[h[1]])
    BY <2>1, <2>3
  <2> QED BY <2>1, <2>4 DEF Batches
<1>4. IsFiniteSet(1 .. BATCH) /\ Cardinality(1 .. BATCH) = BATCH
  BY <1>1, FS_Interval, BatchAssumption
<1>5. /\ IsFiniteSet(All)
      /\ Cardinality(All) = Cardinality(Team(s)) * Cardinality(1 .. BATCH)
  BY <1>4, TeamFinite, FS_Product
<1>6. Cardinality(All) = BATCH * Cardinality(Team(s))
  BY <1>1, <1>4, <1>5, TeamFinite
<1> QED BY <1>2, <1>3, <1>5, <1>6

\* So are the batches it holds.
LEMMA BatchesFinite ==
  ASSUME NEW s \in Scenario, NEW held \in [Worker -> 0 .. BATCH]
  PROVE  IsFiniteSet(Batches(s, held)) /\ Cardinality(Batches(s, held)) \in Nat
<1> DEFINE All == Team(s) \X (1 .. BATCH)
<1>1. Batches(s, held) = {h \in All : h[2] <= held[h[1]]} /\ IsFiniteSet(All)
  BY BatchesIn
<1> HIDE DEF All
<1>2. Batches(s, held) \in SUBSET All
  BY <1>1
<1>3. IsFiniteSet(Batches(s, held))
  BY <1>1, <1>2, FS_Subset
<1> QED BY <1>3, FS_CardinalityType

\* Nothing else decides which batches are held.
LEMMA BatchesSame ==
  ASSUME NEW s, NEW held, NEW other, \A w \in Team(s) : other[w] = held[w]
  PROVE  Batches(s, other) = Batches(s, held)
  BY DEF Batches

\* One worker holds one batch more.
LEMMA BatchesAdd ==
  ASSUME NEW s \in Scenario, NEW held \in [Worker -> 0 .. BATCH],
         NEW w \in Team(s), held[w] < BATCH
  PROVE  Cardinality(Batches(s, [held EXCEPT ![w] = @ + 1]))
             = Cardinality(Batches(s, held)) + 1
<1> DEFINE more == [held EXCEPT ![w] = @ + 1]
           new == <<w, held[w] + 1>>
<1>1. w \in Worker /\ BATCH \in Nat /\ held[w] \in 0 .. BATCH
  BY TeamFinite, BatchAssumption
<1>2. more \in [Worker -> 0 .. BATCH] /\ more[w] = held[w] + 1
  BY <1>1
<1>3. new \notin Batches(s, held)
  <2>1. \A v \in Team(s) : new \in {v} \X (1 .. held[v]) => v = w /\ held[w] + 1 <= held[w]
    OBVIOUS
  <2> QED BY <1>1, <2>1 DEF Batches
<1>4. Batches(s, more) = Batches(s, held) \cup {new}
  <2>1. ASSUME NEW v \in Team(s), NEW n \in 1 .. BATCH
        PROVE  n <= more[v] <=> n <= held[v] \/ <<v, n>> = new
    <3>1. v \in Worker /\ held[v] \in 0 .. BATCH
      BY TeamFinite
    <3>2. CASE v = w
      BY <1>1, <1>2, <3>2
    <3>3. CASE v # w
      BY <3>1, <3>3
    <3> QED BY <3>2, <3>3
  <2>2. new \in Team(s) \X (1 .. BATCH)
    BY <1>1
  <2>3. Batches(s, more) = {h \in Team(s) \X (1 .. BATCH) : h[2] <= more[h[1]]}
    BY <1>2, BatchesIn
  <2>4. Batches(s, held) = {h \in Team(s) \X (1 .. BATCH) : h[2] <= held[h[1]]}
    BY BatchesIn
  <2> HIDE DEF more, new
  <2> QED BY <2>1, <2>2, <2>3, <2>4
<1> HIDE DEF new
<1> QED BY <1>3, <1>4, BatchesFinite, FS_AddElement

\* One worker gives up what it holds.
LEMMA BatchesClear ==
  ASSUME NEW s \in Scenario, NEW held \in [Worker -> 0 .. BATCH],
         NEW w \in Team(s)
  PROVE  Cardinality(Batches(s, [held EXCEPT ![w] = 0]))
             = Cardinality(Batches(s, held)) - held[w]
<1> DEFINE less == [held EXCEPT ![w] = 0]
           gone == {w} \X (1 .. held[w])
<1>1. w \in Worker /\ BATCH \in Nat /\ held[w] \in 0 .. BATCH
  BY TeamFinite, BatchAssumption
<1>2. gone \subseteq Batches(s, held)
  BY DEF Batches
<1>3. Batches(s, less) = Batches(s, held) \ gone
  <2>1. less[w] = 0 /\ \A v \in Team(s) : v # w => less[v] = held[v]
    BY <1>1, TeamFinite
  <2> HIDE DEF less
  <2>2. ASSUME NEW h \in Batches(s, less) PROVE h \in Batches(s, held) \ gone
    <3>1. PICK v \in Team(s) : h \in {v} \X (1 .. less[v])
      BY DEF Batches
    <3>2. v # w
      BY <2>1, <3>1
    <3> QED BY <2>1, <3>1, <3>2 DEF Batches
  <2>3. ASSUME NEW h \in Batches(s, held) \ gone PROVE h \in Batches(s, less)
    <3>1. PICK v \in Team(s) : h \in {v} \X (1 .. held[v])
      BY DEF Batches
    <3>2. v # w
      BY <3>1
    <3> QED BY <2>1, <3>1, <3>2 DEF Batches
  <2> QED BY <2>2, <2>3
<1>4. IsFiniteSet(1 .. held[w]) /\ Cardinality(1 .. held[w]) = held[w]
  BY <1>1, FS_Interval
<1>5. IsFiniteSet({w}) /\ Cardinality({w}) = 1
  BY FS_Singleton
<1>6. Cardinality(gone) = held[w]
  <2>1. Cardinality(gone) = Cardinality({w}) * Cardinality(1 .. held[w])
    BY <1>4, <1>5, FS_Product
  <2>2. Cardinality(gone) = 1 * held[w]
    BY <1>4, <1>5, <2>1
  <2> QED BY <1>1, <2>2
<1>7. Batches(s, held) \cap gone = gone
  BY <1>2
<1> HIDE DEF gone
<1>8. Cardinality(Batches(s, held) \ gone)
          = Cardinality(Batches(s, held)) - Cardinality(Batches(s, held) \cap gone)
  BY BatchesFinite, FS_Difference
<1> QED BY <1>3, <1>6, <1>7, <1>8

\* Nothing but the steps of the team decides which multiplications are begun.
LEMMA BegunSame ==
  ASSUME NEW s, NEW at, NEW held, NEW then, NEW later,
         \A w \in Team(s) : /\ then[w] = "multiply" <=> at[w] = "multiply"
                            /\ at[w] = "multiply" => later[w] = held[w]
  PROVE  Begun(s, then, later) = Begun(s, at, held)
<1>1. {v \in Team(s) : then[v] = "multiply"} = {v \in Team(s) : at[v] = "multiply"}
  OBVIOUS
<1>2. \A h : h \in Begun(s, then, later) <=> h \in Begun(s, at, held)
  BY <1>1 DEF Begun
<1> QED BY <1>2

\* With the batches held they are at most BATCH for each worker.
LEMMA BegunFits ==
  ASSUME NEW s \in Scenario, NEW held \in [Worker -> 0 .. BATCH], NEW at,
         \A w \in Team(s) : at[w] = "multiply" => held[w] < BATCH
  PROVE  /\ IsFiniteSet(Begun(s, at, held))
         /\ Cardinality(Begun(s, at, held)) \in Nat
         /\ Cardinality(Batches(s, held)) + Cardinality(Begun(s, at, held))
                <= BATCH * Cardinality(Team(s))
<1> DEFINE All == Team(s) \X (1 .. BATCH)
           B == Batches(s, held)
           C == Begun(s, at, held)
<1>1. B = {h \in All : h[2] <= held[h[1]]} /\ IsFiniteSet(All)
      /\ Cardinality(All) = BATCH * Cardinality(Team(s))
  BY BatchesIn
<1>2. BATCH \in Nat /\ Team(s) \subseteq Worker
  BY TeamFinite, BatchAssumption
<1>3. ASSUME NEW h \in C PROVE h \in All /\ ~(h[2] <= held[h[1]])
  <2>1. PICK w \in Team(s) : at[w] = "multiply" /\ h = <<w, held[w] + 1>>
    BY <1>3 DEF Begun
  <2>2. held[w] \in 0 .. BATCH /\ held[w] < BATCH
    BY <1>2, <2>1
  <2>3. held[w] + 1 \in 1 .. BATCH
    BY <1>2, <2>2
  <2>4. h[1] = w /\ h[2] = held[w] + 1 /\ ~(held[w] + 1 <= held[w])
    BY <2>1, <2>2
  <2> QED BY <2>1, <2>3, <2>4
<1> HIDE DEF All, B, C
<1>4. /\ B \in SUBSET All /\ C \in SUBSET All /\ B \cup C \in SUBSET All
      /\ B \cap C = {}
  BY <1>1, <1>3
<1>5. IsFiniteSet(B) /\ IsFiniteSet(C)
  BY <1>1, <1>4, FS_Subset
<1>6. Cardinality(B \cup C) = Cardinality(B) + Cardinality(C) - Cardinality(B \cap C)
  BY <1>5, FS_Union
<1>7. Cardinality(B \cap C) = 0
  BY <1>4, FS_EmptySet
<1>8. Cardinality(B) \in Nat /\ Cardinality(C) \in Nat
  BY <1>5, FS_CardinalityType
<1>9. Cardinality(B \cup C) <= Cardinality(All)
  BY <1>1, <1>4, FS_Subset
<1>10. Cardinality(B) + Cardinality(C) <= Cardinality(All)
  BY <1>6, <1>7, <1>8, <1>9
<1> QED BY <1>1, <1>5, <1>8, <1>10 DEF B, C

\* A multiplication that ends is begun no more.
LEMMA BegunMade ==
  ASSUME NEW s \in Scenario, NEW held \in [Worker -> 0 .. BATCH],
         NEW at, \A v \in Team(s) : at[v] = "multiply" => held[v] < BATCH,
         NEW w \in Team(s), at[w] = "multiply",
         NEW then, then[w] # "multiply", NEW later,
         \A v \in Team(s) \ {w} : then[v] = at[v] /\ later[v] = held[v]
  PROVE  Cardinality(Begun(s, then, later)) = Cardinality(Begun(s, at, held)) - 1
<1> DEFINE made == <<w, held[w] + 1>>
<1>1. w \in Worker /\ Team(s) \subseteq Worker
  BY TeamFinite
<1>2. then[w] # "multiply" /\ \A v \in Team(s) : v # w => then[v] = at[v] /\ later[v] = held[v]
  BY <1>1
<1>3. made \in Begun(s, at, held)
  BY DEF Begun
<1>4. ASSUME NEW h \in Begun(s, then, later) PROVE h \in Begun(s, at, held) \ {made}
  <2>1. PICK v \in Team(s) : then[v] = "multiply" /\ h = <<v, later[v] + 1>>
    BY <1>4 DEF Begun
  <2>2. v # w
    BY <1>2, <2>1
  <2>3. at[v] = "multiply" /\ h = <<v, held[v] + 1>> /\ h # made
    BY <1>2, <2>1, <2>2
  <2> QED BY <2>3 DEF Begun
<1>5. ASSUME NEW h \in Begun(s, at, held) \ {made} PROVE h \in Begun(s, then, later)
  <2>1. PICK v \in Team(s) : at[v] = "multiply" /\ h = <<v, held[v] + 1>>
    BY <1>5 DEF Begun
  <2>2. v # w
    BY <1>5, <2>1
  <2>3. then[v] = "multiply" /\ h = <<v, later[v] + 1>>
    BY <1>2, <2>1, <2>2
  <2> QED BY <2>3 DEF Begun
<1>6. Begun(s, then, later) = Begun(s, at, held) \ {made}
  BY <1>4, <1>5
<1>7. IsFiniteSet(Begun(s, at, held))
  BY BegunFits
<1> HIDE DEF made
<1> QED BY <1>3, <1>6, <1>7, FS_RemoveElement

\* Every step keeps the types and the bounds.
LEMMA NumStep ==
  BenchInv /\ MutexInv /\ [Next]_vars => NumInv'
<1> SUFFICES ASSUME BenchInv, MutexInv, [Next]_vars PROVE NumInv'
  OBVIOUS
<1> USE DEF BenchInv, NumInv, Goto, At, Scenario
<1>0. BATCH \in Nat \ {0}
  BY BatchAssumption
<1>1. ASSUME NEW w \in Worker,
             await_start(w) \/ spurious(w) \/ loop(w) \/ lock_add(w)
      PROVE  NumInv'
  BY <1>1 DEF await_start, spurious, loop, lock_add, measurement
<1>2. ASSUME NEW w \in Worker, multiply(w) PROVE NumInv'
  <2>1. local_count[w] \in 0 .. BATCH /\ local_count[w] < BATCH
    BY <1>2 DEF multiply, BatchInv
  <2>2. local_count[w] + 1 \in 0 .. BATCH
    BY <1>0, <2>1
  <2>3. local_count' = [local_count EXCEPT ![w] = local_count[w] + 1]
    BY <1>2 DEF multiply
  <2>4. local_count' \in [Worker -> 0 .. BATCH]
    BY <2>2, <2>3
  <2>5. done' \in [Scenario -> Nat]
    BY <1>2, WorkerScenario DEF multiply
  <2> QED BY <1>2, <2>4, <2>5 DEF multiply, measurement
<1>3. ASSUME NEW w \in Worker, add(w) PROVE NumInv'
  <2>1. w[1] \in Scenario /\ read[w] = count[w[1]] /\ local_count[w] \in 0 .. BATCH
    BY <1>3, WorkerScenario DEF add, MutexInv, AddsToTheCount
  <2>2. read[w] + local_count[w] \in Nat
    BY <1>0, <2>1
  <2>3. count' \in [Scenario -> Nat]
    BY <1>3, <2>2 DEF add
  <2>4. local_count' \in [Worker -> 0 .. BATCH]
    BY <1>0, <1>3 DEF add
  <2> QED BY <1>3, <2>3, <2>4 DEF add, measurement
<1>4. CASE reset
  BY <1>4 DEF reset, workers
<1>5. CASE broadcast
  BY <1>5 DEF broadcast
<1>6. CASE stop \/ print
  BY <1>6 DEF stop, print, workers
<1>7. CASE create_measurement \/ join_first \/ join_all
  BY <1>7 DEF create_measurement, join_first, join_all, workers, measurement
<1>8. CASE create_first \/ create_second
  BY <1>8 DEF create_first, create_second, measurement
<1>9. CASE UNCHANGED vars
  BY <1>9 DEF vars, workers, measurement
<1> QED
  BY <1>1, <1>2, <1>3, <1>4, <1>5, <1>6, <1>7, <1>8, <1>9
  DEF Next, main_thread, measurement_thread, worker_thread

\* Every step leaves who is not created as it is, or creates it.
LEMMA OffStep ==
  BenchInv /\ [Next]_vars => OffInv'
<1> SUFFICES ASSUME BenchInv, [Next]_vars PROVE OffInv'
  OBVIOUS
<1> USE DEF BenchInv, NumInv, OffInv, NotCreated, Goto, At
<1>1. ASSUME NEW w \in Worker, worker_thread(w) \/ spurious(w) PROVE OffInv'
  BY <1>1
     DEF worker_thread, await_start, loop, multiply, lock_add, add, spurious,
              measurement
<1>2. CASE measurement_thread
  BY <1>2 DEF measurement_thread, reset, broadcast, stop, print, workers
<1>3. CASE create_measurement \/ join_first \/ join_all
  BY <1>3 DEF create_measurement, join_first, join_all, workers, measurement
<1>4. CASE create_first
  BY <1>4 DEF create_first, measurement
<1>5. CASE create_second
  <2>1. \A w \in Worker : w[2] \in Int
    BY ThreadsAssumption DEF Worker, Team
  <2> QED BY <1>5, <2>1 DEF create_second, measurement
<1>6. CASE UNCHANGED vars
  BY <1>6 DEF vars, workers, measurement
<1> QED
  BY <1>1, <1>2, <1>3, <1>4, <1>5, <1>6 DEF Next, main_thread

\* Every step keeps a batch from being exceeded.
LEMMA BatchStep ==
  BenchInv /\ [Next]_vars => BatchInv'
<1> SUFFICES ASSUME BenchInv, [Next]_vars PROVE BatchInv'
  OBVIOUS
<1> USE DEF BenchInv, NumInv, BatchInv, Goto, At
<1>0. BATCH \in Nat \ {0}
  BY BatchAssumption
<1>1. ASSUME NEW w \in Worker,
             await_start(w) \/ spurious(w) \/ loop(w) \/ lock_add(w)
      PROVE  BatchInv'
  BY <1>1 DEF await_start, spurious, loop, lock_add
<1>2. ASSUME NEW w \in Worker, multiply(w) PROVE BatchInv'
  <2>1. local_count[w] \in 0 .. BATCH /\ local_count[w] < BATCH
    BY <1>2 DEF multiply
  <2>2. BATCH % BATCH = 0
    BY <1>0
  <2>3. local_count[w] + 1 = BATCH \/ local_count[w] + 1 < BATCH
    BY <1>0, <2>1
  <2>4. local_count'[w] = local_count[w] + 1
    BY <1>2 DEF multiply
  <2>5. pc'[w] # "batch" => local_count'[w] < BATCH
    BY <1>2, <2>2, <2>3, <2>4 DEF multiply
  <2>6. \A v \in Worker \ {w} : pc'[v] = pc[v] /\ local_count'[v] = local_count[v]
    BY <1>2 DEF multiply
  <2> QED BY <2>5, <2>6
<1>3. ASSUME NEW w \in Worker, add(w) PROVE BatchInv'
  BY <1>0, <1>3 DEF add
<1>4. CASE reset \/ stop \/ print
  BY <1>4 DEF reset, stop, print, workers
<1>5. CASE broadcast
  BY <1>5 DEF broadcast
<1>6. CASE create_measurement \/ join_first \/ join_all
  BY <1>6 DEF create_measurement, join_first, join_all, workers
<1>7. CASE create_first
  <2>1. <<1, 1>> \in Worker => pc[<<1, 1>>] = "off"
    BY <1>7 DEF create_first, OffInv, NotCreated
  <2> QED BY <1>7, <2>1 DEF create_first
<1>8. CASE create_second
  <2>1. <<2, i>> \in Worker => pc[<<2, i>>] = "off"
    BY <1>8 DEF create_second, OffInv, NotCreated
  <2> QED BY <1>8, <2>1 DEF create_second
<1>9. CASE UNCHANGED vars
  BY <1>9 DEF vars, workers
<1> QED
  BY <1>1, <1>2, <1>3, <1>4, <1>5, <1>6, <1>7, <1>8, <1>9
  DEF Next, main_thread, measurement_thread, worker_thread

\* Every step leaves a scenario untouched until it is started.
LEMMA UnstartedStep ==
  BenchInv /\ [Next]_vars => UnstartedInv'
<1> SUFFICES ASSUME BenchInv, [Next]_vars PROVE UnstartedInv'
  OBVIOUS
<1> USE DEF BenchInv, NumInv, UnstartedInv, Unstarted, Goto, At, Scenario
<1>1. ASSUME NEW w \in Worker, await_start(w) \/ spurious(w) PROVE UnstartedInv'
  BY <1>1, TeamScenario DEF await_start, spurious, measurement
<1>2. ASSUME NEW w \in Worker, loop(w) \/ multiply(w) \/ lock_add(w) \/ add(w)
      PROVE  UnstartedInv'
  <2>1. w[1] \in Scenario /\ w \in Team(w[1])
    BY DEF Worker, Team
  <2>2. pc[w] \notin {"off", "start", "wait"}
    BY <1>2 DEF loop, multiply, lock_add, add
  <2>3. ~Unstarted(w[1])
    BY <2>1, <2>2
  <2>4. \A v \in Worker \ {w} : pc'[v] = pc[v] /\ local_count'[v] = local_count[v]
    BY <1>2 DEF loop, multiply, lock_add, add
  <2>5. \A s \in Scenario \ {w[1]} : count'[s] = count[s] /\ done'[s] = done[s]
    BY <1>2 DEF loop, multiply, lock_add, add
  <2>6. UNCHANGED <<measure, now, running>>
    BY <1>2 DEF loop, multiply, lock_add, add, measurement
  <2> QED BY <2>3, <2>4, <2>5, <2>6, TeamScenario
<1>3. CASE reset
  BY <1>3 DEF reset, workers
<1>4. CASE broadcast
  BY <1>4, TeamScenario DEF broadcast
<1>5. CASE stop \/ print
  BY <1>5 DEF stop, print, workers
<1>6. CASE create_measurement
  BY <1>6 DEF create_measurement, OffInv, workers
<1>7. CASE join_first \/ join_all
  BY <1>7 DEF join_first, join_all, workers, measurement
<1>8. CASE create_first \/ create_second
  BY <1>8, TeamScenario DEF create_first, create_second, measurement
<1>9. CASE UNCHANGED vars
  BY <1>9 DEF vars, workers, measurement
<1> QED
  BY <1>1, <1>2, <1>3, <1>4, <1>5, <1>6, <1>7, <1>8, <1>9
  DEF Next, main_thread, measurement_thread, worker_thread

\* Every step keeps the count, the batches held and the work done in balance.
LEMMA NothingStep ==
  BenchInv /\ MutexInv /\ [Next]_vars => NothingLost'
<1> SUFFICES ASSUME BenchInv, MutexInv, [Next]_vars PROVE NothingLost'
  OBVIOUS
<1> USE DEF BenchInv, NumInv, NothingLost, Pending
<1>1. ASSUME UNCHANGED <<count, local_count, done>> PROVE NothingLost'
  BY <1>1
<1>2. ASSUME NEW w \in Worker,
             await_start(w) \/ spurious(w) \/ loop(w) \/ lock_add(w)
      PROVE  NothingLost'
  BY <1>1, <1>2 DEF await_start, spurious, loop, lock_add
<1>3. ASSUME NEW w \in Worker, multiply(w) \/ add(w) PROVE NothingLost'
  <2>1. w[1] \in Scenario /\ w \in Team(w[1])
    BY DEF Worker, Team, Scenario
  <2>2. ASSUME NEW s \in Scenario, s # w[1]
        PROVE  count'[s] + Pending(s)' = done'[s]
    <3>1. \A v \in Team(s) : v \in Worker /\ v # w
      BY <2>2, TeamScenario
    <3>2. \A v \in Team(s) : local_count'[v] = local_count[v]
      BY <1>3, <3>1 DEF multiply, add
    <3>3. Batches(s, local_count') = Batches(s, local_count)
      BY <3>2, BatchesSame
    <3>4. count'[s] = count[s] /\ done'[s] = done[s]
      BY <1>3, <2>2 DEF multiply, add
    <3> QED BY <3>3, <3>4
  <2>3. count[w[1]] \in Nat /\ done[w[1]] \in Nat
        /\ Cardinality(Batches(w[1], local_count)) \in Nat
    BY <2>1, BatchesFinite
  <2>4. count'[w[1]] + Pending(w[1])' = done'[w[1]]
    <3>1. CASE multiply(w)
      <4>1. local_count[w] < BATCH
        BY <3>1 DEF multiply, BatchInv, At
      <4>2. local_count' = [local_count EXCEPT ![w] = @ + 1]
        BY <3>1 DEF multiply
      <4>3. Pending(w[1])' = Pending(w[1]) + 1
        BY <2>1, <4>1, <4>2, BatchesAdd
      <4>4. count'[w[1]] = count[w[1]] /\ done'[w[1]] = done[w[1]] + 1
        BY <2>1, <3>1 DEF multiply
      <4> QED BY <2>1, <2>3, <4>3, <4>4
    <3>2. CASE add(w)
      <4>1. local_count' = [local_count EXCEPT ![w] = 0]
        BY <3>2 DEF add
      <4>2. Pending(w[1])' = Pending(w[1]) - local_count[w]
        BY <2>1, <4>1, BatchesClear
      <4>3. read[w] = count[w[1]]
        BY <3>2 DEF add, MutexInv, AddsToTheCount
      <4>4. count'[w[1]] = count[w[1]] + local_count[w] /\ done'[w[1]] = done[w[1]]
        BY <2>1, <3>2, <4>3 DEF add
      <4>5. local_count[w] \in Int
        BY BatchAssumption
      <4> QED BY <2>1, <2>3, <4>2, <4>4, <4>5
    <3> QED BY <1>3, <3>1, <3>2
  <2> QED BY <2>2, <2>4
<1>4. CASE reset
  <2>1. count[now] = 0
    BY <1>4 DEF reset, UnstartedInv, Unstarted
  <2>2. count' = count
    BY <1>4, <2>1 DEF reset
  <2> QED BY <1>1, <1>4, <2>2 DEF reset, workers
<1>5. CASE broadcast \/ stop \/ print
  BY <1>1, <1>5 DEF broadcast, stop, print, workers
<1>6. CASE main_thread
  BY <1>1, <1>6 DEF main_thread, create_measurement, create_first, join_first,
                    create_second, join_all, workers
<1>7. CASE UNCHANGED vars
  BY <1>1, <1>7 DEF vars, workers
<1> QED
  BY <1>2, <1>3, <1>4, <1>5, <1>6, <1>7
     DEF Next, measurement_thread, worker_thread

\* A step that changes none of what a settled scenario is about.
LEMMA SettledSame ==
  ASSUME NEW s \in Scenario, Settled(s),
         now > s \/ measure = "ended" => now' > s \/ measure' = "ended",
         running'[s] = running[s], printed'[s] = printed[s], done'[s] = done[s],
         \A w \in Team(s) :
             /\ pc'[w] = "multiply" <=> pc[w] = "multiply"
             /\ pc[w] = "multiply" => local_count'[w] = local_count[w]
  PROVE  Settled(s)'
<1>1. Begun(s, pc', local_count') = Begun(s, pc, local_count)
  BY BegunSame
<1> QED BY <1>1 DEF Settled

\* A scenario that is settled remains so.
LEMMA SettledStep ==
  ASSUME BenchInv, [Next]_vars, NEW s \in Scenario, printed[s] # NONE,
         printed'[s] = printed[s]
  PROVE  Settled(s)'
<1> USE DEF BenchInv, NumInv
<1>0. Settled(s) /\ \A w \in Team(s) : w \in Worker /\ w[1] = s
  BY TeamScenario DEF PrintInv
<1>1. ASSUME NEW w \in Worker,
             await_start(w) \/ spurious(w) \/ loop(w) \/ lock_add(w) \/ add(w)
      PROVE  Settled(s)'
  <2>1. ~running[s] /\ UNCHANGED <<now, measure, running, done>>
    BY <1>0, <1>1
       DEF Settled, await_start, spurious, loop, lock_add, add, measurement
  <2>2. ASSUME NEW v \in Team(s)
        PROVE  /\ pc'[v] = "multiply" <=> pc[v] = "multiply"
               /\ pc[v] = "multiply" => local_count'[v] = local_count[v]
    <3>1. v \in Worker /\ v[1] = s
      BY <1>0
    <3>2. CASE v # w
      BY <1>1, <3>1, <3>2
      DEF await_start, spurious, loop, lock_add, add, Goto
    <3>3. CASE v = w
      BY <1>1, <2>1, <3>1, <3>3
      DEF await_start, spurious, loop, lock_add, add, Goto, At
    <3> QED BY <3>2, <3>3
  <2> QED BY <1>0, <2>1, <2>2, SettledSame
<1>2. ASSUME NEW w \in Worker, multiply(w) PROVE Settled(s)'
  <2>0. UNCHANGED <<now, measure, running>>
    BY <1>2 DEF multiply, measurement
  <2>1. CASE w[1] # s
    <3>1. \A v \in Team(s) : pc'[v] = pc[v] /\ local_count'[v] = local_count[v]
      BY <1>0, <1>2, <2>1 DEF multiply, Goto
    <3>2. done'[s] = done[s]
      BY <1>2, <2>1 DEF multiply
    <3> QED BY <1>0, <2>0, <3>1, <3>2, SettledSame
  <2>2. CASE w[1] = s
    <3>1. w \in Team(s)
      BY <2>2 DEF Worker, Team
    <3>2. pc[w] = "multiply" /\ pc'[w] # "multiply"
      BY <1>2 DEF multiply, Goto, At
    <3>3. \A v \in Team(s) \ {w} : pc'[v] = pc[v] /\ local_count'[v] = local_count[v]
      BY <1>0, <1>2 DEF multiply, Goto
    <3>4. \A v \in Team(s) : pc[v] = "multiply" => local_count[v] < BATCH
      BY <1>0 DEF BatchInv
    <3>5. local_count \in [Worker -> 0 .. BATCH]
      OBVIOUS
    <3> HIDE DEF BenchInv, NumInv
    <3>6. Cardinality(Begun(s, pc', local_count'))
              = Cardinality(Begun(s, pc, local_count)) - 1
      BY <3>1, <3>2, <3>3, <3>4, <3>5, BegunMade
    <3> USE DEF BenchInv, NumInv
    <3>7. Cardinality(Begun(s, pc, local_count)) \in Nat
      BY <3>4, BegunFits
    <3>8. done'[s] = done[s] + 1 /\ done[s] \in Nat
      BY <1>2, <2>2 DEF multiply
    <3>9. printed[s] \in Nat
      OBVIOUS
    <3>10. printed'[s] <= done'[s]
      BY <1>0, <3>8, <3>9 DEF Settled
    <3>11. done'[s] + Cardinality(Begun(s, pc', local_count'))
              = done[s] + Cardinality(Begun(s, pc, local_count))
      BY <3>6, <3>7, <3>8
    <3> QED BY <1>0, <2>0, <3>10, <3>11 DEF Settled
  <2> QED BY <2>1, <2>2
<1>3. CASE reset
  <2>0. measure = "reset" /\ now' = now /\ running' = [running EXCEPT ![now] = TRUE]
    BY <1>3 DEF reset
  <2>1. now # s /\ now > s
    BY <1>0, <2>0 DEF Settled, Scenario
  <2>2. UNCHANGED <<pc, local_count, done>>
    BY <1>3 DEF reset, workers
  <2> QED BY <1>0, <2>0, <2>1, <2>2, SettledSame
<1>4. CASE broadcast
  <2>1. UNCHANGED <<now, running, done, local_count>> /\ measure # "ended"
    BY <1>4 DEF broadcast
  <2>2. \A v \in Team(s) : pc'[v] = "multiply" <=> pc[v] = "multiply"
    BY <1>0, <1>4 DEF broadcast, At
  <2> QED BY <1>0, <2>1, <2>2, SettledSame
<1>5. CASE stop \/ print
  <2>1. running'[s] = running[s] /\ UNCHANGED <<pc, local_count, done>>
    BY <1>0, <1>5 DEF stop, print, Settled, workers
  <2>2. now > s \/ measure = "ended" => now' > s \/ measure' = "ended"
    BY <1>5 DEF stop, print, Scenario
  <2> QED BY <1>0, <2>1, <2>2, SettledSame
<1>6. CASE create_measurement \/ join_first \/ join_all
  <2>1. UNCHANGED <<running, pc, local_count, done>>
    BY <1>6 DEF create_measurement, join_first, join_all, workers
  <2>2. now > s \/ measure = "ended" => now' > s \/ measure' = "ended"
    BY <1>6 DEF create_measurement, join_first, join_all, measurement, OffInv
  <2> QED BY <1>0, <2>1, <2>2, SettledSame
<1>7. CASE create_first \/ create_second
  <2>1. UNCHANGED <<running, now, measure, local_count, done>>
    BY <1>7 DEF create_first, create_second, measurement
  <2>2. ASSUME NEW v \in Team(s)
        PROVE  pc'[v] = "multiply" <=> pc[v] = "multiply"
    BY <1>0, <1>7 DEF create_first, create_second, OffInv, NotCreated, Goto
  <2> QED BY <1>0, <2>1, <2>2, SettledSame
<1>8. CASE UNCHANGED vars
  BY <1>0, <1>8, SettledSame DEF vars, workers, measurement
<1> QED
  BY <1>1, <1>2, <1>3, <1>4, <1>5, <1>6, <1>7, <1>8
  DEF Next, main_thread, measurement_thread, worker_thread

\* The print settles its scenario.
LEMMA PrintStep ==
  BenchInv /\ [Next]_vars => PrintInv'
<1> SUFFICES ASSUME BenchInv, [Next]_vars PROVE PrintInv'
  OBVIOUS
<1> USE DEF BenchInv, NumInv
<1>1. measure' = "print" => ~running'[now']
  <2>1. CASE stop
    BY <2>1 DEF stop
  <2>2. CASE print
    BY <2>2 DEF print
  <2>3. CASE reset \/ broadcast
    BY <2>3 DEF reset, broadcast
  <2>4. ASSUME NEW w \in Worker, worker_thread(w) \/ spurious(w)
        PROVE  measure' = "print" => ~running'[now']
    BY <2>4
       DEF worker_thread, spurious, await_start, loop, multiply, lock_add, add,
                measurement, PrintInv
  <2>5. CASE main_thread
    BY <2>5 DEF main_thread, create_measurement, create_first, join_first,
                create_second, join_all, workers, measurement, PrintInv
  <2>6. CASE UNCHANGED vars
    BY <2>6 DEF vars, measurement, PrintInv
  <2> QED
    BY <2>1, <2>2, <2>3, <2>4, <2>5, <2>6 DEF Next, measurement_thread
<1>2. ASSUME NEW s \in Scenario, printed'[s] # NONE PROVE Settled(s)'
  <2>1. CASE printed'[s] = printed[s] /\ printed[s] # NONE
    BY <2>1, SettledStep
  <2>2. CASE ~(printed'[s] = printed[s] /\ printed[s] # NONE)
    <3>1. print /\ s = now
      <4>1. printed'[s] # printed[s]
        BY <1>2, <2>2
      <4>2. print
        BY <4>1
           DEF Next, main_thread, measurement_thread, worker_thread, spurious,
                    await_start, loop, multiply, lock_add, add, reset, broadcast, stop,
                    create_measurement, create_first, join_first, create_second,
                    join_all, measurement, vars
      <4> QED BY <4>1, <4>2 DEF print
    <3>2. printed'[s] = count[s] /\ UNCHANGED <<running, pc, local_count, done>>
          /\ ~running[s] /\ (now' > s \/ measure' = "ended")
      BY <3>1 DEF print, workers, PrintInv, Scenario
    <3>3. \A w \in Team(s) : pc[w] = "multiply" => local_count[w] < BATCH
      BY TeamScenario DEF BatchInv
    <3>4. local_count \in [Worker -> 0 .. BATCH]
      OBVIOUS
    <3>5. /\ Cardinality(Begun(s, pc, local_count)) \in Nat
          /\ Cardinality(Batches(s, local_count)) + Cardinality(Begun(s, pc, local_count))
                 <= BATCH * Cardinality(Team(s))
      BY <3>3, <3>4, BegunFits
    <3>6. Cardinality(Batches(s, local_count)) \in Nat
      BY <3>4, BatchesFinite
    <3>7. count[s] \in Nat /\ done[s] \in Nat
          /\ count[s] + Cardinality(Batches(s, local_count)) = done[s]
      BY DEF NothingLost, Pending
    <3>8. BATCH * Cardinality(Team(s)) \in Int
      BY TeamFinite, BatchAssumption
    <3>9. count[s] <= done[s]
          /\ done[s] + Cardinality(Begun(s, pc, local_count))
                 <= count[s] + BATCH * Cardinality(Team(s))
      BY <3>5, <3>6, <3>7, <3>8
    <3> QED BY <3>2, <3>9 DEF Settled
  <2> QED BY <2>1, <2>2
<1> QED BY <1>1, <1>2 DEF PrintInv

\* Every step keeps the invariant.
LEMMA BenchStep == BenchInv /\ MutexInv /\ [Next]_vars => BenchInv'
  BY NumStep, OffStep, BatchStep, UnstartedStep, NothingStep, PrintStep
     DEF BenchInv

\* It holds at the start.
LEMMA BenchInit == Init => BenchInv
<1> SUFFICES ASSUME Init PROVE BenchInv
  OBVIOUS
<1> USE DEF Init
<1>0. BATCH \in Nat \ {0}
  BY BatchAssumption
<1>1. NumInv
  BY <1>0 DEF NumInv, Scenario
<1>2. OffInv /\ BatchInv /\ PrintInv
  BY <1>0 DEF OffInv, BatchInv, PrintInv
<1>3. UnstartedInv
  BY TeamScenario DEF UnstartedInv
<1>4. NothingLost
  <2>1. ASSUME NEW s \in Scenario PROVE Batches(s, local_count) = {}
    BY TeamScenario DEF Batches
  <2> QED BY <2>1, FS_EmptySet DEF NothingLost, Pending
<1> QED BY <1>1, <1>2, <1>3, <1>4 DEF BenchInv

\* The invariant of the mutex holds throughout.
LEMMA MutexCorrect == Spec => []MutexInv
<1>1. Init => MutexInv
  BY DEF Init, MutexInv, AddsToTheCount, Scenario
<1> QED BY <1>1, MutexStep, PTL DEF Spec

\* The invariant of the benchmark holds throughout.
LEMMA BenchCorrect == Spec => []BenchInv
  BY BenchInit, BenchStep, MutexCorrect, PTL DEF Spec

\* The count and what the workers hold are together what was multiplied, whoever
\* adds at the same time and whenever the count is set to zero.
THEOREM NothingIsLost == Spec => []NothingLost
<1>1. BenchInv => NothingLost
  BY DEF BenchInv
<1> QED BY <1>1, BenchCorrect, PTL

\* Whatever is multiplied after the print, the number printed stays short of it
\* by a batch for each worker at most, and is never above it.
THEOREM PrintedShort == Spec => []ShortByABatch
<1>1. BenchInv => ShortByABatch
  <2> SUFFICES ASSUME BenchInv, NEW s \in Scenario, printed[s] # NONE
               PROVE  done[s] - printed[s] \in 0 .. BATCH * Cardinality(Team(s))
    BY DEF ShortByABatch
  <2>1. printed[s] \in Nat /\ done[s] \in Nat
    BY DEF BenchInv, NumInv
  <2>2. Cardinality(Begun(s, pc, local_count)) \in Nat
    <3>1. local_count \in [Worker -> 0 .. BATCH]
      BY DEF BenchInv, NumInv
    <3>2. \A w \in Team(s) : pc[w] = "multiply" => local_count[w] < BATCH
      BY TeamScenario DEF BenchInv, BatchInv
    <3> QED BY <3>1, <3>2, BegunFits
  <2>3. BATCH * Cardinality(Team(s)) \in Int
    BY TeamFinite, BatchAssumption
  <2>4. printed[s] <= done[s]
        /\ done[s] + Cardinality(Begun(s, pc, local_count))
               <= printed[s] + BATCH * Cardinality(Team(s))
    BY DEF BenchInv, PrintInv, Settled
  <2> QED BY <2>1, <2>2, <2>3, <2>4
<1> QED BY <1>1, BenchCorrect, PTL

-------------------------------------------------------------------------------
(* The environment variable over TCP: what is under way between the sides.  *)

One(b) == IF b THEN 1 ELSE 0

\* Every value sent and every message of the server, the greeting included.
UnderWay == Len(toServer) + replies + One(srv = "send") + One(pending)

\* Apart from what the client waits for there is at most one: the greeting, or
\* what the client took it for.
InStep == UnderWay <= 1 + One(conn = "recv")

\* Nothing is under way before the connection is made, nor to a server that
\* has closed it.
Ends == /\ conn = "connect" => link = "none"
        /\ link = "none" => /\ ~pending /\ toServer = <<>> /\ replies = 0
                            /\ srv \in {"off", "accept", "over"}
        /\ link = "down" => ~pending /\ toServer = <<>> /\ srv = "over"

ClientTypes ==
    /\ A \in Value \cup {0} /\ A_changed \in BOOLEAN
    /\ continua_esecuzione \in BOOLEAN
    /\ changer \in [Changer -> {"test", "change", "done"}]
    /\ conn \in {"connect", "while", "lock", "wait", "waiting", "woken", "take",
                 "send", "recv", "close", "done"}
    /\ message \in Value \cup {0}
    /\ handler \in {"idle", "broadcast"}
    /\ conn = "send" => message \in Value

OtherTypes ==
    /\ link \in {"none", "up", "fin", "broken", "reset", "down"}
    /\ pending \in BOOLEAN
    /\ toServer \in Seq(Value)
    /\ replies \in Nat
    /\ srv \in {"off", "accept", "while", "recv", "send", "close", "over"}
    /\ srv_continua \in BOOLEAN
    /\ srv_A \in Seq(Value) /\ Len(srv_A) <= 2

TypeInv == ClientTypes /\ OtherTypes

\* A has been given a value when it is taken.
Taken == /\ A_changed => A \in Value
         /\ conn = "take" /\ continua_esecuzione => A_changed

IInv == TypeInv /\ InStep /\ Ends /\ Taken /\ FlagAgrees

-------------------------------------------------------------------------------

\* The invariant holds at the start.
LEMMA InitIInv == EnvInit => IInv
<1> SUFFICES ASSUME EnvInit PROVE IInv
  OBVIOUS
<1>1. <<>> \in Seq(Value) /\ Len(<<>>) = 0
  BY EmptySeq
<1>2. TypeInv
  <2>1. changer \in [Changer -> {"test", "change", "done"}]
    BY DEF EnvInit
  <2>2. /\ toServer \in Seq(Value) /\ srv_A \in Seq(Value) /\ Len(srv_A) <= 2
        /\ replies \in Nat
    BY <1>1 DEF EnvInit
  <2> QED BY <2>1, <2>2 DEF EnvInit, TypeInv, ClientTypes, OtherTypes
<1>3. InStep
  BY <1>1 DEF EnvInit, InStep, UnderWay, One
<1> QED BY <1>2, <1>3 DEF EnvInit, IInv, Ends, Taken, FlagAgrees

\* What one recv of the server takes off the stream, and what it leaves.
LEMMA Received ==
    ASSUME toServer \in Seq(Value), NEW n \in 1 .. Len(toServer)
    PROVE  /\ SubSeq(toServer, 1, n) \in Seq(Value)
           /\ Len(SubSeq(toServer, 1, n)) = n
           /\ SubSeq(toServer, n + 1, Len(toServer)) \in Seq(Value)
           /\ Len(SubSeq(toServer, n + 1, Len(toServer))) = Len(toServer) - n
<1>1. Len(toServer) \in Nat /\ \A k \in 1 .. Len(toServer) : toServer[k] \in Value
  BY ElementOfSeq, LenProperties
<1>2. /\ SubSeq(toServer, 1, n) \in Seq(Value)
      /\ Len(SubSeq(toServer, 1, n)) = IF 1 <= n THEN n - 1 + 1 ELSE 0
  BY <1>1, SubSeqProperties
<1>3. /\ SubSeq(toServer, n + 1, Len(toServer)) \in Seq(Value)
      /\ Len(SubSeq(toServer, n + 1, Len(toServer)))
            = IF n + 1 <= Len(toServer) THEN Len(toServer) - (n + 1) + 1 ELSE 0
  BY <1>1, SubSeqProperties
<1> QED BY <1>1, <1>2, <1>3

\* No stream holds more than two messages.
LEMMA AtMostTwo ==
    ASSUME TypeInv, InStep
    PROVE  Len(toServer) \in 0 .. 2 /\ replies \in 0 .. 2
<1>1. Len(toServer) \in Nat /\ replies \in Nat
  BY LenProperties DEF TypeInv, ClientTypes, OtherTypes
<1>2. PICK a, b, c \in 0 .. 1 : Len(toServer) + replies + a + b <= 1 + c
  <2>1. UnderWay <= 1 + One(conn = "recv")
    BY DEF InStep
  <2> QED BY <2>1, <1>1 DEF UnderWay, One
<1> DEFINE L == Len(toServer)
<1>3. L \in Nat /\ L + replies + a + b <= 1 + c
  BY <1>1, <1>2
<1> HIDE DEF L
<1>4. L \in 0 .. 2 /\ replies \in 0 .. 2
  BY <1>1, <1>3
<1> QED BY <1>4 DEF L

\* The steps of the client that do not touch the connection.
ClientOnly ==
    \/ \E t \in Changer : TestRunning(t) \/ change_A(t)
    \/ connection_thread_func \/ TestChanged \/ cond_wait \/ TakeValue
    \/ Spurious \/ signal_handler \/ Broadcast

\* The steps of the client that touch neither the connection nor the server.
LEMMA ClientOnlyStep ==
    ASSUME ClientOnly
    PROVE  /\ UNCHANGED <<net, server>>
           /\ conn' = "recv" <=> conn = "recv"
           /\ conn' = "connect" <=> conn = "connect"
  BY DEF ClientOnly, TestRunning, change_A, connection_thread_func,
     TestChanged,
         cond_wait, TakeValue, Spurious, signal_handler,
         Broadcast, Signalled

\* Each message that is added answers one that is gone, or is one the client
\* waits for; a recv that takes several brings the sides closer.
LEMMA StepInStep ==
    ASSUME TypeInv, InStep, Ends, [EnvNext]_envVars
    PROVE  InStep' /\ Ends'
<1> USE DEF InStep, UnderWay, Ends, One
<1>0. Len(toServer) \in Nat /\ replies \in Nat /\ Len(<<>>) = 0
  BY LenProperties, EmptySeq DEF TypeInv, ClientTypes, OtherTypes
<1>1. CASE ClientOnly
  BY <1>1, ClientOnlyStep DEF net, server
<1>2. CASE connessione_server
  BY <1>0, <1>2 DEF connessione_server, server
<1>3. CASE send_message
  <2>1. Len(Append(toServer, message)) = Len(toServer) + 1
    BY <1>3, AppendProperties
       DEF TypeInv, ClientTypes, OtherTypes, send_message
  <2> QED BY <1>0, <1>3, <2>1
             DEF send_message, ConnGoto, Killed, server
<1>4. CASE ReceiveEcho
  <2>1. PICK r \in Nat : /\ replies' = r /\ r <= replies
                         /\ conn' = "while" => r < replies
    BY <1>0, <1>4 DEF ReceiveEcho, ConnGoto
  <2>2. /\ conn = "recv" /\ conn' \in {"while", "close"}
        /\ UNCHANGED <<link, pending, toServer, srv>>
        /\ conn' = "close" => replies = 0 /\ link = "down"
    BY <1>4 DEF ReceiveEcho, ConnGoto, server
  <2>3. Ends'
    BY <1>0, <2>1, <2>2
  <2> QED BY <1>0, <2>1, <2>2, <2>3 DEF TypeInv, ClientTypes, OtherTypes
<1>5. CASE CloseConnection
  <2>1. /\ conn = "close" /\ conn' = "done" /\ replies' = 0
        /\ UNCHANGED <<pending, toServer, srv>>
        /\ link' = link \/ link' \in {"fin", "reset", "broken"}
    BY <1>5 DEF CloseConnection, ConnGoto, server
  <2>2. Ends'
    BY <2>1
  <2>3. /\ UnderWay <= 1 /\ One(srv = "send") \in Nat /\ One(pending) \in Nat
        /\ One(conn' = "recv") = 0
    BY <2>1
  <2> DEFINE L == Len(toServer)
  <2>4. UnderWay' = L + 0 + One(srv = "send") + One(pending)
    BY <2>1
  <2>5. L + replies + One(srv = "send") + One(pending) <= 1 /\ L \in Nat
    BY <1>0, <2>3
  <2> HIDE DEF L, One
  <2>6. UnderWay' <= 1 + One(conn' = "recv")
    BY <1>0, <2>3, <2>4, <2>5
  <2> QED BY <2>2, <2>6
<1>6. CASE init_listening_socket
  BY <1>6 DEF init_listening_socket, client, net
<1>7. CASE accetta_connessione
  BY <1>0, <1>7 DEF accetta_connessione, Arrives, client
<1>8. CASE WhileConnected \/ CloseClient
  <2>1. /\ UNCHANGED <<conn, link, pending, toServer, replies>>
        /\ srv \in {"while", "close"}
        /\ srv' \in {"recv", "close", "accept", "over"}
    BY <1>8 DEF WhileConnected, CloseClient, client, net
  <2>2. Ends'
    BY <2>1
  <2> QED BY <1>0, <2>1, <2>2
<1>9. CASE gestisci_client
  <2>1. ASSUME NEW n \in 1 .. Len(toServer),
               toServer' = SubSeq(toServer, n + 1, Len(toServer)), srv' = "send"
        PROVE  InStep' /\ Ends'
    <3>1. Len(toServer') = Len(toServer) - n
      BY <2>1, Received DEF TypeInv, ClientTypes, OtherTypes
    <3>2. /\ srv = "recv" /\ srv' = "send"
          /\ UNCHANGED <<link, conn, pending, replies>>
      BY <1>9, <2>1 DEF gestisci_client, client
    <3>3. Ends'
      BY <3>2
    <3> QED BY <1>0, <3>1, <3>2, <3>3
  <2>2. CASE UNCHANGED toServer
    BY <1>0, <1>9, <2>2 DEF gestisci_client, client
  <2> QED BY <1>9, <2>1, <2>2 DEF gestisci_client
<1>10. CASE SendEcho
  BY <1>0, <1>10 DEF SendEcho, Arrives, client
<1>11. CASE StopServer
  BY <1>0, <1>11 DEF StopServer, client
<1>12. CASE UNCHANGED envVars
  BY <1>12 DEF envVars, client, net, server
<1> QED BY <1>1, <1>2, <1>3, <1>4, <1>5, <1>6, <1>7, <1>8, <1>9, <1>10, <1>11,
           <1>12 DEF EnvNext, Connection, Serve, ClientOnly

\* A and its flag change together, and the flag falls only as A is copied.
LEMMA FlagStep ==
    ASSUME TypeInv, Taken, FlagAgrees, [EnvNext]_envVars
    PROVE  Taken' /\ FlagAgrees'
<1> USE DEF Taken, FlagAgrees
<1>1. ASSUME NEW t \in Changer, TestRunning(t) \/ change_A(t)
      PROVE  Taken' /\ FlagAgrees'
  BY <1>1 DEF TestRunning, change_A, Signalled, MutexTaken
<1>2. CASE connessione_server \/ connection_thread_func
  BY <1>2 DEF connessione_server, connection_thread_func
<1>3. CASE TestChanged
  BY <1>3 DEF TestChanged
<1>4. CASE cond_wait \/ Spurious
  BY <1>4 DEF cond_wait, Spurious
<1>5. CASE TakeValue
  BY <1>5 DEF TakeValue
<1>6. CASE send_message \/ ReceiveEcho \/ CloseConnection
  BY <1>6
     DEF send_message, ReceiveEcho, CloseConnection, ConnGoto,
         Killed
<1>7. CASE signal_handler \/ Broadcast
  BY <1>7 DEF signal_handler, Broadcast, Signalled
<1>8. CASE UNCHANGED client
  BY <1>8 DEF client
<1>9. CASE init_listening_socket \/ Serve \/ StopServer \/ UNCHANGED envVars
  BY <1>8, <1>9
     DEF init_listening_socket, Serve, accetta_connessione,
     WhileConnected, gestisci_client, SendEcho, CloseClient,
     StopServer, envVars
<1> QED BY <1>1, <1>2, <1>3, <1>4, <1>5, <1>6, <1>7, <1>9
           DEF EnvNext, Connection

\* No step leaves the types.
LEMMA ClientTypesStep ==
    ASSUME ClientTypes, Taken, [EnvNext]_envVars
    PROVE  ClientTypes'
<1> USE DEF ClientTypes
<1>1. ASSUME NEW t \in Changer, TestRunning(t) PROVE ClientTypes'
  <2>1. changer' \in [Changer -> {"test", "change", "done"}]
    BY <1>1 DEF TestRunning
  <2> QED BY <1>1, <2>1 DEF TestRunning
<1>2. ASSUME NEW t \in Changer, change_A(t) PROVE ClientTypes'
  <2>1. changer' \in [Changer -> {"test", "change", "done"}]
    BY <1>2 DEF change_A
  <2>2. conn' = conn \/ conn' = "woken"
    BY <1>2 DEF change_A, Signalled
  <2>3. A' \in Value /\ A_changed' = TRUE
        /\ UNCHANGED <<continua_esecuzione, message, handler>>
    BY <1>2 DEF change_A
  <2> QED BY <2>1, <2>2, <2>3
<1>3. CASE connessione_server
  BY <1>3 DEF connessione_server
<1>4. CASE connection_thread_func
  BY <1>4 DEF connection_thread_func
<1>5. CASE TestChanged
  BY <1>5 DEF TestChanged
<1>6. CASE cond_wait
  BY <1>6 DEF cond_wait
<1>7. CASE Spurious
  BY <1>7 DEF Spurious
<1>8. CASE TakeValue
  BY <1>8 DEF TakeValue, Taken
<1>9. CASE send_message
  <2>1. changer' \in [Changer -> {"test", "change", "done"}]
    BY <1>9 DEF send_message, ConnGoto, Killed
  <2> QED BY <1>9, <2>1 DEF send_message, ConnGoto, Killed
<1>10. CASE ReceiveEcho \/ CloseConnection
  BY <1>10 DEF ReceiveEcho, CloseConnection, ConnGoto
<1>11. CASE signal_handler
  BY <1>11 DEF signal_handler
<1>12. CASE Broadcast
  BY <1>12 DEF Broadcast, Signalled
<1>13. CASE UNCHANGED client
  BY <1>13 DEF client
<1>14. CASE init_listening_socket \/ Serve \/ StopServer \/ UNCHANGED envVars
  BY <1>13, <1>14
     DEF init_listening_socket, Serve, accetta_connessione,
     WhileConnected, gestisci_client, SendEcho, CloseClient,
     StopServer, envVars
<1> QED BY <1>1, <1>2, <1>3, <1>4, <1>5, <1>6, <1>7, <1>8, <1>9, <1>10, <1>11,
           <1>12, <1>14 DEF EnvNext, Connection

\* The types of the connection and of the server.
LEMMA OtherTypesStep ==
    ASSUME TypeInv, InStep, [EnvNext]_envVars
    PROVE  OtherTypes'
<1> USE DEF TypeInv, OtherTypes
<1>1. CASE ClientOnly
  BY <1>1, ClientOnlyStep DEF net, server
<1>2. CASE connessione_server
  BY <1>2 DEF connessione_server, server
<1>3. CASE send_message
  <2>1. conn = "send" => Append(toServer, message) \in Seq(Value)
    BY AppendProperties DEF ClientTypes
  <2>2. toServer' \in Seq(Value)
    BY <1>3, <2>1 DEF send_message
  <2>3. UNCHANGED <<link, pending, replies, srv, srv_continua, srv_A>>
    BY <1>3 DEF send_message, server
  <2> QED BY <2>2, <2>3
<1>4. CASE ReceiveEcho
  <2>1. replies' \in Nat
    BY <1>4 DEF ReceiveEcho
  <2>2. UNCHANGED <<link, pending, toServer, srv, srv_continua, srv_A>>
    BY <1>4 DEF ReceiveEcho, server
  <2> QED BY <2>1, <2>2
<1>5. CASE CloseConnection
  BY <1>5 DEF CloseConnection, server
<1>6. CASE init_listening_socket
  BY <1>6 DEF init_listening_socket, net
<1>7. CASE accetta_connessione
  <2>1. /\ replies' \in Nat
        /\ link' \in {"none", "up", "fin", "broken", "reset", "down"}
    BY <1>7 DEF accetta_connessione, Arrives
  <2>2. /\ pending' = FALSE /\ srv' = "while"
        /\ UNCHANGED <<toServer, srv_continua, srv_A>>
    BY <1>7 DEF accetta_connessione
  <2> QED BY <2>1, <2>2
<1>8. CASE WhileConnected \/ CloseClient
  BY <1>8 DEF WhileConnected, CloseClient, net
<1>9. CASE SendEcho
  <2>1. /\ replies' \in Nat
        /\ link' \in {"none", "up", "fin", "broken", "reset", "down"}
    BY <1>9 DEF SendEcho, Arrives
  <2>2. /\ srv' \in {"while", "over", "close"}
        /\ UNCHANGED <<pending, toServer, srv_continua, srv_A>>
    BY <1>9 DEF SendEcho
  <2> QED BY <2>1, <2>2
<1>10. CASE gestisci_client
  <2>1. ASSUME NEW n \in 1 .. Len(toServer),
               srv_A' = SubSeq(toServer, 1, n),
               toServer' = SubSeq(toServer, n + 1, Len(toServer))
        PROVE  /\ toServer' \in Seq(Value)
               /\ srv_A' \in Seq(Value) /\ Len(srv_A') <= 2
    BY <2>1, Received, AtMostTwo
  <2>2. /\ toServer' \in Seq(Value)
        /\ srv_A' \in Seq(Value) /\ Len(srv_A') <= 2
    BY <1>10, <2>1 DEF gestisci_client
  <2> QED BY <1>10, <2>2 DEF gestisci_client
<1>11. CASE StopServer
  BY <1>11, EmptySeq DEF StopServer
<1>12. CASE UNCHANGED envVars
  BY <1>12 DEF envVars, net, server
<1> QED BY <1>1, <1>2, <1>3, <1>4, <1>5, <1>6, <1>7, <1>8, <1>9, <1>10, <1>11,
           <1>12 DEF EnvNext, Connection, Serve, ClientOnly

-------------------------------------------------------------------------------

\* The invariant of the two sides holds throughout.
LEMMA InductiveInvariant == EnvSpec => []IInv
<1>1. IInv /\ [EnvNext]_envVars => IInv'
  BY StepInStep, FlagStep, ClientTypesStep, OtherTypesStep DEF IInv, TypeInv
<1> QED BY <1>1, InitIInv, PTL DEF EnvSpec

\* Whatever the threads and the values are, neither stream ever holds more than
\* two messages and the server never takes more than two values for one.
THEOREM NeverFarApart == EnvSpec => []TypeOK
<1>1. ASSUME IInv PROVE TypeOK
  <2>1. Len(toServer) \in 0 .. 2 /\ replies \in 0 .. 2
    BY <1>1, AtMostTwo DEF IInv
  <2>2. /\ \A k \in 1 .. Len(toServer) : toServer[k] \in Value
        /\ \A k \in 1 .. Len(srv_A) : srv_A[k] \in Value
    BY <1>1, ElementOfSeq DEF IInv, TypeInv, OtherTypes
  <2>3. Len(srv_A) \in 0 .. 2
    <3> DEFINE L == Len(srv_A)
    <3>1. L \in Nat /\ L <= 2
      BY <1>1, LenProperties DEF IInv, TypeInv, OtherTypes
    <3> HIDE DEF L
    <3>2. L \in 0 .. 2
      BY <3>1
    <3> QED BY <3>2 DEF L
  <2> QED BY <1>1, <2>1, <2>2, <2>3 DEF IInv, TypeInv, ClientTypes, OtherTypes,
                                        TypeOK
<1> QED BY <1>1, InductiveInvariant, PTL

\* A change of A is flagged until its value has been copied to be sent, in
\* whatever order threads, signals and the server go on.
THEOREM NoChangeForgotten == EnvSpec => []FlagAgrees
<1>1. IInv => FlagAgrees
  BY DEF IInv
<1> QED BY <1>1, InductiveInvariant, PTL

================================================================================
