--------------------------- MODULE DirectoryProofs ---------------------------
(***************************************************************************)
(* The two programs that walk directories.                                 *)
(*                                                                         *)
(* SNP63, the daemon, for any number of runs, files and directories, and    *)
(* whoever is killed where: values stay in range, two daemons never watch   *)
(* at once, and no file is called deleted that was there and in reach       *)
(* during all the check.                                                   *)
(*                                                                         *)
(* SNP58, the scanner, for any tree, any size of the ring and any table of  *)
(* inodes: the ring is a stream, the counter goes through every entry that  *)
(* can be reached, each once, and each file counts once in the total.       *)
(*                                                                         *)
(* Where a proof needs induction over data (the sum of the sizes, the       *)
(* recursion of Reached) it takes a smallest counterexample instead: a set  *)
(* without a smaller one, or an entry whose directory is not one.           *)
(***************************************************************************)
EXTENDS DirectoryDaemon, DirScanner, FiniteSetTheorems, SequenceTheorems,
        WellFoundedInduction, TLAPS

Labels == {"off", "scan", "create", "write", "signal", "atexit", "loop",
           "check", "cleanup", "gone", "killed"}

LEMMA OneMore ==
  ASSUME NEW S, NEW c \in [Run -> [File -> S]], NEW r \in Run, NEW x \in File,
         NEW v \in S
  PROVE  [c EXCEPT ![r][x] = v] \in [Run -> [File -> S]]
  OBVIOUS

\* What belongs to each run stays in range.
RunTypeOK ==
    /\ pc \in [Run -> Labels]
    /\ daemon_running \in [Run -> BOOLEAN]
    /\ initial \in [Run -> [File -> Snapshot \cup {GONE}]]
    /\ current \in [Run -> [File -> Snapshot \cup {GONE}]]
    /\ todo \in [Run -> SUBSET (Sub \cup File)]
    /\ missed \in [Run -> SUBSET File]
    /\ unreached \in [Run -> SUBSET File]
    /\ deleted \in [Run -> SUBSET File]

FilesTypeOK ==
    /\ tree \in [File -> Snapshot \cup {GONE}]
    /\ mode \in [Sub \cup {ROOT} -> SUBSET {"read", "search"}]
    /\ changes \in 0 .. MAX_CHANGES

LEMMA GoneType ==
  ASSUME RunTypeOK, NEW r \in Run, NEW how \in {"gone", "killed"}, Gone(r, how)
  PROVE  RunTypeOK'
<1>1. Nothing \in [File -> Snapshot \cup {GONE}]
  BY DEF Nothing
<1>2. how \in Labels
  BY DEF Labels
<1>3. pc' \in [Run -> Labels] /\ daemon_running' \in [Run -> BOOLEAN]
  BY <1>2 DEF RunTypeOK, Gone, Goto
<1>4. /\ initial' \in [Run -> [File -> Snapshot \cup {GONE}]]
      /\ current' \in [Run -> [File -> Snapshot \cup {GONE}]]
  BY <1>1 DEF RunTypeOK, Gone
<1>5. /\ todo' \in [Run -> SUBSET (Sub \cup File)]
      /\ missed' \in [Run -> SUBSET File]
      /\ unreached' \in [Run -> SUBSET File]
      /\ deleted' \in [Run -> SUBSET File]
  BY DEF RunTypeOK, Gone
<1> QED BY <1>3, <1>4, <1>5 DEF RunTypeOK

LEMMA CollectType ==
  ASSUME RunTypeOK, FilesTypeOK, NEW r \in Run, collect_all_files_recursive(r)
  PROVE  RunTypeOK'
<1>1. PICK x \in Entries(r) :
         \/ /\ x \in Sub /\ OpenSub(r, x) /\ UNCHANGED current
         \/ /\ x \in File /\ tree[x] # GONE /\ Examines(x)
            /\ current' = [current EXCEPT ![r][x] = tree[x]]
            /\ todo' = [todo EXCEPT ![r] = @ \ {x}]
            /\ UNCHANGED missed
         \/ /\ x \in File /\ (x \in missed[r] \/ ~Examines(x))
            /\ todo' = [todo EXCEPT ![r] = @ \ {x}]
            /\ UNCHANGED <<current, missed>>
  BY DEF collect_all_files_recursive
<1>2. current' \in [Run -> [File -> Snapshot \cup {GONE}]]
  <2>1. CASE x \in File /\ current' = [current EXCEPT ![r][x] = tree[x]]
    <3>1. tree[x] \in Snapshot \cup {GONE}
      BY <2>1 DEF FilesTypeOK
    <3> QED BY <2>1, <3>1, OneMore DEF RunTypeOK
  <2>2. CASE UNCHANGED current
    BY <2>2 DEF RunTypeOK
  <2> QED BY <1>1, <2>1, <2>2
<1>3. todo' \in [Run -> SUBSET (Sub \cup File)] /\ missed' \in [Run -> SUBSET File]
  <2>1. CASE OpenSub(r, x)
    <3>1. In(x) \subseteq File /\ {f \in In(x) : tree[f] = GONE} \subseteq File
      BY DEF In
    <3>2. todo[r] \in SUBSET (Sub \cup File) /\ missed[r] \in SUBSET File
      BY DEF RunTypeOK
    <3>3. PICK t \in SUBSET (Sub \cup File), m \in SUBSET File :
             todo' = [todo EXCEPT ![r] = t] /\ missed' = [missed EXCEPT ![r] = m]
      <4>1. CASE ~Opens(x)
        <5>1. todo' = [todo EXCEPT ![r] = todo[r] \ {x}] /\ UNCHANGED missed
          BY <2>1, <4>1 DEF OpenSub
        <5>2. missed' = [missed EXCEPT ![r] = missed[r]]
          BY <5>1 DEF RunTypeOK
        <5> QED BY <3>2, <5>1, <5>2
      <4>2. CASE Opens(x)
        BY <2>1, <3>1, <3>2, <4>2 DEF OpenSub
      <4> QED BY <4>1, <4>2
    <3> QED BY <3>3 DEF RunTypeOK
  <2>2. CASE todo' = [todo EXCEPT ![r] = @ \ {x}] /\ UNCHANGED missed
    BY <2>2 DEF RunTypeOK
  <2> QED BY <1>1, <2>1, <2>2
<1>4. UNCHANGED <<pc, daemon_running, initial, unreached, deleted>>
  BY DEF collect_all_files_recursive
<1> QED BY <1>2, <1>3, <1>4 DEF RunTypeOK

LEMMA OpenRootType ==
  ASSUME RunTypeOK, NEW r \in Run, OpenRoot(r)
  PROVE  /\ todo' \in [Run -> SUBSET (Sub \cup File)]
         /\ missed' \in [Run -> SUBSET File]
         /\ unreached' \in [Run -> SUBSET File]
         /\ deleted' \in [Run -> SUBSET File]
  BY DEF RunTypeOK, OpenRoot, In, OutOfReach

LEMMA GotoType ==
  ASSUME RunTypeOK, NEW r \in Run, NEW l \in Labels, Goto(r, l)
  PROVE  pc' \in [Run -> Labels]
  BY DEF RunTypeOK, Goto

LEMMA CompareType ==
  ASSUME RunTypeOK, NEW r \in Run, compare(r)
  PROVE  RunTypeOK'
<1> DEFINE known == {f \in File : initial[r][f] # GONE}
           found == {f \in File : current[r][f] # GONE}
           noted == {f \in found : \/ f \notin known
                                   \/ is_modified(initial[r][f], current[r][f])}
           kept == [f \in File |-> IF f \in noted THEN current[r][f]
                                                  ELSE initial[r][f]]
<1>1. /\ deleted' = [deleted EXCEPT ![r] = known \ found]
      /\ initial' = [initial EXCEPT ![r] = kept]
      /\ current' = [current EXCEPT ![r] = Nothing]
      /\ Goto(r, "loop")
      /\ UNCHANGED <<daemon_running, todo, missed, unreached>>
  BY DEF compare
<1>2. kept \in [File -> Snapshot \cup {GONE}] /\ Nothing \in [File -> Snapshot \cup {GONE}]
  BY DEF RunTypeOK, Nothing
<1>3. initial' \in [Run -> [File -> Snapshot \cup {GONE}]]
  <2> HIDE DEF kept
  <2> QED BY <1>1, <1>2 DEF RunTypeOK
<1>4. current' \in [Run -> [File -> Snapshot \cup {GONE}]]
  BY <1>1, <1>2 DEF RunTypeOK
<1>5. deleted' \in [Run -> SUBSET File]
  BY <1>1 DEF RunTypeOK
<1>6. pc' \in [Run -> Labels]
  BY <1>1, GotoType DEF Labels
<1> QED BY <1>1, <1>3, <1>4, <1>5, <1>6 DEF RunTypeOK

LEMMA ProgramType ==
  ASSUME RunTypeOK, FilesTypeOK, PID_FILE \in Run \cup {NONE},
         NEW r \in Run, Program(r)
  PROVE  RunTypeOK' /\ PID_FILE' \in Run \cup {NONE}
<1> USE DEF Labels, memory
<1>1. CASE collect_all_files_recursive(r)
  BY <1>1, CollectType DEF collect_all_files_recursive
<1>2. CASE daemonize(r)
  <2>1. pc' \in [Run -> Labels]
    BY <1>2, GotoType DEF daemonize
  <2>2. Nothing \in [File -> Snapshot \cup {GONE}]
    BY DEF Nothing
  <2>3. /\ initial' \in [Run -> [File -> Snapshot \cup {GONE}]]
        /\ current' \in [Run -> [File -> Snapshot \cup {GONE}]]
        /\ missed' \in [Run -> SUBSET File]
        /\ unreached' \in [Run -> SUBSET File]
    BY <1>2, <2>2 DEF daemonize, RunTypeOK
  <2> QED BY <1>2, <2>1, <2>3 DEF daemonize, RunTypeOK
<1>3. CASE create_pid_file(r)
  <2>1. CASE Gone(r, "gone")
    BY <1>3, <2>1, GoneType DEF create_pid_file
  <2>2. CASE Goto(r, "write") /\ UNCHANGED <<daemon_running, memory>>
    <3>1. pc' \in [Run -> Labels]
      BY <2>2, GotoType
    <3> QED BY <1>3, <2>2, <3>1 DEF create_pid_file, RunTypeOK
  <2> QED BY <1>3, <2>1, <2>2 DEF create_pid_file
<1>4. CASE write_pid(r)
  <2>1. CASE Gone(r, "gone")
    BY <1>4, <2>1, GoneType DEF write_pid
  <2>2. CASE Goto(r, "signal") /\ UNCHANGED <<daemon_running, memory>>
    <3>1. pc' \in [Run -> Labels]
      BY <2>2, GotoType
    <3> QED BY <1>4, <2>2, <3>1 DEF write_pid, RunTypeOK
  <2> QED BY <1>4, <2>1, <2>2 DEF write_pid
<1>5. CASE signal(r) \/ atexit(r)
  <2>1. pc' \in [Run -> Labels]
    BY <1>5, GotoType DEF signal, atexit
  <2> QED BY <1>5, <2>1 DEF signal, atexit, RunTypeOK
<1>6. CASE daemon_main_loop(r)
  <2>1. pc' \in [Run -> Labels]
    BY <1>6, GotoType DEF daemon_main_loop
  <2>2. /\ todo' \in [Run -> SUBSET (Sub \cup File)]
        /\ missed' \in [Run -> SUBSET File]
        /\ unreached' \in [Run -> SUBSET File]
        /\ deleted' \in [Run -> SUBSET File]
    <3>1. CASE OpenRoot(r)
      BY <3>1, OpenRootType
    <3>2. CASE UNCHANGED <<todo, missed, unreached, deleted>>
      BY <3>2 DEF RunTypeOK
    <3> QED BY <1>6, <3>1, <3>2 DEF daemon_main_loop
  <2> QED BY <1>6, <2>1, <2>2 DEF daemon_main_loop, RunTypeOK
<1>7. CASE compare(r)
  BY <1>7, CompareType DEF compare
<1>8. CASE cleanup_daemon(r)
  BY <1>8, GoneType DEF cleanup_daemon
<1> QED BY <1>1, <1>2, <1>3, <1>4, <1>5, <1>6, <1>7, <1>8 DEF Program

\* Values stay in range, a daemon's collection too, for any tree of files.
THEOREM TypeCorrect == Spec => []TypeOK
<1>1. Init => TypeOK
  BY ChangesAssumption DEF Init, TypeOK, Nothing
<1>2. TypeOK /\ [Next]_vars => TypeOK'
  <2> SUFFICES ASSUME RunTypeOK, FilesTypeOK, PID_FILE \in Run \cup {NONE},
                      [Next]_vars
               PROVE  RunTypeOK' /\ FilesTypeOK' /\ PID_FILE' \in Run \cup {NONE}
    BY DEF TypeOK, RunTypeOK, FilesTypeOK, Labels
  <2>1. ASSUME NEW r \in Run, Launch(r)
        PROVE  RunTypeOK' /\ FilesTypeOK' /\ PID_FILE' \in Run \cup {NONE}
    <3>1. pc' \in [Run -> Labels]
      BY <2>1, GotoType DEF Launch, Labels
    <3>2. /\ todo' \in [Run -> SUBSET (Sub \cup File)]
          /\ missed' \in [Run -> SUBSET File]
          /\ unreached' \in [Run -> SUBSET File]
          /\ deleted' \in [Run -> SUBSET File]
      BY <2>1, OpenRootType DEF Launch
    <3> QED BY <2>1, <3>1, <3>2 DEF Launch, RunTypeOK, FilesTypeOK, files
  <2>2. ASSUME NEW r \in Run, Program(r)
        PROVE  RunTypeOK' /\ FilesTypeOK' /\ PID_FILE' \in Run \cup {NONE}
    <3>1. UNCHANGED files
      BY <2>2 DEF Program, collect_all_files_recursive, daemonize, create_pid_file,
         write_pid, signal, atexit, daemon_main_loop, compare, cleanup_daemon, files
    <3> QED BY <2>2, <3>1, ProgramType DEF FilesTypeOK, files
  <2>3. ASSUME NEW r \in Run, signal_handler(r)
        PROVE  RunTypeOK' /\ FilesTypeOK' /\ PID_FILE' \in Run \cup {NONE}
    BY <2>3 DEF signal_handler, RunTypeOK, FilesTypeOK, files, memory
  <2>4. ASSUME NEW r \in Run, Kill(r)
        PROVE  RunTypeOK' /\ FilesTypeOK' /\ PID_FILE' \in Run \cup {NONE}
    BY <2>4, GoneType DEF Kill, FilesTypeOK, files
  <2>5. ASSUME NEW f \in File, ChangeFile(f)
        PROVE  RunTypeOK' /\ FilesTypeOK' /\ PID_FILE' \in Run \cup {NONE}
    <3>1. PICK s \in Snapshot \cup {GONE} :
             /\ tree' = [tree EXCEPT ![f] = s]
             /\ missed' = [r \in Run |-> IF s = GONE /\ Collecting(r)
                                         THEN missed[r] \cup {f} ELSE missed[r]]
      BY <2>5 DEF ChangeFile
    <3>2. missed' \in [Run -> SUBSET File]
      BY <3>1 DEF RunTypeOK
    <3>3. FilesTypeOK'
      BY <2>5, <3>1, ChangesAssumption DEF FilesTypeOK, ChangeFile
    <3> QED BY <2>5, <3>2, <3>3 DEF ChangeFile, RunTypeOK
  <2>6. ASSUME NEW d \in Sub \cup {ROOT}, ChangeDirectory(d)
        PROVE  RunTypeOK' /\ FilesTypeOK' /\ PID_FILE' \in Run \cup {NONE}
    <3>1. FilesTypeOK'
      BY <2>6, ChangesAssumption DEF ChangeDirectory, FilesTypeOK
    <3>2. OutOfReach' \subseteq File
      BY DEF OutOfReach
    <3>3. unreached' \in [Run -> SUBSET File]
      BY <2>6, <3>2 DEF ChangeDirectory, RunTypeOK
    <3> QED BY <2>6, <3>1, <3>3 DEF ChangeDirectory, RunTypeOK
  <2>7. CASE UNCHANGED vars
    BY <2>7 DEF vars, RunTypeOK, FilesTypeOK, files, memory
  <2> QED
    BY <2>1, <2>2, <2>3, <2>4, <2>5, <2>6, <2>7 DEF Next
<1> QED BY <1>1, <1>2, PTL DEF Spec

-------------------------------------------------------------------------------
(* One daemon.  The invariant is inductive as it stands: a run gets among   *)
(* the owners only when there is no file, and only an owner removes it.     *)

Owners == {"write", "signal", "atexit", "loop", "check", "cleanup"}

LEMMA OneDaemonStep == OneDaemon /\ pc \in [Run -> Labels] /\ [Next]_vars => OneDaemon'
<1> SUFFICES ASSUME OneDaemon, pc \in [Run -> Labels], [Next]_vars,
                    NEW q \in Run, pc'[q] \in Owners
             PROVE  PID_FILE' = q
  BY DEF OneDaemon, Owners
<1> USE RunAssumption DEF Owners, At, Goto
<1>1. pc[q] \in Owners => PID_FILE = q
  BY DEF OneDaemon
<1>2. ASSUME NEW r \in Run, Launch(r) PROVE PID_FILE' = q
  BY <1>1, <1>2 DEF Launch
<1>3. ASSUME NEW r \in Run, create_pid_file(r) PROVE PID_FILE' = q
  BY <1>1, <1>3 DEF create_pid_file, Gone
<1>4. ASSUME NEW r \in Run, write_pid(r) PROVE PID_FILE' = q
  <2>1. PID_FILE = r
    BY <1>4 DEF write_pid, OneDaemon
  <2> QED BY <1>1, <1>4, <2>1 DEF write_pid, Gone
<1>5. ASSUME NEW r \in Run, cleanup_daemon(r) PROVE PID_FILE' = q
  <2>1. PID_FILE = r
    BY <1>5 DEF cleanup_daemon, OneDaemon
  <2> QED BY <1>1, <1>5, <2>1 DEF cleanup_daemon, Gone
<1>6. ASSUME NEW r \in Run,
             \/ collect_all_files_recursive(r) \/ daemonize(r) \/ signal(r)
             \/ atexit(r) \/ daemon_main_loop(r) \/ compare(r)
      PROVE  PID_FILE' = q
  BY <1>1, <1>6 DEF collect_all_files_recursive, daemonize, signal, atexit,
     daemon_main_loop, compare
<1>7. ASSUME NEW r \in Run, signal_handler(r) \/ Kill(r) PROVE PID_FILE' = q
  BY <1>1, <1>7 DEF signal_handler, Kill, Gone
<1>8. ASSUME \/ \E f \in File : ChangeFile(f)
             \/ \E d \in Sub \cup {ROOT} : ChangeDirectory(d)
             \/ UNCHANGED vars
      PROVE  PID_FILE' = q
  BY <1>1, <1>8 DEF ChangeFile, ChangeDirectory, vars
<1> QED BY <1>2, <1>3, <1>4, <1>5, <1>6, <1>7, <1>8 DEF Next, Program

\* From its creation to its removal a daemon's PID file is its own.
THEOREM OneWatches == Spec => []OneDaemon
<1>1. Init => OneDaemon
  BY DEF Init, OneDaemon
<1>2. TypeOK => pc \in [Run -> Labels]
  BY DEF TypeOK, Labels
<1> QED BY <1>1, <1>2, OneDaemonStep, TypeCorrect, PTL DEF Spec

-------------------------------------------------------------------------------
(* Deleted files.  While a run collects, a file it has neither found nor    *)
(* missed is still to be read, itself or its directory, and every file out  *)
(* of reach is known as such: an entry is only passed over for one of the   *)
(* two reasons.                                                             *)

CollectInv ==
    \A r \in Run : Collecting(r) =>
        /\ deleted[r] = {}
        /\ OutOfReach \subseteq unreached[r]
        /\ \A f \in File : \/ current[r][f] # GONE \/ f \in missed[r] \cup unreached[r]
                            \/ f \in todo[r] \/ dir[f] \in todo[r] \cap Sub

DInv == TypeOK /\ CollectInv /\ DeletedWasMissing

\* What the invariant says of one run.
RunInv(r) ==
    /\ Collecting(r) =>
          /\ deleted[r] = {}
          /\ OutOfReach \subseteq unreached[r]
          /\ \A f \in File : \/ current[r][f] # GONE \/ f \in missed[r] \cup unreached[r]
                              \/ f \in todo[r] \/ dir[f] \in todo[r] \cap Sub
    /\ deleted[r] \subseteq missed[r] \cup unreached[r]

\* What is in reach depends on the directories' modes only.
LEMMA SameReach == UNCHANGED mode => OutOfReach' = OutOfReach
  BY DEF OutOfReach, InReach, Opens, Examines

LEMMA OpenRootInv ==
  ASSUME TypeOK, NEW r \in Run, OpenRoot(r)
  PROVE  /\ deleted'[r] = {} /\ unreached'[r] = OutOfReach
         /\ \A f \in File : f \in todo'[r] \/ dir[f] \in todo'[r] \cap Sub
  BY DirAssumption DEF TypeOK, OpenRoot, In

LEMMA CollectStep ==
  ASSUME TypeOK, NEW r \in Run, RunInv(r), collect_all_files_recursive(r)
  PROVE  RunInv(r)'
<1>1. PICK x \in Entries(r) :
         \/ /\ x \in Sub /\ OpenSub(r, x) /\ UNCHANGED current
         \/ /\ x \in File /\ tree[x] # GONE /\ Examines(x)
            /\ current' = [current EXCEPT ![r][x] = tree[x]]
            /\ todo' = [todo EXCEPT ![r] = @ \ {x}]
            /\ UNCHANGED missed
         \/ /\ x \in File /\ (x \in missed[r] \/ ~Examines(x))
            /\ todo' = [todo EXCEPT ![r] = @ \ {x}]
            /\ UNCHANGED <<current, missed>>
  BY DEF collect_all_files_recursive
<1>2. /\ Collecting(r) /\ deleted'[r] = {} /\ missed[r] \subseteq File
      /\ OutOfReach \subseteq unreached[r] /\ UNCHANGED <<mode, unreached>>
  BY DEF collect_all_files_recursive, RunInv, TypeOK, files
<1>3. ASSUME NEW f \in File
      PROVE  \/ current'[r][f] # GONE \/ f \in missed'[r] \cup unreached'[r]
             \/ f \in todo'[r] \/ dir[f] \in todo'[r] \cap Sub
  <2>1. \/ current[r][f] # GONE \/ f \in missed[r] \cup unreached[r]
        \/ f \in todo[r] \/ dir[f] \in todo[r] \cap Sub
    BY <1>2 DEF RunInv
  <2>2. CASE x \in Sub /\ OpenSub(r, x) /\ UNCHANGED current
    <3>1. CASE ~Opens(x)
      <4>1. dir[f] = x => f \in unreached'[r]
        BY <1>2, <3>1 DEF OutOfReach, InReach
      <4>2. todo'[r] = todo[r] \ {x} /\ UNCHANGED <<missed, current>>
        BY <2>2, <3>1 DEF OpenSub, TypeOK
      <4> QED BY <1>2, <2>1, <2>2, <4>1, <4>2, EntryAssumption
    <3>2. CASE Opens(x)
      <4>1. /\ todo'[r] = (todo[r] \ {x}) \cup In(x) /\ UNCHANGED current
            /\ missed[r] \subseteq missed'[r] \cup In(x)
        BY <2>2, <3>2 DEF OpenSub, TypeOK
      <4>2. f \in In(x) <=> dir[f] = x
        BY DEF In
      <4> QED BY <1>2, <2>1, <2>2, <4>1, <4>2, EntryAssumption
    <3> QED BY <3>1, <3>2
  <2>3. CASE /\ x \in File /\ tree[x] # GONE /\ Examines(x)
             /\ current' = [current EXCEPT ![r][x] = tree[x]]
             /\ todo' = [todo EXCEPT ![r] = @ \ {x}]
             /\ UNCHANGED missed
    <3>1. x \notin Sub
      BY <2>3, EntryAssumption
    <3>2. todo'[r] = todo[r] \ {x}
      BY <2>3 DEF TypeOK
    <3>3. current'[r][f] = IF f = x THEN tree[x] ELSE current[r][f]
      BY <2>3 DEF TypeOK
    <3> QED BY <1>2, <2>1, <2>3, <3>1, <3>2, <3>3
  <2>4. CASE /\ x \in File /\ (x \in missed[r] \/ ~Examines(x))
             /\ todo' = [todo EXCEPT ![r] = @ \ {x}]
             /\ UNCHANGED <<current, missed>>
    <3>1. x \notin Sub
      BY <2>4, EntryAssumption
    <3>2. todo'[r] = todo[r] \ {x}
      BY <2>4 DEF TypeOK
    <3>3. x \in missed[r] \cup unreached[r]
      BY <1>2, <2>4 DEF OutOfReach, InReach
    <3> QED BY <1>2, <2>1, <2>4, <3>1, <3>2, <3>3
  <2> QED BY <1>1, <2>2, <2>3, <2>4
<1>4. OutOfReach' \subseteq unreached'[r]
  BY <1>2, SameReach
<1> QED BY <1>2, <1>3, <1>4 DEF RunInv

LEMMA CompareStep ==
  ASSUME TypeOK, NEW r \in Run, RunInv(r), compare(r)
  PROVE  RunInv(r)'
<1>1. /\ Collecting(r) /\ todo[r] = {} /\ UNCHANGED <<missed, unreached>>
      /\ deleted'[r] = {f \in File : initial[r][f] # GONE}
                        \ {f \in File : current[r][f] # GONE}
      /\ ~Collecting(r)'
  BY DEF compare, At, Goto, Collecting, TypeOK
<1>2. \A f \in File : current[r][f] # GONE \/ f \in missed[r] \cup unreached[r]
  BY <1>1 DEF RunInv
<1> QED BY <1>1, <1>2 DEF RunInv

\* A run that is left alone by a step of another.
LEMMA Others ==
  ASSUME TypeOK, NEW r \in Run, RunInv(r), pc'[r] = pc[r],
         current'[r] = current[r], todo'[r] = todo[r], deleted'[r] = deleted[r],
         missed[r] \subseteq missed'[r], unreached[r] \subseteq unreached'[r],
         UNCHANGED mode \/ (Collecting(r) => OutOfReach' \subseteq unreached'[r])
  PROVE  RunInv(r)'
  BY SameReach DEF RunInv, Collecting

LEMMA GoneStep ==
  ASSUME TypeOK, NEW r \in Run, NEW how \in {"gone", "killed"}, Gone(r, how)
  PROVE  RunInv(r)'
  BY DEF RunInv, Collecting, Gone, Goto, TypeOK

LEMMA RunStep ==
  ASSUME TypeOK, NEW r \in Run, RunInv(r),
         Launch(r) \/ Program(r) \/ signal_handler(r) \/ Kill(r)
  PROVE  RunInv(r)'
<1> USE DEF At, Goto, memory
<1>1. CASE Launch(r)
  <2>1. OpenRoot(r)
    BY <1>1 DEF Launch
  <2>2. UNCHANGED mode
    BY <1>1 DEF Launch, files
  <2> QED BY <2>1, <2>2, OpenRootInv, SameReach DEF RunInv
<1>2. CASE collect_all_files_recursive(r)
  BY <1>2, CollectStep
<1>3. CASE daemonize(r)
  BY <1>3 DEF daemonize, RunInv, Collecting, TypeOK
<1>4. CASE create_pid_file(r)
  <2>1. CASE Gone(r, "gone")
    BY <2>1, GoneStep
  <2>2. CASE Goto(r, "write") /\ UNCHANGED <<daemon_running, memory>>
    BY <1>4, <2>2 DEF RunInv, Collecting, TypeOK
  <2> QED BY <1>4, <2>1, <2>2 DEF create_pid_file
<1>5. CASE write_pid(r)
  <2>1. CASE Gone(r, "gone")
    BY <2>1, GoneStep
  <2>2. CASE Goto(r, "signal") /\ UNCHANGED <<daemon_running, memory>>
    BY <1>5, <2>2 DEF RunInv, Collecting, TypeOK
  <2> QED BY <1>5, <2>1, <2>2 DEF write_pid
<1>6. CASE signal(r) \/ atexit(r)
  BY <1>6 DEF signal, atexit, RunInv, Collecting, TypeOK
<1>7. CASE daemon_main_loop(r)
  <2>1. CASE OpenRoot(r)
    <3>1. UNCHANGED mode
      BY <1>7 DEF daemon_main_loop, files
    <3> QED BY <2>1, <3>1, OpenRootInv, SameReach DEF RunInv
  <2>2. CASE Goto(r, "cleanup") /\ UNCHANGED <<todo, missed, unreached, deleted>>
    BY <1>7, <2>2 DEF daemon_main_loop, RunInv, Collecting, TypeOK
  <2> QED BY <1>7, <2>1, <2>2 DEF daemon_main_loop
<1>8. CASE compare(r)
  BY <1>8, CompareStep
<1>9. CASE cleanup_daemon(r)
  BY <1>9, GoneStep DEF cleanup_daemon
<1>10. CASE signal_handler(r)
  BY <1>10, Others DEF signal_handler, files
<1>11. CASE Kill(r)
  BY <1>11, GoneStep DEF Kill
<1> QED BY <1>1, <1>2, <1>3, <1>4, <1>5, <1>6, <1>7, <1>8, <1>9, <1>10, <1>11 DEF Program

LEMMA OtherRun ==
  ASSUME TypeOK, NEW r \in Run, NEW q \in Run, q # r,
         Launch(r) \/ Program(r) \/ signal_handler(r) \/ Kill(r)
  PROVE  /\ pc'[q] = pc[q] /\ current'[q] = current[q] /\ todo'[q] = todo[q]
         /\ deleted'[q] = deleted[q] /\ missed'[q] = missed[q]
         /\ unreached'[q] = unreached[q] /\ UNCHANGED mode
<1> USE DEF Goto, Gone, files, memory, TypeOK
<1>1. CASE Launch(r)
  BY <1>1 DEF Launch, OpenRoot
<1>2. CASE collect_all_files_recursive(r)
  BY <1>2 DEF collect_all_files_recursive, OpenSub
<1>3. CASE daemonize(r) \/ signal(r) \/ atexit(r)
  BY <1>3 DEF daemonize, signal, atexit
<1>4. CASE create_pid_file(r)
  BY <1>4 DEF create_pid_file
<1>5. CASE write_pid(r)
  BY <1>5 DEF write_pid
<1>6. CASE daemon_main_loop(r)
  BY <1>6 DEF daemon_main_loop, OpenRoot
<1>7. CASE compare(r)
  BY <1>7 DEF compare
<1>8. CASE cleanup_daemon(r) \/ signal_handler(r) \/ Kill(r)
  BY <1>8 DEF cleanup_daemon, signal_handler, Kill
<1> QED BY <1>1, <1>2, <1>3, <1>4, <1>5, <1>6, <1>7, <1>8 DEF Program

LEMMA DInvStep == DInv /\ [Next]_vars => (CollectInv /\ DeletedWasMissing)'
<1> SUFFICES ASSUME DInv, [Next]_vars, NEW q \in Run PROVE RunInv(q)'
  BY DEF CollectInv, DeletedWasMissing, RunInv, Collecting
<1>1. TypeOK /\ RunInv(q) /\ \A r \in Run : RunInv(r)
  BY DEF DInv, CollectInv, DeletedWasMissing, RunInv
<1>2. ASSUME NEW r \in Run, Launch(r) \/ Program(r) \/ signal_handler(r) \/ Kill(r)
      PROVE  RunInv(q)'
  <2>1. CASE q = r
    BY <1>1, <1>2, <2>1, RunStep
  <2>2. CASE q # r
    BY <1>1, <1>2, <2>2, OtherRun, Others
  <2> QED BY <2>1, <2>2
<1>3. ASSUME NEW f \in File, ChangeFile(f) PROVE RunInv(q)'
  <2>1. missed[q] \subseteq missed'[q]
    BY <1>3 DEF ChangeFile
  <2> QED BY <1>1, <1>3, <2>1, Others DEF ChangeFile
<1>4. ASSUME NEW d \in Sub \cup {ROOT}, ChangeDirectory(d) PROVE RunInv(q)'
  <2>1. unreached[q] \subseteq unreached'[q]
    BY <1>4 DEF ChangeDirectory
  <2>2. Collecting(q) => OutOfReach' \subseteq unreached'[q]
    BY <1>4 DEF ChangeDirectory
  <2> QED BY <1>1, <1>4, <2>1, <2>2, Others DEF ChangeDirectory
<1>5. CASE UNCHANGED vars
  BY <1>1, <1>5, Others DEF vars, files, memory
<1> QED BY <1>2, <1>3, <1>4, <1>5 DEF Next

\* A file is only called deleted if it was gone at some moment since its directory
\* was to be opened, or out of reach at some moment of the check, whatever users
\* change while the directories are read.
THEOREM DeletedCorrect == Spec => []DeletedWasMissing
<1>1. Init => CollectInv /\ DeletedWasMissing
  BY DEF Init, CollectInv, DeletedWasMissing, Collecting
<1>2. DInv => DeletedWasMissing
  BY DEF DInv
<1>3. DInv <=> TypeOK /\ CollectInv /\ DeletedWasMissing
  BY DEF DInv
<1> QED BY <1>1, <1>2, <1>3, DInvStep, TypeCorrect, PTL DEF Spec

-------------------------------------------------------------------------------
(* Sums over a finite set.                                                 *)

\* A set of subsets of a finite set has a smallest one.
LEMMA SmallestSet ==
  ASSUME NEW S, IsFiniteSet(S), NEW F, F \subseteq SUBSET S, F # {}
  PROVE  \E A \in F : \A B \in F : B \subseteq A => B = A
<1>1. F \subseteq FiniteSubsetsOf(S)
  BY FS_FiniteSubsetsOfFinite
<1>2. \E A \in F : \A B \in F : ~(<<B, A>> \in StrictSubsetOrdering(S))
  BY <1>1, FS_StrictSubsetOrderingWellFounded, WFMin
<1> QED BY <1>2 DEF StrictSubsetOrdering

LEMMA SmallestNumber ==
  ASSUME NEW T \in SUBSET Nat, T # {}
  PROVE  \E n \in T : \A m \in T : n <= m
<1>1. PICK n \in T : TRUE
  OBVIOUS
<1> DEFINE F == {1 .. m : m \in {k \in T : k <= n}}
<1>2. F \subseteq FiniteSubsetsOf(1 .. n) /\ F # {}
  <2>1. \A m \in {k \in T : k <= n} :
           1 .. m \in SUBSET (1 .. n) /\ IsFiniteSet(1 .. m)
    BY <1>1, FS_Interval
  <2>2. 1 .. n \in F
    BY <1>1
  <2> QED BY <2>1, <2>2 DEF FiniteSubsetsOf
<1>3. \E A \in F : \A B \in F : ~(<<B, A>> \in StrictSubsetOrdering(1 .. n))
  <2> HIDE DEF F
  <2> QED BY <1>2, FS_StrictSubsetOrderingWellFounded, WFMin
<1>4. PICK m \in T : /\ m <= n
                     /\ \A B \in F : ~(<<B, 1 .. m>> \in StrictSubsetOrdering(1 .. n))
  BY <1>3
<1>5. ASSUME NEW k \in T, k < m
      PROVE  FALSE
  <2>1. 1 .. k \in F /\ 1 .. k \in SUBSET (1 .. n) /\ 1 .. m \in SUBSET (1 .. n)
    BY <1>1, <1>4, <1>5
  <2>2. 1 .. k \subseteq 1 .. m /\ 1 .. k # 1 .. m
    <3>1. m \in 1 .. m /\ m \notin 1 .. k
      BY <1>5
    <3> QED BY <3>1, <1>5
  <2> QED BY <2>1, <2>2, <1>4 DEF StrictSubsetOrdering
<1> QED BY <1>4, <1>5

\* The recursion MapThenSumSet stands for.
Any(s) == CHOOSE f \in s : TRUE
SumStep(g, s) == IF s = {} THEN 0 ELSE Bytes[Any(s)] + g[s \ {Any(s)}]
Sums(g, S) == g = [s \in SUBSET S |-> SumStep(g, s)]

LEMMA AnyIn == ASSUME NEW s, s # {} PROVE Any(s) \in s
  BY DEF Any

LEMMA SizeOfIsSum == \A S : SizeOf(S) = (CHOOSE g : Sums(g, S))[S]
  BY DEF SizeOf, Sums, SumStep, Any, MapThenSumSet, MapThenFoldSet

LEMMA SumsExist ==
  ASSUME NEW S, IsFiniteSet(S)
  PROVE  Sums((CHOOSE g : Sums(g, S)), S)
<1> DEFINE Upto(n) == {s \in SUBSET S : Cardinality(s) <= n}
           Partial(n) == \E g : g = [s \in Upto(n) |-> SumStep(g, s)]
           Bad == {n \in Nat : ~Partial(n)}
<1>0. \A s \in SUBSET S : IsFiniteSet(s) /\ Cardinality(s) \in Nat
  BY FS_Subset, FS_CardinalityType
<1>1. Partial(0)
  <2> DEFINE g == [s \in Upto(0) |-> 0]
  <2>1. \A s \in Upto(0) : s = {}
    BY <1>0, FS_EmptySet
  <2>2. \A s \in Upto(0) : SumStep(g, s) = 0
    BY <2>1 DEF SumStep
  <2>3. g = [s \in Upto(0) |-> SumStep(g, s)]
    BY <2>2
  <2> QED BY <2>3
<1>2. ASSUME NEW n \in Nat, Partial(n)
      PROVE  Partial(n + 1)
  <2>1. PICK g : g = [s \in Upto(n) |-> SumStep(g, s)]
    BY <1>2
  <2> DEFINE h == [s \in Upto(n + 1) |-> SumStep(g, s)]
  <2>2. ASSUME NEW s \in Upto(n + 1), s # {}
        PROVE  s \ {Any(s)} \in Upto(n) /\ s \ {Any(s)} \in Upto(n + 1)
    <3>1. Cardinality(s \ {Any(s)}) = Cardinality(s) - 1
      BY <1>0, <2>2, AnyIn, FS_RemoveElement
    <3> QED BY <3>1, <1>0
  <2>3. \A s \in Upto(n) : h[s] = g[s]
    BY <2>1, <1>0
  <2>4. ASSUME NEW s \in Upto(n + 1)
        PROVE  SumStep(g, s) = SumStep(h, s)
    BY <2>2, <2>3 DEF SumStep
  <2>5. h = [s \in Upto(n + 1) |-> SumStep(h, s)]
    BY <2>4
  <2> HIDE DEF h
  <2> QED BY <2>5
<1>3. Bad = {}
  <2>1. SUFFICES ASSUME Bad # {} PROVE FALSE
    OBVIOUS
  <2>2. PICK n \in Bad : \A m \in Bad : n <= m
    <3> HIDE DEF Bad
    <3>1. Bad \subseteq Nat
      BY DEF Bad
    <3> QED BY <2>1, <3>1, SmallestNumber
  <2>3. n \in Nat /\ ~Partial(n) /\ n # 0
    <3> HIDE DEF Partial
    <3> QED BY <1>1
  <2>4. n - 1 \in Nat /\ Partial(n - 1)
    <3> HIDE DEF Partial
    <3> QED BY <2>2, <2>3
  <2>5. Partial((n - 1) + 1)
    <3> HIDE DEF Partial
    <3> QED BY <2>4, <1>2
  <2> HIDE DEF Partial
  <2> QED BY <2>3, <2>5
<1>4. Partial(Cardinality(S))
  <2> HIDE DEF Partial
  <2> QED BY <1>3, <1>0
<1>5. Upto(Cardinality(S)) = SUBSET S
  BY FS_Subset
<1>6. \E g : Sums(g, S)
  BY <1>4, <1>5 DEF Sums
<1> QED BY <1>6, Zenon

\* Unique whatever the set it is part of, and taken in any order.
LEMMA SumsUnfold ==
  ASSUME NEW S, IsFiniteSet(S), NEW g, Sums(g, S), NEW s \in SUBSET S
  PROVE  g[s] = SumStep(g, s)
  BY DEF Sums

LEMMA SumsType ==
  ASSUME NEW S, IsFiniteSet(S), \A f \in S : Bytes[f] \in Nat,
         NEW g, Sums(g, S), NEW s \in SUBSET S
  PROVE  g[s] \in Nat
<1> DEFINE Bad == {A \in SUBSET S : g[A] \notin Nat}
<1>1. SUFFICES ASSUME Bad # {} PROVE FALSE
  OBVIOUS
<1>2. PICK A \in Bad : \A B \in Bad : B \subseteq A => B = A
  <2>1. Bad \subseteq SUBSET S
    OBVIOUS
  <2> HIDE DEF Bad
  <2> QED BY <1>1, <2>1, SmallestSet
<1>3. g[A] = SumStep(g, A)
  BY SumsUnfold
<1>4. A # {}
  BY <1>3 DEF SumStep
<1>5. Any(A) \in A
  BY <1>4, AnyIn
<1>6. g[A \ {Any(A)}] \in Nat
  BY <1>2, <1>5
<1> QED BY <1>3, <1>4, <1>5, <1>6 DEF SumStep

LEMMA SumsAgree ==
  ASSUME NEW S, IsFiniteSet(S), NEW g, Sums(g, S),
         NEW R, IsFiniteSet(R), NEW h, Sums(h, R),
         NEW s \in SUBSET S, s \in SUBSET R
  PROVE  g[s] = h[s]
<1> DEFINE Bad == {A \in SUBSET S : A \in SUBSET R /\ g[A] # h[A]}
<1>1. SUFFICES ASSUME Bad # {} PROVE FALSE
  OBVIOUS
<1>2. PICK A \in Bad : \A B \in Bad : B \subseteq A => B = A
  <2>1. Bad \subseteq SUBSET S
    OBVIOUS
  <2> HIDE DEF Bad
  <2> QED BY <1>1, <2>1, SmallestSet
<1>3. g[A] = SumStep(g, A) /\ h[A] = SumStep(h, A)
  BY SumsUnfold
<1>4. A # {}
  BY <1>2, <1>3 DEF SumStep
<1>5. Any(A) \in A
  BY <1>4, AnyIn
<1>6. g[A \ {Any(A)}] = h[A \ {Any(A)}]
  BY <1>2, <1>5
<1> QED BY <1>2, <1>3, <1>6 DEF SumStep

LEMMA SumsAnyOrder ==
  ASSUME NEW S, IsFiniteSet(S), \A f \in S : Bytes[f] \in Nat,
         NEW g, Sums(g, S), NEW s \in SUBSET S, NEW f \in s
  PROVE  g[s] = Bytes[f] + g[s \ {f}]
<1> DEFINE Bad == {A \in SUBSET S : \E x \in A : g[A] # Bytes[x] + g[A \ {x}]}
<1>1. SUFFICES ASSUME Bad # {} PROVE FALSE
  OBVIOUS
<1>2. PICK A \in Bad : \A B \in Bad : B \subseteq A => B = A
  <2>1. Bad \subseteq SUBSET S
    OBVIOUS
  <2> HIDE DEF Bad
  <2> QED BY <1>1, <2>1, SmallestSet
<1>3. PICK x \in A : g[A] # Bytes[x] + g[A \ {x}]
  OBVIOUS
<1> DEFINE y == Any(A)
<1>4. y \in A /\ g[A] = Bytes[y] + g[A \ {y}]
  BY SumsUnfold, AnyIn DEF SumStep
<1> HIDE DEF y
<1>5. x # y
  BY <1>3, <1>4
<1>6. g[A \ {y}] = Bytes[x] + g[(A \ {y}) \ {x}]
  <2>1. A \ {y} \notin Bad /\ A \ {y} \in SUBSET S
    BY <1>2, <1>4
  <2> QED BY <2>1, <1>5
<1>7. g[A \ {x}] = Bytes[y] + g[(A \ {x}) \ {y}]
  <2>1. A \ {x} \notin Bad /\ A \ {x} \in SUBSET S
    BY <1>2, <1>3
  <2> QED BY <2>1, <1>5, <1>4
<1>8. (A \ {x}) \ {y} = (A \ {y}) \ {x}
  OBVIOUS
<1>9. /\ Bytes[x] \in Nat /\ Bytes[y] \in Nat
      /\ g[(A \ {x}) \ {y}] \in Nat
  <2>1. (A \ {x}) \ {y} \in SUBSET S
    OBVIOUS
  <2> QED BY <2>1, <1>3, <1>4, SumsType
<1>10. g[A] = Bytes[y] + (Bytes[x] + g[(A \ {x}) \ {y}])
  BY <1>4, <1>6, <1>8
<1>11. \A a, b, c \in Nat : a + (b + c) = b + (a + c)
  OBVIOUS
<1> QED BY <1>3, <1>7, <1>9, <1>10, <1>11

LEMMA SizeOfEmpty == SizeOf({}) = 0
<1>1. Sums((CHOOSE g : Sums(g, {})), {})
  BY SumsExist, FS_EmptySet
<1> QED BY <1>1, SizeOfIsSum, SumsUnfold, FS_EmptySet DEF SumStep

LEMMA SizeOfMore ==
  ASSUME NEW S, IsFiniteSet(S), NEW f, f \notin S,
         \A x \in S \cup {f} : Bytes[x] \in Nat
  PROVE  SizeOf(S \cup {f}) = SizeOf(S) + Bytes[f]
<1> DEFINE R == S \cup {f}
           g == CHOOSE i : Sums(i, S)
           h == CHOOSE i : Sums(i, R)
<1>1. IsFiniteSet(R)
  BY FS_AddElement
<1>2. Sums(g, S) /\ Sums(h, R)
  BY <1>1, SumsExist
<1>3. SizeOf(S) = g[S] /\ SizeOf(R) = h[R]
  BY SizeOfIsSum
<1> HIDE DEF g, h
<1>4. h[R] = Bytes[f] + h[R \ {f}]
  BY <1>1, <1>2, SumsAnyOrder
<1>5. R \ {f} = S
  OBVIOUS
<1>6. h[S] = g[S]
  BY <1>1, <1>2, SumsAgree
<1>7. g[S] \in Nat
  BY <1>2, SumsType
<1>8. h[R] = Bytes[f] + g[S]
  BY <1>4, <1>5, <1>6
<1>9. \A a, b \in Nat : a + b = b + a
  OBVIOUS
<1> QED BY <1>3, <1>7, <1>8, <1>9

-------------------------------------------------------------------------------
(* The ring.                                                               *)

ScannerLabels == {"opendir", "readdir", "lock", "test", "wait", "asleep",
                  "put", "unlock", "finish", "end", "done"}
CounterLabels == {"lock", "test", "wait", "asleep", "get", "unlock", "tally",
                  "end", "done"}
Critical == {"test", "wait", "put", "get", "unlock", "finish", "end"}
Adding == {"lock", "test", "wait", "asleep", "put", "unlock"}
Over == {"end", "done"}

ScanTypeOK ==
    /\ nodes \in [Slot -> Entry \cup {NIL}]
    /\ write_index \in Slot /\ read_index \in Slot
    /\ count \in 0 .. BUFFER_SIZE
    /\ finished \in BOOLEAN
    /\ mutex \in Thread \cup {NIL}
    /\ asleep \subseteq Thread
    /\ step \in [Thread -> ScannerLabels \cup CounterLabels]
    /\ step["scanner"] \in ScannerLabels /\ step["counter"] \in CounterLabels
    /\ open \in Seq(SUBSET Entry)
    /\ node_info \in Entry \cup {START}
    /\ node \in Entry \cup {NIL}
    /\ processed \subseteq Entry

\* shared_buffer.mutex is held in the critical sections and nowhere else.
MutexHeld == \A t \in Thread : step[t] \in Critical <=> mutex = t

\* What the ring holds are entries, as many as count says.
RingFull ==
    /\ write_index = (read_index + count) % BUFFER_SIZE
    /\ \A k \in 1 .. count : InTransit[k] \in Entry
    /\ ThreadAt("scanner", "put") => count < BUFFER_SIZE
    /\ ThreadAt("counter", "get") => count > 0

\* What a thread is about to add, or has taken, is an entry.
HandsFull ==
    /\ step["scanner"] \in Adding => node_info \in Entry
    /\ Took => node \in Entry

\* The end of the scan, and what the counter may conclude from it.
EndInv ==
    /\ finished <=> step["scanner"] \in Over
    /\ step["scanner"] \in Over \cup {"finish"} => open = <<>>
    /\ step["counter"] \in Over => finished /\ count = 0

RingInv == ScanTypeOK /\ MutexHeld /\ RingFull /\ HandsFull /\ EndInv

LEMMA WrapOnce ==
  ASSUME NEW a \in Nat, a < 2 * BUFFER_SIZE
  PROVE  a % BUFFER_SIZE = IF a < BUFFER_SIZE THEN a ELSE a - BUFFER_SIZE
  BY LimitsAssumption

LEMMA InitRingInv == ScanInit => RingInv
<1> SUFFICES ASSUME ScanInit PROVE RingInv
  OBVIOUS
<1>1. ScanTypeOK
  BY TreeAssumption, LimitsAssumption
  DEF ScanInit, ScanTypeOK, Slot, Thread, ScannerLabels, CounterLabels
<1>2. MutexHeld
  BY TreeAssumption DEF ScanInit, MutexHeld, Thread, Critical
<1>3. RingFull
  BY WrapOnce, LimitsAssumption DEF ScanInit, RingFull, ThreadAt, Thread
<1>4. HandsFull /\ EndInv
  BY DEF ScanInit, HandsFull, EndInv, Adding, Over, Took, Thread
<1> QED BY <1>1, <1>2, <1>3, <1>4 DEF RingInv

\* Two threads are never in the critical section.
LEMMA OneInside ==
  ASSUME RingInv, NEW t \in Thread, NEW u \in Thread,
         step[t] \in Critical, step[u] \in Critical
  PROVE  t = u
  BY DEF RingInv, MutexHeld

LEMMA SameRing ==
  ASSUME UNCHANGED buffer
  PROVE  InTransit' = InTransit
  BY DEF buffer, InTransit

LEMMA InTransitSeq ==
  ASSUME count \in Nat, \A k \in 1 .. count : InTransit[k] \in Entry
  PROVE  InTransit \in Seq(Entry) /\ Len(InTransit) = count
<1>1. InTransit = [k \in 1 .. count |-> InTransit[k]]
  BY DEF InTransit
<1>2. InTransit \in [1 .. count -> Entry]
  BY <1>1
<1> QED BY <1>2, SeqDef, LenProperties

\* The k-th place of the ring, before and after.
LEMMA PlaceType ==
  ASSUME ScanTypeOK, NEW k \in 1 .. BUFFER_SIZE
  PROVE  (read_index + k - 1) % BUFFER_SIZE \in Slot
<1>1. read_index + k - 1 \in Nat /\ read_index + k - 1 < 2 * BUFFER_SIZE
  BY LimitsAssumption DEF ScanTypeOK, Slot
<1> QED BY <1>1, WrapOnce, LimitsAssumption DEF Slot

LEMMA PutAppends ==
  ASSUME RingInv, PutNode
  PROVE  /\ InTransit' = Append(InTransit, node_info)
         /\ count < BUFFER_SIZE
         /\ write_index' = (read_index' + count') % BUFFER_SIZE
         /\ write_index' \in Slot
<1>1. count < BUFFER_SIZE /\ count \in Nat /\ read_index \in 0 .. BUFFER_SIZE - 1
  BY LimitsAssumption DEF PutNode, RingInv, RingFull, ScanTypeOK, Slot
<1>2. \A k \in 1 .. count :
         /\ (read_index + k - 1) % BUFFER_SIZE \in Slot
         /\ (read_index + k - 1) % BUFFER_SIZE # write_index
  <2> TAKE k \in 1 .. count
  <2>1. (read_index + k - 1) % BUFFER_SIZE \in Slot
    <3>1. k \in 1 .. BUFFER_SIZE
      BY <1>1, LimitsAssumption
    <3> QED BY <3>1, PlaceType DEF RingInv
  <2>2. write_index = IF read_index + count < BUFFER_SIZE
                      THEN read_index + count ELSE read_index + count - BUFFER_SIZE
    BY <1>1, WrapOnce, LimitsAssumption DEF RingInv, RingFull
  <2>3. (read_index + k - 1) % BUFFER_SIZE =
           IF read_index + k - 1 < BUFFER_SIZE
           THEN read_index + k - 1 ELSE read_index + k - 1 - BUFFER_SIZE
    BY <1>1, WrapOnce, LimitsAssumption
  <2> QED BY <1>1, <2>1, <2>2, <2>3, LimitsAssumption
<1>3. nodes' = [nodes EXCEPT ![write_index] = node_info] /\ count' = count + 1
      /\ read_index' = read_index /\ nodes \in [Slot -> Entry \cup {NIL}]
      /\ write_index \in Slot
  BY DEF PutNode, RingInv, ScanTypeOK
<1>4. (read_index' + count' - 1) % BUFFER_SIZE = write_index
  BY <1>1, <1>3 DEF RingInv, RingFull
<1>5. ASSUME NEW k \in 1 .. count'
      PROVE  InTransit'[k] = IF k = count' THEN node_info ELSE InTransit[k]
  <2>1. InTransit'[k] = nodes'[(read_index + k - 1) % BUFFER_SIZE]
    BY <1>3 DEF InTransit
  <2>2. CASE k = count'
    BY <1>3, <1>4, <2>1, <2>2
  <2>3. CASE k # count'
    <3>1. k \in 1 .. count
      BY <1>1, <1>3, <2>3
    <3>2. InTransit[k] = nodes[(read_index + k - 1) % BUFFER_SIZE]
      BY <3>1 DEF InTransit
    <3> QED BY <1>2, <1>3, <2>1, <2>3, <3>1, <3>2
  <2> QED BY <2>2, <2>3
<1>6. /\ InTransit \in Seq(Entry) /\ Len(InTransit) = count
      /\ node_info \in Entry
  BY <1>1, InTransitSeq DEF PutNode, RingInv, RingFull, HandsFull, ThreadAt, Adding
<1>7. InTransit' = Append(InTransit, node_info)
  <2>1. InTransit' \in Seq(Entry) /\ Len(InTransit') = count + 1
    <3>1. \A k \in 1 .. count' : InTransit'[k] \in Entry
      BY <1>1, <1>3, <1>5, <1>6 DEF RingInv, RingFull
    <3>2. count' \in Nat
      BY <1>1, <1>3
    <3>3. InTransit' = [k \in 1 .. count' |-> InTransit'[k]]
      BY DEF InTransit
    <3>4. InTransit' \in [1 .. count' -> Entry]
      BY <3>1, <3>3
    <3> QED BY <1>3, <3>2, <3>4, SeqDef, LenProperties
  <2>2. /\ Append(InTransit, node_info) \in Seq(Entry)
        /\ Len(Append(InTransit, node_info)) = count + 1
        /\ \A k \in 1 .. count : Append(InTransit, node_info)[k] = InTransit[k]
        /\ Append(InTransit, node_info)[count + 1] = node_info
    BY <1>6, AppendProperties
  <2>3. \A k \in 1 .. count + 1 : InTransit'[k] = Append(InTransit, node_info)[k]
    BY <1>1, <1>3, <1>5, <2>2
  <2> QED BY <2>1, <2>2, <2>3, SeqEqual
<1>8. write_index' = (write_index + 1) % BUFFER_SIZE
  BY DEF PutNode
<1>9. write_index' = (read_index' + count') % BUFFER_SIZE /\ write_index' \in Slot
  <2>1. write_index = IF read_index + count < BUFFER_SIZE
                      THEN read_index + count ELSE read_index + count - BUFFER_SIZE
    BY <1>1, WrapOnce, LimitsAssumption DEF RingInv, RingFull
  <2>2. write_index' = IF write_index + 1 < BUFFER_SIZE THEN write_index + 1
                       ELSE write_index + 1 - BUFFER_SIZE
    <3>1. write_index \in Nat /\ write_index + 1 < 2 * BUFFER_SIZE
      BY <1>3, LimitsAssumption DEF Slot
    <3>2. (write_index + 1) % BUFFER_SIZE =
             IF write_index + 1 < BUFFER_SIZE THEN write_index + 1
             ELSE write_index + 1 - BUFFER_SIZE
      BY <3>1, WrapOnce, LimitsAssumption
    <3> QED BY <1>8, <3>2
  <2>3. (read_index + (count + 1)) % BUFFER_SIZE =
           IF read_index + (count + 1) < BUFFER_SIZE THEN read_index + (count + 1)
           ELSE read_index + (count + 1) - BUFFER_SIZE
    BY <1>1, WrapOnce, LimitsAssumption
  <2> QED BY <1>1, <1>3, <2>1, <2>2, <2>3, LimitsAssumption DEF Slot
<1> QED BY <1>1, <1>7, <1>9

LEMMA GetTakesHead ==
  ASSUME RingInv, GetNode
  PROVE  /\ InTransit # <<>>
         /\ node' = Head(InTransit) /\ node' \in Entry
         /\ InTransit' = Tail(InTransit)
         /\ count \in 1 .. BUFFER_SIZE
         /\ write_index' = (read_index' + count') % BUFFER_SIZE
         /\ read_index' \in Slot
<1>1. /\ count \in 1 .. BUFFER_SIZE /\ count' = count - 1
      /\ read_index \in 0 .. BUFFER_SIZE - 1 /\ node' = nodes[read_index]
      /\ read_index' = (read_index + 1) % BUFFER_SIZE
      /\ nodes' = nodes /\ write_index' = write_index
  BY LimitsAssumption DEF GetNode, RingInv, RingFull, ScanTypeOK, Slot
<1>2. read_index' = IF read_index + 1 < BUFFER_SIZE THEN read_index + 1 ELSE 0
  BY <1>1, WrapOnce, LimitsAssumption
<1>3. read_index % BUFFER_SIZE = read_index
  BY <1>1, WrapOnce, LimitsAssumption
<1>4. InTransit \in Seq(Entry) /\ Len(InTransit) = count
  BY <1>1, InTransitSeq DEF RingInv, RingFull
<1>5. Head(InTransit) = InTransit[1] /\ InTransit # <<>>
  BY <1>1, <1>4
<1>6. InTransit[1] = nodes[read_index]
  BY <1>1, <1>3 DEF InTransit
<1>7. InTransit[1] \in Entry
  BY <1>1 DEF RingInv, RingFull
<1>8. \A k \in 1 .. count - 1 :
         (read_index' + k - 1) % BUFFER_SIZE = (read_index + (k + 1) - 1) % BUFFER_SIZE
  <2> TAKE k \in 1 .. count - 1
  <2>1. (read_index + (k + 1) - 1) % BUFFER_SIZE =
           IF read_index + (k + 1) - 1 < BUFFER_SIZE THEN read_index + (k + 1) - 1
           ELSE read_index + (k + 1) - 1 - BUFFER_SIZE
    BY <1>1, WrapOnce, LimitsAssumption
  <2>2. (read_index' + k - 1) % BUFFER_SIZE =
           IF read_index' + k - 1 < BUFFER_SIZE THEN read_index' + k - 1
           ELSE read_index' + k - 1 - BUFFER_SIZE
    BY <1>1, <1>2, WrapOnce, LimitsAssumption
  <2> QED BY <1>1, <1>2, <2>1, <2>2, LimitsAssumption
<1>9. InTransit' = [k \in 1 .. count - 1 |-> InTransit[k + 1]]
  <2>1. InTransit' = [k \in 1 .. count' |-> nodes'[(read_index' + k - 1) % BUFFER_SIZE]]
    BY DEF InTransit
  <2>2. \A k \in 1 .. count - 1 :
           InTransit[k + 1] = nodes[(read_index + (k + 1) - 1) % BUFFER_SIZE]
    BY <1>1 DEF InTransit
  <2> QED BY <1>1, <1>8, <2>1, <2>2
<1>10. InTransit' = Tail(InTransit)
  <2>1. Tail(InTransit) \in Seq(Entry) /\ Len(Tail(InTransit)) = count - 1
        /\ \A k \in 1 .. count - 1 : Tail(InTransit)[k] = InTransit[k + 1]
    BY <1>4, <1>5, HeadTailProperties
  <2>2. \A k \in 1 .. count - 1 : InTransit[k + 1] \in Entry
    BY <1>1 DEF RingInv, RingFull
  <2>3. count - 1 \in Nat /\ InTransit' \in [1 .. count - 1 -> Entry]
    BY <1>1, <1>9, <2>2
  <2>4. InTransit' \in Seq(Entry) /\ Len(InTransit') = count - 1
    BY <2>3, SeqDef, LenProperties
  <2> QED BY <1>9, <2>1, <2>4, SeqEqual
<1>11. write_index' = (read_index' + count') % BUFFER_SIZE
  <2>1. write_index = IF read_index + count < BUFFER_SIZE
                      THEN read_index + count ELSE read_index + count - BUFFER_SIZE
    BY <1>1, WrapOnce, LimitsAssumption DEF RingInv, RingFull
  <2>2. (read_index' + (count - 1)) % BUFFER_SIZE =
           IF read_index' + (count - 1) < BUFFER_SIZE THEN read_index' + (count - 1)
           ELSE read_index' + (count - 1) - BUFFER_SIZE
    BY <1>1, <1>2, WrapOnce, LimitsAssumption
  <2> QED BY <1>1, <1>2, <2>1, <2>2, LimitsAssumption
<1> QED BY <1>1, <1>2, <1>5, <1>6, <1>7, <1>10, <1>11, LimitsAssumption DEF Slot

LEMMA NextRingInv ==
  ASSUME RingInv, [ScanNext]_scanVars
  PROVE  RingInv'
<1> USE DEF RingInv
<1>1. ASSUME UNCHANGED scanVars PROVE RingInv'
  <2>1. InTransit' = InTransit
    BY <1>1, SameRing DEF scanVars
  <2> QED BY <1>1, <2>1
          DEF scanVars, buffer, walk, tally, ScanTypeOK, MutexHeld, RingFull,
              HandsFull, EndInv, ThreadAt, Took
<1> DEFINE Remaining == UNCHANGED <<buffer, walk, tally>>
<1>2. ASSUME NEW t \in Thread, Lock(t) PROVE RingInv'
  <2>1. InTransit' = InTransit
    BY <1>2, SameRing DEF Lock
  <2>2. ScanTypeOK' /\ MutexHeld'
    BY <1>2, TreeAssumption
    DEF Lock, buffer, walk, tally, ScanTypeOK, MutexHeld, ThreadAt, ThreadGoto,
        Thread, ScannerLabels, CounterLabels, Critical
  <2>3. RingFull' /\ HandsFull' /\ EndInv'
    BY <1>2, <2>1
    DEF Lock, buffer, walk, tally, ScanTypeOK, RingFull, HandsFull, EndInv, ThreadAt,
        ThreadGoto, Took, Thread, Adding, Over
  <2> QED BY <2>2, <2>3
<1>3. ASSUME NEW t \in Thread, cond_wait(t) PROVE RingInv'
  <2>1. InTransit' = InTransit
    BY <1>3, SameRing DEF cond_wait
  <2>2. ScanTypeOK' /\ MutexHeld'
    BY <1>3, TreeAssumption
    DEF cond_wait, buffer, walk, tally, ScanTypeOK, MutexHeld, ThreadAt, ThreadGoto,
        Thread, ScannerLabels, CounterLabels, Critical
  <2>3. RingFull' /\ HandsFull' /\ EndInv'
    BY <1>3, <2>1
    DEF cond_wait, buffer, walk, tally, ScanTypeOK, RingFull, HandsFull, EndInv,
        ThreadAt, ThreadGoto, Took, Thread, Adding, Over
  <2> QED BY <2>2, <2>3
<1>4. ASSUME NEW t \in Thread, Wake(t) PROVE RingInv'
  <2>1. InTransit' = InTransit
    BY <1>4, SameRing DEF Wake
  <2>2. ScanTypeOK' /\ MutexHeld'
    BY <1>4, TreeAssumption
    DEF Wake, buffer, walk, tally, ScanTypeOK, MutexHeld, ThreadAt, ThreadGoto,
        Thread, ScannerLabels, CounterLabels, Critical
  <2>3. RingFull' /\ HandsFull' /\ EndInv'
    BY <1>4, <2>1
    DEF Wake, buffer, walk, tally, ScanTypeOK, RingFull, HandsFull, EndInv, ThreadAt,
        ThreadGoto, Took, Thread, Adding, Over
  <2> QED BY <2>2, <2>3
<1>5. ASSUME NEW t \in Thread, Spurious(t) PROVE RingInv'
  <2>1. InTransit' = InTransit
    BY <1>5, SameRing DEF Spurious
  <2> QED BY <1>5, <2>1
          DEF Spurious, buffer, walk, tally, ScanTypeOK, MutexHeld, RingFull,
              HandsFull, EndInv, ThreadAt, Took
<1>6. ASSUME NEW t \in Thread, UnlockAndEnd(t) PROVE RingInv'
  <2>1. InTransit' = InTransit
    BY <1>6, SameRing DEF UnlockAndEnd
  <2>2. ScanTypeOK' /\ MutexHeld'
    BY <1>6, TreeAssumption
    DEF UnlockAndEnd, buffer, walk, tally, ScanTypeOK, MutexHeld, ThreadAt,
        ThreadGoto, Thread, ScannerLabels, CounterLabels, Critical
  <2>3. RingFull' /\ HandsFull' /\ EndInv'
    BY <1>6, <2>1
    DEF UnlockAndEnd, buffer, walk, tally, ScanTypeOK, RingFull, HandsFull, EndInv,
        ThreadAt, ThreadGoto, Took, Thread, Adding, Over
  <2> QED BY <2>2, <2>3
<1>7. ASSUME opendir PROVE RingInv'
  <2>1. InTransit' = InTransit
    BY <1>7, SameRing DEF opendir
  <2>2. open' \in Seq(SUBSET Entry)
    <3>1. ChildrenOf(node_info) \in SUBSET Entry
      BY DEF ChildrenOf
    <3> QED BY <1>7, <3>1, AppendProperties DEF opendir, ScanTypeOK
  <2>3. ScanTypeOK' /\ MutexHeld'
    BY <1>7, <2>2
    DEF opendir, buffer, tally, ScanTypeOK, MutexHeld, ThreadAt, ThreadGoto,
        Thread, ScannerLabels, CounterLabels, Critical
  <2>4. RingFull' /\ HandsFull' /\ EndInv'
    BY <1>7, <2>1
    DEF opendir, buffer, tally, ScanTypeOK, RingFull, HandsFull, EndInv, ThreadAt,
        ThreadGoto, Took, Thread, Adding, Over
  <2> QED BY <2>3, <2>4
<1>8. ASSUME readdir PROVE RingInv'
  <2>1. InTransit' = InTransit
    BY <1>8, SameRing DEF readdir
  <2>2. Len(open) \in Nat \ {0} /\ open[Len(open)] \in SUBSET Entry
    BY <1>8 DEF readdir, ScanTypeOK
  <2>3. PICK e \in Top : /\ open' = [open EXCEPT ![Len(open)] = @ \ {e}]
                         /\ \/ UNCHANGED <<step, node_info>>
                            \/ node_info' = e /\ ThreadGoto("scanner", "lock")
    BY <1>8, Zenon DEF readdir
  <2>4. open' \in Seq(SUBSET Entry) /\ e \in Entry
    BY <2>2, <2>3, ExceptSeq DEF Top, ScanTypeOK
  <2>5. UNCHANGED <<buffer, finished, mutex, asleep, tally>> /\ ThreadAt("scanner", "readdir")
    BY <1>8 DEF readdir
  <2>6. ScanTypeOK' /\ MutexHeld'
    BY <2>3, <2>4, <2>5
    DEF buffer, tally, ScanTypeOK, MutexHeld, ThreadAt, ThreadGoto,
        Thread, ScannerLabels, CounterLabels, Critical
  <2>7. RingFull' /\ HandsFull' /\ EndInv'
    BY <2>1, <2>3, <2>4, <2>5
    DEF buffer, tally, ScanTypeOK, RingFull, HandsFull, EndInv, ThreadAt,
        ThreadGoto, Took, Thread, Adding, Over
  <2> QED BY <2>6, <2>7
<1>9. ASSUME closedir PROVE RingInv'
  <2>1. InTransit' = InTransit
    BY <1>9, SameRing DEF closedir
  <2>2. open' \in Seq(SUBSET Entry)
    <3>1. Len(open) \in Nat \ {0}
      BY <1>9 DEF closedir, ScanTypeOK
    <3> QED BY <1>9, <3>1, SubSeqProperties DEF closedir, ScanTypeOK
  <2> QED BY <1>9, <2>1, <2>2
          DEF closedir, buffer, tally, ScanTypeOK, MutexHeld, RingFull, HandsFull,
              EndInv, ThreadAt, Took, Over
<1>10. ASSUME TestFull PROVE RingInv'
  <2>1. InTransit' = InTransit
    BY <1>10, SameRing DEF TestFull
  <2>2. ScanTypeOK' /\ MutexHeld'
    BY <1>10
    DEF TestFull, buffer, walk, tally, ScanTypeOK, MutexHeld, ThreadAt, ThreadGoto,
        Thread, ScannerLabels, CounterLabels, Critical
  <2>3. RingFull' /\ HandsFull' /\ EndInv'
    BY <1>10, <2>1, LimitsAssumption
    DEF TestFull, buffer, walk, tally, ScanTypeOK, RingFull, HandsFull, EndInv,
        ThreadAt, ThreadGoto, Took, Thread, Adding, Over
  <2> QED BY <2>2, <2>3
<1>11. ASSUME PutNode PROVE RingInv'
  <2>1. /\ InTransit' = Append(InTransit, node_info) /\ node_info \in Entry
        /\ count < BUFFER_SIZE
        /\ write_index' = (read_index' + count') % BUFFER_SIZE
        /\ write_index' \in Slot
    BY <1>11, PutAppends DEF PutNode, HandsFull, ThreadAt, Adding
  <2>2. \A k \in 1 .. count' : InTransit'[k] \in Entry
    <3>1. count \in Nat /\ count' = count + 1
      BY <1>11, LimitsAssumption DEF PutNode, ScanTypeOK
    <3>2. InTransit \in Seq(Entry) /\ Len(InTransit) = count
      BY <3>1, InTransitSeq DEF RingFull
    <3> QED BY <2>1, <3>1, <3>2, AppendProperties
  <2>3. ~ThreadAt("counter", "get")
    BY <1>11, OneInside DEF PutNode, ThreadAt, Critical, Thread
  <2>4. ScanTypeOK' /\ MutexHeld'
    BY <1>11, <2>1, LimitsAssumption
    DEF PutNode, walk, tally, ScanTypeOK, MutexHeld, ThreadAt, ThreadGoto,
        Thread, ScannerLabels, CounterLabels, Critical, Slot
  <2>5. RingFull'
    BY <1>11, <2>1, <2>2, <2>3
    DEF PutNode, ScanTypeOK, RingFull, ThreadAt, ThreadGoto, Thread
  <2>6. HandsFull' /\ EndInv'
    BY <1>11, <2>1
    DEF PutNode, walk, tally, ScanTypeOK, HandsFull, EndInv, ThreadAt,
        ThreadGoto, Took, Thread, Adding, Over
  <2> QED BY <2>4, <2>5, <2>6
<1>12. ASSUME NodeAdded PROVE RingInv'
  <2>1. InTransit' = InTransit
    BY <1>12, SameRing DEF NodeAdded, Unlock
  <2>2. ScanTypeOK' /\ MutexHeld'
    BY <1>12, TreeAssumption
    DEF NodeAdded, Unlock, buffer, walk, tally, ScanTypeOK, MutexHeld, ThreadAt,
        ThreadGoto, Thread, ScannerLabels, CounterLabels, Critical
  <2>3. RingFull' /\ HandsFull' /\ EndInv'
    BY <1>12, <2>1
    DEF NodeAdded, Unlock, buffer, walk, tally, ScanTypeOK, RingFull, HandsFull,
        EndInv, ThreadAt, ThreadGoto, Took, Thread, Adding, Over
  <2> QED BY <2>2, <2>3
<1>13. ASSUME LockToFinish PROVE RingInv'
  <2>1. InTransit' = InTransit
    BY <1>13, SameRing DEF LockToFinish
  <2>2. ScanTypeOK' /\ MutexHeld'
    BY <1>13, TreeAssumption
    DEF LockToFinish, buffer, walk, tally, ScanTypeOK, MutexHeld, ThreadAt,
        ThreadGoto, Thread, ScannerLabels, CounterLabels, Critical
  <2>3. RingFull' /\ HandsFull' /\ EndInv'
    BY <1>13, <2>1
    DEF LockToFinish, buffer, walk, tally, ScanTypeOK, RingFull, HandsFull,
        EndInv, ThreadAt, ThreadGoto, Took, Thread, Adding, Over
  <2> QED BY <2>2, <2>3
<1>14. ASSUME signal_scan_finished PROVE RingInv'
  <2>1. InTransit' = InTransit
    BY <1>14, SameRing DEF signal_scan_finished
  <2>2. ScanTypeOK' /\ MutexHeld'
    BY <1>14, TreeAssumption
    DEF signal_scan_finished, buffer, walk, tally, ScanTypeOK, MutexHeld, ThreadAt,
        ThreadGoto, Thread, ScannerLabels, CounterLabels, Critical
  <2>3. RingFull' /\ HandsFull' /\ EndInv'
    BY <1>14, <2>1
    DEF signal_scan_finished, buffer, walk, tally, ScanTypeOK, RingFull, HandsFull,
        EndInv, ThreadAt, ThreadGoto, Took, Thread, Adding, Over
  <2> QED BY <2>2, <2>3
<1>15. ASSUME TestEmpty PROVE RingInv'
  <2>1. InTransit' = InTransit
    BY <1>15, SameRing DEF TestEmpty
  <2>2. ScanTypeOK' /\ MutexHeld'
    BY <1>15
    DEF TestEmpty, buffer, walk, tally, ScanTypeOK, MutexHeld, ThreadAt, ThreadGoto,
        Thread, ScannerLabels, CounterLabels, Critical
  <2>3. RingFull' /\ HandsFull' /\ EndInv'
    BY <1>15, <2>1, LimitsAssumption
    DEF TestEmpty, buffer, walk, tally, ScanTypeOK, RingFull, HandsFull, EndInv,
        ThreadAt, ThreadGoto, Took, Thread, Adding, Over
  <2> QED BY <2>2, <2>3
<1>16. ASSUME GetNode PROVE RingInv'
  <2>1. /\ InTransit' = Tail(InTransit) /\ node' \in Entry
        /\ count \in 1 .. BUFFER_SIZE /\ count' = count - 1
        /\ write_index' = (read_index' + count') % BUFFER_SIZE
        /\ read_index' \in Slot
    BY <1>16, GetTakesHead DEF GetNode
  <2>2. \A k \in 1 .. count' : InTransit'[k] \in Entry
    <3>1. count \in Nat
      BY <2>1, LimitsAssumption
    <3>2. InTransit \in Seq(Entry) /\ Len(InTransit) = count
      BY <3>1, InTransitSeq DEF RingFull
    <3>3. Tail(InTransit) \in Seq(Entry) /\ Len(Tail(InTransit)) = count - 1
      BY <2>1, <3>1, <3>2, HeadTailProperties
    <3> QED BY <2>1, <3>3
  <2>3. ~ThreadAt("scanner", "put")
    BY <1>16, OneInside DEF GetNode, ThreadAt, Critical, Thread
  <2>4. ScanTypeOK'
    BY <1>16, <2>1, LimitsAssumption
    DEF GetNode, walk, ScanTypeOK, ThreadGoto, Thread, ScannerLabels, CounterLabels
  <2>7. MutexHeld'
    BY <1>16
    DEF GetNode, ScanTypeOK, MutexHeld, ThreadAt, ThreadGoto, Thread, Critical
  <2>5. RingFull'
    BY <1>16, <2>1, <2>2, <2>3
    DEF GetNode, ScanTypeOK, RingFull, ThreadAt, ThreadGoto, Thread
  <2>6. HandsFull' /\ EndInv'
    BY <1>16, <2>1
    DEF GetNode, walk, ScanTypeOK, HandsFull, EndInv, ThreadAt,
        ThreadGoto, Took, Thread, Adding, Over
  <2> QED BY <2>4, <2>5, <2>6, <2>7
<1>17. ASSUME NodeTaken PROVE RingInv'
  <2>1. InTransit' = InTransit
    BY <1>17, SameRing DEF NodeTaken, Unlock
  <2>2. ScanTypeOK' /\ MutexHeld'
    BY <1>17, TreeAssumption
    DEF NodeTaken, Unlock, buffer, walk, tally, ScanTypeOK, MutexHeld, ThreadAt,
        ThreadGoto, Thread, ScannerLabels, CounterLabels, Critical
  <2>3. RingFull' /\ HandsFull' /\ EndInv'
    BY <1>17, <2>1
    DEF NodeTaken, Unlock, buffer, walk, tally, ScanTypeOK, RingFull, HandsFull,
        EndInv, ThreadAt, ThreadGoto, Took, Thread, Adding, Over
  <2> QED BY <2>2, <2>3
<1>18. ASSUME is_inode_visited PROVE RingInv'
  <2>1. InTransit' = InTransit
    BY <1>18, SameRing DEF is_inode_visited
  <2>2. node \in Entry /\ processed' = processed \cup {node} /\ node' = node
    BY <1>18 DEF is_inode_visited, HandsFull, Took, ThreadAt
  <2>3. ScanTypeOK' /\ MutexHeld'
    BY <1>18, <2>2
    DEF is_inode_visited, buffer, walk, ScanTypeOK, MutexHeld, ThreadAt,
        ThreadGoto, Thread, ScannerLabels, CounterLabels, Critical
  <2>4. RingFull' /\ HandsFull' /\ EndInv'
    BY <1>18, <2>1
    DEF is_inode_visited, buffer, walk, ScanTypeOK, RingFull, HandsFull,
        EndInv, ThreadAt, ThreadGoto, Took, Thread, Adding, Over
  <2> QED BY <2>3, <2>4
<1> QED BY <1>1, <1>2, <1>3, <1>4, <1>5, <1>6, <1>7, <1>8, <1>9, <1>10, <1>11,
           <1>12, <1>13, <1>14, <1>15, <1>16, <1>17, <1>18
        DEF ScanNext, Scanner, Counter, Thread

\* SharedBuffer is never touched by two threads, and the slots from read_index on
\* hold count entries, never more than there are slots, whatever the wake-ups.
THEOREM RingKept == ScanSpec => []RingInv
<1>1. ScanInit => RingInv
  BY InitRingInv
<1>2. RingInv /\ [ScanNext]_scanVars => RingInv'
  BY NextRingInv
<1> QED BY <1>1, <1>2, PTL DEF ScanSpec

-------------------------------------------------------------------------------
(* The total.                                                              *)

\* One device: an inode number is that of one file.
UniqueInodes ==
    \A d, e \in Entry : Inode[FileOf[d]] = Inode[FileOf[e]] => FileOf[d] = FileOf[e]

Met == {Inode[f] : f \in Counted}

\* While the table of is_inode_visited has room for all it met it has met them all.
TallyInv ==
    /\ IsFiniteSet(Counted) /\ IsFiniteSet(Met) /\ IsFiniteSet(inodes)
    /\ Cardinality(Met) <= MAX_INODES =>
          inodes = Met /\ total_bytes = SizeOf(Counted)

LEMMA InitTallyInv == ScanInit => TallyInv
<1> SUFFICES ASSUME ScanInit PROVE TallyInv
  OBVIOUS
<1>1. Counted = {} /\ Met = {} /\ inodes = {} /\ total_bytes = 0
  BY DEF ScanInit, Counted, Met
<1> QED BY <1>1, SizeOfEmpty, FS_EmptySet DEF TallyInv

LEMMA CountKeepsTally ==
  ASSUME UniqueInodes, RingInv, TallyInv, is_inode_visited
  PROVE  TallyInv'
<1> DEFINE f == FileOf[node]
           i == Inode[f]
<1>1. node \in Entry /\ processed \subseteq Entry
  BY DEF is_inode_visited, RingInv, ScanTypeOK, HandsFull, Took, ThreadAt
<1>2. Counted' = Counted \cup {f} /\ Met' = Met \cup {i}
  <2>1. processed' = processed \cup {node}
    BY DEF is_inode_visited
  <2>2. Counted' = Counted \cup {f}
    BY <2>1 DEF Counted
  <2> QED BY <2>2 DEF Met
<1>3. /\ total_bytes' = IF i \in inodes THEN total_bytes ELSE total_bytes + Bytes[f]
      /\ inodes' = IF Cardinality(inodes) < MAX_INODES THEN inodes \cup {i} ELSE inodes
  BY DEF is_inode_visited
<1>4. i \in Met <=> f \in Counted
  BY <1>1 DEF Met, Counted, UniqueInodes
<1>5. \A x \in Counted \cup {f} : Bytes[x] \in Nat
  BY <1>1, SizeAssumption DEF Counted
<1> HIDE DEF f, i
<1>6. IsFiniteSet(Counted') /\ IsFiniteSet(Met') /\ IsFiniteSet(inodes')
  BY <1>2, <1>3, FS_AddElement DEF TallyInv
<1>7. ASSUME Cardinality(Met') <= MAX_INODES
      PROVE  inodes' = Met' /\ total_bytes' = SizeOf(Counted')
  <2>1. /\ Cardinality(Met) \in Nat
        /\ Cardinality(Met') = IF i \in Met THEN Cardinality(Met)
                              ELSE Cardinality(Met) + 1
    BY <1>2, FS_AddElement, FS_CardinalityType DEF TallyInv
  <2>2. inodes = Met /\ total_bytes = SizeOf(Counted)
    BY <1>7, <2>1, LimitsAssumption DEF TallyInv
  <2>3. CASE i \in Met
    <3>1. Counted' = Counted /\ Met' = Met
      BY <1>2, <1>4, <2>3
    <3> QED BY <1>3, <2>2, <2>3, <3>1
  <2>4. CASE i \notin Met
    <3>1. Cardinality(inodes) < MAX_INODES
      BY <1>7, <2>1, <2>2, <2>4, LimitsAssumption
    <3>2. SizeOf(Counted') = SizeOf(Counted) + Bytes[f]
      BY <1>2, <1>4, <1>5, <2>4, SizeOfMore DEF TallyInv
    <3> QED BY <1>2, <1>3, <2>2, <2>4, <3>1, <3>2
  <2> QED BY <2>3, <2>4
<1> QED BY <1>6, <1>7 DEF TallyInv

LEMMA NextTallyInv ==
  ASSUME UniqueInodes, RingInv, TallyInv, [ScanNext]_scanVars
  PROVE  TallyInv'
<1>1. CASE is_inode_visited
  BY <1>1, CountKeepsTally
<1>2. CASE UNCHANGED <<inodes, total_bytes, processed>>
  BY <1>2 DEF TallyInv, Met, Counted
<1>3. is_inode_visited \/ UNCHANGED <<inodes, total_bytes, processed>>
  BY DEF ScanNext, Scanner, Counter, Lock, cond_wait, Wake, Spurious, UnlockAndEnd,
         opendir, readdir, closedir, TestFull, PutNode, NodeAdded, Unlock,
         LockToFinish, signal_scan_finished, TestEmpty, GetNode, NodeTaken,
         scanVars, tally
<1> QED BY <1>1, <1>2, <1>3

\* The total the program prints: whatever the tree and the order of the entries,
\* each file counts once, as long as the table of is_inode_visited holds every
\* inode met and inode numbers are those of one device.
THEOREM FilesCountOnce ==
  ASSUME UniqueInodes
  PROVE  ScanSpec => []TotalExact
<1>1. ScanInit => TallyInv
  BY InitTallyInv
<1>2. RingInv /\ TallyInv /\ [ScanNext]_scanVars => TallyInv'
  BY NextTallyInv
<1>3. TallyInv => TotalExact
  BY DEF TallyInv, TotalExact, Met
<1> QED BY <1>1, <1>2, <1>3, RingKept, PTL DEF ScanSpec

-------------------------------------------------------------------------------
(* The walk.                                                               *)

\* What the scanner has put in the ring, wherever it is by now.
Queued == {InTransit[k] : k \in 1 .. count}
Sent == processed \cup Queued \cup (IF Took THEN {node} ELSE {})

\* What it is about to put, what it has still to read, what it has not entered.
InHand == IF step["scanner"] \in Adding \ {"unlock"} THEN {node_info} ELSE {}
UnionOf(s) == UNION {s[i] : i \in 1 .. Len(s)}
Known == Sent \cup InHand \cup UnionOf(open)
Unopened == IF step["scanner"] \in Adding \cup {"opendir"} THEN {node_info} ELSE {}

Disjoint(s) == \A i, j \in 1 .. Len(s) : i # j => s[i] \cap s[j] = {}

\* No entry is in the ring twice, nor again after it was counted.
SentOnce ==
    /\ \A j, k \in 1 .. count : InTransit[j] = InTransit[k] => j = k
    /\ Queued \cap processed = {}
    /\ Took => node \notin processed /\ node \notin Queued

\* What readdir has still to give has not been added, and is in one directory.
ReadOnce ==
    /\ InHand \cap Sent = {}
    /\ UnionOf(open) \cap (Sent \cup InHand) = {}
    /\ Disjoint(open)

\* What is known of the tree hangs from what was added before it.
FromAbove ==
    /\ step["scanner"] = "unlock" => node_info \in Sent
    /\ step["scanner"] = "opendir" => node_info \in Sent \cup {START}
    /\ \A e \in Known : Parent[e] \notin Unopened /\ Parent[e] \in Sent \cup {START}

WalkInv == SentOnce /\ ReadOnce /\ FromAbove

LEMMA UnionAppend ==
  ASSUME NEW s \in Seq(SUBSET Entry), NEW A \in SUBSET Entry
  PROVE  UnionOf(Append(s, A)) = UnionOf(s) \cup A
<1>1. /\ Len(Append(s, A)) = Len(s) + 1 /\ Len(s) \in Nat
      /\ \A i \in 1 .. Len(s) : Append(s, A)[i] = s[i]
      /\ Append(s, A)[Len(s) + 1] = A
  BY AppendProperties
<1> DEFINE t == Append(s, A)
<1> HIDE DEF t
<1>2. ASSUME NEW e \in UnionOf(t) PROVE e \in UnionOf(s) \cup A
  <2>1. PICK i \in 1 .. Len(t) : e \in t[i]
    BY <1>2 DEF UnionOf
  <2>2. i \in 1 .. Len(s) \/ i = Len(s) + 1
    BY <1>1 DEF t
  <2> QED BY <1>1, <2>1, <2>2 DEF UnionOf, t
<1>3. ASSUME NEW e \in UnionOf(s) \cup A PROVE e \in UnionOf(t)
  <2>1. CASE e \in A
    <3>1. Len(s) + 1 \in 1 .. Len(t) /\ e \in t[Len(s) + 1]
      BY <1>1, <2>1 DEF t
    <3> QED BY <3>1 DEF UnionOf
  <2>2. CASE e \in UnionOf(s)
    <3>1. PICK i \in 1 .. Len(s) : e \in s[i]
      BY <2>2 DEF UnionOf
    <3>2. i \in 1 .. Len(t) /\ e \in t[i]
      BY <1>1, <3>1 DEF t
    <3> QED BY <3>2 DEF UnionOf
  <2> QED BY <1>3, <2>1, <2>2
<1> QED BY <1>2, <1>3 DEF t

LEMMA DisjointAppend ==
  ASSUME NEW s \in Seq(SUBSET Entry), NEW A \in SUBSET Entry,
         Disjoint(s), A \cap UnionOf(s) = {}
  PROVE  Disjoint(Append(s, A))
<1>1. /\ Len(Append(s, A)) = Len(s) + 1 /\ Len(s) \in Nat
      /\ \A i \in 1 .. Len(s) : Append(s, A)[i] = s[i]
      /\ Append(s, A)[Len(s) + 1] = A
  BY AppendProperties
<1>2. \A i \in 1 .. Len(s) : s[i] \cap A = {}
  BY DEF UnionOf
<1> QED BY <1>1, <1>2 DEF Disjoint

LEMMA UnionExcept ==
  ASSUME NEW s \in Seq(SUBSET Entry), Disjoint(s), NEW i \in 1 .. Len(s), NEW e \in s[i]
  PROVE  /\ UnionOf([s EXCEPT ![i] = @ \ {e}]) = UnionOf(s) \ {e}
         /\ Disjoint([s EXCEPT ![i] = @ \ {e}])
<1> DEFINE t == [s EXCEPT ![i] = @ \ {e}]
<1>1. /\ Len(t) = Len(s)
      /\ \A j \in 1 .. Len(s) : t[j] = IF j = i THEN s[i] \ {e} ELSE s[j]
  BY ExceptSeq
<1> HIDE DEF t
<1>2. \A j \in 1 .. Len(s) : t[j] = s[j] \ {e}
  BY <1>1 DEF Disjoint
<1>3. UnionOf(t) = UnionOf(s) \ {e}
  BY <1>1, <1>2 DEF UnionOf
<1>4. Disjoint(t)
  BY <1>1, <1>2 DEF Disjoint
<1> QED BY <1>3, <1>4 DEF t

LEMMA UnionShorter ==
  ASSUME NEW s \in Seq(SUBSET Entry), s # <<>>, s[Len(s)] = {}
  PROVE  /\ UnionOf(SubSeq(s, 1, Len(s) - 1)) = UnionOf(s)
         /\ Disjoint(s) => Disjoint(SubSeq(s, 1, Len(s) - 1))
<1> DEFINE t == SubSeq(s, 1, Len(s) - 1)
<1>1. /\ Len(s) \in Nat \ {0} /\ Len(t) = Len(s) - 1
      /\ \A i \in 1 .. Len(t) : t[i] = s[i]
  <2>1. Len(s) \in Nat \ {0}
    OBVIOUS
  <2>2. /\ Len(t) = IF 1 <= Len(s) - 1 THEN (Len(s) - 1) - 1 + 1 ELSE 0
        /\ \A i \in 1 .. (Len(s) - 1) - 1 + 1 : t[i] = s[1 + i - 1]
    BY <2>1, SubSeqProperties
  <2> HIDE DEF t
  <2>3. Len(t) = Len(s) - 1
    <3>1. \A n \in Nat \ {0} : (IF 1 <= n - 1 THEN (n - 1) - 1 + 1 ELSE 0) = n - 1
      OBVIOUS
    <3> QED BY <2>1, <2>2, <3>1
  <2>4. ASSUME NEW i \in 1 .. Len(t) PROVE t[i] = s[i]
    <3>1. i \in 1 .. (Len(s) - 1) - 1 + 1 /\ 1 + i - 1 = i
      BY <2>1, <2>3
    <3> QED BY <2>2, <3>1
  <2> QED BY <2>1, <2>3, <2>4
<1> HIDE DEF t
<1>2. ASSUME NEW e \in UnionOf(s) PROVE e \in UnionOf(t)
  <2>1. PICK i \in 1 .. Len(s) : e \in s[i]
    BY <1>2 DEF UnionOf
  <2>2. i \in 1 .. Len(t)
    BY <1>1, <2>1
  <2> QED BY <1>1, <2>1, <2>2 DEF UnionOf
<1>3. ASSUME NEW e \in UnionOf(t) PROVE e \in UnionOf(s)
  <2>1. PICK i \in 1 .. Len(t) : e \in t[i]
    BY <1>3 DEF UnionOf
  <2>2. i \in 1 .. Len(s)
    BY <1>1
  <2> QED BY <1>1, <2>1, <2>2 DEF UnionOf
<1>4. Disjoint(s) => Disjoint(t)
  BY <1>1 DEF Disjoint
<1> QED BY <1>2, <1>3, <1>4 DEF t

LEMMA InitWalkInv == ScanInit => WalkInv
<1> SUFFICES ASSUME ScanInit PROVE WalkInv
  OBVIOUS
<1>1. /\ Queued = {} /\ ~Took /\ Sent = {} /\ InHand = {}
      /\ Len(open) = 0 /\ UnionOf(open) = {}
  BY DEF ScanInit, Queued, Took, Sent, InHand, UnionOf, Thread, Adding
<1> QED BY <1>1 DEF ScanInit, WalkInv, SentOnce, ReadOnce, FromAbove, Known, Disjoint,
                    Thread, Unopened, Adding

LEMMA SameSent ==
  ASSUME UNCHANGED <<buffer, node, processed>>, Took' = Took
  PROVE  Sent' = Sent /\ (SentOnce => SentOnce')
<1>1. InTransit' = InTransit /\ count' = count
  BY SameRing DEF buffer
<1>2. Queued' = Queued
  BY <1>1 DEF Queued
<1>3. Sent' = Sent
  BY <1>2, Zenon DEF Sent
<1>4. SentOnce => SentOnce'
  BY <1>1, <1>2 DEF SentOnce
<1> QED BY <1>3, <1>4

LEMMA PutSends ==
  ASSUME RingInv, PutNode
  PROVE  /\ Sent' = Sent \cup {node_info}
         /\ SentOnce /\ node_info \notin Sent => SentOnce'
<1>1. count \in Nat /\ count' = count + 1
  BY LimitsAssumption DEF PutNode, RingInv, ScanTypeOK
<1>2. InTransit \in Seq(Entry) /\ Len(InTransit) = count /\ node_info \in Entry
  BY <1>1, InTransitSeq
  DEF RingInv, RingFull, HandsFull, PutNode, ThreadAt, Adding
<1>3. /\ \A k \in 1 .. count : InTransit'[k] = InTransit[k]
      /\ InTransit'[count + 1] = node_info
  BY <1>2, PutAppends, AppendProperties
<1>4. Queued' = Queued \cup {node_info}
  <2>1. ASSUME NEW e \in Queued' PROVE e \in Queued \cup {node_info}
    <3>1. PICK k \in 1 .. count + 1 : e = InTransit'[k]
      BY <1>1, <2>1 DEF Queued
    <3>2. k \in 1 .. count \/ k = count + 1
      BY <1>1
    <3> QED BY <1>3, <3>1, <3>2 DEF Queued
  <2>2. ASSUME NEW e \in Queued PROVE e \in Queued'
    <3>1. PICK k \in 1 .. count : e = InTransit[k]
      BY <2>2 DEF Queued
    <3>2. k \in 1 .. count' /\ e = InTransit'[k]
      BY <1>1, <1>3, <3>1
    <3> QED BY <3>2 DEF Queued
  <2>3. node_info \in Queued'
    <3>1. count + 1 \in 1 .. count'
      BY <1>1
    <3> QED BY <1>3, <3>1 DEF Queued
  <2> QED BY <2>1, <2>2, <2>3
<1>5. processed' = processed /\ node' = node /\ Took' = Took
  BY DEF PutNode, tally, Took, ThreadGoto, Thread, RingInv, ScanTypeOK
<1>6. Sent' = Sent \cup {node_info}
  BY <1>4, <1>5 DEF Sent
<1>7. ASSUME SentOnce, node_info \notin Sent PROVE SentOnce'
  <2>1. \A k \in 1 .. count : InTransit[k] # node_info
    BY <1>7 DEF Sent, Queued
  <2>2. \A j, k \in 1 .. count + 1 : InTransit'[j] = InTransit'[k] => j = k
    BY <1>1, <1>3, <1>7, <2>1 DEF SentOnce
  <2> QED BY <1>1, <1>4, <1>5, <1>7, <2>2 DEF SentOnce, Sent
<1> QED BY <1>6, <1>7

LEMMA GetKeepsSent ==
  ASSUME RingInv, SentOnce, GetNode
  PROVE  Sent' = Sent /\ SentOnce'
<1>1. count \in Nat \ {0} /\ count' = count - 1 /\ node' \in Entry
      /\ InTransit # <<>> /\ node' = Head(InTransit) /\ InTransit' = Tail(InTransit)
  BY GetTakesHead, LimitsAssumption DEF GetNode
<1>2. InTransit \in Seq(Entry) /\ Len(InTransit) = count
  BY <1>1, InTransitSeq DEF RingInv, RingFull
<1>3. node' = InTransit[1] /\ \A k \in 1 .. count - 1 : InTransit'[k] = InTransit[k + 1]
  BY <1>1, <1>2, HeadTailProperties
<1>4. Queued = Queued' \cup {node'}
  <2>1. ASSUME NEW e \in Queued PROVE e \in Queued' \cup {node'}
    <3>1. PICK k \in 1 .. count : e = InTransit[k]
      BY <2>1 DEF Queued
    <3>2. CASE k = 1
      BY <1>3, <3>1, <3>2
    <3>3. CASE k # 1
      <4>1. k - 1 \in 1 .. count - 1 /\ (k - 1) + 1 = k
        BY <1>1, <3>3
      <4>2. e = InTransit'[k - 1]
        BY <1>3, <3>1, <4>1
      <4> QED BY <1>1, <4>1, <4>2 DEF Queued
    <3> QED BY <3>2, <3>3
  <2>2. ASSUME NEW e \in Queued' PROVE e \in Queued
    <3>1. PICK k \in 1 .. count - 1 : e = InTransit'[k]
      BY <1>1, <2>2 DEF Queued
    <3>2. k + 1 \in 1 .. count
      BY <1>1
    <3>3. e = InTransit[k + 1]
      BY <1>3, <3>1
    <3> QED BY <3>2, <3>3 DEF Queued
  <2>3. node' \in Queued
    <3>1. 1 \in 1 .. count
      BY <1>1
    <3> QED BY <1>3, <3>1 DEF Queued
  <2> QED BY <2>1, <2>2, <2>3
<1>5. processed' = processed /\ ~Took /\ Took'
  BY DEF GetNode, Took, ThreadAt, ThreadGoto, Thread, RingInv, ScanTypeOK
<1>6. Sent' = Sent
  BY <1>4, <1>5 DEF Sent
<1>7. \A j, k \in 1 .. count - 1 : InTransit'[j] = InTransit'[k] => j = k
  <2> TAKE j, k \in 1 .. count - 1
  <2>1. j + 1 \in 1 .. count /\ k + 1 \in 1 .. count
    BY <1>1
  <2>2. InTransit[j + 1] = InTransit[k + 1] => j + 1 = k + 1
    BY <2>1 DEF SentOnce
  <2> QED BY <1>3, <2>2
<1>8. node' \notin Queued'
  <2>1. ASSUME NEW k \in 1 .. count - 1 PROVE InTransit'[k] # node'
    <3>1. k + 1 \in 1 .. count /\ 1 \in 1 .. count /\ k + 1 # 1
      BY <1>1
    <3> QED BY <1>3, <3>1 DEF SentOnce
  <2> QED BY <1>1, <2>1 DEF Queued
<1>9. SentOnce'
  BY <1>1, <1>4, <1>5, <1>7, <1>8 DEF SentOnce
<1> QED BY <1>6, <1>9

LEMMA CountKeepsSent ==
  ASSUME RingInv, SentOnce, is_inode_visited
  PROVE  /\ Sent' = Sent /\ SentOnce'
         /\ processed' = processed \cup {node} /\ node \notin processed
<1>1. /\ processed' = processed \cup {node} /\ node' = node /\ count' = count
      /\ Took /\ ~Took'
  BY DEF is_inode_visited, buffer, Took, ThreadAt, ThreadGoto, Thread, RingInv, ScanTypeOK
<1>2. InTransit' = InTransit
  BY SameRing DEF is_inode_visited
<1>3. Queued' = Queued
  BY <1>1, <1>2 DEF Queued
<1>4. Sent' = Sent
  BY <1>1, <1>3 DEF Sent
<1> QED BY <1>1, <1>2, <1>3, <1>4 DEF SentOnce

\* The steps that neither read the tree nor put anything in the ring.
WalkStands == /\ UNCHANGED <<open, node_info, scanner_errors>>
              /\ Sent' = Sent /\ (SentOnce => SentOnce')
              /\ InHand' = InHand /\ Unopened' = Unopened
              /\ step'["scanner"] \in {"unlock", "opendir"} =>
                    step'["scanner"] = step["scanner"]

LEMMA WalkMoves ==
  ASSUME RingInv, SentOnce, [ScanNext]_scanVars
  PROVE  WalkStands \/ opendir \/ readdir \/ closedir \/ PutNode \/ NodeAdded
<1> DEFINE Still == /\ UNCHANGED <<open, node_info, scanner_errors>>
                    /\ Sent' = Sent /\ (SentOnce => SentOnce')
<1> USE DEF RingInv, ScanTypeOK, Thread
<1>1. CASE UNCHANGED scanVars
  <2>1. Still
    <3>1. UNCHANGED <<buffer, node, processed>> /\ Took' = Took
      BY <1>1 DEF scanVars, tally, Took
    <3> QED BY <1>1, <3>1, SameSent DEF scanVars, walk
  <2> QED BY <1>1, <2>1 DEF scanVars, walk, WalkStands, InHand, Unopened
<1>2. ASSUME NEW t \in Thread, Lock(t) \/ cond_wait(t) \/ Wake(t) \/ Spurious(t)
                               \/ UnlockAndEnd(t)
      PROVE  WalkStands
  <2>1. /\ UNCHANGED <<buffer, node, processed>> /\ Took' = Took
        /\ UNCHANGED <<open, node_info, scanner_errors>>
    BY <1>2 DEF Lock, cond_wait, Wake, Spurious, UnlockAndEnd, walk, tally, Took,
                ThreadAt, ThreadGoto
  <2>2. Still
    BY <2>1, SameSent
  <2>3. \/ step'["scanner"] = step["scanner"]
        \/ /\ step["scanner"] \in Adding \ {"unlock"}
           /\ step'["scanner"] \in Adding \ {"unlock"}
        \/ /\ step["scanner"] = "end"
           /\ step'["scanner"] = "done"
    BY <1>2 DEF Lock, cond_wait, Wake, Spurious, UnlockAndEnd, ThreadAt, ThreadGoto,
                Adding
  <2> QED BY <2>1, <2>2, <2>3 DEF WalkStands, InHand, Unopened, Adding
<1>3. CASE TestFull
  <2>1. /\ UNCHANGED <<buffer, node, processed>> /\ Took' = Took
        /\ UNCHANGED <<open, node_info, scanner_errors>>
    BY <1>3 DEF TestFull, walk, tally, Took, ThreadGoto
  <2>2. Still
    BY <2>1, SameSent
  <2>3. {step["scanner"], step'["scanner"]} \subseteq Adding \ {"unlock"}
    BY <1>3 DEF TestFull, ThreadAt, ThreadGoto, Adding
  <2> QED BY <2>1, <2>2, <2>3 DEF WalkStands, InHand, Unopened, Adding
<1>4. CASE LockToFinish \/ signal_scan_finished
  <2>1. /\ UNCHANGED <<buffer, node, processed>> /\ Took' = Took
        /\ UNCHANGED <<open, node_info, scanner_errors>>
    BY <1>4 DEF LockToFinish, signal_scan_finished, walk, tally, Took, ThreadGoto
  <2>2. Still
    BY <2>1, SameSent
  <2>3. {step["scanner"], step'["scanner"]} \subseteq {"readdir", "finish", "end"}
    BY <1>4 DEF LockToFinish, signal_scan_finished, ThreadAt, ThreadGoto
  <2> QED BY <2>1, <2>2, <2>3 DEF WalkStands, InHand, Unopened, Adding
<1>5. CASE TestEmpty \/ NodeTaken
  <2>1. /\ UNCHANGED <<buffer, node, processed>> /\ Took' = Took
        /\ UNCHANGED <<open, node_info, scanner_errors>>
    BY <1>5 DEF TestEmpty, NodeTaken, Unlock, walk, tally, Took, ThreadAt, ThreadGoto
  <2>2. Still
    BY <2>1, SameSent
  <2>3. step'["scanner"] = step["scanner"]
    BY <1>5 DEF TestEmpty, NodeTaken, Unlock, ThreadGoto
  <2> QED BY <2>1, <2>2, <2>3 DEF WalkStands, InHand, Unopened
<1>6. CASE GetNode
  <2>1. /\ UNCHANGED <<open, node_info, scanner_errors>>
        /\ step'["scanner"] = step["scanner"]
    BY <1>6 DEF GetNode, walk, ThreadGoto
  <2> QED BY <1>6, <2>1, GetKeepsSent DEF WalkStands, InHand, Unopened
<1>7. CASE is_inode_visited
  <2>1. /\ UNCHANGED <<open, node_info, scanner_errors>>
        /\ step'["scanner"] = step["scanner"]
    BY <1>7 DEF is_inode_visited, walk, ThreadGoto
  <2> QED BY <1>7, <2>1, CountKeepsSent DEF WalkStands, InHand, Unopened
<1> QED BY <1>1, <1>2, <1>3, <1>4, <1>5, <1>6, <1>7
        DEF ScanNext, Scanner, Counter

LEMMA SentType ==
  ASSUME RingInv
  PROVE  /\ Sent \subseteq Entry /\ UnionOf(open) \in SUBSET Entry
         /\ InHand \subseteq Entry
<1>1. Queued \subseteq Entry
  BY DEF RingInv, RingFull, Queued
<1>2. UnionOf(open) \in SUBSET Entry
  BY DEF RingInv, ScanTypeOK, UnionOf
<1> QED BY <1>1, <1>2 DEF RingInv, ScanTypeOK, HandsFull, Sent, InHand

LEMMA StandsWalkInv ==
  ASSUME WalkInv, WalkStands
  PROVE  WalkInv'
<1>1. UnionOf(open)' = UnionOf(open) /\ Disjoint(open)' = Disjoint(open)
  BY DEF WalkStands, UnionOf, Disjoint
<1>2. Known' = Known
  BY <1>1 DEF Known, WalkStands
<1> QED BY <1>1, <1>2 DEF WalkInv, WalkStands, ReadOnce, FromAbove

LEMMA NextWalkInv ==
  ASSUME RingInv, WalkInv, [ScanNext]_scanVars
  PROVE  WalkInv'
<1> USE DEF WalkInv
<1>0. Sent \subseteq Entry /\ InHand \subseteq Entry /\ UnionOf(open) \in SUBSET Entry
  BY SentType
<1>t. /\ step \in [Thread -> ScannerLabels \cup CounterLabels]
      /\ open \in Seq(SUBSET Entry)
  BY DEF RingInv, ScanTypeOK
<1>1. CASE WalkStands
  BY <1>1, StandsWalkInv
<1>2. CASE opendir
  <2>1. /\ UNCHANGED <<buffer, node, processed>> /\ Took' = Took
        /\ step["scanner"] = "opendir" /\ step'["scanner"] = "readdir"
        /\ node_info' = node_info
    BY <1>2, <1>t DEF opendir, tally, Took, ThreadAt, ThreadGoto, Thread
  <2>2. Sent' = Sent /\ SentOnce'
    BY <2>1, SameSent
  <2>3. InHand = {} /\ InHand' = {} /\ Unopened = {node_info} /\ Unopened' = {}
    BY <2>1 DEF InHand, Unopened, Adding
  <2>4. CASE node_info \in Unreadable
    <3>1. open' = open
      BY <1>2, <2>4 DEF opendir
    <3>2. UnionOf(open)' = UnionOf(open) /\ Disjoint(open)' = Disjoint(open)
      BY <3>1 DEF UnionOf, Disjoint
    <3>3. Known' = Known
      BY <2>2, <2>3, <3>2 DEF Known
    <3> QED BY <2>1, <2>2, <2>3, <3>2, <3>3 DEF ReadOnce, FromAbove
  <2>5. CASE node_info \notin Unreadable
    <3> DEFINE A == ChildrenOf(node_info)
    <3>1. open' = Append(open, A) /\ A \in SUBSET Entry
      BY <1>2, <2>5 DEF opendir, ChildrenOf
    <3>2. A \cap Known = {}
      BY <2>3 DEF FromAbove, ChildrenOf
    <3>3. UnionOf(open)' = UnionOf(open) \cup A
      BY <1>t, <3>1, UnionAppend DEF UnionOf
    <3>4. Disjoint(open)'
      <4>1. A \cap UnionOf(open) = {}
        BY <3>2 DEF Known
      <4> HIDE DEF A
      <4>2. Disjoint(Append(open, A))
        BY <1>t, <3>1, <4>1, DisjointAppend DEF ReadOnce
      <4> QED BY <3>1, <4>2 DEF Disjoint
    <3>5. Known' = Known \cup A
      BY <2>2, <2>3, <3>3 DEF Known
    <3>6. ReadOnce'
      BY <2>2, <2>3, <3>2, <3>3, <3>4 DEF ReadOnce, Known
    <3>7. \A e \in A : Parent[e] = node_info
      BY DEF ChildrenOf
    <3>8. FromAbove'
      BY <2>1, <2>2, <2>3, <3>5, <3>7 DEF FromAbove
    <3> QED BY <2>2, <3>6, <3>8
  <2> QED BY <2>4, <2>5
<1>3. CASE readdir
  <2>1. /\ UNCHANGED <<buffer, node, processed>> /\ Took' = Took
        /\ step["scanner"] = "readdir"
    BY <1>3, <1>t DEF readdir, tally, Took, ThreadAt, ThreadGoto, Thread
  <2>2. Sent' = Sent /\ SentOnce'
    BY <2>1, SameSent
  <2>3. PICK e \in Top : /\ open' = [open EXCEPT ![Len(open)] = @ \ {e}]
                         /\ \/ UNCHANGED <<step, node_info>>
                            \/ node_info' = e /\ ThreadGoto("scanner", "lock")
    BY <1>3, Zenon DEF readdir
  <2>4. Len(open) \in 1 .. Len(open) /\ e \in open[Len(open)]
    BY <1>3, <1>t DEF readdir, Top
  <2>5. UnionOf(open)' = UnionOf(open) \ {e} /\ Disjoint(open)'
    <3>1. /\ UnionOf([open EXCEPT ![Len(open)] = @ \ {e}]) = UnionOf(open) \ {e}
          /\ Disjoint([open EXCEPT ![Len(open)] = @ \ {e}])
      BY <1>t, <2>4, UnionExcept DEF ReadOnce
    <3> QED BY <2>3, <3>1 DEF UnionOf, Disjoint
  <2>6. e \in UnionOf(open) /\ InHand = {} /\ Unopened = {}
    BY <2>1, <2>4 DEF UnionOf, InHand, Unopened, Adding
  <2>7. CASE UNCHANGED <<step, node_info>>
    <3>1. InHand' = {} /\ Unopened' = {}
      BY <2>6, <2>7 DEF InHand, Unopened
    <3>2. Known' \subseteq Known
      BY <2>2, <2>5, <3>1 DEF Known
    <3>3. ReadOnce'
      BY <2>2, <2>5, <3>1 DEF ReadOnce
    <3>4. FromAbove'
      BY <2>1, <2>2, <2>7, <3>1, <3>2 DEF FromAbove
    <3> QED BY <2>2, <3>3, <3>4
  <2>8. CASE node_info' = e /\ ThreadGoto("scanner", "lock")
    <3>1. InHand' = {e} /\ Unopened' = {e} /\ step'["scanner"] = "lock"
      BY <1>t, <2>8 DEF InHand, Unopened, Adding, ThreadGoto, Thread
    <3>2. Known' = Known
      BY <2>2, <2>5, <2>6, <3>1 DEF Known
    <3>3. e \notin Sent /\ e \in Entry
      BY <1>0, <2>6 DEF ReadOnce
    <3>4. ReadOnce'
      BY <2>2, <2>5, <3>1, <3>3 DEF ReadOnce
    <3>5. FromAbove'
      BY <2>2, <3>1, <3>2, <3>3, TreeAssumption DEF FromAbove
    <3> QED BY <2>2, <3>4, <3>5
  <2> QED BY <2>3, <2>7, <2>8
<1>4. CASE closedir
  <2>1. /\ UNCHANGED <<buffer, node, processed, node_info, step>> /\ Took' = Took
        /\ open' = SubSeq(open, 1, Len(open) - 1)
        /\ open # <<>> /\ open[Len(open)] = {}
    BY <1>4 DEF closedir, tally, Took, Top
  <2>2. Sent' = Sent /\ SentOnce'
    BY <2>1, SameSent
  <2>3. UnionOf(open)' = UnionOf(open) /\ Disjoint(open)'
    <3>1. UnionOf(SubSeq(open, 1, Len(open) - 1)) = UnionOf(open)
          /\ Disjoint(SubSeq(open, 1, Len(open) - 1))
      BY <1>t, <2>1, UnionShorter DEF ReadOnce
    <3> QED BY <2>1, <3>1 DEF UnionOf, Disjoint
  <2>4. InHand' = InHand /\ Unopened' = Unopened
    BY <2>1 DEF InHand, Unopened
  <2>5. Known' = Known
    BY <2>2, <2>3, <2>4 DEF Known
  <2> QED BY <2>1, <2>2, <2>3, <2>4, <2>5 DEF ReadOnce, FromAbove
<1>5. CASE PutNode
  <2>1. /\ step["scanner"] = "put" /\ step'["scanner"] = "unlock"
        /\ UNCHANGED <<open, node_info>>
    BY <1>5, <1>t DEF PutNode, walk, ThreadAt, ThreadGoto, Thread
  <2>2. InHand = {node_info} /\ InHand' = {} /\ Unopened' = Unopened
    BY <2>1 DEF InHand, Unopened, Adding
  <2>3. Sent' = Sent \cup {node_info} /\ SentOnce'
    BY <1>5, <2>2, PutSends DEF ReadOnce
  <2>4. UnionOf(open)' = UnionOf(open) /\ Disjoint(open)' = Disjoint(open)
    BY <2>1 DEF UnionOf, Disjoint
  <2>5. Known' = Known
    BY <2>2, <2>3, <2>4 DEF Known
  <2> QED BY <2>1, <2>2, <2>3, <2>4, <2>5 DEF ReadOnce, FromAbove
<1>6. CASE NodeAdded
  <2>1. /\ UNCHANGED <<buffer, node, processed, open, node_info>> /\ Took' = Took
        /\ step["scanner"] = "unlock"
        /\ step'["scanner"] = IF node_info \in Dirs THEN "opendir" ELSE "readdir"
    BY <1>6, <1>t DEF NodeAdded, Unlock, walk, tally, Took, ThreadAt, ThreadGoto, Thread
  <2>2. Sent' = Sent /\ SentOnce'
    BY <2>1, SameSent
  <2>3. InHand = {} /\ InHand' = {} /\ Unopened = {node_info} /\ Unopened' \subseteq Unopened
    BY <2>1 DEF InHand, Unopened, Adding
  <2>4. UnionOf(open)' = UnionOf(open) /\ Disjoint(open)' = Disjoint(open)
    BY <2>1 DEF UnionOf, Disjoint
  <2>5. Known' = Known
    BY <2>2, <2>3, <2>4 DEF Known
  <2> QED BY <2>1, <2>2, <2>3, <2>4, <2>5 DEF ReadOnce, FromAbove
<1> QED BY <1>1, <1>2, <1>3, <1>4, <1>5, <1>6, WalkMoves

\* scan_directory_recursive adds no entry twice and none before its directory.
THEOREM WalkKept == ScanSpec => []WalkInv
<1>1. ScanInit => WalkInv
  BY InitWalkInv
<1>2. RingInv /\ WalkInv /\ [ScanNext]_scanVars => WalkInv'
  BY NextWalkInv
<1> QED BY <1>1, <1>2, RingKept, PTL DEF ScanSpec

-------------------------------------------------------------------------------
(* Nothing is left out.                                                    *)

\* The directories opendir was called on, those of them it failed on, and the
\* entries lstat failed on.
Opened == ({START} \cup (Sent \cap Dirs)) \ Unopened
Failed == Opened \cap Unreadable
Skipped == {e \in Unstatable : /\ Parent[e] \in Opened \ Unreadable
                               /\ e \notin UnionOf(open)}

\* All that is in a directory that was opened is known; what was passed over is
\* what scanner_errors counts.
CoverInv ==
    /\ step["scanner"] = "opendir" => node_info \in Dirs \cup {START}
    /\ \A e \in Entry \ Unstatable : Parent[e] \in Opened \ Unreadable => e \in Known
    /\ \A e \in Sent \cup InHand : e \notin Unstatable
    /\ \A e \in Known : Parent[e] \notin Unreadable
    /\ scanner_errors = Cardinality(Failed) + Cardinality(Skipped)

LEMMA ErrorsFinite == /\ IsFiniteSet(Failed) /\ Cardinality(Failed) \in Nat
                      /\ IsFiniteSet(Skipped) /\ Cardinality(Skipped) \in Nat
<1>1. IsFiniteSet(Entry \cup {START})
  BY TreeAssumption, FS_AddElement
<1>2. Failed \in SUBSET (Entry \cup {START}) /\ Skipped \in SUBSET (Entry \cup {START})
  BY TreeAssumption DEF Failed, Skipped
<1> QED BY <1>1, <1>2, FS_Subset, FS_CardinalityType

LEMMA InitCoverInv == ScanInit => CoverInv
<1> SUFFICES ASSUME ScanInit PROVE CoverInv
  OBVIOUS
<1>1. /\ Queued = {} /\ ~Took /\ Sent = {} /\ InHand = {} /\ Unopened = {START}
      /\ Len(open) = 0 /\ UnionOf(open) = {} /\ scanner_errors = 0
  BY DEF ScanInit, Queued, Took, Sent, InHand, UnionOf, Thread, Adding, Unopened
<1>2. Known = {} /\ Opened = {}
  BY <1>1 DEF Known, Opened
<1>3. Failed = {} /\ Skipped = {}
  BY <1>2 DEF Failed, Skipped
<1> QED BY <1>1, <1>2, <1>3, FS_EmptySet DEF CoverInv, ScanInit, Thread

\* A directory is entered once everything known has been accounted for.
LEMMA ParentOpened ==
  ASSUME RingInv, WalkInv, NEW e \in Known
  PROVE  Parent[e] \in Opened
<1>1. e \in Entry
  BY SentType DEF Known
<1> QED BY <1>1, TreeAssumption DEF WalkInv, FromAbove, Opened

LEMMA SameCover ==
  ASSUME CoverInv, Known' = Known, UnionOf(open)' = UnionOf(open), Opened' = Opened,
         Sent' \cup InHand' = Sent \cup InHand, scanner_errors' = scanner_errors,
         step'["scanner"] = "opendir" => node_info' \in Dirs \cup {START}
  PROVE  CoverInv'
<1>1. Failed' = Failed /\ Skipped' = Skipped
  BY DEF Failed, Skipped
<1> QED BY <1>1 DEF CoverInv

LEMMA OpendirKeepsCover ==
  ASSUME RingInv, WalkInv, CoverInv, opendir
  PROVE  CoverInv'
<1>1. /\ UNCHANGED <<buffer, node, processed>> /\ Took' = Took
      /\ step["scanner"] = "opendir" /\ step'["scanner"] = "readdir"
      /\ node_info' = node_info
  BY DEF opendir, tally, Took, ThreadAt, ThreadGoto, Thread, RingInv, ScanTypeOK
<1>2. Sent' = Sent
  BY <1>1, SameSent
<1>3. InHand = {} /\ InHand' = {} /\ Unopened = {node_info} /\ Unopened' = {}
  BY <1>1 DEF InHand, Unopened, Adding
<1>4. node_info \in {START} \cup (Sent \cap Dirs)
  BY <1>1 DEF WalkInv, FromAbove, CoverInv, RingInv, ScanTypeOK
<1>5. Opened' = Opened \cup {node_info} /\ node_info \notin Opened
  BY <1>2, <1>3, <1>4 DEF Opened
<1>6. CASE node_info \in Unreadable
  <2>1. open' = open /\ scanner_errors' = scanner_errors + 1
    BY <1>6 DEF opendir
  <2>2. UnionOf(open)' = UnionOf(open)
    BY <2>1 DEF UnionOf
  <2>3. Known' = Known
    BY <1>2, <1>3, <2>2 DEF Known
  <2>4. Opened' \ Unreadable = Opened \ Unreadable
    BY <1>5, <1>6
  <2>5. Failed' = Failed \cup {node_info} /\ node_info \notin Failed
    BY <1>5, <1>6 DEF Failed
  <2>6. Skipped' = Skipped
    BY <2>2, <2>4 DEF Skipped
  <2>7. Cardinality(Failed') = Cardinality(Failed) + 1
    BY <2>5, ErrorsFinite, FS_AddElement
  <2>8. scanner_errors' = Cardinality(Failed') + Cardinality(Skipped')
    BY <2>1, <2>6, <2>7, ErrorsFinite DEF CoverInv
  <2> QED BY <1>1, <1>2, <1>3, <2>3, <2>4, <2>8 DEF CoverInv
<1>7. CASE node_info \notin Unreadable
  <2> DEFINE A == ChildrenOf(node_info)
  <2>1. open' = Append(open, A) /\ A \in SUBSET Entry /\ scanner_errors' = scanner_errors
    BY <1>7 DEF opendir, ChildrenOf
  <2>2. UnionOf(open)' = UnionOf(open) \cup A
    BY <2>1, UnionAppend DEF UnionOf, RingInv, ScanTypeOK
  <2>3. Known' = Known \cup A
    BY <1>2, <1>3, <2>2 DEF Known
  <2>4. \A e \in Entry : e \in A <=> Parent[e] = node_info
    BY DEF ChildrenOf
  <2>5. Failed' = Failed
    BY <1>5, <1>7 DEF Failed
  <2>6. Skipped' = Skipped
    <3>1. \A e \in Unstatable :
             /\ Parent[e] \in Opened' \ Unreadable /\ e \notin UnionOf(open)'
             <=> Parent[e] \in Opened \ Unreadable /\ e \notin UnionOf(open)
      BY <1>5, <2>2, <2>4, TreeAssumption
    <3> QED BY <3>1 DEF Skipped
  <2>7. \A e \in Entry \ Unstatable : Parent[e] \in Opened' \ Unreadable => e \in Known'
    BY <1>5, <2>3, <2>4 DEF CoverInv
  <2>8. \A e \in Known' : Parent[e] \notin Unreadable
    BY <1>7, <2>1, <2>3, <2>4 DEF CoverInv
  <2> QED BY <1>1, <1>2, <1>3, <2>1, <2>5, <2>6, <2>7, <2>8 DEF CoverInv
<1> QED BY <1>6, <1>7

LEMMA ReaddirKeepsCover ==
  ASSUME RingInv, WalkInv, CoverInv, readdir
  PROVE  CoverInv'
<1>t. /\ step \in [Thread -> ScannerLabels \cup CounterLabels]
      /\ open \in Seq(SUBSET Entry)
  BY DEF RingInv, ScanTypeOK
<1>1. /\ UNCHANGED <<buffer, node, processed>> /\ Took' = Took
      /\ step["scanner"] = "readdir"
  BY <1>t DEF readdir, tally, Took, ThreadAt, ThreadGoto, Thread
<1>2. Sent' = Sent
  BY <1>1, SameSent
<1>3. PICK e \in Top : /\ open' = [open EXCEPT ![Len(open)] = @ \ {e}]
                       /\ \/ /\ e \in Unstatable
                             /\ scanner_errors' = scanner_errors + 1
                             /\ UNCHANGED <<step, node_info>>
                          \/ /\ e \notin Unstatable
                             /\ node_info' = e
                             /\ ThreadGoto("scanner", "lock")
                             /\ UNCHANGED scanner_errors
  BY Zenon DEF readdir
<1>4. Len(open) \in 1 .. Len(open) /\ e \in open[Len(open)]
  BY <1>t DEF readdir, Top
<1>5. UnionOf(open)' = UnionOf(open) \ {e}
  <2>1. UnionOf([open EXCEPT ![Len(open)] = @ \ {e}]) = UnionOf(open) \ {e}
    BY <1>t, <1>4, UnionExcept DEF WalkInv, ReadOnce
  <2> QED BY <1>3, <2>1 DEF UnionOf
<1>6. e \in UnionOf(open) /\ InHand = {} /\ Unopened = {}
  BY <1>1, <1>4 DEF UnionOf, InHand, Unopened, Adding
<1>7. e \in Known /\ e \in Entry /\ e \notin Sent /\ e # START
  BY <1>6, SentType, TreeAssumption DEF Known, WalkInv, ReadOnce
<1>8. CASE e \in Unstatable
  <2>1. scanner_errors' = scanner_errors + 1 /\ UNCHANGED <<step, node_info>>
    BY <1>3, <1>8
  <2>2. InHand' = {} /\ Unopened' = {}
    BY <1>6, <2>1 DEF InHand, Unopened
  <2>3. Opened' = Opened /\ Known' = (Known \ {e})
    BY <1>2, <1>5, <1>6, <1>7, <2>2 DEF Opened, Known
  <2>4. Failed' = Failed
    BY <2>3 DEF Failed
  <2>5. Parent[e] \in Opened \ Unreadable
    BY <1>7, ParentOpened DEF CoverInv
  <2>6. Skipped' = Skipped \cup {e} /\ e \notin Skipped
    BY <1>5, <1>6, <1>8, <2>3, <2>5 DEF Skipped
  <2>7. Cardinality(Skipped') = Cardinality(Skipped) + 1
    BY <2>6, ErrorsFinite, FS_AddElement
  <2>8. scanner_errors' = Cardinality(Failed') + Cardinality(Skipped')
    BY <2>1, <2>4, <2>7, ErrorsFinite DEF CoverInv
  <2> QED BY <1>1, <1>2, <1>6, <1>8, <2>1, <2>2, <2>3, <2>8 DEF CoverInv
<1>9. CASE e \notin Unstatable
  <2>1. /\ scanner_errors' = scanner_errors /\ node_info' = e
        /\ step'["scanner"] = "lock"
    BY <1>t, <1>3, <1>9 DEF ThreadGoto, Thread
  <2>2. InHand' = {e} /\ Unopened' = {e}
    BY <2>1 DEF InHand, Unopened, Adding
  <2>3. Opened' = Opened /\ Known' = Known
    BY <1>2, <1>5, <1>6, <1>7, <2>2 DEF Opened, Known
  <2>4. Failed' = Failed
    BY <2>3 DEF Failed
  <2>5. Skipped' = Skipped
    BY <1>5, <1>9, <2>3 DEF Skipped
  <2> QED BY <1>2, <1>6, <1>9, <2>1, <2>2, <2>3, <2>4, <2>5 DEF CoverInv
<1> QED BY <1>8, <1>9

LEMMA NextCoverInv ==
  ASSUME RingInv, WalkInv, CoverInv, [ScanNext]_scanVars
  PROVE  CoverInv'
<1>t. /\ step \in [Thread -> ScannerLabels \cup CounterLabels]
      /\ open \in Seq(SUBSET Entry)
  BY DEF RingInv, ScanTypeOK
<1>1. CASE WalkStands
  <2>1. UnionOf(open)' = UnionOf(open)
    BY <1>1 DEF WalkStands, UnionOf
  <2>2. Known' = Known /\ Opened' = Opened
    BY <1>1, <2>1 DEF Known, Opened, WalkStands
  <2>3. step'["scanner"] = "opendir" => node_info' \in Dirs \cup {START}
    BY <1>1 DEF WalkStands, CoverInv
  <2> QED BY <1>1, <2>1, <2>2, <2>3, SameCover DEF WalkStands
<1>2. CASE opendir
  BY <1>2, OpendirKeepsCover
<1>3. CASE readdir
  BY <1>3, ReaddirKeepsCover
<1>4. CASE closedir
  <2>1. /\ UNCHANGED <<buffer, node, processed, node_info, step, scanner_errors>>
        /\ Took' = Took
        /\ open' = SubSeq(open, 1, Len(open) - 1)
        /\ open # <<>> /\ open[Len(open)] = {}
    BY <1>4 DEF closedir, tally, Took, Top
  <2>2. Sent' = Sent
    BY <2>1, SameSent
  <2>3. UnionOf(open)' = UnionOf(open)
    <3>1. UnionOf(SubSeq(open, 1, Len(open) - 1)) = UnionOf(open)
      BY <1>t, <2>1, UnionShorter
    <3> QED BY <2>1, <3>1 DEF UnionOf
  <2>4. InHand' = InHand /\ Unopened' = Unopened
    BY <2>1 DEF InHand, Unopened
  <2>5. Known' = Known /\ Opened' = Opened
    BY <2>2, <2>3, <2>4 DEF Known, Opened
  <2>6. step'["scanner"] = "opendir" => node_info' \in Dirs \cup {START}
    BY <2>1 DEF CoverInv
  <2> QED BY <2>1, <2>2, <2>3, <2>4, <2>5, <2>6, SameCover
<1>5. CASE PutNode
  <2>1. /\ step["scanner"] = "put" /\ step'["scanner"] = "unlock"
        /\ UNCHANGED <<open, node_info, scanner_errors>>
    BY <1>5, <1>t DEF PutNode, walk, ThreadAt, ThreadGoto, Thread
  <2>2. InHand = {node_info} /\ InHand' = {} /\ Unopened = {node_info}
        /\ Unopened' = {node_info}
    BY <2>1 DEF InHand, Unopened, Adding
  <2>3. Sent' = Sent \cup {node_info}
    BY <1>5, PutSends
  <2>4. UnionOf(open)' = UnionOf(open)
    BY <2>1 DEF UnionOf
  <2>5. Known' = Known /\ Opened' = Opened
    BY <2>2, <2>3, <2>4 DEF Known, Opened
  <2> QED BY <2>1, <2>2, <2>3, <2>4, <2>5, SameCover
<1>6. CASE NodeAdded
  <2>1. /\ UNCHANGED <<buffer, node, processed, open, node_info, scanner_errors>>
        /\ Took' = Took /\ step["scanner"] = "unlock"
        /\ step'["scanner"] = IF node_info \in Dirs THEN "opendir" ELSE "readdir"
    BY <1>6, <1>t DEF NodeAdded, Unlock, walk, tally, Took, ThreadAt, ThreadGoto, Thread
  <2>2. Sent' = Sent
    BY <2>1, SameSent
  <2>3. /\ InHand = {} /\ InHand' = {} /\ Unopened = {node_info}
        /\ Unopened' = IF node_info \in Dirs THEN {node_info} ELSE {}
    BY <2>1 DEF InHand, Unopened, Adding
  <2>4. UnionOf(open)' = UnionOf(open)
    BY <2>1 DEF UnionOf
  <2>5. node_info # START
    BY <2>1, TreeAssumption DEF RingInv, HandsFull, Adding
  <2>6. Known' = Known /\ Opened' = Opened
    BY <2>2, <2>3, <2>4, <2>5 DEF Known, Opened
  <2>7. step'["scanner"] = "opendir" => node_info' \in Dirs \cup {START}
    BY <2>1
  <2> QED BY <2>1, <2>2, <2>3, <2>4, <2>6, <2>7, SameCover
<1> QED BY <1>1, <1>2, <1>3, <1>4, <1>5, <1>6, WalkMoves DEF WalkInv

\* What opendir and readdir have not given yet is still to be read, or has been
\* counted among the errors.
THEOREM CoverKept == ScanSpec => []CoverInv
<1>1. ScanInit => CoverInv
  BY InitCoverInv
<1>2. RingInv /\ WalkInv /\ CoverInv /\ [ScanNext]_scanVars => CoverInv'
  BY NextCoverInv
<1> QED BY <1>1, <1>2, RingKept, WalkKept, PTL DEF ScanSpec

\* The recursion of Reached has a solution: the least set that has the entries
\* of each readable directory it has.
CanBeMet(e, S) == /\ e \notin Unstatable
                  /\ Parent[e] \notin Unreadable
                  /\ Parent[e] # START => Parent[e] \in S
ClosedSet(S) == \A e \in Entry : CanBeMet(e, S) => e \in S
Least == {e \in Entry : \A S \in SUBSET Entry : ClosedSet(S) => e \in S}

LEMMA LeastFixed == \A e \in Entry : e \in Least <=> CanBeMet(e, Least)
<1>1. ASSUME NEW e \in Entry, CanBeMet(e, Least) PROVE e \in Least
  <2>1. ASSUME NEW S \in SUBSET Entry, ClosedSet(S) PROVE e \in S
    <3>1. Least \subseteq S
      BY <2>1 DEF Least
    <3>2. CanBeMet(e, S)
      BY <1>1, <3>1 DEF CanBeMet
    <3> QED BY <2>1, <3>2 DEF ClosedSet
  <2> QED BY <2>1 DEF Least
<1>2. ASSUME NEW e \in Least PROVE CanBeMet(e, Least)
  <2> DEFINE S == {d \in Least : CanBeMet(d, Least)}
  <2>1. S \in SUBSET Entry /\ S \subseteq Least
    BY DEF Least
  <2>2. ClosedSet(S)
    <3>1. ASSUME NEW d \in Entry, CanBeMet(d, S) PROVE d \in S
      <4>1. CanBeMet(d, Least)
        BY <2>1, <3>1 DEF CanBeMet
      <4> QED BY <1>1, <4>1
    <3> QED BY <3>1 DEF ClosedSet
  <2>3. e \in S
    <3> HIDE DEF S
    <3> QED BY <2>1, <2>2 DEF Least
  <2> QED BY <2>3
<1> QED BY <1>1, <1>2

Reaches(f) ==
    f = [e \in Entry |->
            /\ e \notin Unstatable
            /\ Parent[e] \notin Unreadable
            /\ Parent[e] # START => f[Parent[e]]]

LEMMA ReachedUnfold ==
  ASSUME NEW e \in Entry
  PROVE  Reached[e] <=> /\ e \notin Unstatable
                        /\ Parent[e] \notin Unreadable
                        /\ Parent[e] # START => Reached[Parent[e]]
<1> DEFINE f == [d \in Entry |-> d \in Least]
<1>1. \A d \in Entry : Parent[d] # START => Parent[d] \in Entry
  BY TreeAssumption
<1> DEFINE Fits(d) == /\ d \notin Unstatable
                      /\ Parent[d] \notin Unreadable
                      /\ Parent[d] # START => f[Parent[d]]
<1>2. ASSUME NEW d \in Entry PROVE (d \in Least) = Fits(d)
  <2>1. Parent[d] # START => (f[Parent[d]] <=> Parent[d] \in Least)
    BY <1>1, Zenon
  <2>2. d \in Least <=> CanBeMet(d, Least)
    BY LeastFixed
  <2>3. d \in Least <=> Fits(d)
    <3> HIDE DEF f
    <3> QED BY <2>1, <2>2, Zenon DEF CanBeMet
  <2>4. Fits(d) \in BOOLEAN
    OBVIOUS
  <2> HIDE DEF Fits
  <2> QED BY <2>3, <2>4
<1>3. Reaches(f)
  <2>1. [d \in Entry |-> d \in Least] = [d \in Entry |-> Fits(d)]
    <3> HIDE DEF Fits
    <3> QED BY <1>2
  <2>2. f = [d \in Entry |-> Fits(d)]
    BY <2>1
  <2> HIDE DEF f
  <2> QED BY <2>2 DEF Reaches
<1>4. Reaches((CHOOSE g : Reaches(g)))
  BY <1>3, Zenon
<1>5. Reached = CHOOSE g : Reaches(g)
  BY DEF Reached, Reaches
<1>6. Reaches(Reached)
  BY <1>4, <1>5
<1> QED BY <1>6 DEF Reaches

LEMMA WhenBothDone ==
  ASSUME RingInv, step["scanner"] = "done", step["counter"] = "done"
  PROVE  /\ Sent = processed /\ Known = processed
         /\ Opened = {START} \cup (processed \cap Dirs)
         /\ UnionOf(open) = {}
<1>1. open = <<>> /\ count = 0 /\ ~Took
  BY DEF RingInv, EndInv, Over, Took
<1>2. Queued = {} /\ InHand = {} /\ Unopened = {} /\ UnionOf(open) = {}
  BY <1>1 DEF Queued, InHand, Unopened, UnionOf, Adding
<1>3. Sent = processed
  BY <1>1, <1>2 DEF Sent
<1> QED BY <1>2, <1>3 DEF Known, Opened

LEMMA EverythingCounted ==
  ASSUME RingInv, WalkInv, CoverInv, step["scanner"] = "done", step["counter"] = "done"
  PROVE  processed = {e \in Entry : Reached[e]}
<1>1. processed \subseteq Entry
  BY DEF RingInv, ScanTypeOK
<1>2. \A e \in processed : /\ e \notin Unstatable /\ Parent[e] \notin Unreadable
                           /\ Parent[e] \in processed \cup {START}
  BY WhenBothDone DEF WalkInv, FromAbove, CoverInv
<1>3. \A e \in Entry : /\ e \notin Unstatable /\ Parent[e] \notin Unreadable
                       /\ Parent[e] \in processed \cup {START}
                       => e \in processed
  BY WhenBothDone, TreeAssumption DEF CoverInv
<1>4. ASSUME NEW e \in processed, ~Reached[e] PROVE FALSE
  <2> DEFINE S == {d \in processed : ~Reached[d]}
  <2>1. S \in SUBSET Entry /\ S # {}
    BY <1>1, <1>4
  <2>2. PICK d \in S : Parent[d] \notin S
    <3> HIDE DEF S
    <3> QED BY <2>1, TreeAssumption
  <2>3. Parent[d] # START => Reached[Parent[d]]
    BY <1>2, <2>2
  <2> QED BY <1>1, <1>2, <2>3, ReachedUnfold
<1>5. ASSUME NEW e \in Entry, Reached[e], e \notin processed PROVE FALSE
  <2> DEFINE S == {d \in Entry : Reached[d] /\ d \notin processed}
  <2>1. S \in SUBSET Entry /\ S # {}
    BY <1>5
  <2>2. PICK d \in S : Parent[d] \notin S
    <3> HIDE DEF S
    <3> QED BY <2>1, TreeAssumption
  <2>3. /\ d \notin Unstatable /\ Parent[d] \notin Unreadable
        /\ Parent[d] # START => Reached[Parent[d]]
    BY ReachedUnfold
  <2>4. Parent[d] \in processed \cup {START}
    BY <2>2, <2>3, TreeAssumption
  <2> QED BY <1>3, <2>3, <2>4
<1> QED BY <1>1, <1>4, <1>5

\* The end of the scan: when both threads are done, whatever the tree, the size of
\* the ring and the order of their steps, get_node_from_buffer has handed over every
\* entry that scan_directory_recursive could reach, and scanner_errors is the number
\* of directories and entries it had to leave out.
THEOREM NothingLeftOut == ScanSpec => []ScanComplete
<1>1. RingInv /\ WalkInv /\ CoverInv => ScanComplete
  <2> SUFFICES ASSUME RingInv, WalkInv, CoverInv,
                      step["scanner"] = "done", step["counter"] = "done"
               PROVE  /\ processed = {e \in Entry : Reached[e]}
                      /\ scanner_errors =
                            Cardinality({d \in Unreadable : d = START \/ Reached[d]})
                            + Cardinality({e \in Unstatable :
                                  /\ Parent[e] \notin Unreadable
                                  /\ Parent[e] = START \/ Reached[Parent[e]]})
    BY DEF ScanComplete
  <2>1. processed = {e \in Entry : Reached[e]}
    BY EverythingCounted
  <2>2. Opened = {START} \cup (processed \cap Dirs) /\ UnionOf(open) = {}
    BY WhenBothDone
  <2>3. Failed = {d \in Unreadable : d = START \/ Reached[d]}
    BY <2>1, <2>2, TreeAssumption DEF Failed
  <2>4. Skipped = {e \in Unstatable :
                    /\ Parent[e] \notin Unreadable
                    /\ Parent[e] = START \/ Reached[Parent[e]]}
    <3>1. \A e \in Unstatable :
             Parent[e] \in Opened <=> (Parent[e] = START \/ Reached[Parent[e]])
      BY <2>1, <2>2, TreeAssumption
    <3> QED BY <2>2, <3>1 DEF Skipped
  <2> QED BY <2>1, <2>3, <2>4 DEF CoverInv
<1> QED BY <1>1, RingKept, WalkKept, CoverKept, PTL

-------------------------------------------------------------------------------
(* The ring is a stream.                                                   *)

LEMMA InitIsStream == ScanInit => AbstractStream!Init
<1> SUFFICES ASSUME ScanInit PROVE AbstractStream!Init
  OBVIOUS
<1>1. count = 0 /\ processed = {} /\ ~Took /\ finished = FALSE /\ node = NIL
      /\ step["counter"] = "lock"
  BY DEF ScanInit, Took, Thread
<1>2. InTransit = <<>>
  <2>1. InTransit \in Seq(Entry) /\ Len(InTransit) = 0
    BY <1>1, InTransitSeq
  <2> QED BY <2>1
<1>3. Cardinality(processed) + (IF Took THEN 1 ELSE 0) = 0
  BY <1>1, FS_EmptySet
<1> QED BY <1>1, <1>2, <1>3 DEF AbstractStream!Init

\* A step maps to a step of the stream or to none.
Handed == Cardinality(processed) + (IF Took THEN 1 ELSE 0)
Ended == step["counter"] \in Over

LEMMA StreamStands ==
  ASSUME UNCHANGED <<InTransit, finished, node, Handed, Ended>>
  PROVE  UNCHANGED AbstractStream!stream
  BY DEF AbstractStream!stream, Handed, Ended, Over

LEMMA NextIsStream ==
  ASSUME RingInv, WalkInv, [ScanNext]_scanVars
  PROVE  [AbstractStream!Next]_(AbstractStream!stream)
<1>t. /\ step \in [Thread -> ScannerLabels \cup CounterLabels]
      /\ count \in Nat /\ InTransit \in Seq(Entry) /\ Len(InTransit) = count
      /\ IsFiniteSet(processed) /\ Cardinality(processed) \in Nat
  <2>1. count \in Nat /\ processed \subseteq Entry
    BY LimitsAssumption DEF RingInv, ScanTypeOK
  <2> QED BY <2>1, TreeAssumption, FS_Subset, FS_CardinalityType, InTransitSeq
          DEF RingInv, RingFull, ScanTypeOK
<1>1. CASE UNCHANGED scanVars
  <2>1. UNCHANGED <<InTransit, finished, node, Handed, Ended>>
    BY <1>1, SameRing DEF scanVars, tally, Handed, Took, Ended
  <2> QED BY <2>1, StreamStands
<1>2. ASSUME NEW t \in Thread, Lock(t) \/ cond_wait(t) \/ Wake(t) \/ Spurious(t)
                               \/ UnlockAndEnd(t)
      PROVE  UNCHANGED AbstractStream!stream
  <2>1. UNCHANGED <<buffer, finished, node, processed>> /\ Took' = Took /\ Ended' = Ended
    BY <1>2, <1>t DEF Lock, cond_wait, Wake, Spurious, UnlockAndEnd, walk, tally, Took,
                      ThreadAt, ThreadGoto, Ended, Over, Thread
  <2>2. UNCHANGED <<InTransit, finished, node, Handed, Ended>>
    BY <2>1, SameRing DEF Handed
  <2> QED BY <2>2, StreamStands
<1>3. CASE opendir \/ readdir \/ closedir \/ TestFull \/ NodeAdded \/ LockToFinish
           \/ NodeTaken
  <2>1. UNCHANGED <<buffer, finished, node, processed>> /\ Took' = Took /\ Ended' = Ended
    BY <1>3, <1>t DEF opendir, readdir, closedir, TestFull, NodeAdded, LockToFinish,
                      NodeTaken, Unlock, walk, tally, Took, ThreadAt, ThreadGoto, Ended,
                      Over, Thread
  <2>2. UNCHANGED <<InTransit, finished, node, Handed, Ended>>
    BY <2>1, SameRing DEF Handed
  <2> QED BY <2>2, StreamStands
<1>4. CASE PutNode
  <2>1. /\ InTransit' = Append(InTransit, node_info) /\ count < BUFFER_SIZE
        /\ node_info \in Entry /\ ~finished
    BY <1>4, PutAppends DEF PutNode, RingInv, HandsFull, EndInv, ThreadAt, Adding, Over
  <2>2. UNCHANGED <<finished, node, processed>> /\ Took' = Took /\ Ended' = Ended
    BY <1>4, <1>t DEF PutNode, tally, Took, ThreadAt, ThreadGoto, Ended, Over, Thread
  <2>3. AbstractStream!Put(node_info)
    BY <1>t, <2>1, <2>2 DEF AbstractStream!Put, Ended, Over
  <2> QED BY <2>1, <2>3 DEF AbstractStream!Next
<1>5. CASE signal_scan_finished
  <2>1. ~finished /\ finished' = TRUE
    BY <1>5 DEF signal_scan_finished, ThreadAt, RingInv, EndInv, Over
  <2>2. UNCHANGED <<buffer, node, processed>> /\ Took' = Took /\ Ended' = Ended
    BY <1>5, <1>t DEF signal_scan_finished, tally, Took, ThreadAt, ThreadGoto, Ended,
                      Over, Thread
  <2>3. InTransit' = InTransit
    BY <2>2, SameRing
  <2>4. AbstractStream!Close
    BY <2>1, <2>2, <2>3 DEF AbstractStream!Close, Ended, Over
  <2> QED BY <2>4 DEF AbstractStream!Next
<1>6. CASE TestEmpty
  <2>1. UNCHANGED <<buffer, finished, node, processed>> /\ Took' = Took /\ ~Ended
    BY <1>6, <1>t DEF TestEmpty, tally, Took, ThreadAt, ThreadGoto, Ended, Over, Thread
  <2>2. InTransit' = InTransit
    BY <2>1, SameRing
  <2>3. CASE Ended'
    <3>1. count = 0 /\ finished
      BY <1>6, <1>t, <2>3 DEF TestEmpty, ThreadAt, ThreadGoto, Ended, Over, Thread
    <3>2. InTransit = <<>>
      BY <1>t, <3>1
    <3>3. AbstractStream!End
      BY <2>1, <2>2, <2>3, <3>1, <3>2 DEF AbstractStream!End, Ended, Over
    <3> QED BY <3>3 DEF AbstractStream!Next
  <2>4. CASE ~Ended'
    <3>1. UNCHANGED <<InTransit, finished, node, Handed, Ended>>
      BY <2>1, <2>2, <2>4 DEF Handed, Ended
    <3> QED BY <3>1, StreamStands
  <2> QED BY <2>3, <2>4
<1>7. CASE GetNode
  <2>1. InTransit # <<>> /\ node' = Head(InTransit) /\ InTransit' = Tail(InTransit)
    BY <1>7, GetTakesHead
  <2>2. UNCHANGED <<finished, processed>> /\ ~Took /\ Took' /\ Ended' = Ended
    BY <1>7, <1>t DEF GetNode, Took, ThreadAt, ThreadGoto, Ended, Over, Thread
  <2>3. Handed' = Handed + 1
    BY <1>t, <2>2 DEF Handed
  <2>4. AbstractStream!Take
    BY <2>1, <2>2, <2>3 DEF AbstractStream!Take, Handed, Ended, Over
  <2> QED BY <2>4 DEF AbstractStream!Next
<1>8. CASE is_inode_visited
  <2>1. processed' = processed \cup {node} /\ node \notin processed
    BY <1>8, CountKeepsSent DEF WalkInv
  <2>2. UNCHANGED <<buffer, finished, node>> /\ Took /\ ~Took' /\ Ended' = Ended
    BY <1>8, <1>t DEF is_inode_visited, Took, ThreadAt, ThreadGoto, Ended, Over, Thread
  <2>3. Cardinality(processed') = Cardinality(processed) + 1
    BY <1>t, <2>1, FS_AddElement
  <2>4. Handed' = Handed
    BY <1>t, <2>2, <2>3 DEF Handed
  <2>5. UNCHANGED <<InTransit, finished, node, Handed, Ended>>
    BY <2>2, <2>4, SameRing
  <2> QED BY <2>5, StreamStands
<1>9. \/ UNCHANGED scanVars
      \/ \E t \in Thread : \/ Lock(t) \/ cond_wait(t) \/ Wake(t) \/ Spurious(t)
                          \/ UnlockAndEnd(t)
      \/ opendir \/ readdir \/ closedir \/ TestFull \/ NodeAdded \/ LockToFinish
      \/ NodeTaken \/ PutNode \/ signal_scan_finished \/ TestEmpty \/ GetNode
      \/ is_inode_visited
  BY DEF ScanNext, Scanner, Counter, Thread
<1> QED BY <1>1, <1>2, <1>3, <1>4, <1>5, <1>6, <1>7, <1>8, <1>9

\* The circular buffer with its mutex and condition variables, whatever its size,
\* gives the counter what add_node_to_buffer puts in, in order and each once, and
\* the end only after the last.
THEOREM RingIsStream == ScanSpec => ImplementsStream
<1>1. ScanInit => AbstractStream!Init
  BY InitIsStream
<1>2. RingInv /\ WalkInv /\ [ScanNext]_scanVars
         => [AbstractStream!Next]_(AbstractStream!stream)
  BY NextIsStream
<1> QED BY <1>1, <1>2, RingKept, WalkKept, PTL
        DEF ScanSpec, ImplementsStream, AbstractStream!Spec
================================================================================
