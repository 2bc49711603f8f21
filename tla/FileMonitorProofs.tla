--------------------------- MODULE FileMonitorProofs ---------------------------
(***************************************************************************)
(* For any number of runs and files, however they are started, refused,     *)
(* signalled and killed: what the lock on the PID file does achieve.        *)
(***************************************************************************)
EXTENDS FileMonitor, TLAPS

\* From the lock to its release.
Holding == {"ftruncate", "write", "loop", "check", "update", "close"}

\* A run has the PID file open from open to close, and the locks there are
\* are those of the runs past flock on the files they have open.
LockInv ==
    /\ locked \in [Run -> Run \cup {NONE}]
    /\ fd \in [Run -> Run \cup {NONE}]
    /\ \A r \in Run : pc[r] = "flock" => fd[r] # NONE
    /\ \A r \in Run : pc[r] \in Holding => fd[r] # NONE /\ locked[fd[r]] = r
    /\ \A i \in Run : locked[i] # NONE =>
          pc[locked[i]] \in Holding /\ fd[locked[i]] = i

IInv == TypeOK /\ LockInv /\ PidOfHolder

-------------------------------------------------------------------------------

LEMMA InitIInv == Init => IInv
<1> SUFFICES ASSUME Init PROVE IInv
  OBVIOUS
<1>1. file \in [File -> FileState]
  <2>1. [there: {TRUE}, rev: {0}, stamp: Stamp] \subseteq FileState
    <3> SUFFICES ASSUME NEW x \in [there: {TRUE}, rev: {0}, stamp: Stamp]
                 PROVE  x \in FileState
      OBVIOUS
    <3>1. PICK s \in Stamp : x = [there |-> TRUE, rev |-> 0, stamp |-> s]
      OBVIOUS
    <3>2. 0 \in 0 .. MAX_CHANGES
      BY FileAssumption
    <3> QED BY <3>1, <3>2 DEF FileState
  <2> QED BY <2>1 DEF Init
<1> QED BY <1>1, RunAssumption
        DEF Init, IInv, TypeOK, LockInv, PidOfHolder, Holding, Monitors, Labels, At

\* The end of a process leaves its memory as it was before its launch.
LEMMA GoneType ==
    ASSUME TypeOK, NEW r \in Run, Gone(r)
    PROVE  /\ pc' = [pc EXCEPT ![r] = "gone"]
           /\ pc' \in [Run -> Labels]
           /\ running' \in [Run -> BOOLEAN]
           /\ list' \in [Run -> [File -> Stamp \cup {NONE}]]
           /\ launch' \in [Run -> [File -> FileState \cup {NONE}]]
           /\ todo' \in [Run -> SUBSET File]
           /\ changed' \in [Run -> File \cup {NONE}]
           /\ \A q \in Run : pc'[q] = "update" => changed'[q] \in File
           /\ reported' \in [Run -> SUBSET File]
  BY DEF TypeOK, Gone, Goto, Labels, At

\* A step of a run that opens, locks and releases nothing.
LEMMA LockFrame ==
    ASSUME TypeOK, LockInv, UNCHANGED <<locked, fd>>,
           NEW r \in Run, NEW l, pc' = [pc EXCEPT ![r] = l],
           l # "flock", l \in Holding <=> pc[r] \in Holding
    PROVE  LockInv'
<1>1. \A q \in Run : /\ pc'[q] \in Holding <=> pc[q] \in Holding
                    /\ pc'[q] = "flock" => pc[q] = "flock"
  BY DEF TypeOK
<1> QED BY <1>1, RunAssumption DEF LockInv

\* The locks and the open files after a step: what a run opens, locks and
\* releases is its own.
LEMMA LockStep ==
    ASSUME TypeOK, LockInv, [Next]_vars
    PROVE  LockInv'
<1> USE RunAssumption DEF LockInv, Holding, At, Goto
<1>1. ASSUME NEW r \in Run, Launch(r) \/ is_already_running(r)
      PROVE  LockInv'
  <2>1. PICK l \in {"scan", "open", "gone"} : pc' = [pc EXCEPT ![r] = l]
    BY <1>1 DEF Launch, is_already_running, Gone
  <2>2. UNCHANGED <<locked, fd>> /\ pc[r] \in {"off", "scan"}
    BY <1>1 DEF Launch, is_already_running, pidfile
  <2> QED BY <2>1, <2>2, LockFrame
<1>2. ASSUME NEW r \in Run, Scan(r)
      PROVE  LockInv'
  BY <1>2 DEF Scan, pidfile
<1>3. ASSUME NEW r \in Run, OpenPidFile(r)
      PROVE  LockInv'
  <2>1. name' \in Run
    BY <1>3 DEF TypeOK, OpenPidFile
  <2> QED BY <1>3, <2>1 DEF TypeOK, OpenPidFile
<1>4. ASSUME NEW r \in Run, flock(r)
      PROVE  LockInv'
  <2>1. fd[r] \in Run
    BY <1>4 DEF flock
  <2>2. CASE locked[fd[r]] = NONE /\ locked' = [locked EXCEPT ![fd[r]] = r]
             /\ pc' = [pc EXCEPT ![r] = "ftruncate"] /\ UNCHANGED fd
    BY <2>1, <2>2, <1>4 DEF TypeOK
  <2>3. CASE fd' = [fd EXCEPT ![r] = NONE] /\ UNCHANGED locked
             /\ pc' = [pc EXCEPT ![r] = "unlink"]
    BY <2>1, <2>3, <1>4 DEF TypeOK, flock
  <2> QED BY <1>4, <2>2, <2>3 DEF flock
<1>5. ASSUME NEW r \in Run, Truncate(r) \/ WritePid(r)
      PROVE  LockInv'
  <2>1. PICK l \in {"write", "loop"} : pc' = [pc EXCEPT ![r] = l]
    BY <1>5 DEF Truncate, WritePid
  <2>2. UNCHANGED <<locked, fd>> /\ pc[r] \in {"ftruncate", "write"}
    BY <1>5 DEF Truncate, WritePid
  <2> QED BY <2>1, <2>2, LockFrame
<1>6. ASSUME NEW r \in Run,
             BeginCheck(r) \/ check_file_modified(r) \/ Update(r) \/ EndCheck(r)
                \/ LeaveLoop(r)
      PROVE  LockInv'
  <2>1. UNCHANGED pc \/ \E l \in {"check", "update", "loop", "close"} :
                           pc' = [pc EXCEPT ![r] = l]
    BY <1>6 DEF BeginCheck, check_file_modified, Update, EndCheck, LeaveLoop
  <2>2. UNCHANGED <<locked, fd>> /\ pc[r] \in {"loop", "check", "update"}
    BY <1>6 DEF BeginCheck, check_file_modified, Update, EndCheck, LeaveLoop,
                pidfile
  <2>3. CASE UNCHANGED pc
    BY <2>2, <2>3
  <2>4. ASSUME NEW l \in {"check", "update", "loop", "close"},
               pc' = [pc EXCEPT ![r] = l]
        PROVE  LockInv'
    <3>1. l # "flock" /\ l \in Holding /\ pc[r] \in Holding
      BY <2>2
    <3> QED BY <2>2, <2>4, <3>1, LockFrame
  <2> QED BY <2>1, <2>3, <2>4
<1>7. ASSUME NEW r \in Run, CloseLockFile(r)
      PROVE  LockInv'
  BY <1>7 DEF TypeOK, CloseLockFile, Released
<1>8. ASSUME NEW r \in Run, remove_lockfile(r)
      PROVE  LockInv'
  <2>1. pc' = [pc EXCEPT ![r] = "gone"] /\ UNCHANGED <<locked, fd>>
    BY <1>8 DEF remove_lockfile, Gone
  <2> QED BY <1>8, <2>1, LockFrame DEF remove_lockfile
<1>9. ASSUME NEW r \in Run, Crash(r)
      PROVE  LockInv'
  BY <1>9, GoneType DEF TypeOK, Crash, Released
<1>10. ASSUME NEW r \in Run, signal_handler(r)
       PROVE  LockInv'
  BY <1>10 DEF signal_handler, pidfile
<1>11. ASSUME NEW f \in File, Write(f) \/ Move(f)
       PROVE  LockInv'
  BY <1>11 DEF Write, Move, pidfile
<1>12. CASE UNCHANGED vars
  BY <1>12 DEF vars, pidfile
<1> QED BY <1>1, <1>2, <1>3, <1>4, <1>5, <1>6, <1>7, <1>8, <1>9, <1>10, <1>11,
           <1>12 DEF Next, main

\* Only the run that has the lock empties or writes a file.
LEMMA PidStep ==
    ASSUME IInv, [Next]_vars
    PROVE  PidOfHolder'
<1> USE RunAssumption DEF At, Goto, Monitors
<1>0. TypeOK /\ LockInv /\ PidOfHolder
  BY DEF IInv
<1>1. ASSUME NEW r \in Run, Truncate(r) \/ WritePid(r)
      PROVE  PidOfHolder'
  <2>1. /\ pc[r] \in Holding /\ UNCHANGED fd
        /\ \A q \in Run \ {r} : pc'[q] = pc[q]
    BY <1>0, <1>1 DEF TypeOK, Truncate, WritePid, Holding
  <2>2. fd[r] \in Run /\ locked[fd[r]] = r
    BY <1>0, <2>1 DEF LockInv
  <2>3. ASSUME NEW q \in Run \ {r}, Monitors(q)'
        PROVE  content'[fd'[q]] = q
    <3>1. Monitors(q) /\ pc[q] \in Holding
      BY <2>1, <2>3 DEF Holding
    <3>2. fd[q] \in Run /\ locked[fd[q]] = q
      BY <1>0, <3>1 DEF LockInv
    <3>3. fd[q] # fd[r]
      BY <2>2, <3>2
    <3>4. content'[fd[q]] = content[fd[q]]
      BY <1>0, <1>1, <2>2, <3>2, <3>3 DEF TypeOK, Truncate, WritePid
    <3> QED BY <1>0, <2>1, <3>1, <3>4 DEF PidOfHolder
  <2>4. Monitors(r)' => content'[fd'[r]] = r
    BY <1>0, <1>1, <2>1, <2>2 DEF TypeOK, Truncate, WritePid
  <2> QED BY <2>3, <2>4 DEF PidOfHolder
<1>2. ASSUME UNCHANGED content,
             \A q \in Run : Monitors(q)' => Monitors(q) /\ fd'[q] = fd[q]
      PROVE  PidOfHolder'
  BY <1>0, <1>2 DEF PidOfHolder
<1>3. ASSUME NEW r \in Run,
             Launch(r) \/ Scan(r) \/ is_already_running(r) \/ remove_lockfile(r)
      PROVE  PidOfHolder'
  BY <1>0, <1>2, <1>3 DEF TypeOK, Launch, Scan, is_already_running, Gone,
                          remove_lockfile, pidfile
<1>4. ASSUME NEW r \in Run,
             OpenPidFile(r) \/ flock(r) \/ CloseLockFile(r) \/ Crash(r)
      PROVE  PidOfHolder'
  BY <1>0, <1>2, <1>4 DEF TypeOK, LockInv, OpenPidFile, flock, CloseLockFile,
                          Crash, Gone
<1>5. ASSUME NEW r \in Run,
             BeginCheck(r) \/ check_file_modified(r) \/ Update(r) \/ EndCheck(r)
                \/ LeaveLoop(r)
      PROVE  PidOfHolder'
  <2>1. pc[r] \in {"loop", "check", "update"} /\ UNCHANGED <<content, fd>>
    BY <1>5 DEF BeginCheck, check_file_modified, Update, EndCheck, LeaveLoop,
                pidfile
  <2>2. \A q \in Run \ {r} : pc'[q] = pc[q]
    BY <1>0, <1>5 DEF TypeOK, BeginCheck, check_file_modified, Update,
                      EndCheck, LeaveLoop
  <2> QED BY <1>2, <2>1, <2>2
<1>6. ASSUME NEW r \in Run, signal_handler(r)
      PROVE  PidOfHolder'
  BY <1>2, <1>6 DEF signal_handler, pidfile
<1>7. ASSUME NEW f \in File, Write(f) \/ Move(f)
      PROVE  PidOfHolder'
  BY <1>2, <1>7 DEF Write, Move, pidfile
<1>8. CASE UNCHANGED vars
  BY <1>2, <1>8 DEF vars, pidfile
<1> QED BY <1>1, <1>3, <1>4, <1>5, <1>6, <1>7, <1>8 DEF Next, main

\* No step leaves the types.
LEMMA TypeStep ==
    ASSUME IInv, [Next]_vars
    PROVE  TypeOK'
<1> USE RunAssumption, FileAssumption DEF TypeOK, At, Goto, Labels
<1>0. TypeOK /\ LockInv
  BY DEF IInv
<1>1. LockInv'
  BY <1>0, LockStep
<1>2. \A i \in Run : locked'[i] # NONE => fd'[locked'[i]] = i
  BY <1>1 DEF LockInv
<1>3. ASSUME NEW r \in Run, Launch(r)
      PROVE  TypeOK'
  <2>1. pc' = [pc EXCEPT ![r] = "scan"] /\ todo' = [todo EXCEPT ![r] = File]
    BY <1>3 DEF Launch
  <2>2. pc' \in [Run -> Labels] /\ todo' \in [Run -> SUBSET File]
    BY <1>0, <2>1
  <2>3. \A q \in Run : pc'[q] = "update" => pc[q] = "update"
    BY <1>0, <2>1
  <2> QED BY <1>0, <1>2, <1>3, <2>2, <2>3 DEF Launch, pidfile
<1>13. ASSUME NEW r \in Run, Scan(r)
       PROVE  TypeOK'
  <2>1. PICK f \in File :
           /\ todo' = [todo EXCEPT ![r] = @ \ {f}]
           /\ \/ /\ list' = [list EXCEPT ![r][f] = file[f].stamp]
                 /\ launch' = [launch EXCEPT ![r][f] = file[f]]
              \/ UNCHANGED <<list, launch>>
    BY <1>0, <1>13 DEF Scan
  <2>3. file[f] \in FileState /\ file[f].stamp \in Stamp
    BY <1>0 DEF FileState
  <2>2. /\ todo' \in [Run -> SUBSET File]
        /\ list' \in [Run -> [File -> Stamp \cup {NONE}]]
        /\ launch' \in [Run -> [File -> FileState \cup {NONE}]]
    <3>1. CASE /\ list' = [list EXCEPT ![r][f] = file[f].stamp]
               /\ launch' = [launch EXCEPT ![r][f] = file[f]]
      BY <1>0, <2>1, <2>3, <3>1
    <3>2. CASE UNCHANGED <<list, launch>>
      BY <1>0, <2>1, <3>2
    <3> QED BY <2>1, <3>1, <3>2
  <2> QED BY <1>0, <1>2, <1>13, <2>2 DEF Scan, pidfile
<1>4. ASSUME NEW r \in Run, is_already_running(r) \/ remove_lockfile(r) \/ Crash(r)
      PROVE  TypeOK'
  <2>1. CASE Gone(r)
    BY <1>0, <1>2, <1>4, <2>1, GoneType
    DEF is_already_running, remove_lockfile, Crash, pidfile
  <2>2. CASE is_already_running(r) /\ ~Gone(r)
    <3>1. /\ pc' = [pc EXCEPT ![r] = "open"]
          /\ UNCHANGED <<file, pidfile, running, memory>>
      BY <2>2 DEF is_already_running
    <3>2. /\ pc' \in [Run -> Labels]
          /\ \A q \in Run : pc'[q] = "update" => pc[q] = "update"
      BY <1>0, <3>1
    <3> QED BY <1>0, <1>2, <3>1, <3>2 DEF pidfile, memory
  <2> QED BY <1>4, <2>1, <2>2 DEF remove_lockfile, Crash
<1>5. ASSUME NEW r \in Run, OpenPidFile(r) \/ flock(r) \/ CloseLockFile(r)
      PROVE  TypeOK'
  <2>1. PICK l \in Labels \ {"update"} : pc' = [pc EXCEPT ![r] = l]
    BY <1>5 DEF OpenPidFile, flock, CloseLockFile
  <2>2. /\ pc' \in [Run -> Labels]
        /\ \A q \in Run : pc'[q] = "update" => pc[q] = "update"
    BY <1>0, <2>1
  <2>3. name' \in Run \cup {NONE}
        /\ UNCHANGED <<file, content, running, list, launch, todo, changed,
                       reported>>
    BY <1>0, <1>5 DEF OpenPidFile, flock, CloseLockFile, memory
  <2> QED BY <1>0, <1>2, <2>2, <2>3
<1>6. ASSUME NEW r \in Run, Truncate(r) \/ WritePid(r)
      PROVE  TypeOK'
  <2>1. PICK l \in Labels \ {"update"} : pc' = [pc EXCEPT ![r] = l]
    BY <1>6 DEF Truncate, WritePid
  <2>2. /\ pc' \in [Run -> Labels]
        /\ \A q \in Run : pc'[q] = "update" => pc[q] = "update"
    BY <1>0, <2>1
  <2>3. content' \in [Run -> Run \cup {NONE}]
        /\ UNCHANGED <<file, name, running, list, launch, todo, changed,
                       reported>>
    <3>1. \E i \in Run \cup {NONE} : content' = [content EXCEPT ![fd[r]] = i]
      BY <1>6 DEF Truncate, WritePid
    <3>2. UNCHANGED <<file, name, running, list, launch, todo, changed,
                      reported>>
      BY <1>6 DEF Truncate, WritePid, memory
    <3>3. PICK i \in Run \cup {NONE} : content' = [content EXCEPT ![fd[r]] = i]
      BY <3>1
    <3>4. content' \in [Run -> Run \cup {NONE}]
      BY <1>0, <3>3
    <3> QED BY <3>2, <3>4
  <2> QED BY <1>0, <1>2, <2>2, <2>3
<1>7. ASSUME NEW r \in Run, BeginCheck(r) \/ EndCheck(r) \/ LeaveLoop(r)
      PROVE  TypeOK'
  <2>1. PICK l \in Labels \ {"update"} : pc' = [pc EXCEPT ![r] = l]
    BY <1>7 DEF BeginCheck, EndCheck, LeaveLoop
  <2>2. /\ pc' \in [Run -> Labels]
        /\ \A q \in Run : pc'[q] = "update" => pc[q] = "update"
    BY <1>0, <2>1
  <2>3. todo' \in [Run -> SUBSET File]
        /\ UNCHANGED <<file, pidfile, running, list, launch, changed,
                       reported>>
    BY <1>0, <1>7 DEF BeginCheck, EndCheck, LeaveLoop, memory
  <2> QED BY <1>0, <1>2, <2>2, <2>3 DEF pidfile
<1>8. ASSUME NEW r \in Run, check_file_modified(r)
      PROVE  TypeOK'
  <2>1. PICK f \in File :
           /\ todo' = [todo EXCEPT ![r] = @ \ {f}]
           /\ \/ UNCHANGED <<pc, changed, reported>>
              \/ /\ changed' = [changed EXCEPT ![r] = f]
                 /\ reported' = [reported EXCEPT ![r] = @ \cup {f}]
                 /\ pc' = [pc EXCEPT ![r] = "update"]
    BY <1>0, <1>8 DEF check_file_modified
  <2>2. /\ pc' \in [Run -> Labels] /\ todo' \in [Run -> SUBSET File]
        /\ changed' \in [Run -> File \cup {NONE}]
        /\ reported' \in [Run -> SUBSET File]
        /\ \A q \in Run : pc'[q] = "update" => changed'[q] \in File
    <3>1. CASE UNCHANGED <<pc, changed, reported>>
      BY <1>0, <2>1, <3>1
    <3>2. CASE /\ changed' = [changed EXCEPT ![r] = f]
               /\ reported' = [reported EXCEPT ![r] = @ \cup {f}]
               /\ pc' = [pc EXCEPT ![r] = "update"]
      BY <1>0, <2>1, <3>2
    <3> QED BY <2>1, <3>1, <3>2
  <2> QED BY <1>0, <1>2, <1>8, <2>2 DEF check_file_modified, pidfile
<1>9. ASSUME NEW r \in Run, Update(r)
      PROVE  TypeOK'
  BY <1>0, <1>2, <1>9 DEF Update, pidfile, FileState
<1>10. ASSUME NEW r \in Run, signal_handler(r)
       PROVE  TypeOK'
  BY <1>0, <1>2, <1>10 DEF signal_handler, pidfile, memory
<1>11. ASSUME NEW f \in File, Write(f) \/ Move(f)
       PROVE  TypeOK'
  <2>1. file' \in [File -> FileState]
    <3>1. file[f] \in FileState
      BY <1>0
    <3>2. PICK new \in FileState : file' = [file EXCEPT ![f] = new]
      <4>1. CASE Write(f)
        <5>1. PICK s \in Stamp : file' = [file EXCEPT ![f].rev = @ + 1, ![f].stamp = s]
          BY <4>1 DEF Write
        <5> DEFINE new == [file[f] EXCEPT !.rev = @ + 1, !.stamp = s]
        <5>2. file[f].rev + 1 \in 0 .. MAX_CHANGES
          BY <3>1, <4>1 DEF Write, FileState
        <5>3. new \in FileState
          BY <3>1, <5>2 DEF FileState
        <5>4. file' = [file EXCEPT ![f] = new]
          BY <1>0, <5>1
        <5> QED BY <5>3, <5>4
      <4>2. CASE Move(f)
        <5>1. [file[f] EXCEPT !.there = ~@] \in FileState
          BY <3>1 DEF FileState
        <5> QED BY <4>2, <5>1 DEF Move
      <4> QED BY <1>11, <4>1, <4>2
    <3> QED BY <1>0, <3>2
  <2>2. UNCHANGED <<name, content, pc, running, list, launch, todo, changed,
                    reported>>
    BY <1>11 DEF Write, Move, pidfile, memory
  <2> QED BY <1>0, <1>2, <2>1, <2>2
<1>12. CASE UNCHANGED vars
  BY <1>0, <1>2, <1>12 DEF vars, pidfile, memory
<1> QED BY <1>3, <1>4, <1>5, <1>6, <1>7, <1>8, <1>9, <1>10, <1>11, <1>12, <1>13
        DEF Next, main

-------------------------------------------------------------------------------

LEMMA InductiveInvariant == Spec => []IInv
<1>1. IInv /\ [Next]_vars => IInv'
  BY LockStep, PidStep, TypeStep DEF IInv
<1> QED BY <1>1, InitIInv, PTL DEF Spec

\* Every reachable state is well typed, and a lock is held by a run that has
\* the locked file open.
THEOREM TypeCorrect == Spec => []TypeOK
<1>1. IInv => TypeOK
  BY DEF IInv
<1> QED BY <1>1, InductiveInvariant, PTL

\* However many daemons are started: those that monitor at the same time have
\* locked different files, so at most one of them the one PIDFILE names.
THEOREM LockTellsApart == Spec => []OneHolder
<1>1. IInv => OneHolder
  BY DEF IInv, LockInv, OneHolder, Monitors, Holding
<1> QED BY <1>1, InductiveInvariant, PTL

\* The PID in the file a daemon has locked is its own from its first check to
\* its last, whoever opens, reads or is refused that file.
THEOREM PidIsHolders == Spec => []PidOfHolder
<1>1. IInv => PidOfHolder
  BY DEF IInv
<1> QED BY <1>1, InductiveInvariant, PTL
================================================================================
