------------------------------ MODULE FileMonitor ------------------------------
(***************************************************************************)
(* esami/Benchmark_altri/SNP63/directorydaemon.c: a daemon that remembers   *)
(* the files below a directory and reports those that change.  A PID file,  *)
(* which it keeps locked with flock, is to keep a second one from running.  *)
(* The file's name and the file it names are different things: a file that  *)
(* was unlinked lives on, with its lock, while somebody has it open.        *)
(***************************************************************************)
EXTENDS Integers, FiniteSets

CONSTANTS Run,           \* the times the program is started
          File,          \* the files below the directory
          Stamp,         \* what stat may show of one: size and second of change
          MAX_CHANGES,   \* bound on the times a file is written
          Mortal,        \* the runs that may be killed
          NONE

ASSUME RunAssumption == NONE \notin Run /\ Mortal \subseteq Run
ASSUME FileAssumption == NONE \notin Stamp /\ MAX_CHANGES \in Nat

VARIABLES
    file,       \* each file: whether stat finds it, its content, what stat shows
    name,       \* the file PIDFILE names, known by the run that created it
    content,    \* the PID in each of these files, NONE in an empty one
    locked,     \* who holds the lock of each of them
    pc, fd,     \* each run's step and the PID file it has open
    running,
    list,       \* the stamp of each file a run remembers, NONE if it has none
    launch,     \* the file as it found it at its launch
    todo,       \* the files left to look at in this scan or check
    changed,    \* the file check_file_modified has just found to be modified
    reported    \* the files it has reported

pidfile == <<name, content, locked, fd>>
memory == <<list, launch, todo, changed, reported>>
vars == <<file, pidfile, pc, running, memory>>

\* The content is known by the times it was written.
FileState == [there: BOOLEAN, rev: 0 .. MAX_CHANGES, stamp: Stamp]

Init ==
    /\ file \in [File -> [there: {TRUE}, rev: {0}, stamp: Stamp]]
    /\ name = NONE
    /\ content = [r \in Run |-> NONE]
    /\ locked = [r \in Run |-> NONE]
    /\ pc = [r \in Run |-> "off"]
    /\ fd = [r \in Run |-> NONE]
    /\ running = [r \in Run |-> TRUE]
    /\ list = [r \in Run |-> [f \in File |-> NONE]]
    /\ launch = [r \in Run |-> [f \in File |-> NONE]]
    /\ todo = [r \in Run |-> {}]
    /\ changed = [r \in Run |-> NONE]
    /\ reported = [r \in Run |-> {}]

At(r, l) == pc[r] = l
Goto(r, l) == pc' = [pc EXCEPT ![r] = l]
Alive(r) == pc[r] \notin {"off", "gone"}

\* The end of a process takes its memory with it.
Gone(r) ==
    /\ Goto(r, "gone")
    /\ running' = [running EXCEPT ![r] = TRUE]
    /\ list' = [list EXCEPT ![r] = [f \in File |-> NONE]]
    /\ launch' = [launch EXCEPT ![r] = [f \in File |-> NONE]]
    /\ todo' = [todo EXCEPT ![r] = {}]
    /\ changed' = [changed EXCEPT ![r] = NONE]
    /\ reported' = [reported EXCEPT ![r] = {}]

-------------------------------------------------------------------------------
(* Launch: the files are scanned, a running daemon is looked for, the lock  *)
(* is taken.                                                               *)

Launch(r) ==
    /\ At(r, "off")
    /\ todo' = [todo EXCEPT ![r] = File]
    /\ Goto(r, "scan")
    /\ UNCHANGED <<file, pidfile, running, list, launch, changed, reported>>

\* dopath and myfunc; a file that cannot be examined is not remembered.
Scan(r) ==
    /\ At(r, "scan")
    /\ \E f \in todo[r] :
          /\ todo' = [todo EXCEPT ![r] = @ \ {f}]
          /\ IF file[f].there
             THEN /\ list' = [list EXCEPT ![r][f] = file[f].stamp]
                  /\ launch' = [launch EXCEPT ![r][f] = file[f]]
             ELSE UNCHANGED <<list, launch>>
    /\ UNCHANGED <<file, pidfile, pc, running, changed, reported>>

\* A missing or empty PID file, or the PID of a process that is no more,
\* counts as nobody running.
is_already_running(r) ==
    /\ At(r, "scan") /\ todo[r] = {}
    /\ LET other == IF name = NONE THEN NONE ELSE content[name]
       IN  IF other # NONE /\ Alive(other)
           THEN Gone(r)
           ELSE Goto(r, "open") /\ UNCHANGED <<running, memory>>
    /\ UNCHANGED <<file, pidfile>>

\* Variation: opened with O_TRUNC, the file is emptied before it is locked.
OpenAndTruncate(r) ==
    /\ At(r, "open")
    /\ name' = IF name = NONE THEN r ELSE name
    /\ fd' = [fd EXCEPT ![r] = name']
    /\ content' = [content EXCEPT ![name'] = NONE]
    /\ Goto(r, "flock")
    /\ UNCHANGED <<file, locked, running, memory>>

\* create_lockfile opens the file the name stands for, or makes one.
OpenPidFile(r) ==
    /\ At(r, "open")
    /\ name' = IF name = NONE THEN r ELSE name
    /\ fd' = [fd EXCEPT ![r] = name']
    /\ Goto(r, "flock")
    /\ UNCHANGED <<file, content, locked, running, memory>>

\* A run that does not get the lock cleans up as if it had had it.
flock(r) ==
    /\ At(r, "flock")
    /\ \/ /\ locked[fd[r]] = NONE
          /\ locked' = [locked EXCEPT ![fd[r]] = r]
          /\ Goto(r, "ftruncate")
          /\ UNCHANGED fd
       \/ /\ locked[fd[r]] # NONE
          /\ fd' = [fd EXCEPT ![r] = NONE]
          /\ Goto(r, "unlink")
          /\ UNCHANGED locked
    /\ UNCHANGED <<file, name, content, running, memory>>

Truncate(r) ==
    /\ At(r, "ftruncate")
    /\ content' = [content EXCEPT ![fd[r]] = NONE]
    /\ Goto(r, "write")
    /\ UNCHANGED <<file, name, locked, fd, running, memory>>

WritePid(r) ==
    /\ At(r, "write")
    /\ content' = [content EXCEPT ![fd[r]] = r]
    /\ Goto(r, "loop")
    /\ UNCHANGED <<file, name, locked, fd, running, memory>>

-------------------------------------------------------------------------------
(* The loop, the end, the signals.                                         *)

\* The interval has passed: check_all_files goes through the list.
BeginCheck(r) ==
    /\ At(r, "loop") /\ running[r]
    /\ todo' = [todo EXCEPT ![r] = {f \in File : list[r][f] # NONE}]
    /\ Goto(r, "check")
    /\ UNCHANGED <<file, pidfile, running, list, launch, changed, reported>>

\* Variation: what is remembered is brought up to date before it is compared.
check_file_refreshed(r) ==
    /\ At(r, "check")
    /\ \E f \in todo[r] :
          /\ todo' = [todo EXCEPT ![r] = @ \ {f}]
          /\ list' = [list EXCEPT ![r][f] = IF file[f].there THEN file[f].stamp
                                            ELSE @]
    /\ UNCHANGED <<file, pidfile, pc, running, launch, changed, reported>>

\* A file stat does not find counts as unchanged, and so does one that shows the
\* size and the second remembered of it; any other is reported, and examined
\* again to be remembered as it is then.
check_file_modified(r) ==
    /\ At(r, "check")
    /\ \E f \in todo[r] :
          /\ todo' = [todo EXCEPT ![r] = @ \ {f}]
          /\ \/ /\ ~file[f].there \/ file[f].stamp = list[r][f]
                /\ UNCHANGED <<pc, changed, reported>>
             \/ /\ file[f].there /\ file[f].stamp # list[r][f]
                /\ changed' = [changed EXCEPT ![r] = f]
                /\ reported' = [reported EXCEPT ![r] = @ \cup {f}]
                /\ Goto(r, "update")
    /\ UNCHANGED <<file, pidfile, running, list, launch>>

Update(r) ==
    /\ At(r, "update")
    /\ LET seen == file[changed[r]]
       IN  list' = [list EXCEPT ![r][changed[r]] =
                        IF seen.there THEN seen.stamp ELSE @]
    /\ changed' = [changed EXCEPT ![r] = NONE]
    /\ Goto(r, "check")
    /\ UNCHANGED <<file, pidfile, running, launch, todo, reported>>

EndCheck(r) ==
    /\ At(r, "check") /\ todo[r] = {}
    /\ Goto(r, "loop")
    /\ UNCHANGED <<file, pidfile, running, memory>>

LeaveLoop(r) ==
    /\ At(r, "loop") /\ ~running[r]
    /\ Goto(r, "close")
    /\ UNCHANGED <<file, pidfile, running, memory>>

Released(r) == [i \in Run |-> IF locked[i] = r THEN NONE ELSE locked[i]]

\* remove_lockfile closes the file, which gives the lock up, and unlinks the
\* name, whatever it stands for by then.
CloseLockFile(r) ==
    /\ At(r, "close")
    /\ locked' = Released(r)
    /\ fd' = [fd EXCEPT ![r] = NONE]
    /\ Goto(r, "unlink")
    /\ UNCHANGED <<file, name, content, running, memory>>

remove_lockfile(r) ==
    /\ At(r, "unlink")
    /\ name' = NONE
    /\ Gone(r)
    /\ UNCHANGED <<file, content, locked, fd>>

\* SIGTERM or SIGINT, for which there is a handler once it is a daemon; before,
\* the signal ends it at once, as a crash or SIGKILL does at any time.
signal_handler(r) ==
    /\ Alive(r) /\ pc[r] # "scan"
    /\ running[r]
    /\ running' = [running EXCEPT ![r] = FALSE]
    /\ UNCHANGED <<file, pidfile, pc, memory>>

Crash(r) ==
    /\ Alive(r) /\ (r \in Mortal \/ pc[r] = "scan")
    /\ Gone(r)
    /\ locked' = Released(r)
    /\ fd' = [fd EXCEPT ![r] = NONE]
    /\ UNCHANGED <<file, name, content>>

\* The users of the directory.  Written again within the second, or given back its
\* time, a file of the same size shows what it showed before.
Write(f) ==
    /\ file[f].rev < MAX_CHANGES
    /\ \E s \in Stamp : file' = [file EXCEPT ![f].rev = @ + 1, ![f].stamp = s]
    /\ UNCHANGED <<pidfile, pc, running, memory>>

\* A file is removed or put out of reach, or is there again as it was.
Move(f) ==
    /\ file' = [file EXCEPT ![f].there = ~@]
    /\ UNCHANGED <<pidfile, pc, running, memory>>

-------------------------------------------------------------------------------

main(r) ==
    \/ Scan(r) \/ is_already_running(r) \/ OpenPidFile(r) \/ flock(r)
    \/ Truncate(r) \/ WritePid(r)
    \/ BeginCheck(r) \/ check_file_modified(r) \/ Update(r) \/ EndCheck(r)
    \/ LeaveLoop(r) \/ CloseLockFile(r) \/ remove_lockfile(r)

Next ==
    \/ \E r \in Run : Launch(r) \/ main(r) \/ signal_handler(r) \/ Crash(r)
    \/ \E f \in File : Write(f) \/ Move(f)

Spec == Init /\ [][Next]_vars

\* A process runs, and time goes by: the loop never sleeps but after a check.
FairSpec == Spec /\ \A r \in Run : WF_vars(main(r))

-------------------------------------------------------------------------------
(* Properties.                                                             *)

Labels == {"off", "scan", "open", "flock", "ftruncate", "write", "loop",
           "check", "update", "close", "unlink", "gone"}

Monitors(r) == pc[r] \in {"loop", "check", "update"}

\* Values in range, and nobody holds the lock of a file it does not have open.
TypeOK ==
    /\ file \in [File -> FileState]
    /\ name \in Run \cup {NONE}
    /\ content \in [Run -> Run \cup {NONE}]
    /\ \A i \in Run : locked[i] # NONE => fd[locked[i]] = i
    /\ pc \in [Run -> Labels]
    /\ running \in [Run -> BOOLEAN]
    /\ list \in [Run -> [File -> Stamp \cup {NONE}]]
    /\ launch \in [Run -> [File -> FileState \cup {NONE}]]
    /\ todo \in [Run -> SUBSET File]
    /\ changed \in [Run -> File \cup {NONE}]
    /\ \A r \in Run : At(r, "update") => changed[r] \in File
    /\ reported \in [Run -> SUBSET File]

\* What the lock does achieve: daemons that monitor at the same time have locked
\* different files, so at most one of them the file PIDFILE names.
OneHolder == \A q, r \in Run : Monitors(q) /\ Monitors(r) /\ q # r => fd[q] # fd[r]

\* The file a daemon holds the lock of has its own PID in it: nobody else has
\* emptied or written it, though others open it and try.
PidOfHolder == \A r \in Run : Monitors(r) => content[fd[r]] = r

Watched(r, f) == Monitors(r) /\ launch[r][f] # NONE /\ file[f].there

\* A file whose size or second of change is not what it was "at the moment of its
\* launch" is reported, if it stays so and the daemon lasts long enough, and so is,
\* each time, one that is not as it is remembered, also when it is written between
\* the look that finds it modified and the one that is remembered.
ChangeReported ==
    \A r \in Run, f \in File :
        /\ Watched(r, f) /\ file[f].stamp # launch[r][f].stamp
              ~> \/ f \in reported[r] \/ ~Watched(r, f)
                 \/ file[f].stamp = launch[r][f].stamp
        /\ Watched(r, f) /\ file[f].stamp # list[r][f]
              ~> changed[r] = f \/ ~Watched(r, f) \/ file[f].stamp = list[r][f]

\* Not so: the user is told when a file "è stato modificato rispetto al momento del
\* suo lancio", whatever its size and its second of change are.  TLC finds one
\* written within the second, with the size it had.
WrittenReported ==
    \A r \in Run, f \in File :
        Watched(r, f) /\ file[f].rev # launch[r][f].rev
            ~> f \in reported[r] \/ ~Watched(r, f)
================================================================================
