--------------------------- MODULE DirectoryDaemon ---------------------------
(***************************************************************************)
(* esami/SNP63/directory_daemon.c: a daemon that remembers the files below  *)
(* a directory, with their time and size, and reports what a later look     *)
(* finds modified, deleted or new.  A PID file, which only one run can      *)
(* create, is to keep a second one from running.                            *)
(***************************************************************************)
EXTENDS Integers, FiniteSets

CONSTANTS Run,            \* the times the program is started
          Sub,            \* the directories in the one that is watched
          File, dir,      \* the files, and the directory each is in
          Time, Size,     \* of a file, for stat
          MAX_CHANGES,    \* bound on what happens in the directories
          Mortal,         \* the runs that may be killed
          Relative,       \* those given a path relative to where they start
          ROOT, NONE

ASSUME RunAssumption == NONE \notin Run /\ Mortal \cup Relative \subseteq Run
ASSUME DirAssumption == ROOT \notin Sub /\ dir \in [File -> Sub \cup {ROOT}]
ASSUME EntryAssumption == Sub \cap File = {}
ASSUME ChangesAssumption == MAX_CHANGES \in Nat

Snapshot == [mtime : Time, size : Size]
GONE == [gone |-> TRUE]
In(d) == {f \in File : dir[f] = d}

VARIABLES
    tree,         \* each file's Snapshot, or GONE
    mode,         \* what each directory may be used for: "read" and "search"
    changes,
    PID_FILE,     \* the run that made it, or NONE
    pc, daemon_running,
    initial,      \* each run's initial_collection: the Snapshot of a file or GONE
    current,      \* the collection being made
    todo,         \* the entries of the open directories not yet read
    missed,       \* the files that were gone at some moment since their
                  \* directory was to be opened
    unreached,    \* those out of reach at some moment of the scan or check
    deleted       \* the files its last check has called deleted

files == <<tree, mode, changes>>
memory == <<initial, current, todo, missed, unreached, deleted>>
vars == <<files, PID_FILE, pc, daemon_running, memory>>

Nothing == [f \in File |-> GONE]

Init ==
    /\ \E s \in Snapshot \cup {GONE} : tree = [f \in File |-> s]
    /\ mode = [d \in Sub \cup {ROOT} |-> {"read", "search"}] /\ changes = 0
    /\ PID_FILE = NONE
    /\ pc = [r \in Run |-> "off"]
    /\ daemon_running = [r \in Run |-> TRUE]
    /\ initial = [r \in Run |-> Nothing]
    /\ current = [r \in Run |-> Nothing]
    /\ todo = [r \in Run |-> {}]
    /\ missed = [r \in Run |-> {}]
    /\ unreached = [r \in Run |-> {}]
    /\ deleted = [r \in Run |-> {}]

At(r, l) == pc[r] = l
Goto(r, l) == pc' = [pc EXCEPT ![r] = l]
Alive(r) == pc[r] \notin {"off", "gone", "killed"}

\* The end of a process takes its memory with it.
Gone(r, how) ==
    /\ Goto(r, how)
    /\ daemon_running' = [daemon_running EXCEPT ![r] = TRUE]
    /\ initial' = [initial EXCEPT ![r] = Nothing]
    /\ current' = [current EXCEPT ![r] = Nothing]
    /\ todo' = [todo EXCEPT ![r] = {}]
    /\ missed' = [missed EXCEPT ![r] = {}]
    /\ unreached' = [unreached EXCEPT ![r] = {}]
    /\ deleted' = [deleted EXCEPT ![r] = {}]

Collecting(r) == pc[r] \in {"scan", "check"}

\* opendir finds a directory, stat an entry, if the ones above may be searched.
Opens(d) == "read" \in mode[d] /\ (d = ROOT \/ "search" \in mode[ROOT])
Examines(f) == "search" \in mode[ROOT] \cap mode[dir[f]]
InReach(f) == Opens(dir[f]) /\ Examines(f)
OutOfReach == {f \in File : ~InReach(f)}

-------------------------------------------------------------------------------
(* What users do to the directories, at any time.                          *)

\* A file is written, replaced, removed or made; a change that leaves the
\* second and the size as they are cannot be told from none.
ChangeFile(f) ==
    /\ changes < MAX_CHANGES /\ changes' = changes + 1
    /\ \E s \in (Snapshot \cup {GONE}) \ {tree[f]} :
          /\ tree' = [tree EXCEPT ![f] = s]
          /\ missed' = [r \in Run |-> IF s = GONE /\ Collecting(r)
                                      THEN missed[r] \cup {f} ELSE missed[r]]
    /\ UNCHANGED <<mode, PID_FILE, pc, daemon_running, initial,
                   current, todo, unreached, deleted>>

\* A directory's permissions are changed, or it is moved away, which leaves it
\* neither, or back.
ChangeDirectory(d) ==
    /\ changes < MAX_CHANGES /\ changes' = changes + 1
    /\ \E m \in SUBSET {"read", "search"} \ {mode[d]} : mode' = [mode EXCEPT ![d] = m]
    /\ unreached' = [r \in Run |-> IF Collecting(r) THEN unreached[r] \cup OutOfReach'
                                   ELSE unreached[r]]
    /\ UNCHANGED <<tree, PID_FILE, pc, daemon_running, initial, current, todo,
                   missed, deleted>>

-------------------------------------------------------------------------------
(* collect_all_files_recursive, which the launch and every check call.     *)

\* The directory given is opened and its entries are to be read.
OpenRoot(r) ==
    /\ Opens(ROOT)
    /\ todo' = [todo EXCEPT ![r] = Sub \cup In(ROOT)]
    /\ missed' = [missed EXCEPT ![r] = {f \in File : tree[f] = GONE}]
    /\ unreached' = [unreached EXCEPT ![r] = OutOfReach]
    /\ deleted' = [deleted EXCEPT ![r] = {}]

\* A directory inside is read at once, before the entries that follow it; one
\* that stat cannot examine is passed over, and that one cannot be opened is not
\* looked at.
OpenSub(r, d) ==
    IF Opens(d)
    THEN /\ todo' = [todo EXCEPT ![r] = (@ \ {d}) \cup In(d)]
         /\ missed' = [missed EXCEPT ![r] =
                (@ \ In(d)) \cup {f \in In(d) : tree[f] = GONE}]
    ELSE /\ todo' = [todo EXCEPT ![r] = @ \ {d}]
         /\ UNCHANGED missed

Entries(r) ==
    LET inner == {x \in todo[r] \cap File : dir[x] # ROOT}
    IN  IF inner # {} THEN inner ELSE todo[r]

\* Variation: the first file that cannot be examined ends the directory.
collect_abort(r) ==
    /\ Collecting(r)
    /\ \E x \in Entries(r) :
          \/ /\ x \in Sub /\ OpenSub(r, x) /\ UNCHANGED current
          \/ /\ x \in File /\ tree[x] # GONE /\ Examines(x)
             /\ current' = [current EXCEPT ![r][x] = tree[x]]
             /\ todo' = [todo EXCEPT ![r] = @ \ {x}]
             /\ UNCHANGED missed
          \/ /\ x \in File /\ (x \in missed[r] \/ ~Examines(x))
             /\ todo' = [todo EXCEPT ![r] =
                   @ \ (In(dir[x]) \cup IF dir[x] = ROOT THEN Sub ELSE {})]
             /\ UNCHANGED <<current, missed>>
    /\ UNCHANGED <<files, PID_FILE, pc, daemon_running, initial, unreached, deleted>>

\* One entry, in any order.  A file added or removed while its directory is
\* read may be returned or not; one that has gone, or is in a directory that may
\* no longer be searched, cannot be examined and is passed over.
collect_all_files_recursive(r) ==
    /\ Collecting(r)
    /\ \E x \in Entries(r) :
          \/ /\ x \in Sub /\ OpenSub(r, x) /\ UNCHANGED current
          \/ /\ x \in File /\ tree[x] # GONE /\ Examines(x)
             /\ current' = [current EXCEPT ![r][x] = tree[x]]
             /\ todo' = [todo EXCEPT ![r] = @ \ {x}]
             /\ UNCHANGED missed
          \/ /\ x \in File /\ (x \in missed[r] \/ ~Examines(x))
             /\ todo' = [todo EXCEPT ![r] = @ \ {x}]
             /\ UNCHANGED <<current, missed>>
    /\ UNCHANGED <<files, PID_FILE, pc, daemon_running, initial, unreached, deleted>>

-------------------------------------------------------------------------------
(* main: the launch.                                                       *)

\* The first look is from where the user is; without the directory there is
\* nothing to watch.
Launch(r) ==
    /\ At(r, "off")
    /\ OpenRoot(r)
    /\ Goto(r, "scan")
    /\ UNCHANGED <<files, PID_FILE, daemon_running, initial, current>>

\* What was collected is kept; the process forks twice and moves to /.
daemonize(r) ==
    /\ At(r, "scan") /\ todo[r] = {}
    /\ initial' = [initial EXCEPT ![r] = current[r]]
    /\ current' = [current EXCEPT ![r] = Nothing]
    /\ missed' = [missed EXCEPT ![r] = {}]
    /\ unreached' = [unreached EXCEPT ![r] = {}]
    /\ Goto(r, "create")
    /\ UNCHANGED <<files, PID_FILE, daemon_running, todo, deleted>>

\* Variation: the cleanup is registered before the file is created, and the
\* run that is refused does it too.
create_after_atexit(r) ==
    /\ At(r, "create")
    /\ IF PID_FILE = NONE
       THEN PID_FILE' = r /\ Goto(r, "write") /\ UNCHANGED <<daemon_running, memory>>
       ELSE PID_FILE' = NONE /\ Gone(r, "gone")
    /\ UNCHANGED files

\* create_pid_file makes the file or, when there is one, gives up; whose it is,
\* and whether that run is still there, is not asked.
create_pid_file(r) ==
    /\ At(r, "create")
    /\ IF PID_FILE = NONE
       THEN PID_FILE' = r /\ Goto(r, "write") /\ UNCHANGED <<daemon_running, memory>>
       ELSE Gone(r, "gone") /\ UNCHANGED PID_FILE
    /\ UNCHANGED files

\* Its PID is written, or the file is removed again.
write_pid(r) ==
    /\ At(r, "write")
    /\ \/ Goto(r, "signal") /\ UNCHANGED <<PID_FILE, daemon_running, memory>>
       \/ PID_FILE' = NONE /\ Gone(r, "gone")
    /\ UNCHANGED files

signal(r) ==
    /\ At(r, "signal")
    /\ Goto(r, "atexit")
    /\ UNCHANGED <<files, PID_FILE, daemon_running, memory>>

atexit(r) ==
    /\ At(r, "atexit")
    /\ Goto(r, "loop")
    /\ UNCHANGED <<files, PID_FILE, daemon_running, memory>>

-------------------------------------------------------------------------------
(* daemon_main_loop.                                                       *)

\* A check is due every CHECK_TIME seconds; without the directory it is an
\* error, and nothing is compared: / is where a relative path starts by now.
daemon_main_loop(r) ==
    /\ At(r, "loop")
    /\ IF daemon_running[r]
       THEN r \notin Relative /\ OpenRoot(r) /\ Goto(r, "check")
       ELSE Goto(r, "cleanup") /\ UNCHANGED <<todo, missed, unreached, deleted>>
    /\ UNCHANGED <<files, PID_FILE, daemon_running, initial, current>>

\* Variation: modified only if both the time and the size are others.
is_modified_both(old, new) == old.mtime # new.mtime /\ old.size # new.size

is_modified(old, new) == old.mtime # new.mtime \/ old.size # new.size

\* check_directory_modifications compares: a deleted file is reported and stays
\* in the collection, a modified or a new one is reported and kept as it is now.
compare(r) ==
    /\ At(r, "check") /\ todo[r] = {}
    /\ LET old == initial[r]
           new == current[r]
           known == {f \in File : old[f] # GONE}
           found == {f \in File : new[f] # GONE}
           noted == {f \in found : f \notin known \/ is_modified(old[f], new[f])}
       IN  /\ deleted' = [deleted EXCEPT ![r] = known \ found]
           /\ initial' = [initial EXCEPT ![r] =
                 [f \in File |-> IF f \in noted THEN new[f] ELSE old[f]]]
    /\ current' = [current EXCEPT ![r] = Nothing]
    /\ Goto(r, "loop")
    /\ UNCHANGED <<files, PID_FILE, daemon_running, todo, missed, unreached>>

\* Variation: the file is left.
cleanup_keeps(r) ==
    /\ At(r, "cleanup")
    /\ Gone(r, "gone")
    /\ UNCHANGED <<files, PID_FILE>>

\* At exit cleanup_daemon removes the file the name stands for.
cleanup_daemon(r) ==
    /\ At(r, "cleanup")
    /\ PID_FILE' = NONE
    /\ Gone(r, "gone")
    /\ UNCHANGED files

Program(r) ==
    \/ collect_all_files_recursive(r) \/ daemonize(r) \/ create_pid_file(r)
    \/ write_pid(r) \/ signal(r) \/ atexit(r)
    \/ daemon_main_loop(r) \/ compare(r) \/ cleanup_daemon(r)

\* SIGTERM or SIGINT, once the handlers are there.
Handled(r) == Alive(r) /\ pc[r] \notin {"scan", "create", "write", "signal"}

signal_handler(r) ==
    /\ Handled(r)
    /\ daemon_running' = [daemon_running EXCEPT ![r] = FALSE]
    /\ UNCHANGED <<files, PID_FILE, pc, memory>>

\* SIGKILL, or any signal before the handlers are there.
Kill(r) == r \in Mortal /\ Alive(r) /\ Gone(r, "killed") /\ UNCHANGED <<files, PID_FILE>>

Next ==
    \/ \E r \in Run : Launch(r) \/ Program(r) \/ signal_handler(r) \/ Kill(r)
    \/ \E f \in File : ChangeFile(f)
    \/ \E d \in Sub \cup {ROOT} : ChangeDirectory(d)

Spec == Init /\ [][Next]_vars

\* A run that was started goes on; users need do nothing.
FairSpec == Spec /\ \A r \in Run : WF_vars(Program(r))

-------------------------------------------------------------------------------
(* Properties.                                                             *)

TypeOK ==
    /\ tree \in [File -> Snapshot \cup {GONE}]
    /\ mode \in [Sub \cup {ROOT} -> SUBSET {"read", "search"}]
    /\ changes \in 0 .. MAX_CHANGES
    /\ PID_FILE \in Run \cup {NONE}
    /\ pc \in [Run -> {"off", "scan", "create", "write", "signal", "atexit",
                       "loop", "check", "cleanup", "gone", "killed"}]
    /\ daemon_running \in [Run -> BOOLEAN]
    /\ initial \in [Run -> [File -> Snapshot \cup {GONE}]]
    /\ current \in [Run -> [File -> Snapshot \cup {GONE}]]
    /\ todo \in [Run -> SUBSET (Sub \cup File)]
    /\ missed \in [Run -> SUBSET File]
    /\ unreached \in [Run -> SUBSET File]
    /\ deleted \in [Run -> SUBSET File]

\* From the creation of the file to its removal a daemon's PID file is its own:
\* no other run's failure or end takes the name away, so two never watch.
OneDaemon ==
    \A r \in Run :
        pc[r] \in {"write", "signal", "atexit", "loop", "check", "cleanup"}
            => PID_FILE = r

\* Whatever changes during a check, a file is only called deleted if it was gone
\* at some moment since its directory was to be opened, or out of reach at some
\* moment of the check.
DeletedWasMissing == \A r \in Run : deleted[r] \subseteq missed[r] \cup unreached[r]

\* Not so: what is called deleted ("FILE CANCELLATO") was gone.  TLC finds a file
\* that was out of reach for a moment.
DeletedWasGone == \A r \in Run : deleted[r] \subseteq missed[r]

Watching(r) == pc[r] \in {"loop", "check"} /\ daemon_running[r]

\* The state of a file that stays, is within reach and is watched gets noticed:
\* a daemon given an absolute path keeps it as the last it has reported, and does not
\* call it deleted.
ChangeReported ==
    \A r \in Run \ Relative, f \in File, s \in Snapshot :
        LET stays == tree[f] = s /\ Watching(r) /\ Opens(ROOT) /\ InReach(f)
        IN  stays ~> ~stays \/ (initial[r][f] = s /\ f \notin deleted[r])

\* A daemon told to stop, that is not killed, ends and frees the name.
StopsAndFrees ==
    \A r \in Run : Handled(r) /\ ~daemon_running[r]
                      ~> At(r, "killed") \/ (At(r, "gone") /\ PID_FILE # r)
================================================================================
