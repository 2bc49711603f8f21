------------------------------ MODULE DirScanner ------------------------------
(***************************************************************************)
(* esami/SNP58_scanner_directory/code.c: one thread walks a directory tree  *)
(* and puts every entry in a circular buffer; another takes the entries out *)
(* and adds up the sizes, skipping those whose inode it has seen.  Mutex    *)
(* and condition variables are modelled step by step: a wait gives the     *)
(* mutex up and falls asleep at once, is ended by a signal or for no reason, *)
(* and has to take the mutex again.  Its names are its own, so that a module *)
(* of proofs can extend it and another program's.                          *)
(***************************************************************************)
EXTENDS Integers, Sequences, FiniteSets, FiniteSetsExt

CONSTANTS
    Entry,         \* the directory entries of the tree
    START,         \* the directory the scan starts from
    Parent,        \* the directory each entry is in
    Dirs,          \* the entries that are directories
    FileOf,        \* the file each entry is a link to
    Inode,         \* the inode number of each file, unique on one device only
    Bytes,         \* the size of each file
    Unreadable,    \* the directories opendir fails on
    Unstatable,    \* the entries lstat fails on
    BUFFER_SIZE, MAX_INODES, NIL

ASSUME TreeAssumption ==
    /\ IsFiniteSet(Entry) /\ START \notin Entry
    /\ NIL \notin Entry \cup {"scanner", "counter"}
    /\ Dirs \subseteq Entry
    /\ Unreadable \subseteq Dirs \cup {START} /\ Unstatable \subseteq Entry
    /\ Parent \in [Entry -> Dirs \cup {START}]
    /\ \A S \in SUBSET Entry : S # {} => \E e \in S : Parent[e] \notin S
ASSUME SizeAssumption == \A e \in Entry : Bytes[FileOf[e]] \in Nat
ASSUME LimitsAssumption == BUFFER_SIZE \in Nat \ {0} /\ MAX_INODES \in Nat

VARIABLES
    nodes, write_index, read_index, count, finished,    \* SharedBuffer
    mutex,          \* who holds shared_buffer.mutex
    asleep,         \* the threads asleep in a cond_wait
    step,
    open,           \* for each open directory, the entries readdir has left
    node_info,      \* the entry the scanner is adding
    node,           \* the entry the counter took last
    inodes,         \* the inode numbers in the table
    total_bytes,
    scanner_errors,
    processed       \* the entries the counter has been through

buffer == <<nodes, write_index, read_index, count>>
walk == <<open, node_info, scanner_errors>>
tally == <<node, inodes, total_bytes, processed>>
scanVars == <<buffer, finished, mutex, asleep, step, walk, tally>>

Slot == 0 .. BUFFER_SIZE - 1
Thread == {"scanner", "counter"}

ScanInit ==
    /\ nodes = [i \in Slot |-> NIL]
    /\ write_index = 0 /\ read_index = 0 /\ count = 0
    /\ finished = FALSE
    /\ mutex = NIL
    /\ asleep = {}
    /\ step = [t \in Thread |-> IF t = "scanner" THEN "opendir" ELSE "lock"]
    /\ open = <<>>
    /\ node_info = START
    /\ node = NIL
    /\ inodes = {}
    /\ total_bytes = 0
    /\ scanner_errors = 0
    /\ processed = {}

ThreadAt(t, l) == step[t] = l
ThreadGoto(t, l) == step' = [step EXCEPT ![t] = l]

-------------------------------------------------------------------------------
(* The mutex and the condition variables.  Each condition has one waiter at *)
(* most: not_full the scanner, not_empty the counter.                      *)

Lock(t) ==
    /\ ThreadAt(t, "lock")
    /\ mutex = NIL
    /\ mutex' = t
    /\ ThreadGoto(t, "test")
    /\ UNCHANGED <<buffer, finished, asleep, walk, tally>>

cond_wait(t) ==
    /\ ThreadAt(t, "wait")
    /\ mutex' = NIL
    /\ asleep' = asleep \cup {t}
    /\ ThreadGoto(t, "asleep")
    /\ UNCHANGED <<buffer, finished, walk, tally>>

\* A signalled thread, or one that wakes up spuriously, takes the mutex and
\* tests again.
Wake(t) ==
    /\ ThreadAt(t, "asleep") /\ t \notin asleep
    /\ ThreadGoto(t, "lock")
    /\ UNCHANGED <<buffer, finished, mutex, asleep, walk, tally>>

Spurious(t) ==
    /\ t \in asleep
    /\ asleep' = asleep \ {t}
    /\ UNCHANGED <<buffer, finished, mutex, step, walk, tally>>

Unlock(t, next) ==
    /\ ThreadAt(t, "unlock")
    /\ mutex' = NIL
    /\ ThreadGoto(t, next)
    /\ UNCHANGED <<buffer, finished, asleep, walk, tally>>

\* Giving the mutex up is the last thing the thread does with the buffer.
UnlockAndEnd(t) ==
    /\ ThreadAt(t, "end")
    /\ mutex' = NIL
    /\ ThreadGoto(t, "done")
    /\ UNCHANGED <<buffer, finished, asleep, walk, tally>>

-------------------------------------------------------------------------------
(* The scanner.                                                            *)

ChildrenOf(d) == {e \in Entry : Parent[e] = d}

\* scan_directory_recursive(node_info), the entry just added, or the root.
opendir ==
    /\ ThreadAt("scanner", "opendir")
    /\ \/ /\ node_info \in Unreadable
          /\ scanner_errors' = scanner_errors + 1
          /\ UNCHANGED open
       \/ /\ node_info \notin Unreadable
          /\ open' = Append(open, ChildrenOf(node_info))
          /\ UNCHANGED scanner_errors
    /\ ThreadGoto("scanner", "readdir")
    /\ UNCHANGED <<buffer, finished, mutex, asleep, node_info, tally>>

Top == open[Len(open)]

\* readdir returns the entries in any order; those lstat fails on are skipped.
readdir ==
    /\ ThreadAt("scanner", "readdir")
    /\ open # <<>>
    /\ \E e \in Top :
          /\ open' = [open EXCEPT ![Len(open)] = @ \ {e}]
          /\ \/ /\ e \in Unstatable
                /\ scanner_errors' = scanner_errors + 1
                /\ UNCHANGED <<step, node_info>>
             \/ /\ e \notin Unstatable
                /\ node_info' = e
                /\ ThreadGoto("scanner", "lock")
                /\ UNCHANGED scanner_errors
    /\ UNCHANGED <<buffer, finished, mutex, asleep, tally>>

closedir ==
    /\ ThreadAt("scanner", "readdir")
    /\ open # <<>>
    /\ Top = {}
    /\ open' = SubSeq(open, 1, Len(open) - 1)
    /\ UNCHANGED <<buffer, finished, mutex, asleep, step, node_info,
                   scanner_errors, tally>>

\* add_node_to_buffer: wait while the buffer is full, add, signal.
TestFull ==
    /\ ThreadAt("scanner", "test")
    /\ ThreadGoto("scanner", IF count >= BUFFER_SIZE THEN "wait" ELSE "put")
    /\ UNCHANGED <<buffer, finished, mutex, asleep, walk, tally>>

\* Variation: the index goes back to 0 one slot too late.
PutNodeLateWrap ==
    /\ ThreadAt("scanner", "put")
    /\ nodes' = [nodes EXCEPT ![write_index] = node_info]
    /\ write_index' = IF write_index + 1 >= BUFFER_SIZE
                      THEN BUFFER_SIZE - 1 ELSE write_index + 1
    /\ count' = count + 1
    /\ asleep' = asleep \ {"counter"}
    /\ ThreadGoto("scanner", "unlock")
    /\ UNCHANGED <<read_index, finished, mutex, walk, tally>>

PutNode ==
    /\ ThreadAt("scanner", "put")
    /\ nodes' = [nodes EXCEPT ![write_index] = node_info]
    /\ write_index' = (write_index + 1) % BUFFER_SIZE
    /\ count' = count + 1
    /\ asleep' = asleep \ {"counter"}
    /\ ThreadGoto("scanner", "unlock")
    /\ UNCHANGED <<read_index, finished, mutex, walk, tally>>

\* A directory is entered as soon as it is in the buffer.
NodeAdded ==
    Unlock("scanner", IF node_info \in Dirs THEN "opendir" ELSE "readdir")

\* Variation: the flag is set without the mutex.
FinishUnlocked ==
    /\ ThreadAt("scanner", "readdir")
    /\ open = <<>>
    /\ finished' = TRUE
    /\ asleep' = asleep \ {"counter"}
    /\ ThreadGoto("scanner", "done")
    /\ UNCHANGED <<buffer, mutex, walk, tally>>

\* The recursion is over: signal_scan_finished.
LockToFinish ==
    /\ ThreadAt("scanner", "readdir")
    /\ open = <<>>
    /\ mutex = NIL
    /\ mutex' = "scanner"
    /\ ThreadGoto("scanner", "finish")
    /\ UNCHANGED <<buffer, finished, asleep, walk, tally>>

signal_scan_finished ==
    /\ ThreadAt("scanner", "finish")
    /\ finished' = TRUE
    /\ asleep' = asleep \ {"counter"}
    /\ ThreadGoto("scanner", "end")
    /\ UNCHANGED <<buffer, mutex, walk, tally>>

-------------------------------------------------------------------------------
(* The counter.                                                            *)

\* Variation: the end of the scan ends the counter whatever the buffer holds.
TestEmptyHasty ==
    /\ ThreadAt("counter", "test")
    /\ ThreadGoto("counter", IF finished THEN "end"
                       ELSE IF count = 0 THEN "wait" ELSE "get")
    /\ UNCHANGED <<buffer, finished, mutex, asleep, walk, tally>>

\* get_node_from_buffer: wait for an entry or the end of the scan.
TestEmpty ==
    /\ ThreadAt("counter", "test")
    /\ ThreadGoto("counter", IF count = 0 /\ ~finished THEN "wait"
                       ELSE IF count > 0 THEN "get" ELSE "end")
    /\ UNCHANGED <<buffer, finished, mutex, asleep, walk, tally>>

GetNode ==
    /\ ThreadAt("counter", "get")
    /\ node' = nodes[read_index]
    /\ read_index' = (read_index + 1) % BUFFER_SIZE
    /\ count' = count - 1
    /\ asleep' = asleep \ {"scanner"}
    /\ ThreadGoto("counter", "unlock")
    /\ UNCHANGED <<nodes, write_index, finished, mutex, walk, inodes,
                   total_bytes, processed>>

NodeTaken == Unlock("counter", "tally")

\* Variation: an inode is remembered when it is seen for the second time.
TallyLate ==
    /\ ThreadAt("counter", "tally")
    /\ LET i == Inode[FileOf[node]]
       IN  /\ total_bytes' = IF i \in inodes THEN total_bytes
                             ELSE total_bytes + Bytes[FileOf[node]]
           /\ inodes' = IF /\ \E e \in processed : Inode[FileOf[e]] = i
                           /\ Cardinality(inodes) < MAX_INODES
                        THEN inodes \cup {i} ELSE inodes
    /\ processed' = processed \cup {node}
    /\ ThreadGoto("counter", "lock")
    /\ UNCHANGED <<buffer, finished, mutex, asleep, walk, node>>

\* is_inode_visited, which enters the inode while the table has room.
is_inode_visited ==
    /\ ThreadAt("counter", "tally")
    /\ LET i == Inode[FileOf[node]]
       IN  /\ total_bytes' = IF i \in inodes THEN total_bytes
                             ELSE total_bytes + Bytes[FileOf[node]]
           /\ inodes' = IF Cardinality(inodes) < MAX_INODES
                        THEN inodes \cup {i} ELSE inodes
    /\ processed' = processed \cup {node}
    /\ ThreadGoto("counter", "lock")
    /\ UNCHANGED <<buffer, finished, mutex, asleep, walk, node>>

Scanner ==
    \/ opendir \/ readdir \/ closedir \/ Lock("scanner") \/ TestFull
    \/ cond_wait("scanner") \/ Wake("scanner") \/ PutNode \/ NodeAdded
    \/ LockToFinish \/ signal_scan_finished \/ UnlockAndEnd("scanner")

Counter ==
    \/ Lock("counter") \/ TestEmpty \/ cond_wait("counter")
    \/ Wake("counter") \/ GetNode \/ NodeTaken \/ is_inode_visited
    \/ UnlockAndEnd("counter")

ScanNext == Scanner \/ Counter \/ \E t \in Thread : Spurious(t)

ScanSpec == ScanInit /\ [][ScanNext]_scanVars

\* Both threads run; nothing makes a spurious wake-up happen.
ScanFairSpec ==
    /\ ScanSpec
    /\ WF_scanVars(Scanner) /\ WF_scanVars(Counter)
    /\ SF_scanVars(Lock("scanner")) /\ SF_scanVars(LockToFinish)
    /\ SF_scanVars(Lock("counter"))

-------------------------------------------------------------------------------
(* Properties.                                                             *)

\* The circular buffer is a stream: the k-th entry taken is the k-th put, and
\* the counter sees the end only after the last one (get_node_from_buffer
\* returns 0).
InTransit == [k \in 1 .. count |-> nodes[(read_index + k - 1) % BUFFER_SIZE]]

Took == step["counter"] \in {"unlock", "tally"}

AbstractStream == INSTANCE Stream WITH
    Item <- Entry \cup {NIL}, Capacity <- BUFFER_SIZE,
    queue <- InTransit, closed <- finished, last <- node,
    taken <- Cardinality(processed) + (IF Took THEN 1 ELSE 0),
    ended <- step["counter"] \in {"end", "done"}

ImplementsStream == AbstractStream!Spec

SizeOf(files) == MapThenSumSet(LAMBDA f : Bytes[f], files)
Counted == {FileOf[e] : e \in processed}

\* As long as the table holds every inode met, each file counts once however
\* many links the scan met ("omitting the increment when the inode has
\* already been considered").  Inode numbers are unique in these instances.
TotalExact ==
    Cardinality({Inode[f] : f \in Counted}) <= MAX_INODES =>
        total_bytes = SizeOf(Counted)

\* Entries the scan can reach: every directory above was read.
Reached[e \in Entry] ==
    /\ e \notin Unstatable
    /\ Parent[e] \notin Unreadable
    /\ Parent[e] # START => Reached[Parent[e]]

\* When both threads are done the counter has been through every entry of a
\* directory that could be read, and the error count tells how many entries
\* and directories were left out.
ScanComplete ==
    step["scanner"] = "done" /\ step["counter"] = "done" =>
        /\ processed = {e \in Entry : Reached[e]}
        /\ scanner_errors =
              Cardinality({d \in Unreadable : d = START \/ Reached[d]})
              + Cardinality({e \in Unstatable :
                    /\ Parent[e] \notin Unreadable
                    /\ Parent[e] = START \/ Reached[Parent[e]]})

\* Both threads end: no wake-up is lost, whatever the size of the buffer.
Termination == <>(step["scanner"] = "done" /\ step["counter"] = "done")
================================================================================
