------------------------------- MODULE ProdCons -------------------------------
(***************************************************************************)
(* esami/MEMORIA_CONDIVISA/SNP77: a producer (prod.c) adds records to an    *)
(* array in shared memory; consumers (const1.c and const2.c, the same text) *)
(* remove one at random and append it to a mapped file.  The array is       *)
(* guarded by one named semaphore, the file by another.  Names can be       *)
(* unlinked and created again while processes still use the old object, so  *)
(* a semaphore or a segment is an object of its own, known by the process   *)
(* that created it, and a name refers to at most one object.                *)
(***************************************************************************)
EXTENDS Integers, FiniteSets

CONSTANTS Prod,         \* the runs of prod
          Cons,         \* the runs of const1 and const2
          NONE,
          MAX_RECORD,   \* size of the shared array
          FILE_SIZE,    \* size of the file; its first unit holds the offset
          Len,          \* the length of each record's line in the file
          MAX_ADDS,     \* bound on the number of records produced
          Mortal        \* the runs that may be killed

ASSUME ProcsAssumption == Prod \cap Cons = {} /\ NONE \notin Prod \cup Cons
ASSUME RecordsAssumption == MAX_RECORD \in Nat \ {0} /\ MAX_ADDS \in Nat
ASSUME LenAssumption == /\ FILE_SIZE \in Nat
                        /\ Len \in [1 .. MAX_ADDS -> 1 .. FILE_SIZE - 2]

Proc == Prod \cup Cons
Index == 0 .. MAX_RECORD - 1
\* Records are numbered as they are produced; 0 stands for the one that says
\* "nothing removed", and for the contents of a fresh array or file.
Record == 1 .. MAX_ADDS
EMPTY == 0
Unit == 1 .. FILE_SIZE - 1

VARIABLES
    name,       \* the object each name refers to
    sem,        \* the value of the semaphore created by each process
    seg,        \* the segment created by each producer
    file,       \* offset and contents of the mapped file
    proc,       \* every process: its step, what it has open, what it holds
    continua_esecuzione,
    added,      \* number of records produced
    lost        \* records dropped when the array or the file starts over

vars == <<name, sem, seg, file, proc, continua_esecuzione, added, lost>>

NewSegment == [sized |-> FALSE, items |-> 0,
               array |-> [i \in Index |-> EMPTY]]

Init ==
    /\ name = [o \in {"memory", "file", "data"} |-> NONE]
    /\ sem = [p \in Proc |-> 0]
    /\ seg = [p \in Prod |-> NewSegment]
    /\ file = [offset |-> 0, cell |-> [u \in Unit |-> EMPTY]]
    /\ proc = [p \in Proc |-> [pc |-> "start", msem |-> NONE, fsem |-> NONE,
                               data |-> NONE, hand |-> EMPTY, idx |-> 0]]
    /\ continua_esecuzione = [p \in Proc |-> TRUE]
    /\ added = 0
    /\ lost = {}

At(p, l) == proc[p].pc = l
Goto(p, l) == proc' = [proc EXCEPT ![p].pc = l]

\* What p has mapped.
Data(p) == seg[proc[p].data]

\* sem_wait and sem_post on the object s: from step l on to step m.
Wait(p, s, l, m) ==
    /\ At(p, l)
    /\ sem[s] > 0
    /\ sem' = [sem EXCEPT ![s] = @ - 1]
    /\ Goto(p, m)
    /\ UNCHANGED <<name, seg, file, continua_esecuzione, added, lost>>

Post(p, s, l, m) ==
    /\ At(p, l)
    /\ sem' = [sem EXCEPT ![s] = @ + 1]
    /\ Goto(p, m)
    /\ UNCHANGED <<name, seg, file, continua_esecuzione, added, lost>>

\* Unlinking a name leaves the object to those who have it open.
Unlink(p, n, l, m) ==
    /\ At(p, l)
    /\ name' = [name EXCEPT ![n] = NONE]
    /\ Goto(p, m)
    /\ UNCHANGED <<sem, seg, file, continua_esecuzione, added, lost>>

-------------------------------------------------------------------------------
(* The producer: set-up, loop, cleanup.                                    *)

ForgetSemaphore(p) == p \in Prod /\ Unlink(p, "memory", "start", "sem_open")

init_semaphore(p) ==
    /\ p \in Prod /\ At(p, "sem_open")
    /\ \/ /\ name["memory"] = NONE
          /\ name' = [name EXCEPT !["memory"] = p]
          /\ sem' = [sem EXCEPT ![p] = 1]
       \/ name["memory"] # NONE /\ UNCHANGED <<name, sem>>
    /\ proc' = [proc EXCEPT ![p].pc = "shm_open",
                            ![p].msem = name'["memory"]]
    /\ UNCHANGED <<seg, file, continua_esecuzione, added, lost>>

OpenSegment(p) ==
    /\ p \in Prod /\ At(p, "shm_open")
    /\ \/ name["data"] = NONE /\ name' = [name EXCEPT !["data"] = p]
       \/ name["data"] # NONE /\ UNCHANGED name
    /\ proc' = [proc EXCEPT ![p].pc = "ftruncate", ![p].data = name'["data"]]
    /\ UNCHANGED <<sem, seg, file, continua_esecuzione, added, lost>>

SizeSegment(p) ==
    /\ p \in Prod /\ At(p, "ftruncate")
    /\ seg' = [seg EXCEPT ![proc[p].data].sized = TRUE]
    /\ Goto(p, "init")
    /\ UNCHANGED <<name, sem, file, continua_esecuzione, added, lost>>

Contents(s) == {s.array[i] : i \in {j \in Index : j < s.items}} \ {EMPTY}

\* init_shared_array sets items and then clears the array, with no lock.
ResetItems(p) ==
    /\ p \in Prod /\ At(p, "init")
    /\ seg' = [seg EXCEPT ![proc[p].data].items = 0]
    /\ lost' = lost \cup Contents(Data(p))
    /\ Goto(p, "clear")
    /\ UNCHANGED <<name, sem, file, continua_esecuzione, added>>

ClearArray(p) ==
    /\ p \in Prod /\ At(p, "clear")
    /\ seg' = [seg EXCEPT ![proc[p].data].array = [i \in Index |-> EMPTY]]
    /\ Goto(p, "loop")
    /\ UNCHANGED <<name, sem, file, continua_esecuzione, added, lost>>

generate_record(p) ==
    /\ p \in Prod /\ At(p, "loop")
    /\ continua_esecuzione[p]
    /\ added < MAX_ADDS
    /\ added' = added + 1
    /\ proc' = [proc EXCEPT ![p].pc = "wait", ![p].hand = added + 1]
    /\ UNCHANGED <<name, sem, seg, file, continua_esecuzione, lost>>

AcquireArray(p) == p \in Prod /\ Wait(p, proc[p].msem, "wait", "add")

\* A full array starts over: what it held is dropped.
CopyRecord(p) ==
    /\ p \in Prod /\ At(p, "add")
    /\ LET s == Data(p)
           full == s.items >= MAX_RECORD
           at == IF full THEN 0 ELSE s.items
       IN  /\ seg' = [seg EXCEPT ![proc[p].data].items = at,
                                 ![proc[p].data].array[at] = proc[p].hand]
           /\ lost' = IF full THEN lost \cup Contents(s) ELSE lost
    /\ Goto(p, "count")
    /\ UNCHANGED <<name, sem, file, continua_esecuzione, added>>

CountRecord(p) ==
    /\ p \in Prod /\ At(p, "count")
    /\ seg' = [seg EXCEPT ![proc[p].data].items = @ + 1]
    /\ proc' = [proc EXCEPT ![p].pc = "post", ![p].hand = EMPTY]
    /\ UNCHANGED <<name, sem, file, continua_esecuzione, added, lost>>

ReleaseArray(p) == p \in Prod /\ Post(p, proc[p].msem, "post", "loop")

StopProducing(p) ==
    /\ p \in Prod /\ At(p, "loop")
    /\ ~continua_esecuzione[p]
    /\ Goto(p, "cleanup")
    /\ UNCHANGED <<name, sem, seg, file, continua_esecuzione, added, lost>>

cleanup_shared_memory(p) ==
    p \in Prod /\ Unlink(p, "data", "cleanup", "sem_unlink")

cleanup_semaphore(p) ==
    p \in Prod /\ Unlink(p, "memory", "sem_unlink", "done")

-------------------------------------------------------------------------------
(* A consumer: set-up.  A failed open ends it, as does running out of       *)
(* records; only the orderly end unlinks the semaphore of the file.        *)

OrExit(n, l) == IF name[n] = NONE THEN "done" ELSE l

init_semaphore_shared_memory(p) ==
    /\ p \in Cons /\ At(p, "start")
    /\ proc' = [proc EXCEPT ![p].pc = OrExit("memory", "file_open"),
                            ![p].msem = name["memory"]]
    /\ UNCHANGED <<name, sem, seg, file, continua_esecuzione, added, lost>>

init_semaphore_file(p) ==
    /\ p \in Cons /\ At(p, "file_open")
    /\ proc' = [proc EXCEPT
          ![p].pc = IF name["file"] = NONE THEN "file_excl" ELSE "shm_open",
          ![p].fsem = name["file"]]
    /\ UNCHANGED <<name, sem, seg, file, continua_esecuzione, added, lost>>

\* Variation: the create is not exclusive and sets the value again.
CreateOverFileSemaphore(p) ==
    /\ p \in Cons /\ At(p, "file_excl")
    /\ name' = [name EXCEPT !["file"] = p]
    /\ sem' = [sem EXCEPT ![p] = 1]
    /\ proc' = [proc EXCEPT ![p].pc = "shm_open", ![p].fsem = p]
    /\ UNCHANGED <<seg, file, continua_esecuzione, added, lost>>

CreateFileSemaphore(p) ==
    /\ p \in Cons /\ At(p, "file_excl")
    /\ \/ /\ name["file"] = NONE
          /\ name' = [name EXCEPT !["file"] = p]
          /\ sem' = [sem EXCEPT ![p] = 1]
          /\ proc' = [proc EXCEPT ![p].pc = "shm_open", ![p].fsem = p]
       \/ /\ name["file"] # NONE
          /\ Goto(p, "file_again")
          /\ UNCHANGED <<name, sem>>
    /\ UNCHANGED <<seg, file, continua_esecuzione, added, lost>>

ReopenFileSemaphore(p) ==
    /\ p \in Cons /\ At(p, "file_again")
    /\ proc' = [proc EXCEPT ![p].pc = OrExit("file", "shm_open"),
                            ![p].fsem = name["file"]]
    /\ UNCHANGED <<name, sem, seg, file, continua_esecuzione, added, lost>>

init_shared_memory(p) ==
    /\ p \in Cons /\ At(p, "shm_open")
    /\ proc' = [proc EXCEPT ![p].pc = OrExit("data", "loop"),
                            ![p].data = name["data"]]
    /\ UNCHANGED <<name, sem, seg, file, continua_esecuzione, added, lost>>

-------------------------------------------------------------------------------
(* A consumer: one record from the array to the file.                      *)

ConsumeOn(p) ==
    /\ p \in Cons /\ At(p, "loop")
    /\ Goto(p, IF continua_esecuzione[p] THEN "wait" ELSE "cleanup")
    /\ UNCHANGED <<name, sem, seg, file, continua_esecuzione, added, lost>>

AcquireToRemove(p) == p \in Cons /\ Wait(p, proc[p].msem, "wait", "pick")

\* Variation: the record is copied, its place is not recorded.
PickFirst(p) ==
    /\ p \in Cons /\ At(p, "pick")
    /\ \/ /\ Data(p).sized /\ Data(p).items # 0
          /\ \E i \in 0 .. Data(p).items - 1 :
                proc' = [proc EXCEPT ![p].pc = "shift", ![p].idx = 0,
                                     ![p].hand = Data(p).array[i]]
       \/ Data(p).sized /\ Data(p).items = 0 /\ Goto(p, "cleanup")
       \/ ~Data(p).sized /\ Goto(p, "sigbus")
    /\ UNCHANGED <<name, sem, seg, file, continua_esecuzione, added, lost>>

\* The record at a random index.  An empty array ends the loop, and the
\* function returns without the sem_post; a segment nobody has sized yet ends
\* the process.
PickRecord(p) ==
    /\ p \in Cons /\ At(p, "pick")
    /\ \/ /\ Data(p).sized /\ Data(p).items # 0
          /\ \E i \in 0 .. Data(p).items - 1 :
                proc' = [proc EXCEPT ![p].pc = "shift", ![p].idx = i,
                                     ![p].hand = Data(p).array[i]]
       \/ Data(p).sized /\ Data(p).items = 0 /\ Goto(p, "cleanup")
       \/ ~Data(p).sized /\ Goto(p, "sigbus")
    /\ UNCHANGED <<name, sem, seg, file, continua_esecuzione, added, lost>>

\* One turn of the loop that closes the gap, or the decrement after it.
Shift(p) ==
    /\ p \in Cons /\ At(p, "shift")
    /\ LET s == Data(p)
           i == proc[p].idx
       IN  \/ /\ i < s.items - 1
              /\ seg' = [seg EXCEPT ![proc[p].data].array[i] = s.array[i + 1]]
              /\ proc' = [proc EXCEPT ![p].idx = i + 1]
           \/ /\ i >= s.items - 1
              /\ seg' = [seg EXCEPT ![proc[p].data].items = @ - 1]
              /\ Goto(p, "post")
    /\ UNCHANGED <<name, sem, file, continua_esecuzione, added, lost>>

\* Variation: a consumer told to stop goes on without the sem_post.
ReleaseUnlessTold(p) ==
    /\ p \in Cons
    /\ IF continua_esecuzione[p] THEN Post(p, proc[p].msem, "post", "fwait")
       ELSE /\ At(p, "post") /\ Goto(p, "fwait")
            /\ UNCHANGED <<name, sem, seg, file, continua_esecuzione, added, lost>>

ReleaseRemoved(p) == p \in Cons /\ Post(p, proc[p].msem, "post", "fwait")

AcquireFile(p) == p \in Cons /\ Wait(p, proc[p].fsem, "fwait", "place")

\* The records whose lines start before the offset.
Written == {file.cell[u] : u \in {v \in Unit : v <= file.offset}} \ {EMPTY}

\* Variation: the file starts over but the line goes where it did not fit.
FindPlaceLate(p) ==
    /\ p \in Cons /\ At(p, "place")
    /\ IF 1 + file.offset + Len[proc[p].hand] >= FILE_SIZE
       THEN /\ lost' = lost \cup Written
            /\ file' = [file EXCEPT !.offset = 0]
            /\ proc' = [proc EXCEPT ![p].pc = "memcpy",
                                    ![p].idx = 1 + file.offset]
       ELSE /\ proc' = [proc EXCEPT ![p].pc = "memcpy",
                                    ![p].idx = 1 + file.offset]
            /\ UNCHANGED <<file, lost>>
    /\ UNCHANGED <<name, sem, seg, continua_esecuzione, added>>

\* safe_offset; a line that does not fit starts the file over.
FindPlace(p) ==
    /\ p \in Cons /\ At(p, "place")
    /\ IF 1 + file.offset + Len[proc[p].hand] >= FILE_SIZE
       THEN /\ lost' = lost \cup Written
            /\ file' = [file EXCEPT !.offset = 0]
            /\ proc' = [proc EXCEPT ![p].pc = "memcpy", ![p].idx = 1]
       ELSE /\ proc' = [proc EXCEPT ![p].pc = "memcpy",
                                    ![p].idx = 1 + file.offset]
            /\ UNCHANGED <<file, lost>>
    /\ UNCHANGED <<name, sem, seg, continua_esecuzione, added>>

WriteLine(p) ==
    /\ p \in Cons /\ At(p, "memcpy")
    /\ LET first == proc[p].idx
           r == proc[p].hand
       IN  file' = [file EXCEPT !.cell = [u \in Unit |->
              IF u \in first .. first + Len[r] - 1 THEN r ELSE file.cell[u]]]
    /\ Goto(p, "advance")
    /\ UNCHANGED <<name, sem, seg, continua_esecuzione, added, lost>>

AdvanceOffset(p) ==
    /\ p \in Cons /\ At(p, "advance")
    /\ file' = [file EXCEPT !.offset = @ + Len[proc[p].hand]]
    /\ proc' = [proc EXCEPT ![p].pc = "fpost", ![p].hand = EMPTY]
    /\ UNCHANGED <<name, sem, seg, continua_esecuzione, added, lost>>

ReleaseFile(p) == p \in Cons /\ Post(p, proc[p].fsem, "fpost", "loop")

cleanup_semaphore_file(p) ==
    p \in Cons /\ Unlink(p, "file", "cleanup", "done")

-------------------------------------------------------------------------------
(* Signals.  signal() restarts a sem_wait the handler interrupts, so the    *)
(* flag is seen only at the head of the loop.                              *)

Gone == {"done", "sigbus", "killed"}

signal_handler(p) ==
    /\ proc[p].pc \notin Gone \cup {"start"}
    /\ continua_esecuzione[p]
    /\ continua_esecuzione' = [continua_esecuzione EXCEPT ![p] = FALSE]
    /\ UNCHANGED <<name, sem, seg, file, proc, added, lost>>

Kill(p) ==
    /\ p \in Mortal
    /\ proc[p].pc \notin Gone \cup {"start"}
    /\ Goto(p, "killed")
    /\ UNCHANGED <<name, sem, seg, file, continua_esecuzione, added, lost>>

Produce(p) ==
    \/ ForgetSemaphore(p) \/ init_semaphore(p) \/ OpenSegment(p)
    \/ SizeSegment(p) \/ ResetItems(p) \/ ClearArray(p)
    \/ generate_record(p) \/ AcquireArray(p) \/ CopyRecord(p)
    \/ CountRecord(p) \/ ReleaseArray(p) \/ StopProducing(p)
    \/ cleanup_shared_memory(p) \/ cleanup_semaphore(p)

Consume(p) ==
    \/ init_semaphore_shared_memory(p) \/ init_semaphore_file(p)
    \/ CreateFileSemaphore(p) \/ ReopenFileSemaphore(p)
    \/ init_shared_memory(p) \/ ConsumeOn(p) \/ AcquireToRemove(p)
    \/ PickRecord(p) \/ Shift(p) \/ ReleaseRemoved(p) \/ AcquireFile(p)
    \/ FindPlace(p) \/ WriteLine(p) \/ AdvanceOffset(p) \/ ReleaseFile(p)
    \/ cleanup_semaphore_file(p)

Next ==
    \E p \in Proc : Produce(p) \/ Consume(p) \/ signal_handler(p) \/ Kill(p)

Spec == Init /\ [][Next]_vars

-------------------------------------------------------------------------------
(* Properties.                                                             *)

InArray == {"add", "count", "pick", "shift", "post"}
InFile == {"place", "memcpy", "advance", "fpost"}
InArraySection(p) == proc[p].pc \in InArray

\* At most one process at a time adds to a shared array or removes from it,
\* whichever semaphore object each has open (prod.c: "acquires the semaphore
\* for exclusive access"), and at most one consumer reads the offset and writes
\* to the file, as long as there are only the programs of the exercise, each run
\* once: a consumer that ends unlinks the file's semaphore, and a third would
\* create another.
OneAtATime ==
    /\ \A p, q \in Proc :
          (InArraySection(p) /\ InArraySection(q) /\ proc[p].data = proc[q].data)
             => p = q
    /\ \A p, q \in Cons : proc[p].pc \in InFile /\ proc[q].pc \in InFile => p = q

\* The semaphore of the array stays taken only behind a producer that was
\* killed or over an array that is empty: by the consumer that found it so and
\* returned without the sem_post.  That of the file always comes back, unless a
\* consumer was killed.
Taken(s) == /\ s \in {proc[q].msem : q \in Proc} /\ sem[s] = 0
            /\ \A q \in Proc : InArraySection(q) => proc[q].msem # s
LeftEmpty(q) == proc[q].pc \in {"cleanup"} \cup Gone /\ proc[q].data # NONE

KeptOnlyEmpty ==
    /\ \A s \in Prod :
          Taken(s) => \/ \E q \in Prod : proc[q].pc = "killed"
                      \/ \E q \in Cons : /\ LeftEmpty(q) /\ proc[q].msem = s
                                         /\ Data(q).items = 0
    /\ \A s \in {proc[q].fsem : q \in Cons} \ {NONE} :
          (sem[s] = 1 <=> \A q \in Cons : proc[q].pc \in InFile => proc[q].fsem # s)
          \/ \E q \in Cons : proc[q].pc = "killed"

\* Up to the offset the file is a sequence of whole lines, none twice.
FileOfWholeLines ==
    \A r \in Written :
        \E first \in Unit :
            /\ first + Len[r] - 1 <= file.offset
            /\ \A u \in 1 .. file.offset :
                  file.cell[u] = r <=> u \in first .. first + Len[r] - 1

Stored == UNION {Contents(seg[s]) : s \in Prod}
Held == {proc[p].hand : p \in Proc} \ {EMPTY}

\* When no one works on an array, every record produced so far is in exactly
\* one place: an array, a process's hand, the file, or dropped by a restart
\* of the array or the file; the consumers neither lose nor double one, and a
\* consumer that ends, told to or not, has written what it removed.
RecordsConserved ==
    (\A p \in Proc : ~InArraySection(p)) =>
        /\ Stored \cup Held \cup Written \cup lost = 1 .. added
        /\ Stored \cap (Held \cup Written \cup lost) = {}
        /\ Held \cap (Written \cup lost) = {}
        /\ Written \cap lost = {}
        /\ \A p, q \in Proc :
              proc[p].hand = proc[q].hand /\ proc[p].hand # EMPTY => p = q
        /\ \A s \in Prod : Cardinality(Contents(seg[s])) = seg[s].items
        /\ \A c \in Cons : proc[c].pc = "done" => proc[c].hand = EMPTY

================================================================================
