--------------------------- MODULE ProdConsProofs ---------------------------
(***************************************************************************)
(* For an array and a file of any size, lines of any lengths and any bound *)
(* on the records: with prod, const1 and const2 each run once, as the       *)
(* exercise has it, one process at a time works on the array and one        *)
(* consumer at a time on the file, whoever is killed and wherever; and as   *)
(* long as only the producer is killed, no semaphore stays taken over       *)
(* records, every record is in one place and the file is made of whole      *)
(* lines, none twice.                                                       *)
(*                                                                         *)
(* The argument is in three layers, each with what the one before has       *)
(* shown: what every process has open and who is in which section           *)
(* (SectionInv); who keeps a semaphore that is taken (KeptInv); where the   *)
(* records are (DataInv).  The effect of every action is stated first, by   *)
(* fields, in the lemmas that end in Effect; the layers only cite these.    *)
(***************************************************************************)
EXTENDS ProdCons, FiniteSetTheorems, TLAPS

\* prod, const1 and const2 are each run once.
EachOnce ==
    /\ \A p, q \in Prod : p = q
    /\ \A b, c, d \in Cons : b = c \/ c = d \/ b = d

\* The steps of a producer and of a consumer.
ProdLabels == {"start", "sem_open", "shm_open", "ftruncate", "init", "clear",
               "loop", "wait", "add", "count", "post", "cleanup", "sem_unlink",
               "done", "killed"}
ConsLabels == {"start", "file_open", "file_excl", "file_again", "shm_open",
               "loop", "wait", "pick", "shift", "post", "fwait", "place",
               "memcpy", "advance",
               "fpost", "cleanup", "done", "sigbus", "killed"}

\* A record or EMPTY.
AnyRecord == 0 .. MAX_ADDS

ProcState == [pc : ProdLabels \cup ConsLabels, msem : Prod \cup {NONE},
              fsem : Cons \cup {NONE}, data : Prod \cup {NONE},
              hand : AnyRecord, idx : Int]
Segment == [sized : BOOLEAN, items : Int, array : [Index -> AnyRecord]]

Names == {n \in [{"memory", "file", "data"} -> Proc \cup {NONE}] :
            /\ n["memory"] \in Prod \cup {NONE}
            /\ n["data"] \in Prod \cup {NONE}
            /\ n["file"] \in Cons \cup {NONE}}

\* Values in range: which object a name, and a process, can have.
TypeInv ==
    /\ name \in Names
    /\ sem \in [Proc -> Nat]
    /\ seg \in [Prod -> Segment]
    /\ file \in [offset : Nat, cell : [Unit -> Nat]]
    /\ proc \in [Proc -> ProcState]
    /\ \A p \in Prod : proc[p].pc \in ProdLabels
    /\ \A c \in Cons : proc[c].pc \in ConsLabels
    /\ continua_esecuzione \in [Proc -> BOOLEAN]
    /\ added \in AnyRecord /\ lost \subseteq Nat

\* What a process has open by the step it has come to.
Early == {"start", "file_open", "file_excl", "file_again"}
OpenInv ==
    /\ \A p \in Prod :
          /\ proc[p].msem # NONE <=> proc[p].msem = p
          /\ proc[p].msem = NONE => /\ proc[p].pc \in {"start", "sem_open", "killed"}
                                    /\ name["memory"] = NONE /\ sem[p] = 0
          /\ proc[p].data = NONE =>
                /\ proc[p].pc \in {"start", "sem_open", "shm_open", "killed"}
                /\ name["data"] = NONE
          /\ proc[p].data # NONE => proc[p].msem # NONE
          /\ proc[p].pc \in {"start", "sem_open"} => proc[p].msem = NONE
    /\ \A c \in Cons :
          /\ proc[c].msem # NONE => proc[proc[c].msem].msem # NONE
          /\ proc[c].data # NONE => /\ proc[proc[c].data].data # NONE
                                    /\ proc[c].msem # NONE
                                    /\ proc[c].fsem # NONE
          /\ proc[c].pc \in Early => proc[c].fsem = NONE
          /\ proc[c].pc = "shm_open" => proc[c].fsem # NONE /\ proc[c].msem # NONE
          /\ proc[c].pc \in Early \ {"start"} => proc[c].msem # NONE
          /\ proc[c].pc \notin Early \cup {"shm_open"} \cup Gone =>
                proc[c].data # NONE

\* The two consumers have the same semaphore for the file.
FileNameInv ==
    /\ \A c \in Cons : proc[c].fsem # NONE => proc[proc[c].fsem].fsem = proc[c].fsem
    /\ \A c \in Cons : name["file"] # NONE => proc[name["file"]].fsem = name["file"]
    /\ \A c, d \in Cons :
          proc[c].fsem # NONE /\ proc[c].pc \notin Gone /\ c # d =>
              /\ proc[d].pc \in Early => name["file"] = proc[c].fsem
              /\ proc[d].fsem # NONE /\ proc[d].pc \notin Gone =>
                    proc[d].fsem = proc[c].fsem

\* A semaphore is 0 or 1, 0 while someone is in its section, and nobody else is.
LockInv ==
    /\ \A s \in Proc : sem[s] <= 1
    /\ \A q \in Proc : InArraySection(q) => sem[proc[q].msem] = 0
    /\ \A q, r \in Proc : InArraySection(q) /\ InArraySection(r) => q = r
    /\ \A c \in Cons : proc[c].pc \in InFile => sem[proc[c].fsem] = 0
    /\ \A c, d \in Cons : proc[c].pc \in InFile /\ proc[d].pc \in InFile => c = d

\* The steps before the producer's loop.
SetUp == {"start", "sem_open", "shm_open", "ftruncate", "init", "clear"}

\* The number of records, at the steps that change it.
CountInv ==
    /\ \A p \in Prod :
          /\ seg[p].items \in 0 .. MAX_RECORD
          /\ proc[p].pc \in SetUp => seg[p].items = 0 /\ added = 0
          /\ proc[p].pc = "count" => seg[p].items < MAX_RECORD
    /\ \A c \in Cons :
          At(c, "shift") => proc[c].idx \in 0 .. seg[proc[c].data].items - 1

\* Where a record is expected there is one.
HandP == {"wait", "add", "count"}
HandC == {"shift", "post", "fwait", "place", "memcpy", "advance"}
FilledInv ==
    /\ \A p \in Prod :
          /\ proc[p].pc \in HandP => proc[p].hand # EMPTY
          /\ proc[p].pc = "count" => seg[p].array[seg[p].items] = proc[p].hand
          /\ \A i \in Index : i < seg[p].items => seg[p].array[i] # EMPTY
    /\ \A c \in Cons : proc[c].pc \in HandC => proc[c].hand # EMPTY

\* The first layer.
SectionInv == /\ TypeInv /\ OpenInv /\ FileNameInv /\ LockInv /\ CountInv
              /\ FilledInv

\* A segment nobody sized is empty, and a producer that runs has sized its own.
SizedInv ==
    \A p \in Prod :
        /\ ~seg[p].sized => seg[p].items = 0
        /\ proc[p].pc \notin {"start", "sem_open", "shm_open", "ftruncate", "killed"} =>
              seg[p].sized

\* As long as no consumer is killed: who has a semaphore that is taken.
KeptInv ==
    /\ \A p \in Prod : proc[p].msem = p /\ sem[p] = 0 =>
          \/ \E q \in Proc : InArraySection(q)
          \/ proc[p].pc = "killed"
          \/ \E c \in Cons : /\ proc[c].pc \in {"cleanup"} \cup Gone
                             /\ proc[c].data = p /\ seg[p].items = 0
    /\ \A c \in Cons : proc[c].pc # "killed"
    /\ \A c \in Cons : proc[c].fsem = c /\ sem[c] = 0 =>
          \E d \in Cons : proc[d].pc \in InFile /\ proc[d].fsem = c

\* The slot that a consumer closes is not one of the array's.
Hole(p, i) == \E c \in Cons : At(c, "shift") /\ proc[c].data = p /\ proc[c].idx = i
Live(p) == {i \in Index : i < seg[p].items /\ ~Hole(p, i)}
LiveRecords == UNION {{seg[p].array[i] : i \in Live(p)} : p \in Prod}

\* No record is twice in an array ...
ArrayInv ==
    \A p \in Prod : \A i, j \in Live(p) : seg[p].array[i] = seg[p].array[j] => i = j

\* ... nor in two hands, ...
HandInv ==
    /\ \A p \in Prod : proc[p].hand # EMPTY => proc[p].pc \in HandP \cup {"killed"}
    /\ \A c \in Cons : proc[c].hand # EMPTY => proc[c].pc \in HandC
    /\ \A p, q \in Proc : proc[p].hand = proc[q].hand /\ proc[p].hand # EMPTY => p = q

\* ... the records produced are in an array, a hand or the file, or lost, ...
WhereInv ==
    /\ LiveRecords \cup Held \cup Written \cup lost = 1 .. added
    /\ LiveRecords \cap (Held \cup Written \cup lost) = {}
    /\ Held \cap (Written \cup lost) = {}
    /\ Written \cap lost = {}

\* ... and a line goes past the offset, where it fits.
PlaceInv ==
    /\ file.offset = 0 \/ file.offset + 1 < FILE_SIZE
    /\ \A c \in Cons : proc[c].pc \in {"memcpy", "advance"} =>
          /\ proc[c].idx = file.offset + 1
          /\ 1 + file.offset + Len[proc[c].hand] < FILE_SIZE
    /\ \A c \in Cons : proc[c].pc = "advance" =>
          \A u \in proc[c].idx .. proc[c].idx + Len[proc[c].hand] - 1 :
              file.cell[u] = proc[c].hand

-------------------------------------------------------------------------------
(* What the steps do to a process and to a segment, field by field.         *)

\* p comes to the step l, and no other process changes.
Moves(p, l) ==
    /\ proc' \in [Proc -> ProcState]
    /\ proc'[p].pc = l
    /\ \A q \in Proc \ {p} : proc'[q] = proc[q]

SameOpen(p) ==
    /\ proc'[p].msem = proc[p].msem
    /\ proc'[p].fsem = proc[p].fsem
    /\ proc'[p].data = proc[p].data
SameHand(p) == proc'[p].hand = proc[p].hand
SameIdx(p) == proc'[p].idx = proc[p].idx

\* A jump changes the step and nothing else.
LEMMA GotoMoves ==
  ASSUME TypeInv, NEW p \in Proc, NEW l \in ProdLabels \cup ConsLabels,
         Goto(p, l)
  PROVE  Moves(p, l) /\ SameOpen(p) /\ SameHand(p) /\ SameIdx(p)
<1>1. proc \in [Proc -> ProcState]
  BY DEF TypeInv
<1> QED BY <1>1 DEF Goto, Moves, SameOpen, SameHand, SameIdx, ProcState

\* sem_open of the array's semaphore.
LEMMA OpenMemoryMoves ==
  ASSUME TypeInv, NEW p \in Proc, NEW l \in ProdLabels \cup ConsLabels,
         NEW s \in Prod \cup {NONE},
         proc' = [proc EXCEPT ![p].pc = l, ![p].msem = s]
  PROVE  /\ Moves(p, l) /\ SameHand(p) /\ SameIdx(p) /\ proc'[p].msem = s
         /\ proc'[p].fsem = proc[p].fsem /\ proc'[p].data = proc[p].data
<1>1. proc \in [Proc -> ProcState]
  BY DEF TypeInv
<1> QED BY <1>1 DEF Moves, SameHand, SameIdx, ProcState

\* sem_open of the file's semaphore.
LEMMA OpenFileMoves ==
  ASSUME TypeInv, NEW p \in Proc, NEW l \in ProdLabels \cup ConsLabels,
         NEW s \in Cons \cup {NONE},
         proc' = [proc EXCEPT ![p].pc = l, ![p].fsem = s]
  PROVE  /\ Moves(p, l) /\ SameHand(p) /\ SameIdx(p) /\ proc'[p].fsem = s
         /\ proc'[p].msem = proc[p].msem /\ proc'[p].data = proc[p].data
<1>1. proc \in [Proc -> ProcState]
  BY DEF TypeInv
<1> QED BY <1>1 DEF Moves, SameHand, SameIdx, ProcState

\* shm_open and mmap of the array.
LEMMA OpenDataMoves ==
  ASSUME TypeInv, NEW p \in Proc, NEW l \in ProdLabels \cup ConsLabels,
         NEW s \in Prod \cup {NONE},
         proc' = [proc EXCEPT ![p].pc = l, ![p].data = s]
  PROVE  /\ Moves(p, l) /\ SameHand(p) /\ SameIdx(p) /\ proc'[p].data = s
         /\ proc'[p].msem = proc[p].msem /\ proc'[p].fsem = proc[p].fsem
<1>1. proc \in [Proc -> ProcState]
  BY DEF TypeInv
<1> QED BY <1>1 DEF Moves, SameHand, SameIdx, ProcState

\* A record comes into a hand or leaves it.
LEMMA HandMoves ==
  ASSUME TypeInv, NEW p \in Proc, NEW l \in ProdLabels \cup ConsLabels,
         NEW h \in AnyRecord,
         proc' = [proc EXCEPT ![p].pc = l, ![p].hand = h]
  PROVE  Moves(p, l) /\ SameOpen(p) /\ SameIdx(p) /\ proc'[p].hand = h
<1>1. proc \in [Proc -> ProcState]
  BY DEF TypeInv
<1> QED BY <1>1 DEF Moves, SameOpen, SameIdx, ProcState

\* A step that ends with the index it has computed.
LEMMA PlaceMoves ==
  ASSUME TypeInv, NEW p \in Proc, NEW l \in ProdLabels \cup ConsLabels,
         NEW i \in Int,
         proc' = [proc EXCEPT ![p].pc = l, ![p].idx = i]
  PROVE  Moves(p, l) /\ SameOpen(p) /\ SameHand(p) /\ proc'[p].idx = i
<1>1. proc \in [Proc -> ProcState]
  BY DEF TypeInv
<1> QED BY <1>1 DEF Moves, SameOpen, SameHand, ProcState

\* The shift goes on to the next slot.
LEMMA IdxMoves ==
  ASSUME TypeInv, NEW p \in Proc, NEW i \in Int,
         proc' = [proc EXCEPT ![p].idx = i]
  PROVE  Moves(p, proc[p].pc) /\ SameOpen(p) /\ SameHand(p) /\ proc'[p].idx = i
<1>1. proc \in [Proc -> ProcState]
  BY DEF TypeInv
<1> QED BY <1>1 DEF Moves, SameOpen, SameHand, ProcState

\* A segment changes: its size, ...
LEMMA SegmentSized ==
  ASSUME TypeInv, NEW s \in Prod, seg' = [seg EXCEPT ![s].sized = TRUE]
  PROVE  /\ seg' \in [Prod -> Segment] /\ seg'[s].sized
         /\ seg'[s].items = seg[s].items /\ seg'[s].array = seg[s].array
<1>1. seg \in [Prod -> Segment]
  BY DEF TypeInv
<1> QED BY <1>1 DEF Segment

\* The counter.
LEMMA SegmentItems ==
  ASSUME TypeInv, NEW s \in Prod, NEW n \in Int,
         seg' = [seg EXCEPT ![s].items = n]
  PROVE  /\ seg' \in [Prod -> Segment] /\ seg'[s].sized = seg[s].sized
         /\ seg'[s].items = n /\ seg'[s].array = seg[s].array
<1>1. seg \in [Prod -> Segment]
  BY DEF TypeInv
<1> QED BY <1>1 DEF Segment

\* The array.
LEMMA SegmentArray ==
  ASSUME TypeInv, NEW s \in Prod, NEW a \in [Index -> AnyRecord],
         seg' = [seg EXCEPT ![s].array = a]
  PROVE  /\ seg' \in [Prod -> Segment] /\ seg'[s].sized = seg[s].sized
         /\ seg'[s].items = seg[s].items /\ seg'[s].array = a
<1>1. seg \in [Prod -> Segment]
  BY DEF TypeInv
<1> QED BY <1>1 DEF Segment

-------------------------------------------------------------------------------
(* What each step does, field by field.                                     *)

Opened == EachOnce /\ TypeInv /\ OpenInv
Only(p) == SameOpen(p) /\ SameHand(p) /\ SameIdx(p)
ShmUnchanged == UNCHANGED <<seg, file, added, lost>>

\* With one producer, every semaphore and segment that is open is its own.
LEMMA Objects ==
  ASSUME Opened
  PROVE  /\ \A p \in Prod : proc[p].msem \in {p, NONE} /\ proc[p].data \in {p, NONE}
         /\ \A c \in Cons : /\ proc[c].msem \in Prod \cup {NONE}
                            /\ proc[c].data \in Prod \cup {NONE}
                            /\ proc[c].fsem \in Cons \cup {NONE}
         /\ \A p \in Proc : /\ proc[p].pc \in ProdLabels \cup ConsLabels
                            /\ proc[p].hand \in AnyRecord /\ proc[p].idx \in Int
         /\ \A s \in Prod : /\ seg[s].items \in Int /\ seg[s].array \in [Index -> AnyRecord]
                            /\ seg[s].sized \in BOOLEAN
         /\ file.offset \in Nat /\ file.cell \in [Unit -> Nat]
  BY DEF Opened, EachOnce, TypeInv, ProcState, Segment, Proc

\* The processes, and what is none.
LEMMA NoneIsNobody == /\ NONE \notin Proc /\ Prod \cap Cons = {}
                      /\ Prod \subseteq Proc /\ Cons \subseteq Proc
  BY ProcsAssumption DEF Proc

\* Unlinking a name: by the producer at its start, at any cleanup.
LEMMA UnlinkEffect ==
  ASSUME Opened, NEW p \in Proc,
         ForgetSemaphore(p) \/ cleanup_shared_memory(p) \/ cleanup_semaphore(p)
         \/ cleanup_semaphore_file(p)
  PROVE  /\ ForgetSemaphore(p) =>
               /\ p \in Prod /\ proc[p].pc = "start" /\ Moves(p, "sem_open")
               /\ name' = [name EXCEPT !["memory"] = NONE]
         /\ cleanup_shared_memory(p) =>
               /\ p \in Prod /\ proc[p].pc = "cleanup" /\ Moves(p, "sem_unlink")
               /\ name' = [name EXCEPT !["data"] = NONE]
         /\ cleanup_semaphore(p) =>
               /\ p \in Prod /\ proc[p].pc = "sem_unlink" /\ Moves(p, "done")
               /\ name' = [name EXCEPT !["memory"] = NONE]
         /\ cleanup_semaphore_file(p) =>
               /\ p \in Cons /\ proc[p].pc = "cleanup" /\ Moves(p, "done")
               /\ name' = [name EXCEPT !["file"] = NONE]
         /\ Only(p) /\ ShmUnchanged /\ UNCHANGED <<sem, continua_esecuzione>>
  BY GotoMoves
     DEF Opened, ForgetSemaphore, cleanup_shared_memory, cleanup_semaphore,
     cleanup_semaphore_file, Unlink, At, Only, ShmUnchanged, ProdLabels, ConsLabels

\* init_semaphore: the name is created, or was there.
LEMMA CreateEffect ==
  ASSUME Opened, NEW p \in Proc, init_semaphore(p)
  PROVE  /\ p \in Prod /\ proc[p].pc = "sem_open" /\ Moves(p, "shm_open")
         /\ name["memory"] = NONE => name' = [name EXCEPT !["memory"] = p]
                                     /\ sem' = [sem EXCEPT ![p] = 1]
         /\ name["memory"] # NONE => UNCHANGED <<name, sem>>
         /\ proc'[p].msem = name'["memory"] /\ name'["memory"] \in Prod
         /\ SameHand(p) /\ SameIdx(p)
         /\ proc'[p].fsem = proc[p].fsem /\ proc'[p].data = proc[p].data
         /\ ShmUnchanged /\ UNCHANGED continua_esecuzione
<1> USE DEF Opened
<1>1. name'["memory"] \in Prod
  BY NoneIsNobody DEF init_semaphore, TypeInv, Names
<1>2. /\ Moves(p, "shm_open") /\ SameHand(p) /\ SameIdx(p)
      /\ proc'[p].msem = name'["memory"]
      /\ proc'[p].fsem = proc[p].fsem /\ proc'[p].data = proc[p].data
  <2>1. "shm_open" \in ProdLabels \cup ConsLabels /\ TypeInv
    BY DEF ProdLabels
  <2>2. proc' = [proc EXCEPT ![p].pc = "shm_open", ![p].msem = name'["memory"]]
    BY DEF init_semaphore
  <2> QED BY <1>1, <2>1, <2>2, OpenMemoryMoves
<1> QED BY <1>1, <1>2 DEF init_semaphore, At, ShmUnchanged

\* shm_open by the producer.
LEMMA OpenSegmentEffect ==
  ASSUME Opened, NEW p \in Proc, OpenSegment(p)
  PROVE  /\ p \in Prod /\ proc[p].pc = "shm_open" /\ Moves(p, "ftruncate")
         /\ name["data"] = NONE => name' = [name EXCEPT !["data"] = p]
         /\ name["data"] # NONE => UNCHANGED name
         /\ proc'[p].data = name'["data"] /\ name'["data"] \in Prod
         /\ SameHand(p) /\ SameIdx(p)
         /\ proc'[p].fsem = proc[p].fsem /\ proc'[p].msem = proc[p].msem
         /\ ShmUnchanged /\ UNCHANGED <<sem, continua_esecuzione>>
<1> USE DEF Opened
<1>1. name'["data"] \in Prod
  BY NoneIsNobody DEF OpenSegment, TypeInv, Names
<1>2. /\ Moves(p, "ftruncate") /\ SameHand(p) /\ SameIdx(p)
      /\ proc'[p].data = name'["data"]
      /\ proc'[p].msem = proc[p].msem /\ proc'[p].fsem = proc[p].fsem
  <2>1. proc' = [proc EXCEPT ![p].pc = "ftruncate", ![p].data = name'["data"]]
    BY DEF OpenSegment
  <2>2. "ftruncate" \in ProdLabels \cup ConsLabels /\ TypeInv
    BY DEF ProdLabels
  <2> HIDE DEF Opened
  <2> QED BY <1>1, <2>1, <2>2, OpenDataMoves
<1> QED BY <1>1, <1>2 DEF OpenSegment, At, ShmUnchanged

\* The segment a running producer writes to is its own.
LEMMA OwnSegment ==
  ASSUME Opened, NEW p \in Prod,
         proc[p].pc \notin {"start", "sem_open", "shm_open", "killed"}
  PROVE  proc[p].data = p /\ proc[p].msem = p
  BY Objects, NoneIsNobody DEF Opened, OpenInv

\* ftruncate, and the segment starts over.
LEMMA InitSegmentEffect ==
  ASSUME Opened, NEW p \in Proc,
         SizeSegment(p) \/ ResetItems(p) \/ ClearArray(p)
  PROVE  /\ p \in Prod /\ seg' \in [Prod -> Segment]
         /\ SizeSegment(p) => /\ proc[p].pc = "ftruncate" /\ Moves(p, "init")
                              /\ seg'[p].sized /\ seg'[p].items = seg[p].items
                              /\ lost' = lost
         /\ ResetItems(p) => /\ proc[p].pc = "init" /\ Moves(p, "clear")
                             /\ seg'[p].items = 0
                             /\ seg'[p].sized = seg[p].sized
                             /\ lost' = lost \cup Contents(seg[p])
         /\ ClearArray(p) => /\ proc[p].pc = "clear" /\ Moves(p, "loop")
                             /\ seg'[p].items = seg[p].items
                             /\ seg'[p].sized = seg[p].sized
                             /\ lost' = lost
         /\ Only(p) /\ UNCHANGED <<name, sem, file, continua_esecuzione, added>>
<1> USE DEF Opened
<1>1. p \in Prod /\ proc[p].data = p
  BY OwnSegment DEF SizeSegment, ResetItems, ClearArray, At
<1>2. CASE SizeSegment(p)
  BY <1>1, <1>2, GotoMoves, SegmentSized DEF SizeSegment, At, Only, ProdLabels,
     ResetItems, ClearArray
<1>3. CASE ResetItems(p)
  <2>1. /\ seg' \in [Prod -> Segment] /\ seg'[p].items = 0
        /\ seg'[p].sized = seg[p].sized
    <3>1. seg' = [seg EXCEPT ![p].items = 0] /\ 0 \in Int /\ TypeInv
      BY <1>1, <1>3 DEF ResetItems
    <3> HIDE DEF Opened
    <3> QED BY <1>1, <3>1, SegmentItems
  <2> QED BY <1>1, <1>3, <2>1, GotoMoves
             DEF ResetItems, At, Only, ProdLabels, Data,
             SizeSegment, ClearArray
<1>4. CASE ClearArray(p)
  <2>1. [i \in Index |-> EMPTY] \in [Index -> AnyRecord]
    BY RecordsAssumption DEF EMPTY, AnyRecord
  <2>2. seg' \in [Prod -> Segment] /\ seg'[p].items = seg[p].items
        /\ seg'[p].sized = seg[p].sized
    BY <1>1, <1>4, <2>1, SegmentArray DEF ClearArray
  <2> QED BY <1>1, <1>4, <2>2, GotoMoves
          DEF ClearArray, At, Only, ProdLabels, SizeSegment, ResetItems
<1> QED BY <1>2, <1>3, <1>4

\* generate_record.
LEMMA GenerateEffect ==
  ASSUME Opened, NEW p \in Proc, generate_record(p)
  PROVE  /\ p \in Prod /\ proc[p].pc = "loop" /\ Moves(p, "wait")
         /\ added < MAX_ADDS /\ added' = added + 1 /\ proc'[p].hand = added + 1
         /\ SameOpen(p) /\ SameIdx(p)
         /\ UNCHANGED <<name, sem, seg, file, continua_esecuzione, lost>>
<1>1. added + 1 \in AnyRecord
  BY RecordsAssumption DEF Opened, TypeInv, generate_record, AnyRecord
<1> QED BY <1>1, HandMoves DEF Opened, generate_record, At, ProdLabels

\* Where the next record goes.
CopyAt(s) == IF s.items >= MAX_RECORD THEN 0 ELSE s.items

\* add_record_to_array: a full array starts over, and the record is copied.
LEMMA CopyEffect ==
  ASSUME Opened, NEW p \in Proc, CopyRecord(p), seg[p].items \in 0 .. MAX_RECORD
  PROVE  /\ p \in Prod /\ proc[p].pc = "add" /\ Moves(p, "count") /\ Only(p)
         /\ CopyAt(seg[p]) \in Index /\ seg' \in [Prod -> Segment]
         /\ seg'[p].items = CopyAt(seg[p]) /\ seg'[p].sized = seg[p].sized
         /\ seg'[p].array = [seg[p].array EXCEPT ![CopyAt(seg[p])] = proc[p].hand]
         /\ lost' = IF seg[p].items >= MAX_RECORD THEN lost \cup Contents(seg[p]) ELSE lost
         /\ UNCHANGED <<name, sem, file, continua_esecuzione, added>>
<1>1. p \in Prod /\ proc[p].data = p
  BY OwnSegment DEF CopyRecord, At
<1>2. CopyAt(seg[p]) \in Index
  BY RecordsAssumption DEF Index, CopyAt
<1>3. seg' = [seg EXCEPT ![p].items = CopyAt(seg[p]), ![p].array[CopyAt(seg[p])] = proc[p].hand]
  BY <1>1 DEF CopyRecord, Data, CopyAt
<1>4. proc[p].hand \in AnyRecord /\ TypeInv /\ CopyAt(seg[p]) \in Int
  BY <1>2, Objects, RecordsAssumption DEF Opened, Index
<1>5. /\ seg' \in [Prod -> Segment]
      /\ seg'[p].items = CopyAt(seg[p]) /\ seg'[p].sized = seg[p].sized
      /\ seg'[p].array = [seg[p].array EXCEPT ![CopyAt(seg[p])] = proc[p].hand]
  <2>1. seg \in [Prod -> Segment]
    BY <1>4 DEF TypeInv
  <2> HIDE DEF CopyAt
  <2> QED BY <1>1, <1>2, <1>3, <1>4, <2>1 DEF Segment
<1> QED BY <1>1, <1>2, <1>4, <1>5, GotoMoves
           DEF CopyRecord, Data, At, Only, ProdLabels

\* add_record_to_array: the record is counted.
LEMMA CountEffect ==
  ASSUME Opened, NEW p \in Proc, CountRecord(p)
  PROVE  /\ p \in Prod /\ proc[p].pc = "count" /\ Moves(p, "post")
         /\ proc'[p].hand = EMPTY /\ SameOpen(p) /\ SameIdx(p)
         /\ seg' \in [Prod -> Segment]
         /\ seg'[p].items = seg[p].items + 1 /\ seg'[p].sized = seg[p].sized
         /\ seg'[p].array = seg[p].array
         /\ UNCHANGED <<name, sem, file, continua_esecuzione, added, lost>>
<1> USE DEF Opened
<1>1. p \in Prod /\ proc[p].data = p
  BY OwnSegment DEF CountRecord, At
<1>2. /\ seg' = [seg EXCEPT ![p].items = seg[p].items + 1]
      /\ seg[p].items + 1 \in Int
  BY <1>1, Objects DEF CountRecord
<1>3. seg' \in [Prod -> Segment]
      /\ seg'[p].items = seg[p].items + 1 /\ seg'[p].sized = seg[p].sized
      /\ seg'[p].array = seg[p].array
  BY <1>1, <1>2, SegmentItems
<1>4. EMPTY \in AnyRecord
  BY RecordsAssumption DEF EMPTY, AnyRecord
<1> QED BY <1>1, <1>3, <1>4, HandMoves DEF CountRecord, At, ProdLabels

\* sem_wait for the array.
LEMMA AcquireArrayEffect ==
  ASSUME Opened, NEW p \in Proc, AcquireArray(p) \/ AcquireToRemove(p)
  PROVE  /\ proc[p].pc = "wait" /\ Only(p)
         /\ proc[p].msem \in Prod /\ sem[proc[p].msem] > 0
         /\ \/ p \in Prod /\ Moves(p, "add")
            \/ p \in Cons /\ Moves(p, "pick")
         /\ sem' = [sem EXCEPT ![proc[p].msem] = @ - 1]
         /\ ShmUnchanged /\ UNCHANGED <<name, continua_esecuzione>>
<1> USE DEF Opened
<1>1. proc[p].msem \in Prod
  BY Objects, NoneIsNobody, OwnSegment
     DEF AcquireArray, AcquireToRemove, Wait, At, OpenInv, ConsLabels, Early, Gone
<1> QED BY <1>1, GotoMoves
           DEF AcquireArray, AcquireToRemove, Wait, At, ProdLabels,
           ConsLabels, Only, ShmUnchanged

\* sem_post of the array.
LEMMA ReleaseArrayEffect ==
  ASSUME Opened, NEW p \in Proc, ReleaseArray(p) \/ ReleaseRemoved(p)
  PROVE  /\ proc[p].pc = "post" /\ Only(p) /\ proc[p].msem \in Prod
         /\ \/ p \in Prod /\ Moves(p, "loop")
            \/ p \in Cons /\ Moves(p, "fwait")
         /\ sem' = [sem EXCEPT ![proc[p].msem] = @ + 1]
         /\ ShmUnchanged /\ UNCHANGED <<name, continua_esecuzione>>
<1> USE DEF Opened
<1>1. proc[p].msem \in Prod
  BY Objects, NoneIsNobody, OwnSegment
     DEF ReleaseArray, ReleaseRemoved, Post, At, OpenInv, ConsLabels, Early, Gone
<1> QED BY <1>1, GotoMoves
           DEF ReleaseArray, ReleaseRemoved, Post, At, ProdLabels,
           ConsLabels, Only, ShmUnchanged

\* sem_wait for the file.
LEMMA AcquireFileEffect ==
  ASSUME Opened, NEW p \in Proc, AcquireFile(p)
  PROVE  /\ p \in Cons /\ proc[p].pc = "fwait" /\ Moves(p, "place") /\ Only(p)
         /\ proc[p].fsem \in Cons /\ sem[proc[p].fsem] > 0
         /\ sem' = [sem EXCEPT ![proc[p].fsem] = @ - 1]
         /\ ShmUnchanged /\ UNCHANGED <<name, continua_esecuzione>>
<1> USE DEF Opened
<1>1. p \in Cons /\ proc[p].fsem \in Cons
  BY Objects, NoneIsNobody
     DEF AcquireFile, Wait, At, OpenInv, ConsLabels, Early, Gone
<1> QED BY <1>1, GotoMoves
           DEF AcquireFile, Wait, At, ConsLabels, Only, ShmUnchanged

\* sem_post of the file.
LEMMA ReleaseFileEffect ==
  ASSUME Opened, NEW p \in Proc, ReleaseFile(p)
  PROVE  /\ p \in Cons /\ proc[p].pc = "fpost" /\ Moves(p, "loop") /\ Only(p)
         /\ proc[p].fsem \in Cons
         /\ sem' = [sem EXCEPT ![proc[p].fsem] = @ + 1]
         /\ ShmUnchanged /\ UNCHANGED <<name, continua_esecuzione>>
<1> USE DEF Opened
<1>1. p \in Cons /\ proc[p].fsem \in Cons
  BY Objects, NoneIsNobody
     DEF ReleaseFile, Post, At, OpenInv, ConsLabels, Early, Gone
<1> QED BY <1>1, GotoMoves
           DEF ReleaseFile, Post, At, ConsLabels, Only, ShmUnchanged

\* The steps at the head of a loop, and the end of a process from outside.
LEMMA ControlEffect ==
  ASSUME Opened, NEW p \in Proc, StopProducing(p) \/ ConsumeOn(p) \/ Kill(p)
  PROVE  /\ Only(p) /\ ShmUnchanged
         /\ UNCHANGED <<name, sem, continua_esecuzione>>
         /\ StopProducing(p) => /\ p \in Prod /\ proc[p].pc = "loop" /\ Moves(p, "cleanup")
         /\ ConsumeOn(p) => /\ p \in Cons /\ proc[p].pc = "loop"
                            /\ Moves(p, "wait") \/ Moves(p, "cleanup")
         /\ Kill(p) => /\ p \in Mortal /\ proc[p].pc \notin Gone \cup {"start"}
                       /\ Moves(p, "killed")
<1> USE DEF Opened
<1>1. {"cleanup", "wait", "killed"} \subseteq ProdLabels \cup ConsLabels
  BY DEF ProdLabels, ConsLabels
<1>2. CASE StopProducing(p)
  BY <1>1, <1>2, GotoMoves
     DEF StopProducing, ConsumeOn, Kill, At, Only, ShmUnchanged, Gone
<1>3. CASE ConsumeOn(p)
  <2>1. Goto(p, "wait") \/ Goto(p, "cleanup")
    BY <1>3 DEF ConsumeOn
  <2> QED BY <1>1, <1>3, <2>1, GotoMoves, NoneIsNobody
          DEF StopProducing, ConsumeOn, Kill, At, Only, ShmUnchanged, Gone
<1>4. CASE Kill(p)
  BY <1>1, <1>4, GotoMoves, NoneIsNobody
     DEF StopProducing, ConsumeOn, Kill, At, Only, ShmUnchanged, Gone
<1> QED BY <1>2, <1>3, <1>4

\* The handler of SIGINT and SIGTERM.
LEMMA HandlerEffect ==
  ASSUME Opened, NEW p \in Proc, signal_handler(p)
  PROVE  /\ UNCHANGED <<name, sem, proc>> /\ ShmUnchanged
         /\ continua_esecuzione' \in [Proc -> BOOLEAN]
  BY DEF Opened, TypeInv, signal_handler, ShmUnchanged

\* A consumer opens the array's semaphore or exits.
LEMMA OpenArraySemaphoreEffect ==
  ASSUME Opened, NEW p \in Proc, init_semaphore_shared_memory(p)
  PROVE  /\ p \in Cons /\ proc[p].pc = "start"
         /\ \/ name["memory"] # NONE /\ Moves(p, "file_open")
            \/ name["memory"] = NONE /\ Moves(p, "done")
         /\ proc'[p].msem = name["memory"] /\ SameHand(p) /\ SameIdx(p)
         /\ proc'[p].fsem = proc[p].fsem /\ proc'[p].data = proc[p].data
         /\ ShmUnchanged /\ UNCHANGED <<name, sem, continua_esecuzione>>
<1>1. p \in Cons /\ proc[p].pc = "start" /\ ShmUnchanged
      /\ UNCHANGED <<name, sem, continua_esecuzione>>
  BY DEF init_semaphore_shared_memory, At, ShmUnchanged
<1>2. TypeInv /\ name["memory"] \in Prod \cup {NONE}
  BY DEF Opened, TypeInv, Names
<1>3. OrExit("memory", "file_open") \in ProdLabels \cup ConsLabels
  BY DEF OrExit, ConsLabels
<1>4. proc' = [proc EXCEPT ![p].pc = OrExit("memory", "file_open"), ![p].msem = name["memory"]]
  BY DEF init_semaphore_shared_memory
<1>5. /\ Moves(p, OrExit("memory", "file_open")) /\ SameHand(p) /\ SameIdx(p)
      /\ proc'[p].msem = name["memory"]
      /\ proc'[p].fsem = proc[p].fsem /\ proc'[p].data = proc[p].data
  BY <1>2, <1>3, <1>4, OpenMemoryMoves
<1> QED BY <1>1, <1>5 DEF OrExit

\* A consumer opens the file's semaphore if there is one.
LEMMA OpenFileSemaphoreEffect ==
  ASSUME Opened, NEW p \in Proc, init_semaphore_file(p)
  PROVE  /\ p \in Cons /\ proc[p].pc = "file_open"
         /\ \/ name["file"] # NONE /\ Moves(p, "shm_open")
            \/ name["file"] = NONE /\ Moves(p, "file_excl")
         /\ proc'[p].fsem = name["file"] /\ SameHand(p) /\ SameIdx(p)
         /\ proc'[p].msem = proc[p].msem /\ proc'[p].data = proc[p].data
         /\ ShmUnchanged /\ UNCHANGED <<name, sem, continua_esecuzione>>
<1>1. p \in Cons /\ proc[p].pc = "file_open" /\ ShmUnchanged
      /\ UNCHANGED <<name, sem, continua_esecuzione>>
  BY DEF init_semaphore_file, At, ShmUnchanged
<1>2. TypeInv /\ name["file"] \in Cons \cup {NONE}
  BY DEF Opened, TypeInv, Names
<1> DEFINE l == IF name["file"] = NONE THEN "file_excl" ELSE "shm_open"
<1>3. l \in ProdLabels \cup ConsLabels
  BY DEF ConsLabels
<1>4. proc' = [proc EXCEPT ![p].pc = l, ![p].fsem = name["file"]]
  BY DEF init_semaphore_file
<1> HIDE DEF l
<1>5. /\ /\ Moves(p, l) /\ SameHand(p) /\ SameIdx(p)
      /\ proc'[p].fsem = name["file"]
      /\ proc'[p].msem = proc[p].msem /\ proc'[p].data = proc[p].data
  BY <1>2, <1>3, <1>4, OpenFileMoves
<1> QED BY <1>1, <1>5 DEF l

\* ... creates it with O_EXCL ...
LEMMA CreateFileSemaphoreEffect ==
  ASSUME Opened, NEW p \in Proc, CreateFileSemaphore(p)
  PROVE  /\ p \in Cons /\ proc[p].pc = "file_excl" /\ SameHand(p) /\ SameIdx(p)
         /\ proc'[p].msem = proc[p].msem /\ proc'[p].data = proc[p].data
         /\ \/ /\ name["file"] = NONE /\ Moves(p, "shm_open") /\ proc'[p].fsem = p
               /\ name' = [name EXCEPT !["file"] = p]
               /\ sem' = [sem EXCEPT ![p] = 1]
            \/ /\ name["file"] # NONE /\ Moves(p, "file_again") /\ SameOpen(p)
               /\ UNCHANGED <<name, sem>>
         /\ ShmUnchanged /\ UNCHANGED continua_esecuzione
<1>1. /\ p \in Cons /\ proc[p].pc = "file_excl" /\ ShmUnchanged
      /\ UNCHANGED continua_esecuzione
  BY DEF CreateFileSemaphore, At, ShmUnchanged
<1>2. /\ TypeInv /\ p \in Cons \cup {NONE}
      /\ {"shm_open", "file_again"} \subseteq ProdLabels \cup ConsLabels
  BY <1>1 DEF Opened, ConsLabels
<1>3. CASE /\ name["file"] = NONE /\ name' = [name EXCEPT !["file"] = p]
           /\ sem' = [sem EXCEPT ![p] = 1]
           /\ proc' = [proc EXCEPT ![p].pc = "shm_open", ![p].fsem = p]
  <2>1. /\ Moves(p, "shm_open") /\ SameHand(p) /\ SameIdx(p)
        /\ proc'[p].fsem = p
        /\ proc'[p].msem = proc[p].msem /\ proc'[p].data = proc[p].data
    BY <1>2, <1>3, OpenFileMoves
  <2> QED BY <1>1, <1>3, <2>1
<1>4. CASE /\ name["file"] # NONE /\ Goto(p, "file_again")
           /\ UNCHANGED <<name, sem>>
  BY <1>1, <1>2, <1>4, GotoMoves DEF SameOpen
<1> QED BY <1>3, <1>4 DEF CreateFileSemaphore

\* ... or opens the one that was created meanwhile.
LEMMA ReopenFileSemaphoreEffect ==
  ASSUME Opened, NEW p \in Proc, ReopenFileSemaphore(p)
  PROVE  /\ p \in Cons /\ proc[p].pc = "file_again"
         /\ \/ name["file"] # NONE /\ Moves(p, "shm_open")
            \/ name["file"] = NONE /\ Moves(p, "done")
         /\ proc'[p].fsem = name["file"] /\ SameHand(p) /\ SameIdx(p)
         /\ proc'[p].msem = proc[p].msem /\ proc'[p].data = proc[p].data
         /\ ShmUnchanged /\ UNCHANGED <<name, sem, continua_esecuzione>>
<1>1. p \in Cons /\ proc[p].pc = "file_again" /\ ShmUnchanged
      /\ UNCHANGED <<name, sem, continua_esecuzione>>
  BY DEF ReopenFileSemaphore, At, ShmUnchanged
<1>2. TypeInv /\ name["file"] \in Cons \cup {NONE}
  BY DEF Opened, TypeInv, Names
<1>3. OrExit("file", "shm_open") \in ProdLabels \cup ConsLabels
  BY DEF OrExit, ConsLabels
<1>4. proc' = [proc EXCEPT ![p].pc = OrExit("file", "shm_open"), ![p].fsem = name["file"]]
  BY DEF ReopenFileSemaphore
<1>5. /\ Moves(p, OrExit("file", "shm_open")) /\ SameHand(p) /\ SameIdx(p)
      /\ proc'[p].fsem = name["file"]
      /\ proc'[p].msem = proc[p].msem /\ proc'[p].data = proc[p].data
  BY <1>2, <1>3, <1>4, OpenFileMoves
<1> QED BY <1>1, <1>5 DEF OrExit

\* A consumer maps the array or exits.
LEMMA OpenArrayEffect ==
  ASSUME Opened, NEW p \in Proc, init_shared_memory(p)
  PROVE  /\ p \in Cons /\ proc[p].pc = "shm_open"
         /\ \/ name["data"] # NONE /\ Moves(p, "loop")
            \/ name["data"] = NONE /\ Moves(p, "done")
         /\ proc'[p].data = name["data"] /\ SameHand(p) /\ SameIdx(p)
         /\ proc'[p].msem = proc[p].msem /\ proc'[p].fsem = proc[p].fsem
         /\ ShmUnchanged /\ UNCHANGED <<name, sem, continua_esecuzione>>
<1>1. p \in Cons /\ proc[p].pc = "shm_open" /\ ShmUnchanged
      /\ UNCHANGED <<name, sem, continua_esecuzione>>
  BY DEF init_shared_memory, At, ShmUnchanged
<1>2. TypeInv /\ name["data"] \in Prod \cup {NONE}
  BY DEF Opened, TypeInv, Names
<1>3. OrExit("data", "loop") \in ProdLabels \cup ConsLabels
  BY DEF OrExit, ConsLabels
<1>4. proc' = [proc EXCEPT ![p].pc = OrExit("data", "loop"), ![p].data = name["data"]]
  BY DEF init_shared_memory
<1>5. /\ Moves(p, OrExit("data", "loop")) /\ SameHand(p) /\ SameIdx(p)
      /\ proc'[p].data = name["data"]
      /\ proc'[p].msem = proc[p].msem /\ proc'[p].fsem = proc[p].fsem
  BY <1>2, <1>3, <1>4, OpenDataMoves
<1> QED BY <1>1, <1>5 DEF OrExit

\* Where a working consumer's record and segment are.
LEMMA Working ==
  ASSUME Opened, NEW c \in Cons, proc[c].pc \in {"wait", "pick"} \cup HandC
  PROVE  /\ c \in Proc /\ proc[c].data \in Prod /\ proc[c].msem \in Prod
         /\ proc[c].fsem \in Cons /\ proc[c].msem = proc[c].data
  BY Objects, NoneIsNobody DEF Opened, EachOnce, OpenInv, HandC, Early, Gone

\* remove_record: a record is picked, the array is empty, or the access faults.
LEMMA PickEffect ==
  ASSUME Opened, CountInv, NEW p \in Proc, PickRecord(p), NEW s,
         s = proc[p].data
  PROVE  /\ p \in Cons /\ proc[p].pc = "pick" /\ s \in Prod /\ SameOpen(p)
         /\ \/ /\ Moves(p, "shift")
               /\ proc'[p].idx \in Index /\ proc'[p].idx < seg[s].items
               /\ proc'[p].hand = seg[s].array[proc'[p].idx]
            \/ Moves(p, "cleanup") /\ Only(p) /\ seg[s].items = 0
            \/ Moves(p, "sigbus") /\ Only(p) /\ ~seg[s].sized
         /\ ShmUnchanged /\ UNCHANGED <<name, sem, continua_esecuzione>>
<1>1. p \in Cons /\ proc[p].pc = "pick" /\ ShmUnchanged
      /\ UNCHANGED <<name, sem, continua_esecuzione>>
  BY DEF PickRecord, At, ShmUnchanged
<1>2. /\ s \in Prod /\ TypeInv
      /\ {"shift", "cleanup", "sigbus"} \subseteq ProdLabels \cup ConsLabels
  BY <1>1, Working DEF Opened, ConsLabels
<1>3. seg[s].items \in 0 .. MAX_RECORD /\ seg[s].array \in [Index -> AnyRecord]
  BY <1>2, Objects DEF CountInv
<1>4. CASE seg[s].items # 0 /\ \E i \in 0 .. seg[s].items - 1 :
             proc' = [proc EXCEPT ![p].pc = "shift", ![p].idx = i, ![p].hand = seg[s].array[i]]
  <2>1. PICK i \in 0 .. seg[s].items - 1 :
          proc' = [proc EXCEPT ![p].pc = "shift", ![p].idx = i, ![p].hand = seg[s].array[i]]
    BY <1>4
  <2>2. i \in Index /\ i \in Int /\ i < seg[s].items
    BY <1>3, RecordsAssumption DEF Index
  <2>3. seg[s].array[i] \in AnyRecord
    BY <1>3, <2>2
  <2>4. /\ Moves(p, "shift") /\ SameOpen(p) /\ proc'[p].idx = i
        /\ proc'[p].hand = seg[s].array[i]
    <3>1. proc \in [Proc -> ProcState] /\ "shift" \in ProdLabels \cup ConsLabels
      BY <1>2 DEF TypeInv
    <3>2. PICK h \in AnyRecord : h = seg[s].array[i]
      BY <2>3
    <3>3. proc' = [proc EXCEPT ![p].pc = "shift", ![p].idx = i, ![p].hand = h]
      BY <2>1, <3>2
    <3>4. Moves(p, "shift") /\ SameOpen(p) /\ proc'[p].idx = i /\ proc'[p].hand = h
      BY <2>2, <3>1, <3>3 DEF Moves, SameOpen, ProcState
    <3> QED BY <3>2, <3>4
  <2> QED BY <1>1, <1>2, <2>2, <2>4
<1>5. CASE seg[s].items = 0 /\ Goto(p, "cleanup")
  BY <1>1, <1>2, <1>5, GotoMoves DEF Only
<1>6. CASE ~seg[s].sized /\ Goto(p, "sigbus")
  BY <1>1, <1>2, <1>6, GotoMoves DEF Only
<1> QED BY <1>4, <1>5, <1>6 DEF PickRecord, Data

\* remove_record: a slot takes the record of the next.
LEMMA ShiftEffect ==
  ASSUME Opened, CountInv, NEW p \in Proc, Shift(p),
         NEW s, s = proc[p].data, NEW i, i = proc[p].idx
  PROVE  /\ p \in Cons /\ proc[p].pc = "shift" /\ s \in Prod /\ SameOpen(p)
         /\ SameHand(p)
         /\ i \in Index /\ i < seg[s].items /\ seg' \in [Prod -> Segment]
         /\ \/ /\ i + 1 < seg[s].items /\ Moves(p, "shift") /\ proc'[p].idx = i + 1
               /\ seg'[s].items = seg[s].items /\ seg'[s].sized = seg[s].sized
               /\ seg'[s].array = [seg[s].array EXCEPT ![i] = seg[s].array[i + 1]]
            \/ /\ i + 1 = seg[s].items /\ Moves(p, "post") /\ SameIdx(p)
               /\ seg'[s].items = i /\ seg'[s].sized = seg[s].sized
               /\ seg'[s].array = seg[s].array
         /\ UNCHANGED <<name, sem, file, continua_esecuzione, added, lost>>
<1>1. p \in Cons /\ proc[p].pc = "shift"
      /\ UNCHANGED <<name, sem, file, continua_esecuzione, added, lost>>
  BY DEF Shift, At
<1>2. s \in Prod /\ TypeInv /\ "post" \in ProdLabels \cup ConsLabels
  BY <1>1, Working DEF Opened, ConsLabels, HandC
<1>3. seg[s].items \in 0 .. MAX_RECORD /\ seg[s].array \in [Index -> AnyRecord]
      /\ i \in 0 .. seg[s].items - 1 /\ MAX_RECORD \in Nat
  BY <1>1, <1>2, Objects, RecordsAssumption DEF CountInv, At
<1>4. i \in Index /\ i \in Int /\ i < seg[s].items
  BY <1>3 DEF Index
<1>5. CASE /\ i < seg[s].items - 1
           /\ seg' = [seg EXCEPT ![s].array[i] = seg[s].array[i + 1]]
           /\ proc' = [proc EXCEPT ![p].idx = i + 1]
  <2>1. i + 1 \in Index /\ i + 1 \in Int /\ i + 1 < seg[s].items
    BY <1>3, <1>5 DEF Index
  <2>2. seg[s].array[i + 1] \in AnyRecord
    BY <1>3, <2>1
  <2>3. Moves(p, "shift") /\ SameOpen(p) /\ SameHand(p) /\ proc'[p].idx = i + 1
    BY <1>1, <1>2, <1>5, <2>1, IdxMoves
  <2>4. /\ seg' \in [Prod -> Segment] /\ seg'[s].sized = seg[s].sized
        /\ seg'[s].items = seg[s].items
        /\ seg'[s].array = [seg[s].array EXCEPT ![i] = seg[s].array[i + 1]]
    <3>1. seg \in [Prod -> Segment]
      BY <1>2 DEF TypeInv
    <3> QED BY <1>2, <1>4, <1>5, <2>2, <3>1 DEF Segment
  <2> QED BY <1>1, <1>2, <1>4, <2>1, <2>3, <2>4
<1>6. CASE /\ i >= seg[s].items - 1
           /\ seg' = [seg EXCEPT ![s].items = @ - 1] /\ Goto(p, "post")
  <2>1. i + 1 = seg[s].items /\ seg[s].items - 1 = i
    BY <1>3, <1>6
  <2>2. seg' = [seg EXCEPT ![s].items = i]
    BY <1>6, <2>1
  <2>3. /\ seg' \in [Prod -> Segment] /\ seg'[s].sized = seg[s].sized
        /\ seg'[s].items = i /\ seg'[s].array = seg[s].array
    BY <1>2, <1>4, <2>2, SegmentItems
  <2> QED BY <1>1, <1>2, <1>4, <1>6, <2>1, <2>3, GotoMoves
<1> QED BY <1>5, <1>6 DEF Shift, Data

\* The length of the line of the record in hand.
LineOf(p) == Len[proc[p].hand]

\* A record in a hand has a line that fits the file.
LEMMA LineLength ==
  ASSUME Opened, FilledInv, NEW p \in Cons, proc[p].pc \in HandC
  PROVE  /\ proc[p].hand \in 1 .. MAX_ADDS /\ FILE_SIZE \in Nat
         /\ LineOf(p) \in Nat /\ 1 <= LineOf(p) /\ LineOf(p) <= FILE_SIZE - 2
<1>1. proc[p].hand \in 1 .. MAX_ADDS
  BY Objects, NoneIsNobody, RecordsAssumption DEF FilledInv, AnyRecord, EMPTY
<1> QED BY <1>1, LenAssumption DEF LineOf

\* write_to_shared_file: where the line goes, from the top if it does not fit.
LEMMA FindPlaceEffect ==
  ASSUME Opened, FilledInv, NEW p \in Proc, FindPlace(p)
  PROVE  /\ p \in Cons /\ proc[p].pc = "place" /\ Moves(p, "memcpy")
         /\ SameOpen(p) /\ SameHand(p)
         /\ file'.cell = file.cell
         /\ \/ /\ 1 + file.offset + LineOf(p) >= FILE_SIZE
               /\ lost' = lost \cup Written /\ file'.offset = 0
               /\ proc'[p].idx = 1
            \/ /\ 1 + file.offset + LineOf(p) < FILE_SIZE
               /\ lost' = lost /\ file'.offset = file.offset
               /\ proc'[p].idx = 1 + file.offset
         /\ file' \in [offset : Nat, cell : [Unit -> Nat]]
         /\ UNCHANGED <<name, sem, seg, continua_esecuzione, added>>
<1>1. /\ p \in Cons /\ proc[p].pc = "place"
      /\ UNCHANGED <<name, sem, seg, continua_esecuzione, added>>
  BY DEF FindPlace, At
<1>2. TypeInv /\ "memcpy" \in ProdLabels \cup ConsLabels
      /\ file \in [offset : Nat, cell : [Unit -> Nat]]
  BY DEF Opened, ConsLabels, TypeInv
<1>3. LineOf(p) \in Nat /\ FILE_SIZE \in Nat /\ file.offset \in Nat
  BY <1>1, <1>2, LineLength DEF HandC
<1>4. CASE /\ 1 + file.offset + LineOf(p) >= FILE_SIZE
           /\ lost' = lost \cup Written
           /\ file' = [file EXCEPT !.offset = 0]
           /\ proc' = [proc EXCEPT ![p].pc = "memcpy", ![p].idx = 1]
  <2>1. 1 \in Int
    OBVIOUS
  <2>2. Moves(p, "memcpy") /\ SameOpen(p) /\ SameHand(p) /\ proc'[p].idx = 1
    BY <1>2, <1>4, <2>1, PlaceMoves
  <2> QED BY <1>1, <1>2, <1>3, <1>4, <2>2
<1>5. CASE /\ ~(1 + file.offset + LineOf(p) >= FILE_SIZE)
           /\ proc' = [proc EXCEPT ![p].pc = "memcpy", ![p].idx = 1 + file.offset]
           /\ UNCHANGED <<file, lost>>
  <2>1. 1 + file.offset \in Int
    BY <1>3
  <2>2. /\ Moves(p, "memcpy") /\ SameOpen(p) /\ SameHand(p)
        /\ proc'[p].idx = 1 + file.offset
    BY <1>2, <1>5, <2>1, PlaceMoves
  <2> QED BY <1>1, <1>2, <1>3, <1>5, <2>2
<1> QED BY <1>4, <1>5 DEF FindPlace, LineOf

\* write_to_shared_file: the line is copied.
LEMMA WriteEffect ==
  ASSUME Opened, FilledInv, NEW p \in Proc, WriteLine(p)
  PROVE  /\ p \in Cons /\ proc[p].pc = "memcpy" /\ Moves(p, "advance")
         /\ Only(p)
         /\ file' \in [offset : Nat, cell : [Unit -> Nat]]
         /\ file'.offset = file.offset
         /\ \A u \in Unit : file'.cell[u] =
               IF u \in proc[p].idx .. proc[p].idx + LineOf(p) - 1
               THEN proc[p].hand ELSE file.cell[u]
         /\ UNCHANGED <<name, sem, seg, continua_esecuzione, added, lost>>
<1>1. p \in Cons /\ proc[p].pc = "memcpy"
      /\ UNCHANGED <<name, sem, seg, continua_esecuzione, added, lost>>
      /\ Goto(p, "advance")
  BY DEF WriteLine, At
<1>2. TypeInv /\ "advance" \in ProdLabels \cup ConsLabels
      /\ file \in [offset : Nat, cell : [Unit -> Nat]]
  BY DEF Opened, ConsLabels, TypeInv
<1> DEFINE cell == [u \in Unit |-> IF u \in proc[p].idx .. proc[p].idx + LineOf(p) - 1
                                   THEN proc[p].hand ELSE file.cell[u]]
<1>3. proc[p].hand \in Nat
  BY Objects, RecordsAssumption DEF AnyRecord
<1>4. file' = [file EXCEPT !.cell = cell]
  BY DEF WriteLine, LineOf
<1>5. cell \in [Unit -> Nat]
  BY <1>2, <1>3
<1>6. /\ file' \in [offset : Nat, cell : [Unit -> Nat]]
      /\ file'.offset = file.offset /\ file'.cell = cell
  <2> HIDE DEF cell
  <2> QED BY <1>2, <1>4, <1>5
<1>7. Moves(p, "advance") /\ Only(p)
  BY <1>1, <1>2, GotoMoves DEF Only
<1> QED BY <1>1, <1>6, <1>7

\* write_to_shared_file: the offset passes it.
LEMMA AdvanceEffect ==
  ASSUME Opened, FilledInv, NEW p \in Proc, AdvanceOffset(p)
  PROVE  /\ p \in Cons /\ proc[p].pc = "advance" /\ Moves(p, "fpost")
         /\ SameOpen(p) /\ SameIdx(p) /\ proc'[p].hand = EMPTY
         /\ file' \in [offset : Nat, cell : [Unit -> Nat]]
         /\ file'.cell = file.cell /\ file'.offset = file.offset + LineOf(p)
         /\ UNCHANGED <<name, sem, seg, continua_esecuzione, added, lost>>
<1>1. p \in Cons /\ proc[p].pc = "advance"
      /\ UNCHANGED <<name, sem, seg, continua_esecuzione, added, lost>>
  BY DEF AdvanceOffset, At
<1>2. TypeInv /\ "fpost" \in ProdLabels \cup ConsLabels /\ EMPTY \in AnyRecord
      /\ file \in [offset : Nat, cell : [Unit -> Nat]]
  BY RecordsAssumption DEF Opened, ConsLabels, TypeInv, EMPTY, AnyRecord
<1>3. LineOf(p) \in Nat
  BY <1>1, LineLength DEF HandC
<1>4. Moves(p, "fpost") /\ SameOpen(p) /\ SameIdx(p) /\ proc'[p].hand = EMPTY
  BY <1>2, HandMoves DEF AdvanceOffset
<1>5. file' = [file EXCEPT !.offset = file.offset + LineOf(p)]
  BY DEF AdvanceOffset, LineOf
<1> QED BY <1>1, <1>2, <1>3, <1>4, <1>5

-------------------------------------------------------------------------------
(* Types.                                                                   *)

FileType == [offset : Nat, cell : [Unit -> Nat]]

\* A step keeps the types if what it changes has them.
LEMMA TypesKept ==
  ASSUME TypeInv, NEW p \in Proc, NEW l, Moves(p, l),
         p \in Prod => l \in ProdLabels, p \in Cons => l \in ConsLabels,
         name' \in Names, sem' \in [Proc -> Nat], seg' \in [Prod -> Segment],
         file' \in FileType, continua_esecuzione' \in [Proc -> BOOLEAN],
         added' \in AnyRecord, lost' \subseteq Nat
  PROVE  TypeInv'
<1>1. proc' \in [Proc -> ProcState]
  BY DEF Moves
<1>2. \A q \in Prod : proc'[q].pc \in ProdLabels
  BY NoneIsNobody DEF Moves, TypeInv
<1>3. \A q \in Cons : proc'[q].pc \in ConsLabels
  BY NoneIsNobody DEF Moves, TypeInv
<1> QED BY <1>1, <1>2, <1>3 DEF TypeInv, FileType

\* The bounds of the records.
LEMMA RecordsAreNumbers ==
  ASSUME TypeInv
  PROVE  /\ Written \subseteq Nat
         /\ \A s \in Prod : Contents(seg[s]) \subseteq Nat
<1>1. Written \subseteq Nat
  BY DEF TypeInv, Written
<1>2. ASSUME NEW s \in Prod PROVE Contents(seg[s]) \subseteq Nat
  BY RecordsAssumption DEF TypeInv, Segment, Contents, AnyRecord
<1> QED BY <1>1, <1>2

Ready == Opened /\ CountInv /\ FilledInv

\* Every step keeps the types.
LEMMA TypeStep ==
  ASSUME Ready, [Next]_vars
  PROVE  TypeInv'
<1>0. Opened /\ CountInv /\ FilledInv /\ TypeInv
  BY DEF Ready, Opened
<1>t. /\ name \in Names /\ sem \in [Proc -> Nat] /\ seg \in [Prod -> Segment]
      /\ file \in FileType /\ continua_esecuzione \in [Proc -> BOOLEAN]
      /\ added \in AnyRecord /\ lost \subseteq Nat
  BY <1>0 DEF TypeInv, FileType
<1> HIDE DEF TypeInv
<1>1. CASE UNCHANGED vars
  BY <1>0, <1>1 DEF vars, TypeInv
<1>2. SUFFICES ASSUME NEW p \in Proc,
                      Produce(p) \/ Consume(p) \/ signal_handler(p) \/ Kill(p)
               PROVE  TypeInv'
  BY <1>1 DEF Next
<1>3. CASE ForgetSemaphore(p) \/ cleanup_shared_memory(p) \/ cleanup_semaphore(p)
           \/ cleanup_semaphore_file(p)
  <2>1. name' \in Names
    BY <1>0, <1>3, <1>t, UnlinkEffect, NoneIsNobody DEF Names
  <2> QED BY <1>0, <1>3, <1>t, <2>1, UnlinkEffect, TypesKept, NoneIsNobody
          DEF ShmUnchanged, ProdLabels, ConsLabels
<1>4. CASE init_semaphore(p)
  <2>1. name' \in Names /\ sem' \in [Proc -> Nat]
    BY <1>0, <1>4, <1>t, CreateEffect, NoneIsNobody DEF Names
  <2>2. /\ p \in Prod /\ p \notin Cons /\ Moves(p, "shm_open")
        /\ ShmUnchanged /\ UNCHANGED continua_esecuzione
    BY <1>0, <1>4, CreateEffect, NoneIsNobody
  <2> QED BY <1>0, <1>t, <2>1, <2>2, TypesKept DEF ShmUnchanged, ProdLabels
<1>5. CASE OpenSegment(p)
  <2>1. name' \in Names
    BY <1>0, <1>5, <1>t, OpenSegmentEffect, NoneIsNobody DEF Names
  <2> QED BY <1>0, <1>5, <1>t, <2>1, OpenSegmentEffect, TypesKept, NoneIsNobody
          DEF ShmUnchanged, ProdLabels
<1>6. CASE SizeSegment(p) \/ ResetItems(p) \/ ClearArray(p)
  <2>1. lost' \subseteq Nat
    BY <1>0, <1>6, <1>t, InitSegmentEffect, RecordsAreNumbers
  <2> QED BY <1>0, <1>6, <1>t, <2>1, InitSegmentEffect, TypesKept, NoneIsNobody
             DEF ProdLabels
<1>7. CASE generate_record(p)
  <2>1. added' \in AnyRecord
    BY <1>0, <1>7, <1>t, GenerateEffect, RecordsAssumption DEF AnyRecord
  <2> QED BY <1>0, <1>7, <1>t, <2>1, GenerateEffect, TypesKept, NoneIsNobody
             DEF ProdLabels
<1>8. CASE AcquireArray(p) \/ AcquireToRemove(p)
  <2>1. proc[p].msem \in Proc /\ sem[proc[p].msem] - 1 \in Nat
        /\ sem' = [sem EXCEPT ![proc[p].msem] = @ - 1]
    BY <1>0, <1>8, <1>t, AcquireArrayEffect, NoneIsNobody
  <2>2. sem' \in [Proc -> Nat]
    BY <1>t, <2>1
  <2>3. UNCHANGED <<name, seg, file, continua_esecuzione, added, lost>>
    BY <1>0, <1>8, AcquireArrayEffect DEF ShmUnchanged
  <2>4. CASE p \in Prod /\ Moves(p, "add")
    BY <1>0, <1>t, <2>2, <2>3, <2>4, TypesKept, NoneIsNobody DEF ProdLabels
  <2>5. CASE p \in Cons /\ Moves(p, "pick")
    BY <1>0, <1>t, <2>2, <2>3, <2>5, TypesKept, NoneIsNobody DEF ConsLabels
  <2> QED BY <1>0, <1>8, <2>4, <2>5, AcquireArrayEffect
<1>9. CASE CopyRecord(p)
  <2>1. p \in Prod /\ seg[p].items \in 0 .. MAX_RECORD
    BY <1>0, <1>9 DEF CopyRecord, CountInv
  <2>2. lost' \subseteq Nat
    BY <1>0, <1>9, <1>t, <2>1, CopyEffect, RecordsAreNumbers
  <2> QED BY <1>0, <1>9, <1>t, <2>1, <2>2, CopyEffect, TypesKept, NoneIsNobody
             DEF ProdLabels
<1>10. CASE CountRecord(p)
  BY <1>0, <1>10, <1>t, CountEffect, TypesKept, NoneIsNobody DEF ProdLabels
<1>11. CASE ReleaseArray(p) \/ ReleaseRemoved(p)
  <2>1. proc[p].msem \in Proc /\ sem[proc[p].msem] + 1 \in Nat
        /\ sem' = [sem EXCEPT ![proc[p].msem] = @ + 1]
    BY <1>0, <1>11, <1>t, ReleaseArrayEffect, NoneIsNobody
  <2>2. sem' \in [Proc -> Nat]
    BY <1>t, <2>1
  <2>3. UNCHANGED <<name, seg, file, continua_esecuzione, added, lost>>
    BY <1>0, <1>11, ReleaseArrayEffect DEF ShmUnchanged
  <2>4. CASE p \in Prod /\ Moves(p, "loop")
    BY <1>0, <1>t, <2>2, <2>3, <2>4, TypesKept, NoneIsNobody DEF ProdLabels
  <2>5. CASE p \in Cons /\ Moves(p, "fwait")
    BY <1>0, <1>t, <2>2, <2>3, <2>5, TypesKept, NoneIsNobody DEF ConsLabels
  <2> QED BY <1>0, <1>11, <2>4, <2>5, ReleaseArrayEffect
<1>12. CASE StopProducing(p) \/ ConsumeOn(p) \/ Kill(p)
  BY <1>0, <1>12, <1>t, ControlEffect, TypesKept, NoneIsNobody
     DEF ShmUnchanged, ProdLabels, ConsLabels
<1>13. CASE signal_handler(p)
  BY <1>0, <1>13, HandlerEffect DEF ShmUnchanged, TypeInv
<1>14. CASE init_semaphore_shared_memory(p)
  BY <1>0, <1>14, <1>t, OpenArraySemaphoreEffect, TypesKept, NoneIsNobody
     DEF ShmUnchanged, ConsLabels
<1>15. CASE init_semaphore_file(p)
  BY <1>0, <1>15, <1>t, OpenFileSemaphoreEffect, TypesKept, NoneIsNobody
     DEF ShmUnchanged, ConsLabels
<1>16. CASE CreateFileSemaphore(p)
  <2>1. name' \in Names /\ sem' \in [Proc -> Nat]
    BY <1>0, <1>16, <1>t, CreateFileSemaphoreEffect, NoneIsNobody DEF Names
  <2> QED BY <1>0, <1>16, <1>t, <2>1, CreateFileSemaphoreEffect, TypesKept,
             NoneIsNobody
          DEF ShmUnchanged, ConsLabels
<1>17. CASE ReopenFileSemaphore(p)
  BY <1>0, <1>17, <1>t, ReopenFileSemaphoreEffect, TypesKept, NoneIsNobody
     DEF ShmUnchanged, ConsLabels
<1>18. CASE init_shared_memory(p)
  BY <1>0, <1>18, <1>t, OpenArrayEffect, TypesKept, NoneIsNobody
     DEF ShmUnchanged, ConsLabels
<1>19. CASE AcquireFile(p)
  <2>1. proc[p].fsem \in Proc /\ sem[proc[p].fsem] - 1 \in Nat
        /\ sem' = [sem EXCEPT ![proc[p].fsem] = @ - 1]
    BY <1>0, <1>19, <1>t, AcquireFileEffect, NoneIsNobody
  <2>2. sem' \in [Proc -> Nat]
    BY <1>t, <2>1
  <2>3. /\ p \in Cons /\ p \notin Prod /\ Moves(p, "place") /\ ShmUnchanged
        /\ UNCHANGED <<name, continua_esecuzione>>
    BY <1>0, <1>19, AcquireFileEffect, NoneIsNobody
  <2> QED BY <1>0, <1>t, <2>2, <2>3, TypesKept DEF ShmUnchanged, ConsLabels
<1>20. CASE ReleaseFile(p)
  <2>1. proc[p].fsem \in Proc /\ sem[proc[p].fsem] + 1 \in Nat
        /\ sem' = [sem EXCEPT ![proc[p].fsem] = @ + 1]
    BY <1>0, <1>20, <1>t, ReleaseFileEffect, NoneIsNobody
  <2>2. sem' \in [Proc -> Nat]
    BY <1>t, <2>1
  <2>3. /\ p \in Cons /\ p \notin Prod /\ Moves(p, "loop") /\ ShmUnchanged
        /\ UNCHANGED <<name, continua_esecuzione>>
    BY <1>0, <1>20, ReleaseFileEffect, NoneIsNobody
  <2> QED BY <1>0, <1>t, <2>2, <2>3, TypesKept DEF ShmUnchanged, ConsLabels
<1>21. CASE PickRecord(p)
  <2>1. /\ p \in Cons /\ p \notin Prod /\ ShmUnchanged
        /\ UNCHANGED <<name, sem, continua_esecuzione>>
        /\ \E l \in {"shift", "cleanup", "sigbus"} : Moves(p, l)
    BY <1>0, <1>21, PickEffect, NoneIsNobody
  <2> QED BY <1>0, <1>t, <2>1, TypesKept DEF ShmUnchanged, ConsLabels
<1>22. CASE Shift(p)
  <2>1. /\ p \in Cons /\ seg' \in [Prod -> Segment]
        /\ Moves(p, "shift") \/ Moves(p, "post")
        /\ UNCHANGED <<name, sem, file, continua_esecuzione, added, lost>>
    BY <1>0, <1>22, ShiftEffect
  <2> QED BY <1>0, <1>t, <2>1, TypesKept, NoneIsNobody DEF ConsLabels
<1>23. CASE FindPlace(p)
  BY <1>0, <1>23, <1>t, FindPlaceEffect, RecordsAreNumbers, TypesKept,
     NoneIsNobody
     DEF ConsLabels, FileType
<1>24. CASE WriteLine(p)
  BY <1>0, <1>24, <1>t, WriteEffect, TypesKept, NoneIsNobody
     DEF ConsLabels, FileType
<1>25. CASE AdvanceOffset(p)
  BY <1>0, <1>25, <1>t, AdvanceEffect, TypesKept, NoneIsNobody
     DEF ConsLabels, FileType
<1> QED BY <1>2, <1>3, <1>4, <1>5, <1>6, <1>7, <1>8, <1>9, <1>10, <1>11, <1>12,
           <1>13,
           <1>14, <1>15, <1>16, <1>17, <1>18, <1>19, <1>20, <1>21, <1>22, <1>23, <1>24,
           <1>25 DEF Produce, Consume

-------------------------------------------------------------------------------
(* What the processes have open.                                            *)

\* A step that opens nothing, and goes where it may with what is open.
LEMMA OpenKept ==
  ASSUME Opened, NEW p \in Proc, NEW l, Moves(p, l), SameOpen(p),
         name'["memory"] \in {name["memory"], NONE}, name'["data"] \in {name["data"], NONE},
         \A s \in Prod : proc[s].msem = NONE => sem'[s] = sem[s],
         p \in Prod => /\ proc[p].msem = NONE => l \in {"start", "sem_open", "killed"}
                       /\ proc[p].data = NONE => l \in {"start", "sem_open", "shm_open", "killed"}
                       /\ l \in {"start", "sem_open"} => proc[p].msem = NONE,
         p \in Cons => \/ l \in Gone
                       \/ l = "file_again" /\ proc[p].pc = "file_excl"
                       \/ l \notin Early \cup {"shm_open"} /\ proc[p].data # NONE
  PROVE  OpenInv'
<1>1. \A q \in Proc : /\ proc'[q].msem = proc[q].msem /\ proc'[q].fsem = proc[q].fsem
                      /\ proc'[q].data = proc[q].data
                      /\ proc'[q].pc = IF q = p THEN l ELSE proc[q].pc
  BY DEF Moves, SameOpen
<1>2. OpenInv
  BY DEF Opened
<1>3. \A q \in Proc : proc[q].msem \in Prod \cup {NONE} /\ proc[q].data \in Prod \cup {NONE}
  BY Objects DEF Proc
<1>4. ASSUME NEW q \in Prod
      PROVE  /\ proc'[q].msem # NONE <=> proc'[q].msem = q
             /\ proc'[q].msem = NONE => /\ proc'[q].pc \in {"start", "sem_open", "killed"}
                                        /\ name'["memory"] = NONE /\ sem'[q] = 0
             /\ proc'[q].data = NONE => /\ proc'[q].pc \in {"start", "sem_open", "shm_open", "killed"}
                                        /\ name'["data"] = NONE
             /\ proc'[q].data # NONE => proc'[q].msem # NONE
             /\ proc'[q].pc \in {"start", "sem_open"} => proc'[q].msem = NONE
  BY <1>1, <1>2, NoneIsNobody DEF OpenInv
<1>5. ASSUME NEW c \in Cons
      PROVE  /\ proc'[c].msem # NONE => proc'[proc'[c].msem].msem # NONE
             /\ proc'[c].data # NONE => /\ proc'[proc'[c].data].data # NONE
                                        /\ proc'[c].msem # NONE
                                        /\ proc'[c].fsem # NONE
             /\ proc'[c].pc \in Early => proc'[c].fsem = NONE
             /\ proc'[c].pc = "shm_open" => proc'[c].fsem # NONE /\ proc'[c].msem # NONE
             /\ proc'[c].pc \in Early \ {"start"} => proc'[c].msem # NONE
             /\ proc'[c].pc \notin Early \cup {"shm_open"} \cup Gone => proc'[c].data # NONE
  BY <1>1, <1>2, <1>3, NoneIsNobody DEF OpenInv, Early, Gone
<1> QED BY <1>4, <1>5 DEF OpenInv

\* The values of the other semaphores.
LEMMA OneSemaphore ==
  ASSUME TypeInv, NEW s \in Proc, NEW n, sem' = [sem EXCEPT ![s] = n]
  PROVE  sem'[s] = n /\ \A q \in Proc \ {s} : sem'[q] = sem[q]
  BY DEF TypeInv

\* A consumer comes to have msem, fsem and data as the arguments say.
LEMMA OpenMore ==
  ASSUME Opened, NEW p \in Cons, NEW l, Moves(p, l),
         UNCHANGED <<name["memory"], name["data"]>>,
         \A s \in Prod : sem'[s] = sem[s],
         proc'[p].msem \in {proc[p].msem, name["memory"]},
         proc'[p].data \in {proc[p].data, name["data"]},
         proc'[p].msem # NONE \/ (proc'[p].data = NONE /\ l \in Gone),
         l \in Early => proc'[p].fsem = NONE,
         l = "shm_open" \/ proc'[p].data # NONE => proc'[p].fsem # NONE,
         l \notin Early \cup {"shm_open"} \cup Gone => proc'[p].data # NONE
  PROVE  OpenInv'
<1>1. \A q \in Proc \ {p} : proc'[q] = proc[q]
  BY DEF Moves
<1>2. OpenInv
  BY DEF Opened
<1>3. /\ \A q \in Proc : proc[q].msem \in Prod \cup {NONE} /\ proc[q].data \in Prod \cup {NONE}
      /\ name["memory"] \in Prod \cup {NONE}
      /\ name["data"] \in Prod \cup {NONE}
  BY Objects DEF Proc, Opened, TypeInv, Names
<1>4. ASSUME NEW q \in Prod
      PROVE  /\ proc'[q].msem # NONE <=> proc'[q].msem = q
             /\ proc'[q].msem = NONE => /\ proc'[q].pc \in {"start", "sem_open", "killed"}
                                        /\ name'["memory"] = NONE /\ sem'[q] = 0
             /\ proc'[q].data = NONE => /\ proc'[q].pc \in {"start", "sem_open", "shm_open", "killed"}
                                        /\ name'["data"] = NONE
             /\ proc'[q].data # NONE => proc'[q].msem # NONE
             /\ proc'[q].pc \in {"start", "sem_open"} => proc'[q].msem = NONE
  BY <1>1, <1>2, NoneIsNobody DEF OpenInv
<1>5. ASSUME NEW c \in Cons
      PROVE  /\ proc'[c].msem # NONE => proc'[proc'[c].msem].msem # NONE
             /\ proc'[c].data # NONE => /\ proc'[proc'[c].data].data # NONE
                                        /\ proc'[c].msem # NONE
                                        /\ proc'[c].fsem # NONE
             /\ proc'[c].pc \in Early => proc'[c].fsem = NONE
             /\ proc'[c].pc = "shm_open" => proc'[c].fsem # NONE /\ proc'[c].msem # NONE
             /\ proc'[c].pc \in Early \ {"start"} => proc'[c].msem # NONE
             /\ proc'[c].pc \notin Early \cup {"shm_open"} \cup Gone => proc'[c].data # NONE
  <2>1. CASE c # p
    BY <1>1, <1>2, <1>3, <2>1, NoneIsNobody DEF OpenInv
  <2>2. CASE c = p
    <3>1. \A s \in Prod : proc'[s] = proc[s]
      BY <1>1, NoneIsNobody
    <3>2. proc'[p].pc = l
      BY DEF Moves
    <3>3. /\ proc'[p].msem # NONE => proc'[p].msem \in Prod /\ proc[proc'[p].msem].msem # NONE
          /\ proc'[p].data # NONE => proc'[p].data \in Prod /\ proc[proc'[p].data].data # NONE
      BY <1>2, <1>3, NoneIsNobody DEF OpenInv
    <3>4. l \in Early \cup {"shm_open"} => proc'[p].msem # NONE
      BY DEF Early, Gone
    <3> QED BY <2>2, <3>1, <3>2, <3>3, <3>4
  <2> QED BY <2>1, <2>2
<1> QED BY <1>4, <1>5 DEF OpenInv

\* Every step keeps what is open where it must be.
LEMMA OpenStep ==
  ASSUME Ready, [Next]_vars
  PROVE  OpenInv'
<1>0. Opened /\ CountInv /\ FilledInv /\ OpenInv /\ TypeInv
  BY DEF Ready, Opened
<1>1. CASE UNCHANGED vars
  BY <1>0, <1>1 DEF vars, OpenInv
<1>2. SUFFICES ASSUME NEW p \in Proc,
                      Produce(p) \/ Consume(p) \/ signal_handler(p) \/ Kill(p)
               PROVE  OpenInv'
  BY <1>1 DEF Next
<1>o. ASSUME p \in Prod,
             proc[p].pc \notin {"start", "sem_open", "shm_open", "killed"}
      PROVE  proc[p].msem = p /\ proc[p].data = p
  BY <1>0, <1>o, OwnSegment
<1>w. ASSUME p \in Cons, proc[p].pc \notin Early \cup {"shm_open"} \cup Gone
      PROVE  proc[p].data # NONE
  BY <1>0, <1>w DEF OpenInv
<1>3. CASE ForgetSemaphore(p) \/ cleanup_shared_memory(p) \/ cleanup_semaphore(p)
           \/ cleanup_semaphore_file(p)
  <2>1. /\ name'["memory"] \in {name["memory"], NONE}
        /\ name'["data"] \in {name["data"], NONE}
    BY <1>0, <1>3, UnlinkEffect DEF TypeInv, Names
  <2>2. SameOpen(p) /\ sem' = sem
    BY <1>0, <1>3, UnlinkEffect DEF Only
  <2>3. CASE p \in Cons
    BY <1>0, <1>3, <2>1, <2>2, <2>3, UnlinkEffect, OpenKept, NoneIsNobody
       DEF Gone
  <2>4. CASE p \in Prod
    <3>1. proc[p].pc = "start" => proc[p].msem = NONE
      BY <1>0, <2>4 DEF OpenInv
    <3> QED BY <1>0, <1>3, <1>o, <2>1, <2>2, <2>4, <3>1, UnlinkEffect, OpenKept,
               NoneIsNobody
  <2> QED BY <2>3, <2>4 DEF Proc
<1>4. CASE init_semaphore(p)
  <2>1. /\ p \in Prod /\ Moves(p, "shm_open") /\ proc[p].pc = "sem_open"
        /\ proc'[p].msem = name'["memory"] /\ name'["memory"] \in Prod
        /\ proc'[p].data = proc[p].data /\ name'["data"] = name["data"]
        /\ \A q \in Cons : proc'[q] = proc[q]
        /\ \A q \in Prod : q = p
    BY <1>0, <1>4, CreateEffect, NoneIsNobody
       DEF Moves, TypeInv, Names, Opened, EachOnce
  <2>2. proc'[p].msem = p /\ proc'[p].pc = "shm_open"
    BY <2>1 DEF Moves
  <2>3. ASSUME NEW q \in Prod
        PROVE  /\ proc'[q].msem # NONE <=> proc'[q].msem = q
               /\ proc'[q].msem # NONE /\ proc'[q].pc = "shm_open"
               /\ proc'[q].data = NONE => /\ proc'[q].pc \in {"start", "sem_open", "shm_open", "killed"}
                                          /\ name'["data"] = NONE
    BY <1>0, <2>1, <2>2, NoneIsNobody DEF OpenInv
  <2>4. ASSUME NEW c \in Cons, proc[c].msem # NONE
        PROVE  proc[c].msem = p
    BY <2>1, <2>4, <1>0, Objects
  <2>5. ASSUME NEW c \in Cons, proc[c].data # NONE
        PROVE  proc[c].data = p
    BY <2>1, <2>5, <1>0, Objects
  <2> QED BY <1>0, <2>1, <2>2, <2>3, <2>4, <2>5, NoneIsNobody DEF OpenInv
<1>5. CASE OpenSegment(p)
  <2>1. /\ p \in Prod /\ Moves(p, "ftruncate") /\ proc[p].pc = "shm_open"
        /\ proc'[p].data = name'["data"] /\ name'["data"] \in Prod
        /\ proc'[p].msem = proc[p].msem /\ name'["memory"] = name["memory"]
        /\ sem' = sem
        /\ \A q \in Cons : proc'[q] = proc[q]
        /\ \A q \in Prod : q = p
    BY <1>0, <1>5, OpenSegmentEffect, NoneIsNobody
       DEF Moves, TypeInv, Names, Opened, EachOnce
  <2>2. proc'[p].data = p /\ proc'[p].pc = "ftruncate" /\ proc'[p].msem = p
    BY <1>0, <2>1, NoneIsNobody DEF Moves, OpenInv
  <2>3. ASSUME NEW q \in Prod
        PROVE  /\ proc'[q].msem = q /\ proc'[q].data = q
               /\ proc'[q].pc = "ftruncate"
    BY <2>1, <2>2
  <2>4. ASSUME NEW c \in Cons
        PROVE  /\ proc[c].msem # NONE => proc[c].msem = p
               /\ proc[c].data # NONE => proc[c].data = p
    BY <2>1, <1>0, Objects
  <2> QED BY <1>0, <2>1, <2>2, <2>3, <2>4, NoneIsNobody DEF OpenInv
<1>6. CASE SizeSegment(p) \/ ResetItems(p) \/ ClearArray(p)
  <2>1. p \in Prod /\ SameOpen(p) /\ UNCHANGED <<name, sem>>
        /\ proc[p].pc \notin {"start", "sem_open", "shm_open", "killed"}
        /\ \E l \in {"init", "clear", "loop"} : Moves(p, l)
    BY <1>0, <1>6, InitSegmentEffect DEF Only
  <2>2. PICK l \in {"init", "clear", "loop"} : Moves(p, l)
    BY <2>1
  <2>3. proc[p].msem # NONE /\ proc[p].data # NONE /\ p \notin Cons
    BY <1>o, <2>1, NoneIsNobody
  <2> QED BY <1>0, <2>1, <2>2, <2>3, OpenKept
<1>7. CASE generate_record(p)
  BY <1>0, <1>7, <1>o, GenerateEffect, OpenKept, NoneIsNobody
<1>8. CASE AcquireArray(p) \/ AcquireToRemove(p)
  <2>1. /\ SameOpen(p) /\ name' = name /\ proc[p].msem \in Prod
        /\ sem' = [sem EXCEPT ![proc[p].msem] = sem[proc[p].msem] - 1]
        /\ proc[p].pc = "wait"
    BY <1>0, <1>8, AcquireArrayEffect DEF Only
  <2>2. \A s \in Prod : proc[s].msem = NONE => sem'[s] = sem[s]
    BY <1>0, <2>1, OneSemaphore, Objects, NoneIsNobody DEF OpenInv, Proc
  <2>3. CASE p \in Prod /\ Moves(p, "add")
    BY <1>0, <1>o, <2>1, <2>2, <2>3, OpenKept, NoneIsNobody
  <2>4. CASE p \in Cons /\ Moves(p, "pick")
    BY <1>0, <1>w, <2>1, <2>2, <2>4, OpenKept, NoneIsNobody DEF Early, Gone
  <2> QED BY <1>0, <1>8, <2>3, <2>4, AcquireArrayEffect
<1>9. CASE CopyRecord(p)
  <2>1. p \in Prod /\ seg[p].items \in 0 .. MAX_RECORD
    BY <1>0, <1>9 DEF CopyRecord, CountInv
  <2> QED BY <1>0, <1>9, <1>o, <2>1, CopyEffect, OpenKept, NoneIsNobody DEF Only
<1>10. CASE CountRecord(p)
  BY <1>0, <1>10, <1>o, CountEffect, OpenKept, NoneIsNobody
<1>11. CASE ReleaseArray(p) \/ ReleaseRemoved(p)
  <2>1. /\ SameOpen(p) /\ name' = name /\ proc[p].msem \in Prod
        /\ sem' = [sem EXCEPT ![proc[p].msem] = sem[proc[p].msem] + 1]
        /\ proc[p].pc = "post"
    BY <1>0, <1>11, ReleaseArrayEffect DEF Only
  <2>2. \A s \in Prod : proc[s].msem = NONE => sem'[s] = sem[s]
    BY <1>0, <2>1, OneSemaphore, Objects, NoneIsNobody DEF OpenInv, Proc
  <2>3. CASE p \in Prod /\ Moves(p, "loop")
    BY <1>0, <1>o, <2>1, <2>2, <2>3, OpenKept, NoneIsNobody
  <2>4. CASE p \in Cons /\ Moves(p, "fwait")
    BY <1>0, <1>w, <2>1, <2>2, <2>4, OpenKept, NoneIsNobody DEF Early, Gone
  <2> QED BY <1>0, <1>11, <2>3, <2>4, ReleaseArrayEffect
<1>12. CASE StopProducing(p) \/ ConsumeOn(p) \/ Kill(p)
  <2>1. SameOpen(p) /\ UNCHANGED <<name, sem>>
    BY <1>0, <1>12, ControlEffect DEF Only
  <2>2. CASE StopProducing(p)
    BY <1>0, <1>o, <2>1, <2>2, ControlEffect, OpenKept, NoneIsNobody
  <2>3. CASE ConsumeOn(p)
    BY <1>0, <1>w, <2>1, <2>3, ControlEffect, OpenKept, NoneIsNobody
       DEF Early, Gone
  <2>4. CASE Kill(p)
    BY <1>0, <2>1, <2>4, ControlEffect, OpenKept, NoneIsNobody DEF Gone
  <2> QED BY <1>12, <2>2, <2>3, <2>4
<1>13. CASE signal_handler(p)
  BY <1>0, <1>13, HandlerEffect DEF OpenInv
<1>14. CASE init_semaphore_shared_memory(p)
  <2>1. proc[p].fsem = NONE /\ proc[p].data = NONE
    BY <1>0, <1>14, OpenArraySemaphoreEffect DEF OpenInv, Early
  <2>2. /\ p \in Cons /\ proc'[p].msem = name["memory"] /\ proc'[p].fsem = NONE
        /\ proc'[p].data = NONE /\ UNCHANGED <<name, sem>>
    BY <1>0, <1>14, <2>1, OpenArraySemaphoreEffect
  <2>3. CASE name["memory"] # NONE /\ Moves(p, "file_open")
    BY <1>0, <2>1, <2>2, <2>3, OpenMore DEF Early, Gone
  <2>4. CASE name["memory"] = NONE /\ Moves(p, "done")
    BY <1>0, <2>1, <2>2, <2>4, OpenMore DEF Early, Gone
  <2> QED BY <1>0, <1>14, <2>3, <2>4, OpenArraySemaphoreEffect
<1>15. CASE init_semaphore_file(p)
  <2>1. proc[p].msem # NONE /\ proc[p].data = NONE
    BY <1>0, <1>15, OpenFileSemaphoreEffect DEF OpenInv, Early
  <2>2. /\ p \in Cons /\ proc'[p].fsem = name["file"]
        /\ proc'[p].msem = proc[p].msem
        /\ proc'[p].data = NONE /\ UNCHANGED <<name, sem>>
    BY <1>0, <1>15, <2>1, OpenFileSemaphoreEffect
  <2>3. CASE name["file"] # NONE /\ Moves(p, "shm_open")
    BY <1>0, <2>1, <2>2, <2>3, OpenMore DEF Early, Gone
  <2>4. CASE name["file"] = NONE /\ Moves(p, "file_excl")
    BY <1>0, <2>1, <2>2, <2>4, OpenMore DEF Early, Gone
  <2> QED BY <1>0, <1>15, <2>3, <2>4, OpenFileSemaphoreEffect
<1>16. CASE CreateFileSemaphore(p)
  <2>1. /\ p \in Cons /\ proc[p].pc = "file_excl" /\ proc[p].msem # NONE
        /\ proc[p].data = NONE
        /\ proc'[p].msem = proc[p].msem /\ proc'[p].data = proc[p].data
    BY <1>0, <1>16, CreateFileSemaphoreEffect DEF OpenInv, Early
  <2>2. CASE /\ name["file"] = NONE /\ Moves(p, "shm_open") /\ proc'[p].fsem = p
             /\ name' = [name EXCEPT !["file"] = p]
             /\ sem' = [sem EXCEPT ![p] = 1]
    <3>1. /\ UNCHANGED <<name["memory"], name["data"]>>
          /\ \A s \in Prod : sem'[s] = sem[s]
      BY <1>0, <2>1, <2>2, NoneIsNobody DEF TypeInv, Names
    <3> QED BY <1>0, <2>1, <2>2, <3>1, OpenMore, NoneIsNobody DEF Early, Gone
  <2>3. CASE /\ name["file"] # NONE /\ Moves(p, "file_again") /\ SameOpen(p)
             /\ UNCHANGED <<name, sem>>
    BY <1>0, <2>1, <2>3, OpenKept, NoneIsNobody
  <2> QED BY <1>0, <1>16, <2>2, <2>3, CreateFileSemaphoreEffect
<1>17. CASE ReopenFileSemaphore(p)
  <2>1. proc[p].msem # NONE /\ proc[p].data = NONE
    BY <1>0, <1>17, ReopenFileSemaphoreEffect DEF OpenInv, Early
  <2>2. /\ p \in Cons /\ proc'[p].fsem = name["file"]
        /\ proc'[p].msem = proc[p].msem
        /\ proc'[p].data = NONE /\ UNCHANGED <<name, sem>>
    BY <1>0, <1>17, <2>1, ReopenFileSemaphoreEffect
  <2>3. CASE name["file"] # NONE /\ Moves(p, "shm_open")
    BY <1>0, <2>1, <2>2, <2>3, OpenMore DEF Early, Gone
  <2>4. CASE name["file"] = NONE /\ Moves(p, "done")
    BY <1>0, <2>1, <2>2, <2>4, OpenMore DEF Early, Gone
  <2> QED BY <1>0, <1>17, <2>3, <2>4, ReopenFileSemaphoreEffect
<1>18. CASE init_shared_memory(p)
  <2>1. proc[p].msem # NONE /\ proc[p].fsem # NONE
    BY <1>0, <1>18, OpenArrayEffect DEF OpenInv
  <2>2. /\ p \in Cons /\ proc'[p].fsem = proc[p].fsem
        /\ proc'[p].msem = proc[p].msem
        /\ proc'[p].data = name["data"] /\ UNCHANGED <<name, sem>>
    BY <1>0, <1>18, <2>1, OpenArrayEffect
  <2>3. CASE name["data"] # NONE /\ Moves(p, "loop")
    BY <1>0, <2>1, <2>2, <2>3, OpenMore DEF Early, Gone
  <2>4. CASE name["data"] = NONE /\ Moves(p, "done")
    BY <1>0, <2>1, <2>2, <2>4, OpenMore DEF Early, Gone
  <2> QED BY <1>0, <1>18, <2>3, <2>4, OpenArrayEffect
<1>19. CASE AcquireFile(p)
  <2>1. /\ p \in Cons /\ SameOpen(p) /\ name' = name /\ proc[p].fsem \in Cons
        /\ Moves(p, "place")
        /\ sem' = [sem EXCEPT ![proc[p].fsem] = sem[proc[p].fsem] - 1]
        /\ proc[p].pc = "fwait"
    BY <1>0, <1>19, AcquireFileEffect DEF Only
  <2>2. \A s \in Prod : sem'[s] = sem[s]
    BY <1>0, <2>1, NoneIsNobody DEF TypeInv
  <2> QED BY <1>0, <1>w, <2>1, <2>2, OpenKept, NoneIsNobody DEF Early, Gone
<1>20. CASE ReleaseFile(p)
  <2>1. /\ p \in Cons /\ SameOpen(p) /\ name' = name /\ proc[p].fsem \in Cons
        /\ Moves(p, "loop")
        /\ sem' = [sem EXCEPT ![proc[p].fsem] = sem[proc[p].fsem] + 1]
        /\ proc[p].pc = "fpost"
    BY <1>0, <1>20, ReleaseFileEffect DEF Only
  <2>2. \A s \in Prod : sem'[s] = sem[s]
    BY <1>0, <2>1, NoneIsNobody DEF TypeInv
  <2> QED BY <1>0, <1>w, <2>1, <2>2, OpenKept, NoneIsNobody DEF Early, Gone
<1>21. CASE \/ PickRecord(p) \/ Shift(p) \/ FindPlace(p) \/ WriteLine(p)
            \/ AdvanceOffset(p)
  <2>1. /\ p \in Cons /\ SameOpen(p) /\ UNCHANGED <<name, sem>>
        /\ proc[p].pc \in {"pick", "shift", "place", "memcpy", "advance"}
        /\ \E l \in {"shift", "cleanup", "sigbus", "post", "memcpy", "advance", "fpost"} : Moves(p, l)
    BY <1>0, <1>21, PickEffect, ShiftEffect, FindPlaceEffect, WriteEffect,
       AdvanceEffect DEF Only
  <2> QED BY <1>0, <1>w, <2>1, OpenKept, NoneIsNobody DEF Early, Gone
<1> QED BY <1>2, <1>3, <1>4, <1>5, <1>6, <1>7, <1>8, <1>9, <1>10, <1>11, <1>12,
           <1>13,
           <1>14, <1>15, <1>16, <1>17, <1>18, <1>19, <1>20, <1>21 DEF Produce, Consume

-------------------------------------------------------------------------------
(* The two consumers have one semaphore for the file.                       *)

\* A step by which no consumer comes to have a semaphore for the file.
LEMMA FileNameKept ==
  ASSUME Opened, FileNameInv, NEW p \in Proc, NEW l, Moves(p, l),
         proc'[p].fsem = proc[p].fsem, name'["file"] = name["file"],
         p \in Cons => (l \in Early => proc[p].pc \in Early)
                       /\ (l \notin Gone => proc[p].pc \notin Gone)
  PROVE  FileNameInv'
<1>1. \A q \in Proc : /\ proc'[q].fsem = proc[q].fsem
                      /\ proc'[q].pc = IF q = p THEN l ELSE proc[q].pc
  BY DEF Moves
<1>2. Cons \subseteq Proc /\ NONE \notin Cons
      /\ (\A c \in Cons : proc[c].fsem \in Cons \cup {NONE})
      /\ name["file"] \in Cons \cup {NONE}
  BY NoneIsNobody, Objects DEF Opened, TypeInv, Names
<1>3. \A c \in Cons : (proc'[c].pc \in Early => proc[c].pc \in Early)
                      /\ (proc'[c].pc \notin Gone => proc[c].pc \notin Gone)
  BY <1>1, <1>2
<1>4. \A c \in Cons : proc'[c].fsem # NONE => proc'[proc'[c].fsem].fsem = proc'[c].fsem
  BY <1>1, <1>2 DEF FileNameInv
<1>5. \A c \in Cons : name'["file"] # NONE => proc'[name'["file"]].fsem = name'["file"]
  BY <1>1, <1>2 DEF FileNameInv
<1>6. ASSUME NEW c \in Cons, NEW d \in Cons, proc'[c].fsem # NONE,
             proc'[c].pc \notin Gone, c # d
      PROVE  /\ proc'[d].pc \in Early => name'["file"] = proc'[c].fsem
             /\ proc'[d].fsem # NONE /\ proc'[d].pc \notin Gone => proc'[d].fsem = proc'[c].fsem
  BY <1>1, <1>2, <1>3, <1>6 DEF FileNameInv
<1> QED BY <1>4, <1>5, <1>6 DEF FileNameInv

\* A consumer that had none comes to have the semaphore s.
LEMMA FileNameTaken ==
  ASSUME Opened, FileNameInv, NEW p \in Cons, NEW l, Moves(p, l),
         l \notin Early,
         proc[p].pc \in Early, NEW s \in Cons, proc'[p].fsem = s, name'["file"] = s,
         name["file"] = s \/ (s = p /\ name["file"] = NONE)
  PROVE  FileNameInv'
<1>1. \A q \in Proc \ {p} : proc'[q] = proc[q]
  BY DEF Moves
<1>2. /\ Cons \subseteq Proc /\ NONE \notin Cons /\ proc[p].fsem = NONE
      /\ \A c \in Cons : proc[c].fsem \in Cons \cup {NONE}
  BY NoneIsNobody, Objects DEF Opened, OpenInv
<1>3. \A c \in Cons : proc[c].fsem # NONE => proc[c].fsem # p
  BY <1>2 DEF FileNameInv
<1>4. proc'[s].fsem = s
  BY <1>1, <1>2 DEF FileNameInv
<1>5. \A c \in Cons : proc'[c].fsem # NONE => proc'[proc'[c].fsem].fsem = proc'[c].fsem
  BY <1>1, <1>2, <1>3, <1>4 DEF FileNameInv
<1>6. \A c \in Cons : c # p /\ proc[c].fsem # NONE /\ proc[c].pc \notin Gone => proc[c].fsem = s
  BY <1>2 DEF FileNameInv
<1>7. proc'[p].pc \notin Early
  BY DEF Moves
<1>8. ASSUME NEW c \in Cons, NEW d \in Cons, proc'[c].fsem # NONE,
             proc'[c].pc \notin Gone, c # d
      PROVE  /\ proc'[d].pc \in Early => name'["file"] = proc'[c].fsem
             /\ proc'[d].fsem # NONE /\ proc'[d].pc \notin Gone => proc'[d].fsem = proc'[c].fsem
  <2>1. proc'[c].fsem = s
    BY <1>1, <1>2, <1>6, <1>8
  <2>2. CASE d = p
    BY <2>1, <2>2, <1>7
  <2>3. CASE d # p
    BY <2>1, <2>3, <1>1, <1>2, <1>6
  <2> QED BY <2>2, <2>3
<1> QED BY <1>4, <1>5, <1>8 DEF FileNameInv

\* Every step leaves the consumers with one semaphore for the file.
LEMMA FileNameStep ==
  ASSUME Ready, FileNameInv, [Next]_vars
  PROVE  FileNameInv'
<1>0. Opened /\ CountInv /\ FilledInv /\ OpenInv /\ TypeInv
  BY DEF Ready, Opened
<1>1. CASE UNCHANGED vars
  BY <1>0, <1>1 DEF vars, FileNameInv
<1>2. SUFFICES ASSUME NEW p \in Proc,
                      Produce(p) \/ Consume(p) \/ signal_handler(p) \/ Kill(p)
               PROVE  FileNameInv'
  BY <1>1 DEF Next
<1>3. CASE \/ ForgetSemaphore(p) \/ cleanup_shared_memory(p)
           \/ cleanup_semaphore(p)
  <2>1. p \in Prod /\ SameOpen(p) /\ name'["file"] = name["file"]
        /\ \E l \in {"sem_open", "sem_unlink", "done"} : Moves(p, l)
    BY <1>0, <1>3, UnlinkEffect DEF Only, TypeInv, Names
  <2> QED BY <1>0, <2>1, FileNameKept, NoneIsNobody DEF SameOpen
<1>26. CASE cleanup_semaphore_file(p)
  <2>1. p \in Cons /\ SameOpen(p) /\ name'["file"] = NONE /\ Moves(p, "done")
    BY <1>0, <1>26, UnlinkEffect DEF Only, TypeInv, Names
  <2>2. \A q \in Proc : proc'[q].fsem = proc[q].fsem
    BY <2>1 DEF Moves, SameOpen
  <2>3. /\ proc'[p].pc \in Gone
        /\ \A c \in Cons : proc[c].fsem \in Cons \cup {NONE}
    BY <1>0, <2>1, Objects DEF Moves, Gone
  <2>4. \A c, d \in Cons : proc'[c].pc \notin Gone /\ c # d => d = p
    BY <1>0, <2>1, <2>3 DEF Opened, EachOnce
  <2> QED BY <2>1, <2>2, <2>3, <2>4, NoneIsNobody DEF FileNameInv, Gone, Early
<1>4. CASE init_semaphore(p)
  <2>1. p \in Prod /\ proc'[p].fsem = proc[p].fsem /\ name'["file"] = name["file"]
        /\ Moves(p, "shm_open")
    BY <1>0, <1>4, CreateEffect DEF TypeInv, Names
  <2> QED BY <1>0, <2>1, FileNameKept, NoneIsNobody
<1>5. CASE OpenSegment(p)
  <2>1. p \in Prod /\ proc'[p].fsem = proc[p].fsem /\ name'["file"] = name["file"]
        /\ Moves(p, "ftruncate")
    BY <1>0, <1>5, OpenSegmentEffect DEF TypeInv, Names
  <2> QED BY <1>0, <2>1, FileNameKept, NoneIsNobody
<1>6. CASE SizeSegment(p) \/ ResetItems(p) \/ ClearArray(p) \/ generate_record(p)
           \/ CopyRecord(p) \/ CountRecord(p) \/ StopProducing(p)
  <2>1. p \in Prod /\ (CopyRecord(p) => seg[p].items \in 0 .. MAX_RECORD)
    BY <1>0, <1>6
       DEF CountInv, SizeSegment, ResetItems, ClearArray, generate_record,
       CopyRecord, CountRecord, StopProducing
  <2>2. SameOpen(p) /\ name' = name
        /\ \E l \in {"init", "clear", "loop", "wait", "count", "post", "cleanup"} : Moves(p, l)
    BY <1>0, <1>6, <2>1, InitSegmentEffect, GenerateEffect, CopyEffect,
       CountEffect,
       ControlEffect DEF Only
  <2> QED BY <1>0, <2>1, <2>2, FileNameKept, NoneIsNobody DEF SameOpen
<1>7. CASE \/ AcquireArray(p) \/ AcquireToRemove(p) \/ ReleaseArray(p)
           \/ ReleaseRemoved(p)
  <2>1. SameOpen(p) /\ name' = name /\ proc[p].pc \in {"wait", "post"}
        /\ \E l \in {"add", "pick", "loop", "fwait"} : Moves(p, l)
    BY <1>0, <1>7, AcquireArrayEffect, ReleaseArrayEffect DEF Only
  <2> QED BY <1>0, <2>1, FileNameKept, NoneIsNobody DEF SameOpen, Early, Gone
<1>8. CASE ConsumeOn(p) \/ AcquireFile(p) \/ ReleaseFile(p) \/ PickRecord(p) \/ Shift(p)
           \/ FindPlace(p) \/ WriteLine(p) \/ AdvanceOffset(p)
  <2>1. /\ p \in Cons /\ SameOpen(p) /\ name' = name
        /\ proc[p].pc \in {"loop", "fwait", "fpost", "pick", "shift", "place", "memcpy", "advance"}
        /\ \E l \in {"wait", "cleanup", "place", "loop", "shift", "sigbus", "post",
                     "memcpy", "advance", "fpost"} : Moves(p, l)
    BY <1>0, <1>8, ControlEffect, AcquireFileEffect, ReleaseFileEffect,
       PickEffect,
       ShiftEffect, FindPlaceEffect, WriteEffect, AdvanceEffect DEF Only
  <2> QED BY <1>0, <2>1, FileNameKept DEF SameOpen, Early, Gone
<1>9. CASE Kill(p)
  <2>1. SameOpen(p) /\ name' = name /\ Moves(p, "killed")
    BY <1>0, <1>9, ControlEffect DEF Only
  <2> QED BY <1>0, <2>1, FileNameKept DEF SameOpen, Early, Gone
<1>13. CASE signal_handler(p)
  BY <1>0, <1>13, HandlerEffect DEF FileNameInv
<1>14. CASE init_semaphore_shared_memory(p)
  <2>1. /\ p \in Cons /\ proc'[p].fsem = proc[p].fsem /\ name' = name
        /\ proc[p].pc = "start" /\ \E l \in {"file_open", "done"} : Moves(p, l)
    BY <1>0, <1>14, OpenArraySemaphoreEffect
  <2> QED BY <1>0, <2>1, FileNameKept DEF Early, Gone
<1>15. CASE init_semaphore_file(p)
  <2>1. /\ p \in Cons /\ name' = name /\ proc[p].pc = "file_open"
        /\ proc'[p].fsem = name["file"] /\ name["file"] \in Cons \cup {NONE}
        /\ proc[p].fsem = NONE
    BY <1>0, <1>15, OpenFileSemaphoreEffect DEF TypeInv, Names, OpenInv, Early
  <2>2. CASE name["file"] # NONE /\ Moves(p, "shm_open")
    <3>1. name["file"] \in Cons
      BY <2>1, <2>2
    <3> QED BY <1>0, <2>1, <2>2, <3>1, FileNameTaken DEF Early
  <2>3. CASE name["file"] = NONE /\ Moves(p, "file_excl")
    BY <1>0, <2>1, <2>3, FileNameKept, NoneIsNobody DEF Early, Gone
  <2> QED BY <1>0, <1>15, <2>2, <2>3, OpenFileSemaphoreEffect
<1>16. CASE CreateFileSemaphore(p)
  <2>1. p \in Cons /\ proc[p].pc = "file_excl"
    BY <1>0, <1>16, CreateFileSemaphoreEffect
  <2>2. CASE /\ name["file"] = NONE /\ Moves(p, "shm_open") /\ proc'[p].fsem = p
             /\ name' = [name EXCEPT !["file"] = p]
             /\ sem' = [sem EXCEPT ![p] = 1]
    <3>1. name'["file"] = p
      BY <1>0, <2>2 DEF TypeInv, Names
    <3> QED BY <1>0, <2>1, <2>2, <3>1, FileNameTaken DEF Early
  <2>3. CASE /\ name["file"] # NONE /\ Moves(p, "file_again") /\ SameOpen(p)
             /\ UNCHANGED <<name, sem>>
    BY <1>0, <2>1, <2>3, FileNameKept, NoneIsNobody DEF SameOpen, Early, Gone
  <2> QED BY <1>0, <1>16, <2>2, <2>3, CreateFileSemaphoreEffect
<1>17. CASE ReopenFileSemaphore(p)
  <2>1. /\ p \in Cons /\ name' = name /\ proc[p].pc = "file_again"
        /\ proc'[p].fsem = name["file"] /\ name["file"] \in Cons \cup {NONE}
        /\ proc[p].fsem = NONE
    BY <1>0, <1>17, ReopenFileSemaphoreEffect DEF TypeInv, Names, OpenInv, Early
  <2>2. CASE name["file"] # NONE /\ Moves(p, "shm_open")
    <3>1. name["file"] \in Cons
      BY <2>1, <2>2
    <3> QED BY <1>0, <2>1, <2>2, <3>1, FileNameTaken DEF Early
  <2>3. CASE name["file"] = NONE /\ Moves(p, "done")
    BY <1>0, <2>1, <2>3, FileNameKept, NoneIsNobody DEF Early, Gone
  <2> QED BY <1>0, <1>17, <2>2, <2>3, ReopenFileSemaphoreEffect
<1>18. CASE init_shared_memory(p)
  <2>1. /\ p \in Cons /\ name' = name /\ proc[p].pc = "shm_open"
        /\ proc'[p].fsem = proc[p].fsem
        /\ \E l \in {"loop", "done"} : Moves(p, l)
    BY <1>0, <1>18, OpenArrayEffect
  <2> QED BY <1>0, <2>1, FileNameKept DEF Early, Gone
<1> QED BY <1>2, <1>3, <1>4, <1>5, <1>6, <1>7, <1>8, <1>9, <1>13, <1>14, <1>15,
           <1>16, <1>17,
           <1>18, <1>26 DEF Produce, Consume

-------------------------------------------------------------------------------
(* The semaphores exclude.                                                  *)

\* Whoever is in a section has the semaphore of the one producer, or of the
\* consumers, open.
LEMMA SectionOpen ==
  ASSUME Opened
  PROVE  /\ \A q \in Proc : InArraySection(q) => proc[q].msem \in Prod /\ proc[q].data \in Prod
         /\ \A c \in Cons : proc[c].pc \in InFile => proc[c].fsem \in Cons
<1>1. ASSUME NEW q \in Prod, InArraySection(q)
      PROVE  proc[q].msem \in Prod /\ proc[q].data \in Prod
  BY <1>1, OwnSegment DEF InArraySection, InArray
<1>2. ASSUME NEW c \in Cons
      PROVE  /\ InArraySection(c) => proc[c].msem \in Prod /\ proc[c].data \in Prod
             /\ proc[c].pc \in InFile => proc[c].fsem \in Cons
  <2>1. /\ proc[c].pc \notin Early \cup {"shm_open"} \cup Gone => proc[c].data # NONE
        /\ proc[c].data # NONE => proc[c].msem # NONE /\ proc[c].fsem # NONE
    BY DEF Opened, OpenInv
  <2> QED BY <2>1, Objects DEF InArraySection, InArray, InFile, Early, Gone
<1> QED BY <1>1, <1>2 DEF Proc

\* A step that changes no semaphore, and brings no one into a section.
LEMMA LockKept ==
  ASSUME Opened, LockInv, NEW p \in Proc, NEW l, Moves(p, l), sem' = sem,
         l \in InArray => proc[p].pc \in InArray /\ SameOpen(p),
         p \in Cons /\ l \in InFile => proc[p].pc \in InFile /\ SameOpen(p)
  PROVE  LockInv'
<1>1. \A q \in Proc : InArraySection(q)' => InArraySection(q) /\ proc'[q].msem = proc[q].msem
  BY DEF Moves, SameOpen, InArraySection
<1>2. \A q \in Cons : proc'[q].pc \in InFile => proc[q].pc \in InFile /\ proc'[q].fsem = proc[q].fsem
  BY NoneIsNobody DEF Moves, SameOpen
<1> QED BY <1>1, <1>2 DEF LockInv

\* A semaphore is created that nobody in a section has.
LEMMA LockCreated ==
  ASSUME Opened, LockInv, NEW p \in Proc, NEW l, Moves(p, l), NEW s \in Proc,
         sem'[s] = 1, \A q \in Proc \ {s} : sem'[q] = sem[q], l \notin InArray \cup InFile,
         \A q \in Proc : InArraySection(q) => proc[q].msem # s,
         \A c \in Cons : proc[c].pc \in InFile => proc[c].fsem # s
  PROVE  LockInv'
<1>1. sem'[s] = 1 /\ \A q \in Proc \ {s} : sem'[q] = sem[q]
  OBVIOUS
<1>2. \A q \in Proc : InArraySection(q)' => InArraySection(q) /\ proc'[q].msem = proc[q].msem
  BY DEF Moves, InArraySection
<1>3. \A q \in Cons : proc'[q].pc \in InFile => proc[q].pc \in InFile /\ proc'[q].fsem = proc[q].fsem
  BY NoneIsNobody DEF Moves
<1>4. \A q \in Proc : InArraySection(q) => proc[q].msem \in Proc
  BY SectionOpen, NoneIsNobody
<1>5. \A q \in Cons : proc[q].pc \in InFile => proc[q].fsem \in Proc
  BY SectionOpen, NoneIsNobody
<1> QED BY <1>1, <1>2, <1>3, <1>4, <1>5 DEF LockInv

\* Every step keeps the sections exclusive.
LEMMA LockStep ==
  ASSUME Ready, FileNameInv, LockInv, [Next]_vars
  PROVE  LockInv'
<1>0. Opened /\ CountInv /\ FilledInv /\ OpenInv /\ TypeInv
  BY DEF Ready, Opened
<1>1. CASE UNCHANGED vars
  BY <1>0, <1>1 DEF vars, LockInv, InArraySection
<1>2. SUFFICES ASSUME NEW p \in Proc,
                      Produce(p) \/ Consume(p) \/ signal_handler(p) \/ Kill(p)
               PROVE  LockInv'
  BY <1>1 DEF Next
<1>3. CASE ForgetSemaphore(p) \/ cleanup_shared_memory(p) \/ cleanup_semaphore(p)
           \/ cleanup_semaphore_file(p)
  <2>1. sem' = sem /\ \E l \in {"sem_open", "sem_unlink", "done"} : Moves(p, l)
    BY <1>0, <1>3, UnlinkEffect
  <2> QED BY <1>0, <2>1, LockKept DEF InArray, InFile
<1>4. CASE init_semaphore(p)
  <2>1. p \in Prod /\ proc[p].pc = "sem_open" /\ Moves(p, "shm_open")
    BY <1>0, <1>4, CreateEffect
  <2>2. CASE name["memory"] = NONE /\ sem' = [sem EXCEPT ![p] = 1]
    <3>1. sem'[p] = 1 /\ \A q \in Proc \ {p} : sem'[q] = sem[q]
      BY <1>0, <2>2 DEF TypeInv
    <3>2. ASSUME NEW q \in Proc, InArraySection(q), proc[q].msem = p
          PROVE  FALSE
      <4>1. q # p
        BY <2>1, <3>2 DEF InArraySection, InArray
      <4>2. q \in Cons
        BY <1>0, <2>1, <4>1 DEF Opened, EachOnce, Proc
      <4>3. proc[p].msem = p /\ name["memory"] = NONE
        BY <1>0, <2>1, <2>2, <3>2, <4>2, NoneIsNobody DEF OpenInv
      <4> QED BY <1>0, <2>1, <4>3, NoneIsNobody DEF OpenInv
    <3>3. \A c \in Cons : proc[c].pc \in InFile => proc[c].fsem # p
      BY <1>0, <2>1, SectionOpen, NoneIsNobody
    <3> QED BY <1>0, <2>1, <3>1, <3>2, <3>3, LockCreated, NoneIsNobody
               DEF InArray, InFile
  <2>3. CASE name["memory"] # NONE /\ sem' = sem
    BY <1>0, <2>1, <2>3, LockKept DEF InArray, InFile
  <2> QED BY <1>0, <1>4, <2>2, <2>3, CreateEffect
<1>5. CASE OpenSegment(p)
  BY <1>0, <1>5, OpenSegmentEffect, LockKept DEF InArray, InFile
<1>6. CASE SizeSegment(p) \/ ResetItems(p) \/ ClearArray(p) \/ generate_record(p)
           \/ StopProducing(p) \/ ConsumeOn(p) \/ Kill(p) \/ AdvanceOffset(p)
  <2>1. sem' = sem /\ \E l \in {"init", "clear", "loop", "wait", "cleanup", "killed"} :
                        Moves(p, l) \/ AdvanceOffset(p)
    BY <1>0, <1>6, InitSegmentEffect, GenerateEffect, ControlEffect,
       AdvanceEffect
  <2>2. CASE AdvanceOffset(p)
    BY <1>0, <2>1, <2>2, AdvanceEffect, LockKept DEF InArray, InFile
  <2> QED BY <1>0, <2>1, <2>2, LockKept DEF InArray, InFile
<1>7. CASE CopyRecord(p) \/ CountRecord(p)
  <2>1. p \in Prod /\ seg[p].items \in 0 .. MAX_RECORD
    BY <1>0, <1>7 DEF CopyRecord, CountRecord, CountInv
  <2>2. SameOpen(p) /\ sem' = sem /\ proc[p].pc \in {"add", "count"}
        /\ \E l \in {"count", "post"} : Moves(p, l)
    BY <1>0, <1>7, <2>1, CopyEffect, CountEffect DEF Only
  <2> QED BY <1>0, <2>1, <2>2, LockKept, NoneIsNobody DEF InArray, InFile
<1>8. CASE PickRecord(p) \/ Shift(p) \/ FindPlace(p) \/ WriteLine(p)
  <2>1. /\ SameOpen(p) /\ sem' = sem
        /\ \/ proc[p].pc \in {"pick", "shift"}
              /\ \E l \in {"shift", "cleanup", "sigbus", "post"} : Moves(p, l)
           \/ proc[p].pc \in {"place", "memcpy"}
              /\ \E l \in {"memcpy", "advance"} : Moves(p, l)
    BY <1>0, <1>8, PickEffect, ShiftEffect, FindPlaceEffect, WriteEffect
       DEF Only
  <2> QED BY <1>0, <2>1, LockKept DEF InArray, InFile
<1>9. CASE AcquireArray(p) \/ AcquireToRemove(p)
  <2> DEFINE s == proc[p].msem
  <2>1. /\ SameOpen(p) /\ s \in Prod /\ sem[s] > 0
        /\ sem' = [sem EXCEPT ![s] = sem[s] - 1]
        /\ \E l \in {"add", "pick"} : Moves(p, l)
    BY <1>0, <1>9, AcquireArrayEffect DEF Only
  <2>2. sem[s] = 1 /\ sem'[s] = 0 /\ \A q \in Proc \ {s} : sem'[q] = sem[q]
    BY <1>0, <2>1, NoneIsNobody DEF LockInv, TypeInv
  <2>3. \A q \in Proc : ~InArraySection(q)
    BY <1>0, <2>1, <2>2, SectionOpen DEF LockInv, Opened, EachOnce
  <2>4. \A q \in Proc : InArraySection(q)' => q = p
    BY <2>1, <2>3 DEF InArraySection, Moves
  <2>5. \A c \in Cons : proc'[c].pc \in InFile => proc[c].pc \in InFile /\ proc'[c].fsem = proc[c].fsem
    BY <2>1, NoneIsNobody DEF Moves, InFile
  <2>6. \A c \in Cons : proc[c].pc \in InFile => proc[c].fsem \in Proc \ {s}
    BY <1>0, <2>1, SectionOpen, NoneIsNobody
  <2>7. proc'[p].msem = s
    BY <2>1 DEF SameOpen
  <2>8. \A q \in Proc : sem'[q] <= 1
    BY <2>2 DEF LockInv
  <2> QED BY <2>2, <2>4, <2>5, <2>6, <2>7, <2>8 DEF LockInv
<1>11. CASE ReleaseArray(p) \/ ReleaseRemoved(p)
  <2> DEFINE s == proc[p].msem
  <2>1. /\ s \in Prod /\ sem' = [sem EXCEPT ![s] = sem[s] + 1]
        /\ proc[p].pc = "post" /\ \E l \in {"loop", "fwait"} : Moves(p, l)
    BY <1>0, <1>11, ReleaseArrayEffect
  <2>2. sem[s] = 0 /\ sem'[s] = 1 /\ \A q \in Proc \ {s} : sem'[q] = sem[q]
    BY <1>0, <2>1, NoneIsNobody DEF LockInv, TypeInv, InArraySection, InArray
  <2>3. \A q \in Proc : InArraySection(q) => q = p
    BY <2>1 DEF LockInv, InArraySection, InArray
  <2>4. \A q \in Proc : ~InArraySection(q)'
    BY <2>1, <2>3 DEF InArraySection, Moves, InArray
  <2>5. \A c \in Cons : proc'[c].pc \in InFile => proc[c].pc \in InFile /\ proc'[c].fsem = proc[c].fsem
    BY <2>1, NoneIsNobody DEF Moves, InFile
  <2>6. \A c \in Cons : proc[c].pc \in InFile => proc[c].fsem \in Proc \ {s}
    BY <1>0, <2>1, SectionOpen, NoneIsNobody
  <2>8. \A q \in Proc : sem'[q] <= 1
    BY <2>2 DEF LockInv
  <2> QED BY <2>2, <2>4, <2>5, <2>6, <2>8 DEF LockInv
<1>13. CASE signal_handler(p)
  BY <1>0, <1>13, HandlerEffect DEF LockInv, InArraySection
<1>14. CASE \/ init_semaphore_shared_memory(p) \/ init_semaphore_file(p)
            \/ ReopenFileSemaphore(p) \/ init_shared_memory(p)
  <2>1. /\ sem' = sem
        /\ \E l \in {"file_open", "done", "file_excl", "shm_open", "loop"} : Moves(p, l)
    BY <1>0, <1>14, OpenArraySemaphoreEffect, OpenFileSemaphoreEffect,
       ReopenFileSemaphoreEffect, OpenArrayEffect
  <2> QED BY <1>0, <2>1, LockKept DEF InArray, InFile
<1>16. CASE CreateFileSemaphore(p)
  <2>1. p \in Cons /\ proc[p].pc = "file_excl" /\ proc[p].fsem = NONE
    BY <1>0, <1>16, CreateFileSemaphoreEffect DEF OpenInv, Early
  <2>2. CASE Moves(p, "shm_open") /\ sem' = [sem EXCEPT ![p] = 1]
    <3>1. \A q \in Proc : InArraySection(q) => proc[q].msem # p
      BY <1>0, <2>1, SectionOpen, NoneIsNobody
    <3>2. \A c \in Cons : proc[c].pc \in InFile => proc[c].fsem # p
      BY <1>0, <2>1, SectionOpen, NoneIsNobody DEF FileNameInv
    <3>3. sem'[p] = 1 /\ \A q \in Proc \ {p} : sem'[q] = sem[q]
      BY <1>0, <2>2 DEF TypeInv
    <3> QED BY <1>0, <2>2, <3>1, <3>2, <3>3, LockCreated DEF InArray, InFile
  <2>3. CASE Moves(p, "file_again") /\ sem' = sem
    BY <1>0, <2>3, LockKept DEF InArray, InFile
  <2> QED BY <1>0, <1>16, <2>2, <2>3, CreateFileSemaphoreEffect
<1>19. CASE AcquireFile(p)
  <2> DEFINE s == proc[p].fsem
  <2>1. /\ p \in Cons /\ SameOpen(p) /\ s \in Cons /\ sem[s] > 0
        /\ sem' = [sem EXCEPT ![s] = sem[s] - 1] /\ proc[p].pc = "fwait"
        /\ Moves(p, "place")
    BY <1>0, <1>19, AcquireFileEffect DEF Only
  <2>2. sem[s] = 1 /\ sem'[s] = 0 /\ \A q \in Proc \ {s} : sem'[q] = sem[q]
    BY <1>0, <2>1, NoneIsNobody DEF LockInv, TypeInv
  <2>3. ASSUME NEW c \in Cons, proc[c].pc \in InFile
        PROVE  FALSE
    <3>1. proc[c].fsem \in Cons /\ proc[c].fsem # NONE /\ s # NONE /\ c # p
      BY <1>0, <2>1, <2>3, SectionOpen, NoneIsNobody DEF InFile
    <3>2. proc[c].pc \notin Gone /\ proc[p].pc \notin Gone
      BY <2>1, <2>3 DEF InFile, Gone
    <3>3. proc[c].fsem = s
      BY <2>1, <3>1, <3>2 DEF FileNameInv
    <3> QED BY <2>2, <2>3, <3>3 DEF LockInv
  <2>4. \A c \in Cons : proc'[c].pc \in InFile => c = p
    BY <2>1, <2>3, NoneIsNobody DEF Moves
  <2>5. \A q \in Proc : InArraySection(q)' => InArraySection(q) /\ proc'[q].msem = proc[q].msem
    BY <2>1 DEF Moves, InArraySection, InArray
  <2>6. \A q \in Proc : InArraySection(q) => proc[q].msem \in Proc \ {s}
    BY <1>0, <2>1, SectionOpen, NoneIsNobody
  <2>7. proc'[p].fsem = s
    BY <2>1 DEF SameOpen
  <2>8. \A q \in Proc : sem'[q] <= 1
    BY <2>2 DEF LockInv
  <2> QED BY <2>2, <2>4, <2>5, <2>6, <2>7, <2>8 DEF LockInv
<1>20. CASE ReleaseFile(p)
  <2> DEFINE s == proc[p].fsem
  <2>1. /\ p \in Cons /\ s \in Cons
        /\ sem' = [sem EXCEPT ![s] = sem[s] + 1] /\ proc[p].pc = "fpost"
        /\ Moves(p, "loop")
    BY <1>0, <1>20, ReleaseFileEffect
  <2>2. sem[s] = 0 /\ sem'[s] = 1 /\ \A q \in Proc \ {s} : sem'[q] = sem[q]
    BY <1>0, <2>1, NoneIsNobody DEF LockInv, TypeInv, InFile
  <2>3. \A c \in Cons : proc[c].pc \in InFile => c = p
    BY <2>1 DEF LockInv, InFile
  <2>4. \A c \in Cons : proc'[c].pc \notin InFile
    BY <2>1, <2>3, NoneIsNobody DEF Moves, InFile
  <2>5. \A q \in Proc : InArraySection(q)' => InArraySection(q) /\ proc'[q].msem = proc[q].msem
    BY <2>1 DEF Moves, InArraySection, InArray
  <2>6. \A q \in Proc : InArraySection(q) => proc[q].msem \in Proc \ {s}
    BY <1>0, <2>1, SectionOpen, NoneIsNobody
  <2>8. \A q \in Proc : sem'[q] <= 1
    BY <2>2 DEF LockInv
  <2> QED BY <2>2, <2>4, <2>5, <2>6, <2>8 DEF LockInv
<1> QED BY <1>2, <1>3, <1>4, <1>5, <1>6, <1>7, <1>8, <1>9, <1>11, <1>13, <1>14,
           <1>16,
           <1>19, <1>20 DEF Produce, Consume

-------------------------------------------------------------------------------
(* The counter and the records.                                             *)

\* A step that changes no counter and no array.
LEMMA CountKept ==
  ASSUME Ready, NEW p \in Proc, NEW l, Moves(p, l), SameHand(p), added' = added,
         \A s \in Prod : seg'[s].items = seg[s].items /\ seg'[s].array = seg[s].array,
         p \in Prod => /\ l \in SetUp => proc[p].pc \in SetUp
                       /\ l # "count" /\ (l \in HandP => proc[p].pc \in HandP),
         p \in Cons => l # "shift" /\ (l \in HandC => proc[p].pc \in HandC)
  PROVE  CountInv' /\ FilledInv'
<1>1. /\ \A q \in Proc \ {p} : proc'[q] = proc[q]
      /\ proc'[p].pc = l /\ proc'[p].hand = proc[p].hand
  BY DEF Moves, SameHand
<1>2. CountInv /\ FilledInv
  BY DEF Ready
<1>3. \A c \in Cons : proc[c].pc = "shift" => proc[c].data \in Prod
  BY Working DEF Ready, HandC
<1>4. ASSUME NEW s \in Prod
      PROVE  /\ seg'[s].items \in 0 .. MAX_RECORD
             /\ proc'[s].pc \in SetUp => seg'[s].items = 0 /\ added' = 0
             /\ proc'[s].pc = "count" => seg'[s].items < MAX_RECORD
             /\ proc'[s].pc \in HandP => proc'[s].hand # EMPTY
             /\ proc'[s].pc = "count" => seg'[s].array[seg'[s].items] = proc'[s].hand
             /\ \A i \in Index : i < seg'[s].items => seg'[s].array[i] # EMPTY
  BY <1>1, <1>2, NoneIsNobody DEF CountInv, FilledInv
<1>5. ASSUME NEW c \in Cons
      PROVE  /\ proc'[c].pc = "shift" => proc'[c].idx \in 0 .. seg'[proc'[c].data].items - 1
             /\ proc'[c].pc \in HandC => proc'[c].hand # EMPTY
  BY <1>1, <1>2, <1>3, NoneIsNobody DEF CountInv, FilledInv, At
<1> QED BY <1>4, <1>5 DEF CountInv, FilledInv, At

\* A step of the producer on its segment while no consumer closes a gap.
LEMMA CountOfProducer ==
  ASSUME Ready, NEW p \in Prod, NEW l, Moves(p, l),
         \A c \in Cons : proc[c].pc # "shift",
         seg'[p].items \in 0 .. MAX_RECORD,
         l \in SetUp => seg'[p].items = 0 /\ added' = 0,
         l \in HandP => proc'[p].hand # EMPTY,
         l = "count" => seg'[p].items < MAX_RECORD /\ seg'[p].array[seg'[p].items] = proc'[p].hand,
         \A i \in Index : i < seg'[p].items => seg'[p].array[i] # EMPTY
  PROVE  CountInv' /\ FilledInv'
<1>1. /\ \A c \in Cons : proc'[c] = proc[c]
      /\ proc'[p].pc = l /\ \A s \in Prod : s = p
  BY NoneIsNobody DEF Moves, Ready, Opened, EachOnce
<1>2. CountInv /\ FilledInv
  BY DEF Ready
<1> QED BY <1>1, <1>2 DEF CountInv, FilledInv, At

\* While the producer is in the section no consumer closes a gap.
LEMMA NoShift ==
  ASSUME Ready, LockInv, NEW p \in Prod
  PROVE  /\ proc[p].pc \in SetUp => \A c \in Cons : proc[c].pc # "shift"
         /\ InArraySection(p) => \A c \in Cons : proc[c].pc # "shift"
<1>1. ASSUME NEW c \in Cons,
             proc[c].pc = "shift" PROVE proc[c].data = p /\ 0 < seg[p].items
  <2>1. proc[c].data = p
    BY <1>1, Working DEF Ready, HandC, Opened, EachOnce
  <2>2. proc[c].idx \in 0 .. seg[p].items - 1 /\ seg[p].items \in Int
    BY <1>1, <2>1, Objects DEF Ready, CountInv, At
  <2> QED BY <2>1, <2>2
<1>2. ASSUME NEW c \in Cons, proc[c].pc = "shift" PROVE ~InArraySection(p)
  BY <1>2, NoneIsNobody DEF LockInv, InArraySection, InArray
<1> QED BY <1>1, <1>2 DEF Ready, CountInv

\* Every step keeps the counter, and records where they are expected.
LEMMA CountStep ==
  ASSUME Ready, LockInv, [Next]_vars
  PROVE  CountInv' /\ FilledInv'
<1>0. Opened /\ CountInv /\ FilledInv /\ OpenInv /\ TypeInv
  BY DEF Ready, Opened
<1>1. CASE UNCHANGED vars
  BY <1>0, <1>1 DEF vars, CountInv, FilledInv, At
<1>2. SUFFICES ASSUME NEW p \in Proc,
                      Produce(p) \/ Consume(p) \/ signal_handler(p) \/ Kill(p)
               PROVE  CountInv' /\ FilledInv'
  BY <1>1 DEF Next
<1>3. CASE ForgetSemaphore(p) \/ cleanup_shared_memory(p) \/ cleanup_semaphore(p)
           \/ cleanup_semaphore_file(p)
  <2>1. SameHand(p) /\ UNCHANGED <<seg, added>>
    BY <1>0, <1>3, UnlinkEffect DEF Only, ShmUnchanged
  <2>2. \/ p \in Cons /\ Moves(p, "done")
        \/ p \in Prod /\ proc[p].pc = "start" /\ Moves(p, "sem_open")
        \/ p \in Prod /\ Moves(p, "sem_unlink")
        \/ p \in Prod /\ Moves(p, "done")
    BY <1>0, <1>3, UnlinkEffect
  <2> QED BY <2>1, <2>2, CountKept, NoneIsNobody DEF SetUp, HandP, HandC
<1>4. CASE init_semaphore(p) \/ OpenSegment(p)
  <2>1. /\ p \in Prod /\ SameHand(p) /\ UNCHANGED <<seg, added>>
        /\ proc[p].pc \in SetUp
        /\ \E l \in {"shm_open", "ftruncate"} : Moves(p, l)
    BY <1>0, <1>4, CreateEffect, OpenSegmentEffect DEF ShmUnchanged, SetUp
  <2> QED BY <2>1, CountKept, NoneIsNobody DEF HandP
<1>6. CASE SizeSegment(p) \/ ResetItems(p) \/ ClearArray(p)
  <2>1. /\ p \in Prod /\ proc[p].pc \in SetUp /\ added' = added
        /\ seg'[p].items \in {seg[p].items, 0}
        /\ \E l \in {"init", "clear", "loop"} : Moves(p, l)
    BY <1>0, <1>6, InitSegmentEffect DEF SetUp
  <2>2. seg'[p].items = 0 /\ added' = 0 /\ 0 \in 0 .. MAX_RECORD
    BY <1>0, <2>1, RecordsAssumption DEF CountInv
  <2>3. \A c \in Cons : proc[c].pc # "shift"
    BY <2>1, NoShift
  <2>4. \A i \in Index : ~(i < seg'[p].items)
    BY <2>2 DEF Index
  <2> QED BY <2>1, <2>2, <2>3, <2>4, CountOfProducer DEF HandP
<1>7. CASE generate_record(p)
  <2>1. /\ p \in Prod /\ added' = added + 1 /\ seg' = seg /\ Moves(p, "wait")
        /\ proc'[p].hand = added + 1 /\ added \in Nat
    BY <1>0, <1>7, GenerateEffect, RecordsAssumption DEF TypeInv, AnyRecord
  <2>2. \A c \in Cons : proc'[c] = proc[c]
    BY <2>1, NoneIsNobody DEF Moves
  <2>3. \A s \in Prod : s = p
    BY <1>0, <2>1 DEF Opened, EachOnce
  <2>4. proc'[p].pc = "wait" /\ proc'[p].hand # EMPTY
    BY <2>1 DEF Moves, EMPTY
  <2> QED BY <1>0, <2>1, <2>2, <2>3, <2>4 DEF CountInv, FilledInv, At, SetUp
<1>8. CASE \/ AcquireArray(p) \/ AcquireToRemove(p) \/ ReleaseArray(p)
           \/ ReleaseRemoved(p)
  <2>1. /\ SameHand(p) /\ UNCHANGED <<seg, added>>
        /\ \/ p \in Prod /\ proc[p].pc = "wait" /\ Moves(p, "add")
           \/ p \in Cons /\ Moves(p, "pick")
           \/ p \in Prod /\ Moves(p, "loop")
           \/ p \in Cons /\ proc[p].pc = "post" /\ Moves(p, "fwait")
    BY <1>0, <1>8, AcquireArrayEffect, ReleaseArrayEffect DEF Only, ShmUnchanged
  <2> QED BY <2>1, CountKept, NoneIsNobody DEF SetUp, HandP, HandC
<1>9. CASE CopyRecord(p)
  <2>1. p \in Prod /\ seg[p].items \in 0 .. MAX_RECORD /\ seg[p].array \in [Index -> AnyRecord]
        /\ MAX_RECORD \in Nat \ {0}
    BY <1>0, <1>9, Objects, RecordsAssumption DEF CopyRecord, CountInv
  <2> DEFINE at == CopyAt(seg[p])
  <2>2. /\ proc[p].pc = "add" /\ Moves(p, "count") /\ SameHand(p)
        /\ at \in Index
        /\ seg'[p].items = at
        /\ seg'[p].array = [seg[p].array EXCEPT ![at] = proc[p].hand]
    BY <1>0, <1>9, <2>1, CopyEffect DEF Only
  <2>3. proc[p].hand # EMPTY /\ proc'[p].hand = proc[p].hand
    BY <1>0, <2>1, <2>2 DEF FilledInv, HandP, SameHand
  <2>4. seg'[p].array[at] = proc'[p].hand /\ seg'[p].items \in 0 .. MAX_RECORD
        /\ seg'[p].items < MAX_RECORD
    BY <2>1, <2>2, <2>3 DEF Index
  <2>5. \A i \in Index : i < at => seg'[p].array[i] # EMPTY
    <3>1. at = 0 \/ at = seg[p].items
      BY DEF CopyAt
    <3> HIDE DEF at
    <3> QED BY <1>0, <2>1, <2>2, <3>1 DEF FilledInv, Index
  <2>6. \A c \in Cons : proc[c].pc # "shift"
    BY <2>1, <2>2, NoShift DEF InArraySection, InArray
  <2> HIDE DEF at
  <2> QED BY <2>1, <2>2, <2>3, <2>4, <2>5, <2>6, CountOfProducer DEF SetUp
<1>10. CASE CountRecord(p)
  <2>1. /\ p \in Prod /\ proc[p].pc = "count" /\ Moves(p, "post")
        /\ seg'[p].items = seg[p].items + 1 /\ seg'[p].array = seg[p].array
    BY <1>0, <1>10, CountEffect
  <2>2. /\ seg[p].items \in 0 .. MAX_RECORD /\ seg[p].items < MAX_RECORD
        /\ MAX_RECORD \in Nat
        /\ seg[p].array[seg[p].items] # EMPTY
    BY <1>0, <2>1, RecordsAssumption DEF CountInv, FilledInv, HandP
  <2>3. \A i \in Index : i < seg'[p].items => i < seg[p].items \/ i = seg[p].items
    BY <2>1, <2>2 DEF Index
  <2>4. \A i \in Index : i < seg'[p].items => seg'[p].array[i] # EMPTY
    BY <1>0, <2>1, <2>2, <2>3 DEF FilledInv
  <2>5. \A c \in Cons : proc[c].pc # "shift"
    BY <2>1, NoShift DEF InArraySection, InArray
  <2> QED BY <2>1, <2>2, <2>4, <2>5, CountOfProducer DEF SetUp, HandP
<1>12. CASE StopProducing(p) \/ ConsumeOn(p) \/ Kill(p)
  <2>1. /\ SameHand(p) /\ UNCHANGED <<seg, added>>
        /\ \E l \in {"cleanup", "wait", "killed"} : Moves(p, l) /\ (p \in Prod => l # "wait")
    BY <1>0, <1>12, ControlEffect, NoneIsNobody DEF Only, ShmUnchanged
  <2> QED BY <2>1, CountKept DEF SetUp, HandP, HandC
<1>13. CASE signal_handler(p)
  BY <1>0, <1>13, HandlerEffect DEF ShmUnchanged, CountInv, FilledInv, At
<1>14. CASE \/ init_semaphore_shared_memory(p) \/ init_semaphore_file(p)
            \/ CreateFileSemaphore(p) \/ ReopenFileSemaphore(p) \/ init_shared_memory(p)
  <2>1. /\ p \in Cons /\ SameHand(p) /\ UNCHANGED <<seg, added>>
        /\ \E l \in {"file_open", "done", "file_excl", "shm_open", "file_again", "loop"} : Moves(p, l)
    BY <1>0, <1>14, OpenArraySemaphoreEffect, OpenFileSemaphoreEffect,
       CreateFileSemaphoreEffect, ReopenFileSemaphoreEffect, OpenArrayEffect DEF ShmUnchanged
  <2> QED BY <2>1, CountKept, NoneIsNobody DEF HandC
<1>15. CASE AcquireFile(p) \/ ReleaseFile(p) \/ FindPlace(p) \/ WriteLine(p)
  <2>1. /\ p \in Cons /\ SameHand(p) /\ UNCHANGED <<seg, added>>
        /\ \/ proc[p].pc = "fwait" /\ Moves(p, "place")
           \/ Moves(p, "loop")
           \/ proc[p].pc = "place" /\ Moves(p, "memcpy")
           \/ proc[p].pc = "memcpy" /\ Moves(p, "advance")
    BY <1>0, <1>15, AcquireFileEffect, ReleaseFileEffect, FindPlaceEffect,
       WriteEffect
       DEF Only, ShmUnchanged
  <2> QED BY <2>1, CountKept, NoneIsNobody DEF HandC
<1>21. CASE PickRecord(p)
  <2> DEFINE s == proc[p].data
  <2>1. /\ p \in Cons /\ s \in Prod /\ SameOpen(p) /\ UNCHANGED <<seg, added>>
        /\ \/ /\ Moves(p, "shift")
              /\ proc'[p].idx \in Index /\ proc'[p].idx < seg[s].items
              /\ proc'[p].hand = seg[s].array[proc'[p].idx]
           \/ Moves(p, "cleanup") /\ SameHand(p)
           \/ Moves(p, "sigbus") /\ SameHand(p)
    BY <1>0, <1>21, PickEffect DEF Only, ShmUnchanged
  <2>2. CASE (Moves(p, "cleanup") \/ Moves(p, "sigbus")) /\ SameHand(p)
    BY <2>1, <2>2, CountKept, NoneIsNobody DEF HandC
  <2>3. CASE /\ Moves(p, "shift")
             /\ proc'[p].idx \in Index /\ proc'[p].idx < seg[s].items
             /\ proc'[p].hand = seg[s].array[proc'[p].idx]
    <3>1. \A q \in Proc \ {p} : proc'[q] = proc[q]
      BY <2>3 DEF Moves
    <3>2. proc'[p].data = s /\ proc'[p].hand # EMPTY /\ seg[s].items \in Int
      BY <1>0, <2>1, <2>3, Objects DEF SameOpen, FilledInv
    <3>3. proc'[p].idx \in 0 .. seg[s].items - 1
      BY <2>3, <3>2, RecordsAssumption DEF Index
    <3>4. \A c \in Cons : proc[c].pc = "shift" => proc[c].data \in Prod
      BY <1>0, Working DEF HandC
    <3>5. \A t \in Prod : proc'[t] = proc[t]
      BY <2>1, <3>1, NoneIsNobody
    <3>6. ASSUME NEW c \in Cons
          PROVE  /\ proc'[c].pc = "shift" => proc'[c].idx \in 0 .. seg'[proc'[c].data].items - 1
                 /\ proc'[c].pc \in HandC => proc'[c].hand # EMPTY
      BY <1>0, <2>1, <3>1, <3>2, <3>3, NoneIsNobody DEF CountInv, FilledInv, At
    <3> QED BY <1>0, <2>1, <3>5, <3>6 DEF CountInv, FilledInv, At
  <2> QED BY <2>1, <2>2, <2>3
<1>22. CASE Shift(p)
  <2> DEFINE s == proc[p].data
             i == proc[p].idx
  <2>1. /\ p \in Cons /\ proc[p].pc = "shift" /\ s \in Prod /\ SameOpen(p)
        /\ SameHand(p)
        /\ i \in Index /\ i < seg[s].items /\ added' = added
        /\ \/ /\ i + 1 < seg[s].items /\ Moves(p, "shift") /\ proc'[p].idx = i + 1
              /\ seg'[s].items = seg[s].items
              /\ seg'[s].array = [seg[s].array EXCEPT ![i] = seg[s].array[i + 1]]
           \/ /\ i + 1 = seg[s].items /\ Moves(p, "post")
              /\ seg'[s].items = i /\ seg'[s].array = seg[s].array
    BY <1>0, <1>22, ShiftEffect
  <2>2. /\ seg[s].items \in 0 .. MAX_RECORD
        /\ seg[s].array \in [Index -> AnyRecord]
        /\ MAX_RECORD \in Nat /\ i \in Int
    BY <1>0, <2>1, Objects, RecordsAssumption DEF CountInv, Index
  <2>3. /\ \A q \in Proc \ {p} : proc'[q] = proc[q]
        /\ proc'[p].hand = proc[p].hand /\ proc'[p].data = s
    BY <2>1 DEF Moves, SameHand, SameOpen
  <2>4. \A c \in Cons \ {p} : proc[c].pc # "shift"
    BY <2>1, NoneIsNobody DEF LockInv, InArraySection, InArray
  <2>5. \A t \in Prod : t = s /\ proc'[t] = proc[t]
    BY <1>0, <2>1, <2>3, NoneIsNobody DEF Opened, EachOnce
  <2>6. proc[s].pc \notin SetUp /\ proc[s].pc # "count"
    <3>1. ~InArraySection(s)
      BY <2>1, NoneIsNobody DEF LockInv, InArraySection, InArray
    <3> QED BY <1>0, <2>1, <2>2, <3>1
               DEF CountInv, InArraySection, InArray, Index
  <2>7. seg'[s].items \in 0 .. MAX_RECORD
    BY <2>1, <2>2 DEF Index
  <2>8. \A j \in Index : j < seg'[s].items => seg'[s].array[j] # EMPTY
    <3>1. CASE /\ i + 1 < seg[s].items /\ seg'[s].items = seg[s].items
               /\ seg'[s].array = [seg[s].array EXCEPT ![i] = seg[s].array[i + 1]]
      <4>1. i + 1 \in Index /\ seg[s].array[i + 1] # EMPTY
        BY <1>0, <2>1, <2>2, <3>1 DEF FilledInv, Index
      <4> QED BY <1>0, <2>1, <2>2, <3>1, <4>1 DEF FilledInv
    <3>2. CASE seg'[s].items = i /\ seg'[s].array = seg[s].array
      <4>1. \A j \in Index : j < i => j < seg[s].items
        BY <2>1, <2>2 DEF Index
      <4> QED BY <1>0, <2>1, <3>2, <4>1 DEF FilledInv
    <3> QED BY <2>1, <3>1, <3>2
  <2>9. proc'[p].pc = "shift" => proc'[p].idx \in 0 .. seg'[s].items - 1
    BY <2>1, <2>2 DEF Moves, Index
  <2>10. proc[p].hand # EMPTY
    BY <1>0, <2>1 DEF FilledInv, HandC
  <2>11. ASSUME NEW t \in Prod
         PROVE  /\ seg'[t].items \in 0 .. MAX_RECORD
                /\ proc'[t].pc \notin SetUp /\ proc'[t].pc # "count"
                /\ proc'[t].pc \in HandP => proc'[t].hand # EMPTY
                /\ \A j \in Index : j < seg'[t].items => seg'[t].array[j] # EMPTY
    BY <1>0, <2>5, <2>6, <2>7, <2>8 DEF FilledInv
  <2>12. ASSUME NEW c \in Cons
         PROVE  /\ proc'[c].pc = "shift" => proc'[c].idx \in 0 .. seg'[proc'[c].data].items - 1
                /\ proc'[c].pc \in HandC => proc'[c].hand # EMPTY
    BY <1>0, <2>3, <2>4, <2>9, <2>10, NoneIsNobody DEF FilledInv
  <2> QED BY <2>11, <2>12 DEF CountInv, FilledInv, At
<1>25. CASE AdvanceOffset(p)
  <2>1. /\ p \in Cons /\ Moves(p, "fpost") /\ UNCHANGED <<seg, added>>
    BY <1>0, <1>25, AdvanceEffect
  <2>2. \A q \in Proc \ {p} : proc'[q] = proc[q]
    BY <2>1 DEF Moves
  <2>3. proc'[p].pc = "fpost"
    BY <2>1 DEF Moves
  <2>4. \A t \in Prod : proc'[t] = proc[t]
    BY <2>1, <2>2, NoneIsNobody
  <2>5. ASSUME NEW c \in Cons
        PROVE  /\ proc'[c].pc = "shift" => proc'[c].idx \in 0 .. seg'[proc'[c].data].items - 1
               /\ proc'[c].pc \in HandC => proc'[c].hand # EMPTY
    BY <1>0, <2>1, <2>2, <2>3, NoneIsNobody DEF CountInv, FilledInv, At, HandC
  <2> QED BY <1>0, <2>1, <2>4, <2>5 DEF CountInv, FilledInv, At
<1> QED BY <1>2, <1>3, <1>4, <1>6, <1>7, <1>8, <1>9, <1>10, <1>12, <1>13, <1>14,
           <1>15,
           <1>21, <1>22, <1>25 DEF Produce, Consume

-------------------------------------------------------------------------------
(* One at a time.                                                           *)

\* The first layer holds at the start ...
LEMMA SectionInit ==
  ASSUME Init
  PROVE  SectionInv
<1>0. MAX_RECORD \in Nat \ {0} /\ 0 \in AnyRecord /\ EMPTY = 0
  BY RecordsAssumption DEF AnyRecord, EMPTY
<1>1. TypeInv
  <2>1. proc \in [Proc -> ProcState]
    BY <1>0, NoneIsNobody DEF Init, ProcState, ProdLabels, ConsLabels
  <2>2. seg \in [Prod -> Segment]
    BY <1>0 DEF Init, NewSegment, Segment
  <2>3. name \in Names
    BY DEF Init, Names
  <2> QED BY <1>0, <2>1, <2>2, <2>3, NoneIsNobody
             DEF Init, TypeInv, ProdLabels, ConsLabels
<1>2. \A p \in Proc : /\ proc[p].pc = "start" /\ proc[p].msem = NONE /\ proc[p].fsem = NONE
                      /\ proc[p].data = NONE /\ proc[p].hand = 0
                      /\ proc[p].idx = 0
                      /\ sem[p] = 0
  BY DEF Init, EMPTY
<1>3. /\ name["memory"] = NONE /\ name["data"] = NONE /\ name["file"] = NONE
      /\ added = 0
  BY DEF Init
<1>4. \A s \in Prod : seg[s].items = 0
  BY DEF Init, NewSegment
<1>5. OpenInv
  BY <1>2, <1>3, NoneIsNobody DEF OpenInv, Early
<1>6. FileNameInv
  BY <1>2, <1>3, NoneIsNobody DEF FileNameInv
<1>7. LockInv
  BY <1>2, NoneIsNobody DEF LockInv, InArraySection, InArray, InFile
<1>8. CountInv
  BY <1>0, <1>2, <1>3, <1>4, NoneIsNobody, RecordsAssumption DEF CountInv, At
<1>9. FilledInv
  <2>1. \A i \in Index : ~(i < 0)
    BY DEF Index
  <2> QED BY <1>2, <1>4, <2>1, NoneIsNobody DEF FilledInv, HandP, HandC
<1> QED BY <1>1, <1>5, <1>6, <1>7, <1>8, <1>9 DEF SectionInv

\* ... and every step keeps it.
LEMMA SectionStep ==
  ASSUME EachOnce, SectionInv, [Next]_vars
  PROVE  SectionInv'
<1>1. Ready /\ FileNameInv /\ LockInv
  BY DEF SectionInv, Ready, Opened
<1> QED BY <1>1, TypeStep, OpenStep, FileNameStep, LockStep, CountStep
           DEF SectionInv

\* At most one process at a time is in the section of an array, and at most one
\* consumer in that of the file, with each program run once.
THEOREM Exclusion ==
  ASSUME EachOnce
  PROVE  Spec => []OneAtATime
<1>1. SectionInv => OneAtATime
  BY DEF SectionInv, LockInv, OneAtATime
<1> QED BY <1>1, SectionInit, SectionStep, PTL DEF Spec

-------------------------------------------------------------------------------
(* The semaphores that stay taken.                                          *)

\* A step that leaves the segments, or sizes one, or empties one.
LEMMA SizedKept ==
  ASSUME Ready, SizedInv, NEW p \in Proc, NEW l, Moves(p, l),
         \A s \in Prod : /\ seg[s].sized => seg'[s].sized
                         /\ seg'[s].items \in {seg[s].items, 0} \/ seg'[s].sized,
         p \in Prod => \/ l \in {"start", "sem_open", "shm_open", "ftruncate", "killed"}
                       \/ seg'[p].sized
  PROVE  SizedInv'
<1>1. \A s \in Prod : proc'[s].pc = IF s = p THEN l ELSE proc[s].pc
  BY NoneIsNobody DEF Moves
<1> QED BY <1>1 DEF SizedInv

\* Every step keeps that: no record is in a segment nobody sized.
LEMMA SizedStep ==
  ASSUME Ready, SizedInv, [Next]_vars
  PROVE  SizedInv'
<1>0. Opened /\ CountInv /\ FilledInv /\ OpenInv /\ TypeInv
  BY DEF Ready, Opened
<1>1. CASE UNCHANGED vars
  BY <1>0, <1>1 DEF vars, SizedInv
<1>2. SUFFICES ASSUME NEW p \in Proc,
                      Produce(p) \/ Consume(p) \/ signal_handler(p) \/ Kill(p)
               PROVE  SizedInv'
  BY <1>1 DEF Next
<1>s. ASSUME p \in Prod,
             proc[p].pc \notin {"start", "sem_open", "shm_open", "ftruncate", "killed"}
      PROVE  seg[p].sized
  BY <1>s DEF SizedInv
<1>3. CASE ForgetSemaphore(p) \/ cleanup_shared_memory(p) \/ cleanup_semaphore(p)
           \/ cleanup_semaphore_file(p)
  <2>1. /\ seg' = seg
        /\ \/ p \in Cons /\ Moves(p, "done")
           \/ p \in Prod /\ Moves(p, "sem_open")
           \/ p \in Prod /\ proc[p].pc = "cleanup" /\ Moves(p, "sem_unlink")
           \/ p \in Prod /\ proc[p].pc = "sem_unlink" /\ Moves(p, "done")
    BY <1>0, <1>3, UnlinkEffect DEF ShmUnchanged
  <2> QED BY <1>s, <2>1, SizedKept, NoneIsNobody
<1>4. CASE init_semaphore(p) \/ OpenSegment(p)
  <2>1. seg' = seg /\ \E l \in {"shm_open", "ftruncate"} : Moves(p, l)
    BY <1>0, <1>4, CreateEffect, OpenSegmentEffect DEF ShmUnchanged
  <2> QED BY <2>1, SizedKept
<1>6. CASE SizeSegment(p) \/ ResetItems(p) \/ ClearArray(p)
  <2>1. /\ p \in Prod /\ (seg[p].sized => seg'[p].sized)
        /\ seg'[p].items \in {seg[p].items, 0}
        /\ \/ seg'[p].sized
           \/ seg'[p].sized = seg[p].sized /\ proc[p].pc \in {"init", "clear"}
        /\ \E l \in {"init", "clear", "loop"} : Moves(p, l)
    BY <1>0, <1>6, InitSegmentEffect
  <2>2. seg'[p].sized
    BY <1>s, <2>1
  <2>3. \A s \in Prod : s = p
    BY <1>0, <2>1 DEF Opened, EachOnce
  <2> QED BY <2>1, <2>2, <2>3, SizedKept
<1>7. CASE generate_record(p)
  BY <1>0, <1>7, <1>s, GenerateEffect, SizedKept
<1>8. CASE \/ AcquireArray(p) \/ AcquireToRemove(p) \/ ReleaseArray(p)
           \/ ReleaseRemoved(p)
  <2>1. /\ seg' = seg /\ proc[p].pc \in {"wait", "post"}
        /\ \E l \in {"add", "pick", "loop", "fwait"} : Moves(p, l)
    BY <1>0, <1>8, AcquireArrayEffect, ReleaseArrayEffect DEF ShmUnchanged
  <2> QED BY <1>s, <2>1, SizedKept
<1>9. CASE CopyRecord(p) \/ CountRecord(p)
  <2>1. p \in Prod /\ seg[p].items \in 0 .. MAX_RECORD
    BY <1>0, <1>9 DEF CopyRecord, CountRecord, CountInv
  <2>2. /\ proc[p].pc \in {"add", "count"} /\ seg'[p].sized = seg[p].sized
        /\ \E l \in {"count", "post"} : Moves(p, l)
    BY <1>0, <1>9, <2>1, CopyEffect, CountEffect
  <2>3. \A s \in Prod : s = p
    BY <1>0, <2>1 DEF Opened, EachOnce
  <2> QED BY <1>s, <2>1, <2>2, <2>3, SizedKept
<1>12. CASE StopProducing(p) \/ ConsumeOn(p) \/ Kill(p)
  <2>1. /\ seg' = seg
        /\ \/ p \in Prod /\ proc[p].pc = "loop" /\ Moves(p, "cleanup")
           \/ p \in Cons /\ \E l \in {"wait", "cleanup"} : Moves(p, l)
           \/ Moves(p, "killed")
    BY <1>0, <1>12, ControlEffect DEF ShmUnchanged
  <2> QED BY <1>s, <2>1, SizedKept, NoneIsNobody
<1>13. CASE signal_handler(p)
  BY <1>0, <1>13, HandlerEffect DEF ShmUnchanged, SizedInv
<1>14. CASE \/ init_semaphore_shared_memory(p) \/ init_semaphore_file(p)
            \/ CreateFileSemaphore(p) \/ ReopenFileSemaphore(p) \/ init_shared_memory(p)
            \/ AcquireFile(p) \/ ReleaseFile(p) \/ FindPlace(p) \/ WriteLine(p)
            \/ PickRecord(p) \/ AdvanceOffset(p)
  <2>1. /\ p \in Cons /\ seg' = seg
        /\ \E l \in {"file_open", "done", "file_excl", "shm_open", "file_again", "loop",
                     "place", "memcpy", "advance", "shift", "cleanup", "sigbus", "fpost"} :
              Moves(p, l)
    BY <1>0, <1>14, OpenArraySemaphoreEffect, OpenFileSemaphoreEffect,
       CreateFileSemaphoreEffect, ReopenFileSemaphoreEffect, OpenArrayEffect,
       AcquireFileEffect, ReleaseFileEffect, FindPlaceEffect, WriteEffect, PickEffect,
       AdvanceEffect DEF ShmUnchanged
  <2> QED BY <2>1, SizedKept, NoneIsNobody
<1>22. CASE Shift(p)
  <2> DEFINE s == proc[p].data
  <2>1. /\ p \in Cons /\ s \in Prod /\ proc[p].idx \in Index
        /\ proc[p].idx < seg[s].items
        /\ seg'[s].sized = seg[s].sized
        /\ \E l \in {"shift", "post"} : Moves(p, l)
    BY <1>0, <1>22, ShiftEffect
  <2>2. seg[s].items # 0
    BY <2>1, RecordsAssumption DEF Index
  <2>3. seg'[s].sized /\ \A t \in Prod : t = s
    BY <1>0, <2>1, <2>2 DEF SizedInv, Opened, EachOnce
  <2> QED BY <2>1, <2>3, SizedKept, NoneIsNobody
<1> QED BY <1>2, <1>3, <1>4, <1>6, <1>7, <1>8, <1>9, <1>12, <1>13, <1>14, <1>22
        DEF Produce, Consume

\* A step that takes no semaphore of the array and leaves no section of it.
LEMMA ArrayKept ==
  ASSUME Opened, KeptInv, NEW p \in Proc, NEW l, Moves(p, l),
         \A s \in Prod : /\ sem'[s] = sem[s] /\ seg'[s].items = seg[s].items
                         /\ proc'[s].msem = s => proc[s].msem = s,
         proc[p].pc \in InArray => l \in InArray,
         p \in Prod => proc[p].pc # "killed",
         p \in Cons /\ proc[p].pc \in {"cleanup"} \cup Gone =>
            l \in {"cleanup"} \cup Gone /\ proc'[p].data = proc[p].data,
         NEW s \in Prod, proc'[s].msem = s, sem'[s] = 0
  PROVE  \/ \E q \in Proc : InArraySection(q)'
         \/ proc'[s].pc = "killed"
         \/ \E c \in Cons : /\ proc'[c].pc \in {"cleanup"} \cup Gone
                            /\ proc'[c].data = s /\ seg'[s].items = 0
<1>1. \A q \in Proc \ {p} : proc'[q] = proc[q]
  BY DEF Moves
<1>2. proc'[p].pc = l
  BY DEF Moves
<1>3. \A q \in Proc : InArraySection(q) => InArraySection(q)'
  BY <1>1, <1>2 DEF InArraySection
<1>4. proc[s].pc = "killed" => proc'[s].pc = "killed"
  BY <1>1, NoneIsNobody
<1>5. \A c \in Cons : proc[c].pc \in {"cleanup"} \cup Gone =>
         proc'[c].pc \in {"cleanup"} \cup Gone /\ proc'[c].data = proc[c].data
  BY <1>1, <1>2, NoneIsNobody
<1>6. proc[s].msem = s /\ sem[s] = 0 /\ seg'[s].items = seg[s].items
  OBVIOUS
<1> QED BY <1>3, <1>4, <1>5, <1>6 DEF KeptInv

\* The same for the file.
LEMMA FileKept ==
  ASSUME Opened, KeptInv, NEW p \in Proc, NEW l, Moves(p, l),
         \A c \in Cons : /\ sem'[c] = sem[c]
                         /\ proc'[c].fsem = c => proc[c].fsem = c,
         p \in Cons /\ proc[p].pc \in InFile => l \in InFile /\ proc'[p].fsem = proc[p].fsem,
         NEW s \in Cons, proc'[s].fsem = s, sem'[s] = 0
  PROVE  \E d \in Cons : proc'[d].pc \in InFile /\ proc'[d].fsem = s
<1>1. \A q \in Proc \ {p} : proc'[q] = proc[q]
  BY DEF Moves
<1>2. proc'[p].pc = l
  BY DEF Moves
<1>3. proc[s].fsem = s /\ sem[s] = 0
  OBVIOUS
<1>4. PICK d \in Cons : proc[d].pc \in InFile /\ proc[d].fsem = s
  BY <1>3 DEF KeptInv
<1> QED BY <1>1, <1>2, <1>4, NoneIsNobody

\* Neither is about a step that leaves the semaphores and the counters alone.
LEMMA BothKept ==
  ASSUME Opened, KeptInv, NEW p \in Proc, NEW l, Moves(p, l), sem' = sem,
         \A s \in Prod : /\ seg'[s].items = seg[s].items
                         /\ proc'[s].msem = s => proc[s].msem = s,
         proc[p].pc \in InArray => l \in InArray,
         p \in Prod => proc[p].pc # "killed",
         p \in Cons /\ proc[p].pc \in {"cleanup"} \cup Gone =>
            l \in {"cleanup"} \cup Gone /\ proc'[p].data = proc[p].data,
         p \in Cons => l # "killed",
         \A c \in Cons : proc'[c].fsem = c => proc[c].fsem = c,
         p \in Cons /\ proc[p].pc \in InFile => l \in InFile /\ proc'[p].fsem = proc[p].fsem
  PROVE  KeptInv'
<1>1. ASSUME NEW s \in Prod, proc'[s].msem = s, sem'[s] = 0
      PROVE  \/ \E q \in Proc : InArraySection(q)'
             \/ proc'[s].pc = "killed"
             \/ \E c \in Cons : /\ proc'[c].pc \in {"cleanup"} \cup Gone
                                /\ proc'[c].data = s /\ seg'[s].items = 0
  BY <1>1, ArrayKept
<1>2. ASSUME NEW s \in Cons, proc'[s].fsem = s, sem'[s] = 0
      PROVE  \E d \in Cons : proc'[d].pc \in InFile /\ proc'[d].fsem = s
  BY <1>2, FileKept
<1>3. \A c \in Cons : proc'[c].pc # "killed"
  BY NoneIsNobody DEF Moves, KeptInv
<1> QED BY <1>1, <1>2, <1>3 DEF KeptInv

\* A step after which someone is in the section of the array.
LEMMA KeptInside ==
  ASSUME Opened, KeptInv, NEW p \in Proc, NEW l, Moves(p, l),
         \E q \in Proc : InArraySection(q)',
         \A c \in Cons : /\ sem'[c] = sem[c]
                         /\ proc'[c].fsem = c => proc[c].fsem = c,
         p \in Cons => l # "killed",
         p \in Cons => proc[p].pc \notin InFile
  PROVE  KeptInv'
<1>2. ASSUME NEW s \in Cons, proc'[s].fsem = s, sem'[s] = 0
      PROVE  \E d \in Cons : proc'[d].pc \in InFile /\ proc'[d].fsem = s
  BY <1>2, FileKept
<1>3. \A c \in Cons : proc'[c].pc # "killed"
  BY NoneIsNobody DEF Moves, KeptInv
<1> QED BY <1>2, <1>3 DEF KeptInv

MortalProducers == Mortal \subseteq Prod

\* Every step keeps who has what is taken, if it is the producer that dies.
LEMMA KeptStep ==
  ASSUME MortalProducers, Ready, FileNameInv, LockInv, SizedInv, KeptInv,
         [Next]_vars
  PROVE  KeptInv'
<1>0. Opened /\ CountInv /\ FilledInv /\ OpenInv /\ TypeInv
  BY DEF Ready, Opened
<1>1. CASE UNCHANGED vars
  BY <1>0, <1>1 DEF vars, KeptInv, InArraySection
<1>2. SUFFICES ASSUME NEW p \in Proc,
                      Produce(p) \/ Consume(p) \/ signal_handler(p) \/ Kill(p)
               PROVE  KeptInv'
  BY <1>1 DEF Next
<1>a. ASSUME NEW l, Moves(p, l), SameOpen(p)
      PROVE  /\ \A s \in Prod : proc'[s].msem = proc[s].msem
             /\ \A c \in Cons : proc'[c].fsem = proc[c].fsem
  BY <1>a, NoneIsNobody DEF Moves, SameOpen
<1>3. CASE ForgetSemaphore(p) \/ cleanup_shared_memory(p) \/ cleanup_semaphore(p)
           \/ cleanup_semaphore_file(p)
  <2>1. /\ SameOpen(p) /\ UNCHANGED <<sem, seg>>
        /\ proc[p].pc \in {"start", "cleanup", "sem_unlink"}
        /\ \E l \in {"sem_open", "sem_unlink", "done"} : Moves(p, l) /\ (p \in Cons => l = "done")
    BY <1>0, <1>3, UnlinkEffect, NoneIsNobody DEF Only, ShmUnchanged
  <2> QED BY <1>0, <1>a, <2>1, BothKept DEF InArray, InFile, SameOpen, Gone
<1>4. CASE init_semaphore(p)
  <2>1. /\ p \in Prod /\ proc[p].pc = "sem_open" /\ Moves(p, "shm_open")
        /\ proc'[p].fsem = proc[p].fsem
        /\ name["memory"] = NONE => sem' = [sem EXCEPT ![p] = 1]
    BY <1>0, <1>4, CreateEffect
  <2>2. name["memory"] = NONE
    BY <1>0, <2>1 DEF OpenInv
  <2>3. sem'[p] = 1 /\ \A q \in Proc \ {p} : sem'[q] = sem[q]
    BY <1>0, <2>1, <2>2 DEF TypeInv
  <2>4. ASSUME NEW s \in Cons, proc'[s].fsem = s, sem'[s] = 0
        PROVE  \E d \in Cons : proc'[d].pc \in InFile /\ proc'[d].fsem = s
    BY <1>0, <2>1, <2>3, <2>4, FileKept, NoneIsNobody DEF Moves
  <2>5. \A s \in Prod : sem'[s] = 1
    BY <1>0, <2>1, <2>3 DEF Opened, EachOnce
  <2>6. \A c \in Cons : proc'[c].pc # "killed"
    BY <2>1, NoneIsNobody DEF Moves, KeptInv
  <2> QED BY <2>4, <2>5, <2>6 DEF KeptInv
<1>5. CASE OpenSegment(p)
  <2>1. /\ p \in Prod /\ proc[p].pc = "shm_open" /\ Moves(p, "ftruncate")
        /\ UNCHANGED <<sem, seg>>
        /\ proc'[p].fsem = proc[p].fsem /\ proc'[p].msem = proc[p].msem
    BY <1>0, <1>5, OpenSegmentEffect DEF ShmUnchanged
  <2>2. /\ \A s \in Prod : proc'[s].msem = proc[s].msem
        /\ \A c \in Cons : proc'[c].fsem = proc[c].fsem
    BY <2>1, NoneIsNobody DEF Moves
  <2> QED BY <1>0, <2>1, <2>2, BothKept, NoneIsNobody DEF InArray
<1>6. CASE SizeSegment(p) \/ ResetItems(p) \/ ClearArray(p)
  <2>1. /\ p \in Prod /\ SameOpen(p) /\ sem' = sem /\ proc[p].pc \in SetUp
        /\ seg'[p].items \in {seg[p].items, 0}
        /\ \E l \in {"init", "clear", "loop"} : Moves(p, l)
    BY <1>0, <1>6, InitSegmentEffect DEF Only, SetUp
  <2>2. \A s \in Prod : seg'[s].items = seg[s].items
    BY <1>0, <2>1 DEF Opened, EachOnce, CountInv
  <2> QED BY <1>0, <1>a, <2>1, <2>2, BothKept, NoneIsNobody DEF InArray, SetUp
<1>7. CASE generate_record(p)
  <2>1. /\ p \in Prod /\ SameOpen(p) /\ UNCHANGED <<sem, seg>>
        /\ proc[p].pc = "loop"
        /\ Moves(p, "wait")
    BY <1>0, <1>7, GenerateEffect
  <2> QED BY <1>0, <1>a, <2>1, BothKept, NoneIsNobody DEF InArray
<1>8. CASE AcquireArray(p) \/ AcquireToRemove(p)
  <2> DEFINE s == proc[p].msem
  <2>1. /\ SameOpen(p) /\ s \in Prod /\ sem' = [sem EXCEPT ![s] = sem[s] - 1]
        /\ proc[p].pc = "wait" /\ \E l \in {"add", "pick"} : Moves(p, l)
    BY <1>0, <1>8, AcquireArrayEffect DEF Only
  <2>2. InArraySection(p)'
    BY <2>1 DEF InArraySection, InArray, Moves
  <2>3. \A c \in Cons : sem'[c] = sem[c]
    BY <1>0, <2>1, NoneIsNobody DEF TypeInv
  <2> QED BY <1>0, <1>a, <2>1, <2>2, <2>3, KeptInside DEF InFile
<1>9. CASE CopyRecord(p) \/ CountRecord(p)
  <2>1. p \in Prod /\ seg[p].items \in 0 .. MAX_RECORD
    BY <1>0, <1>9 DEF CopyRecord, CountRecord, CountInv
  <2>2. SameOpen(p) /\ sem' = sem /\ \E l \in {"count", "post"} : Moves(p, l)
    BY <1>0, <1>9, <2>1, CopyEffect, CountEffect DEF Only
  <2>3. InArraySection(p)'
    BY <2>2 DEF InArraySection, InArray, Moves
  <2> QED BY <1>0, <1>a, <2>1, <2>2, <2>3, KeptInside, NoneIsNobody
<1>11. CASE ReleaseArray(p) \/ ReleaseRemoved(p)
  <2> DEFINE s == proc[p].msem
  <2>1. /\ SameOpen(p) /\ s \in Prod /\ sem' = [sem EXCEPT ![s] = sem[s] + 1]
        /\ proc[p].pc = "post" /\ \E l \in {"loop", "fwait"} : Moves(p, l)
    BY <1>0, <1>11, ReleaseArrayEffect DEF Only
  <2>2. /\ \A t \in Prod : t = s
        /\ sem[s] \in Nat /\ sem'[s] = sem[s] + 1
        /\ \A c \in Cons : sem'[c] = sem[c]
    BY <1>0, <2>1, NoneIsNobody DEF TypeInv, Opened, EachOnce
  <2>3. \A t \in Prod : sem'[t] # 0
    BY <2>2
  <2>4. ASSUME NEW t \in Cons, proc'[t].fsem = t, sem'[t] = 0
        PROVE  \E d \in Cons : proc'[d].pc \in InFile /\ proc'[d].fsem = t
    BY <1>0, <1>a, <2>1, <2>2, <2>4, FileKept DEF InFile
  <2>5. \A c \in Cons : proc'[c].pc # "killed"
    BY <2>1, NoneIsNobody DEF Moves, KeptInv
  <2> QED BY <2>3, <2>4, <2>5 DEF KeptInv
<1>12. CASE StopProducing(p) \/ ConsumeOn(p)
  <2>1. /\ SameOpen(p) /\ UNCHANGED <<sem, seg>> /\ proc[p].pc = "loop"
        /\ \E l \in {"wait", "cleanup"} : Moves(p, l)
    BY <1>0, <1>12, ControlEffect DEF Only, ShmUnchanged
  <2> QED BY <1>0, <1>a, <2>1, BothKept DEF InArray, InFile, Gone
<1>26. CASE Kill(p)
  <2>1. /\ p \in Prod /\ SameOpen(p) /\ sem' = sem /\ Moves(p, "killed")
    BY <1>0, <1>26, ControlEffect DEF Only, MortalProducers
  <2>2. \A s \in Prod : proc'[s].pc = "killed"
    BY <1>0, <2>1 DEF Opened, EachOnce, Moves
  <2>4. ASSUME NEW t \in Cons, proc'[t].fsem = t, sem'[t] = 0
        PROVE  \E d \in Cons : proc'[d].pc \in InFile /\ proc'[d].fsem = t
    BY <1>0, <1>a, <2>1, <2>4, FileKept, NoneIsNobody
  <2>5. \A c \in Cons : proc'[c].pc # "killed"
    BY <2>1, NoneIsNobody DEF Moves, KeptInv
  <2> QED BY <2>2, <2>4, <2>5 DEF KeptInv
<1>13. CASE signal_handler(p)
  BY <1>0, <1>13, HandlerEffect DEF ShmUnchanged, KeptInv, InArraySection
<1>14. CASE init_semaphore_shared_memory(p)
  <2>1. /\ p \in Cons /\ UNCHANGED <<sem, seg>> /\ proc[p].pc = "start"
        /\ proc'[p].fsem = proc[p].fsem
        /\ \E l \in {"file_open", "done"} : Moves(p, l)
    BY <1>0, <1>14, OpenArraySemaphoreEffect DEF ShmUnchanged
  <2>2. /\ \A s \in Prod : proc'[s].msem = proc[s].msem
        /\ \A c \in Cons : proc'[c].fsem = proc[c].fsem
    BY <2>1, NoneIsNobody DEF Moves
  <2> QED BY <1>0, <2>1, <2>2, BothKept, NoneIsNobody DEF InArray, InFile, Gone
<1>18. CASE init_shared_memory(p)
  <2>1. /\ p \in Cons /\ UNCHANGED <<sem, seg>> /\ proc[p].pc = "shm_open"
        /\ proc'[p].fsem = proc[p].fsem
        /\ \E l \in {"loop", "done"} : Moves(p, l)
    BY <1>0, <1>18, OpenArrayEffect DEF ShmUnchanged
  <2>2. /\ \A s \in Prod : proc'[s].msem = proc[s].msem
        /\ \A c \in Cons : proc'[c].fsem = proc[c].fsem
    BY <2>1, NoneIsNobody DEF Moves
  <2> QED BY <1>0, <2>1, <2>2, BothKept, NoneIsNobody DEF InArray, InFile, Gone
<1>15. CASE init_semaphore_file(p) \/ ReopenFileSemaphore(p)
  <2>1. /\ p \in Cons /\ UNCHANGED <<name, sem, seg>>
        /\ proc[p].pc \in {"file_open", "file_again"}
        /\ proc'[p].fsem = name["file"]
        /\ \E l \in {"shm_open", "file_excl", "done"} : Moves(p, l)
    BY <1>0, <1>15, OpenFileSemaphoreEffect, ReopenFileSemaphoreEffect
       DEF ShmUnchanged
  <2>2. proc[p].fsem = NONE
    BY <1>0, <2>1 DEF OpenInv, Early
  <2>3. name["file"] # p
    BY <2>1, <2>2, NoneIsNobody DEF FileNameInv
  <2>4. /\ \A s \in Prod : proc'[s].msem = proc[s].msem
        /\ \A c \in Cons : proc'[c].fsem = c => proc[c].fsem = c
    BY <2>1, <2>3, NoneIsNobody DEF Moves
  <2> QED BY <1>0, <2>1, <2>4, BothKept, NoneIsNobody DEF InArray, InFile, Gone
<1>16. CASE CreateFileSemaphore(p)
  <2>1. /\ p \in Cons /\ seg' = seg /\ proc[p].pc = "file_excl"
        /\ proc'[p].msem = proc[p].msem
    BY <1>0, <1>16, CreateFileSemaphoreEffect DEF ShmUnchanged
  <2>2. CASE Moves(p, "shm_open") /\ sem' = [sem EXCEPT ![p] = 1]
    <3>1. sem'[p] = 1 /\ \A q \in Proc \ {p} : sem'[q] = sem[q]
      BY <1>0, <2>2 DEF TypeInv
    <3>2. \A q \in Proc \ {p} : proc'[q] = proc[q]
      BY <2>2 DEF Moves
    <3>3. ASSUME NEW t \in Cons, proc'[t].fsem = t, sem'[t] = 0
          PROVE  \E d \in Cons : proc'[d].pc \in InFile /\ proc'[d].fsem = t
      <4>1. t # p /\ proc[t].fsem = t /\ sem[t] = 0
        BY <3>1, <3>2, <3>3, NoneIsNobody
      <4>2. PICK d \in Cons : proc[d].pc \in InFile /\ proc[d].fsem = t
        BY <4>1 DEF KeptInv
      <4>3. d # p
        BY <2>1, <4>2 DEF InFile
      <4> QED BY <3>2, <4>2, <4>3, NoneIsNobody
    <3>4. ASSUME NEW s \in Prod, proc'[s].msem = s, sem'[s] = 0
          PROVE  \/ \E q \in Proc : InArraySection(q)'
                 \/ proc'[s].pc = "killed"
                 \/ \E c \in Cons : /\ proc'[c].pc \in {"cleanup"} \cup Gone
                                    /\ proc'[c].data = s /\ seg'[s].items = 0
      <4>1. \A t \in Prod : sem'[t] = sem[t] /\ proc'[t] = proc[t]
        BY <2>1, <3>1, <3>2, NoneIsNobody
      <4> QED BY <1>0, <2>1, <2>2, <3>4, <4>1, ArrayKept, NoneIsNobody
                 DEF InArray, Gone
    <3>5. \A c \in Cons : proc'[c].pc # "killed"
      BY <2>2, NoneIsNobody DEF Moves, KeptInv
    <3> QED BY <3>3, <3>4, <3>5 DEF KeptInv
  <2>3. CASE Moves(p, "file_again") /\ SameOpen(p) /\ sem' = sem
    BY <1>0, <1>a, <2>1, <2>3, BothKept, NoneIsNobody DEF InArray, InFile, Gone
  <2> QED BY <1>0, <1>16, <2>2, <2>3, CreateFileSemaphoreEffect
<1>19. CASE AcquireFile(p)
  <2> DEFINE s == proc[p].fsem
  <2>1. /\ p \in Cons /\ SameOpen(p) /\ s \in Cons
        /\ sem' = [sem EXCEPT ![s] = sem[s] - 1]
        /\ proc[p].pc = "fwait" /\ Moves(p, "place") /\ seg' = seg
    BY <1>0, <1>19, AcquireFileEffect DEF Only, ShmUnchanged
  <2>2. \A q \in Proc \ {s} : sem'[q] = sem[q]
    BY <1>0, <2>1 DEF TypeInv
  <2>3. proc'[p].pc \in InFile /\ proc'[p].fsem = s
    BY <2>1 DEF Moves, SameOpen, InFile
  <2>4. ASSUME NEW t \in Cons, proc'[t].fsem = t, sem'[t] = 0
        PROVE  \E d \in Cons : proc'[d].pc \in InFile /\ proc'[d].fsem = t
    <3>1. CASE t = s
      BY <2>1, <2>3, <3>1
    <3>2. CASE t # s
      <4>1. proc[t].fsem = t /\ sem[t] = 0
        BY <1>a, <2>1, <2>2, <2>4, <3>2, NoneIsNobody
      <4>2. PICK d \in Cons : proc[d].pc \in InFile /\ proc[d].fsem = t
        BY <4>1 DEF KeptInv
      <4>3. d # p
        BY <2>1, <4>2 DEF InFile
      <4> QED BY <2>1, <4>2, <4>3, NoneIsNobody DEF Moves
    <3> QED BY <3>1, <3>2
  <2>5. ASSUME NEW t \in Prod, proc'[t].msem = t, sem'[t] = 0
        PROVE  \/ \E q \in Proc : InArraySection(q)'
               \/ proc'[t].pc = "killed"
               \/ \E c \in Cons : /\ proc'[c].pc \in {"cleanup"} \cup Gone
                                  /\ proc'[c].data = t /\ seg'[t].items = 0
    <3>1. \A r \in Prod : sem'[r] = sem[r]
      BY <2>1, <2>2, NoneIsNobody
    <3> QED BY <1>0, <1>a, <2>1, <2>5, <3>1, ArrayKept, NoneIsNobody
               DEF InArray, Gone
  <2>6. \A c \in Cons : proc'[c].pc # "killed"
    BY <2>1, NoneIsNobody DEF Moves, KeptInv
  <2> QED BY <2>4, <2>5, <2>6 DEF KeptInv
<1>20. CASE ReleaseFile(p)
  <2> DEFINE s == proc[p].fsem
  <2>1. /\ p \in Cons /\ SameOpen(p) /\ s \in Cons
        /\ sem' = [sem EXCEPT ![s] = sem[s] + 1]
        /\ proc[p].pc = "fpost" /\ Moves(p, "loop") /\ seg' = seg
    BY <1>0, <1>20, ReleaseFileEffect DEF Only, ShmUnchanged
  <2>2. sem'[s] # 0 /\ \A q \in Proc \ {s} : sem'[q] = sem[q]
    BY <1>0, <2>1, NoneIsNobody DEF TypeInv
  <2>4. ASSUME NEW t \in Cons, proc'[t].fsem = t, sem'[t] = 0
        PROVE  \E d \in Cons : proc'[d].pc \in InFile /\ proc'[d].fsem = t
    <3>1. t # s /\ proc[t].fsem = t /\ sem[t] = 0
      BY <1>a, <2>1, <2>2, <2>4, NoneIsNobody
    <3>2. PICK d \in Cons : proc[d].pc \in InFile /\ proc[d].fsem = t
      BY <3>1 DEF KeptInv
    <3>3. d # p
      BY <3>1, <3>2
    <3> QED BY <2>1, <3>2, <3>3, NoneIsNobody DEF Moves
  <2>5. ASSUME NEW t \in Prod, proc'[t].msem = t, sem'[t] = 0
        PROVE  \/ \E q \in Proc : InArraySection(q)'
               \/ proc'[t].pc = "killed"
               \/ \E c \in Cons : /\ proc'[c].pc \in {"cleanup"} \cup Gone
                                  /\ proc'[c].data = t /\ seg'[t].items = 0
    <3>1. \A r \in Prod : sem'[r] = sem[r]
      BY <2>1, <2>2, NoneIsNobody
    <3> QED BY <1>0, <1>a, <2>1, <2>5, <3>1, ArrayKept, NoneIsNobody
               DEF InArray, Gone
  <2>6. \A c \in Cons : proc'[c].pc # "killed"
    BY <2>1, NoneIsNobody DEF Moves, KeptInv
  <2> QED BY <2>4, <2>5, <2>6 DEF KeptInv
<1>21. CASE PickRecord(p)
  <2> DEFINE s == proc[p].data
  <2>1. /\ p \in Cons /\ proc[p].pc = "pick" /\ s \in Prod /\ SameOpen(p)
        /\ UNCHANGED <<sem, seg>>
        /\ \/ Moves(p, "shift")
           \/ Moves(p, "cleanup") /\ seg[s].items = 0
           \/ Moves(p, "sigbus") /\ ~seg[s].sized
    BY <1>0, <1>21, PickEffect DEF ShmUnchanged
  <2>2. CASE Moves(p, "shift")
    BY <1>0, <1>a, <2>1, <2>2, BothKept, NoneIsNobody DEF InArray, InFile, Gone
  <2>3. CASE (Moves(p, "cleanup") \/ Moves(p, "sigbus")) /\ seg[s].items = 0
    <3>1. /\ proc'[p].pc \in {"cleanup"} \cup Gone /\ proc'[p].data = s
          /\ seg'[s].items = 0
      BY <2>1, <2>3 DEF Moves, SameOpen, Gone
    <3>2. \A t \in Prod : t = s
      BY <1>0, <2>1 DEF Opened, EachOnce
    <3>3. ASSUME NEW t \in Cons, proc'[t].fsem = t, sem'[t] = 0
          PROVE  \E d \in Cons : proc'[d].pc \in InFile /\ proc'[d].fsem = t
      BY <1>0, <1>a, <2>1, <2>3, <3>3, FileKept DEF InFile
    <3>4. \A c \in Cons : proc'[c].pc # "killed"
      BY <2>3, NoneIsNobody DEF Moves, KeptInv
    <3> QED BY <2>1, <3>1, <3>2, <3>3, <3>4 DEF KeptInv
  <2> QED BY <2>1, <2>2, <2>3 DEF SizedInv
<1>22. CASE Shift(p)
  <2>1. /\ p \in Cons /\ SameOpen(p) /\ sem' = sem /\ proc[p].pc = "shift"
        /\ \E l \in {"shift", "post"} : Moves(p, l)
    BY <1>0, <1>22, ShiftEffect
  <2>2. InArraySection(p)'
    BY <2>1 DEF InArraySection, InArray, Moves
  <2> QED BY <1>0, <1>a, <2>1, <2>2, KeptInside DEF InFile
<1>23. CASE FindPlace(p) \/ WriteLine(p) \/ AdvanceOffset(p)
  <2>1. /\ p \in Cons /\ SameOpen(p) /\ UNCHANGED <<sem, seg>>
        /\ proc[p].pc \in {"place", "memcpy", "advance"}
        /\ \E l \in {"memcpy", "advance", "fpost"} : Moves(p, l)
    BY <1>0, <1>23, FindPlaceEffect, WriteEffect, AdvanceEffect DEF Only
  <2> QED BY <1>0, <1>a, <2>1, BothKept, NoneIsNobody
             DEF InArray, InFile, Gone, SameOpen
<1> QED BY <1>2, <1>3, <1>4, <1>5, <1>6, <1>7, <1>8, <1>9, <1>11, <1>12, <1>13,
           <1>14, <1>15,
           <1>16, <1>18, <1>19, <1>20, <1>21, <1>22, <1>23, <1>26 DEF Produce, Consume

\* From what the steps keep to what is promised of the semaphores.
LEMMA KeptForReader ==
  ASSUME EachOnce, SectionInv, KeptInv
  PROVE  KeptOnlyEmpty
<1>0. Opened /\ OpenInv /\ LockInv /\ FileNameInv /\ TypeInv
  BY DEF SectionInv, Opened
<1>1. ASSUME NEW s \in Prod, Taken(s)
      PROVE  \/ \E q \in Prod : proc[q].pc = "killed"
             \/ \E q \in Cons : LeftEmpty(q) /\ proc[q].msem = s /\ Data(q).items = 0
  <2>1. PICK q \in Proc : proc[q].msem = s
    BY <1>1 DEF Taken
  <2>2. proc[s].msem = s
    BY <1>0, <2>1, NoneIsNobody DEF OpenInv, Proc
  <2>3. \A r \in Proc : ~InArraySection(r)
    BY <1>0, <1>1, SectionOpen DEF Taken, EachOnce
  <2>4. proc[s].pc = "killed" \/ \E c \in Cons : /\ proc[c].pc \in {"cleanup"} \cup Gone
                                                 /\ proc[c].data = s
                                                 /\ seg[s].items = 0
    BY <1>1, <2>2, <2>3 DEF KeptInv, Taken
  <2>5. ASSUME NEW c \in Cons, proc[c].pc \in {"cleanup"} \cup Gone,
               proc[c].data = s
        PROVE  LeftEmpty(c) /\ proc[c].msem = s
    BY <1>0, <2>5, Objects, NoneIsNobody DEF LeftEmpty, OpenInv, EachOnce
  <2> QED BY <2>4, <2>5 DEF Data
<1>2. ASSUME NEW s \in {proc[q].fsem : q \in Cons} \ {NONE}
      PROVE  sem[s] = 1 <=> \A q \in Cons : proc[q].pc \in InFile => proc[q].fsem # s
  <2>1. s \in Cons /\ proc[s].fsem = s
    BY <1>0, <1>2, Objects DEF FileNameInv
  <2>2. sem[s] \in Nat /\ sem[s] <= 1
    BY <1>0, <2>1, NoneIsNobody DEF TypeInv, LockInv
  <2>3. sem[s] = 0 => \E d \in Cons : proc[d].pc \in InFile /\ proc[d].fsem = s
    BY <2>1 DEF KeptInv
  <2>4. (\E d \in Cons : proc[d].pc \in InFile /\ proc[d].fsem = s) => sem[s] = 0
    BY <1>0 DEF LockInv
  <2> QED BY <2>2, <2>3, <2>4
<1> QED BY <1>1, <1>2 DEF KeptOnlyEmpty

\* The semaphore of the array stays taken only behind a producer that was killed
\* or over an empty array, that of the file always comes back.
THEOREM TakenOnlyOverEmpty ==
  ASSUME EachOnce, MortalProducers
  PROVE  Spec => []KeptOnlyEmpty
<1> DEFINE Inv == SectionInv /\ SizedInv /\ KeptInv
<1>1. Init => Inv
  <2> SUFFICES ASSUME Init PROVE SizedInv /\ KeptInv
    BY SectionInit
  <2>1. \A p \in Proc : proc[p].pc = "start" /\ proc[p].msem = NONE /\ proc[p].fsem = NONE
    BY DEF Init
  <2>2. \A s \in Prod : seg[s].items = 0
    BY DEF Init, NewSegment
  <2> QED BY <2>1, <2>2, NoneIsNobody DEF SizedInv, KeptInv
<1>2. Inv /\ [Next]_vars => Inv'
  <2> SUFFICES ASSUME Inv, [Next]_vars PROVE Inv'
    OBVIOUS
  <2>1. Ready /\ FileNameInv /\ LockInv
    BY DEF SectionInv, Ready, Opened
  <2> QED BY <2>1, SectionStep, SizedStep, KeptStep
<1>3. Inv => KeptOnlyEmpty
  BY KeptForReader
<1> HIDE DEF Inv
<1> QED BY <1>1, <1>2, <1>3, PTL DEF Spec

-------------------------------------------------------------------------------
(* Where the records are: the hands, the array.                             *)

\* What is held after a step: the same, ...
LEMMA HeldSame ==
  ASSUME NEW p \in Proc, NEW l, Moves(p, l), SameHand(p)
  PROVE  Held' = Held
<1>1. \A q \in Proc : proc'[q].hand = proc[q].hand
  BY DEF Moves, SameHand
<1> QED BY <1>1 DEF Held

\* ... one record more, ...
LEMMA HeldMore ==
  ASSUME NEW p \in Proc, NEW l, Moves(p, l), proc[p].hand = EMPTY,
         proc'[p].hand # EMPTY
  PROVE  Held' = Held \cup {proc'[p].hand}
<1>1. \A q \in Proc \ {p} : proc'[q].hand = proc[q].hand
  BY DEF Moves
<1>2. Held' \subseteq Held \cup {proc'[p].hand}
  BY <1>1 DEF Held
<1>3. Held \subseteq Held'
  BY <1>1 DEF Held
<1> QED BY <1>2, <1>3 DEF Held

\* ... or one less.
LEMMA HeldLess ==
  ASSUME HandInv, NEW p \in Proc, NEW l, Moves(p, l), proc[p].hand # EMPTY,
         proc'[p].hand = EMPTY
  PROVE  Held' = Held \ {proc[p].hand} /\ proc[p].hand \in Held
<1>1. \A q \in Proc \ {p} : proc'[q].hand = proc[q].hand
  BY DEF Moves
<1>2. \A q \in Proc \ {p} : proc[q].hand # proc[p].hand
  BY DEF HandInv
<1>3. Held' \subseteq Held \ {proc[p].hand}
  BY <1>1, <1>2 DEF Held
<1>4. Held \ {proc[p].hand} \subseteq Held'
  BY <1>1 DEF Held
<1> QED BY <1>3, <1>4 DEF Held

\* A step with the same hands that comes where a record may be held.
LEMMA HandKept ==
  ASSUME HandInv, NEW p \in Proc, NEW l, Moves(p, l), SameHand(p),
         p \in Prod /\ proc[p].pc \in HandP \cup {"killed"} =>
             l \in HandP \cup {"killed"},
         p \in Cons /\ proc[p].pc \in HandC => l \in HandC
  PROVE  HandInv'
<1>1. \A q \in Proc : proc'[q].hand = proc[q].hand
                      /\ proc'[q].pc = IF q = p THEN l ELSE proc[q].pc
  BY DEF Moves, SameHand
<1> QED BY <1>1, NoneIsNobody DEF HandInv

\* What p holds from now on nobody held.
LEMMA HandChanged ==
  ASSUME HandInv, NEW p \in Proc, NEW l, Moves(p, l),
         proc'[p].hand = EMPTY \/ proc'[p].hand \notin Held,
         p \in Prod /\ proc'[p].hand # EMPTY => l \in HandP,
         p \in Cons /\ proc'[p].hand # EMPTY => l \in HandC
  PROVE  HandInv'
<1>1. \A q \in Proc : q # p => proc'[q] = proc[q]
  BY DEF Moves
<1>2. proc'[p].pc = l
  BY DEF Moves
<1>3. \A q \in Proc : q # p /\ proc[q].hand # EMPTY => proc[q].hand \in Held
  BY DEF Held
<1>4. \A q, r \in Proc : proc'[q].hand = proc'[r].hand /\ proc'[q].hand # EMPTY => q = r
  <2> SUFFICES ASSUME NEW q \in Proc, NEW r \in Proc,
                      proc'[q].hand = proc'[r].hand,
                      proc'[q].hand # EMPTY
               PROVE  q = r
    OBVIOUS
  <2>1. CASE q = p \/ r = p
    BY <1>1, <1>3, <2>1
  <2>2. CASE q # p /\ r # p
    BY <1>1, <2>2 DEF HandInv
  <2> QED BY <2>1, <2>2
<1>5. \A q \in Prod : proc'[q].hand # EMPTY => proc'[q].pc \in HandP \cup {"killed"}
  BY <1>1, <1>2, NoneIsNobody DEF HandInv
<1>6. \A q \in Cons : proc'[q].hand # EMPTY => proc'[q].pc \in HandC
  BY <1>1, <1>2, NoneIsNobody DEF HandInv
<1> QED BY <1>4, <1>5, <1>6 DEF HandInv

\* The live slots of the one array, while no consumer closes a gap.
LEMMA LiveWhole ==
  ASSUME NEW s \in Prod, \A c \in Cons : proc[c].pc # "shift"
  PROVE  Live(s) = {i \in Index : i < seg[s].items}
  BY DEF Live, Hole, At

\* The live slots while p closes one.
LEMMA LiveGap ==
  ASSUME NEW s \in Prod, NEW p \in Cons, proc[p].pc = "shift", proc[p].data = s,
         \A c \in Cons \ {p} : proc[c].pc # "shift"
  PROVE  Live(s) = {i \in Index : i < seg[s].items /\ i # proc[p].idx}
  BY DEF Live, Hole, At

\* The records of the arrays after a step that leaves the arrays alone.
LEMMA LiveKept ==
  ASSUME ArrayInv, NEW p \in Proc, NEW l, Moves(p, l),
         p \in Cons => proc[p].pc # "shift" /\ l # "shift",
         \A s \in Prod : seg'[s].items = seg[s].items /\ seg'[s].array = seg[s].array
  PROVE  ArrayInv' /\ LiveRecords' = LiveRecords
<1>1. \A c \in Cons : /\ At(c, "shift")' <=> At(c, "shift")
                      /\ At(c, "shift") => proc'[c] = proc[c]
  BY NoneIsNobody DEF Moves, At
<1>2. \A s \in Prod, i \in Index : Hole(s, i)' <=> Hole(s, i)
  BY <1>1 DEF Hole
<1>3. \A s \in Prod : Live(s)' = Live(s)
  BY <1>2 DEF Live
<1> QED BY <1>3 DEF ArrayInv, LiveRecords

\* An array without records.
LEMMA LiveNone ==
  ASSUME \A s \in Prod : seg[s].items = 0
  PROVE  ArrayInv /\ LiveRecords = {}
<1>1. \A s \in Prod : Live(s) = {}
  BY DEF Live, Index
<1> QED BY <1>1 DEF ArrayInv, LiveRecords

\* A full array starts over, or the next slot is filled.
LEMMA LiveAfterCopy ==
  ASSUME EachOnce, Ready, LockInv, ArrayInv, NEW p \in Proc, CopyRecord(p)
  PROVE  /\ ArrayInv' /\ LiveRecords' \cup lost' = LiveRecords \cup lost
         /\ LiveRecords' \subseteq LiveRecords
         /\ LiveRecords \cap lost = {} => LiveRecords' \cap lost' = {}
         /\ lost' \subseteq lost \cup LiveRecords
<1>0. Opened /\ CountInv /\ FilledInv
  BY DEF Ready
<1>1. /\ /\ p \in Prod /\ seg[p].items \in 0 .. MAX_RECORD
      /\ seg[p].array \in [Index -> AnyRecord]
      /\ MAX_RECORD \in Nat \ {0}
  BY <1>0, Objects, RecordsAssumption DEF CopyRecord, CountInv
<1> DEFINE at == CopyAt(seg[p])
<1>2. /\ proc[p].pc = "add" /\ Moves(p, "count") /\ at \in Index
      /\ seg'[p].items = at
      /\ seg'[p].array = [seg[p].array EXCEPT ![at] = proc[p].hand]
      /\ lost' = IF seg[p].items >= MAX_RECORD THEN lost \cup Contents(seg[p]) ELSE lost
  BY <1>0, <1>1, CopyEffect
<1>3. \A c \in Cons : proc[c].pc # "shift" /\ proc'[c].pc # "shift"
  BY <1>1, <1>2, NoShift, NoneIsNobody DEF InArraySection, InArray, Moves
<1>4. Live(p) = {i \in Index : i < seg[p].items}
  BY <1>1, <1>3, LiveWhole
<1>5. Live(p)' = {i \in Index : i < seg'[p].items}
  BY <1>1, <1>3 DEF Live, Hole, At
<1>6. /\ LiveRecords = {seg[p].array[i] : i \in Live(p)}
      /\ LiveRecords' = {seg'[p].array[i] : i \in Live(p)'}
  BY <1>1 DEF EachOnce, LiveRecords
<1>7. \A s \in Prod : s = p
  BY <1>1 DEF EachOnce
<1>8. CASE seg[p].items >= MAX_RECORD
  <2>1. at = 0
    BY <1>8 DEF CopyAt
  <2>2. Live(p)' = {}
    BY <1>2, <1>5, <2>1 DEF Index
  <2>3. LiveRecords' = {}
    BY <1>6, <2>2
  <2>4. Contents(seg[p]) = LiveRecords
    <3>1. \A i \in Live(p) : seg[p].array[i] # EMPTY
      BY <1>0, <1>1, <1>4 DEF FilledInv
    <3> QED BY <1>4, <1>6, <3>1 DEF Contents
  <2>5. ArrayInv'
    BY <1>7, <2>2 DEF ArrayInv
  <2> QED BY <1>2, <1>8, <2>3, <2>4, <2>5
<1>9. CASE ~(seg[p].items >= MAX_RECORD)
  <2>1. at = seg[p].items
    BY <1>9 DEF CopyAt
  <2>2. Live(p)' = Live(p) /\ \A i \in Live(p) : i # at /\ i \in Index
    BY <1>2, <1>4, <1>5, <2>1 DEF Index
  <2> HIDE DEF at
  <2>3. \A i \in Live(p) : seg'[p].array[i] = seg[p].array[i]
    BY <1>1, <1>2, <2>2
  <2>4. LiveRecords' = LiveRecords
    BY <1>6, <2>2, <2>3
  <2>5. ArrayInv'
    BY <1>1, <1>7, <2>2, <2>3 DEF ArrayInv
  <2> QED BY <1>2, <1>9, <2>4, <2>5
<1> QED BY <1>8, <1>9

\* Counting the record that was copied puts it with the others.
LEMMA LiveAfterCount ==
  ASSUME EachOnce, Ready, LockInv, ArrayInv, NEW p \in Proc, CountRecord(p),
         proc[p].hand \notin LiveRecords
  PROVE  ArrayInv' /\ LiveRecords' = LiveRecords \cup {proc[p].hand}
<1>0. Opened /\ CountInv /\ FilledInv
  BY DEF Ready
<1>1. /\ p \in Prod /\ proc[p].pc = "count" /\ Moves(p, "post")
      /\ seg'[p].items = seg[p].items + 1 /\ seg'[p].array = seg[p].array
  BY <1>0, CountEffect
<1>2. /\ seg[p].items \in Index /\ seg[p].items \in Int
      /\ seg[p].array[seg[p].items] = proc[p].hand
  BY <1>0, <1>1, RecordsAssumption DEF CountInv, FilledInv, Index
<1>3. \A c \in Cons : proc[c].pc # "shift" /\ proc'[c].pc # "shift"
  BY <1>1, NoShift, NoneIsNobody DEF InArraySection, InArray, Moves
<1>4. Live(p) = {i \in Index : i < seg[p].items}
  BY <1>1, <1>3, LiveWhole
<1>5. Live(p)' = {i \in Index : i < seg'[p].items}
  BY <1>1, <1>3 DEF Live, Hole, At
<1>6. Live(p)' = Live(p) \cup {seg[p].items}
  BY <1>1, <1>2, <1>4, <1>5 DEF Index
<1>7. /\ LiveRecords = {seg[p].array[i] : i \in Live(p)}
      /\ LiveRecords' = {seg'[p].array[i] : i \in Live(p)'}
  BY <1>1 DEF EachOnce, LiveRecords
<1>8. LiveRecords' = LiveRecords \cup {proc[p].hand}
  BY <1>1, <1>2, <1>6, <1>7
<1>9. \A i \in Live(p) : seg[p].array[i] # proc[p].hand
  BY <1>7
<1>10. ArrayInv'
  BY <1>1, <1>2, <1>6, <1>9 DEF ArrayInv, EachOnce
<1> QED BY <1>8, <1>10

\* A record that is picked leaves its slot to be closed.
LEMMA LiveAfterPick ==
  ASSUME EachOnce, Ready, LockInv, ArrayInv, NEW p \in Cons,
         proc[p].pc = "pick",
         NEW s \in Prod, s = proc[p].data, NEW i \in Index, Moves(p, "shift"),
         SameOpen(p),
         seg' = seg, proc'[p].idx = i, i < seg[s].items
  PROVE  /\ ArrayInv' /\ seg[s].array[i] \in LiveRecords
         /\ LiveRecords' = LiveRecords \ {seg[s].array[i]}
<1>1. \A c \in Cons : proc[c].pc # "shift"
  BY NoneIsNobody DEF LockInv, InArraySection, InArray
<1>2. \A c \in Cons : c # p => proc'[c].pc # "shift"
  BY <1>1, NoneIsNobody DEF Moves
<1>3. proc'[p].pc = "shift" /\ proc'[p].data = s
  BY DEF Moves, SameOpen
<1>4. Live(s) = {j \in Index : j < seg[s].items}
  BY <1>1, LiveWhole
<1>5. Live(s)' = {j \in Index : j < seg[s].items /\ j # i}
  BY <1>2, <1>3 DEF Live, Hole, At
<1>6. /\ LiveRecords = {seg[s].array[j] : j \in Live(s)}
      /\ LiveRecords' = {seg[s].array[j] : j \in Live(s)'}
  BY DEF EachOnce, LiveRecords
<1>7. i \in Live(s) /\ Live(s)' = Live(s) \ {i}
  BY <1>4, <1>5
<1>8. \A j, k \in Live(s) : seg[s].array[j] = seg[s].array[k] => j = k
  BY DEF ArrayInv
<1>9. LiveRecords' = LiveRecords \ {seg[s].array[i]}
  BY <1>6, <1>7, <1>8
<1>10. ArrayInv'
  BY <1>7, <1>8 DEF ArrayInv, EachOnce
<1> QED BY <1>6, <1>7, <1>9, <1>10

\* Closing the gap neither drops nor doubles a record.
LEMMA LiveAfterShift ==
  ASSUME EachOnce, Ready, LockInv, ArrayInv, NEW p \in Proc, Shift(p),
         NEW s, s = proc[p].data, NEW i, i = proc[p].idx
  PROVE  ArrayInv' /\ LiveRecords' = LiveRecords
<1>0. Opened /\ CountInv /\ FilledInv
  BY DEF Ready
<1>1. /\ p \in Cons /\ proc[p].pc = "shift" /\ s \in Prod /\ SameOpen(p)
      /\ i \in Index /\ i < seg[s].items
      /\ \/ /\ i + 1 < seg[s].items /\ Moves(p, "shift") /\ proc'[p].idx = i + 1
            /\ seg'[s].items = seg[s].items
            /\ seg'[s].array = [seg[s].array EXCEPT ![i] = seg[s].array[i + 1]]
         \/ /\ i + 1 = seg[s].items /\ Moves(p, "post")
            /\ seg'[s].items = i /\ seg'[s].array = seg[s].array
  BY <1>0, ShiftEffect
<1>2. /\ /\ seg[s].items \in 0 .. MAX_RECORD
      /\ seg[s].array \in [Index -> AnyRecord]
      /\ MAX_RECORD \in Nat
  BY <1>0, <1>1, Objects, RecordsAssumption DEF CountInv
<1>3. \A c \in Cons \ {p} : proc[c].pc # "shift" /\ proc'[c].pc # "shift"
  BY <1>1, NoneIsNobody DEF LockInv, InArraySection, InArray, Moves
<1>4. Live(s) = {j \in Index : j < seg[s].items /\ j # i}
  BY <1>1, <1>3, LiveGap
<1>5. /\ LiveRecords = {seg[s].array[j] : j \in Live(s)}
      /\ LiveRecords' = {seg'[s].array[j] : j \in Live(s)'}
  BY <1>1 DEF EachOnce, LiveRecords, SameOpen
<1>6. \A j, k \in Live(s) : seg[s].array[j] = seg[s].array[k] => j = k
  BY <1>1 DEF ArrayInv
<1>7. CASE /\ i + 1 < seg[s].items /\ Moves(p, "shift") /\ proc'[p].idx = i + 1
           /\ seg'[s].items = seg[s].items
           /\ seg'[s].array = [seg[s].array EXCEPT ![i] = seg[s].array[i + 1]]
  <2>1. proc'[p].pc = "shift" /\ proc'[p].data = s
    BY <1>1, <1>7 DEF Moves, SameOpen
  <2>2. Live(s)' = {j \in Index : j < seg[s].items /\ j # i + 1}
    BY <1>3, <1>7, <2>1, <1>1 DEF Live, Hole, At
  <2>3. i + 1 \in Index /\ i + 1 # i /\ i \in Int
    BY <1>1, <1>2, <1>7 DEF Index
  <2>4. /\ i + 1 \in Live(s) /\ i \notin Live(s)
        /\ Live(s)' = (Live(s) \ {i + 1}) \cup {i}
    BY <1>1, <1>4, <1>7, <2>2, <2>3
  <2>5. /\ seg'[s].array[i] = seg[s].array[i + 1]
        /\ \A j \in Live(s) : seg'[s].array[j] = seg[s].array[j]
    BY <1>1, <1>2, <1>4, <1>7
  <2>6. LiveRecords' = LiveRecords
    BY <1>5, <2>4, <2>5
  <2>7. \A j, k \in Live(s)' : seg'[s].array[j] = seg'[s].array[k] => j = k
    BY <1>6, <2>4, <2>5
  <2>8. ArrayInv'
    BY <1>1, <2>7 DEF ArrayInv, EachOnce
  <2> QED BY <2>6, <2>8
<1>8. CASE /\ i + 1 = seg[s].items /\ Moves(p, "post")
           /\ seg'[s].items = i /\ seg'[s].array = seg[s].array
  <2>1. proc'[p].pc # "shift"
    BY <1>8 DEF Moves
  <2>2. Live(s)' = {j \in Index : j < i}
    BY <1>3, <1>8, <2>1, <1>1 DEF Live, Hole, At
  <2>3. Live(s)' = Live(s)
    BY <1>1, <1>4, <1>8, <2>2 DEF Index
  <2>4. ArrayInv'
    BY <1>1, <1>6, <1>8, <2>3 DEF ArrayInv, EachOnce
  <2> QED BY <1>5, <1>8, <2>3, <2>4
<1> QED BY <1>1, <1>7, <1>8

-------------------------------------------------------------------------------
(* Where the records are: the file.                                         *)

\* The file and what is written in it, after a step that leaves it alone.
LEMMA WrittenSame ==
  ASSUME file' = file
  PROVE  Written' = Written
  BY DEF Written

\* The lines of the file.
LEMMA LinesKept ==
  ASSUME FileOfWholeLines, file' = file
  PROVE  FileOfWholeLines'
  BY WrittenSame DEF FileOfWholeLines

\* Where the next line goes.
LEMMA PlaceKept ==
  ASSUME PlaceInv, file' = file, NEW p \in Proc, NEW l, Moves(p, l),
         p \in Cons => l \notin {"memcpy", "advance"}
  PROVE  PlaceInv'
<1>1. \A c \in Cons : proc'[c].pc \in {"memcpy", "advance"} => proc'[c] = proc[c]
  BY NoneIsNobody DEF Moves
<1> QED BY <1>1 DEF PlaceInv

DataInv == HandInv /\ ArrayInv /\ WhereInv /\ PlaceInv /\ FileOfWholeLines

\* Steps that move no record.
LEMMA DataKept ==
  ASSUME DataInv, NEW p \in Proc, NEW l, Moves(p, l), SameHand(p), file' = file,
         added' = added, lost' = lost, ArrayInv', LiveRecords' = LiveRecords,
         p \in Prod /\ proc[p].pc \in HandP \cup {"killed"} =>
             l \in HandP \cup {"killed"},
         p \in Cons /\ proc[p].pc \in HandC => l \in HandC,
         p \in Cons => l \notin {"memcpy", "advance"}
  PROVE  DataInv'
<1>1. HandInv'
  BY HandKept DEF DataInv
<1>2. PlaceInv'
  BY PlaceKept DEF DataInv
<1>3. FileOfWholeLines'
  BY LinesKept DEF DataInv
<1>4. WhereInv'
  BY HeldSame, WrittenSame DEF DataInv, WhereInv
<1> QED BY <1>1, <1>2, <1>3, <1>4 DEF DataInv

\* Steps that leave the array alone as well.
LEMMA DataQuiet ==
  ASSUME DataInv, NEW p \in Proc, NEW l, Moves(p, l), SameHand(p), file' = file,
         added' = added, lost' = lost,
         \A s \in Prod : seg'[s].items = seg[s].items /\ seg'[s].array = seg[s].array,
         p \in Prod /\ proc[p].pc \in HandP \cup {"killed"} =>
             l \in HandP \cup {"killed"},
         p \in Cons /\ proc[p].pc \in HandC => l \in HandC,
         p \in Cons => l \notin {"memcpy", "advance", "shift"} /\ proc[p].pc # "shift"
  PROVE  DataInv'
<1>1. ArrayInv' /\ LiveRecords' = LiveRecords
  BY LiveKept DEF DataInv
<1> QED BY <1>1, DataKept

\* The consumer that works on the file is alone there.
LEMMA AloneInFile ==
  ASSUME LockInv, NEW p \in Cons, proc[p].pc \in InFile, NEW l, Moves(p, l)
  PROVE  \A c \in Cons \ {p} : proc[c].pc \notin InFile /\ proc'[c].pc \notin InFile
  BY NoneIsNobody DEF LockInv, Moves

\* The third layer after write_to_shared_file has found the place.
LEMMA DataAfterPlace ==
  ASSUME Ready, LockInv, DataInv, NEW p \in Proc, FindPlace(p)
  PROVE  DataInv'
<1>0. Opened /\ FilledInv
  BY DEF Ready
<1>1. /\ p \in Cons /\ proc[p].pc = "place" /\ Moves(p, "memcpy") /\ SameHand(p)
      /\ file'.cell = file.cell /\ UNCHANGED <<seg, added>>
      /\ \/ /\ 1 + file.offset + LineOf(p) >= FILE_SIZE
            /\ lost' = lost \cup Written /\ file'.offset = 0 /\ proc'[p].idx = 1
         \/ /\ 1 + file.offset + LineOf(p) < FILE_SIZE
            /\ lost' = lost /\ file'.offset = file.offset
            /\ proc'[p].idx = 1 + file.offset
  BY <1>0, FindPlaceEffect
<1>2. /\ LineOf(p) \in Nat /\ LineOf(p) <= FILE_SIZE - 2 /\ FILE_SIZE \in Nat
      /\ file.offset \in Nat
  BY <1>0, <1>1, LineLength, Objects DEF HandC
<1>3. HandInv'
  BY <1>1, HandKept, NoneIsNobody DEF DataInv, HandC
<1>4. ArrayInv' /\ LiveRecords' = LiveRecords
  BY <1>1, LiveKept, NoneIsNobody DEF DataInv
<1>5. Held' = Held
  BY <1>1, HeldSame
<1>6. \A c \in Cons \ {p} : proc'[c].pc \notin {"memcpy", "advance"}
  BY <1>1, AloneInFile DEF InFile
<1>7. proc'[p].pc = "memcpy" /\ Len[proc'[p].hand] = LineOf(p)
  BY <1>1 DEF Moves, SameHand, LineOf
<1>8. CASE /\ lost' = lost \cup Written /\ file'.offset = 0 /\ proc'[p].idx = 1
  <2>1. Written' = {}
    BY <1>8 DEF Written, Unit
  <2>2. FileOfWholeLines'
    BY <2>1 DEF FileOfWholeLines
  <2>3. PlaceInv'
    BY <1>2, <1>6, <1>7, <1>8 DEF PlaceInv
  <2>4. WhereInv'
    BY <1>1, <1>4, <1>5, <1>8, <2>1 DEF DataInv, WhereInv
  <2> QED BY <1>3, <1>4, <2>2, <2>3, <2>4 DEF DataInv
<1>9. CASE /\ 1 + file.offset + LineOf(p) < FILE_SIZE
           /\ lost' = lost /\ file'.offset = file.offset
           /\ proc'[p].idx = 1 + file.offset
  <2>1. Written' = Written
    BY <1>1, <1>9 DEF Written
  <2>2. FileOfWholeLines'
    BY <1>1, <1>9, <2>1 DEF FileOfWholeLines, DataInv
  <2>3. file.offset = 0 \/ file.offset + 1 < FILE_SIZE
    BY DEF DataInv, PlaceInv
  <2>4. PlaceInv'
    BY <1>2, <1>6, <1>7, <1>9, <2>3 DEF PlaceInv
  <2>5. WhereInv'
    BY <1>1, <1>4, <1>5, <1>9, <2>1 DEF DataInv, WhereInv
  <2> QED BY <1>3, <1>4, <2>2, <2>4, <2>5 DEF DataInv
<1> QED BY <1>1, <1>8, <1>9

\* The line is written past the offset.
LEMMA DataAfterWrite ==
  ASSUME Ready, LockInv, DataInv, NEW p \in Proc, WriteLine(p)
  PROVE  DataInv'
<1>0. Opened /\ FilledInv
  BY DEF Ready
<1>1. /\ p \in Cons /\ proc[p].pc = "memcpy" /\ Moves(p, "advance") /\ Only(p)
      /\ file'.offset = file.offset
      /\ \A u \in Unit : file'.cell[u] = IF u \in proc[p].idx .. proc[p].idx + LineOf(p) - 1
                                         THEN proc[p].hand ELSE file.cell[u]
      /\ UNCHANGED <<seg, added, lost>>
  BY <1>0, WriteEffect
<1>2. /\ LineOf(p) \in Nat /\ FILE_SIZE \in Nat /\ file.offset \in Nat
      /\ 1 <= LineOf(p)
  BY <1>0, <1>1, LineLength, Objects DEF HandC
<1>3. proc[p].idx = file.offset + 1 /\ 1 + file.offset + LineOf(p) < FILE_SIZE
  BY <1>1 DEF DataInv, PlaceInv, LineOf
<1>4. HandInv'
  BY <1>1, HandKept, NoneIsNobody DEF DataInv, HandC, Only
<1>5. ArrayInv' /\ LiveRecords' = LiveRecords
  BY <1>1, LiveKept, NoneIsNobody DEF DataInv
<1>6. Held' = Held
  BY <1>1, HeldSame DEF Only
<1>7. \A c \in Cons \ {p} : proc'[c].pc \notin {"memcpy", "advance"}
  BY <1>1, AloneInFile DEF InFile
<1>8. /\ /\ proc'[p].pc = "advance" /\ proc'[p].hand = proc[p].hand
      /\ proc'[p].idx = proc[p].idx
      /\ Len[proc'[p].hand] = LineOf(p)
  BY <1>1 DEF Moves, SameHand, SameIdx, LineOf, Only
<1>9. \A u \in Unit : u <= file.offset => file'.cell[u] = file.cell[u]
  BY <1>1, <1>2, <1>3 DEF Unit
<1>10. Written' = Written
  BY <1>1, <1>9 DEF Written
<1>11. \A u \in 1 .. file.offset : u \in Unit /\ u <= file.offset
  BY <1>2, <1>3 DEF Unit
<1>12. FileOfWholeLines'
  BY <1>1, <1>9, <1>10, <1>11 DEF FileOfWholeLines, DataInv
<1>13. \A u \in proc[p].idx .. proc[p].idx + LineOf(p) - 1 : file'.cell[u] = proc[p].hand
  <2> SUFFICES ASSUME NEW u \in proc[p].idx .. proc[p].idx + LineOf(p) - 1
               PROVE  file'.cell[u] = proc[p].hand
    OBVIOUS
  <2>1. u \in Unit
    BY <1>2, <1>3 DEF Unit
  <2> QED BY <1>1, <2>1
<1>14. PlaceInv'
  <2>1. file.offset = 0 \/ file.offset + 1 < FILE_SIZE
    BY DEF DataInv, PlaceInv
  <2> QED BY <1>1, <1>3, <1>7, <1>8, <1>13, <2>1 DEF PlaceInv
<1>15. WhereInv'
  BY <1>1, <1>5, <1>6, <1>10 DEF DataInv, WhereInv
<1> QED BY <1>4, <1>5, <1>12, <1>14, <1>15 DEF DataInv

\* The offset passes the line.
LEMMA DataAfterAdvance ==
  ASSUME Ready, LockInv, DataInv, NEW p \in Proc, AdvanceOffset(p)
  PROVE  DataInv'
<1>0. Opened /\ FilledInv
  BY DEF Ready
<1> DEFINE r == proc[p].hand
           n == LineOf(p)
           o == file.offset
<1>1. /\ /\ p \in Cons /\ proc[p].pc = "advance" /\ Moves(p, "fpost")
      /\ proc'[p].hand = EMPTY
      /\ file'.cell = file.cell /\ file'.offset = o + n
      /\ UNCHANGED <<seg, added, lost>>
  BY <1>0, AdvanceEffect
<1>2. /\ n \in Nat /\ FILE_SIZE \in Nat /\ o \in Nat /\ 1 <= n /\ r # EMPTY
  BY <1>0, <1>1, LineLength, Objects DEF HandC, FilledInv
<1>3. /\ 1 + o + n < FILE_SIZE
      /\ \A u \in o + 1 .. o + 1 + n - 1 : file.cell[u] = r
  BY <1>1 DEF DataInv, PlaceInv, LineOf
<1>3a. \A u \in o + 1 .. o + n : file.cell[u] = r
  BY <1>2, <1>3
<1>4. HandInv'
  BY <1>1, HandChanged DEF DataInv
<1>5. ArrayInv' /\ LiveRecords' = LiveRecords
  BY <1>1, LiveKept, NoneIsNobody DEF DataInv
<1>6. Held' = Held \ {r} /\ r \in Held
  BY <1>1, <1>2, HeldLess DEF DataInv
<1>7. \A c \in Cons : proc'[c].pc \notin {"memcpy", "advance"}
  BY <1>1, AloneInFile, NoneIsNobody DEF InFile, Moves
<1>8. r \notin Written
  BY <1>6 DEF DataInv, WhereInv
<1>9. \A u \in Unit : u <= o + n <=> u <= o \/ u \in o + 1 .. o + n
  BY <1>2 DEF Unit
<1>10. o + 1 \in Unit /\ o + 1 .. o + n \subseteq Unit
  BY <1>2, <1>3 DEF Unit
<1>11. Written' = Written \cup {r}
  <2>1. ASSUME NEW x \in Written' PROVE x \in Written \cup {r}
    <3>1. PICK u \in Unit : u <= o + n /\ x = file.cell[u] /\ x # EMPTY
      BY <1>1, <2>1 DEF Written
    <3> QED BY <1>3a, <1>9, <3>1 DEF Written
  <2>2. ASSUME NEW x \in Written PROVE x \in Written'
    <3>1. PICK u \in Unit : u <= o /\ x = file.cell[u] /\ x # EMPTY
      BY <2>2 DEF Written
    <3>2. u <= o + n
      BY <1>9, <3>1
    <3> QED BY <1>1, <3>1, <3>2 DEF Written
  <2>3. r \in Written'
    <3>1. file.cell[o + 1] = r /\ o + 1 <= o + n
      BY <1>2, <1>3a
    <3> QED BY <1>1, <1>2, <1>10, <3>1 DEF Written
  <2> QED BY <2>1, <2>2, <2>3
<1>12. FileOfWholeLines'
  <2> SUFFICES ASSUME NEW x \in Written'
               PROVE  \E first \in Unit :
                         /\ first + Len[x] - 1 <= o + n
                         /\ \A u \in 1 .. o + n :
                               file.cell[u] = x <=> u \in first .. first + Len[x] - 1
    BY <1>1 DEF FileOfWholeLines
  <2>1. CASE x = r
    <3>1. Len[x] = n
      BY <2>1 DEF LineOf
    <3>2. ASSUME NEW u \in 1 .. o + n
          PROVE  file.cell[u] = r <=> u \in o + 1 .. o + 1 + n - 1
      <4>1. CASE u <= o
        <5>1. u \in Unit
          BY <1>2, <1>3, <4>1 DEF Unit
        <5>2. file.cell[u] # r
          BY <1>2, <1>8, <4>1, <5>1 DEF Written
        <5> QED BY <1>2, <4>1, <5>2
      <4>2. CASE ~(u <= o)
        <5>1. u \in o + 1 .. o + n
          BY <1>2, <4>2
        <5> QED BY <1>2, <1>3a, <5>1
      <4> QED BY <4>1, <4>2
    <3>3. o + 1 + n - 1 <= o + n
      BY <1>2
    <3> HIDE DEF r, n, o
    <3> QED BY <1>10, <2>1, <3>1, <3>2, <3>3
  <2>2. CASE x # r
    <3>1. x \in Written
      BY <1>11, <2>2
    <3>2. PICK first \in Unit :
              /\ first + Len[x] - 1 <= o
              /\ \A u \in 1 .. o : file.cell[u] = x <=> u \in first .. first + Len[x] - 1
      BY <3>1 DEF DataInv, FileOfWholeLines
    <3>3. Len[x] \in Int
      <4>1. x \in 1 .. added
        BY <3>1 DEF DataInv, WhereInv
      <4>2. added \in 0 .. MAX_ADDS /\ MAX_ADDS \in Nat
        BY <1>0, RecordsAssumption DEF Opened, TypeInv, AnyRecord
      <4>3. x \in 1 .. MAX_ADDS
        BY <4>1, <4>2
      <4> QED BY <4>3, LenAssumption
    <3>4. first \in Int
      BY <1>2 DEF Unit
    <3>5. first + Len[x] - 1 <= o + n
      BY <1>2, <3>2, <3>3, <3>4
    <3>6. ASSUME NEW u \in 1 .. o + n
          PROVE  file.cell[u] = x <=> u \in first .. first + Len[x] - 1
      <4>1. CASE u <= o
        <5>1. u \in 1 .. o
          BY <1>2, <4>1
        <5> QED BY <3>2, <5>1
      <4>2. CASE ~(u <= o)
        <5>1. u \in o + 1 .. o + n
          BY <1>2, <4>2
        <5>2. file.cell[u] # x
          BY <1>3a, <2>2, <5>1
        <5>3. u \notin first .. first + Len[x] - 1
          BY <1>2, <3>2, <3>3, <3>4, <4>2
        <5> QED BY <5>2, <5>3
      <4> QED BY <4>1, <4>2
    <3> QED BY <3>5, <3>6
  <2> QED BY <2>1, <2>2
<1>13. PlaceInv'
  <2>1. o + n + 1 < FILE_SIZE
    BY <1>2, <1>3
  <2> QED BY <1>1, <1>7, <2>1 DEF PlaceInv
<1>14. WhereInv'
  BY <1>1, <1>5, <1>6, <1>11 DEF DataInv, WhereInv
<1> QED BY <1>4, <1>5, <1>12, <1>13, <1>14 DEF DataInv

\* A step that changes none of it.
LEMMA DataStutter ==
  ASSUME DataInv, UNCHANGED <<proc, seg, file, added, lost>>
  PROVE  DataInv'
<1>d. HandInv /\ ArrayInv /\ WhereInv /\ PlaceInv /\ FileOfWholeLines
  BY DEF DataInv
<1>1. \A s \in Prod : Live(s)' = Live(s)
  BY DEF Live, Hole, At
<1>2. LiveRecords' = LiveRecords /\ Held' = Held /\ Written' = Written
  BY <1>1 DEF LiveRecords, Held, Written
<1>3. ArrayInv'
  BY <1>d, <1>1 DEF ArrayInv
<1>4. HandInv'
  BY <1>d DEF HandInv
<1>5. WhereInv'
  BY <1>d, <1>2 DEF WhereInv
<1>6. PlaceInv'
  BY <1>d DEF PlaceInv
<1>7. FileOfWholeLines'
  BY <1>d, <1>2 DEF FileOfWholeLines
<1> QED BY <1>3, <1>4, <1>5, <1>6, <1>7 DEF DataInv

\* Every step keeps the records where they are.
LEMMA DataStep ==
  ASSUME MortalProducers, EachOnce, Ready, LockInv, DataInv, [Next]_vars
  PROVE  DataInv'
<1>0. Opened /\ CountInv /\ FilledInv /\ OpenInv /\ TypeInv
  BY DEF Ready, Opened
<1>d. HandInv /\ ArrayInv /\ WhereInv /\ PlaceInv /\ FileOfWholeLines
  BY DEF DataInv
<1>1. CASE UNCHANGED vars
  BY <1>1, DataStutter DEF vars
<1>2. SUFFICES ASSUME NEW p \in Proc,
                      Produce(p) \/ Consume(p) \/ signal_handler(p) \/ Kill(p)
               PROVE  DataInv'
  BY <1>1 DEF Next
<1>3. CASE ForgetSemaphore(p) \/ cleanup_shared_memory(p) \/ cleanup_semaphore(p)
           \/ cleanup_semaphore_file(p)
  <2>1. /\ SameHand(p) /\ UNCHANGED <<seg, file, added, lost>>
        /\ proc[p].pc \in {"start", "cleanup", "sem_unlink"}
        /\ \E l \in {"sem_open", "sem_unlink", "done"} : Moves(p, l)
    BY <1>0, <1>3, UnlinkEffect DEF Only, ShmUnchanged
  <2> QED BY <2>1, DataQuiet DEF HandP, HandC
<1>4. CASE init_semaphore(p) \/ OpenSegment(p)
  <2>1. /\ p \in Prod /\ SameHand(p) /\ UNCHANGED <<seg, file, added, lost>>
        /\ proc[p].pc \in {"sem_open", "shm_open"}
        /\ \E l \in {"shm_open", "ftruncate"} : Moves(p, l)
    BY <1>0, <1>4, CreateEffect, OpenSegmentEffect DEF ShmUnchanged
  <2> QED BY <2>1, DataQuiet, NoneIsNobody DEF HandP
<1>6. CASE SizeSegment(p) \/ ResetItems(p) \/ ClearArray(p)
  <2>1. /\ p \in Prod /\ SameHand(p) /\ UNCHANGED <<file, added>>
        /\ proc[p].pc \in {"ftruncate", "init", "clear"}
        /\ seg'[p].items \in {seg[p].items, 0}
        /\ lost' \in {lost, lost \cup Contents(seg[p])}
        /\ \E l \in {"init", "clear", "loop"} : Moves(p, l)
    BY <1>0, <1>6, InitSegmentEffect DEF Only
  <2>2. \A s \in Prod : seg[s].items = 0 /\ seg'[s].items = 0
    BY <1>0, <2>1 DEF CountInv, SetUp, EachOnce
  <2>3. Contents(seg[p]) = {}
    BY <2>1, <2>2 DEF Contents, Index
  <2>4. ArrayInv' /\ LiveRecords' = {}
    <3>1. \A s \in Prod : Live(s)' = {}
      BY <2>2 DEF Live, Index
    <3> QED BY <3>1 DEF ArrayInv, LiveRecords
  <2>5. LiveRecords = {}
    BY <2>2, LiveNone
  <2> QED BY <2>1, <2>3, <2>4, <2>5, DataKept, NoneIsNobody DEF HandP
<1>7. CASE generate_record(p)
  <2>1. /\ p \in Prod /\ proc[p].pc = "loop" /\ Moves(p, "wait")
        /\ added' = added + 1
        /\ proc'[p].hand = added + 1 /\ UNCHANGED <<seg, file, lost>>
        /\ added \in Nat
    BY <1>0, <1>7, GenerateEffect, RecordsAssumption DEF TypeInv, AnyRecord
  <2>2. proc[p].hand = EMPTY /\ proc'[p].hand # EMPTY
    BY <1>d, <2>1 DEF HandInv, HandP, EMPTY
  <2>3. Held' = Held \cup {added + 1}
    BY <2>1, <2>2, HeldMore
  <2>4. /\ 1 .. added + 1 = (1 .. added) \cup {added + 1}
        /\ added + 1 \notin 1 .. added
    BY <2>1
  <2>5. added + 1 \notin LiveRecords \cup Held \cup Written \cup lost
    BY <1>d, <2>4 DEF WhereInv
  <2>6. ArrayInv' /\ LiveRecords' = LiveRecords
    BY <1>d, <2>1, LiveKept, NoneIsNobody
  <2>7. Written' = Written
    BY <2>1, WrittenSame
  <2>8. HandInv'
    BY <1>d, <2>1, <2>5, HandChanged, NoneIsNobody DEF HandP
  <2>9. WhereInv'
    BY <1>d, <2>1, <2>3, <2>4, <2>5, <2>6, <2>7 DEF WhereInv
  <2>10. PlaceInv' /\ FileOfWholeLines'
    BY <1>d, <2>1, PlaceKept, LinesKept, NoneIsNobody
  <2> QED BY <2>6, <2>8, <2>9, <2>10 DEF DataInv
<1>8. CASE \/ AcquireArray(p) \/ AcquireToRemove(p) \/ ReleaseArray(p)
           \/ ReleaseRemoved(p)
  <2>1. /\ SameHand(p) /\ UNCHANGED <<seg, file, added, lost>>
        /\ \/ p \in Prod /\ proc[p].pc = "wait" /\ Moves(p, "add")
           \/ p \in Cons /\ proc[p].pc = "wait" /\ Moves(p, "pick")
           \/ p \in Prod /\ proc[p].pc = "post" /\ Moves(p, "loop")
           \/ p \in Cons /\ proc[p].pc = "post" /\ Moves(p, "fwait")
    BY <1>0, <1>8, AcquireArrayEffect, ReleaseArrayEffect DEF Only, ShmUnchanged
  <2> QED BY <2>1, DataQuiet, NoneIsNobody DEF HandP, HandC
<1>9. CASE CopyRecord(p)
  <2>1. p \in Prod /\ seg[p].items \in 0 .. MAX_RECORD
    BY <1>0, <1>9 DEF CopyRecord, CountInv
  <2>2. /\ Moves(p, "count") /\ SameHand(p) /\ UNCHANGED <<file, added>>
    BY <1>0, <1>9, <2>1, CopyEffect DEF Only
  <2>3. HandInv'
    BY <1>d, <2>1, <2>2, HandKept, NoneIsNobody DEF HandP
  <2>4. PlaceInv' /\ FileOfWholeLines'
    BY <1>d, <2>1, <2>2, PlaceKept, LinesKept, NoneIsNobody
  <2>5. Held' = Held /\ Written' = Written
    BY <2>2, HeldSame, WrittenSame
  <2>6. LiveRecords \cap lost = {}
    BY <1>d DEF WhereInv
  <2>7. /\ ArrayInv' /\ LiveRecords' \cup lost' = LiveRecords \cup lost
        /\ LiveRecords' \subseteq LiveRecords
        /\ LiveRecords' \cap lost' = {}
        /\ lost' \subseteq lost \cup LiveRecords
    BY <1>d, <1>9, <2>6, LiveAfterCopy
  <2>8. WhereInv'
    BY <1>d, <2>2, <2>5, <2>7 DEF WhereInv
  <2> QED BY <2>3, <2>4, <2>7, <2>8 DEF DataInv
<1>10. CASE CountRecord(p)
  <2>1. /\ p \in Prod /\ proc[p].pc = "count" /\ Moves(p, "post")
        /\ proc'[p].hand = EMPTY
        /\ UNCHANGED <<file, added, lost>>
    BY <1>0, <1>10, CountEffect
  <2>2. proc[p].hand # EMPTY
    BY <1>0, <2>1 DEF FilledInv, HandP
  <2>3. Held' = Held \ {proc[p].hand} /\ proc[p].hand \in Held
    BY <1>d, <2>1, <2>2, HeldLess
  <2>4. proc[p].hand \notin LiveRecords
    BY <1>d, <2>3 DEF WhereInv
  <2>5. ArrayInv' /\ LiveRecords' = LiveRecords \cup {proc[p].hand}
    BY <1>d, <1>10, <2>4, LiveAfterCount
  <2>6. HandInv'
    BY <1>d, <2>1, HandChanged
  <2>7. PlaceInv' /\ FileOfWholeLines' /\ Written' = Written
    BY <1>d, <2>1, PlaceKept, LinesKept, WrittenSame, NoneIsNobody
  <2>8. WhereInv'
    BY <1>d, <2>1, <2>3, <2>5, <2>7 DEF WhereInv
  <2> QED BY <2>5, <2>6, <2>7, <2>8 DEF DataInv
<1>12. CASE StopProducing(p) \/ ConsumeOn(p) \/ Kill(p)
  <2>1. /\ SameHand(p) /\ UNCHANGED <<seg, file, added, lost>>
        /\ \/ proc[p].pc = "loop" /\ \E l \in {"cleanup", "wait"} : Moves(p, l)
           \/ p \in Prod /\ Moves(p, "killed")
    BY <1>0, <1>12, ControlEffect DEF Only, ShmUnchanged, MortalProducers
  <2> QED BY <2>1, DataQuiet, NoneIsNobody DEF HandP, HandC
<1>13. CASE signal_handler(p)
  <2>1. UNCHANGED <<proc, seg, file, added, lost>>
    BY <1>0, <1>13, HandlerEffect DEF ShmUnchanged
  <2> QED BY <2>1, DataStutter
<1>14. CASE \/ init_semaphore_shared_memory(p) \/ init_semaphore_file(p)
            \/ CreateFileSemaphore(p) \/ ReopenFileSemaphore(p) \/ init_shared_memory(p)
            \/ AcquireFile(p) \/ ReleaseFile(p)
  <2>1. /\ p \in Cons /\ SameHand(p) /\ UNCHANGED <<seg, file, added, lost>>
        /\ \/ proc[p].pc = "fwait" /\ Moves(p, "place")
           \/ /\ proc[p].pc \in {"start", "file_open", "file_excl", "file_again", "shm_open", "fpost"}
              /\ \E l \in {"file_open", "done", "file_excl", "shm_open", "file_again", "loop"} : Moves(p, l)
    BY <1>0, <1>14, OpenArraySemaphoreEffect, OpenFileSemaphoreEffect,
       CreateFileSemaphoreEffect, ReopenFileSemaphoreEffect, OpenArrayEffect,
       AcquireFileEffect, ReleaseFileEffect DEF ShmUnchanged, Only
  <2> QED BY <2>1, DataQuiet, NoneIsNobody DEF HandC
<1>21. CASE PickRecord(p)
  <2>1. PICK s : s = proc[p].data
    OBVIOUS
  <2>2. /\ p \in Cons /\ proc[p].pc = "pick" /\ s \in Prod /\ SameOpen(p)
        /\ UNCHANGED <<seg, file, added, lost>>
        /\ \/ /\ Moves(p, "shift")
              /\ proc'[p].idx \in Index /\ proc'[p].idx < seg[s].items
              /\ proc'[p].hand = seg[s].array[proc'[p].idx]
           \/ Moves(p, "cleanup") /\ SameHand(p)
           \/ Moves(p, "sigbus") /\ SameHand(p)
    BY <1>0, <1>21, <2>1, PickEffect DEF Only, ShmUnchanged
  <2>3. CASE (Moves(p, "cleanup") \/ Moves(p, "sigbus")) /\ SameHand(p)
    BY <2>2, <2>3, DataQuiet, NoneIsNobody DEF HandC
  <2>4. CASE /\ Moves(p, "shift")
             /\ proc'[p].idx \in Index /\ proc'[p].idx < seg[s].items
             /\ proc'[p].hand = seg[s].array[proc'[p].idx]
    <3>1. PICK i \in Index : i = proc'[p].idx
      BY <2>4
    <3>2. /\ ArrayInv' /\ seg[s].array[i] \in LiveRecords
          /\ LiveRecords' = LiveRecords \ {seg[s].array[i]}
      BY <1>d, <2>1, <2>2, <2>4, <3>1, LiveAfterPick
    <3>3. /\ proc'[p].hand = seg[s].array[i] /\ proc'[p].hand # EMPTY
          /\ proc[p].hand = EMPTY
      BY <1>0, <1>d, <2>2, <2>4, <3>1 DEF FilledInv, HandInv, HandC
    <3>4. Held' = Held \cup {seg[s].array[i]}
      BY <2>4, <3>3, HeldMore
    <3>5. seg[s].array[i] \notin Held
      BY <1>d, <3>2 DEF WhereInv
    <3>6. HandInv'
      BY <1>d, <2>2, <2>4, <3>3, <3>5, HandChanged, NoneIsNobody DEF HandC
    <3>7. PlaceInv' /\ FileOfWholeLines' /\ Written' = Written
      BY <1>d, <2>2, <2>4, PlaceKept, LinesKept, WrittenSame
    <3>8. WhereInv'
      BY <1>d, <2>2, <3>2, <3>4, <3>7 DEF WhereInv
    <3> QED BY <3>2, <3>6, <3>7, <3>8 DEF DataInv
  <2> QED BY <2>2, <2>3, <2>4
<1>22. CASE Shift(p)
  <2>1. /\ p \in Cons /\ proc[p].pc = "shift" /\ SameHand(p)
        /\ UNCHANGED <<file, added, lost>>
        /\ \E l \in {"shift", "post"} : Moves(p, l)
    BY <1>0, <1>22, ShiftEffect
  <2>2. ArrayInv' /\ LiveRecords' = LiveRecords
    BY <1>d, <1>22, LiveAfterShift
  <2> QED BY <2>1, <2>2, DataKept, NoneIsNobody DEF HandC
<1>23. CASE FindPlace(p)
  BY <1>23, DataAfterPlace
<1>24. CASE WriteLine(p)
  BY <1>24, DataAfterWrite
<1>25. CASE AdvanceOffset(p)
  BY <1>25, DataAfterAdvance
<1> QED BY <1>2, <1>3, <1>4, <1>6, <1>7, <1>8, <1>9, <1>10, <1>12, <1>13, <1>14,
           <1>21, <1>22, <1>23, <1>24, <1>25 DEF Produce, Consume

\* At the start there are none.
LEMMA DataInit ==
  ASSUME Init
  PROVE  DataInv
<1>1. \A p \in Proc : proc[p].pc = "start" /\ proc[p].hand = EMPTY
  BY DEF Init
<1>2. \A s \in Prod : seg[s].items = 0
  BY DEF Init, NewSegment
<1>3. /\ added = 0 /\ lost = {} /\ file.offset = 0
      /\ \A u \in Unit : file.cell[u] = EMPTY
  BY DEF Init
<1>4. HandInv
  BY <1>1, NoneIsNobody DEF HandInv
<1>5. ArrayInv /\ LiveRecords = {}
  BY <1>2, LiveNone
<1>6. Held = {} /\ Written = {}
  BY <1>1, <1>3 DEF Held, Written
<1>7. WhereInv
  BY <1>3, <1>5, <1>6 DEF WhereInv
<1>8. PlaceInv
  BY <1>1, <1>3, NoneIsNobody DEF PlaceInv
<1>9. FileOfWholeLines
  BY <1>6 DEF FileOfWholeLines
<1> QED BY <1>4, <1>5, <1>7, <1>8, <1>9 DEF DataInv

-------------------------------------------------------------------------------
(* Every record in one place.                                               *)

\* As many records as the counter says, when the slots hold different ones.
LEMMA CountsRecords ==
  ASSUME NEW n \in Nat, n <= MAX_RECORD, NEW a \in [Index -> AnyRecord],
         \A i, j \in Index : i < n /\ j < n /\ a[i] = a[j] => i = j
  PROVE  Cardinality({a[i] : i \in {j \in Index : j < n}}) = n
<1> DEFINE T == {a[i] : i \in {j \in Index : j < n}}
           f == [i \in 0 .. n - 1 |-> a[i]]
<1>1. {j \in Index : j < n} = 0 .. n - 1
  BY RecordsAssumption DEF Index
<1>2. f \in Bijection(0 .. n - 1, T)
  <2>1. \A i, j \in 0 .. n - 1 : f[i] = f[j] => i = j
    BY <1>1
  <2>2. f \in [0 .. n - 1 -> T] /\ \A t \in T : \E i \in 0 .. n - 1 : f[i] = t
    BY <1>1
  <2> HIDE DEF T, f
  <2>3. f \in Injection(0 .. n - 1, T)
    BY <2>1, <2>2 DEF Injection, IsInjective
  <2>4. f \in Surjection(0 .. n - 1, T)
    BY <2>2 DEF Surjection
  <2> QED BY <2>3, <2>4 DEF Bijection
<1>3. ExistsBijection(0 .. n - 1, T)
  BY <1>2 DEF ExistsBijection
<1>4. IsFiniteSet(0 .. n - 1) /\ Cardinality(0 .. n - 1) = n
  BY FS_Interval
<1> HIDE DEF T
<1>5. Cardinality(T) = n
  BY <1>3, <1>4, FS_Bijection
<1> QED BY <1>5 DEF T

\* From what the steps keep to what is promised of the records.
LEMMA ConservedForReader ==
  ASSUME EachOnce, SectionInv, DataInv
  PROVE  RecordsConserved
<1>0. CountInv /\ FilledInv /\ TypeInv /\ Opened
  BY DEF SectionInv, Opened
<1>d. HandInv /\ ArrayInv /\ WhereInv
  BY DEF DataInv
<1> SUFFICES ASSUME \A p \in Proc : ~InArraySection(p)
             PROVE  /\ Stored \cup Held \cup Written \cup lost = 1 .. added
                    /\ Stored \cap (Held \cup Written \cup lost) = {}
                    /\ Held \cap (Written \cup lost) = {}
                    /\ Written \cap lost = {}
                    /\ \A p, q \in Proc :
                          proc[p].hand = proc[q].hand /\ proc[p].hand # EMPTY => p = q
                    /\ \A s \in Prod : Cardinality(Contents(seg[s])) = seg[s].items
                    /\ \A c \in Cons : proc[c].pc = "done" => proc[c].hand = EMPTY
  BY DEF RecordsConserved
<1>1. \A c \in Cons : proc[c].pc # "shift"
  BY NoneIsNobody DEF InArraySection, InArray
<1>2. \A s \in Prod : Live(s) = {i \in Index : i < seg[s].items}
  BY <1>1, LiveWhole
<1>3. \A s \in Prod : \A i \in Live(s) : seg[s].array[i] # EMPTY
  BY <1>0, <1>2 DEF FilledInv
<1>4. \A s \in Prod : Contents(seg[s]) = {seg[s].array[i] : i \in Live(s)}
  BY <1>2, <1>3 DEF Contents
<1>5. Stored = LiveRecords
  <2>1. {Contents(seg[s]) : s \in Prod}
            = {{seg[s].array[i] : i \in Live(s)} : s \in Prod}
    BY <1>4
  <2> QED BY <2>1 DEF Stored, LiveRecords
<1>6. ASSUME NEW s \in Prod PROVE Cardinality(Contents(seg[s])) = seg[s].items
  <2>1. /\ seg[s].items \in Nat /\ seg[s].items <= MAX_RECORD
        /\ seg[s].array \in [Index -> AnyRecord]
    BY <1>0, Objects, RecordsAssumption DEF CountInv
  <2>2. \A i, j \in Index : i < seg[s].items /\ j < seg[s].items
                            /\ seg[s].array[i] = seg[s].array[j] => i = j
    BY <1>d, <1>2 DEF ArrayInv
  <2>3. Cardinality({seg[s].array[i] : i \in {j \in Index : j < seg[s].items}}) = seg[s].items
    BY <2>1, <2>2, CountsRecords
  <2> QED BY <1>2, <1>4, <2>3
<1>7. \A c \in Cons : proc[c].pc = "done" => proc[c].hand = EMPTY
  BY <1>d DEF HandInv, HandC
<1> QED BY <1>d, <1>5, <1>6, <1>7 DEF WhereInv, HandInv

\* As long as no consumer is killed, the records produced are each in one place
\* when no one works on the array ...
THEOREM EachRecordOnce ==
  ASSUME EachOnce, MortalProducers
  PROVE  Spec => []RecordsConserved
<1> DEFINE Inv == SectionInv /\ DataInv
<1>1. Init => Inv
  BY SectionInit, DataInit
<1>2. Inv /\ [Next]_vars => Inv'
  <2> SUFFICES ASSUME Inv, [Next]_vars PROVE Inv'
    OBVIOUS
  <2>1. Ready /\ LockInv
    BY DEF SectionInv, Ready, Opened
  <2> QED BY <2>1, SectionStep, DataStep
<1>3. Inv => RecordsConserved
  BY ConservedForReader
<1> HIDE DEF Inv
<1> QED BY <1>1, <1>2, <1>3, PTL DEF Spec

\* ... and up to the offset the file is a sequence of whole lines, none twice.
THEOREM WholeLines ==
  ASSUME EachOnce, MortalProducers
  PROVE  Spec => []FileOfWholeLines
<1> DEFINE Inv == SectionInv /\ DataInv
<1>1. Init => Inv
  BY SectionInit, DataInit
<1>2. Inv /\ [Next]_vars => Inv'
  <2> SUFFICES ASSUME Inv, [Next]_vars PROVE Inv'
    OBVIOUS
  <2>1. Ready /\ LockInv
    BY DEF SectionInv, Ready, Opened
  <2> QED BY <2>1, SectionStep, DataStep
<1>3. Inv => FileOfWholeLines
  BY DEF DataInv
<1> HIDE DEF Inv
<1> QED BY <1>1, <1>2, <1>3, PTL DEF Spec
================================================================================
