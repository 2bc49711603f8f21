# Verification of Programmazione-di-Sistema

The repository is a collection of system-programming exercises and past exam
solutions in C (POSIX processes, threads, shared memory, semaphores, signals,
sockets, daemons). There is no single program: every directory under `esami/`,
`esercizi/` and `EserciziEsame svolti_programmazione_sistema/` is a small concurrent
system of its own. This directory holds TLA+ models of the ones in which processes,
threads or messages interact in ways a test seldom reaches, the TLC runs that check
them on small instances, and TLAPS proofs for every instance.

Paths below are relative to the root of the repository. `PROJECT.json` gives, for every
definition that models code, the lines it stands for; for every property, the variation
of the code that breaks it; and the list of hazards, each at the line where it bites.

## Inventory

State and operations of each component, and what is hard about it. "M" marks what is
modelled, "P" what the plan has still to do, "-" what is left out (reasons at the end).

| | Component | State | Operations and interactions | Hard behaviour |
|---|---|---|---|---|
| M | `esami/linked_list_memoria_condivisa` | a pool of nodes, the head, a count and a semaphore in shared memory | insert (one or many), pop, count, print, memory dump, from several processes | interleaving of instances, a pool that fills up, Ctrl-C at any point, sentinel values |
| P | the same, set-up and removal of the segment | the name, size and contents of the segment | `shm_open`, `ftruncate`, `mmap`, `sem_init`, `sem_destroy`, `shm_unlink` | two first instances, attaching to a half-made segment, leaving while others work |
| M | `esami/MEMORIA_CONDIVISA/SNP77` | shared array of records, shared file, two named semaphores | producer adds and trims, two consumers move a record at a time into the file | a lock kept on an early return, names unlinked while in use, who creates what first |
| M | `esami/SNP58_scanner_directory` | circular buffer with two condition variables, table of inodes seen | scanner thread walks a tree, counter thread adds up sizes | waiting and signalling, end of the scan, tables at their limit, hard links |
| M | `esami/SNP60/process1.c` | buffer and turn under two semaphores | three workers take turns writing, until the buffer is full or Ctrl-C | who hands the turn on when somebody stops; everybody waiting on everybody |
| P | `esami/SNP60/seconda_soluzione` | the same with a shutdown flag | clients of a server that is not in the repository | a client that leaves with the turn |
| M | `esami/Benchmark_altri/SNP63/directorydaemon.c` | PID file and its `flock` | start, check for a running instance, lock, monitor, stop | several daemons starting and stopping, a file unlinked while others hold it open |
| M | `esami/TCP_UDP/SNP67` | a variable, its changed flag, a condition variable; a TCP connection | a thread changes A, a thread sends it and waits for the echo, Ctrl-C stops both | lost wake-ups, a peer that closes, a signal between the test and the wait |
| P | `esami/SNP67_servertcp_thread` | a variable, changed flag, a TCP byte stream | as above, without echo; lines on a stream without framing | messages joined by TCP, changes lost or sent twice |
| M | `esami/server_deamon_path` | listening socket, one child per client, list of paths | daemon, fork per client, framed requests and answers, recursive search | SIGTERM during accept, framing of empty answers, partial failure of the search |
| M | `esami/TCP_UDP/SNP08` | one select loop over ten ports, a table of clients, `max_fd` | accept, echo, disconnect, statistics, signals | descriptors reused under a table that only grows, one thread that must wait for nobody, a handler that logs |
| M | `esami/SNP65_thread benchmark` | running flags, counts, a condition variable | start and stop workers, add a batch at a time | a broadcast outside the mutex, counts read before they are complete, a worker that comes too late |
| P | `esami/SNP66_memoria_condivisa` (two solutions) and `esami/MEMORIA_CONDIVISA/SNP66` | shared file of records, count, finished counter, named semaphore | two processes write, the last one cleans up | who is last, the semaphore unlinked at start, a counter never initialised |
| M | `esercizi/memoria_condivisa_segnali` | text, position and two PIDs in shared memory | two processes alternate by SIGUSR1 and SIGUSR2 | a signal before its mask, two that merge, a peer that has gone, a segment of an earlier run |
| M | `esami/SNP63/directory_daemon.c` | lists of files, PID file | periodic comparison, reports of new, changed, deleted files | files that change while they are listed, a PID file that stays behind, signals before their handlers |
| P | `esami/SNP57`, `esami/TCP_UDP/SNP57_udp_select_multicast` | totals, log of messages with times | UDP feedback, one- and five-minute windows | the log at its limit, lost and delayed datagrams |
| P | `esami/SNP59` | a shared segment with a ready flag, a pipe, a socket pair | parent and child time 1 KiB to 100 MiB transfers | busy waiting on a flag, partial writes |
| P | `esami/SNP23` | a vector in shared memory of threads | one thread per client appends numbers | index one past the count, the last slot |
| P | `esami/SNP61` | a growing list of paths | one UDP request, a stream of datagrams ended by `end` | lost datagrams, a stream that never ends |
| P | `EserciziEsame svolti_programmazione_sistema/.../Esame52`, `Esame50` | SysV semaphore and queue; locked file | four processes share one queue; three share one file | a semaphore reset while held, a lock that is only tried |
| P | `esercizi/server_tcp_thread`, `esercizi/daeamon` | table of clients, `select` set | accept, echo, disconnect | a full table, slots of closed clients |
| - | `esami/SNP56`, `esami/SNP64` | timings | run a command or a loop and print averages | nothing concurrent |
| - | `esami/SNP69 DNS` | last answer under a mutex | query a time server, print | network I/O only |
| - | remaining `EserciziEsame svolti_*`, `esercizi/*/esercizi_per_la_compren*`, `c_basic`, `librerie/TCP` | - | one-page drills of a system call each | sequential |
| - | `Programmazione di Sistema/SNP2024`, `argomenti`, `Traccie Esami` | - | vendored course material, notes, exam texts | not the repository's own program |

What makes a component correct, in one line each:

- list: whatever the instances do, and wherever one dies, the pool holds one acyclic list
  of the occupied nodes and the users see an atomic bounded stack;
- SNP77: every record written is trimmed by the producer or moved into the file exactly
  once, the array and the file each change under one lock at a time, nobody is blocked for good;
- SNP58: every entry of the tree crosses the buffer once, in order; the total counts every
  file once; both threads end;
- SNP60: bytes are written in strict rotation, and everybody ends once writing stops;
- SNP63 daemon: at most one daemon monitors, the lock file names it, changes are reported;
- SNP67: the value that stays is passed on, an overwritten one gives way to a later one, and Ctrl-C ends client and server;
- set-up of the list: everybody works on the same initialised segment, or none does;
- server_deamon_path: every request gets the answer to that request, the daemon stops when
  told to, no child is left a zombie;
- SNP08: the table is the open connections, every message is read, no client makes the thread wait in accept or recv;
- SNP65: no multiplication is lost, what is printed is short by a batch a worker at most;
- SNP66: the last to finish, and only that one, removes the shared objects;
- signals ping-pong: there is one permission to write, and the text alternates;
- SNP63 directory daemon: one daemon watches, what it calls deleted was gone or out of reach, a change is noticed;

## The models

Every module follows the same lines. A process or thread has a program counter (`pc`, or a
field of its record) whose values are the points where it can be interrupted with effect:
before each write of shared memory, each system call, each test of a flag another party
sets. An action is what the code does between two such points; it carries the name of the
function, or of the step of it. What users, clients, signals and the file system do are
actions without fairness. Definitions commented `Variation:` are plausible mistakes in the
definition below them; no specification uses them, they are there so that one can replace
a definition by its variation and see which property notices.

`MC*.tla` give the constants of each instance their values.

### `SharedList`, `AtomicStack` (`esami/linked_list_memoria_condivisa`)

`nodes`, `head_offset`, `count` and `mutex` are the shared segment; `pc`, `op`, `value`,
`cur`, `seen`, `batch` the locals of each instance of the program. `Choose`, `ChooseMany`,
`NextOfBatch`, `Leave` are the menu; `Acquire` and `Post` the semaphore; `allocate_node`,
`Link`, `IncCount` the insert; `Unlink`, `free_node`, `DecCount` the pop; `list_count`,
`list_print`, `Walk`, `stampa_stato_memoria` the reports. `Kill` is Ctrl-C, for which the
program has no handler. `AtomicStack` is what the operations promise: a bounded stack whose
operations happen at one instant between call and return. `ImplementsStack` says that
`SharedList` implements it, under the mapping that reads the stack off the chain of links.
The segment is taken to be set up: how several first instances can spoil that is in the plan.

### `ProdCons` (`esami/MEMORIA_CONDIVISA/SNP77`)

A semaphore or a segment is an object, known by the process that created it; `name` says
which object each name refers to, and an unlinked object lives on for those who have it
open. `proc` is each run's step, what it has open and what it holds; `file` the mapped file.
`init_semaphore` ... `cleanup_shared_memory` are prod.c, the rest const1.c, whose text is that
of const2.c. Records are numbered, so that a lost or a doubled one can be told.

### `DirScanner`, `Stream` (`esami/SNP58_scanner_directory`)

`nodes`, `write_index`, `read_index`, `count`, `finished` are `SharedBuffer`; the mutex, and
falling asleep, being woken with or without reason and taking the mutex again are separate
steps. The recursion of the scan is `open`: for each open directory the entries `readdir` has
not returned. `Stream` is what the buffer promises, a bounded queue with an end that is
announced once, after the last item; `ImplementsStream` says the ring and the two
condition variables implement it.

### `TurnRotation` (`esami/SNP60/process1.c`)

Parent, workers, the shared buffer cell by cell, the two semaphores taken one inside the
other, and the handler of SIGINT, which reads without a lock, one read at a time: the number
(`PrintCount`, kept in `told`), the bytes (`CopyText`, into the process's `temp_buffer`), the position once
more for the NUL (`EndText`), and then prints (`PrintText`). Between two of these any other process may go on or
enter its own handler. `memcpy` of bytes below the position is one step: no worker writes there. A word is
its length.

### `PathServer` (`esami/server_deamon_path`)

Daemon (`accept`, `Fork`, `signal_handler`, `sigchld_handler`), one child for each connection
(`handle_client`, and the search `get_directories_recursive`, `OpenDirectory`,
`explore_directory_recursive`, `CloseDirectory`), the client in both of its modes, two streams
per connection in which a message is its length and then its text. `mkdir` and `rmdir`
change the tree under the search; `always` and `ever`, which no action reads, remember what
existed during it. `Hidden` are the directories `stat` may fail to examine though they are there: `is_directory`
may then say no of them, at any time. `Locked` are those that can be examined but not opened. An answer without
a directory has no bytes, and `receive_message` refuses its length.

### `FileMonitor` (`esami/Benchmark_altri/SNP63/directorydaemon.c`)

A PID file is an inode, known by the run that created it; `name` is the inode that PIDFILE
refers to, `locked` the run whose `flock` it carries. `Scan`, `is_already_running`, `OpenPidFile`, `flock`,
`Truncate`, `WritePid` are the start, `BeginCheck` ... `EndCheck` the periodic check,
`CloseLockFile` and `remove_lockfile` the end - also that of a run that was refused the lock.
Of a file the code sees a `stamp`, the second of its last change and its size; `rev`, which no action of the
daemon reads, counts what was written to it. `Write` changes the contents and may leave the stamp as it was;
`Move` lets the file go and come back. The comparison and the second `stat`, which remembers the file, are two steps
(`check_file_modified`, `Update`).

### `EnvVar` (`esami/TCP_UDP/SNP67`)

The threads that change A, the thread that sends it, the handler of SIGINT on the main
thread, and the server. The test and the wait are two steps, since the handler does not take
the mutex. `toServer` holds the values sent, of which a `recv` returns one or several; of
the server's messages, the greeting among them, only the number matters. How a
connection ends is part of the model: in order (`fin`), with something unread (`reset`), or by
the server (`down`), since the code has a branch for each.

### `PingPong`, `Alternation` (`esercizi/memoria_condivisa_segnali`)

The set-up of both programs step by step (`a_shm_open` ... `create_threads`), each with a writer
(`await_permission`, `write_char`, `advance`, `reset`, `pass`, `next_round`) and a signal thread
(`sigwait`, `permit`). `pending` is what POSIX keeps of the signals sent to a process: a set, so that two of
a kind merge; a signal to a process that has not blocked it yet kills. The segment may be
that of an earlier run, with its position and its PIDs. `Alternation` is the promise: a text to which
A and B add a character by turns. `TextByTurns` says the two programs implement it, with the
text read off the buffer below the position.

### `MultiPort` (`esami/TCP_UDP/SNP08`)

`io_multiplexing_thread` is `while` (builds the set), `select`, the ports (`accept`, `enter`, `welcome`) and then the
table (`scan`, `recv`, `reply`); `main_thread` prints statistics, joins and cleans up. A descriptor is the lowest
number that is free, so that entries of the table, which only grows, may share one with a later client.
A client's connection is `open`, `fin` or `rst` as the server can tell; `connessione_server`
... `close_client` are client.c. The handler may run inside either thread at any point:
it logs, and where the thread it interrupts is itself logging it `hung`s.

### `DirectoryDaemon` (`esami/SNP63/directory_daemon.c`)

A run collects the files (`OpenRoot`, then `collect_all_files_recursive` an entry at a time, `OpenSub` for a directory),
becomes a daemon, creates the PID file exclusively, writes it, installs handlers and `atexit`, and then
alternates `daemon_main_loop` and `compare`. `ChangeFile` and `ChangeDirectory` happen at any time, also
between two entries. A directory's `mode` says whether it may be read (`opendir`) and searched (`stat` of an
entry); a directory that is moved away has neither. `missed` remembers the files that were gone at some
moment since their directory was to be opened, `unreached` those that could not be opened or examined at some moment of
the collection; from `missed` the program takes only that an entry that came or went while
its directory is read may have been examined when it was not there. A signal is handled only once its handler is there.

### `ThreadBench` (`esami/SNP65_thread benchmark`)

main creates the measuring thread and the workers of two scenarios; the measuring thread
resets, broadcasts, stops and prints. The addition to a count is a read and a write, the mutex and the
wait are those of POSIX, with spurious wake-ups. `done` counts the multiplications made.

## The runs

| run | instance | what it shows |
|---|---|---|
| `list` | two instances of the program, either killed anywhere, two nodes, values -1 and 1 | the list is well formed in every state, behaves as an atomic stack, the lock comes back |
| `prodcons` | a producer that may be killed, two consumers, three records of one and two units, array of two, file of three units | array and file are worked on by one process at a time, a lock is left behind only over an empty array, each record is in one place, the file holds whole lines |
| `scan` | six entries with a hard link, an unreadable directory and a vanished entry; a ring of two; a table of four | the ring is a stream, nothing is left out, each file counts once, both threads end |
| `turn` | two workers, a buffer of eight, words of one and two letters, Ctrl-C at any point | the position stays in the buffer; words are written whole, in rotation, and counted; what each handler copies is such words, and not fewer than the number it printed; the turn goes round |
| `turn_full` | three workers, a buffer of four, no Ctrl-C | **violated:** `FullBufferEnds` |
| `paths` | an interactive client of two requests and one of a single one, five directories of which one may not be opened and one not be examined, one change | answers belong to requests and are complete but for what cannot be examined, nobody waits for ever, no zombies |
| `filemon` | two runs, either killed anywhere, one file written twice, which goes and comes, two stamps | a daemon that monitors has locked a file with its own PID in it; what differs, from the launch or from what is remembered, is reported |
| `env` | two changing threads, two values | no change is lost between value and flag, the value that stays is sent, a server told of the end ends |
| `pingpong` | the five rounds and twenty bytes of the programs, with and without a segment of an earlier run, either process stopped anywhere | one permission, sent to the partner only; the text alternates and is complete; both end unless the user stops one |
| `multiport` | two clients at a time on two ports, a table of two, a message each, a signal at any time | the table is the open connections, `accept` and `recv` are called only where they return at once, messages are read, a signal ends the server |
| `directory` | two runs, either killed anywhere, one with a relative path, two files one of which is in a directory inside, two changes of files or permissions | one daemon watches, only what was gone or out of reach is called deleted, what changes, stays and is within reach is noticed, a daemon told to stop frees the name |
| `bench` | one worker, then three; batches of two, at most seven multiplications | no multiplication lost, the number printed is short by a batch a worker at most, no lost wake-up, the program ends |

### Why the bounds are enough

- `list`: a pool of two is exhausted, emptied and refilled in either order; a list of two has
  an inner link. Batches of two meet a full pool in their middle. The proofs below cover every size.
- `prodcons`: three records against an array of two and a file of three units reach the full
  array, its reset, a line that ends at the end of the file, and the file starting over.
  **The two consumers are started once**, as the exercise asks (`prod`, `const1`, `const2`); this
  is not without loss. Each consumer that ends unlinks the semaphore of the file, so that a
  third one makes another and two may write at once; and a producer started again after a
  crash makes a new semaphore for a segment in use. Giving `Cons` three members, or `Prod`
  two, makes TLC find both.
- `scan`: six entries go three times round a ring of two. The table never overflows; beyond
  it `TotalExact` says nothing (the code then counts a file as often as it meets it).
- `turn`: eight cells hold two rounds of two workers; with words of both lengths the buffer fills up at
  each of the possible distances from its end, and a worker has words to write between any two reads of
  another's or the parent's handler. Handlers do not disturb each other, so two workers make every interference there is;
  that the order of more than two is kept is the theorem, for every number and size.
- `paths`: two clients are enough for children that end together and for a full backlog of
  one; the second request of a connection is where request and answer could get out of step. The
  two trees have a directory below the one that cannot be examined, and one below the one that cannot be opened.
- `filemon`: with two writes, one is found and the other may fall between the two looks at the file, or take the
  first one back. Two runs hold, are refused and clean up at the same time. A third is what makes two
  monitors (one that monitors, one that is refused and removes the name, one that starts); that
  it finds the PIDs right is the theorem, for any number of runs.
- `env`: `toServer` and `replies` are bounded by the protocol, not by the model: that neither
  exceeds two is proved (`NeverFarApart`).
- `pingpong`: the constants are those of the programs.
- `multiport`: two clients and two entries let a descriptor be reused while another is in use, and
  let the table fill up with entries that are out; connections may be refused for ever then, as in
  the code (`MAX_CLIENTS` bounds all connections of the server's life). `Messages` is one: what is
  unread is only ever compared with zero. The table is proved for every size.
- `directory`: a change and its undoing (`MAX_CHANGES` is two), with two times and one size: a file or a
  permission that goes and comes back between, before or during two readings. Changes within a second that
  keep the size are invisible to the code and to the model alike: here, other than in `FileMonitor`, nothing in the
  model tells them from none, and `ChangeReported` says nothing of them.
- `bench`: three workers hold different parts of a batch; seven multiplications are three batches
  and an unfinished one. `MAX_OPS` also stands for the end of the measuring time: the loop cannot go
  on for ever, which in the code the measuring thread's sleep sees to.

Deadlock is not checked: in all of these systems users end their programs, and a state in
which all have ended is a proper one. That nobody hangs is what the liveness properties say.

### Fairness

Processes and threads that are able to go on do so (`WF` on each one's next step). Strong
fairness is assumed only for taking a lock that is given back again and again: a semaphore in
`SharedList`, `ProdCons` and `TurnRotation` (a worker out of turn calls `usleep` between two
tries, and the kernel's semaphores wake a waiter at every post), the mutex in `DirScanner`,
where the other thread falls asleep or does I/O between two uses. Starting a program,
typing, Ctrl-C, killing, changing files and spurious wake-ups are never fair: a system in
which none of them happens is a behaviour too.

`PrintedInTurn` relies on stores becoming visible to the handler in the order of the code,
which holds on x86; the C standard promises less.

`bench` starts no worker by force: one that is first scheduled when its scenario is over is
the case `Late` of `RunsToTheEnd`, and `hung` is that of a handler inside the log in `StopsOnSignal`.

### Where the code falls short

`turn_full` shows that what the repository says of a program is not so: the worker that finds the buffer full ends
and keeps the turn; the others look for theirs for ever and the parent never prints the result.
`PROJECT.json` quotes the lines.

Six more expectations are written down in the modules, marked "Not so", each beside the property that states what does hold.
No run repeats them; TLC refutes each within a minute when it takes the place of the properties in the
configuration of its module.

- `PrintsOnlyCopied` (`TurnRotation`, an invariant): the handler of Ctrl-C reads the position a second time
  (process1.c:91) for the NUL that is to make its copy a string ("Assicuriamoci che sia null-terminated", :88). A worker that has moved it
  in between puts the NUL past the bytes copied, and what was on the stack there is printed. The number
  printed may also be less than the words that follow it. `PrintedInTurn` says what is right: the bytes that are copied,
  and the number as a lower bound.
- `EverythingListed` (`PathServer`, an invariant): the server "restituisce tutte le directory contenute ricorsivamente"
  (server.c:6-7), but `is_directory` takes every failure of `stat` for "no directory" (:258), so that one that is there and
  cannot be examined is missing, with all that is in it, from a listing sent as no error. `ListingComplete` says that nothing else is.
- `EmptyAnswerShown` (`PathServer`, a property): client.c has a text for an empty answer ("Nessuna directory trovata",
  :413-414, and :474-475 for the single query). A directory without subdirectories is answered by a text of no bytes, whose length
  `receive_message` refuses (:149), and the client ends: neither text is ever shown, and what the user would have
  asked next is lost. `AnswerComes` names the case (`EmptyCame`) and promises an answer in all others.
- `WrittenReported` (`FileMonitor`, a property): the user is to be told when a file "è stato modificato rispetto al momento del
  suo lancio" (directorydaemon.c:4-5). What is compared is a whole second and a size (:79-80); a file written so that neither
  shows is never reported. `ChangeReported` speaks of what can be seen. `DirectoryDaemon` compares in the same way.
- `EveryValueSent` (`EnvVar`, a property): the thread is to send "ogni valore modificato della variabile d'ambiente A" (client.c:6-8).
  A value that is overwritten before it is taken (:143) is never sent. `LatestSent` is what the code keeps: the value
  that stays is sent, the others give way to a later one that is taken.
- `DeletedWasGone` (`DirectoryDaemon`, an invariant): a file whose directory cannot be opened (directory_daemon.c:145, :176), or may no longer
  be searched when `stat` asks for it (:161), is passed over and then reported as "FILE CANCELLATO" (:204), though it is
  there. `DeletedWasMissing` says that a file is only called deleted for that, or because it was gone.

Reading and modelling the code showed more, which the properties above state exactly as far as
the code keeps it:

- SNP77: `remove_record` returns without `sem_post` when the array is empty, and a producer that waits
  then waits for ever. `KeptOnlyEmpty` says that this is the only way the semaphore is lost.
- `server_deamon_path`: `signal` restarts `accept`, so SIGTERM takes effect after one more client.
- `directorydaemon.c`: `remove_lockfile` unlinks a PID file the process does not hold (after a
  refused lock) or no longer holds (after `close`), and a third daemon then monitors beside the first.
  `PidOfHolder` is what the lock does achieve.
- SNP08: `send` (server.c:273, and :309 with the mutex of the table held) can block when a client does not read;
  the model takes it as completing, which the short messages of client.c see to. `NeverWaitsForOne` is
  about `accept` and `recv` only.
- SNP67: the client takes the server's greeting for its first echo and from then on has one
  message unread; closing then resets the connection, which the server takes for an error
  and not for the end. And the handler's broadcast may be lost between test and wait.
- SNP63 `directory_daemon.c`: a run killed, or signalled before its handlers are installed, leaves a PID
  file that refuses every later start; a file that went and came back unchanged is never
  announced again; a relative path names nothing after `chdir`.
- SNP08: entries of the table are not reused; after `MAX_CLIENTS` connections every later one is refused.
- SNP65: a worker that is not scheduled before its scenario is over waits for ever, and main with it.
- Signals: B announces its PID before it blocks the signals, and A may clear it after B stored it: B is
  then killed by the first signal or never called. `BothFinish` starts where the two have met.


## Proofs

`SharedListProofs` proves, for any set of instances (finite or not), any pool size above zero,
any integers inserted and any instances killed anywhere, five theorems of `Spec`:
`TypeCorrect`, `LockIsExclusive`, `ListStaysWellFormed`, `ReportsAreExact` and the refinement
`ListIsAStack` (`ImplementsStack`). They rest on the
named assumptions of `SharedList` (the pool is not empty, values are integers, batches are
bounded by a natural number) and on nothing else.

None of the invariants is inductive alone. That the count stays within the pool needs
the pigeonhole argument that a chain without repetition is no longer than the pool; that the
chain stays one needs to know that the node in an instance's hand is not on it, which needs
that no other instance has a node in hand, which is the exclusion; that exclusion is kept
needs to know which operation an instance is in. `IInv` is the conjunction of

- `TypeOK` and `MutualExclusion`;
- `ControlInv`: what `op`, `cur` and `seen` are at each point of the code;
- one chain `s` with `ListInv(s)`: it follows the links from the head (`IsChain`), its nodes are the
  occupied ones but for the one in hand, and the count is its length but for the operation
  in progress (`Accounts`); a listing has printed a prefix of it (`Walking`);
- `ReportsAgree`.

`PushChain` and `PopChain` give the chain after an insert and a pop. The step is proved in five
lemmas, one for each conjunct (`ControlStep`, `MutexStep`, `ListStep`, `TypeStep`,
`ReportStep`), each by cases on the actions.

For the refinement the stack has to be read off the links. `OneChain` shows that there is one chain only:
where two would first differ (`LeastNat`, the least such place, comes from the library's facts on finite sets
and well-founded orders) one node would have two successors. `RefInv` adds what each instance is
going to answer; then every action is a step of `AtomicStack` or changes neither the stack nor a
call, one lemma for each kind (`AllocateRefines`, `LinkRefines`, `UnlinkRefines`, `SizeRefines`,
`PostRefines`, `SilentRefines`, ...).

`ProdConsProofs` proves all four invariants of `ProdCons`, for an array and a file of any size and lines of any
lengths: `Exclusion` (`OneAtATime`), `TakenOnlyOverEmpty` (`KeptOnlyEmpty`), `EachRecordOnce` (`RecordsConserved`)
and `WholeLines` (`FileOfWholeLines`). Two hypotheses are stated with the theorems, not assumed of the
constants: `EachOnce`, that prod, const1 and const2 are each run once, without which
TLC finds two processes in a section (see the bounds above); and, for all but the first,
`MortalProducers`, that only the producer is killed: a consumer killed in a section leaves its
semaphore taken and its record unwritten. The invariant has three layers:

- `SectionInv`: what every process has open at each step and which object each name refers to (`OpenInv`,
  `FileNameInv`: the consumers that work have one semaphore for the file though the name is unlinked and
  created again around them), the exclusion itself (`LockInv`), and what whoever is in the section relies on
  (`CountInv`, `FilledInv`: no index past the counter, a record where one is expected). The layers
  are one induction: that indices are right needs the exclusion, that needs the names.
- `KeptInv`: behind a semaphore that is taken there is someone in its section, a killed
  producer, or a consumer that found the array empty; and as long as it is, the array stays
  empty. `SizedInv`: a segment nobody sized is empty, so that an access that faults loses nothing.
- `DataInv`: the records in the array are different ones but for the slot a consumer is just closing
  (`ArrayInv`), no two processes have one in hand (`HandInv`), and array, hands, file and the
  dropped ones divide what was produced among them (`WhereInv`); a line is written past the offset, where it
  fits (`PlaceInv`).

TLC checks all of them on the run's instance, the first layer also with consumers that are
killed. That the array holds as many records as its counter says is a bijection (`CountsRecords`).

`FileMonitorProofs` proves `TypeCorrect`, `LockTellsApart` and `PidIsHolders` for any set of
runs and of files, from `RunAssumption` (the value for "no run" is none of them) and
`FileAssumption` (what is written to a file is counted up to a bound). `OneHolder` and `PidOfHolder` need to know what a lock is: `LockInv` says that a
run between `flock` and `close` has the file it opened locked, and that every lock is that of
such a run. A PID file is then written by its holder alone, and truncated and written before the first check.
What the proofs do not say is what the code wants, that one daemon runs at a time: the file a second daemon locks need not be the one the first holds.

`CondVarProofs` is about the two programs whose threads wait on a condition variable. Of SNP67 it proves `NeverFarApart` (`TypeOK`, whose bounds of two are the point) and
`NoChangeForgotten` (`FlagAgrees`) for any set of changing threads and any values but 0, which stands
for "none yet". `InStep` counts the values and answers under way, the greeting included: at most
one, and one more while the client waits for an answer, because each message answers one
that is gone. It needs `Ends`: nothing is under way before the connection is made or after the
server has closed it. `FlagAgrees` needs `Taken`: a value is copied only while the flag is up,
though the mutex is given up in between.

`PingPongProofs` proves, for any number of rounds and any buffer that holds them, `TypeCorrect`,
`OnePermission` (`OneTurn`), `OnlyToPartner` (`PassedToPartner`), `WholeText` (`PrintsTheText`) and the refinement
`ByTurns` (`TextByTurns`). `TokenInv` puts the permission in one place; `PidInv` says who is known to whom
during the set-up, without which a signal might go to a process of an earlier run; `CountInv` ties the
position to the rounds of the processes that are alive, from which every write is a step of `Alternation`.

`MultiPortProofs` proves `TypeCorrect`, `TableCorrect` (`TableIsTheConnections`) and `NeverWaits` (`NeverWaitsForOne`) for any finite set of clients and any
numbers of ports and entries. The table is right only together with what the thread relies on
between two steps (`TableInv`): the connection to enter is not in the table yet, the one it reads
from is, and no two connections have one descriptor, though a descriptor is reused as soon as it is closed.
That nothing blocks needs to know what `select` has reported until the scan gets there (`ReadyInv`): a descriptor that is
ready stays so, and is still that of the connection it was, since only the thread itself closes one.

`DirectoryProofs` is about the two programs that walk directories. Of the daemon of SNP63 it proves `TypeCorrect`,
`OneWatches` (`OneDaemon`) and `DeletedCorrect` (`DeletedWasMissing`) for any runs,
files, directories and changes. `CollectInv` accounts for every file while a list is made: it is in the list,
still to be read, in a directory still to be opened, was missed, or was out of reach; and whatever is out of reach at the
moment is among the last, which is what makes passing over an entry or a directory safe.

Of the scanner of SNP58 it proves, for any finite tree, any size of the ring and any table of inodes,
`RingIsStream` (`ImplementsStream`, the refinement), `NothingLeftOut` (`ScanComplete`) and `FilesCountOnce` (`TotalExact`).
`TreeAssumption` says that the entries are a tree: any set of them has one whose directory is
not in the set. `FilesCountOnce` has a hypothesis of its own, `UniqueInodes`: `is_inode_visited` looks at the
number alone, so files of two devices with one number count as one. The invariant has four parts, each inductive with those before it:

- `RingInv` (`RingKept`): the exclusion, and that the `count` slots from `read_index` hold entries. `PutAppends` and
  `GetTakesHead` say what a put and a get do to the sequence in the ring, where the arithmetic modulo the size is;
- `TallyInv`: while the inodes met are no more than the table holds, the table is the set of them and the total the sum over the files;
- `WalkInv` (`WalkKept`): no entry is in two of the open directories, the ring and the set already counted; so an entry
  counted adds one to what was handed out, which the refinement needs;
- `CoverInv` (`CoverKept`): every entry of a directory that was opened is known or was passed over, and the errors are
  as many as the directories and entries passed over.

What would be inductions over data are arguments by a smallest counterexample. `SizeOf` is a fold that takes the elements of a set in an arbitrary order:
`SumsExist` shows that its recursion has a solution, `SumsAnyOrder` that the order does not matter, each from
a smallest set where it fails (`SmallestSet`), and `SizeOfMore` that one more file adds its size.
`ReachedUnfold` shows that the recursion of `Reached` has a solution, the least set closed under it (`LeastFixed`);
`EverythingCounted` then compares it with what was counted at an entry whose directory agrees.

Of SNP65 `CondVarProofs` proves `AllWoken` (`NoLostWakeup`), `AddsCorrect`, `NothingIsLost` (`NothingLost`) and
`PrintedShort` (`ShortByABatch`) for any number of workers and any batch. `WakeInv` adds that
the flag is up while the start is given; `MutexInv` that what a worker has read under the
mutex is still the count when it writes (`AddsToTheCount`). What the workers hold is a sum over them, which
would need induction; the model takes it as the number of multiplications made and not yet added,
the cardinality of a set (`Batches`), to which each step adds or from which it takes elements that
can be named. `BenchInv` carries the balance together with what keeps it: a scenario is untouched until it
is started (`UnstartedInv`), and once it is stopped each worker has at most one multiplication still to come (`Begun`),
which with the batches it holds is at most `BATCH` (`Settled`).

`ForkingProofs` is about the two programs whose parent forks. Of SNP60 it proves `TypeCorrect` and `WordsInTurn` (`PrintedInTurn`) for any number of
workers, any buffer and any words. `SemInv` is the exclusion of both semaphores; `RoomInv` carries the
test of the room left from `CheckTurn` to `AdvancePos`; `ReapInv` says that the parent has counted no more than have ended, so
that its final NUL cannot meet a worker that writes; `TextInv` says where the last separator can be. The rotation
is `OrderInv`: the turn is the number of words written, modulo the workers, while nobody is inside, stays so until
the word is in the buffer and is one behind until it is passed on; `CountInv` ties the number of words kept to those in
the buffer. For the handler, `Grows` is what the others may do between two of its steps: the text only grows, a byte below the
position is never changed, and where the text ended a separator follows. Whatever is a copy of whole words therefore stays one
(`CopyStays`), and the number read first stays a lower bound (`CopyInv`, `HandlerCopies`).

Of the path server it proves `ServerTypeCorrect`, `ListingsComplete` (`ListingComplete`) and `AnswersAreMine` (`AnswerIsMine`) for any
clients, requests and changes, and any set of directories. `TreeAssumption` says that the directories are a forest: any set of them
has a root or one whose parent is not in the set, so that nothing is above itself. Three invariants carry them:

- `QueueInv`: whoever is in the backlog, or taken out of it for the fork, is there once, has connected and has no
  child; so `Fork` makes a child where there was none, and disturbs no search and no exchange.
- `SearchInv`, for each child that searches. `Accounted`: a directory that has been there all the time, that `stat` cannot fail to examine and whose parent is
  the base or listed, is listed too, is among what `readdir` must still return at one of the open levels, or is in the directory to be opened
  next. `Sound`: what is listed, or can be returned, is beneath the base, and was there at some moment. When the last level is
  closed nothing is left to be read, so what is listed is closed under going down, and `AllBeneath` gives
  the listing. Nothing in it says that the tree stays as it is: a directory that goes leaves `always`, one that comes
  enters `ever` (`SearchStarts`, `LevelOpens`, `EntryListed`, `EntryGone`, `LevelCloses`, one for each step).
- `ExchangeInv`: as long as the client is there, its connection is in one of the phases `Idle`, `HalfAsked`, `AskedFor`, `Answering`,
  `Answered`, each of which says where client and child are and what exactly is in the two streams; from the path read to the answer sent it is the
  client's last request. `AnswerIsMine` says nothing of requests on the way or of what the child holds, and is not inductive.

That the recursion of `Above` has a solution is shown as for `Reached`: it is the least set that goes up (`UpFromUnfold`, `AboveUnfold`).

Some of the theorems state invariants no run repeats, to keep the runs to what proofs do not cover:
the type invariants (`TypeOK`) of `SharedList`, `FileMonitor`, `EnvVar`, `PingPong`, `MultiPort`, `DirectoryDaemon`, and `MutualExclusion`,
`ReportsAgree`, `OneHolder`, `AddsToTheCount`.

Every invariant and every refinement that a run checks is stated by a theorem. Only model-checked are the liveness properties, that locks come back among them. Liveness under fairness is out of the
prover's reach, and so is induction by the library's theorems that take an operator; where an argument
needed a least element, a count or a sum, it was made with finite sets, bijections and well-founded orders instead.

## Plan

Done: the shared list, SNP77, SNP58, SNP60, the path server, the two daemons of SNP63, SNP67,
the ping-pong by signals, SNP08 and SNP65. What could follow, in order:

1. `SharedFile` (`SNP66`): who finishes last, the semaphore unlinked at the start; its three
   solutions as instances of one module where the code allows it.
2. `ListSetup`: creation and removal of the list's segment, which is not exclusive.
3. `EnvStream` (`SNP67_servertcp_thread`): the same task as `EnvVar` over unframed messages.
4. `Feedback` (`TCP_UDP/SNP57...`), `Transfer` (`SNP59`), `Esame52` and `Esame50`.

## What is not modelled

- Failures of `malloc`, `socket`, `bind`, `mmap`, `setenv` and the like, unless the code goes on
  after them; the texts of messages and logs; statistics that are only printed.
- `SharedList`: what the menu says of an operation. It prints that an element was inserted
  whatever `list_insert` did, and takes a popped -1 for an empty list.
- `DirScanner`: a failed `pthread_create`; a tree that changes shape; several devices, on which
  inode numbers are not unique.
- `PathServer`: symbolic links and texts longer than their buffers.
- `FileMonitor`: symbolic links, and a directory given by a relative path: after
  `daemonize` has changed to `/` its files are not found and no change is reported.
- `EnvVar`: more than one run of the client.
- `PingPong`: `ready_flag`, which nobody reads. `MultiPort`: `become_daemon`, whose call is commented
  out, and the numbers of the statistics. `DirectoryDaemon`: symbolic links, directories more than one
  level deep, and paths longer than their buffer. `ThreadBench`: the speed-up, which reads the counts once more.
- SNP66, the set-up of the list, SNP67 without echo, SNP57, SNP59, SNP61, Esame50 and Esame52 have
  hazards of their own, listed in the inventory; the properties above were preferred to theirs because
  these programs are variations of the mechanisms modelled here (named semaphores unlinked in use,
  unframed streams, flags polled in shared memory).
- SNP56 and SNP64 measure times in one thread; SNP69 is network I/O around one value under a
  mutex; the wrappers in `librerie/TCP` keep no state; the drills exercise a system call
  each; SNP23 and the server of SNP60's second solution do not build or are not there;
  `Programmazione di Sistema/SNP2024`, `argomenti` and `Traccie Esami` are course material.
