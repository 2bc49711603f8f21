------------------------------ MODULE MultiPort ------------------------------
(***************************************************************************)
(* esami/TCP_UDP/SNP08: a server that listens on NUM_PORTS ports, and its    *)
(* clients.  One thread waits in select for every descriptor, accepts and    *)
(* echoes; main prints statistics; SIGTERM or SIGINT ends both.              *)
(* Descriptors are numbers the system reuses, as the server's table shows.  *)
(***************************************************************************)
EXTENDS Integers, FiniteSets, Sequences

CONSTANTS NUM_PORTS, MAX_CLIENTS,
          Client,         \* the clients connected at one time
          Messages        \* how many messages a client sends (50)

ASSUME PortsAssumption == NUM_PORTS \in Nat \ {0} /\ MAX_CLIENTS \in Nat
ASSUME MessagesAssumption == Messages \in Nat
ASSUME ClientAssumption == IsFiniteSet(Client)

Port == 0 .. NUM_PORTS - 1     \* each listens on the descriptor of its number
FD == NUM_PORTS .. NUM_PORTS + Cardinality(Client)
NONE == -1

VARIABLES
    link,         \* each connection: "none", "backlog", "open", "fin" and
                  \* "rst" once the client has closed
    port, fd,     \* its port, and the server's descriptor
    sent, unread, \* messages sent, and not yet read by the server
    inbox,        \* whether an answer waits for the client
    clients,      \* the table, which only grows
    max_fd, reported,    \* of select: the highest descriptor, what is ready
    io,           \* where io_multiplexing_thread is
    i,            \* its index, over the ports and then over the table
    got,          \* the connection accept returned, or recv read from
    mutex,        \* clients_mutex
    continua_esecuzione,
    main,
    hung          \* the threads the handler has stopped for ever

net == <<link, port, fd, sent, unread, inbox>>
sets == <<max_fd, reported>>
control == <<continua_esecuzione, main, hung>>
vars == <<net, clients, sets, io, i, got, mutex, control>>

Init ==
    /\ link = [c \in Client |-> "none"]
    /\ port = [c \in Client |-> 0] /\ fd = [c \in Client |-> NONE]
    /\ sent = [c \in Client |-> 0] /\ unread = [c \in Client |-> 0]
    /\ inbox = [c \in Client |-> FALSE]
    /\ clients = <<>>
    /\ reported = {} /\ max_fd = NUM_PORTS - 1
    /\ io = "while" /\ i = 0 /\ got = NONE
    /\ mutex = FALSE
    /\ continua_esecuzione = TRUE
    /\ main = "loop"
    /\ hung = {}

Accepted(c) == fd[c] # NONE
Owner(s) == CHOOSE c \in Client : fd[c] = s

-------------------------------------------------------------------------------
(* The clients.                                                            *)

\* A client connects, and when it is gone another one in its place.
connessione_server(c) ==
    /\ link[c] = "none"
    /\ main # "ended"
    /\ link' = [link EXCEPT ![c] = "backlog"]
    /\ \E p \in Port : port' = [port EXCEPT ![c] = p]
    /\ UNCHANGED <<fd, sent, unread, inbox, clients, sets, io, i, got, mutex,
                   control>>

\* A message is sent and what has been answered so far is read, without waiting.
send_message(c) ==
    /\ link[c] \in {"backlog", "open"}
    /\ sent[c] < Messages
    /\ sent' = [sent EXCEPT ![c] = @ + 1]
    /\ unread' = [unread EXCEPT ![c] = @ + 1]
    /\ inbox' = [inbox EXCEPT ![c] = FALSE]
    /\ UNCHANGED <<link, port, fd, clients, sets, io, i, got, mutex, control>>

\* The greeting is waited for, a second at most, before the first message.
welcome_message(c) ==
    /\ link[c] \in {"backlog", "open"} /\ sent[c] = 0
    /\ inbox' = [inbox EXCEPT ![c] = FALSE]
    /\ UNCHANGED <<link, port, fd, sent, unread, clients, sets, io, i, got,
                   mutex, control>>

\* The client closes, at its end or in its handler; with an answer unread the
\* close is a reset, and what the server has not read may be lost.
close_client(c) ==
    /\ link[c] \in {"backlog", "open"}
    /\ IF inbox[c]
       THEN /\ link' = [link EXCEPT ![c] = "rst"]
            /\ \E n \in {0, unread[c]} : unread' = [unread EXCEPT ![c] = n]
       ELSE link' = [link EXCEPT ![c] = "fin"] /\ UNCHANGED unread
    /\ UNCHANGED <<port, fd, sent, inbox, clients, sets, io, i, got, mutex,
                   control>>

\* A connection waits in the queue of its port, closed by the client or not.
Queued(c) == link[c] \in {"backlog", "fin", "rst"} /\ ~Accepted(c)
Ready == {p \in Port : \E c \in Client : Queued(c) /\ port[c] = p}
         \cup {fd[c] : c \in {d \in Client :
                  Accepted(d) /\ (unread[d] > 0 \/ link[d] \in {"fin", "rst"})}}

-------------------------------------------------------------------------------
(* io_multiplexing_thread.                                                 *)

Goto(l) == io' = l

\* The ports and the sockets of the active entries.
Active == {k \in DOMAIN clients : clients[k].attivo}
Watched == Port \cup {clients[k].socket : k \in Active}

\* Variation: the highest descriptor is that of the last port.
while_low ==
    /\ io = "while"
    /\ IF continua_esecuzione THEN ~mutex /\ Goto("select") ELSE Goto("ended")
    /\ UNCHANGED <<net, clients, sets, i, got, mutex, control>>

\* The set is put together, and the highest descriptor kept up to date.
while ==
    /\ io = "while"
    /\ IF continua_esecuzione
       THEN /\ ~mutex
            /\ \E n \in Watched \cup {max_fd} :
                  (\A k \in Watched \cup {max_fd} : k <= n) /\ max_fd' = n
            /\ Goto("select")
       ELSE Goto("ended") /\ UNCHANGED max_fd
    /\ UNCHANGED <<net, clients, reported, i, got, mutex, control>>

\* Variation: without a timeout.
select_for_ever ==
    /\ io = "select"
    /\ LET found == {n \in Watched \cap Ready : n <= max_fd} IN
       /\ found # {}
       /\ reported' = found /\ Goto("accept")
    /\ UNCHANGED <<net, clients, max_fd, i, got, mutex, control>>

\* Variation: the sets are used though select was interrupted and left them full.
select_unchecked ==
    /\ io = "select"
    /\ LET found == {n \in Watched \cap Ready : n <= max_fd} IN
       reported' = IF found # {} THEN found ELSE Watched
    /\ Goto("accept")
    /\ UNCHANGED <<net, clients, max_fd, i, got, mutex, control>>

\* What is ready, or nothing after a second or a signal.
select ==
    /\ io = "select"
    /\ LET found == {n \in Watched \cap Ready : n <= max_fd} IN
       IF found # {}
       THEN reported' = found /\ Goto("accept")
       ELSE Goto("while") /\ UNCHANGED reported
    /\ UNCHANGED <<net, clients, max_fd, i, got, mutex, control>>

\* One port after the other; the new descriptor is the lowest that is free.
Free == {n \in FD : \A c \in Client : fd[c] # n}

accept ==
    /\ io = "accept"
    /\ IF i = NUM_PORTS
       THEN /\ ~mutex /\ mutex' = TRUE
            /\ Goto("scan") /\ i' = 1
            /\ got' = NONE /\ UNCHANGED <<fd, link>>
       ELSE /\ UNCHANGED mutex
            /\ IF i \notin reported
               THEN i' = i + 1 /\ UNCHANGED <<fd, link, got, io>>
               ELSE /\ \E c \in Client, n \in Free :
                          /\ Queued(c) /\ port[c] = i
                          /\ \A k \in Free : n <= k
                          /\ fd' = [fd EXCEPT ![c] = n]
                          /\ link' = [link EXCEPT ![c] =
                                         IF @ = "backlog" THEN "open" ELSE @]
                          /\ got' = c
                    /\ Goto("enter") /\ UNCHANGED i
    /\ UNCHANGED <<port, sent, unread, inbox, clients, sets, control>>

\* The server closes; what is left of the client does not concern it.
CloseServer(c) ==
    /\ fd' = [fd EXCEPT ![c] = NONE]
    /\ link' = [link EXCEPT ![c] = "none"]
    /\ port' = [port EXCEPT ![c] = 0]
    /\ sent' = [sent EXCEPT ![c] = 0]
    /\ unread' = [unread EXCEPT ![c] = 0]
    /\ inbox' = [inbox EXCEPT ![c] = FALSE]

Entry(c) == [socket |-> fd[c], porta |-> port[c], attivo |-> TRUE]

\* Variation: the refused connection is left open.
enter_leaky ==
    /\ io = "enter"
    /\ ~mutex
    /\ IF Len(clients) >= MAX_CLIENTS
       THEN hung = {} /\ Goto("accept") /\ i' = i + 1 /\ UNCHANGED clients
       ELSE clients' = Append(clients, Entry(got)) /\ Goto("welcome") /\ UNCHANGED i
    /\ UNCHANGED <<net, sets, got, mutex, control>>

\* The table is full, and the connection is refused, or has one entry more.
enter ==
    /\ io = "enter"
    /\ ~mutex
    /\ IF Len(clients) >= MAX_CLIENTS
       THEN /\ hung = {}
            /\ CloseServer(got)
            /\ Goto("accept") /\ i' = i + 1
            /\ UNCHANGED clients
       ELSE /\ clients' = Append(clients, Entry(got))
            /\ Goto("welcome")
            /\ UNCHANGED <<net, i>>
    /\ UNCHANGED <<sets, got, mutex, control>>

\* An answer reaches a client that has not closed; from one that has it brings
\* a reset, after which what was not read may be lost.
Answer(c) ==
    IF link[c] = "fin"
    THEN /\ link' = [link EXCEPT ![c] = "rst"]
         /\ \E n \in {0, unread[c]} : unread' = [unread EXCEPT ![c] = n]
         /\ UNCHANGED inbox
    ELSE /\ inbox' = [inbox EXCEPT ![c] = @ \/ link[c] = "open"]
         /\ UNCHANGED <<link, unread>>

welcome ==
    /\ io = "welcome"
    /\ hung = {}
    /\ Answer(got)
    /\ Goto("accept") /\ i' = i + 1
    /\ UNCHANGED <<port, fd, sent, clients, sets, got, mutex, control>>

\* The table, from the first entry.
scan ==
    /\ io = "scan"
    /\ IF i > Len(clients)
       THEN /\ mutex' = FALSE /\ Goto("while")
            /\ i' = 0 /\ reported' = {} /\ got' = NONE
       ELSE /\ UNCHANGED <<mutex, reported>>
            /\ IF clients[i].attivo /\ clients[i].socket \in reported
               THEN /\ Goto("recv") /\ UNCHANGED i
                    /\ got' = Owner(clients[i].socket)
               ELSE i' = i + 1 /\ UNCHANGED <<io, got>>
    /\ UNCHANGED <<net, clients, max_fd, control>>

\* gestisci_client_data: recv takes all there is, messages joined, or finds the
\* end, which closes the socket and the entry.  Without either it would block.
recv ==
    /\ io = "recv"
    /\ \/ /\ unread[got] > 0
          /\ unread' = [unread EXCEPT ![got] = 0]
          /\ Goto("reply")
          /\ UNCHANGED <<link, port, fd, sent, inbox, clients, i>>
       \/ /\ unread[got] = 0 /\ link[got] \in {"fin", "rst"}
          /\ hung = {}
          /\ CloseServer(got)
          /\ clients' = [clients EXCEPT ![i].attivo = FALSE]
          /\ Goto("scan") /\ i' = i + 1
    /\ UNCHANGED <<sets, got, mutex, control>>

reply ==
    /\ io = "reply"
    /\ hung = {}
    /\ Answer(got)
    /\ Goto("scan") /\ i' = i + 1
    /\ UNCHANGED <<port, fd, sent, clients, sets, got, mutex, control>>

io_multiplexing_thread ==
    "io" \notin hung /\
    (\/ while \/ select \/ accept \/ enter
     \/ welcome \/ scan \/ recv \/ reply)

-------------------------------------------------------------------------------
(* main, and the signals.                                                  *)

\* Every 30 seconds, and when a signal has cut the sleep short, main prints the
\* statistics, which changes nothing, and looks at the flag.
stampa_statistiche ==
    /\ main = "loop"
    /\ hung = {}
    /\ ~continua_esecuzione
    /\ main' = "join"
    /\ UNCHANGED <<net, clients, sets, io, i, got, mutex, continua_esecuzione,
                   hung>>

join ==
    /\ main = "join"
    /\ io = "ended"
    /\ main' = "cleanup"
    /\ UNCHANGED <<net, clients, sets, io, i, got, mutex, continua_esecuzione,
                   hung>>

\* The sockets of the active entries are closed, and those of the ports.
cleanup ==
    /\ main = "cleanup"
    /\ hung = {} /\ ~mutex
    /\ LET closed == {clients[k].socket : k \in Active}
       IN  fd' = [c \in Client |-> IF fd[c] \in closed THEN NONE ELSE fd[c]]
    /\ link' = [c \in Client |-> "none"]
    /\ unread' = [c \in Client |-> 0]
    /\ main' = "ended"
    /\ UNCHANGED <<port, sent, inbox, clients, sets, io, i, got, mutex,
                   continua_esecuzione, hung>>

main_thread ==
    "main" \notin hung /\ (stampa_statistiche \/ join \/ cleanup)

Logging(t) == IF t = "io" THEN io \in {"enter", "welcome", "recv", "reply"}
              ELSE main \in {"loop", "cleanup"}

\* The handler logs: on a thread that is inside the log itself, it may wait for
\* a lock of the C library that thread holds, for ever.
signal_handler(t) ==
    /\ continua_esecuzione /\ hung = {}
    /\ IF t = "io" THEN io # "ended" ELSE main # "ended"
    /\ \/ continua_esecuzione' = FALSE /\ UNCHANGED hung
       \/ Logging(t) /\ hung' = {t} /\ UNCHANGED continua_esecuzione
    /\ UNCHANGED <<net, clients, sets, io, i, got, mutex, main>>

Next ==
    \/ \E c \in Client : connessione_server(c) \/ welcome_message(c)
                         \/ send_message(c) \/ close_client(c)
    \/ io_multiplexing_thread \/ main_thread
    \/ \E t \in {"io", "main"} : signal_handler(t)

Spec == Init /\ [][Next]_vars

\* The two threads are scheduled; no client need do anything.
FairSpec == Spec /\ WF_vars(io_multiplexing_thread) /\ WF_vars(main_thread)

-------------------------------------------------------------------------------
(* Properties.                                                             *)

TypeOK ==
    /\ link \in [Client -> {"none", "backlog", "open", "fin", "rst"}]
    /\ port \in [Client -> Port] /\ fd \in [Client -> FD \cup {NONE}]
    /\ sent \in [Client -> 0 .. Messages]
    /\ unread \in [Client -> 0 .. Messages]
    /\ inbox \in [Client -> BOOLEAN]
    /\ clients \in Seq([socket : FD, porta : Port, attivo : BOOLEAN])
    /\ Len(clients) <= MAX_CLIENTS
    /\ reported \subseteq Port \cup FD
    /\ max_fd \in Port \cup FD
    /\ io \in {"while", "select", "accept", "enter", "welcome", "scan", "recv",
               "reply", "ended"}
    /\ i \in 0 .. NUM_PORTS \/ i \in 1 .. MAX_CLIENTS + 1
    /\ mutex \in BOOLEAN /\ continua_esecuzione \in BOOLEAN
    /\ main \in {"loop", "join", "cleanup", "ended"}
    /\ hung \subseteq {"io", "main"}

\* Though descriptors are reused, the active entries of the table are exactly
\* the open connections, each once and with its port: none is leaked, none
\* dangles, and an echo goes to the client that wrote, under its port,
\* until main has cleaned up.
TableIsTheConnections ==
    main # "ended" =>
    /\ \A k, n \in Active : clients[k].socket = clients[n].socket => k = n
    /\ \A k \in Active : \E c \in Client :
          fd[c] = clients[k].socket /\ port[c] = clients[k].porta
    /\ \A c \in Client : Accepted(c) =>
          \/ io = "enter" /\ got = c
          \/ \E k \in Active : clients[k].socket = fd[c]

\* accept and recv are only called when there is a connection to take, or
\* something to read or the end: the thread that serves everybody does not wait
\* for one client there.  Of send, which could block with the mutex held, the model
\* says nothing: what is sent is short and taken to fit the socket's buffer.
NeverWaitsForOne ==
    /\ io = "accept" /\ i < NUM_PORTS /\ i \in reported =>
          \E c \in Client : Queued(c) /\ port[c] = i
    /\ io = "recv" => unread[got] > 0 \/ link[got] \in {"fin", "rst"}

\* Every message to a client that was let in is read, unless the server stops.
Stopping == ~continua_esecuzione \/ hung # {}

EveryMessageRead ==
    \A c \in Client :
        Accepted(c) /\ unread[c] > 0 ~> unread[c] = 0 \/ Stopping

\* After a signal the server closes everything and ends, however long its sleep
\* and its last select take, unless the handler has stopped a thread inside the
\* log.
StopsOnSignal ==
    ~continua_esecuzione ~> main = "ended" \/ hung # {}
================================================================================
