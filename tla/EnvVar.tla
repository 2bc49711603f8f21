-------------------------------- MODULE EnvVar --------------------------------
(***************************************************************************)
(* esami/TCP_UDP/SNP67: two threads of a client change the variable A; a    *)
(* third waits on a condition variable for A to change, sends the value     *)
(* over TCP and waits for an answer.  The server greets the client, which   *)
(* takes the greeting for the first answer, puts every text it receives     *)
(* into its own A and answers it.  TCP keeps the order of the bytes and not *)
(* where a message ends: a recv returns one or several messages.            *)
(*                                                                         *)
(* Its names are its own, so that a module of proofs can extend it and      *)
(* another program's.                                                      *)
(***************************************************************************)
EXTENDS Integers, Sequences

CONSTANTS Changer,       \* the threads that change A
          Value          \* what random_value returns

ASSUME ValueAssumption == 0 \notin Value

VARIABLES
    A, A_changed,
    continua_esecuzione, \* of the client
    changer,        \* each changing thread's step
    conn,           \* the connection thread's step
    message,        \* the value it has copied to send, 0 before the first
    handler,        \* the step of the client's signal_handler
    link,           \* the connection
    pending,        \* it waits to be accepted
    toServer,       \* the values sent and not yet received
    replies,        \* the messages of the server not yet received
    srv,            \* the server's step
    srv_continua,   \* continua_esecuzione of the server
    srv_A           \* the server's variable A: the values in its text

client == <<A, A_changed, continua_esecuzione, changer, conn, message, handler>>
server == <<srv, srv_continua, srv_A>>
net == <<link, pending, toServer, replies>>
envVars == <<client, net, server>>

EnvInit ==
    /\ A = 0 /\ A_changed = FALSE
    /\ continua_esecuzione = TRUE
    /\ changer = [t \in Changer |-> "test"]
    /\ conn = "connect"
    /\ message = 0
    /\ handler = "idle"
    /\ link = "none" /\ pending = FALSE
    /\ toServer = <<>>
    /\ replies = 0
    /\ srv = "off"
    /\ srv_continua = TRUE
    /\ srv_A = <<>>

\* Main returns once it has joined all three threads; SIGPIPE ends all at once.
ClientEnded ==
    /\ \A t \in Changer : changer[t] = "done"
    /\ conn = "done" /\ handler = "idle"

\* The connection thread has A_mutex.
MutexTaken == conn \in {"wait", "take"}

-------------------------------------------------------------------------------
(* The client.                                                             *)

TestRunning(t) ==
    /\ changer[t] = "test"
    /\ changer' = [changer EXCEPT ![t] =
                       IF continua_esecuzione THEN "change" ELSE "done"]
    /\ UNCHANGED <<A, A_changed, continua_esecuzione, conn, message, handler,
                   net, server>>

Signalled == IF conn = "waiting" THEN "woken" ELSE conn

\* Variation: the thread that waits is not signalled.
ChangeQuietly(t) ==
    /\ changer[t] = "change" /\ ~MutexTaken
    /\ A' \in Value
    /\ A_changed' = TRUE
    /\ changer' = [changer EXCEPT ![t] = "test"]
    /\ UNCHANGED <<continua_esecuzione, conn, message, handler, net, server>>

change_A(t) ==
    /\ changer[t] = "change" /\ ~MutexTaken
    /\ A' \in Value
    /\ A_changed' = TRUE
    /\ conn' = Signalled
    /\ changer' = [changer EXCEPT ![t] = "test"]
    /\ UNCHANGED <<continua_esecuzione, message, handler, net, server>>

\* The server listens from the time it accepts for the first time to its end.
Listening == srv \notin {"off", "over"} /\ srv_continua

connessione_server ==
    /\ conn = "connect"
    /\ \/ /\ Listening
          /\ link' = "up" /\ pending' = TRUE
          /\ conn' = "while"
          /\ UNCHANGED continua_esecuzione
       \/ /\ ~Listening
          /\ continua_esecuzione' = FALSE
          /\ conn' = "done"
          /\ UNCHANGED <<link, pending>>
    /\ UNCHANGED <<A, A_changed, changer, message, handler, toServer, replies,
                   server>>

connection_thread_func ==
    /\ conn = "while"
    /\ conn' = IF continua_esecuzione THEN "lock" ELSE "close"
    /\ UNCHANGED <<A, A_changed, continua_esecuzione, changer, message, handler,
                   net, server>>

\* The test, at first and after every wake-up, with the mutex taken.
TestChanged ==
    /\ conn \in {"lock", "woken"}
    /\ conn' = IF ~A_changed /\ continua_esecuzione THEN "wait" ELSE "take"
    /\ UNCHANGED <<A, A_changed, continua_esecuzione, changer, message, handler,
                   net, server>>

\* cond_wait gives the mutex up and waits in one step, but the test came before.
cond_wait ==
    /\ conn = "wait"
    /\ conn' = "waiting"
    /\ UNCHANGED <<A, A_changed, continua_esecuzione, changer, message, handler,
                   net, server>>

Spurious ==
    /\ conn = "waiting"
    /\ conn' = "woken"
    /\ UNCHANGED <<A, A_changed, continua_esecuzione, changer, message, handler,
                   net, server>>

TakeValue ==
    /\ conn = "take"
    /\ \/ /\ continua_esecuzione
          /\ message' = A
          /\ A_changed' = FALSE
          /\ conn' = "send"
       \/ /\ ~continua_esecuzione
          /\ conn' = "close"
          /\ UNCHANGED <<A_changed, message>>
    /\ UNCHANGED <<A, continua_esecuzione, changer, handler, net, server>>

ConnGoto(l) ==
    /\ conn' = l
    /\ UNCHANGED <<changer, handler>>

\* SIGPIPE, for which the client has no handler.
Killed ==
    /\ conn' = "done"
    /\ changer' = [t \in Changer |-> "done"]
    /\ handler' = "idle"

\* Variation: the flag is reset once the value has been sent.
SendThenReset ==
    /\ conn = "send"
    /\ \/ /\ link = "up"
          /\ toServer' = Append(toServer, message)
          /\ ConnGoto("recv")
       \/ /\ link = "down"
          /\ ConnGoto("recv") \/ ConnGoto("close") \/ Killed
          /\ UNCHANGED toServer
    /\ A_changed' = FALSE
    /\ UNCHANGED <<A, continua_esecuzione, message, link, pending, replies,
                   server>>

\* What is sent to a server that has closed is lost at first, then refused.
send_message ==
    /\ conn = "send"
    /\ \/ /\ link = "up"
          /\ toServer' = Append(toServer, message)
          /\ ConnGoto("recv")
       \/ /\ link = "down"
          /\ ConnGoto("recv") \/ ConnGoto("close") \/ Killed
          /\ UNCHANGED toServer
    /\ UNCHANGED <<A, A_changed, continua_esecuzione, message, link, pending,
                   replies, server>>

\* Whatever has arrived, of one answer or several, is the echo.
ReceiveEcho ==
    /\ conn = "recv"
    /\ \/ /\ \E arrived \in 1 .. replies : replies' = replies - arrived
          /\ ConnGoto("while")
       \/ /\ replies = 0 /\ link = "down"
          /\ ConnGoto("close")
          /\ UNCHANGED replies
    /\ UNCHANGED <<A, A_changed, continua_esecuzione, message, link, pending,
                   toServer, server>>

\* Closing a connection with something unread resets it; what arrives at a
\* closed connection is answered by a reset, after the end has been announced.
CloseConnection ==
    /\ conn = "close"
    /\ ConnGoto("done")
    /\ IF link = "up"
       THEN link' \in IF replies = 0 THEN {"fin"} ELSE {"reset", "broken"}
       ELSE UNCHANGED link
    /\ replies' = 0
    /\ UNCHANGED <<A, A_changed, continua_esecuzione, message, pending, toServer,
                   server>>

\* SIGINT or SIGTERM, on the main thread, which waits for the others.
signal_handler ==
    /\ handler = "idle" /\ ~ClientEnded
    /\ continua_esecuzione' = FALSE
    /\ handler' = "broadcast"
    /\ UNCHANGED <<A, A_changed, changer, conn, message, net, server>>

Broadcast ==
    /\ handler = "broadcast"
    /\ conn' = Signalled
    /\ handler' = "idle"
    /\ UNCHANGED <<A, A_changed, continua_esecuzione, changer, message, net,
                   server>>

-------------------------------------------------------------------------------
(* The server.                                                             *)

init_listening_socket ==
    /\ srv = "off"
    /\ srv' = "accept"
    /\ UNCHANGED <<client, net, srv_continua, srv_A>>

\* A message of the server goes to the client, if it has not closed.
Arrives ==
    \/ link = "up" /\ replies' = replies + 1 /\ UNCHANGED link
    \/ link \in {"fin", "broken"} /\ link' = "broken" /\ UNCHANGED replies

accetta_connessione ==
    /\ srv = "accept" /\ pending
    /\ pending' = FALSE
    /\ Arrives                              \* the greeting
    /\ srv' = "while"
    /\ UNCHANGED <<client, toServer, srv_continua, srv_A>>

WhileConnected ==
    /\ srv = "while"
    /\ srv' = IF srv_continua THEN "recv" ELSE "close"
    /\ UNCHANGED <<client, net, srv_continua, srv_A>>

\* Variation: an orderly end is treated as an error is.
ReceiveOrLeave ==
    /\ srv = "recv"
    /\ \/ /\ \E n \in 1 .. Len(toServer) :
                /\ srv_A' = SubSeq(toServer, 1, n)
                /\ toServer' = SubSeq(toServer, n + 1, Len(toServer))
          /\ srv' = "send"
       \/ /\ toServer = <<>> /\ link \in {"fin", "broken", "reset"}
          /\ srv' = "close"
          /\ UNCHANGED <<toServer, srv_A>>
    /\ UNCHANGED <<client, link, pending, replies, srv_continua>>

\* One line end is cut off, not those inside the text.  An orderly end stops
\* the server; an error does not.
gestisci_client ==
    /\ srv = "recv"
    /\ \/ /\ \E n \in 1 .. Len(toServer) :
                /\ srv_A' = SubSeq(toServer, 1, n)
                /\ toServer' = SubSeq(toServer, n + 1, Len(toServer))
          /\ srv' = "send"
          /\ UNCHANGED srv_continua
       \/ /\ toServer = <<>> /\ link \in {"fin", "broken", "reset"}
          /\ srv_continua' = (srv_continua /\ link = "reset")
          /\ srv' = "close"
          /\ UNCHANGED <<toServer, srv_A>>
    /\ UNCHANGED <<client, link, pending, replies>>

\* After a reset send fails; when the client's end came first, SIGPIPE.
SendEcho ==
    /\ srv = "send"
    /\ \/ Arrives /\ srv' = "while"
       \/ link = "broken" /\ srv' = "over" /\ UNCHANGED <<link, replies>>
       \/ link = "reset" /\ srv' = "close" /\ UNCHANGED <<link, replies>>
    /\ UNCHANGED <<client, pending, toServer, srv_continua, srv_A>>

CloseClient ==
    /\ srv = "close"
    /\ srv' = IF srv_continua THEN "accept" ELSE "over"
    /\ UNCHANGED <<client, net, srv_continua, srv_A>>

\* The server's own signal_handler closes both sockets, so that each call it
\* goes on to make fails until it ends.
StopServer ==
    /\ srv \notin {"off", "over"}
    /\ srv_continua' = FALSE
    /\ srv' = "over"
    /\ link' = IF link = "up" THEN "down" ELSE link
    /\ pending' = FALSE
    /\ toServer' = <<>>
    /\ UNCHANGED <<client, replies, srv_A>>

-------------------------------------------------------------------------------

Connection ==
    \/ connessione_server \/ connection_thread_func \/ TestChanged \/ cond_wait
    \/ TakeValue \/ send_message \/ ReceiveEcho \/ CloseConnection

Serve ==
    \/ accetta_connessione \/ WhileConnected \/ gestisci_client \/ SendEcho
    \/ CloseClient

EnvNext ==
    \/ \E t \in Changer : TestRunning(t) \/ change_A(t)
    \/ Connection \/ Spurious \/ signal_handler \/ Broadcast
    \/ init_listening_socket \/ Serve \/ StopServer

EnvSpec == EnvInit /\ [][EnvNext]_envVars

\* Threads run, and every sleep ends; nobody has to send a signal, to start
\* the server or to wake a thread without reason.
EnvFairSpec ==
    /\ EnvSpec
    /\ \A t \in Changer : WF_envVars(TestRunning(t) \/ change_A(t))
    /\ WF_envVars(Connection) /\ WF_envVars(Broadcast) /\ WF_envVars(Serve)

-------------------------------------------------------------------------------
(* Properties.                                                             *)

\* Values in range; the client is never more than two values ahead of what the
\* server has received, nor the server two answers ahead of the client.
TypeOK ==
    /\ A \in Value \cup {0} /\ A_changed \in BOOLEAN
    /\ continua_esecuzione \in BOOLEAN
    /\ changer \in [Changer -> {"test", "change", "done"}]
    /\ conn \in {"connect", "while", "lock", "wait", "waiting", "woken", "take",
                 "send", "recv", "close", "done"}
    /\ message \in Value \cup {0}
    /\ handler \in {"idle", "broadcast"}
    /\ link \in {"none", "up", "fin", "broken", "reset", "down"}
    /\ pending \in BOOLEAN
    /\ Len(toServer) \in 0 .. 2 /\ \A i \in 1 .. Len(toServer) : toServer[i] \in Value
    /\ replies \in 0 .. 2
    /\ srv \in {"off", "accept", "while", "recv", "send", "close", "over"}
    /\ srv_continua \in BOOLEAN
    /\ Len(srv_A) \in 0 .. 2 /\ \A i \in 1 .. Len(srv_A) : srv_A[i] \in Value

\* While A_changed is down, the last value taken to be sent is A: no change
\* gets lost between the value copied and the flag.
FlagAgrees == ~A_changed => message = A

\* What was sent last, and is waiting for its echo.
Sent(v) == conn = "recv" /\ message = v
\* Nothing more need be sent.
Over == ~continua_esecuzione \/ link # "up"

\* A value that stays is sent, and one that is changed before gives way to a later
\* one that is taken, unless the client is told to stop or the connection ends:
\* neither a wait without a signal nor two peers that wait for each other.
LatestSent ==
    /\ \A v \in Value : A_changed /\ A = v /\ ~Over ~> Sent(v) \/ A # v \/ Over
    /\ A_changed /\ ~Over ~> ~A_changed \/ Over

\* Not so: the client sends "ogni valore modificato della variabile d'ambiente A".
\* TLC finds one overwritten before it was taken.
EveryValueSent ==
    \A v \in Value : A_changed /\ A = v /\ ~Over ~> Sent(v) \/ Over

\* A server that has been told that the client closed ends, whatever it has still
\* to receive, to answer or to accept.
ServerFollows == link \in {"fin", "broken"} ~> srv = "over"

===============================================================================
