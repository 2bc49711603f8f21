--------------------------- MODULE MultiPortProofs ---------------------------
(***************************************************************************)
(* For any number of ports and clients, and a table of any size: values     *)
(* stay in range, the active entries of the table are the connections, and  *)
(* accept and recv are only called where they return at once.               *)
(***************************************************************************)
EXTENDS MultiPort, FiniteSetTheorems, TLAPS

EntrySet == [socket : FD, porta : Port, attivo : BOOLEAN]

LEMMA Numbers == /\ Cardinality(Client) \in Nat /\ NUM_PORTS \in Nat \ {0}
                 /\ MAX_CLIENTS \in Nat /\ Messages \in Nat
                 /\ Port \subseteq Int /\ FD \subseteq Int
                 /\ NONE \notin FD /\ NONE \in Int /\ 0 \in Port
  BY PortsAssumption, MessagesAssumption, ClientAssumption, FS_CardinalityType
  DEF Port, FD, NONE

\* The connections.
NetType ==
    /\ link \in [Client -> {"none", "backlog", "open", "fin", "rst"}]
    /\ port \in [Client -> Port] /\ fd \in [Client -> FD \cup {NONE}]
    /\ sent \in [Client -> 0 .. Messages]
    /\ unread \in [Client -> 0 .. Messages]
    /\ inbox \in [Client -> BOOLEAN]
    /\ \A c \in Client : unread[c] <= sent[c]

\* The server, and what its place says of its index and its client.
ServerType ==
    /\ clients \in Seq(EntrySet) /\ Len(clients) <= MAX_CLIENTS
    /\ reported \subseteq Port \cup FD
    /\ max_fd \in Port \cup FD
    /\ io \in {"while", "select", "accept", "enter", "welcome", "scan", "recv",
               "reply", "ended"}
    /\ io \in {"while", "select", "accept", "ended"} => i \in 0 .. NUM_PORTS
    /\ io \in {"enter", "welcome"} => i \in Port
    /\ io = "scan" => i \in 1 .. Len(clients) + 1
    /\ io \in {"recv", "reply"} => i \in 1 .. Len(clients)
    /\ io \in {"enter", "welcome", "recv", "reply"} => got \in Client
    /\ io = "enter" => Accepted(got)
    /\ mutex \in BOOLEAN

ControlType ==
    /\ continua_esecuzione \in BOOLEAN
    /\ main \in {"loop", "join", "cleanup", "ended"}
    /\ main \in {"cleanup", "ended"} => io = "ended"
    /\ hung \subseteq {"io", "main"}

TInv == NetType /\ ServerType /\ ControlType

\* The table, with what the thread relies on between two of its steps: the
\* connection it is to enter is not there, the one it reads from is.
Sockets == {clients[k].socket : k \in Active}

TableInv ==
    /\ \A c, d \in Client : Accepted(c) /\ fd[c] = fd[d] => c = d
    /\ \A c \in Client : Accepted(c) => link[c] # "none"
    /\ TableIsTheConnections
    /\ io = "enter" => fd[got] \notin Sockets
    /\ io = "recv" => i \in Active /\ clients[i].socket = fd[got]

LEMMA OwnerType ==
  ASSUME TableInv, main # "ended", NEW k \in Active
  PROVE  Owner(clients[k].socket) \in Client
         /\ fd[Owner(clients[k].socket)] = clients[k].socket
<1>1. \E c \in Client : fd[c] = clients[k].socket
  BY DEF TableInv, TableIsTheConnections
<1> QED BY <1>1 DEF Owner

-------------------------------------------------------------------------------
(* The clients.                                                            *)

Clients(c) == connessione_server(c) \/ welcome_message(c)
              \/ send_message(c) \/ close_client(c)

LEMMA ClientsType ==
  ASSUME TInv, NEW c \in Client, Clients(c)
  PROVE  TInv'
<1> USE Numbers DEF TInv, NetType
<1>1. ServerType' /\ ControlType'
  BY DEF Clients, connessione_server, welcome_message, send_message, close_client,
     ServerType, ControlType, sets, control, Accepted
<1>2. CASE connessione_server(c)
  BY <1>1, <1>2 DEF connessione_server
<1>3. CASE welcome_message(c)
  BY <1>1, <1>3 DEF welcome_message
<1>4. CASE send_message(c)
  BY <1>1, <1>4 DEF send_message
<1>5. CASE close_client(c)
  <2>1. CASE inbox[c]
    BY <1>1, <1>5, <2>1 DEF close_client
  <2>2. CASE ~inbox[c]
    BY <1>1, <1>5, <2>2 DEF close_client
  <2> QED BY <2>1, <2>2
<1> QED BY <1>2, <1>3, <1>4, <1>5 DEF Clients

-------------------------------------------------------------------------------
(* io_multiplexing_thread.                                                 *)

LEMMA CloseType ==
  ASSUME NetType, NEW c \in Client, CloseServer(c)
  PROVE  NetType'
  BY Numbers DEF NetType, CloseServer

LEMMA AnswerType ==
  ASSUME NetType, NEW c \in Client, Answer(c), UNCHANGED <<port, fd, sent>>
  PROVE  NetType'
<1>1. CASE link[c] = "fin"
  BY <1>1, Numbers DEF NetType, Answer
<1>2. CASE link[c] # "fin"
  BY <1>2, Numbers DEF NetType, Answer
<1> QED BY <1>1, <1>2

LEMMA EntryType ==
  ASSUME ServerType, NEW k \in DOMAIN clients
  PROVE  /\ k \in 1 .. Len(clients) /\ clients[k] \in EntrySet
         /\ clients[k].socket \in FD /\ clients[k].attivo \in BOOLEAN
<1>1. k \in 1 .. Len(clients) /\ clients[k] \in EntrySet
  BY DEF ServerType
<1> QED BY <1>1 DEF EntrySet

LEMMA WatchedType == ServerType => Watched \subseteq Port \cup FD
  BY EntryType DEF Watched, Active

LEMMA ServerStep ==
  ASSUME TInv, TableInv, main \notin {"cleanup", "ended"}, io_multiplexing_thread
  PROVE  TInv'
<1> USE Numbers DEF TInv, Goto, Accepted
<1>0. ControlType'
  BY DEF io_multiplexing_thread, while, select, accept, enter, welcome, scan, recv,
     reply, ControlType, control
<1>1. CASE while
  <2>1. max_fd' \in Port \cup FD
    BY <1>1, WatchedType DEF while, ServerType
  <2>2. NetType'
    BY <1>1 DEF while, net, NetType
  <2> QED BY <1>0, <1>1, <2>1, <2>2 DEF while, ServerType
<1>2. CASE select
  <2>1. reported' \subseteq Port \cup FD
    BY <1>2, WatchedType DEF select, ServerType
  <2>2. NetType'
    BY <1>2 DEF select, net, NetType
  <2> QED BY <1>0, <1>2, <2>1, <2>2 DEF select, ServerType
<1>3. CASE accept
  <2>1. CASE i = NUM_PORTS
    BY <1>0, <1>3, <2>1 DEF accept, NetType, ServerType, sets
  <2>2. CASE i # NUM_PORTS /\ i \notin reported
    BY <1>0, <1>3, <2>2 DEF accept, NetType, ServerType, sets
  <2>3. CASE i # NUM_PORTS /\ i \in reported
    <3>1. PICK c \in Client, n \in Free :
             /\ Queued(c) /\ fd' = [fd EXCEPT ![c] = n] /\ got' = c
             /\ link' = [link EXCEPT ![c] = IF @ = "backlog" THEN "open" ELSE @]
      BY <1>3, <2>3 DEF accept
    <3>2. NetType'
      BY <1>3, <3>1 DEF accept, NetType, Free
    <3>3. i \in Port /\ fd'[c] \in FD
      BY <1>3, <2>3, <3>1 DEF accept, ServerType, NetType, Port, Free
    <3> QED BY <1>0, <1>3, <2>3, <3>1, <3>2, <3>3 DEF accept, ServerType, sets
  <2> QED BY <2>1, <2>2, <2>3
<1>4. CASE enter
  <2>0. i + 1 \in 0 .. NUM_PORTS /\ got \in Client
    BY <1>4 DEF enter, ServerType, Port
  <2>1. CASE Len(clients) >= MAX_CLIENTS
    <3>1. NetType'
      BY <1>4, <2>0, <2>1, CloseType DEF enter
    <3> QED BY <1>0, <1>4, <2>0, <2>1, <3>1 DEF enter, ServerType, sets
  <2>2. CASE ~(Len(clients) >= MAX_CLIENTS)
    <3>1. Entry(got) \in EntrySet
      <4>1. fd[got] \in FD
        BY <1>4, <2>0 DEF enter, ServerType, NetType, Accepted
      <4> QED BY <2>0, <4>1 DEF Entry, EntrySet, NetType
    <3>2. clients' \in Seq(EntrySet) /\ Len(clients') <= MAX_CLIENTS
      BY <1>4, <2>2, <3>1 DEF enter, ServerType
    <3>3. NetType'
      BY <1>4, <2>2 DEF enter, net, NetType
    <3> QED BY <1>0, <1>4, <2>2, <3>2, <3>3 DEF enter, ServerType, sets
  <2> QED BY <2>1, <2>2
<1>5. CASE welcome
  <2>1. i + 1 \in 0 .. NUM_PORTS /\ got \in Client
    BY <1>5 DEF welcome, ServerType, Port
  <2>2. NetType'
    BY <1>5, <2>1, AnswerType DEF welcome
  <2> QED BY <1>0, <1>5, <2>1, <2>2 DEF welcome, ServerType, sets
<1>6. CASE scan
  <2>1. NetType'
    BY <1>6 DEF scan, net, NetType
  <2>2. UNCHANGED <<clients, max_fd>> /\ i \in 1 .. Len(clients) + 1
    BY <1>6 DEF scan, ServerType
  <2>3. CASE i > Len(clients)
    <3>1. mutex' = FALSE /\ Goto("while") /\ i' = 0 /\ reported' = {}
      BY <1>6, <2>3 DEF scan
    <3>2. 0 \in 0 .. NUM_PORTS /\ reported' \subseteq Port \cup FD
      BY <3>1
    <3>3. io' = "while" /\ i' \in 0 .. NUM_PORTS /\ mutex' \in BOOLEAN
      BY <3>1, <3>2
    <3>4. clients' \in Seq(EntrySet) /\ Len(clients') <= MAX_CLIENTS /\ max_fd' \in Port \cup FD
      BY <2>2 DEF ServerType
    <3> QED BY <1>0, <2>1, <3>2, <3>3, <3>4 DEF ServerType
  <2>4. CASE ~(i > Len(clients)) /\ clients[i].attivo /\ clients[i].socket \in reported
    <3>1. /\ Goto("recv") /\ UNCHANGED <<i, mutex, reported>>
          /\ got' = Owner(clients[i].socket)
      BY <1>6, <2>4 DEF scan
    <3>2. i \in 1 .. Len(clients)
      BY <2>2, <2>4 DEF ServerType
    <3>3. got' \in Client
      <4>1. i \in Active
        BY <2>4, <3>2 DEF ServerType, Active
      <4> QED BY <3>1, <4>1, OwnerType
    <3> QED BY <1>0, <2>1, <2>2, <3>1, <3>2, <3>3 DEF ServerType
  <2>5. CASE ~(i > Len(clients)) /\ ~(clients[i].attivo /\ clients[i].socket \in reported)
    <3>1. i' = i + 1 /\ UNCHANGED <<io, got, mutex, reported>>
      BY <1>6, <2>5 DEF scan
    <3>2. i + 1 \in 1 .. Len(clients) + 1 /\ io = "scan"
      BY <1>6, <2>2, <2>5 DEF scan, ServerType
    <3> QED BY <1>0, <2>1, <2>2, <3>1, <3>2 DEF ServerType
  <2> QED BY <2>3, <2>4, <2>5
<1>7. CASE recv
  <2>0. i \in 1 .. Len(clients) /\ got \in Client
    BY <1>7 DEF recv, ServerType
  <2>1. CASE unread[got] > 0
    <3>1. /\ unread' = [unread EXCEPT ![got] = 0] /\ Goto("reply")
          /\ UNCHANGED <<link, port, fd, sent, inbox, clients, i, sets, got, mutex>>
      BY <1>7, <2>1 DEF recv
    <3>2. NetType'
      BY <2>0, <3>1 DEF NetType
    <3> QED BY <1>0, <2>0, <3>1, <3>2 DEF ServerType, sets
  <2>2. CASE unread[got] = 0
    <3>1. /\ CloseServer(got) /\ Goto("scan") /\ i' = i + 1
          /\ clients' = [clients EXCEPT ![i].attivo = FALSE]
          /\ UNCHANGED <<sets, got, mutex>>
      BY <1>7, <2>2 DEF recv
    <3>2. NetType'
      BY <2>0, <3>1, CloseType
    <3>3. [clients[i] EXCEPT !.attivo = FALSE] \in EntrySet
      <4>1. i \in DOMAIN clients
        BY <2>0 DEF ServerType
      <4>2. clients[i] \in EntrySet
        BY <4>1, EntryType
      <4> QED BY <4>2 DEF EntrySet
    <3>4. /\ clients' \in Seq(EntrySet) /\ Len(clients') = Len(clients)
      BY <2>0, <3>1, <3>3 DEF ServerType
    <3> QED BY <1>0, <2>0, <3>1, <3>2, <3>4 DEF ServerType, sets
  <2> QED BY <1>7, <2>0, <2>1, <2>2 DEF NetType
<1>8. CASE reply
  <2>1. i \in 1 .. Len(clients) /\ got \in Client
    BY <1>8 DEF reply, ServerType
  <2>2. NetType'
    BY <1>8, <2>1, AnswerType DEF reply
  <2> QED BY <1>0, <1>8, <2>1, <2>2 DEF reply, ServerType, sets
<1> QED
  BY <1>1, <1>2, <1>3, <1>4, <1>5, <1>6, <1>7, <1>8 DEF io_multiplexing_thread

-------------------------------------------------------------------------------
(* main and the signals.                                                   *)

LEMMA MainStep ==
  ASSUME TInv, main_thread
  PROVE  TInv'
<1> USE DEF TInv, control
<1>1. CASE stampa_statistiche
  BY <1>1 DEF stampa_statistiche, NetType, ServerType, ControlType, net, sets, Accepted
<1>2. CASE join
  BY <1>2 DEF join, NetType, ServerType, ControlType, net, sets, Accepted
<1>3. CASE cleanup
  <2>1. NetType'
    BY <1>3, Numbers DEF cleanup, NetType
  <2>2. io = "ended"
    BY <1>3 DEF cleanup, ControlType
  <2> QED BY <1>3, <2>1, <2>2 DEF cleanup, ServerType, ControlType, sets
<1> QED BY <1>1, <1>2, <1>3 DEF main_thread

LEMMA SignalStep ==
  ASSUME TInv, NEW t \in {"io", "main"}, signal_handler(t)
  PROVE  TInv'
<1>1. UNCHANGED <<net, clients, sets, io, i, got, mutex, main>>
  BY DEF signal_handler
<1>2. continua_esecuzione' \in BOOLEAN /\ hung' \subseteq {"io", "main"}
  BY DEF signal_handler, TInv, ControlType
<1>3. NetType'
  BY <1>1 DEF TInv, NetType, net
<1>4. ServerType'
  BY <1>1 DEF TInv, ServerType, sets, net, Accepted
<1> QED BY <1>1, <1>2, <1>3, <1>4 DEF TInv, ControlType

-------------------------------------------------------------------------------
(* The table.                                                              *)

\* A step that leaves the descriptors, the ports and the table as they are.
LEMMA SameTable ==
  ASSUME TableInv, UNCHANGED <<clients, fd, port, main>>, io # "enter",
         \A c \in Client : link[c] # "none" => link'[c] # "none"
  PROVE  /\ \A c, d \in Client : Accepted(c)' /\ fd'[c] = fd'[d] => c = d
         /\ \A c \in Client : Accepted(c)' => link'[c] # "none"
         /\ TableIsTheConnections'
  BY DEF TableInv, TableIsTheConnections, Accepted, Active

LEMMA ClientsTable ==
  ASSUME TInv, TableInv, NEW c \in Client, Clients(c)
  PROVE  TableInv'
<1>1. UNCHANGED <<fd, clients, io, i, got, main>>
  BY DEF Clients, connessione_server, welcome_message, send_message, close_client, control
<1>2. \A d \in Client : link[d] # "none" => link'[d] # "none"
  BY DEF Clients, connessione_server, welcome_message, send_message, close_client,
     TInv, NetType
<1>3. \A d \in Client : Accepted(d) => port'[d] = port[d]
  BY DEF Clients, connessione_server, welcome_message, send_message, close_client,
     TInv, NetType, TableInv
<1>4. \A k \in Active : clients[k].socket # NONE
  BY EntryType, Numbers DEF Active, TInv
<1>5. Active' = Active /\ Sockets' = Sockets
  BY <1>1 DEF Active, Sockets
<1>6. TableIsTheConnections'
  BY <1>1, <1>3, <1>4, <1>5 DEF TableInv, TableIsTheConnections, Accepted
<1> QED BY <1>1, <1>2, <1>5, <1>6 DEF TableInv, Accepted

LEMMA AcceptTable ==
  ASSUME TInv, TableInv, main # "ended", NEW c \in Client, NEW n \in Free,
         io = "accept", Queued(c), fd' = [fd EXCEPT ![c] = n], got' = c, io' = "enter",
         link' = [link EXCEPT ![c] = IF @ = "backlog" THEN "open" ELSE @],
         UNCHANGED <<clients, port, main>>
  PROVE  TableInv'
<1>1. /\ ~Accepted(c) /\ link'[c] # "none" /\ n # NONE
      /\ \A d \in Client : fd'[d] = IF d = c THEN n ELSE fd[d]
      /\ \A d \in Client : fd[d] # n
      /\ \A d \in Client \ {c} : link'[d] = link[d]
  BY Numbers DEF Queued, Free, TInv, NetType
<1>2. \A k \in Active : clients[k].socket # NONE
  BY EntryType, Numbers DEF Active, TInv
<1>3. Active' = Active /\ Sockets' = Sockets
  BY DEF Active, Sockets
<1>4. fd'[got'] \notin Sockets'
  BY <1>1, <1>3 DEF TableInv, TableIsTheConnections, Sockets
<1>5. TableIsTheConnections'
  BY <1>1, <1>2, <1>3 DEF TableInv, TableIsTheConnections, Accepted
<1> QED BY <1>1, <1>4, <1>5 DEF TableInv, Accepted

LEMMA CloseFacts ==
  ASSUME TInv, NEW c \in Client, CloseServer(c)
  PROVE  \A d \in Client : /\ fd'[d] = IF d = c THEN NONE ELSE fd[d]
                           /\ d # c => link'[d] = link[d] /\ port'[d] = port[d]
  BY DEF CloseServer, TInv, NetType

LEMMA RefuseTable ==
  ASSUME TInv, TableInv, main # "ended", io = "enter", CloseServer(got), io' = "accept",
         UNCHANGED <<clients, main>>
  PROVE  TableInv'
<1>1. got \in Client
  BY DEF TInv, ServerType
<1>2. Active' = Active
  BY DEF Active
<1>3. \A k \in Active : clients[k].socket # NONE /\ clients[k].socket # fd[got]
  BY EntryType, Numbers DEF Active, TInv, TableInv, Sockets
<1>4. TableIsTheConnections'
  BY <1>1, <1>2, <1>3, CloseFacts DEF TableInv, TableIsTheConnections, Accepted
<1> QED BY <1>1, <1>4, CloseFacts DEF TableInv, Accepted

LEMMA EnterTable ==
  ASSUME TInv, TableInv, main # "ended", io = "enter", io' = "welcome",
         clients' = Append(clients, Entry(got)), UNCHANGED <<net, main>>
  PROVE  TableInv'
<1> DEFINE l == Len(clients) + 1
<1>1. got \in Client /\ Len(clients) \in Nat /\ DOMAIN clients = 1 .. Len(clients)
  BY DEF TInv, ServerType
<1>2. /\ DOMAIN clients' = 1 .. l /\ clients'[l] = Entry(got)
      /\ \A k \in 1 .. Len(clients) : clients'[k] = clients[k]
  BY <1>1 DEF TInv, ServerType
<1>3. /\ Entry(got).attivo /\ Entry(got).socket = fd[got]
      /\ Entry(got).porta = port[got]
  BY DEF Entry
<1>4. Active' = Active \cup {l} /\ l \notin Active /\ Active \subseteq 1 .. Len(clients)
  BY <1>1, <1>2, <1>3 DEF Active
<1>5. \A k \in Active : clients[k].socket # fd[got] /\ clients'[k] = clients[k]
  BY <1>2, <1>4 DEF TableInv, Sockets
<1> HIDE DEF l
<1>6. ASSUME NEW k \in Active', NEW n \in Active', clients'[k].socket = clients'[n].socket
      PROVE  k = n
  BY <1>2, <1>3, <1>4, <1>5, <1>6 DEF TableInv, TableIsTheConnections
<1>7. ASSUME NEW k \in Active'
      PROVE  \E c \in Client : fd'[c] = clients'[k].socket /\ port'[c] = clients'[k].porta
  BY <1>1, <1>2, <1>3, <1>4, <1>5 DEF TableInv, TableIsTheConnections, net
<1>8. ASSUME NEW c \in Client, Accepted(c)'
      PROVE  \E k \in Active' : clients'[k].socket = fd'[c]
  <2>1. Accepted(c) /\ fd'[c] = fd[c]
    BY <1>8 DEF Accepted, net
  <2>2. CASE c = got
    BY <1>2, <1>3, <1>4, <2>1, <2>2
  <2>3. CASE c # got
    BY <1>4, <1>5, <2>1, <2>3 DEF TableInv, TableIsTheConnections
  <2> QED BY <2>2, <2>3
<1>9. TableIsTheConnections'
  BY <1>6, <1>7, <1>8 DEF TableIsTheConnections
<1> QED BY <1>9 DEF TableInv, Accepted, net

LEMMA GoneTable ==
  ASSUME TInv, TableInv, main # "ended", io = "recv", CloseServer(got),
         clients' = [clients EXCEPT ![i].attivo = FALSE], io' = "scan", UNCHANGED main
  PROVE  TableInv'
<1>1. got \in Client /\ i \in Active /\ clients[i].socket = fd[got]
  BY DEF TInv, ServerType, TableInv
<1>2. DOMAIN clients' = DOMAIN clients
  OBVIOUS
<1>3. \A k \in DOMAIN clients : k # i => clients'[k] = clients[k]
  OBVIOUS
<1>4. ~clients'[i].attivo
  <2>1. i \in DOMAIN clients
    BY <1>1 DEF Active
  <2>2. clients[i] \in EntrySet
    BY <2>1, EntryType DEF TInv
  <2> QED BY <2>1, <2>2 DEF EntrySet
<1>5. Active' = Active \ {i}
  BY <1>2, <1>3, <1>4 DEF Active
<1>6. \A k \in Active \ {i} : /\ clients'[k] = clients[k] /\ clients[k].socket # NONE
                             /\ clients[k].socket # fd[got]
  BY <1>1, <1>3, EntryType, Numbers DEF Active, TInv, TableInv, TableIsTheConnections
<1>7. ASSUME NEW k \in Active'
      PROVE  \E c \in Client : fd'[c] = clients'[k].socket /\ port'[c] = clients'[k].porta
  <2>1. PICK c \in Client : fd[c] = clients[k].socket /\ port[c] = clients[k].porta
    BY <1>5 DEF TableInv, TableIsTheConnections
  <2> QED BY <1>1, <1>5, <1>6, <2>1, CloseFacts
<1>8. ASSUME NEW c \in Client, Accepted(c)'
      PROVE  \E k \in Active' : clients'[k].socket = fd'[c]
  <2>1. c # got /\ Accepted(c) /\ fd'[c] = fd[c]
    BY <1>1, <1>8, CloseFacts DEF Accepted
  <2>2. PICK k \in Active : clients[k].socket = fd[c]
    BY <2>1 DEF TableInv, TableIsTheConnections
  <2>3. k # i
    BY <1>1, <2>1, <2>2 DEF TableInv, Accepted
  <2> QED BY <1>5, <1>6, <2>1, <2>2, <2>3
<1>9. TableIsTheConnections'
  BY <1>5, <1>6, <1>7, <1>8 DEF TableIsTheConnections, TableInv
<1> QED BY <1>1, <1>9, CloseFacts DEF TableInv, Accepted

LEMMA ServerTable ==
  ASSUME TInv, TableInv, main \notin {"cleanup", "ended"}, io_multiplexing_thread
  PROVE  TableInv'
<1> USE DEF Goto
<1>0. UNCHANGED main
  BY DEF io_multiplexing_thread, while, select, accept, enter, welcome, scan, recv,
     reply, control
<1>1. CASE while \/ select
  <2>1. UNCHANGED net /\ UNCHANGED clients /\ io # "enter" /\ io' \notin {"enter", "recv"}
    BY <1>1 DEF while, select
  <2> QED BY <1>0, <2>1, SameTable DEF TableInv, net
<1>2. CASE accept
  <2>1. CASE i # NUM_PORTS /\ i \in reported
    BY <1>0, <1>2, <2>1, AcceptTable DEF accept
  <2>2. CASE ~(i # NUM_PORTS /\ i \in reported)
    <3>1. UNCHANGED <<fd, link, port, clients>> /\ io = "accept" /\ io' \in {"accept", "scan"}
      BY <1>2, <2>2 DEF accept
    <3> QED BY <1>0, <3>1, SameTable DEF TableInv
  <2> QED BY <2>1, <2>2
<1>3. CASE enter
  <2>1. CASE Len(clients) >= MAX_CLIENTS
    BY <1>0, <1>3, <2>1, RefuseTable DEF enter
  <2>2. CASE ~(Len(clients) >= MAX_CLIENTS)
    BY <1>0, <1>3, <2>2, EnterTable DEF enter
  <2> QED BY <2>1, <2>2
<1>4. CASE welcome \/ reply
  <2>1. /\ UNCHANGED <<fd, port, clients>> /\ io # "enter" /\ io' \notin {"enter", "recv"}
        /\ Answer(got)
    BY <1>4 DEF welcome, reply
  <2>2. \A c \in Client : link[c] # "none" => link'[c] # "none"
    BY <2>1 DEF Answer, TInv, NetType
  <2> QED BY <1>0, <2>1, <2>2, SameTable DEF TableInv
<1>5. CASE scan
  <2>1. UNCHANGED <<net, clients>> /\ io = "scan" /\ io' \in {"while", "recv", "scan"}
    BY <1>5 DEF scan
  <2>2. io' = "recv" => i' \in Active' /\ clients'[i'].socket = fd'[got']
    <3> SUFFICES ASSUME io' = "recv" PROVE i' \in Active' /\ clients'[i'].socket = fd'[got']
      OBVIOUS
    <3>1. /\ ~(i > Len(clients)) /\ clients[i].attivo /\ i' = i
          /\ got' = Owner(clients[i].socket)
      BY <1>5 DEF scan
    <3>2. i \in Active
      BY <1>5, <3>1 DEF Active, TInv, ServerType, scan
    <3>3. Active' = Active /\ fd' = fd
      BY <2>1 DEF Active, net
    <3> QED BY <2>1, <3>1, <3>2, <3>3, OwnerType
  <2> QED BY <1>0, <2>1, <2>2, SameTable DEF TableInv, net
<1>6. CASE recv
  <2>1. CASE unread[got] > 0
    <3>1. got \in Client /\ unread[got] # 0
      BY <1>6, <2>1 DEF recv, TInv, ServerType
    <3>2. UNCHANGED <<fd, link, port, clients>> /\ io = "recv" /\ io' = "reply"
      BY <1>6, <3>1 DEF recv
    <3> QED BY <1>0, <3>2, SameTable DEF TableInv
  <2>2. CASE ~(unread[got] > 0)
    <3>1. /\ CloseServer(got) /\ io = "recv" /\ io' = "scan"
          /\ clients' = [clients EXCEPT ![i].attivo = FALSE]
      BY <1>6, <2>2 DEF recv
    <3> QED BY <1>0, <3>1, GoneTable
  <2> QED BY <2>1, <2>2
<1> QED BY <1>1, <1>2, <1>3, <1>4, <1>5, <1>6 DEF io_multiplexing_thread

LEMMA MainTable ==
  ASSUME TInv, TableInv, main_thread
  PROVE  TableInv'
<1>1. CASE stampa_statistiche \/ join
  <2>1. UNCHANGED <<net, clients, io, i, got>> /\ main # "ended" /\ main' # "ended"
    BY <1>1 DEF stampa_statistiche, join
  <2>2. Active' = Active /\ Sockets' = Sockets
    BY <2>1 DEF Active, Sockets
  <2> QED BY <2>1, <2>2 DEF TableInv, TableIsTheConnections, Accepted, net
<1>2. CASE cleanup
  <2>1. io = "ended" /\ io' = "ended" /\ main = "cleanup" /\ main' = "ended"
    BY <1>2 DEF cleanup, TInv, ControlType
  <2>2. ASSUME NEW c \in Client PROVE ~Accepted(c)'
    <3>1. Accepted(c) => fd[c] \in {clients[k].socket : k \in Active}
      BY <2>1 DEF TableInv, TableIsTheConnections
    <3> QED BY <1>2, <3>1 DEF cleanup, Accepted
  <2> QED BY <2>1, <2>2 DEF TableInv, TableIsTheConnections
<1> QED BY <1>1, <1>2 DEF main_thread

-------------------------------------------------------------------------------
(* What is ready stays ready.                                              *)

\* recv on its socket would return at once.
Has(c) == unread[c] > 0 \/ link[c] \in {"fin", "rst"}

\* What select has reported and is not yet handled can be handled without
\* waiting: a port still has a connection in its queue, and no descriptor that
\* is reported is free to be given to a new connection before the table is
\* gone through.
ReadyInv ==
    /\ io \in {"accept", "enter", "welcome"} =>
       /\ \A n \in reported \cap Port :
             n > i \/ (io = "accept" /\ n = i)
             => \E c \in Client : Queued(c) /\ port[c] = n
       /\ reported \cap FD \subseteq Sockets
       /\ \A c \in Client : fd[c] \in reported => Has(c)
    /\ io \in {"scan", "recv", "reply"} =>
       \A k \in Active, c \in Client :
          /\ clients[k].socket \in reported /\ fd[c] = clients[k].socket
          /\ k > i \/ (io # "reply" /\ k = i)
          => Has(c)
    /\ io = "recv" => clients[i].socket \in reported

LEMMA ReadyInit == Init => ReadyInv
  BY DEF Init, ReadyInv

LEMMA SocketTypes ==
  ASSUME TInv
  PROVE  /\ NONE \notin reported /\ NONE \notin Port
         /\ \A n \in Port : n \notin FD
         /\ \A k \in Active : clients[k].socket \in FD /\ k \in 1 .. Len(clients)
<1>1. NONE \notin Port /\ \A n \in Port : n \notin FD
  BY Numbers DEF Port, FD, NONE
<1>2. \A k \in Active : clients[k].socket \in FD /\ k \in 1 .. Len(clients)
  BY EntryType DEF Active, TInv
<1> QED BY <1>1, <1>2, Numbers DEF TInv, ServerType

\* A step that leaves the table and the thread where they are, and takes no
\* connection out of a queue and nothing out of a socket.
LEMMA ReadyFrame ==
  ASSUME TInv, ReadyInv, UNCHANGED <<clients, fd, reported, io, i>>,
         \A c \in Client : Queued(c) => Queued(c)' /\ port'[c] = port[c],
         \A c \in Client : Accepted(c) /\ Has(c) => Has(c)'
  PROVE  ReadyInv'
<1>1. Active' = Active /\ Sockets' = Sockets
  BY DEF Active, Sockets
<1>2. \A c \in Client : (fd[c] \in reported \/ fd[c] \in Sockets) => Accepted(c)
  BY SocketTypes, Numbers DEF Sockets, Accepted
<1>3. io \in {"accept", "enter", "welcome"} =>
       /\ \A n \in reported \cap Port :
             n > i \/ (io = "accept" /\ n = i)
             => \E c \in Client : Queued(c)' /\ port'[c] = n
       /\ reported \cap FD \subseteq Sockets
       /\ \A c \in Client : fd[c] \in reported => Has(c)'
  BY <1>2 DEF ReadyInv
<1>4. io \in {"scan", "recv", "reply"} =>
       \A k \in Active, c \in Client :
          /\ clients[k].socket \in reported /\ fd[c] = clients[k].socket
          /\ k > i \/ (io # "reply" /\ k = i)
          => Has(c)'
  BY <1>2 DEF ReadyInv, Sockets
<1> QED BY <1>1, <1>3, <1>4 DEF ReadyInv

LEMMA ClientsReady ==
  ASSUME TInv, TableInv, ReadyInv, NEW c \in Client, Clients(c)
  PROVE  ReadyInv'
<1> USE DEF TInv, NetType
<1>1. UNCHANGED <<clients, fd, reported, io, i>>
  BY DEF Clients, connessione_server, welcome_message, send_message,
     close_client, sets
<1>2. ASSUME NEW d \in Client, Queued(d)
      PROVE  Queued(d)' /\ port'[d] = port[d]
  BY <1>2 DEF Queued, Accepted, Clients, connessione_server, welcome_message,
     send_message, close_client
<1>3. ASSUME NEW d \in Client, Accepted(d), Has(d)
      PROVE  Has(d)'
  <2>1. link[d] # "none" /\ unread[d] \in Nat
    BY <1>3, Numbers DEF TableInv
  <2>2. CASE connessione_server(c) \/ welcome_message(c)
    BY <1>3, <2>1, <2>2 DEF Has, connessione_server, welcome_message
  <2>3. CASE send_message(c)
    BY <1>3, <2>1, <2>3 DEF Has, send_message
  <2>4. CASE close_client(c)
    <3>1. d # c => unread'[d] = unread[d] /\ link'[d] = link[d]
      BY <2>4 DEF close_client
    <3>2. link'[c] \in {"fin", "rst"}
      BY <2>4 DEF close_client
    <3> QED BY <1>3, <3>1, <3>2 DEF Has
  <2> QED BY <2>2, <2>3, <2>4 DEF Clients
<1> QED BY <1>1, <1>2, <1>3, ReadyFrame

LEMMA SelectReady ==
  ASSUME TInv, TableInv, ReadyInv, main # "ended", select
  PROVE  ReadyInv'
<1> DEFINE found == {n \in Watched \cap Ready : n <= max_fd}
<1>1. CASE found = {}
  BY <1>1 DEF select, Goto, ReadyInv
<1>2. CASE found # {}
  <2>1. /\ reported' = found /\ io' = "accept"
        /\ UNCHANGED <<clients, fd, link, port, unread, i>>
    BY <1>2 DEF select, Goto, net
  <2>2. Active' = Active /\ Sockets' = Sockets
    BY <2>1 DEF Active, Sockets
  <2>3. ASSUME NEW n \in found \cap Port
        PROVE  \E c \in Client : Queued(c)' /\ port'[c] = n
    <3>1. \A c \in Client : Accepted(c) => fd[c] # n
      BY Numbers, SocketTypes DEF TInv, NetType, Accepted
    <3>2. \E c \in Client : Queued(c) /\ port[c] = n
      BY <2>3, <3>1 DEF Ready
    <3> QED BY <2>1, <3>2 DEF Queued, Accepted
  <2>4. found \cap FD \subseteq Sockets
    BY SocketTypes DEF Watched, Sockets
  <2>5. ASSUME NEW c \in Client, fd[c] \in found
        PROVE  Has(c)'
    <3>1. fd[c] \in FD
      BY <2>5, SocketTypes, Numbers, WatchedType DEF TInv, NetType
    <3>2. Accepted(c) /\ fd[c] \notin Port
      BY <3>1, SocketTypes, Numbers DEF Accepted
    <3>3. PICK d \in Client : Accepted(d) /\ fd[d] = fd[c] /\ Has(d)
      BY <2>5, <3>2 DEF Ready, Has
    <3>4. d = c
      BY <3>3 DEF TableInv
    <3> QED BY <2>1, <3>3, <3>4 DEF Has
  <2> QED BY <2>1, <2>2, <2>3, <2>4, <2>5 DEF ReadyInv
<1> QED BY <1>1, <1>2

LEMMA AcceptReady ==
  ASSUME TInv, TableInv, ReadyInv, main # "ended", accept
  PROVE  ReadyInv'
<1> USE DEF Goto
<1>0. /\ io = "accept" /\ i \in 0 .. NUM_PORTS
      /\ UNCHANGED <<clients, reported, port, unread>>
  BY DEF accept, TInv, ServerType, sets
<1>1. Active' = Active /\ Sockets' = Sockets
  BY <1>0 DEF Active, Sockets
<1>2. CASE i = NUM_PORTS
  <2>1. io' = "scan" /\ i' = 1 /\ UNCHANGED <<fd, link>>
    BY <1>2 DEF accept
  <2>2. \A k \in Active, c \in Client :
           clients[k].socket \in reported /\ fd[c] = clients[k].socket => Has(c)'
    BY <1>0, <2>1 DEF ReadyInv, Has
  <2> QED BY <1>0, <1>1, <2>1, <2>2 DEF ReadyInv
<1>3. CASE i # NUM_PORTS /\ i \notin reported
  <2>1. io' = "accept" /\ i' = i + 1 /\ UNCHANGED <<fd, link>>
    BY <1>0, <1>3 DEF accept
  <2>2. ASSUME NEW n \in reported \cap Port, n >= i + 1
        PROVE  \E c \in Client : Queued(c)' /\ port'[c] = n
    <3>0. n \in Int /\ i \in Int
      <4>1. i \in Int /\ \A m \in Port : m \in Int
        BY <1>0, Numbers
      <4> QED BY <4>1
    <3>1. n > i
      BY <2>2, <3>0
    <3>2. \E c \in Client : Queued(c) /\ port[c] = n
      BY <1>0, <3>1 DEF ReadyInv
    <3> QED BY <1>0, <2>1, <3>2 DEF Queued, Accepted
  <2>3. \A n \in reported \cap Port : n > i + 1 \/ n = i + 1 => n >= i + 1
    <3>1. i \in Int /\ \A n \in Port : n \in Int
      BY <1>0, Numbers
    <3> QED BY <3>1
  <2>4. \A c \in Client : fd'[c] \in reported' => Has(c)'
    BY <1>0, <2>1 DEF ReadyInv, Has
  <2> QED BY <1>0, <1>1, <2>1, <2>2, <2>3, <2>4 DEF ReadyInv
<1>4. CASE i # NUM_PORTS /\ i \in reported
  <2>1. PICK c \in Client, n \in Free :
           /\ Queued(c) /\ port[c] = i /\ fd' = [fd EXCEPT ![c] = n]
           /\ link' = [link EXCEPT ![c] = IF @ = "backlog" THEN "open" ELSE @]
    BY <1>4 DEF accept
  <2>2. io' = "enter" /\ i' = i
    BY <1>4 DEF accept
  <2>3. /\ n \in FD /\ \A d \in Client : fd'[d] = IF d = c THEN n ELSE fd[d]
        /\ \A d \in Client \ {c} : link'[d] = link[d]
    BY <2>1 DEF Free, TInv, NetType
  <2>4. n \notin reported
    <3>1. n \notin Sockets
      BY <1>0, <2>1 DEF Free, TableInv, TableIsTheConnections, Sockets
    <3> QED BY <1>0, <2>3, <3>1 DEF ReadyInv
  <2>5. ASSUME NEW m \in reported \cap Port, m > i
        PROVE  \E d \in Client : Queued(d)' /\ port'[d] = m
    <3>1. PICK d \in Client : Queued(d) /\ port[d] = m
      BY <1>0, <2>5 DEF ReadyInv
    <3>2. d # c
      BY <1>0, <2>1, <2>5, <3>1, Numbers
    <3>3. Queued(d)' /\ port'[d] = m
      BY <1>0, <2>3, <3>1, <3>2 DEF Queued, Accepted
    <3> QED BY <3>3
  <2>6. \A d \in Client : fd'[d] \in reported' => Has(d)'
    BY <1>0, <2>3, <2>4 DEF ReadyInv, Has
  <2> QED BY <1>0, <1>1, <2>2, <2>5, <2>6 DEF ReadyInv
<1> QED BY <1>2, <1>3, <1>4

LEMMA EnterReady ==
  ASSUME TInv, TableInv, ReadyInv, main # "ended", enter
  PROVE  ReadyInv'
<1> USE DEF Goto
<1>0. io = "enter" /\ i \in Port /\ got \in Client /\ UNCHANGED reported
  BY DEF enter, TInv, ServerType, sets
<1>1. fd[got] \notin Sockets /\ Accepted(got) /\ fd[got] \in FD
  BY <1>0 DEF TableInv, TInv, ServerType, NetType, Accepted
<1>2. fd[got] \notin reported
  BY <1>0, <1>1 DEF ReadyInv
<1>3. CASE Len(clients) >= MAX_CLIENTS
  <2>1. CloseServer(got) /\ io' = "accept" /\ i' = i + 1 /\ UNCHANGED clients
    BY <1>3 DEF enter
  <2>2. Active' = Active /\ Sockets' = Sockets
    BY <2>1 DEF Active, Sockets
  <2>3. \A d \in Client : /\ fd'[d] = IF d = got THEN NONE ELSE fd[d]
                          /\ d # got => /\ link'[d] = link[d]
                                        /\ port'[d] = port[d]
                                        /\ unread'[d] = unread[d]
    BY <1>0, <2>1 DEF CloseServer, TInv, NetType
  <2>4. ASSUME NEW n \in reported \cap Port, n > i
        PROVE  \E c \in Client : Queued(c)' /\ port'[c] = n
    <3>1. PICK c \in Client : Queued(c) /\ port[c] = n
      BY <1>0, <2>4 DEF ReadyInv
    <3>2. c # got
      BY <1>1, <3>1 DEF Queued
    <3>3. Queued(c)' /\ port'[c] = n
      BY <2>3, <3>1, <3>2 DEF Queued, Accepted
    <3> QED BY <3>3
  <2>5. \A n \in Port : n > i + 1 \/ n = i + 1 => n > i
    BY <1>0, Numbers
  <2>6. \A c \in Client : fd'[c] \in reported' => Has(c)'
    BY <1>0, <2>3, SocketTypes DEF ReadyInv, Has
  <2> QED BY <1>0, <2>1, <2>2, <2>4, <2>5, <2>6 DEF ReadyInv
<1>4. CASE ~(Len(clients) >= MAX_CLIENTS)
  <2>1. clients' = Append(clients, Entry(got)) /\ io' = "welcome"
        /\ UNCHANGED <<fd, link, port, unread, i>>
    BY <1>4 DEF enter, net
  <2>2. Sockets \subseteq Sockets'
    <3> SUFFICES ASSUME NEW k \in Active
                 PROVE  k \in Active' /\ clients'[k] = clients[k]
      BY DEF Sockets
    <3>1. k \in 1 .. Len(clients) /\ clients[k].attivo
      BY SocketTypes DEF Active
    <3>2. k \in 1 .. Len(clients') /\ DOMAIN clients' = 1 .. Len(clients')
          /\ clients'[k] = clients[k]
      BY <2>1, <3>1 DEF TInv, ServerType
    <3> QED BY <3>1, <3>2 DEF Active
  <2>3. \A c \in Client : (Queued(c) => Queued(c)') /\ (Has(c) => Has(c)')
    BY <2>1 DEF Queued, Accepted, Has
  <2> QED BY <1>0, <2>1, <2>2, <2>3 DEF ReadyInv
<1> QED BY <1>3, <1>4

\* An answer takes nothing out of a queue, and what it may lose it replaces by
\* the end of the connection.
LEMMA AnswerKeeps ==
  ASSUME TInv, NEW c \in Client, Answer(c), UNCHANGED <<port, fd>>
  PROVE  /\ \A d \in Client : Queued(d) => Queued(d)' /\ port'[d] = port[d]
         /\ \A d \in Client : Has(d) => Has(d)'
<1>1. CASE link[c] = "fin"
  <2>1. /\ link'[c] = "rst" /\ \A d \in Client \ {c} : link'[d] = link[d]
        /\ \A d \in Client \ {c} : unread'[d] = unread[d]
    BY <1>1 DEF Answer, TInv, NetType
  <2> QED BY <2>1 DEF Queued, Accepted, Has
<1>2. CASE link[c] # "fin"
  BY <1>2 DEF Answer, Queued, Accepted, Has
<1> QED BY <1>1, <1>2

LEMMA WelcomeReady ==
  ASSUME TInv, ReadyInv, welcome
  PROVE  ReadyInv'
<1>1. /\ io = "welcome" /\ io' = "accept" /\ i' = i + 1 /\ i \in Port
      /\ UNCHANGED <<clients, reported, fd, port>> /\ got \in Client /\ Answer(got)
  BY DEF welcome, Goto, sets, TInv, ServerType
<1>2. Active' = Active /\ Sockets' = Sockets
  BY <1>1 DEF Active, Sockets
<1>3. \A n \in Port : n > i + 1 \/ n = i + 1 => n > i
  BY <1>1, Numbers
<1>4. \A d \in Client : /\ Queued(d) => Queued(d)' /\ port'[d] = port[d]
                        /\ Has(d) => Has(d)'
  BY <1>1, AnswerKeeps
<1> QED BY <1>1, <1>2, <1>3, <1>4 DEF ReadyInv

LEMMA ScanReady ==
  ASSUME TInv, TableInv, ReadyInv, main # "ended", scan
  PROVE  ReadyInv'
<1> USE DEF Goto
<1>0. /\ io = "scan" /\ i \in 1 .. Len(clients) + 1 /\ Len(clients) \in Nat
      /\ UNCHANGED <<clients, fd, link, unread>>
  BY DEF scan, TInv, ServerType, net
<1>1. Active' = Active
  BY <1>0 DEF Active
<1>2. CASE i > Len(clients)
  BY <1>2 DEF scan, ReadyInv
<1>3. CASE ~(i > Len(clients)) /\ clients[i].attivo /\ clients[i].socket \in reported
  <2>1. io' = "recv" /\ i' = i /\ reported' = reported
    BY <1>3 DEF scan
  <2>2. \A c \in Client : Has(c) => Has(c)'
    BY <1>0 DEF Has
  <2> QED BY <1>0, <1>1, <1>3, <2>1, <2>2 DEF ReadyInv
<1>4. CASE ~(i > Len(clients)) /\ ~(clients[i].attivo /\ clients[i].socket \in reported)
  <2>1. io' = "scan" /\ i' = i + 1 /\ reported' = reported
    BY <1>0, <1>4 DEF scan
  <2>2. \A c \in Client : Has(c) => Has(c)'
    BY <1>0 DEF Has
  <2>3. \A k \in Active : k > i + 1 \/ k = i + 1 => k > i
    BY <1>0, SocketTypes
  <2> QED BY <1>0, <1>1, <2>1, <2>2, <2>3 DEF ReadyInv
<1> QED BY <1>2, <1>3, <1>4

LEMMA RecvReady ==
  ASSUME TInv, TableInv, ReadyInv, main # "ended", recv
  PROVE  ReadyInv'
<1> USE DEF Goto
<1>0. /\ io = "recv" /\ i \in 1 .. Len(clients) /\ got \in Client
      /\ i \in Active /\ clients[i].socket = fd[got] /\ UNCHANGED reported
  BY DEF recv, TInv, ServerType, TableInv, sets
<1>1. \A k \in Active : k > i => clients[k].socket # fd[got] /\ k # i
  BY <1>0, SocketTypes DEF TableInv, TableIsTheConnections
<1>2. CASE unread[got] > 0
  <2>1. unread[got] # 0
    BY <1>2
  <2>2. /\ unread' = [unread EXCEPT ![got] = 0] /\ io' = "reply"
        /\ UNCHANGED <<clients, fd, link, i>>
    BY <1>2, <2>1 DEF recv
  <2>3. Active' = Active
    BY <2>2 DEF Active
  <2>4. \A c \in Client \ {got} : Has(c) => Has(c)'
    BY <1>0, <2>2 DEF Has, TInv, NetType
  <2>5. \A k \in Active, c \in Client :
           clients[k].socket \in reported /\ fd[c] = clients[k].socket /\ k > i
           => Has(c)'
    BY <1>0, <1>1, <2>4 DEF ReadyInv
  <2> QED BY <1>0, <2>2, <2>3, <2>5 DEF ReadyInv
<1>3. CASE ~(unread[got] > 0)
  <2>1. /\ CloseServer(got) /\ io' = "scan" /\ i' = i + 1
        /\ clients' = [clients EXCEPT ![i].attivo = FALSE]
    BY <1>3 DEF recv
  <2>2. \A d \in Client : /\ fd'[d] = IF d = got THEN NONE ELSE fd[d]
                          /\ d # got => link'[d] = link[d] /\ unread'[d] = unread[d]
    BY <1>0, <2>1 DEF CloseServer, TInv, NetType
  <2>3. \A k \in Active' : k # i => k \in Active /\ clients'[k] = clients[k]
    BY <2>1 DEF Active
  <2>4. \A k \in Active' : k > i + 1 \/ k = i + 1 => k # i /\ k > i
    <3>1. \A k \in Active' : k \in Int
      <4>1. i \in Int /\ \A k \in Active : k \in Int
        BY <1>0, SocketTypes
      <4> QED BY <2>3, <4>1
    <3> QED BY <1>0, <3>1
  <2>5. ASSUME NEW k \in Active', NEW c \in Client, k > i + 1 \/ k = i + 1,
               clients'[k].socket \in reported, fd'[c] = clients'[k].socket
        PROVE  Has(c)'
    <3>1. k \in Active /\ clients'[k] = clients[k] /\ k > i
      BY <2>3, <2>4, <2>5
    <3>2. c # got /\ fd[c] = clients[k].socket
      BY <2>2, <2>5, <3>1, SocketTypes
    <3>3. Has(c)
      BY <1>0, <2>5, <3>1, <3>2 DEF ReadyInv
    <3> QED BY <2>2, <3>2, <3>3 DEF Has
  <2> QED BY <1>0, <2>1, <2>5 DEF ReadyInv
<1> QED BY <1>2, <1>3

LEMMA ReplyReady ==
  ASSUME TInv, ReadyInv, reply
  PROVE  ReadyInv'
<1>1. /\ io = "reply" /\ io' = "scan" /\ i' = i + 1 /\ i \in 1 .. Len(clients)
      /\ UNCHANGED <<clients, reported, fd, port>> /\ got \in Client /\ Answer(got)
  BY DEF reply, Goto, sets, TInv, ServerType
<1>2. Active' = Active
  BY <1>1 DEF Active
<1>3. \A k \in Active : k > i + 1 \/ k = i + 1 => k > i
  BY <1>1, SocketTypes
<1>4. \A d \in Client : Has(d) => Has(d)'
  BY <1>1, AnswerKeeps
<1> QED BY <1>1, <1>2, <1>3, <1>4 DEF ReadyInv

LEMMA MainReady ==
  ASSUME TInv, ReadyInv, main_thread
  PROVE  ReadyInv'
<1>1. CASE stampa_statistiche \/ join
  <2>1. UNCHANGED <<net, clients, reported, io, i>>
    BY <1>1 DEF stampa_statistiche, join, sets
  <2> QED BY <2>1, ReadyFrame DEF net, Queued, Accepted, Has
<1>2. CASE cleanup
  <2>1. io' = "ended"
    BY <1>2 DEF cleanup, TInv, ControlType
  <2> QED BY <2>1 DEF ReadyInv
<1> QED BY <1>1, <1>2 DEF main_thread

LEMMA ReadyStep == TInv /\ TableInv /\ ReadyInv /\ [Next]_vars => ReadyInv'
<1> SUFFICES ASSUME TInv, TableInv, ReadyInv, [Next]_vars PROVE ReadyInv'
  OBVIOUS
<1>1. CASE \E c \in Client : Clients(c)
  BY <1>1, ClientsReady
<1>2. CASE io_multiplexing_thread
  <2>1. main # "ended"
    BY <1>2 DEF io_multiplexing_thread, while, select, accept, enter, welcome,
       scan, recv, reply, TInv, ControlType
  <2>2. CASE while
    BY <2>2 DEF while, Goto, ReadyInv
  <2> QED BY <1>2, <2>1, <2>2, SelectReady, AcceptReady, EnterReady,
             WelcomeReady, ScanReady, RecvReady, ReplyReady
          DEF io_multiplexing_thread
<1>3. CASE main_thread
  BY <1>3, MainReady
<1>4. CASE (\E t \in {"io", "main"} : signal_handler(t)) \/ UNCHANGED vars
  <2>1. UNCHANGED <<net, clients, reported, io, i>>
    BY <1>4 DEF signal_handler, vars, sets
  <2> QED BY <2>1, ReadyFrame DEF net, Queued, Accepted, Has
<1> QED BY <1>1, <1>2, <1>3, <1>4 DEF Next, Clients

-------------------------------------------------------------------------------
(* The theorems.                                                           *)

LEMMA Initially == Init => TInv /\ TableInv
<1> SUFFICES ASSUME Init PROVE TInv /\ TableInv
  OBVIOUS
<1>1. NetType /\ ControlType
  BY Numbers DEF Init, NetType, ControlType
<1>2. NUM_PORTS - 1 \in Port /\ <<>> \in Seq(EntrySet) /\ Len(<<>>) = 0
  BY Numbers DEF Port
<1>3. ServerType
  <2>0. 0 \in 0 .. NUM_PORTS
    BY Numbers
  <2>1. io = "while" /\ i \in 0 .. NUM_PORTS /\ mutex \in BOOLEAN
    BY <2>0 DEF Init
  <2>2. clients \in Seq(EntrySet) /\ Len(clients) <= MAX_CLIENTS
    BY <1>2, Numbers DEF Init
  <2>3. reported \subseteq Port \cup FD /\ max_fd \in Port \cup FD
    BY <1>2 DEF Init
  <2> QED BY <2>1, <2>2, <2>3 DEF ServerType
<1>4. Active = {} /\ \A c \in Client : ~Accepted(c)
  BY DEF Init, Active, Accepted
<1> QED BY <1>1, <1>3, <1>4 DEF TInv, TableInv, TableIsTheConnections, Init

LEMMA Step == TInv /\ TableInv /\ [Next]_vars => TInv' /\ TableInv'
<1> SUFFICES ASSUME TInv, TableInv, [Next]_vars PROVE TInv' /\ TableInv'
  OBVIOUS
<1>1. CASE \E c \in Client : Clients(c)
  BY <1>1, ClientsType, ClientsTable
<1>2. CASE io_multiplexing_thread
  <2>1. io # "ended"
    BY <1>2 DEF io_multiplexing_thread, while, select, accept, enter, welcome, scan,
       recv, reply
  <2>2. main \notin {"cleanup", "ended"}
    BY <2>1 DEF TInv, ControlType
  <2> QED BY <1>2, <2>2, ServerStep, ServerTable
<1>3. CASE main_thread
  BY <1>3, MainStep, MainTable
<1>4. ASSUME NEW t \in {"io", "main"}, signal_handler(t) PROVE TInv' /\ TableInv'
  <2>1. TInv'
    BY <1>4, SignalStep
  <2>2. UNCHANGED <<net, clients, io, i, got, main>>
    BY <1>4 DEF signal_handler
  <2>3. Active' = Active /\ Sockets' = Sockets
    BY <2>2 DEF Active, Sockets
  <2> QED BY <2>1, <2>2, <2>3 DEF TableInv, TableIsTheConnections, Accepted, net
<1>5. CASE UNCHANGED vars
  <2>1. Active' = Active /\ Sockets' = Sockets
    BY <1>5 DEF Active, Sockets, vars
  <2> QED BY <1>5, <2>1 DEF vars, net, sets, control, TInv, NetType, ServerType,
      ControlType, TableInv, TableIsTheConnections, Accepted
<1> QED BY <1>1, <1>2, <1>3, <1>4, <1>5 DEF Next, Clients

\* Values stay in range, wherever the thread is in its tables.
THEOREM TypeCorrect == Spec => []TypeOK
<1>1. TInv => TypeOK
  <2> SUFFICES ASSUME TInv PROVE TypeOK
    OBVIOUS
  <2>1. i \in 0 .. NUM_PORTS \/ i \in 1 .. MAX_CLIENTS + 1
    BY Numbers DEF TInv, ServerType, Port
  <2> QED BY <2>1 DEF TInv, NetType, ServerType, ControlType, TypeOK, EntrySet
<1> QED BY <1>1, Initially, Step, PTL DEF Spec

\* The active entries are the open connections, though descriptors are reused.
THEOREM TableCorrect == Spec => []TableIsTheConnections
<1>1. TableInv => TableIsTheConnections
  BY DEF TableInv
<1> QED BY <1>1, Initially, Step, PTL DEF Spec

\* The thread calls accept and recv only where they return at once: what select
\* has reported is still there when its turn comes, whatever the clients do.
THEOREM NeverWaits == Spec => []NeverWaitsForOne
<1>1. TInv /\ TableInv /\ ReadyInv => NeverWaitsForOne
  <2> SUFFICES ASSUME TInv, TableInv, ReadyInv PROVE NeverWaitsForOne
    OBVIOUS
  <2>1. ASSUME io = "accept", i < NUM_PORTS, i \in reported
        PROVE  \E c \in Client : Queued(c) /\ port[c] = i
    <3>1. i \in Port
      BY <2>1, Numbers DEF TInv, ServerType, Port
    <3> QED BY <2>1, <3>1 DEF ReadyInv
  <2>2. ASSUME io = "recv" PROVE Has(got)
    BY <2>2 DEF ReadyInv, TableInv, TInv, ServerType
  <2> QED BY <2>1, <2>2 DEF NeverWaitsForOne, Has
<1>2. TInv /\ TableInv /\ ReadyInv /\ [Next]_vars
      => TInv' /\ TableInv' /\ ReadyInv'
  BY Step, ReadyStep
<1>3. Init => TInv /\ TableInv /\ ReadyInv
  BY Initially, ReadyInit
<1> QED BY <1>1, <1>2, <1>3, PTL DEF Spec
================================================================================
