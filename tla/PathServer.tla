------------------------------ MODULE PathServer ------------------------------
(***************************************************************************)
(* esami/server_deamon_path: a daemon forks a child for every connection;   *)
(* the child answers each path it is sent with all directories below it.   *)
(* A message is its length and then its text, in two sends.  Meanwhile     *)
(* others make and remove directories, clients leave, and the daemon is    *)
(* told to stop.  There are no symbolic links, paths and listings fit their *)
(* buffers and memory does not run out.  Its names are its own, so that a   *)
(* module of proofs can extend it and another program's.                   *)
(***************************************************************************)
EXTENDS Integers, Sequences, FiniteSets

CONSTANTS
    Client,       \* the runs of the client
    Single,       \* those given their one path as an argument
    Dir,          \* the directories there can be
    Other,        \* paths of anything else
    Parent,       \* the directory each directory is in, itself for a root
    Locked,       \* the directories that cannot be opened
    Hidden,       \* those stat may fail to examine though they are there
    Trees,        \* the sets of directories there may be at the start
    Asked,        \* the paths the user of each client asks for
    BACKLOG,      \* connections listen lets wait
    MAX_ASKS,     \* bound on the requests of an interactive client
    MAX_CHANGES,  \* bound on the directories made or removed
    NONE

ASSUME TreeAssumption == /\ Parent \in [Dir -> Dir]
                         /\ Locked \subseteq Dir /\ Hidden \subseteq Dir
                         /\ Other \cap Dir = {} /\ NONE \notin Dir \cup Other
                         /\ NONE \notin Client /\ Single \subseteq Client
                         /\ Asked \in [Client -> SUBSET (Dir \cup Other)]
                         /\ \A t \in Trees : /\ t \subseteq Dir
                                             /\ \A d \in t : Parent[d] \in t
                         /\ \A S \in SUBSET Dir : S # {} =>
                               \E d \in S : Parent[d] = d \/ Parent[d] \notin S
ASSUME BoundsAssumption == BACKLOG \in Nat /\ MAX_ASKS \in Nat
                           /\ MAX_CHANGES \in Nat

VARIABLES
    fs, changes,         \* the directories that exist, the changes so far
    main, daemon_running, backlog, serving, sigchld,       \* the daemon
    toServer, toClient,  \* the two streams of each connection
    client,              \* each client: step, mode, request, what it shows
    child,               \* the child that serves it: step, search, answer
    always, ever         \* what existed throughout, or ever, in its search

tree == <<fs, changes, always, ever>>
daemon == <<main, daemon_running, backlog, serving, sigchld>>
streams == <<toServer, toClient>>
serverVars == <<tree, daemon, streams, client, child>>

Below(d) == {e \in Dir \ {d} : Parent[e] = d}
Path == Dir \cup Other

Answer(req, err, dirs) == [of |-> req, err |-> err, dirs |-> dirs]
Nothing == Answer(NONE, TRUE, {})

\* A child between two requests.
Fresh(l) == [pc |-> l, path |-> NONE, open |-> <<>>, todo |-> NONE,
             answer |-> Nothing]

\* The two parts of a message.
Length(zero) == [part |-> "length", zero |-> zero]
Text(t) == [part |-> "text", text |-> t]
Part(m, p) == m # <<>> /\ Head(m).part = p

ServerInit ==
    /\ fs \in Trees /\ changes = 0
    /\ main = "accept" /\ daemon_running = TRUE
    /\ backlog = <<>> /\ serving = NONE /\ sigchld = FALSE
    /\ toServer = [c \in Client |-> <<>>]
    /\ toClient = [c \in Client |-> <<>>]
    /\ client = [c \in Client |-> [pc |-> "off", req |-> NONE, asks |-> 0,
                                   screen |-> Nothing]]
    /\ child = [c \in Client |-> Fresh("none")]
    /\ always = [c \in Client |-> {}]
    /\ ever = [c \in Client |-> {}]

ClientAt(c, l) == client[c].pc = l
ClientGoto(c, l) == client' = [client EXCEPT ![c].pc = l]
ChildAt(c, l) == child[c].pc = l
ChildGoto(c, l) == child' = [child EXCEPT ![c].pc = l]

NextRequest(c) == child' = [child EXCEPT ![c] = Fresh("length")]
Searching(c) == child[c].pc \in {"opendir", "readdir", "send"}

\* Nobody will read what c sends any more, nor send to it.
Hung(c) == \/ child[c].pc \in {"zombie", "reaped", "refused"}
           \/ main = "ended" /\ child[c].pc = "none"
Left(c) == ClientAt(c, "done")

-------------------------------------------------------------------------------
(* The clients.                                                            *)

connect_to_server(c) ==
    /\ ClientAt(c, "off")
    /\ \/ /\ main # "ended" /\ Len(backlog) < BACKLOG
          /\ backlog' = Append(backlog, c)
          /\ ClientGoto(c, "prompt")
       \/ /\ main = "ended"
          /\ ClientGoto(c, "done")
          /\ UNCHANGED backlog
    /\ UNCHANGED <<tree, main, daemon_running, serving, sigchld, streams,
                   child>>

\* A valid path is asked for: its length is sent, then its text.  To send to a
\* connection the other side has closed ends the client (SIGPIPE).
SendLength(c) ==
    /\ ClientAt(c, "prompt")
    /\ client[c].asks < IF c \in Single THEN 1 ELSE MAX_ASKS
    /\ \E p \in Asked[c] :
          client' = [client EXCEPT ![c].pc = IF Hung(c) THEN "done" ELSE "body",
                                   ![c].req = p, ![c].asks = @ + 1,
                                   ![c].screen = Nothing]
    /\ toServer' = [toServer EXCEPT ![c] =
                       IF Hung(c) THEN @ ELSE Append(@, Length(FALSE))]
    /\ UNCHANGED <<tree, daemon, toClient, child>>

SendText(c) ==
    /\ ClientAt(c, "body")
    /\ ClientGoto(c, IF Hung(c) THEN "done" ELSE "length")
    /\ toServer' = [toServer EXCEPT ![c] =
                       IF Hung(c) THEN @ ELSE Append(@, Text(client[c].req))]
    /\ UNCHANGED <<tree, daemon, toClient, child>>

\* A length of zero is taken for an error and ends the client.
ReceiveLength(c) ==
    /\ ClientAt(c, "length")
    /\ \/ /\ Part(toClient[c], "length")
          /\ toClient' = [toClient EXCEPT ![c] = Tail(@)]
          /\ ClientGoto(c, IF Head(toClient[c]).zero THEN "done" ELSE "text")
       \/ /\ toClient[c] = <<>> /\ Hung(c)
          /\ ClientGoto(c, "done")
          /\ UNCHANGED toClient
    /\ UNCHANGED <<tree, daemon, toServer, child>>

ReceiveText(c) ==
    /\ ClientAt(c, "text")
    /\ \/ /\ Part(toClient[c], "text")
          /\ toClient' = [toClient EXCEPT ![c] = Tail(@)]
          /\ client' = [client EXCEPT
                ![c].screen = Head(toClient[c]).text,
                ![c].pc = IF c \in Single THEN "done" ELSE "prompt"]
       \/ /\ toClient[c] = <<>> /\ Hung(c)
          /\ ClientGoto(c, "done")
          /\ UNCHANGED toClient
    /\ UNCHANGED <<tree, daemon, toServer, child>>

\* "quit", the end of the input, or Ctrl-C at any point.
Quit(c) ==
    /\ client[c].pc \notin {"off", "done"}
    /\ client' = [client EXCEPT ![c].pc = "done", ![c].req = NONE,
                                ![c].screen = Nothing]
    /\ UNCHANGED <<tree, daemon, streams, child>>

-------------------------------------------------------------------------------
(* The daemon.  signal() restarts the accept a signal interrupts, so the    *)
(* flag is looked at only after the next connection.                       *)

accept ==
    /\ main = "accept"
    /\ backlog # <<>>
    /\ serving' = Head(backlog)
    /\ backlog' = Tail(backlog)
    /\ main' = "fork"
    /\ UNCHANGED <<tree, daemon_running, sigchld, streams, client, child>>

\* A failed fork closes the connection.
Fork ==
    /\ main = "fork"
    /\ \E l \in {"length", "refused"} : ChildGoto(serving, l)
    /\ serving' = NONE
    /\ main' = IF daemon_running THEN "accept" ELSE "ended"
    /\ UNCHANGED <<tree, daemon_running, backlog, sigchld, streams, client>>

signal_handler ==
    /\ main # "ended"
    /\ daemon_running
    /\ daemon_running' = FALSE
    /\ UNCHANGED <<tree, main, backlog, serving, sigchld, streams, client,
                   child>>

\* Variation: the handler waits once for each signal.
ReapOne ==
    /\ main # "ended" /\ sigchld
    /\ sigchld' = FALSE
    /\ \E c \in Client : ChildAt(c, "zombie") /\ ChildGoto(c, "reaped")
    /\ UNCHANGED <<tree, main, daemon_running, backlog, serving, streams,
                   client>>

\* Children that end while a signal is pending share it.
sigchld_handler ==
    /\ main # "ended" /\ sigchld
    /\ sigchld' = FALSE
    /\ child' = [c \in Client |->
          IF ChildAt(c, "zombie") THEN [child[c] EXCEPT !.pc = "reaped"]
          ELSE child[c]]
    /\ UNCHANGED <<tree, main, daemon_running, backlog, serving, streams,
                   client>>

-------------------------------------------------------------------------------
(* A child: handle_client.                                                 *)

\* What was sent before the client left may still be read, or be lost.
ReceiveRequestLength(c) ==
    /\ ChildAt(c, "length")
    /\ \/ /\ Part(toServer[c], "length")
          /\ toServer' = [toServer EXCEPT ![c] = Tail(@)]
          /\ ChildGoto(c, "path")
       \/ Left(c) /\ ChildGoto(c, "close") /\ UNCHANGED toServer
    /\ UNCHANGED <<tree, daemon, toClient, client>>

ReceivePath(c) ==
    /\ ChildAt(c, "path")
    /\ \/ /\ Part(toServer[c], "text")
          /\ toServer' = [toServer EXCEPT ![c] = Tail(@)]
          /\ child' = [child EXCEPT ![c].pc = "stat",
                                    ![c].path = Head(toServer[c]).text]
       \/ Left(c) /\ ChildGoto(c, "close") /\ UNCHANGED toServer
    /\ UNCHANGED <<tree, daemon, toClient, client>>

\* What may be answered of a path: whatever makes stat fail, a parent that may be
\* read but not searched or no such entry, it is not a directory.
is_directory(d) == {is \in BOOLEAN : IF is THEN d \in fs ELSE d \notin fs \ Hidden}

\* The base must be a directory; the search starts with it.
get_directories_recursive(c) ==
    /\ ChildAt(c, "stat")
    /\ LET p == child[c].path
       IN  \/ /\ TRUE \in is_directory(p)
              /\ child' = [child EXCEPT ![c].pc = "opendir", ![c].todo = p,
                                        ![c].answer = Answer(p, FALSE, {})]
              /\ always' = [always EXCEPT ![c] = fs]
              /\ ever' = [ever EXCEPT ![c] = fs]
           \/ /\ FALSE \in is_directory(p)
              /\ child' = [child EXCEPT ![c].pc = "send",
                                        ![c].answer = Answer(p, TRUE, {})]
              /\ UNCHANGED <<always, ever>>
    /\ UNCHANGED <<fs, changes, daemon, streams, client>>

\* Variation: a directory that cannot be opened is passed over.
OpenOrSkip(c) ==
    /\ ChildAt(c, "opendir")
    /\ LET d == child[c].todo
       IN  child' = [child EXCEPT
              ![c].pc = "readdir",
              ![c].open = Append(@,
                 IF d \in fs \ Locked
                 THEN [must |-> Below(d) \cap fs, may |-> Below(d) \ fs]
                 ELSE [must |-> {}, may |-> {}])]
    /\ UNCHANGED <<tree, daemon, streams, client>>

\* One directory that cannot be opened, or has just gone, fails the search.
\* readdir must return what is there now and may return what is made later.
OpenDirectory(c) ==
    /\ ChildAt(c, "opendir")
    /\ LET d == child[c].todo
       IN  \/ /\ d \in fs \ Locked
              /\ child' = [child EXCEPT
                    ![c].pc = "readdir",
                    ![c].open = Append(@, [must |-> Below(d) \cap fs,
                                           may |-> Below(d) \ fs])]
           \/ /\ d \notin fs \ Locked
              /\ child' = [child EXCEPT
                    ![c].pc = "send", ![c].open = <<>>,
                    ![c].answer = Answer(child[c].path, TRUE, {})]
    /\ UNCHANGED <<tree, daemon, streams, client>>

\* An entry found to be a directory is listed and entered; any other is passed over.
explore_directory_recursive(c) ==
    /\ ChildAt(c, "readdir")
    /\ LET n == Len(child[c].open)
           top == child[c].open[n]
       IN  \E e \in top.must \cup (top.may \cap fs) : \E is \in is_directory(e) :
             LET open == [child[c].open EXCEPT ![n] =
                    [must |-> top.must \ {e}, may |-> top.may \ {e}]]
             IN  child' = [child EXCEPT ![c] =
                    IF is
                    THEN [child[c] EXCEPT !.open = open, !.pc = "opendir",
                                          !.todo = e, !.answer.dirs = @ \cup {e}]
                    ELSE [child[c] EXCEPT !.open = open]]
    /\ UNCHANGED <<tree, daemon, streams, client>>

\* The end of a directory goes back to the one above, or ends the search.
CloseDirectory(c) ==
    /\ ChildAt(c, "readdir")
    /\ LET n == Len(child[c].open)
       IN  /\ child[c].open[n].must = {}
           /\ child' = [child EXCEPT
                 ![c].open = SubSeq(@, 1, n - 1),
                 ![c].pc = IF n = 1 THEN "send" ELSE "readdir"]
    /\ UNCHANGED <<tree, daemon, streams, client>>

Empty(a) == ~a.err /\ a.dirs = {}
SearchOver(c) == /\ always' = [always EXCEPT ![c] = {}]
                 /\ ever' = [ever EXCEPT ![c] = {}]

\* Variation: nothing is sent when nothing was found.
SendUnlessEmpty(c) ==
    /\ ChildAt(c, "send")
    /\ IF Empty(child[c].answer) THEN NextRequest(c) ELSE ChildGoto(c, "text")
    /\ toClient' = [toClient EXCEPT ![c] =
          IF Left(c) \/ Empty(child[c].answer) THEN @ ELSE Append(@, Length(FALSE))]
    /\ SearchOver(c)
    /\ UNCHANGED <<fs, changes, daemon, toServer, client>>

\* send_message, whose failure handle_client does not look at; the text of an
\* empty answer is no byte at all.
SendAnswerLength(c) ==
    /\ ChildAt(c, "send")
    /\ LET empty == Empty(child[c].answer)
       IN  /\ IF Left(c) \/ empty THEN NextRequest(c) ELSE ChildGoto(c, "text")
           /\ toClient' = [toClient EXCEPT ![c] =
                 IF Left(c) THEN @
                 ELSE Append(@, Length(empty))]
    /\ SearchOver(c)
    /\ UNCHANGED <<fs, changes, daemon, toServer, client>>

\* Variation: after an error the result is sent as well.
SendTextTwice(c) ==
    /\ ChildAt(c, "text")
    /\ NextRequest(c)
    /\ toClient' = [toClient EXCEPT ![c] =
          @ \o (IF child[c].answer.err
                THEN <<Text(child[c].answer), Length(FALSE),
                       Text(child[c].answer)>>
                ELSE <<Text(child[c].answer)>>)]
    /\ UNCHANGED <<tree, daemon, toServer, client>>

SendAnswerText(c) ==
    /\ ChildAt(c, "text")
    /\ NextRequest(c)
    /\ toClient' = [toClient EXCEPT ![c] =
                       IF Left(c) THEN @ ELSE Append(@, Text(child[c].answer))]
    /\ UNCHANGED <<tree, daemon, toServer, client>>

Exit(c) ==
    /\ ChildAt(c, "close")
    /\ ChildGoto(c, "zombie")
    /\ sigchld' = TRUE
    /\ UNCHANGED <<tree, main, daemon_running, backlog, serving, streams,
                   client>>

-------------------------------------------------------------------------------
(* Somebody else at work in the tree.                                      *)

mkdir(d) ==
    /\ changes < MAX_CHANGES
    /\ d \notin fs /\ Parent[d] \in fs
    /\ fs' = fs \cup {d} /\ changes' = changes + 1
    /\ ever' = [c \in Client |-> IF Searching(c) THEN ever[c] \cup {d}
                                 ELSE ever[c]]
    /\ UNCHANGED <<always, daemon, streams, client, child>>

rmdir(d) ==
    /\ changes < MAX_CHANGES
    /\ d \in fs /\ Below(d) \cap fs = {}
    /\ fs' = fs \ {d} /\ changes' = changes + 1
    /\ always' = [c \in Client |-> always[c] \ {d}]
    /\ UNCHANGED <<ever, daemon, streams, client, child>>

-------------------------------------------------------------------------------

Run(c) == SendText(c) \/ ReceiveLength(c) \/ ReceiveText(c)

handle_client(c) ==
    \/ ReceiveRequestLength(c) \/ ReceivePath(c)
    \/ get_directories_recursive(c) \/ OpenDirectory(c)
    \/ explore_directory_recursive(c) \/ CloseDirectory(c)
    \/ SendAnswerLength(c) \/ SendAnswerText(c) \/ Exit(c)

ServerNext ==
    \/ \E c \in Client : \/ connect_to_server(c) \/ SendLength(c) \/ Run(c)
                         \/ Quit(c) \/ handle_client(c)
    \/ accept \/ Fork \/ signal_handler \/ sigchld_handler
    \/ \E d \in Dir : mkdir(d) \/ rmdir(d)

ServerSpec == ServerInit /\ [][ServerNext]_serverVars

\* Processes run and pending signals are delivered; what users do is theirs.
ServerFairSpec ==
    /\ ServerSpec
    /\ WF_serverVars(accept) /\ WF_serverVars(Fork) /\ WF_serverVars(sigchld_handler)
    /\ \A c \in Client : WF_serverVars(Run(c)) /\ WF_serverVars(handle_client(c))

-------------------------------------------------------------------------------
(* Properties.                                                             *)

\* What a client shows answers the path it asked for last, and a length is
\* never read where a text is due nor the other way round, whatever happened
\* to earlier requests on the same connection.
AnswerIsMine ==
    \A c \in Client :
        /\ client[c].screen # Nothing => client[c].screen.of = client[c].req
        /\ client[c].pc \in {"length", "text"} /\ toClient[c] # <<>>
              => Part(toClient[c], client[c].pc)
        /\ ClientAt(c, "prompt") => toClient[c] = <<>>

\* A listing that is not an error has every directory that was below the path
\* during the whole search, but those that stat may fail to examine and what is
\* in them, and only such as were there at some moment of it, although the tree
\* changes under the search.
Above[d \in Dir] ==
    IF Parent[d] = d THEN {} ELSE {Parent[d]} \cup Above[Parent[d]]
Beneath(b) == {d \in Dir : b \in Above[d]}
Visible(b) == {d \in Beneath(b) : ({d} \cup Above[d]) \cap Beneath(b) \cap Hidden = {}}

ListingComplete ==
    \A c \in Client :
        LET ans == child[c].answer
        IN  ChildAt(c, "send") /\ ~ans.err =>
                /\ always[c] \cap Visible(ans.of) \subseteq ans.dirs
                /\ ans.dirs \subseteq ever[c] \cap Beneath(ans.of)

\* Not so: the daemon "restituisce tutte le directory contenute ricorsivamente", a
\* listing sent as no error leaves nothing out that was there all the time.  TLC
\* finds one that stat has failed to examine left out.
EverythingListed ==
    \A c \in Client :
        LET ans == child[c].answer
        IN  ChildAt(c, "send") /\ ~ans.err =>
                always[c] \cap Beneath(ans.of) \subseteq ans.dirs

Waiting(c) == client[c].pc \in {"length", "text"}
Shown(c) == client[c].screen # Nothing
UserLeft(c) == Left(c) /\ client[c].req = NONE
Forsaken(c) == Waiting(c) /\ Hung(c)
EmptyCame(c) == Part(toClient[c], "length") /\ Head(toClient[c]).zero

\* Every request is answered: what a client waits for is shown, unless the user
\* leaves, nobody serves the connection, or the answer that comes is empty.
AnswerComes ==
    \A c \in Client :
        Waiting(c) ~> Shown(c) \/ UserLeft(c) \/ Forsaken(c) \/ EmptyCame(c)

\* Not so: an empty answer is shown like any other ("Nessuna directory trovata").
\* TLC finds the client ended by its length of 0.
EmptyAnswerShown ==
    \A c \in Client : Waiting(c) ~> Shown(c) \/ UserLeft(c) \/ Forsaken(c)

\* Children that have ended are collected, also when several end while one
\* SIGCHLD is pending; when the daemon has ended its parent collects them.
ZombiesReaped ==
    \A c \in Client : ChildAt(c, "zombie") ~> ~ChildAt(c, "zombie") \/ main = "ended"

================================================================================
