----------------------------- MODULE WebServers -----------------------------
(***************************************************************************)
(* The application of minimal.cpp: the user-interface thread, which starts *)
(* one thread per click and joins them all on exit, and the server         *)
(* threads, each of which owns a mongoose event manager, a listening       *)
(* connection and, on its stack, the options every connection points to.   *)
(*                                                                         *)
(* A server is named by its port.  The event manager is seen from the      *)
(* outside here, through the resources it holds (module MgNet opens it     *)
(* up); a request is one for a file of the document root or for a program  *)
(* in it (ending in .cgi or .php).                                         *)
(*                                                                         *)
(* stopIt is a plain bool written by one thread and read by the others.    *)
(* The compiler cannot keep it in a register across mg_mgr_poll, which is  *)
(* in another translation unit, and one flag that only ever rises leaves a *)
(* reader two outcomes, the old value or the new one: a late view is a     *)
(* reader that runs a little earlier, so a read is a read of the state.    *)
(***************************************************************************)
EXTENDS Integers, FiniteSets

CONSTANTS
  StartingPort,  \* STARTINGPORTNO
  MaxServers,    \* bound: the clicks on "Start Web" a behaviour may contain
  PortLimit,     \* the first port mg_parse_address rejects (0xffff)
  Client,        \* the connections a server may accept
  Program        \* the connections it may hold to programs it has started

ASSUME WebServersAssumption ==
  /\ StartingPort \in Nat
  /\ MaxServers \in Nat \ {0}
  /\ PortLimit \in Nat
  /\ (Client \cup Program) \cap {"ifaces", "ctl", "listener", "nobody"} = {}
  /\ Client \cap Program = {}

Port == StartingPort .. (StartingPort + MaxServers - 1)
NoPort == -1

\* What a server's manager holds: the memory of its interface table, the
\* control socket pair, the listening socket, the other connections.
Peer == Client \cup Program
Resource == {"ifaces", "ctl", "listener"} \cup Peer

VARIABLES
  ui,            \* where the user-interface thread is
  joining,       \* the thread OnExit is blocked on in join(), or NoPort
  startPortNo,   \* the next port
  stopIt,        \* the flag OnExit raises and every server polls
  joinable,      \* webServerList: the entries whose thread is joinable
  entries,       \* webServerList: all its keys
  status,        \* the last port and the number of servers on the status bar
  pc,            \* where each server thread is
  result,        \* what each server's function returned
  held,          \* the resources each server's manager holds
  reading,       \* the peer whose data mg_do_recv is reading, or "nobody"
  behind,        \* the programs started behind the walk of mg_mgr_free
  options,       \* the document root nc->user_data leads to, or NoPort
  served         \* history: the roots each server answered requests from

uiVars == <<ui, joining, startPortNo, stopIt, joinable, entries, status>>
serverVars == <<pc, result, held, reading, behind, options, served>>
vars == <<uiVars, serverVars>>

PC == {"none", "init", "bind", "setup", "check", "poll",
       "lastpoll", "ctl", "close", "ifaces", "done"}
UI == {"loop", "quit", "joining", "exited", "terminated"}
None == 1       \* no result yet: the function returns 0 or -1

TypeOK ==
  /\ ui \in UI
  /\ joining \in Port \cup {NoPort}
  /\ startPortNo \in StartingPort .. (StartingPort + MaxServers)
  /\ stopIt \in BOOLEAN
  /\ joinable \in SUBSET Port
  /\ entries \in SUBSET Port
  /\ status \in [port : Port \cup {NoPort}, count : 0 .. MaxServers]
  /\ pc \in [Port -> PC]
  /\ result \in [Port -> {None, 0, -1}]
  /\ held \in [Port -> SUBSET Resource]
  /\ reading \in [Port -> Peer \cup {"nobody"}]
  /\ behind \in [Port -> SUBSET Program]
  /\ options \in [Port -> Port \cup {NoPort}]
  /\ served \in [Port -> SUBSET (Port \cup {NoPort})]

Init ==
  /\ ui = "loop"
  /\ joining = NoPort
  /\ startPortNo = StartingPort
  /\ stopIt = FALSE
  /\ joinable = {}
  /\ entries = {}
  /\ status = [port |-> NoPort, count |-> 0]
  /\ pc = [p \in Port |-> "none"]
  /\ result = [p \in Port |-> None]
  /\ held = [p \in Port |-> {}]
  /\ reading = [p \in Port |-> "nobody"]
  /\ behind = [p \in Port |-> {}]
  /\ options = [p \in Port |-> NoPort]
  /\ served = [p \in Port |-> {}]

-----------------------------------------------------------------------------
(* The user-interface thread. *)

\* Faulty variants of NextPort: the increment lost, and turned round.
SamePort(port) == port
PreviousPort(port) == port - 1

\* MyApp::StartWebServer and the menu handler around it.  Assigning a thread
\* to an entry that is still joinable calls std::terminate.
NextPort(port) == port + 1

StartWebServer ==
  /\ ui = "loop"
  /\ startPortNo \in Port
  /\ IF startPortNo \in joinable
       THEN /\ ui' = "terminated"
            /\ UNCHANGED <<startPortNo, joinable, entries, status, pc>>
       ELSE /\ pc' = [pc EXCEPT ![startPortNo] = "init"]
            /\ joinable' = joinable \cup {startPortNo}
            /\ entries' = entries \cup {startPortNo}
            /\ status' = [port |-> startPortNo,
                          count |-> Cardinality(entries')]
            /\ startPortNo' = NextPort(startPortNo)
            /\ UNCHANGED ui
  /\ UNCHANGED <<joining, stopIt, result, held, reading, behind, options, served>>

\* Menu entry "Exit": Close(true) ends the main loop.
Quit ==
  /\ ui = "loop"
  /\ ui' = "quit"
  /\ UNCHANGED <<joining, startPortNo, stopIt, joinable, entries, status,
                 serverVars>>

\* Faulty variant of OnExit: the flag is not raised.
OnExitSilently ==
  /\ ui = "quit"
  /\ ui' = "joining"
  /\ UNCHANGED <<joining, startPortNo, stopIt, joinable, entries, status,
                 serverVars>>

\* MyApp::OnExit: raise the flag, then join every joinable thread, in the
\* order of the hash table, which is not specified.
OnExit ==
  /\ ui = "quit"
  /\ ui' = "joining"
  /\ stopIt' = TRUE
  /\ UNCHANGED <<joining, startPortNo, joinable, entries, status, serverVars>>

Join(p) ==
  /\ ui = "joining"
  /\ joining = NoPort
  /\ p \in joinable
  /\ joining' = p
  /\ UNCHANGED <<ui, startPortNo, stopIt, joinable, entries, status,
                 serverVars>>

\* Faulty variant of Joined: the thread is detached, not waited for.
Detached ==
  /\ joining # NoPort
  /\ joinable' = joinable \ {joining}
  /\ joining' = NoPort
  /\ UNCHANGED <<ui, startPortNo, stopIt, entries, status, serverVars>>

Joined ==
  /\ joining # NoPort
  /\ pc[joining] = "done"
  /\ joinable' = joinable \ {joining}
  /\ joining' = NoPort
  /\ UNCHANGED <<ui, startPortNo, stopIt, entries, status, serverVars>>

\* The loop of OnExit is over.
AllJoined == joining = NoPort /\ joinable = {}

\* OnExit returns and the application object is destroyed with the table:
\* the destructor of a joinable thread calls std::terminate.
Leave ==
  /\ ui = "joining"
  /\ AllJoined
  /\ ui' = IF joinable = {} THEN "exited" ELSE "terminated"
  /\ UNCHANGED <<joining, startPortNo, stopIt, joinable, entries, status,
                 serverVars>>

-----------------------------------------------------------------------------
(* A server thread: the function ::StartWebServer(portNo). *)

Goto(p, from, to) == /\ pc[p] = from
                     /\ pc' = [pc EXCEPT ![p] = to]
Hold(p, r) == held' = [held EXCEPT ![p] = @ \cup r]
Release(p, r) == held' = [held EXCEPT ![p] = @ \ r]
Return(p, value) == result' = [result EXCEPT ![p] = value]

\* mg_mgr_init: the interface table, and the control sockets if the process
\* can have them; mg_socketpair's failure goes unnoticed.
MgrInit(p) ==
  /\ Goto(p, "init", "bind")
  /\ \E ctl \in {{}, {"ctl"}} : Hold(p, {"ifaces"} \cup ctl)
  /\ UNCHANGED <<uiVars, result, reading, behind, options, served>>

\* mg_bind succeeds ...
BindSucceeds(p) ==
  /\ p < PortLimit
  /\ Goto(p, "bind", "setup")
  /\ Hold(p, {"listener"})
  /\ UNCHANGED <<uiVars, result, reading, behind, options, served>>

\* ... or fails: the address does not parse, the port is taken, there is no
\* descriptor left.  The thread returns at once.
BindFails(p) ==
  /\ Goto(p, "bind", "done")
  /\ Return(p, -1)
  /\ UNCHANGED <<uiVars, held, reading, behind, options, served>>

\* Faulty variant of Setup: the options are static, shared by all servers.
SetupShared(p) ==
  /\ Goto(p, "setup", "check")
  /\ options' = [q \in Port |-> p]
  /\ UNCHANGED <<uiVars, result, held, reading, behind, served>>

\* The options are completed and hung on the listener.  Accepted
\* connections copy the pointer (mg_if_accept_new_conn).
Setup(p) ==
  /\ Goto(p, "setup", "check")
  /\ options' = [options EXCEPT ![p] = p]
  /\ UNCHANGED <<uiVars, result, held, reading, behind, served>>

\* The loop: test the flag, poll, and test it again.
Loop(p) ==
  /\ Goto(p, "check", IF stopIt THEN "lastpoll" ELSE "poll")
  /\ UNCHANGED <<uiVars, result, held, reading, behind, options, served>>

\* ev_handler: a request is answered with the options user_data leads to; one
\* for a program that can be started adds a connection, at the head of the
\* list, where the walk of mg_mgr_free no longer comes.  The peers in gone go.
EvHandler(p, gone) ==
  /\ served' = [served EXCEPT ![p] = @ \cup {options[p]}]
  /\ \E new \in {{}} \cup {{g} : g \in Program \ held[p]} :
       /\ held' = [held EXCEPT ![p] = (@ \ gone) \cup new]
       /\ behind' = IF pc[p] = "close" THEN [behind EXCEPT ![p] = @ \cup new] ELSE behind

\* mg_close_conn: the close of a client delivers what is buffered first,
\* perhaps a last request.
Close(p, r) ==
  /\ r \in held[p]
  /\ reading[p] = "nobody"
  /\ \/ r \in Client /\ EvHandler(p, {r})
     \/ Release(p, {r}) /\ UNCHANGED <<behind, served>>
  /\ UNCHANGED <<uiVars, pc, result, reading, options>>

\* What mg_mgr_poll may do before it returns, once the last one of
\* mg_mgr_free included: accept, receive, answer, close.
Polling(p) == pc[p] \in {"poll", "lastpoll"}

Accept(p, c) ==
  /\ Polling(p)
  /\ reading[p] = "nobody"
  /\ c \notin held[p]
  /\ Hold(p, {c})
  /\ UNCHANGED <<uiVars, pc, result, reading, behind, options, served>>

\* The poll finds that a client or a program has sent something ...
Sends(p, r) ==
  /\ Polling(p)
  /\ reading[p] = "nobody"
  /\ r \in held[p]
  /\ reading' = [reading EXCEPT ![p] = r]
  /\ UNCHANGED <<uiVars, pc, result, held, behind, options, served>>

\* ... mg_do_recv reads some of it, which may complete a request ...
Receive(p) ==
  /\ Polling(p)
  /\ reading[p] \in Client
  /\ EvHandler(p, {})
  /\ UNCHANGED <<uiVars, pc, result, reading, options>>

\* ... and goes on until it finds no more.
Pauses(p) ==
  /\ Polling(p)
  /\ reading[p] # "nobody"
  /\ reading' = [reading EXCEPT ![p] = "nobody"]
  /\ UNCHANGED <<uiVars, pc, result, held, behind, options, served>>

Disconnect(p, r) == Polling(p) /\ Close(p, r)

PollReturns(p) ==
  /\ reading[p] = "nobody"
  /\ \/ Goto(p, "poll", "check")
     \/ Goto(p, "lastpoll", "ctl")
  /\ UNCHANGED <<uiVars, result, held, reading, behind, options, served>>

\* Faulty variant of FreeCtl: the socket pair is forgotten.
FreeCtlForgotten(p) ==
  /\ Goto(p, "ctl", "close")
  /\ UNCHANGED <<uiVars, result, held, reading, behind, options, served>>

\* mg_mgr_free: the control sockets, then every connection, the listener
\* last, then the interface table.
FreeCtl(p) ==
  /\ Goto(p, "ctl", "close")
  /\ Release(p, {"ctl"})
  /\ UNCHANGED <<uiVars, result, reading, behind, options, served>>

FreeConnection(p, r) == pc[p] = "close" /\ r \in Peer \ behind[p] /\ Close(p, r)

\* Faulty variant of OnlyListener: the walk stops at the first connection.
AnyListener(p) == TRUE

\* The walk has come to the listener at the end of the list.
OnlyListener(p) == held[p] \cap Peer \subseteq behind[p]

FreeListener(p) ==
  /\ OnlyListener(p)
  /\ Goto(p, "close", "ifaces")
  /\ Release(p, {"listener"})
  /\ UNCHANGED <<uiVars, result, reading, behind, options, served>>

FreeIfaces(p) ==
  /\ Goto(p, "ifaces", "done")
  /\ Release(p, {"ifaces"})
  /\ Return(p, 0)
  /\ UNCHANGED <<uiVars, reading, behind, options, served>>

-----------------------------------------------------------------------------
Interface == \/ StartWebServer
             \/ Quit
             \/ OnExit
             \/ \E p \in Port : Join(p)
             \/ Joined
             \/ Leave

\* The steps a server thread takes by itself ...
Thread(p) == \/ MgrInit(p)
             \/ BindSucceeds(p)
             \/ BindFails(p)
             \/ Setup(p)
             \/ Loop(p)
             \/ PollReturns(p)
             \/ FreeCtl(p)
             \/ Receive(p)
             \/ \E r \in Peer : FreeConnection(p, r)
             \/ FreeListener(p)
             \/ FreeIfaces(p)

\* ... and those its clients and programs make it take.
Serving(p) == \/ \E c \in Client : Accept(p, c)
              \/ \E r \in Peer : Sends(p, r) \/ Disconnect(p, r)
              \/ Pauses(p)

Next == Interface \/ \E p \in Port : Thread(p) \/ Serving(p)

\* The scheduler runs every thread; a poll visits every connection once, so
\* it does not go on for ever from one to the next; the user owes us nothing,
\* but once the main loop has ended OnExit runs.
Fairness == /\ \A p \in Port : WF_vars(Thread(p)) /\ SF_vars(PollReturns(p))
            /\ WF_vars(OnExit)
            /\ WF_vars((\E p \in Port : Join(p)) \/ Joined \/ Leave)

\* What the code does not see to: mg_do_recv stays with a connection as long
\* as the client or the program at its other end goes on sending.
PeersPause == \A p \in Port : WF_vars(Pauses(p))

SafeSpec == Init /\ [][Next]_vars
Spec == SafeSpec /\ Fairness /\ PeersPause

-----------------------------------------------------------------------------
(* Properties. *)

Running(p) == pc[p] \notin {"none", "done"}
Ended(p) == pc[p] \in {"none", "done"}

\* No thread is ever overwritten or destroyed while joinable: std::terminate
\* is never reached, neither by a click nor by the way out
\* (minimal.cpp:63, 66-74).
NeverTerminates == ui # "terminated"

\* When the application is gone so is every server thread: none can touch
\* the flag, the heap or a socket after the globals are destroyed.
NoThreadOutlivesApp == ui = "exited" => \A p \in Port : Ended(p)

\* Every connection of a client carries a pointer to options on the stack of
\* the server's function (minimal.cpp:22, 42): once that function has
\* returned none is left to follow it.
NoDanglingOptions ==
  \A p \in Port : pc[p] = "done" => held[p] \cap (Client \cup {"listener"}) = {}

\* A request is only ever answered from the document root of the port it
\* came in on, never before the root is known, whatever the other servers
\* do (minimal.cpp:10-15, 36-42).
OwnDocumentRoot == \A p \in Port : served[p] \subseteq {p}

\* A server that ran to its regular end has given back all that was there
\* when it began to: socket pair, listener, connections, interface table
\* (minimal.cpp:47).  What stays are the connections to programs that its
\* closes started meanwhile, and they stay for ever (see MgNet's FreeReleasesAll).
RegularEndReleases ==
  \A p \in Port : pc[p] = "done" /\ result[p] = 0 => held[p] = behind[p]

\* As long as the user has not quit, a server that could be set up goes on:
\* only servers whose bind failed end.
ServesUntilExit ==
  ~ stopIt => \A p \in Port : pc[p] = "done" => result[p] = -1

\* Once "Exit" is chosen the application gets out of OnExit, however many
\* servers it has started and clients and programs they have, provided that
\* none of those keeps a poll receiving for ever.
ExitCompletes == ui = "quit" ~> ui = "exited"

\* The specification WebServers implements.
Pool == INSTANCE ServerPool WITH
  Server <- Port,
  phase  <- CASE ui \in {"loop", "quit", "terminated"} -> "open"
              [] ui = "joining" -> "closing"
              [] ui = "exited" -> "closed",
  server <- [p \in Port |->
              CASE pc[p] = "none" -> "off"
                [] pc[p] \in {"init", "bind"} -> "starting"
                [] pc[p] = "done" /\ result[p] = -1 -> "failed"
                [] pc[p] = "done" /\ result[p] # -1 -> "stopped"
                [] OTHER -> "serving"]

\* Servers are started only while the application is open, stop only while
\* it closes, and it is closed only when none is left; and all of this
\* happens in the end, if peers pause.
ImplementsPool == Pool!Spec

-----------------------------------------------------------------------------
(* What the repository says and the code does not do. *)

\* README.md:8: many servers "without memory leak".  At exit nothing is
\* held.
NothingLeaks == ui = "exited" => \A p \in Port : held[p] = {}
=============================================================================
