-------------------------- MODULE WebServers_proofs --------------------------
(***************************************************************************)
(* Proofs about WebServers, for any number of servers and clients.         *)
(***************************************************************************)
EXTENDS WebServers, FiniteSetTheorems, TLAPS

(***************************************************************************)
(* The inductive invariant.  Three parts strengthen the type invariant:    *)
(* what a thread at a given place holds, what the user interface knows of  *)
(* the threads, and what either knows of the flag.                         *)
(***************************************************************************)
Serviced == {"check", "poll", "lastpoll", "ctl", "close", "ifaces"}
Leaving == {"lastpoll", "ctl", "close", "ifaces"}
Manager == {"ifaces", "ctl"}

\* The thread of port p: its place fixes its result, bounds what it holds
\* and tells whether its options are complete.
ThreadInv(p) ==
  /\ pc[p] # "done" => result[p] = None
  /\ pc[p] = "done" => result[p] \in {0, -1}
  /\ pc[p] \in {"none", "init"} => held[p] = {}
  /\ pc[p] = "bind" => held[p] \subseteq Manager
  /\ pc[p] = "close" => "ctl" \notin held[p]
  /\ pc[p] = "ifaces" => held[p] \subseteq {"ifaces"} \cup behind[p]
  /\ pc[p] = "done" /\ result[p] = 0 => held[p] = behind[p]
  /\ pc[p] = "done" /\ result[p] = -1 => held[p] \subseteq Manager
  /\ behind[p] \subseteq held[p]
  /\ pc[p] \notin {"close", "ifaces", "done"} => behind[p] = {}
  /\ pc[p] \in Serviced => options[p] = p
  /\ served[p] \subseteq {p}

\* The table of threads: its keys are the ports given out, a thread that
\* is no longer joinable has been waited for.
TableInv ==
  /\ entries = StartingPort .. (startPortNo - 1)
  /\ joinable \subseteq entries
  /\ \A p \in Port : pc[p] = "none" <=> p \notin entries
  /\ \A p \in entries \ joinable : pc[p] = "done"
  /\ joining # NoPort => joining \in joinable /\ ui = "joining"

\* The flag: raised by OnExit only, and the only way out of the loop.
FlagInv ==
  /\ ui # "terminated"
  /\ stopIt <=> ui \in {"joining", "exited"}
  /\ ui = "exited" => joinable = {}
  /\ \A p \in Port : pc[p] \in Leaving \/ result[p] = 0 => stopIt

IInv == TypeOK /\ (\A p \in Port : ThreadInv(p)) /\ TableInv /\ FlagInv

-----------------------------------------------------------------------------
\* The keys of the table are finitely many, at most one per click.
LEMMA EntriesBounded ==
  ASSUME NEW S \in SUBSET Port
  PROVE  Cardinality(S) \in 0 .. MaxServers
<1>1. IsFiniteSet(Port) /\ Cardinality(Port) = MaxServers
  BY FS_Interval, WebServersAssumption DEF Port
<1>2. IsFiniteSet(S) /\ Cardinality(S) <= Cardinality(Port)
  BY <1>1, FS_Subset
<1>3. Cardinality(S) \in Nat
  BY <1>2, FS_CardinalityType
<1>4. QED
  BY <1>1, <1>2, <1>3, WebServersAssumption

LEMMA InitInv == Init => IInv
<1> SUFFICES ASSUME Init PROVE IInv
  OBVIOUS
<1>1. TypeOK
  <2>1. StartingPort \in StartingPort .. (StartingPort + MaxServers)
    BY WebServersAssumption
  <2>2. 0 \in 0 .. MaxServers
    BY WebServersAssumption
  <2>3. QED
    BY <2>1, <2>2 DEF Init, TypeOK, UI, PC, NoPort, None
<1>2. \A p \in Port : ThreadInv(p)
  BY DEF Init, ThreadInv, None, Serviced
<1>3. TableInv
  BY WebServersAssumption DEF Init, TableInv, Port
<1>4. FlagInv
  BY DEF Init, FlagInv, Leaving, None
<1>5. QED
  BY <1>1, <1>2, <1>3, <1>4 DEF IInv

-----------------------------------------------------------------------------
(* Type correctness. *)

LEMMA InterfaceType == TypeOK /\ Interface => TypeOK'
<1> SUFFICES ASSUME TypeOK, Interface PROVE TypeOK'
  OBVIOUS
<1>1. CASE StartWebServer
  <2>1. CASE startPortNo \in joinable
    BY <1>1, <2>1 DEF StartWebServer, TypeOK, UI
  <2>2. CASE startPortNo \notin joinable
    <3>1. entries' \in SUBSET Port /\ joinable' \in SUBSET Port
      BY <1>1, <2>2 DEF StartWebServer, TypeOK
    <3>2. status' \in [port : Port \cup {NoPort}, count : 0 .. MaxServers]
      <4>1. Cardinality(entries') \in 0 .. MaxServers
        BY <3>1, EntriesBounded
      <4>2. QED
        BY <1>1, <2>2, <4>1 DEF StartWebServer
    <3>3. startPortNo' \in StartingPort .. (StartingPort + MaxServers)
      BY <1>1, <2>2, WebServersAssumption
      DEF StartWebServer, NextPort, Port
    <3>4. pc' \in [Port -> PC]
      BY <1>1, <2>2 DEF StartWebServer, TypeOK, PC
    <3>5. QED
      BY <1>1, <2>2, <3>1, <3>2, <3>3, <3>4 DEF StartWebServer, TypeOK
  <2>3. QED
    BY <2>1, <2>2
<1>2. CASE Quit
  BY <1>2 DEF Quit, TypeOK, UI, serverVars
<1>3. CASE OnExit
  BY <1>3 DEF OnExit, TypeOK, UI, serverVars
<1>4. CASE \E p \in Port : Join(p)
  BY <1>4 DEF Join, TypeOK, serverVars
<1>5. CASE Joined
  BY <1>5 DEF Joined, TypeOK, serverVars
<1>6. CASE Leave
  BY <1>6 DEF Leave, TypeOK, UI, serverVars
<1>7. QED
  BY <1>1, <1>2, <1>3, <1>4, <1>5, <1>6 DEF Interface

\* The handler, called for what arrived or for a client that goes.
LEMMA EvHandlerType ==
  ASSUME TypeOK, NEW p \in Port, NEW gone, EvHandler(p, gone)
  PROVE  /\ served' \in [Port -> SUBSET (Port \cup {NoPort})]
         /\ held' \in [Port -> SUBSET Resource]
         /\ behind' \in [Port -> SUBSET Program]
<1>1. served' \in [Port -> SUBSET (Port \cup {NoPort})]
  BY DEF EvHandler, TypeOK
<1>2. PICK new \in SUBSET Program :
        /\ held' = [held EXCEPT ![p] = (@ \ gone) \cup new]
        /\ behind' = IF pc[p] = "close" THEN [behind EXCEPT ![p] = @ \cup new] ELSE behind
  BY DEF EvHandler
<1>3. new \subseteq Resource
  BY DEF Resource, Peer
<1>4. QED
  BY <1>1, <1>2, <1>3 DEF TypeOK

LEMMA CloseType ==
  ASSUME TypeOK, NEW p \in Port, NEW r, Close(p, r)
  PROVE  TypeOK'
<1>1. UNCHANGED <<uiVars, pc, result, reading, options>>
  BY DEF Close
<1>2. /\ served' \in [Port -> SUBSET (Port \cup {NoPort})]
      /\ held' \in [Port -> SUBSET Resource]
      /\ behind' \in [Port -> SUBSET Program]
  <2>1. CASE EvHandler(p, {r})
    BY <2>1, EvHandlerType
  <2>2. CASE Release(p, {r}) /\ UNCHANGED <<behind, served>>
    BY <2>2 DEF Release, TypeOK
  <2>3. QED
    BY <2>1, <2>2 DEF Close
<1>3. QED
  BY <1>1, <1>2 DEF TypeOK, uiVars

LEMMA ThreadType ==
  ASSUME TypeOK, NEW p \in Port, Thread(p) \/ Serving(p)
  PROVE  TypeOK'
<1> USE DEF TypeOK, uiVars, Goto, Hold, Release, Return, PC
<1>1. CASE MgrInit(p)
  BY <1>1 DEF MgrInit, Resource
<1>2. CASE BindSucceeds(p)
  BY <1>2 DEF BindSucceeds, Resource
<1>3. CASE BindFails(p)
  BY <1>3 DEF BindFails
<1>4. CASE Setup(p)
  BY <1>4 DEF Setup
<1>5. CASE Loop(p)
  BY <1>5 DEF Loop
<1>6. CASE PollReturns(p)
  BY <1>6 DEF PollReturns
<1>7. CASE FreeCtl(p)
  BY <1>7 DEF FreeCtl
<1>8. CASE \E r \in Peer : FreeConnection(p, r)
  BY <1>8, CloseType DEF FreeConnection
<1>9. CASE FreeListener(p)
  BY <1>9 DEF FreeListener
<1>10. CASE FreeIfaces(p)
  BY <1>10 DEF FreeIfaces
<1>11. CASE Receive(p)
  BY <1>11, EvHandlerType DEF Receive
<1>12. CASE Serving(p)
  <2>1. CASE \E c \in Client : Accept(p, c)
    BY <2>1 DEF Accept, Resource, Peer
  <2>2. CASE \E r \in Peer : Sends(p, r)
    BY <2>2 DEF Sends
  <2>3. CASE \E r \in Peer : Disconnect(p, r)
    BY <2>3, CloseType DEF Disconnect
  <2>4. CASE Pauses(p)
    BY <2>4 DEF Pauses
  <2>5. QED
    BY <1>12, <2>1, <2>2, <2>3, <2>4 DEF Serving
<1>13. QED
  BY <1>1, <1>2, <1>3, <1>4, <1>5, <1>6, <1>7, <1>8, <1>9, <1>10, <1>11, <1>12
  DEF Thread

-----------------------------------------------------------------------------
(* A step of one thread leaves the interface and the other threads alone. *)

OnlyThread(p) ==
  /\ UNCHANGED uiVars
  /\ \A q \in Port \ {p} :
       /\ pc'[q] = pc[q]
       /\ result'[q] = result[q]
       /\ held'[q] = held[q]
       /\ behind'[q] = behind[q]
       /\ options'[q] = options[q]
       /\ served'[q] = served[q]

LEMMA ThreadFrame ==
  ASSUME TypeOK, NEW p \in Port, Thread(p) \/ Serving(p)
  PROVE  OnlyThread(p)
<1> USE DEF TypeOK, OnlyThread, Goto, Hold, Release, Return, EvHandler
<1>1. CASE MgrInit(p)
  BY <1>1 DEF MgrInit
<1>2. CASE BindSucceeds(p) \/ BindFails(p) \/ Setup(p) \/ Loop(p)
  BY <1>2 DEF BindSucceeds, BindFails, Setup, Loop
<1>3. CASE PollReturns(p) \/ FreeCtl(p) \/ FreeListener(p) \/ FreeIfaces(p)
  BY <1>3 DEF PollReturns, FreeCtl, FreeListener, FreeIfaces
<1>4. CASE Receive(p) \/ \E r \in Peer : FreeConnection(p, r)
  BY <1>4 DEF Receive, FreeConnection, Close
<1>5. CASE Serving(p)
  <2>1. CASE \E c \in Client : Accept(p, c)
    BY <2>1 DEF Accept
  <2>2. CASE Pauses(p) \/ \E r \in Peer : Sends(p, r)
    BY <2>2 DEF Sends, Pauses
  <2>3. CASE \E r \in Peer : Disconnect(p, r)
    BY <2>3 DEF Disconnect, Close
  <2>4. QED
    BY <1>5, <2>1, <2>2, <2>3 DEF Serving
<1>6. QED
  BY <1>1, <1>2, <1>3, <1>4, <1>5 DEF Thread

\* So the invariant is kept if the thread keeps its own part of it, neither
\* returns from the dead nor un-starts, and heeds the flag.
LEMMA ThreadKeepsInv ==
  ASSUME IInv, TypeOK', NEW p \in Port, OnlyThread(p),
         ThreadInv(p)',
         pc[p] \notin {"none", "done"}, pc'[p] # "none",
         pc'[p] \in Leaving \/ result'[p] = 0 => stopIt
  PROVE  IInv'
<1>1. \A q \in Port : ThreadInv(q)'
  <2> SUFFICES ASSUME NEW q \in Port \ {p} PROVE ThreadInv(q)'
    OBVIOUS
  <2> QED
    BY DEF IInv, OnlyThread, ThreadInv
<1>2. TableInv'
  <2>1. UNCHANGED <<entries, startPortNo, joinable, joining, ui>>
    BY DEF OnlyThread, uiVars
  <2>2. p \in joinable
    BY DEF IInv, TableInv, TypeOK
  <2>3. \A q \in Port : pc'[q] = "none" <=> q \notin entries
    BY DEF IInv, TableInv, OnlyThread
  <2>4. \A q \in entries \ joinable : pc'[q] = "done"
    BY <2>2 DEF IInv, TableInv, TypeOK, OnlyThread
  <2>5. QED
    BY <2>1, <2>3, <2>4 DEF IInv, TableInv
<1>3. FlagInv'
  BY DEF IInv, FlagInv, OnlyThread, uiVars
<1>4. QED
  BY <1>1, <1>2, <1>3 DEF IInv

-----------------------------------------------------------------------------
(* Every step keeps the invariant. *)

\* What the handler does leaves a thread its part of the invariant.
LEMMA EvHandlerInv ==
  ASSUME TypeOK, NEW p \in Port, ThreadInv(p), pc[p] \in {"poll", "lastpoll", "close"},
         NEW gone, gone \cap behind[p] = {}, EvHandler(p, gone)
  PROVE  /\ served'[p] \subseteq {p} /\ behind'[p] \subseteq held'[p]
         /\ pc[p] = "close" => "ctl" \notin held'[p]
         /\ pc[p] # "close" => behind'[p] = {}
<1>1. served'[p] \subseteq {p}
  BY DEF EvHandler, TypeOK, ThreadInv, Serviced
<1>2. PICK new \in SUBSET Program :
        /\ held' = [held EXCEPT ![p] = (@ \ gone) \cup new]
        /\ behind' = IF pc[p] = "close" THEN [behind EXCEPT ![p] = @ \cup new] ELSE behind
  BY DEF EvHandler
<1>3. /\ held'[p] = (held[p] \ gone) \cup new
      /\ pc[p] = "close" => behind'[p] = behind[p] \cup new
      /\ pc[p] # "close" => behind'[p] = behind[p]
  BY <1>2 DEF TypeOK
<1>4. "ctl" \notin new
  BY WebServersAssumption
<1>5. QED
  BY <1>1, <1>3, <1>4 DEF ThreadInv

LEMMA CloseInv ==
  ASSUME TypeOK, NEW p \in Port, ThreadInv(p), pc[p] \in {"poll", "lastpoll", "close"},
         NEW r, r \notin behind[p], Close(p, r)
  PROVE  /\ served'[p] \subseteq {p} /\ behind'[p] \subseteq held'[p]
         /\ pc[p] = "close" => "ctl" \notin held'[p]
         /\ pc[p] # "close" => behind'[p] = {}
<1>1. CASE EvHandler(p, {r})
  BY <1>1, EvHandlerInv
<1>2. CASE Release(p, {r}) /\ UNCHANGED <<behind, served>>
  BY <1>2 DEF Release, TypeOK, ThreadInv, Serviced
<1>3. QED
  BY <1>1, <1>2 DEF Close

\* Clients and programs do not move the thread.
Peers(p) == Receive(p) \/ Serving(p) \/ \E r \in Peer : FreeConnection(p, r)

LEMMA PeersLeaveAlone ==
  ASSUME NEW p \in Port, Peers(p)
  PROVE  UNCHANGED <<pc, result, options>>
BY DEF Peers, Receive, Serving, FreeConnection, Accept, Sends, Disconnect, Pauses, Close

LEMMA PeersInv ==
  ASSUME TypeOK, NEW p \in Port, ThreadInv(p), Peers(p)
  PROVE  ThreadInv(p)'
<1>1. UNCHANGED <<pc, result, options>>
  BY PeersLeaveAlone
<1>2. CASE Pauses(p)
  BY <1>1, <1>2, Zenon DEF Pauses, ThreadInv, Polling
<1>3. CASE ~Pauses(p)
  <2>1. /\ pc[p] \in {"poll", "lastpoll", "close"}
        /\ served'[p] \subseteq {p} /\ behind'[p] \subseteq held'[p]
        /\ pc[p] = "close" => "ctl" \notin held'[p]
        /\ pc[p] # "close" => behind'[p] = {}
    <3>1. CASE Receive(p)
      BY <3>1, EvHandlerInv DEF Receive, Polling
    <3>2. CASE \E r \in Peer : FreeConnection(p, r)
      BY <3>2, CloseInv DEF FreeConnection
    <3>3. CASE \E c \in Client : Accept(p, c)
      BY <3>3 DEF Accept, Hold, Polling, TypeOK, ThreadInv, Serviced
    <3>4. CASE \E r \in Peer : Sends(p, r)
      BY <3>4 DEF Sends, Polling, ThreadInv
    <3>5. CASE \E r \in Peer : Disconnect(p, r)
      <4>1. PICK r \in Peer : Polling(p) /\ Close(p, r)
        BY <3>5 DEF Disconnect
      <4>2. behind[p] = {} /\ pc[p] \in {"poll", "lastpoll"}
        BY <4>1 DEF Polling, ThreadInv
      <4>3. QED
        BY <4>1, <4>2, CloseInv
    <3>6. QED
      BY <1>3, <3>1, <3>2, <3>3, <3>4, <3>5 DEF Peers, Serving
  <2>2. QED
    BY <1>1, <2>1 DEF ThreadInv, Serviced
<1>4. QED
  BY <1>2, <1>3

LEMMA ThreadInvStep ==
  ASSUME IInv, NEW p \in Port, Thread(p) \/ Serving(p)
  PROVE  IInv'
<1>1. TypeOK' /\ OnlyThread(p)
  BY ThreadType, ThreadFrame DEF IInv
<1>2. TypeOK /\ ThreadInv(p) /\ FlagInv /\ (stopIt' <=> stopIt)
  BY <1>1 DEF IInv, OnlyThread, uiVars
<1> USE DEF Goto, Hold, Release, Return, EvHandler
<1>3. CASE MgrInit(p)
  <2>1. held'[p] \subseteq Manager /\ pc[p] = "init" /\ pc'[p] = "bind"
    BY <1>2, <1>3 DEF MgrInit, TypeOK, ThreadInv, Manager
  <2>2. ThreadInv(p)'
    BY <1>2, <1>3, <2>1 DEF MgrInit, TypeOK, ThreadInv, Serviced
  <2>3. ~ (pc'[p] \in Leaving \/ result'[p] = 0)
    BY <1>2, <1>3, <2>1 DEF MgrInit, TypeOK, ThreadInv, Leaving, None
  <2>4. QED
    BY <1>1, <2>1, <2>2, <2>3, ThreadKeepsInv
<1>4. CASE BindSucceeds(p)
  <2>1. pc[p] = "bind" /\ pc'[p] = "setup" /\ result'[p] = None
    BY <1>2, <1>4 DEF BindSucceeds, TypeOK, ThreadInv
  <2>2. ThreadInv(p)'
    BY <1>2, <1>4, <2>1 DEF BindSucceeds, TypeOK, ThreadInv, Serviced
  <2>3. QED
    BY <1>1, <2>1, <2>2, ThreadKeepsInv DEF Leaving, None
<1>5. CASE BindFails(p)
  <2>1. pc[p] = "bind" /\ pc'[p] = "done" /\ result'[p] = -1
    BY <1>2, <1>5 DEF BindFails, TypeOK
  <2>2. ThreadInv(p)'
    BY <1>2, <1>5, <2>1 DEF BindFails, TypeOK, ThreadInv, Serviced
  <2>3. QED
    BY <1>1, <2>1, <2>2, ThreadKeepsInv DEF Leaving
<1>6. CASE Setup(p)
  <2>1. pc[p] = "setup" /\ pc'[p] = "check" /\ result'[p] = None
    BY <1>2, <1>6 DEF Setup, TypeOK, ThreadInv
  <2>2. ThreadInv(p)'
    BY <1>2, <1>6, <2>1 DEF Setup, TypeOK, ThreadInv, Serviced
  <2>3. QED
    BY <1>1, <2>1, <2>2, ThreadKeepsInv DEF Leaving, None
<1>7. CASE Loop(p)
  <2>1. /\ pc[p] = "check" /\ result'[p] = None
        /\ pc'[p] = (IF stopIt THEN "lastpoll" ELSE "poll")
    BY <1>2, <1>7 DEF Loop, TypeOK, ThreadInv
  <2>2. ThreadInv(p)'
    BY <1>2, <1>7, <2>1 DEF Loop, TypeOK, ThreadInv, Serviced
  <2>3. QED
    BY <1>1, <2>1, <2>2, ThreadKeepsInv DEF Leaving, None
<1>8. CASE PollReturns(p)
  <2>1. /\ result'[p] = None
        /\ \/ pc[p] = "poll" /\ pc'[p] = "check"
           \/ pc[p] = "lastpoll" /\ pc'[p] = "ctl"
    BY <1>2, <1>8 DEF PollReturns, TypeOK, ThreadInv
  <2>2. ThreadInv(p)'
    BY <1>2, <1>8, <2>1 DEF PollReturns, TypeOK, ThreadInv, Serviced
  <2>3. pc'[p] \in Leaving \/ result'[p] = 0 => stopIt
    BY <1>2, <2>1 DEF FlagInv, Leaving, None
  <2>4. QED
    BY <1>1, <2>1, <2>2, <2>3, ThreadKeepsInv
<1>9. CASE FreeCtl(p) \/ FreeListener(p)
  <2>1. /\ result'[p] = None
        /\ \/ pc[p] = "ctl" /\ pc'[p] = "close"
           \/ pc[p] = "close" /\ pc'[p] = "ifaces"
    BY <1>2, <1>9 DEF FreeCtl, FreeListener, TypeOK, ThreadInv
  <2>2. ThreadInv(p)'
    <3>1. pc'[p] = "close" => "ctl" \notin held'[p]
      BY <1>2, <1>9, <2>1 DEF FreeCtl, FreeListener, TypeOK
    <3>2. pc'[p] = "ifaces" => held'[p] \subseteq {"ifaces"} \cup behind'[p]
      BY <1>2, <1>9, <2>1
      DEF FreeCtl, FreeListener, OnlyListener, TypeOK, ThreadInv, Resource
    <3>3. UNCHANGED <<behind, options, served>>
      BY <1>9 DEF FreeCtl, FreeListener
    <3>4. behind[p] \subseteq held'[p]
      <4>1. \E r \in {"ctl", "listener"} : held' = [held EXCEPT ![p] = @ \ {r}]
        BY <1>9 DEF FreeCtl, FreeListener
      <4>2. "ctl" \notin behind[p] /\ "listener" \notin behind[p]
        BY <1>2, WebServersAssumption DEF TypeOK
      <4>3. QED
        BY <1>2, <4>1, <4>2 DEF TypeOK, ThreadInv
    <3>5. QED
      BY <1>2, <2>1, <3>1, <3>2, <3>3, <3>4 DEF ThreadInv, Serviced
  <2>3. pc'[p] \in Leaving \/ result'[p] = 0 => stopIt
    BY <1>2, <2>1 DEF FlagInv, Leaving, None
  <2>4. QED
    BY <1>1, <2>1, <2>2, <2>3, ThreadKeepsInv
<1>10. CASE FreeIfaces(p)
  <2>1. pc[p] = "ifaces" /\ pc'[p] = "done" /\ result'[p] = 0
    BY <1>2, <1>10 DEF FreeIfaces, TypeOK
  <2>2. held'[p] = behind'[p]
    <3>1. "ifaces" \notin behind[p]
      BY <1>2, WebServersAssumption DEF TypeOK
    <3>2. QED
      BY <1>2, <1>10, <2>1, <3>1 DEF FreeIfaces, TypeOK, ThreadInv
  <2>3. ThreadInv(p)'
    <3>1. served'[p] \subseteq {p}
      BY <1>2, <1>10 DEF FreeIfaces, ThreadInv
    <3>2. QED
      BY <2>1, <2>2, <3>1 DEF ThreadInv, Serviced
  <2>4. stopIt
    BY <1>2, <2>1 DEF FlagInv, Leaving
  <2>5. QED
    BY <1>1, <2>1, <2>3, <2>4, ThreadKeepsInv
<1>11. CASE Peers(p)
  <2>1. UNCHANGED <<pc, result>> /\ ThreadInv(p)'
    BY <1>2, <1>11, PeersLeaveAlone, PeersInv
  <2>2. pc[p] \notin {"none", "done"}
    BY <1>11
    DEF Peers, Receive, Serving, FreeConnection, Accept, Sends, Disconnect, Pauses, Polling
  <2>3. pc'[p] \in Leaving \/ result'[p] = 0 => stopIt
    BY <1>2, <2>1 DEF FlagInv
  <2>4. QED
    BY <1>1, <2>1, <2>2, <2>3, ThreadKeepsInv
<1>12. QED
  BY <1>3, <1>4, <1>5, <1>6, <1>7, <1>8, <1>9, <1>10, <1>11 DEF Thread, Peers

LEMMA InterfaceInvStep == IInv /\ Interface => IInv'
<1> SUFFICES ASSUME IInv, Interface PROVE IInv'
  OBVIOUS
<1>1. TypeOK'
  BY InterfaceType DEF IInv
<1>2. CASE StartWebServer
  <2>1. startPortNo \notin entries /\ startPortNo \notin joinable
    BY DEF IInv, TableInv, TypeOK
  <2>2. /\ pc' = [pc EXCEPT ![startPortNo] = "init"]
        /\ joinable' = joinable \cup {startPortNo}
        /\ entries' = entries \cup {startPortNo}
        /\ startPortNo' = startPortNo + 1
        /\ UNCHANGED <<ui, joining, stopIt, result, held, behind, options, served>>
        /\ startPortNo \in Port /\ ui = "loop"
    BY <1>2, <2>1 DEF StartWebServer, NextPort
  <2>3. pc[startPortNo] = "none"
    BY <2>1, <2>2 DEF IInv, TableInv
  <2>4. \A p \in Port : ThreadInv(p)'
    <3> SUFFICES ASSUME NEW p \in Port PROVE ThreadInv(p)'
      OBVIOUS
    <3>1. CASE p = startPortNo
      BY <2>2, <2>3, <3>1 DEF IInv, TypeOK, ThreadInv, Serviced
    <3>2. CASE p # startPortNo
      BY <2>2, <3>2 DEF IInv, TypeOK, ThreadInv
    <3>3. QED
      BY <3>1, <3>2
  <2>5. TableInv'
    <3>1. entries' = StartingPort .. (startPortNo' - 1)
      BY <2>2, WebServersAssumption DEF IInv, TableInv, Port
    <3>2. \A p \in Port : pc'[p] = "none" <=> p \notin entries'
      BY <2>2 DEF IInv, TableInv, TypeOK
    <3>3. \A p \in entries' \ joinable' : pc'[p] = "done"
      BY <2>1, <2>2 DEF IInv, TableInv, TypeOK
    <3>4. QED
      BY <2>2, <3>1, <3>2, <3>3 DEF IInv, TableInv
  <2>6. FlagInv'
    BY <2>2 DEF IInv, FlagInv, TypeOK, Leaving
  <2>7. QED
    BY <1>1, <2>4, <2>5, <2>6 DEF IInv
<1>3. CASE Quit \/ OnExit \/ Leave \/ \E p \in Port : Join(p)
  <2>1. UNCHANGED <<serverVars, entries, startPortNo, joinable>>
    BY <1>3 DEF Quit, OnExit, Leave, Join
  <2>2. \A p \in Port : ThreadInv(p)'
    BY <2>1 DEF IInv, ThreadInv, serverVars
  <2>3. TableInv'
    <3>1. CASE Quit \/ OnExit
      BY <2>1, <3>1 DEF Quit, OnExit, IInv, TableInv, serverVars
    <3>2. CASE Leave
      BY <2>1, <3>2 DEF Leave, AllJoined, IInv, TableInv, serverVars
    <3>3. CASE \E p \in Port : Join(p)
      BY <2>1, <3>3 DEF Join, IInv, TableInv, serverVars
    <3>4. QED
      BY <1>3, <3>1, <3>2, <3>3
  <2>4. FlagInv'
    <3>1. CASE Quit
      BY <2>1, <3>1 DEF Quit, IInv, FlagInv, serverVars
    <3>2. CASE OnExit
      BY <2>1, <3>2 DEF OnExit, IInv, FlagInv, serverVars
    <3>3. CASE Leave
      BY <2>1, <3>3 DEF Leave, AllJoined, IInv, FlagInv, serverVars
    <3>4. CASE \E p \in Port : Join(p)
      BY <2>1, <3>4 DEF Join, IInv, FlagInv, serverVars
    <3>5. QED
      BY <1>3, <3>1, <3>2, <3>3, <3>4
  <2>5. QED
    BY <1>1, <2>2, <2>3, <2>4 DEF IInv
<1>4. CASE Joined
  <2>1. joining \in joinable /\ ui = "joining" /\ pc[joining] = "done"
    BY <1>4 DEF Joined, IInv, TableInv
  <2>2. \A p \in Port : ThreadInv(p)'
    BY <1>4 DEF Joined, IInv, ThreadInv, serverVars
  <2>3. TableInv'
    BY <1>4, <2>1 DEF Joined, IInv, TableInv, serverVars, NoPort
  <2>4. FlagInv'
    BY <1>4, <2>1 DEF Joined, IInv, FlagInv, serverVars
  <2>5. QED
    BY <1>1, <2>2, <2>3, <2>4 DEF IInv
<1>5. QED
  BY <1>2, <1>3, <1>4 DEF Interface

LEMMA NextInv == IInv /\ [Next]_vars => IInv'
<1> SUFFICES ASSUME IInv, [Next]_vars PROVE IInv'
  OBVIOUS
<1>1. CASE Interface
  BY <1>1, InterfaceInvStep
<1>2. CASE \E p \in Port : Thread(p) \/ Serving(p)
  BY <1>2, ThreadInvStep
<1>3. CASE UNCHANGED vars
  BY <1>3
  DEF vars, uiVars, serverVars, IInv, TypeOK, ThreadInv, TableInv, FlagInv
<1>4. QED
  BY <1>1, <1>2, <1>3 DEF Next

\* The invariant holds throughout every behaviour.
THEOREM Invariance == SafeSpec => []IInv
<1>1. QED
  BY InitInv, NextInv, PTL DEF SafeSpec

\* Type correctness, for the reader who wants no more.
THEOREM TypeCorrect == SafeSpec => []TypeOK
<1>1. IInv => TypeOK
  BY DEF IInv
<1>2. QED
  BY <1>1, Invariance, PTL

\* No thread is ever overwritten or destroyed while it is joinable.
THEOREM NoTerminate == SafeSpec => []NeverTerminates
<1>1. IInv => NeverTerminates
  BY DEF IInv, FlagInv, NeverTerminates
<1>2. QED
  BY <1>1, Invariance, PTL

\* When the application has gone, so has every server thread.
THEOREM ThreadsGone == SafeSpec => []NoThreadOutlivesApp
<1>1. IInv => NoThreadOutlivesApp
  <2> SUFFICES ASSUME IInv, ui = "exited", NEW p \in Port
               PROVE  Ended(p)
    BY DEF NoThreadOutlivesApp
  <2>1. CASE p \in entries
    BY <2>1 DEF IInv, TableInv, FlagInv, Ended
  <2>2. CASE p \notin entries
    BY <2>2 DEF IInv, TableInv, Ended
  <2>3. QED
    BY <2>1, <2>2
<1>2. QED
  BY <1>1, Invariance, PTL

\* A server whose function has returned has no connection left that points
\* to its options.
THEOREM OptionsOutliveConnections == SafeSpec => []NoDanglingOptions
<1>1. IInv => NoDanglingOptions
  <2> SUFFICES ASSUME IInv, NEW p \in Port, pc[p] = "done"
               PROVE  held[p] \cap (Client \cup {"listener"}) = {}
    BY DEF NoDanglingOptions
  <2>1. held[p] \subseteq Manager \cup Program
    BY DEF IInv, ThreadInv, TypeOK
  <2>2. QED
    BY <2>1, WebServersAssumption DEF Manager
<1>2. QED
  BY <1>1, Invariance, PTL

\* A request is answered from the document root of its own port.
THEOREM OwnRoot == SafeSpec => []OwnDocumentRoot
<1>1. IInv => OwnDocumentRoot
  BY DEF IInv, ThreadInv, OwnDocumentRoot
<1>2. QED
  BY <1>1, Invariance, PTL

\* A server that ends regularly releases all but its connections to programs
\* which its own closes have started meanwhile, and only the servers whose bind
\* failed end before the user quits.
THEOREM RegularEnd == SafeSpec => [](RegularEndReleases /\ ServesUntilExit)
<1>1. IInv => RegularEndReleases
  BY DEF IInv, ThreadInv, RegularEndReleases
<1>2. IInv => ServesUntilExit
  BY DEF IInv, ThreadInv, FlagInv, ServesUntilExit
<1>3. QED
  BY <1>1, <1>2, Invariance, PTL

-----------------------------------------------------------------------------
(* WebServers implements ServerPool. *)

\* What a server thread is to the pool.
Image(p) == CASE pc[p] = "none" -> "off"
              [] pc[p] \in {"init", "bind"} -> "starting"
              [] pc[p] = "done" /\ result[p] = -1 -> "failed"
              [] pc[p] = "done" /\ result[p] # -1 -> "stopped"
              [] OTHER -> "serving"
PhaseImage == CASE ui \in {"loop", "quit", "terminated"} -> "open"
                [] ui = "joining" -> "closing"
                [] ui = "exited" -> "closed"
Images == [p \in Port |-> Image(p)]

LEMMA InitImage == Init => Pool!Init
BY DEF Init, Pool!Init

\* A step of the interface that leaves the threads where they are.
LEMMA ImagesUnchanged ==
  ASSUME UNCHANGED <<pc, result>>
  PROVE  Images' = Images
BY DEF Images, Image

\* A step of one thread changes one image.
LEMMA OneImage ==
  ASSUME TypeOK, NEW p \in Port, OnlyThread(p), NEW to, Image(p)' = to
  PROVE  Images' = [Images EXCEPT ![p] = to]
<1>1. \A q \in Port \ {p} : Image(q)' = Image(q)
  BY DEF OnlyThread, Image
<1>2. QED
  BY <1>1 DEF Images

LEMMA ThreadImage ==
  ASSUME IInv, NEW p \in Port, Thread(p) \/ Serving(p)
  PROVE  [Pool!Next]_(Pool!poolVars)
<1>1. OnlyThread(p) /\ TypeOK /\ PhaseImage' = PhaseImage
  BY ThreadFrame DEF IInv, OnlyThread, PhaseImage, uiVars
<1>2. ThreadInv(p) /\ FlagInv
  BY DEF IInv
<1>3. \/ Image(p)' = Image(p)
      \/ Image(p) = "starting" /\ Image(p)' \in {"serving", "failed"}
      \/ Image(p) = "serving" /\ Image(p)' = "stopped" /\ PhaseImage = "closing"
  <2> USE DEF Goto, Return, Image, TypeOK
  <2>1. CASE MgrInit(p)
    BY <1>1, <2>1 DEF MgrInit
  <2>2. CASE BindSucceeds(p) \/ BindFails(p)
    BY <1>1, <2>2 DEF BindSucceeds, BindFails
  <2>3. CASE Setup(p) \/ Loop(p) \/ PollReturns(p)
    BY <1>1, <2>3 DEF Setup, Loop, PollReturns
  <2>4. CASE FreeCtl(p) \/ FreeListener(p)
    BY <1>1, <2>4 DEF FreeCtl, FreeListener
  <2>5. CASE Peers(p)
    BY <2>5, PeersLeaveAlone
  <2>6. CASE FreeIfaces(p)
    <3>1. Image(p) = "serving" /\ Image(p)' = "stopped"
      BY <1>1, <2>6 DEF FreeIfaces
    <3>2. stopIt /\ ui # "exited"
      <4>1. pc[p] = "ifaces"
        BY <2>6 DEF FreeIfaces
      <4>2. p \in joinable
        BY <4>1 DEF IInv, TableInv
      <4>3. QED
        BY <1>2, <4>1, <4>2 DEF FlagInv, Leaving
    <3>3. QED
      BY <1>2, <3>1, <3>2 DEF FlagInv, PhaseImage
  <2>7. QED
    BY <2>1, <2>2, <2>3, <2>4, <2>5, <2>6 DEF Thread, Peers
<1>4. Images' = [Images EXCEPT ![p] = Image(p)'] /\ Images[p] = Image(p)
  BY <1>1, OneImage DEF Images
<1>5. CASE Image(p)' = Image(p)
  <2>1. Images' = Images
    BY <1>4, <1>5 DEF Images
  <2>2. QED
    BY <1>1, <2>1 DEF Images, Image, PhaseImage, Pool!poolVars
<1>6. CASE Image(p) = "starting" /\ Image(p)' \in {"serving", "failed"}
  <2>1. Pool!Serve(p) \/ Pool!Fail(p)
    BY <1>1, <1>4, <1>6
    DEF Images, Image, PhaseImage, Pool!Serve, Pool!Fail, Pool!Become
  <2>2. QED
    BY <2>1 DEF Pool!Next
<1>7. CASE Image(p) = "serving" /\ Image(p)' = "stopped" /\ PhaseImage = "closing"
  <2>1. Pool!Stop(p)
    BY <1>1, <1>4, <1>7
    DEF Images, Image, PhaseImage, Pool!Stop, Pool!Become
  <2>2. QED
    BY <2>1 DEF Pool!Next
<1>8. QED
  BY <1>3, <1>5, <1>6, <1>7

LEMMA InterfaceImage ==
  ASSUME IInv, Interface
  PROVE  [Pool!Next]_(Pool!poolVars)
<1>1. CASE StartWebServer
  <2>1. PICK p \in Port : p = startPortNo
    BY <1>1 DEF StartWebServer
  <2>2. p \notin joinable /\ pc[p] = "none"
    BY <2>1 DEF IInv, TableInv, TypeOK
  <2>3. /\ pc' = [pc EXCEPT ![p] = "init"]
        /\ UNCHANGED <<ui, result>> /\ ui = "loop"
    BY <1>1, <2>1, <2>2 DEF StartWebServer
  <2>4. /\ \A q \in Port \ {p} : pc'[q] = pc[q]
        /\ pc'[p] = "init"
    BY <2>3 DEF IInv, TypeOK
  <2>5. Pool!Start(p)
    <3>1. \A q \in Port \ {p} : Image(q)' = Image(q)
      BY <2>3, <2>4 DEF Image
    <3>2. Image(p) = "off" /\ Image(p)' = "starting"
      BY <2>2, <2>4 DEF Image
    <3>3. Images' = [Images EXCEPT ![p] = "starting"]
      BY <3>1, <3>2 DEF Images
    <3>4. QED
      BY <2>3, <3>2, <3>3 DEF Images, Image, Pool!Start, Pool!Become
  <2>6. QED
    BY <2>5 DEF Pool!Next
<1>2. CASE Quit \/ Joined \/ \E p \in Port : Join(p)
  <2>1. UNCHANGED <<pc, result>> /\ PhaseImage' = PhaseImage
    BY <1>2 DEF Quit, Joined, Join, serverVars, PhaseImage
  <2>2. Images' = Images
    BY <2>1, ImagesUnchanged
  <2>3. QED
    BY <2>1, <2>2 DEF Images, Image, PhaseImage, Pool!poolVars
<1>3. CASE OnExit
  <2>1. UNCHANGED <<pc, result>> /\ ui = "quit" /\ ui' = "joining"
    BY <1>3 DEF OnExit, serverVars
  <2>2. Images' = Images
    BY <2>1, ImagesUnchanged
  <2>3. Pool!Close
    BY <2>1, <2>2 DEF Images, Image, Pool!Close
  <2>4. QED
    BY <2>3 DEF Pool!Next
<1>4. CASE Leave
  <2>1. UNCHANGED <<pc, result>> /\ ui = "joining" /\ ui' = "exited"
    BY <1>4 DEF Leave, AllJoined, serverVars
  <2>2. Images' = Images
    BY <2>1, ImagesUnchanged
  <2>3. \A p \in Port : Image(p) \notin {"starting", "serving"}
    <3>1. \A p \in Port : pc[p] \in {"none", "done"}
      BY <1>4 DEF Leave, AllJoined, IInv, TableInv
    <3>2. QED
      BY <3>1 DEF Image
  <2>4. \A p \in Port : Images[p] \notin {"starting", "serving"}
    BY <2>3 DEF Images
  <2>5. Pool!Finish
    BY <2>1, <2>2, <2>4 DEF Images, Image, Pool!Finish, Pool!Live
  <2>6. QED
    BY <2>5 DEF Pool!Next
<1>5. QED
  BY <1>1, <1>2, <1>3, <1>4 DEF Interface

\* Every step of the application is a step of the pool or changes nothing
\* the pool can see.
LEMMA NextImage == IInv /\ [Next]_vars => [Pool!Next]_(Pool!poolVars)
<1> SUFFICES ASSUME IInv, [Next]_vars PROVE [Pool!Next]_(Pool!poolVars)
  OBVIOUS
<1>1. CASE Next
  BY <1>1, InterfaceImage, ThreadImage DEF Next
<1>2. CASE UNCHANGED vars
  <2>1. UNCHANGED <<pc, result, ui>>
    BY <1>2 DEF vars, uiVars, serverVars
  <2>2. QED
    BY <2>1 DEF Pool!poolVars
<1>3. QED
  BY <1>1, <1>2

\* The safety half of the refinement: servers are started while the
\* application is open, stop while it closes, and none is left when it is
\* closed.
THEOREM Implements == SafeSpec => Pool!SafeSpec
<1>1. QED
  BY InitImage, NextImage, Invariance, PTL DEF SafeSpec, Pool!SafeSpec
=============================================================================
