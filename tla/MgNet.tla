-------------------------------- MODULE MgNet --------------------------------
(***************************************************************************)
(* The event manager of mongoose.c over its select() interface: one        *)
(* manager's list of connections, their sockets, and the thread that polls *)
(* them and finally frees the manager, while clients connect, send, shut   *)
(* down and reset.  The handlers that run inside a poll are those of the   *)
(* HTTP server: replies, file transfers, and CGI programs, whose socket is *)
(* a connection of the same list.  Connections are plain TCP, as in        *)
(* minimal.cpp: no SSL, UDP, timers, outgoing connects, WebSockets or      *)
(* recv_mbuf_limit.                                                        *)
(*                                                                         *)
(* A connection is a block of memory, which may be handed out again once   *)
(* it is freed.  A descriptor is a number; the kernel hands out the lowest *)
(* free one.  Amounts of data are counted in units: a buffer's worth of    *)
(* output, one recv() of input.                                            *)
(***************************************************************************)
EXTENDS Integers, Sequences, FiniteSets, SequencesExt

CONSTANTS
  Conn,        \* the blocks of memory connections live in
  Listener,    \* the one mg_bind returned
  NoConn,      \* NULL
  NumFds,      \* descriptors the process may have
  SetSize,     \* FD_SETSIZE
  MaxSend,     \* MG_MAX_HTTP_SEND_MBUF; a fuller buffer looks the same
  FileSize,    \* units of the file a request asks for
  MaxInput,    \* bound on the units waiting in a socket
  MaxEvents    \* bound on what clients and programs do in a behaviour,
               \* parts of messages apart (RecvPart)

ASSUME MgNetAssumption ==
  /\ Listener \in Conn
  /\ NoConn \notin Conn
  /\ NumFds \in Nat \ {0}
  /\ {SetSize, MaxSend, FileSize} \subseteq Nat \ {0}
  /\ {MaxInput, MaxEvents} \subseteq Nat

Fd == 0 .. (NumFds - 1)
NoFd == -1

VARIABLES
  list,       \* active_connections, head first
  conn,       \* what the blocks hold
  opened,     \* the descriptors in use
  input,      \* what waits in each socket
  peer,       \* the other end: "up", "eof" (shut down) or "reset"
  backlog,    \* clients the kernel holds for accept()
  events,     \* how much clients and programs have done
  readSet,    \* the descriptor sets, as built and as select() leaves them
  writeSet,
  seen,       \* history: whose each descriptor was when they were built
  tryDup,     \* try_dup
  pc,         \* where the thread is
  nc, tmp,    \* the connection being visited, the one to visit next
  final       \* mg_mgr_free has been called

kernelVars == <<opened, input, peer>>
setVars == <<readSet, writeSet, seen, tryDup>>
vars == <<list, conn, kernelVars, backlog, events, setVars, pc, nc, tmp,
          final>>

\* A new block of memory.
Blank == [sock |-> NoFd,
          flags |-> {},
          send |-> 0,             \* send_mbuf.len
          listener |-> NoConn,    \* who accepted it
          held |-> FALSE,         \* recv_mbuf starts with whole headers
          file |-> 0,             \* what proto_data's file has left
          link |-> NoConn]        \* its CGI connection, or, of such a one,
                                  \* user_data

Active == ToSet(list)
Listening(c) == "LISTENING" \in conn[c].flags
Closing(c) == "CLOSE_IMMEDIATELY" \in conn[c].flags
IsHttp(m, c) == m[c].listener # NoConn
IsCgi(m, c) == m[c].listener = NoConn /\ "LISTENING" \notin m[c].flags

\* After mg_bind: the listener is the only connection, on descriptor 0.
Init ==
  /\ list = <<Listener>>
  /\ conn = [c \in Conn |->
               IF c = Listener
                 THEN [Blank EXCEPT !.sock = 0, !.flags = {"LISTENING"}]
                 ELSE Blank]
  /\ opened = {0}
  /\ input = [f \in Fd |-> 0]
  /\ peer = [f \in Fd |-> "up"]
  /\ backlog = 0 /\ events = 0
  /\ readSet = {} /\ writeSet = {}
  /\ seen = [f \in Fd |-> NoConn]
  /\ tryDup = TRUE
  /\ pc = "idle" /\ nc = NoConn /\ tmp = NoConn
  /\ final = FALSE

-----------------------------------------------------------------------------
(* The other ends of the sockets: clients, and programs started by CGI.    *)

Outside == /\ events < MaxEvents
           /\ events' = events + 1
           /\ UNCHANGED <<list, conn, opened, setVars, pc, nc, tmp, final>>

\* Listeners have no other end.
Streams == {conn[c].sock : c \in {d \in Active : ~Listening(d)}}

ClientConnects == /\ Outside
                  /\ backlog' = backlog + 1
                  /\ UNCHANGED <<input, peer>>

PeerSends(f) == /\ Outside
                /\ peer[f] = "up" /\ input[f] < MaxInput
                /\ input' = [input EXCEPT ![f] = @ + 1]
                /\ UNCHANGED <<peer, backlog>>

PeerShuts(f) == /\ Outside
                /\ peer[f] = "up"
                /\ peer' = [peer EXCEPT ![f] = "eof"]
                /\ UNCHANGED <<input, backlog>>

PeerResets(f) == /\ Outside
                 /\ peer[f] # "reset"
                 /\ peer' = [peer EXCEPT ![f] = "reset"]
                 /\ input' = [input EXCEPT ![f] = 0]
                 /\ UNCHANGED backlog

PeerStep == \/ ClientConnects
            \/ \E f \in Streams : PeerSends(f) \/ PeerShuts(f) \/ PeerResets(f)

-----------------------------------------------------------------------------
(* The list, the descriptors and the fields handlers touch.                *)

Place(l, c) == CHOOSE i \in DOMAIN l : l[i] = c
Following(c) == LET i == Place(list, c)
                IN IF i < Len(list) THEN list[i + 1] ELSE NoConn
First(l) == IF l = <<>> THEN NoConn ELSE Head(l)

\* Faulty variant of AddConn: the list grows at its end.
AddConnLast(l, c) == Append(l, c)
\* mg_add_conn: the list grows at its head.
AddConn(l, c) == <<c>> \o l
RemoveConn(l, c) == RemoveAt(l, Place(l, c))

Low(fds) == CHOOSE f \in fds : \A g \in fds : f <= g
Least(a, b) == IF a < b THEN a ELSE b

WithFlag(m, c, flag) == [m EXCEPT ![c].flags = @ \cup {flag}]
\* mg_send and mg_forward: the buffer grows; it is full at MaxSend.
Queue(m, c, n) == [m EXCEPT ![c].send = Least(@ + n, MaxSend)]

\* mg_http_transfer_file_data: fill the buffer up to its limit; at the end
\* of the file ask for the connection to be closed, unless it is kept alive.
TransferFile(m, c) ==
  IF m[c].file = 0
    THEN {m}
    ELSE LET n == Least(MaxSend - m[c].send, m[c].file)
             filled == [m EXCEPT ![c].send = @ + n, ![c].file = @ - n]
         IN IF filled[c].file > 0
              THEN {filled}
              ELSE {filled, WithFlag(filled, c, "SEND_AND_CLOSE")}

\* Faulty variant of Unlink: the CGI connection keeps its user_data.
UnlinkHalf(m, c) ==
  LET d == m[c].link
  IN IF d = NoConn
       THEN m
       ELSE [WithFlag(m, d, "CLOSE_IMMEDIATELY") EXCEPT ![c].link = NoConn]

\* Faulty variant of Unlink: the CGI connection is freed on the spot.
UnlinkFrees(m, c) ==
  LET d == m[c].link
  IN IF d = NoConn THEN m ELSE [m EXCEPT ![d] = Blank, ![c].link = NoConn]

\* mg_http_free_proto_data_cgi: c's program is no longer its concern.
Unlink(m, c) ==
  LET d == m[c].link
  IN IF d = NoConn
       THEN m
       ELSE [WithFlag(m, d, "CLOSE_IMMEDIATELY")
               EXCEPT ![d].link = NoConn, ![c].link = NoConn]

\* mg_http_create_proto_data: what the previous request left is flushed.
NewProtoData(m, c) == [Unlink(m, c) EXCEPT ![c].file = 0]

-----------------------------------------------------------------------------
(* The handlers: mg_http_handler of a client's connection (with            *)
(* mg_serve_http behind ev_handler) and mg_cgi_ev_handler.  Each maps the   *)
(* blocks m an event finds to the set of those it may leave.               *)

\* An event of a CGI connection whose client is gone.
Abandoned(m, c) == WithFlag(m, c, "CLOSE_IMMEDIATELY")

OnPoll(m, c) ==
  IF IsHttp(m, c) THEN TransferFile(m, c)
  ELSE IF IsCgi(m, c) /\ m[c].link = NoConn THEN {Abandoned(m, c)}
  ELSE {m}

\* Faulty variant of OnSend: files wait for the next poll.
OnSendIdle(m, c) ==
  IF IsCgi(m, c) /\ m[c].link = NoConn THEN {Abandoned(m, c)} ELSE {m}

OnSend(m, c) == OnPoll(m, c)

\* A dispatched request: a reply or an error, on a connection kept alive or
\* not, or a file.  What the client sent behind it may be whole headers.
Replied(m, c) ==
  LET sent == Queue(m, c, 1)
  IN {sent, WithFlag(sent, c, "SEND_AND_CLOSE")}
        \cup TransferFile([m EXCEPT ![c].send = Least(@ + 1, MaxSend),
                                    ![c].file = FileSize], c)

\* MG_EV_RECV of a client's connection, where it starts no program: the
\* headers are not whole, or bad, or the body is not; or the request is
\* dispatched.
OnHttpRecv(m, c) ==
  UNION {(IF k[c].held
            THEN {}
            ELSE {k, WithFlag(k, c, "CLOSE_IMMEDIATELY")})
         \cup {[NewProtoData(k, c) EXCEPT ![c].held = TRUE]}
         \cup {[r EXCEPT ![c].held = h] :
                 r \in Replied(NewProtoData(k, c), c), h \in BOOLEAN} :
         k \in TransferFile(m, c)}

\* MG_EV_RECV of a CGI connection: no whole headers yet, bad ones, or
\* output to pass on.
OnCgiRecv(m, c) ==
  LET d == m[c].link
  IN IF d = NoConn
       THEN {Abandoned(m, c)}
       ELSE {m, Queue(m, d, 1),
             WithFlag(WithFlag(Queue(m, d, 1), d, "SEND_AND_CLOSE"),
                      c, "CLOSE_IMMEDIATELY")}

OnRecv(m, c) == IF IsHttp(m, c) THEN OnHttpRecv(m, c) ELSE OnCgiRecv(m, c)

\* mg_handle_cgi of client c: d is the program's connection, on socket f,
\* n what is pushed to it.  The request buffer is emptied.
StartCgi(m, c, d, f, n) ==
  [m EXCEPT ![d] = [Blank EXCEPT !.sock = f, !.link = c, !.send = n],
            ![c].link = d,
            ![c].held = FALSE]

\* mg_socketpair takes three descriptors and keeps the second and the
\* third; the third goes to the program.
PairPossible(op) == Cardinality(Fd \ op) >= 3
PairFd(op) == LET free == Fd \ op IN Low(free \ {Low(free)})

\* MG_EV_CLOSE, and the destructors of mg_destroy_conn: the client of a
\* finished program is to be closed once it has the output, the program of
\* a gone client is abandoned.
OnClose(m, c) ==
  IF IsCgi(m, c) /\ m[c].link # NoConn
    THEN WithFlag(Unlink(m, m[c].link), m[c].link, "SEND_AND_CLOSE")
    ELSE Unlink(m, c)
Destroy(m, c) == [Unlink(m, c) EXCEPT ![c] = Blank]

-----------------------------------------------------------------------------
(* Closing a connection.                                                   *)

\* What fits in a fresh descriptor's place.
Fresh(fn, f, v) == IF f = NoFd THEN fn ELSE [fn EXCEPT ![f] = v]

\* mg_socket_if_destroy_conn.
Closed(op, f) == op \ {f}

\* mg_close_conn of c, which leaves the list and gives its descriptor back
\* before its handler sees MG_EV_CLOSE; a request whose body was not whole
\* is dispatched then, and may start a program: its connection enters the
\* list while c is on its way out.
CloseConn(m, c) ==
  LET old == m[c].sock
      op == Closed(opened, old)
      l == RemoveConn(list, c)
      e == OnClose(m, c)
  IN \/ /\ list' = l
        /\ conn' = Destroy(e, c)
        /\ opened' = op
        /\ input' = Fresh(input, old, 0)
        /\ peer' = Fresh(peer, old, "up")
     \/ /\ m[c].held /\ PairPossible(op)
        /\ \E d \in Conn \ Active, n \in 0 .. 1, p \in {"up", "eof"} :
             LET f == PairFd(op)
             IN /\ list' = AddConn(l, d)
                /\ conn' = Destroy(StartCgi(e, c, d, f, n), c)
                /\ opened' = op \cup {f}
                /\ input' = Fresh(Fresh(input, old, 0), f, 0)
                /\ peer' = Fresh(Fresh(peer, old, "up"), f, p)

-----------------------------------------------------------------------------
(* The thread: mg_socket_if_poll, again and again, then mg_mgr_free.       *)

restVars == <<backlog, events, final>>

\* One turn of the loop of StartWebServer, or, once it is left,
\* mg_mgr_free with its last poll: empty sets, the cursor at the head.
StartPoll ==
  /\ pc = "idle" /\ ~final
  /\ final' \in BOOLEAN
  /\ pc' = "build" /\ nc' = First(list)
  /\ readSet' = {} /\ writeSet' = {} /\ tryDup' = TRUE
  /\ seen' = [f \in Fd |-> NoConn]
  /\ UNCHANGED <<list, conn, kernelVars, backlog, events, tmp>>

\* Faulty variant of Replaced: the old descriptor stays open.
BothOpen(op, old, new) == op \cup {old, new}
\* dup() and closesocket() of the one it copied.
Replaced(op, old, new) == (op \ {old}) \cup {new}
Moved(fn, old, new, v) == IF old = new
                            THEN fn
                            ELSE [fn EXCEPT ![new] = fn[old], ![old] = v]

\* Faulty variant of Exchangeable: an off-by-one at the limit.
ExchangeableBelow(old, free) ==
  old >= SetSize /\ free # {} /\ Low(free) + 1 < SetSize
\* dup() finds a descriptor that fits for one that does not.
Exchangeable(old, free) ==
  old >= SetSize /\ free # {} /\ Low(free) < SetSize

\* The first loop, for one connection.  A descriptor beyond FD_SETSIZE is
\* exchanged for a lower one if the kernel has one; after one failure no
\* other connection tries.  One that stays beyond enters no set.
Build ==
  /\ pc = "build" /\ nc # NoConn
  /\ LET old == conn[nc].sock
         free == Fd \ opened
         exchanged == tryDup /\ Exchangeable(old, free)
         new == IF exchanged THEN Low(free) ELSE old
         fits == {new} \cap 0 .. (SetSize - 1)
     IN /\ conn' = [conn EXCEPT ![nc].sock = new]
        /\ opened' = Replaced(opened, old, new)
        /\ input' = Moved(input, old, new, 0)
        /\ peer' = Moved(peer, old, new, "up")
        /\ tryDup' = (tryDup /\ (old >= SetSize => exchanged))
        /\ readSet' = readSet \cup fits
        /\ writeSet' = IF conn[nc].send > 0
                         THEN writeSet \cup fits ELSE writeSet
        /\ seen' = [seen EXCEPT ![new] = nc]
  /\ nc' = Following(nc)
  /\ UNCHANGED <<list, pc, tmp, restVars>>

Readable(f) == \/ f = conn[Listener].sock /\ backlog > 0
               \/ input[f] > 0
               \/ peer[f] # "up"

\* select(): of the sockets asked for, those with something to read; and of
\* those with output, those whose peer has room, or is gone.
Select ==
  /\ pc = "build" /\ nc = NoConn
  /\ pc' = "poll" /\ nc' = First(list)
  /\ readSet' = {f \in readSet : Readable(f)}
  /\ \E room \in SUBSET writeSet :
       writeSet' = room \cup {f \in writeSet : peer[f] = "reset"}
  /\ UNCHANGED <<list, conn, kernelVars, seen, tryDup, tmp, restVars>>

\* The bits the second loop finds for a descriptor.  FD_ISSET beyond
\* FD_SETSIZE reads whatever lies behind the set.
Bits(set, f) == IF f < SetSize THEN {f \in set}
                ELSE IF readSet \cup writeSet = {} THEN {FALSE}
                ELSE BOOLEAN

\* The next connection of the second loop; behind the last one the poll
\* returns, and mg_mgr_free goes on to its own walk.
GoOn(next, l) ==
  IF next # NoConn THEN pc' = "poll" /\ nc' = next
  ELSE IF final THEN pc' = "walk" /\ nc' = First(l)
  ELSE pc' = "idle" /\ nc' = NoConn

\* mg_if_poll's conditions for closing.
Due(m, c) == \/ "CLOSE_IMMEDIATELY" \in m[c].flags
             \/ "SEND_AND_CLOSE" \in m[c].flags /\ m[c].send = 0

\* mg_if_poll of a connection that is due.
PollCloses ==
  /\ pc = "poll" /\ Due(conn, nc)
  /\ tmp' = Following(nc)
  /\ CloseConn(WithFlag(conn, nc, "CLOSE_IMMEDIATELY"), nc)
  /\ GoOn(tmp', list')
  /\ UNCHANGED <<setVars, restVars>>

\* mg_if_poll of any other: MG_EV_POLL.
PollConn ==
  /\ pc = "poll" /\ ~Due(conn, nc)
  /\ tmp' = Following(nc)
  /\ conn' \in OnPoll(conn, nc)
  /\ pc' = "recv"
  /\ UNCHANGED <<list, kernelVars, setVars, nc, restVars>>

\* Nothing to read, or, in mg_do_recv, no wish to.
PassRecv ==
  /\ pc = "recv"
  /\ FALSE \in Bits(readSet, conn[nc].sock) \/ Closing(nc)
  /\ pc' = "send"
  /\ UNCHANGED <<list, conn, kernelVars, setVars, nc, tmp, restVars>>

\* mg_accept_conn: one client at a time.  Without a descriptor accept()
\* fails and the client keeps waiting, without memory it is hung up on.
Accept ==
  /\ pc = "recv" /\ Listening(nc)
  /\ TRUE \in Bits(readSet, conn[nc].sock)
  /\ pc' = "send"
  /\ LET f == Low(Fd \ opened)
     IN IF backlog = 0 \/ Fd = opened
          THEN UNCHANGED <<list, conn, kernelVars, backlog>>
          ELSE /\ backlog' = backlog - 1
               /\ IF Active = Conn
                    THEN UNCHANGED <<list, conn, kernelVars>>
                    ELSE \E d \in Conn \ Active :
                           /\ list' = AddConn(list, d)
                           /\ conn' = [conn EXCEPT ![d] =
                                [Blank EXCEPT !.sock = f, !.listener = nc]]
                           /\ opened' = opened \cup {f}
                           /\ input' = [input EXCEPT ![f] = 0]
                           /\ peer' = [peer EXCEPT ![f] = "up"]
  /\ UNCHANGED <<setVars, nc, tmp, events, final>>

\* mg_do_recv takes over.
StartRecv ==
  /\ pc = "recv" /\ ~Listening(nc) /\ ~Closing(nc)
  /\ TRUE \in Bits(readSet, conn[nc].sock)
  /\ pc' = "drain"
  /\ UNCHANGED <<list, conn, kernelVars, setVars, nc, tmp, restVars>>

\* One recv() with data and its MG_EV_RECV.
RecvUnit ==
  /\ pc = "drain"
  /\ LET f == conn[nc].sock
     IN input[f] > 0 /\ input' = [input EXCEPT ![f] = @ - 1]
  /\ conn' \in OnRecv(conn, nc)
  /\ pc' = IF "CLOSE_IMMEDIATELY" \in conn'[nc].flags THEN "send" ELSE "drain"
  /\ UNCHANGED <<list, opened, peer, setVars, nc, tmp, restVars>>

\* The same, where a whole request starts a program.  A failed fork() goes
\* unnoticed (its result -1 is not 0): the other end of the new socket is
\* then simply closed.
RecvStartsCgi ==
  /\ pc = "drain" /\ IsHttp(conn, nc)
  /\ LET f == conn[nc].sock
         g == PairFd(opened)
     IN /\ input[f] > 0
        /\ \E k \in TransferFile(conn, nc) :
             IF PairPossible(opened)
               THEN \E d \in Conn \ Active, n \in 0 .. 1, p \in {"up", "eof"} :
                      /\ list' = AddConn(list, d)
                      /\ conn' = StartCgi(NewProtoData(k, nc), nc, d, g, n)
                      /\ opened' = opened \cup {g}
                      /\ input' = [input EXCEPT ![f] = @ - 1, ![g] = 0]
                      /\ peer' = [peer EXCEPT ![g] = p]
                      /\ pc' = pc
               ELSE /\ conn' = WithFlag(NewProtoData(k, nc), nc,
                                        "CLOSE_IMMEDIATELY")
                    /\ input' = [input EXCEPT ![f] = @ - 1]
                    /\ pc' = "send"
                    /\ UNCHANGED <<list, opened, peer>>
  /\ UNCHANGED <<setVars, nc, tmp, restVars>>

\* recv() with part of a message, which comes while the thread reads and
\* counts as no event: the handler sees it and leaves all as it is.  The
\* loop of mg_do_recv asks again.
RecvPart ==
  /\ pc = "drain"
  /\ LET f == conn[nc].sock IN input[f] = 0 /\ peer[f] = "up"
  /\ conn \in OnRecv(conn, nc)
  /\ pc' = "parse"
  /\ UNCHANGED <<list, conn, kernelVars, setVars, nc, tmp, restVars>>

AskAgain ==
  /\ pc = "parse"
  /\ pc' = "drain"
  /\ UNCHANGED <<list, conn, kernelVars, setVars, nc, tmp, restVars>>

AfterEmpty(f) == "send"

\* recv() without data: later, never again, or an error.
RecvEnds ==
  /\ pc = "drain"
  /\ LET f == conn[nc].sock
     IN /\ input[f] = 0
        /\ conn' = IF peer[f] = "up"
                     THEN conn
                     ELSE WithFlag(conn, nc, IF peer[f] = "eof"
                                               THEN "SEND_AND_CLOSE"
                                               ELSE "CLOSE_IMMEDIATELY")
        /\ pc' = AfterEmpty(f)
  /\ UNCHANGED <<list, kernelVars, setVars, nc, tmp, restVars>>

MaySend == conn[nc].send > 0 /\ ~Closing(nc)

\* No room, nothing to send, or, in mg_if_can_send_cb, no wish to.
PassSend ==
  /\ pc = "send"
  /\ FALSE \in Bits(writeSet, conn[nc].sock) \/ ~MaySend
  /\ GoOn(tmp, list)
  /\ UNCHANGED <<list, conn, kernelVars, setVars, tmp, restVars>>

\* mg_if_can_send_cb: send() takes some of the buffer, or fails, and either
\* way the handler sees MG_EV_SEND.
Send ==
  /\ pc = "send" /\ MaySend
  /\ TRUE \in Bits(writeSet, conn[nc].sock)
  /\ IF peer[conn[nc].sock] = "reset"
       THEN conn' \in OnSend(WithFlag(conn, nc, "CLOSE_IMMEDIATELY"), nc)
       ELSE \E n \in 1 .. conn[nc].send :
              conn' \in OnSend([conn EXCEPT ![nc].send = @ - n], nc)
  /\ GoOn(tmp, list)
  /\ UNCHANGED <<list, kernelVars, setVars, tmp, restVars>>

\* The walk of mg_mgr_free.
FreeConn ==
  /\ pc = "walk" /\ nc # NoConn
  /\ tmp' = Following(nc)
  /\ CloseConn(WithFlag(conn, nc, "CLOSE_IMMEDIATELY"), nc)
  /\ nc' = tmp'
  /\ UNCHANGED <<setVars, pc, restVars>>

FreeDone ==
  /\ pc = "walk" /\ nc = NoConn
  /\ pc' = "freed"
  /\ UNCHANGED <<list, conn, kernelVars, setVars, nc, tmp, restVars>>

ThreadStep ==
  \/ StartPoll \/ Build \/ Select \/ PollCloses \/ PollConn
  \/ PassRecv \/ Accept \/ StartRecv \/ RecvUnit \/ RecvStartsCgi
  \/ RecvPart \/ AskAgain \/ RecvEnds \/ PassSend \/ Send \/ FreeConn \/ FreeDone

Next == PeerStep \/ ThreadStep

\* The thread runs; and a peer that stays reads what it is sent: select()
\* does not report its socket full for ever.
HasRoom(f) == Select /\ f \in writeSet'
Fairness == /\ WF_vars(ThreadStep)
            /\ \A f \in Fd : SF_vars(HasRoom(f))

\* A peer does not go on sending for ever while it is read from: at some
\* time its socket is found empty.  Nothing in mg_do_recv sees to that.
PeersPause == SF_vars(RecvEnds)

SafeSpec == Init /\ [][Next]_vars
Spec == SafeSpec /\ Fairness /\ PeersPause

-----------------------------------------------------------------------------
(* Safety.                                                                 *)

Alive(c) == c \in Active /\ conn[c].sock # NoFd

\* The thread is in the second loop, between mg_if_poll and the next one.
Visit == {"recv", "drain", "parse", "send"}

\* Whatever handlers did meanwhile, no connection of the list is freed, and
\* the one the thread is about to touch and the one it has saved to touch
\* next are in the list: the saved cursor of mg_socket_if_poll and of
\* mg_mgr_free is never a dangling pointer.
CursorsAlive ==
  /\ \A c \in Active : Alive(c)
  /\ pc \in Visit => Alive(nc) /\ (tmp = NoConn \/ Alive(tmp))
  /\ pc \in {"build", "poll", "walk"} => nc = NoConn \/ Alive(nc)

\* The pointers between a client and its program lead to each other or
\* nowhere, whichever of the two closes first and whatever a closing one
\* starts: neither handler ever writes to a freed or reused block.
LinksMutual ==
  \A c \in Active : LET d == conn[c].link
                    IN d = NoConn \/ (Alive(d) /\ conn[d].link = c)

\* mg_http_handler reads nc->listener: no accepted connection is left when
\* the listener is freed, in particular not by mg_mgr_free, which walks from
\* the head and relies on the listener being last.
ListenerOutlives ==
  \A c \in Active : conn[c].listener \in Active \cup {NoConn}

\* Every descriptor in use belongs to exactly one connection of the list:
\* none leaks and none is closed by the wrong owner, through accept(), the
\* dup() exchange, CGI and closes of the same poll.
FdOwned ==
  /\ opened = {conn[c].sock : c \in Active}
  /\ \A c, d \in Active : c # d => conn[c].sock # conn[d].sock

\* The second loop applies readiness bits only to the connection they were
\* collected for, though descriptors closed earlier in the loop are reused
\* by connections that appear in it.
ReadinessIsOwn ==
  pc \in Visit => seen[conn[nc].sock] = nc

\* The dup() exchange is complete: a descriptor beyond FD_SETSIZE is left
\* out of select() only when every lower one is taken.
ExchangeComplete ==
  pc = "build" /\ nc = NoConn /\ (\E c \in Active : conn[c].sock >= SetSize)
    => 0 .. (SetSize - 1) \subseteq opened

\* A connection that no error, peer or handler condemns is closed by a poll
\* only when its whole output is gone, the rest of its file included.
ClosesFlushed ==
  [][\A c \in Active : c \notin ToSet(list') /\ pc = "poll" /\ ~Closing(c)
        => conn[c].send = 0 /\ conn[c].file = 0]_vars

\* mongoose.h:3690 of mg_mgr_free: "Closes and deallocates all active
\* connections."
FreeReleasesAll == pc = "freed" => list = <<>> /\ opened = {}

-----------------------------------------------------------------------------
(* Liveness.                                                               *)


Gone(c) == c \notin Active \/ pc = "freed"


-----------------------------------------------------------------------------
(* The promise.                                                            *)

\* How far client connection c is.
StatusOf(c) ==
  IF c \notin Active \/ ~IsHttp(conn, c) THEN "none"
  ELSE IF Closing(c) THEN "condemned"
  ELSE IF "SEND_AND_CLOSE" \in conn[c].flags THEN "ending"
  ELSE "open"

Manager == INSTANCE ConnManager
  WITH Client <- Conn \ {Listener},
       status <- [c \in Conn \ {Listener} |-> StatusOf(c)],
       listening <- Listener \in Active,
       phase <- IF pc = "freed" THEN "freed"
                ELSE IF final THEN "freeing" ELSE "serving"

=============================================================================
