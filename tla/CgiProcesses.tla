----------------------------- MODULE CgiProcesses -----------------------------
(***************************************************************************)
(* Descriptors and CGI programs.  The server threads of the application    *)
(* share one descriptor table, and fork() of any of them copies all of it. *)
(* What a program must not inherit carries the close-on-exec flag, which   *)
(* is set some steps after the descriptor was made, while other threads    *)
(* fork; dup() at FD_SETSIZE makes a descriptor without it.  A connection  *)
(* ends for its other side only when no process holds it any more.         *)
(*                                                                         *)
(* Each thread takes the system calls of mg_accept_conn, mg_handle_cgi,    *)
(* mg_socketpair and mg_start_process in order, one step each.  A client   *)
(* asks for one program, so the program and its sockets bear its name.     *)
(* Listeners and control sockets are as old as their servers and left out. *)
(***************************************************************************)
EXTENDS Integers, FiniteSets

CONSTANTS
  Server,  \* the server threads
  Client   \* the clients

ASSUME CgiProcessesAssumption == Server # {} /\ Client # {}

\* The sockets: of the client; the listener of the pair, which lives only
\* while the pair is made; the server's and the program's end of the pair.
Sock == {"client", "door", "near", "far"} \X Client
Of(k, c) == <<k, c>>

\* A descriptor is not there, or there without or with close-on-exec.
Table == [Sock -> {"absent", "plain", "flagged"}]
NoFiles == [d \in Sock |-> "absent"]

VARIABLES
  owner,      \* the server of each client
  step,       \* where its server is with each client
  files,      \* the descriptors of the application
  proc,       \* of each program: "none", "forked", "running", "over"
  inherited,  \* the descriptors of each program
  exchanged   \* history: the sockets that dup() has moved

vars == <<owner, step, files, proc, inherited, exchanged>>

\* In the middle of a call, when the thread does nothing else.
Inside == {"accepted", "door", "near", "far", "half", "paired", "ready",
           "forked", "linked"}
\* Between two visits.  open: it has no program; cgi: it has one; ending: to
\* be closed after its output; orphan: closed, its program's end not yet.
Between == {"none", "open", "cgi", "ending", "orphan", "closed"}

Init ==
  /\ owner \in [Client -> Server]
  /\ step = [c \in Client |-> "none"]
  /\ files = NoFiles
  /\ proc = [c \in Client |-> "none"]
  /\ inherited = [c \in Client |-> NoFiles]
  /\ exchanged = {}

Held(d) == files[d] # "absent" \/ \E c \in Client : inherited[c][d] # "absent"

-----------------------------------------------------------------------------
(* The calls of the threads.                                               *)

\* Faulty variant of Goes: a thread that is inside a call takes up another.
GoesAnyway(c, from, to) ==
  /\ step[c] = from
  /\ step' = [step EXCEPT ![c] = to]
  /\ UNCHANGED <<owner, proc, inherited, exchanged>>
\* The thread of client c goes from one call to the next; it starts on a
\* client only when it is done with the others.
Goes(c, from, to) ==
  /\ step[c] = from
  /\ from \in Between =>
       \A b \in Client : owner[b] = owner[c] => step[b] \in Between
  /\ step' = [step EXCEPT ![c] = to]
  /\ UNCHANGED <<owner, proc, inherited, exchanged>>
Put(k, c, flag) == files' = [files EXCEPT ![Of(k, c)] = flag]

\* accept(): a descriptor without the flag.
Accept(c) == Goes(c, "none", "accepted") /\ Put("client", c, "plain")

\* Faulty variant of Flag: close-on-exec is forgotten.
FlagNot(k, c) == Put(k, c, "plain")
\* mg_set_close_on_exec.
Flag(k, c) == Put(k, c, "flagged")

\* mg_sock_set.
SockSet(c) == Goes(c, "accepted", "open") /\ Flag("client", c)

\* mg_handle_cgi and its mg_socketpair.
Door(c) == Goes(c, "open", "door") /\ Put("door", c, "plain")
Near(c) == Goes(c, "door", "near") /\ Put("near", c, "plain")
Far(c) == Goes(c, "near", "far") /\ Put("far", c, "plain")
FlagNear(c) == Goes(c, "far", "half") /\ Flag("near", c)
FlagFar(c) == Goes(c, "half", "paired") /\ Flag("far", c)
CloseDoor(c) == Goes(c, "paired", "ready") /\ Put("door", c, "absent")

\* What there is of the pair goes.
Undone(c) == [files EXCEPT ![Of("door", c)] = "absent", ![Of("near", c)] = "absent"]
\* A call of mg_socketpair fails; the client will be closed.
PairFails(c) == /\ \E from \in {"door", "near"} : Goes(c, from, "ending")
                /\ files' = Undone(c)

\* fork(): the child has a copy of every descriptor.  A failure goes
\* unnoticed: -1 is taken for a child.
Fork(c) ==
  /\ step[c] = "ready" /\ step' = [step EXCEPT ![c] = "forked"]
  /\ \/ /\ proc' = [proc EXCEPT ![c] = "forked"]
        /\ inherited' = [inherited EXCEPT ![c] = files]
     \/ UNCHANGED <<proc, inherited>>
  /\ UNCHANGED <<owner, files, exchanged>>

\* mg_add_sock.
Link(c) == Goes(c, "forked", "linked") /\ Flag("near", c)

CloseFar(c) == Goes(c, "linked", "cgi") /\ Put("far", c, "absent")

-----------------------------------------------------------------------------
(* Further visits of the connections.                                      *)

\* recv() of the server's end returns 0.
OutputEnds(c) == /\ ~Held(Of("far", c))
                 /\ Goes(c, "cgi", "ending") /\ Put("near", c, "absent")
\* The output has been sent, if the client reads it; no timer closes it else.
Finish(c) == Goes(c, "ending", "closed") /\ Put("client", c, "absent")
\* The client has left, or has all it asked for.
Leave(c) == /\ Goes(c, "open", "closed") \/ Goes(c, "cgi", "orphan")
            /\ Put("client", c, "absent")
CloseOrphan(c) == Goes(c, "orphan", "closed") /\ Put("near", c, "absent")

\* mg_socket_if_poll moves a socket below FD_SETSIZE: dup() and close().
Exchange(c) ==
  /\ \A b \in Client : owner[b] = owner[c] => step[b] \in Between
  /\ \E k \in {"client", "near"} :
       /\ files[Of(k, c)] = "flagged"
       /\ Put(k, c, "plain")
       /\ exchanged' = exchanged \cup {Of(k, c)}
  /\ UNCHANGED <<owner, step, proc, inherited>>

-----------------------------------------------------------------------------
(* The programs.                                                           *)

Becomes(c, state, fs) == /\ proc' = [proc EXCEPT ![c] = state]
                         /\ inherited' = [inherited EXCEPT ![c] = fs]
                         /\ UNCHANGED <<owner, step, files, exchanged>>

\* Faulty variant of Stdio: the socket is closed before dup2() copies it.
StdioClosed(c) == [inherited[c] EXCEPT ![Of("far", c)] = "absent"]
\* The socket is dup2()ed onto 0 and 1, which carry no flag, and closed.
Stdio(c) == [inherited[c] EXCEPT ![Of("far", c)] = "plain"]

\* exec() keeps what is not flagged; when it fails the child exits.
Exec(c) ==
  /\ proc[c] = "forked"
  /\ \/ Becomes(c, "running", [d \in Sock |-> IF Stdio(c)[d] = "plain"
                                               THEN "plain" ELSE "absent"])
     \/ Becomes(c, "over", NoFiles)
Exit(c) == proc[c] = "running" /\ Becomes(c, "over", NoFiles)

\* What the thread does of itself.
Proceed(c) ==
  \/ SockSet(c) \/ Near(c) \/ Far(c) \/ FlagNear(c) \/ FlagFar(c) \/ CloseDoor(c)
  \/ PairFails(c) \/ Fork(c) \/ Link(c) \/ CloseFar(c)
  \/ OutputEnds(c) \/ CloseOrphan(c)

Next == \E c \in Client : \/ Accept(c) \/ Door(c) \/ Proceed(c) \/ Finish(c) \/ Leave(c)
                          \/ Exchange(c) \/ Exec(c) \/ Exit(c)

\* A thread does what there is to do, and programs end.  Nobody need come,
\* ask for a program, read its output or leave.
Work(s) == \E c \in Client : owner[c] = s /\ Proceed(c)
Fairness == /\ \A s \in Server : WF_vars(Work(s))
            /\ \A c \in Client : WF_vars(Exec(c)) /\ WF_vars(Exit(c))
SafeSpec == Init /\ [][Next]_vars
Spec == SafeSpec /\ Fairness

-----------------------------------------------------------------------------
(* Properties.                                                             *)

\* Every variable keeps its type, and a thread is in the middle of one call.
TypeOK ==
  /\ owner \in [Client -> Server]
  /\ step \in [Client -> Inside \cup Between]
  /\ files \in Table
  /\ proc \in [Client -> {"none", "forked", "running", "over"}]
  /\ inherited \in [Client -> Table]
  /\ exchanged \subseteq Sock
  /\ \A b, c \in Client : owner[b] = owner[c] /\ {step[b], step[c]} \subseteq Inside
                             => b = c

\* A program never holds a socket of its own server but its own end of the
\* pair, unless dup() took the flag away: when a thread comes to fork() it
\* has flagged all it has made.  What a program can inherit besides comes
\* from another thread that was between making a socket and flagging it.
InheritsOnlyFromOthers ==
  \A c \in Client : proc[c] = "running" =>
    \A d \in Sock : inherited[c][d] # "absent" =>
      d = Of("far", c) \/ owner[d[2]] # owner[c] \/ d \in exchanged

\* The end of a program's output is not seen before the program has ended,
\* unless there never was one.
EndsWithProgram ==
  \A c \in Client : step[c] = "ending" => proc[c] \in {"none", "over"}

\* An answer waits for others than its client: for the end of a program's
\* output, or for those that hold the socket of a client that was closed.
Pending(c) ==
  \/ step[c] = "cgi"
  \/ step[c] \in {"orphan", "closed"} /\ Held(Of("client", c))
================================================================================
