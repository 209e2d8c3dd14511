------------------------------ MODULE MgResolver ------------------------------
(***************************************************************************)
(* Outgoing connections to names: mg_connect hands a name to the           *)
(* asynchronous resolver, which asks a name server over a UDP connection   *)
(* of its own, asks again when no answer comes, and calls resolve_cb with  *)
(* an answer or without one; only then does the connection enter its       *)
(* manager's list.  Until then nothing but the request leads to it, and    *)
(* its timer is kept by the UDP connection too.                            *)
(*                                                                         *)
(* The network loses, delays and repeats: once a query is out, a datagram  *)
(* may be there at any time, of any kind, or never.  Time counts seconds,  *)
(* as time_t does.  The handler of a connection does what mongoose.h shows *)
(* for connect timeouts: it clears the timer on MG_EV_CONNECT and closes   *)
(* on MG_EV_TIMER.  Where a poll is in its loop does not matter here, so   *)
(* the parts of a visit are actions of their own.                          *)
(***************************************************************************)
EXTENDS Integers, Sequences, SequencesExt

CONSTANTS
  Conn,        \* the connections the program opens
  MaxRetries,  \* max_retries
  Timeout,     \* timeout
  MaxWait      \* the longest connect timeout a handler sets

ASSUME MgResolverAssumption ==
  /\ {MaxRetries, Timeout, MaxWait} \subseteq Nat \ {0}

Never == -1    \* no timer is set; otherwise, the seconds left
Least(a, b) == IF a < b THEN a ELSE b

VARIABLES
  nc,      \* the connections
  dns,     \* the resolver's connection and request of each of them
  manager  \* "polling", "walk" (the loop of mg_mgr_free) or "freed"

vars == <<nc, dns, manager>>

Fresh == [state |-> "none", close |-> FALSE, timer |-> Never,
          events |-> <<>>]
FreshDns == [state |-> "none", close |-> FALSE, timer |-> Never,
             broken |-> FALSE,    \* nc->err: it has no socket
             query |-> FALSE,     \* send_mbuf holds a query
             asked |-> FALSE,     \* one has been sent
             req |-> FALSE,       \* user_data # NULL: the request is alive
             retries |-> 0,
             age |-> 0,           \* now - last_time
              err |-> "ok"]

Init == /\ nc = [c \in Conn |-> Fresh]
        /\ dns = [c \in Conn |-> FreshDns]
        /\ manager = "polling"

Listed(c) == nc[c].state \in {"connecting", "up"}
DnsListed(c) == dns[c].state \in {"connecting", "up"}

-----------------------------------------------------------------------------
(* resolve_cb, and what mg_resolve_async_eh does on each event, as maps    *)
(* from the two connections to the two connections.                        *)

\* With an address the connection starts to connect.  Without, it is told
\* and destroyed on the spot.
ResolveCb(n, answer, e) ==
  IF answer = "address"
    THEN [n EXCEPT !.state = "connecting"]
    ELSE [n EXCEPT !.state = "gone",
                   !.events = @ \o (IF e = "timeout" THEN <<"timer">> ELSE <<>>)
                                \o <<"failed", "close">>]

\* Faulty variant of Ask: the attempts are not counted.
AskOn(d) == [d EXCEPT !.query = TRUE, !.age = 0]
\* mg_send_dns_query.
Ask(d) == [d EXCEPT !.query = TRUE, !.age = 0, !.retries = @ + 1]

Overdue(d) == d.retries = 0 \/ d.age >= Timeout

\* mg_timer and MG_EV_TIMER.
OnTimer(d) ==
  IF d.timer # 0 THEN d
  ELSE IF d.req
    THEN [d EXCEPT !.timer = Never, !.err = "timeout", !.close = TRUE]
    ELSE [d EXCEPT !.timer = Never]

\* MG_EV_POLL.
OnPoll(d) ==
  IF ~d.req THEN d
  ELSE IF d.retries > MaxRetries
    THEN [d EXCEPT !.err = "exceeded", !.close = TRUE]
  ELSE IF d.state = "connecting" \/ ~Overdue(d) THEN d
  ELSE Ask(d)

\* Faulty variant of Released: user_data still leads to the request.
ReleasedNot(d) == d
\* The request is freed.
Released(d) == [d EXCEPT !.req = FALSE]

OnClose(n, d) ==
  IF d.req THEN <<ResolveCb(n, "none", d.err), Released(d)>> ELSE <<n, d>>

-----------------------------------------------------------------------------
(* The program.                                                            *)

Polling == manager = "polling" /\ UNCHANGED manager

\* mg_connect with a name.  Without memory for it, or for the request or its
\* connection, there is none.
Connect(c) ==
  /\ Polling /\ nc[c].state = "none"
  /\ \/ /\ nc' = [nc EXCEPT ![c].state = "refused"]
        /\ UNCHANGED dns
     \/ \E broken \in BOOLEAN :
          /\ nc' = [nc EXCEPT ![c].state = "resolving"]
          /\ dns' = [dns EXCEPT ![c].state = "connecting", ![c].req = TRUE,
                                ![c].broken = broken]

\* Faulty variant of SetTimer: a connection that is being resolved leaves
\* its timer to the resolver.
SetTimerElsewhere(c, t) ==
  IF nc[c].state = "resolving"
    THEN dns' = [dns EXCEPT ![c].timer = t] /\ UNCHANGED nc
    ELSE nc' = [nc EXCEPT ![c].timer = t] /\ UNCHANGED dns
\* mg_set_timer.
SetTimer(c, t) ==
  /\ nc' = [nc EXCEPT ![c].timer = t]
  /\ dns' = IF nc[c].state = "resolving"
              THEN [dns EXCEPT ![c].timer = t] ELSE dns

WantsTimeout(c) ==
  /\ Polling /\ nc[c].state \in {"resolving", "connecting"}
  /\ nc[c].timer = Never
  /\ \E t \in 1 .. MaxWait : SetTimer(c, t)

\* A handler sets MG_F_CLOSE_IMMEDIATELY, or the peer goes.
WantsClose(c) ==
  /\ Polling /\ nc[c].state \in {"resolving", "connecting", "up"}
  /\ ~nc[c].close
  /\ nc' = [nc EXCEPT ![c].close = TRUE]
  /\ UNCHANGED dns

-----------------------------------------------------------------------------
(* Visits of the resolver's connection.                                    *)

\* mg_close_conn.
CloseDns(c) ==
  LET after == OnClose(nc[c], dns[c])
  IN /\ nc' = [nc EXCEPT ![c] = after[1]]
     /\ dns' = [dns EXCEPT ![c] = [after[2] EXCEPT !.state = "gone"]]

\* mg_if_poll: close it, or MG_EV_TIMER when it is time, and MG_EV_POLL.
PollDns(c) ==
  /\ Polling /\ DnsListed(c)
  /\ IF dns[c].close
       THEN CloseDns(c)
       ELSE /\ dns' = [dns EXCEPT ![c] = OnPoll(OnTimer(@))]
            /\ UNCHANGED nc

\* mg_if_connect_cb: there is a socket, or there is none; the first query is
\* written in either case.
ConnectDns(c) ==
  /\ Polling /\ dns[c].state = "connecting"
  /\ LET d == [dns[c] EXCEPT !.state = "up", !.close = @ \/ dns[c].broken]
     IN dns' = [dns EXCEPT ![c] = IF d.req /\ Overdue(d) THEN Ask(d) ELSE d]
  /\ UNCHANGED nc

\* mg_if_can_send_cb: the query goes out, or it fails; MG_EV_SEND forgets
\* the query and the failure.
SendDns(c) ==
  /\ Polling /\ dns[c].state = "up" /\ dns[c].query /\ ~dns[c].close
  /\ \E ok \in BOOLEAN :
       dns' = [dns EXCEPT ![c].query = FALSE, ![c].asked = @ \/ ok]
  /\ UNCHANGED nc

\* mg_recv_udp: a datagram with an address, with answers but none of type A,
\* without answers, or an error of recvfrom().
RecvDns(c) ==
  /\ Polling /\ dns[c].state = "up" /\ dns[c].asked /\ ~dns[c].close
  /\ LET closing == [dns[c] EXCEPT !.close = TRUE]
     IN \/ \E answer \in {"address", "other"} :
             /\ nc' = [nc EXCEPT ![c] = ResolveCb(@, answer, "ok")]
             /\ dns' = [dns EXCEPT ![c] = Released(closing)]
        \/ /\ dns' = [dns EXCEPT ![c] = [closing EXCEPT !.err = "no answers"]]
           /\ UNCHANGED nc
        \/ /\ dns' = [dns EXCEPT ![c] = closing]
           /\ UNCHANGED nc

-----------------------------------------------------------------------------
(* Visits of the connection itself, and the end.                           *)

Tell(n, e) == [n EXCEPT !.events = Append(@, e)]
CloseNc(c) == nc' = [nc EXCEPT ![c] = [Tell(@, "close") EXCEPT !.state = "gone"]]

\* mg_if_poll: close it, or MG_EV_TIMER when it is time.
PollNc(c) ==
  /\ Polling /\ Listed(c)
  /\ \/ nc[c].close /\ CloseNc(c)
     \/ /\ ~nc[c].close /\ nc[c].timer = 0
        /\ nc' = [nc EXCEPT ![c] = [Tell(@, "timer") EXCEPT !.timer = Never,
                                                            !.close = TRUE]]
  /\ UNCHANGED dns

\* mg_if_connect_cb: connect() succeeded or failed.
Connected(c) ==
  /\ Polling /\ nc[c].state = "connecting" /\ ~nc[c].close
  /\ \E e \in {"connected", "failed"} :
       nc' = [nc EXCEPT ![c] = [Tell(@, e) EXCEPT !.state = "up",
                                                  !.timer = Never,
                                                  !.close = e = "failed"]]
  /\ UNCHANGED dns

\* A second passes.  What is over its limit is not counted on.
Left(t) == IF t > 0 THEN t - 1 ELSE t
Tick ==
  /\ nc' = [c \in Conn |-> [nc[c] EXCEPT !.timer = Left(@)]]
  /\ dns' = [c \in Conn |->
       IF DnsListed(c)
         THEN [dns[c] EXCEPT !.timer = Left(@), !.age = Least(@ + 1, Timeout)]
         ELSE dns[c]]
  /\ UNCHANGED manager

\* mg_mgr_free, its last poll being one like the others.
Free == /\ manager = "polling"
        /\ manager' = "walk"
        /\ UNCHANGED <<nc, dns>>
FreeConn(c) ==
  /\ manager = "walk"
  /\ \/ DnsListed(c) /\ CloseDns(c)
     \/ Listed(c) /\ CloseNc(c) /\ UNCHANGED dns
  /\ UNCHANGED manager
Freed == /\ manager = "walk"
         /\ \A c \in Conn : ~Listed(c) /\ ~DnsListed(c)
         /\ manager' = "freed"
         /\ UNCHANGED <<nc, dns>>

Next ==
  \/ \E c \in Conn : \/ Connect(c) \/ WantsTimeout(c) \/ WantsClose(c)
                     \/ PollDns(c) \/ ConnectDns(c) \/ SendDns(c) \/ RecvDns(c)
                     \/ PollNc(c) \/ Connected(c) \/ FreeConn(c)
  \/ Tick \/ Free \/ Freed

\* Time passes and the thread polls; the resolver's socket takes what is
\* written to it.  Nothing is assumed of the name server and the peer.
Fairness ==
  /\ WF_vars(Tick) /\ WF_vars(Freed)
  /\ \A c \in Conn : /\ WF_vars(PollDns(c)) /\ WF_vars(ConnectDns(c))
                     /\ WF_vars(SendDns(c)) /\ WF_vars(PollNc(c))
                     /\ WF_vars(FreeConn(c))
SafeSpec == Init /\ [][Next]_vars
Spec == SafeSpec /\ Fairness

-----------------------------------------------------------------------------
(* Properties.                                                             *)

\* A connection is being resolved exactly as long as a live request of a
\* connection in the list leads to it: it is never forgotten, resolve_cb is
\* never called for one that is gone or connected, and mg_set_timer never
\* follows priv_2 to a freed resolver connection.
ResolvingHasRequest ==
  \A c \in Conn : nc[c].state = "resolving" <=> dns[c].req /\ DnsListed(c)

\* Handlers hear of the end of connecting at most once, and of the close
\* exactly once and last, whoever ends it: an answer, an error, a timeout,
\* the program or mg_mgr_free.
EventsInOrder ==
  \A c \in Conn :
    LET e == nc[c].events
        Of(s) == {k \in DOMAIN e : e[k] \in s}
    IN /\ \A j, k \in Of({"connected", "failed"}) : j = k
       /\ nc[c].state = "gone" <=> Of({"close"}) # {}
       /\ Of({"close"}) \subseteq {Len(e)}
       /\ nc[c].state \in {"none", "refused", "resolving"} => e = <<>>

\* A lookup ends, whatever the network does.
LookupSettles ==
  \A c \in Conn : nc[c].state = "resolving" ~> nc[c].state # "resolving"

\* A connect timeout works from the first moment on, while the name is
\* being resolved as well as afterwards.
ConnectTimeout ==
  \A c \in Conn :
    /\ Never # nc[c].timer \/ Never # dns[c].timer
    /\ nc[c].state \in {"resolving", "connecting"}
    ~> nc[c].state \in {"up", "gone"}
================================================================================
