-------------------------- MODULE MgResolver_proofs --------------------------
(***************************************************************************)
(* Proofs about MgResolver, for any number of connections, any limits on   *)
(* attempts and waiting, and a network that does what it likes.            *)
(***************************************************************************)
EXTENDS MgResolver, SequenceTheorems, TLAPS

Event == {"connected", "failed", "timer", "close"}
NcType == [state : {"none", "refused", "resolving", "connecting", "up", "gone"},
           close : BOOLEAN, timer : Int, events : Seq(Event)]
DnsType == [state : {"none", "connecting", "up", "gone"},
            close : BOOLEAN, timer : Int, broken : BOOLEAN, query : BOOLEAN,
            asked : BOOLEAN, req : BOOLEAN, retries : Int, age : Int,
            err : {"ok", "no answers", "exceeded", "timeout"}]

TypeInv == /\ nc \in [Conn -> NcType]
           /\ dns \in [Conn -> DnsType]
           /\ manager \in {"polling", "walk", "freed"}

(***************************************************************************)
(* The inductive invariant.  A resolver's connection that is not about to  *)
(* be closed has its request; one of the list has no timer once it is      *)
(* connected; and what a handler has heard so far is one of few things in  *)
(* each state.                                                             *)
(***************************************************************************)
Live(d) == d.state \in {"connecting", "up"}

\* A connection n and its resolver's connection d.
Related(n, d) ==
  /\ n.state = "resolving" <=> d.req /\ Live(d)
  /\ d.req => Live(d)
  /\ Live(d) /\ ~d.close => d.req

Heard(n) ==
  /\ n.state \in {"none", "refused", "resolving"} => n.events = <<>>
  /\ n.state = "connecting" =>
       n.events = <<>> \/ (n.events = <<"timer">> /\ n.close)
  /\ n.state = "up" => /\ n.events \in {<<"connected">>, <<"failed">>}
                       /\ n.timer = Never
  /\ n.state = "gone" =>
       n.events \in {<<"close">>, <<"timer", "close">>,
                     <<"connected", "close">>, <<"failed", "close">>,
                     <<"timer", "failed", "close">>}

IInv == TypeInv /\ \A c \in Conn : Related(nc[c], dns[c]) /\ Heard(nc[c])

-----------------------------------------------------------------------------
(* Short sequences.                                                        *)

LEMMA Told ==
  /\ <<>> \in Seq(Event) /\ <<"timer">> \in Seq(Event)
  /\ <<"connected">> \in Seq(Event) /\ <<"failed">> \in Seq(Event)
  /\ <<"close">> \in Seq(Event) /\ <<"timer", "close">> \in Seq(Event)
  /\ <<"connected", "close">> \in Seq(Event)
  /\ <<"failed", "close">> \in Seq(Event)
  /\ <<"timer", "failed", "close">> \in Seq(Event)
BY DEF Event

LEMMA Sequels ==
  /\ Append(<<>>, "close") = <<"close">>
  /\ Append(<<>>, "timer") = <<"timer">>
  /\ Append(<<>>, "connected") = <<"connected">>
  /\ Append(<<>>, "failed") = <<"failed">>
  /\ \A x \in Event : Append(<<x>>, "close") = <<x, "close">>
<1>1. ASSUME NEW x \in Event PROVE Append(<<x>>, "close") = <<x, "close">>
  <2> DEFINE s == Append(<<x>>, "close")
             t == <<x, "close">>
  <2>1. s \in Seq(Event) /\ t \in Seq(Event) /\ Len(s) = 2 /\ Len(t) = 2
    BY DEF Event
  <2>2. s[1] = t[1] /\ s[2] = t[2]
    BY DEF Event
  <2>3. \A i \in 1 .. Len(s) : s[i] = t[i]
    BY <2>1, <2>2
  <2>4. QED
    BY <2>1, <2>3, SeqEqual
<1>2. QED
  BY <1>1

LEMMA Joined ==
  /\ <<>> \o <<>> \o <<"failed", "close">> = <<"failed", "close">>
  /\ <<>> \o <<"timer">> \o <<"failed", "close">> = <<"timer", "failed", "close">>
<1>1. <<>> \o <<>> = <<>> /\ <<>> \o <<"timer">> = <<"timer">>
  OBVIOUS
<1>2. <<>> \o <<"failed", "close">> = <<"failed", "close">>
  OBVIOUS
<1>3. <<"timer">> \o <<"failed", "close">> = <<"timer", "failed", "close">>
  <2> DEFINE s == <<"timer">> \o <<"failed", "close">>
             t == <<"timer", "failed", "close">>
  <2>1. s \in Seq(Event) /\ t \in Seq(Event) /\ Len(s) = 3 /\ Len(t) = 3
    BY DEF Event
  <2>2. s[1] = t[1] /\ s[2] = t[2] /\ s[3] = t[3]
    OBVIOUS
  <2>3. \A i \in 1 .. Len(s) : s[i] = t[i]
    BY <2>1, <2>2
  <2>4. QED
    BY <2>1, <2>3, SeqEqual
<1>4. QED
  BY <1>1, <1>2, <1>3

\* The order of events follows from what has been heard.
LEMMA HeardInOrder ==
  ASSUME NEW n \in NcType, Heard(n)
  PROVE  LET e == n.events
             Of(s) == {k \in DOMAIN e : e[k] \in s}
         IN /\ \A j, k \in Of({"connected", "failed"}) : j = k
            /\ n.state = "gone" <=> Of({"close"}) # {}
            /\ Of({"close"}) \subseteq {Len(e)}
            /\ n.state \in {"none", "refused", "resolving"} => e = <<>>
<1> DEFINE e == n.events
<1>1. n.state \in {"none", "refused", "resolving", "connecting", "up", "gone"}
  BY DEF NcType
<1>2. CASE n.state \in {"none", "refused", "resolving"}
  BY <1>2 DEF Heard
<1>3. CASE n.state = "connecting"
  BY <1>3 DEF Heard
<1>4. CASE n.state = "up"
  BY <1>4 DEF Heard
<1>5. CASE n.state = "gone"
  <2>1. CASE n.events = <<"close">>
    BY <1>5, <2>1
  <2>2. CASE n.events = <<"timer", "close">>
    BY <1>5, <2>2
  <2>3. CASE n.events = <<"connected", "close">>
    BY <1>5, <2>3
  <2>4. CASE n.events = <<"failed", "close">>
    BY <1>5, <2>4
  <2>5. CASE n.events = <<"timer", "failed", "close">>
    BY <1>5, <2>5
  <2>6. QED
    BY <1>5, <2>1, <2>2, <2>3, <2>4, <2>5 DEF Heard
<1>6. QED
  BY <1>1, <1>2, <1>3, <1>4, <1>5

-----------------------------------------------------------------------------
(* The maps of the handlers.                                               *)

\* resolve_cb is called for connections that are being resolved only.
LEMMA ResolveCbKeeps ==
  ASSUME NEW n \in NcType, n.state = "resolving", Heard(n), NEW answer, NEW e
  PROVE  /\ ResolveCb(n, answer, e) \in NcType
         /\ Heard(ResolveCb(n, answer, e))
         /\ ResolveCb(n, answer, e).state \in {"connecting", "gone"}
<1>1. n.events = <<>>
  BY DEF Heard
<1>2. CASE answer = "address"
  BY <1>1, <1>2 DEF ResolveCb, NcType, Heard
<1>3. CASE answer # "address"
  <2> DEFINE told == n.events \o (IF e = "timeout" THEN <<"timer">> ELSE <<>>)
                              \o <<"failed", "close">>
  <2>1. told \in {<<"failed", "close">>, <<"timer", "failed", "close">>}
    BY <1>1, Joined
  <2>2. told \in Seq(Event)
    BY <2>1, Told
  <2>3. ResolveCb(n, answer, e) = [n EXCEPT !.state = "gone", !.events = told]
    BY <1>3 DEF ResolveCb
  <2> HIDE DEF told
  <2>4. QED
    BY <2>1, <2>2, <2>3 DEF NcType, Heard
<1>4. QED
  BY <1>2, <1>3

\* What the timer, a poll and a query do to the resolver's connection: it
\* keeps its request, or is to be closed.
Milder(d, e) == /\ e \in DnsType
                /\ e.state = d.state /\ e.req = d.req
                /\ d.close => e.close

LEMMA MilderRelated ==
  ASSUME NEW n, NEW d, NEW e, Milder(d, e), Related(n, d), e.close \in BOOLEAN
  PROVE  Related(n, e)
BY DEF Milder, Related, Live

LEMMA AskMilder ==
  ASSUME NEW d \in DnsType PROVE Milder(d, Ask(d))
<1>1. d.retries \in Int
  BY Zenon DEF DnsType
<1>2. d.retries + 1 \in Int /\ 0 \in Int
  BY <1>1
<1>3. Ask(d) \in DnsType
  BY <1>2, Zenon DEF Ask, DnsType
<1>4. Ask(d).state = d.state /\ Ask(d).req = d.req /\ Ask(d).close = d.close
  BY Zenon DEF Ask, DnsType
<1>5. QED
  BY <1>3, <1>4, Zenon DEF Milder

LEMMA OnTimerMilder ==
  ASSUME NEW d \in DnsType PROVE Milder(d, OnTimer(d))
<1>1. Never \in Int
  BY DEF Never
<1>2. CASE d.timer # 0
  BY <1>2, Zenon DEF OnTimer, Milder
<1>3. CASE d.timer = 0 /\ d.req
  BY <1>1, <1>3, Zenon DEF OnTimer, DnsType, Milder
<1>4. CASE d.timer = 0 /\ ~d.req
  BY <1>1, <1>4, Zenon DEF OnTimer, DnsType, Milder
<1>5. QED
  BY <1>2, <1>3, <1>4

LEMMA OnPollMilder ==
  ASSUME NEW d \in DnsType PROVE Milder(d, OnPoll(d))
<1>1. CASE ~d.req
  BY <1>1 DEF OnPoll, Milder
<1>2. CASE d.req /\ d.retries > MaxRetries
  BY <1>2 DEF OnPoll, Milder, DnsType
<1>3. CASE d.req /\ ~(d.retries > MaxRetries)
  BY <1>3, AskMilder DEF OnPoll, Milder
<1>4. QED
  BY <1>1, <1>2, <1>3

LEMMA PollMilder ==
  ASSUME NEW d \in DnsType PROVE Milder(d, OnPoll(OnTimer(d)))
<1>1. Milder(d, OnTimer(d)) /\ OnTimer(d) \in DnsType
  BY OnTimerMilder DEF Milder
<1>2. Milder(OnTimer(d), OnPoll(OnTimer(d)))
  BY <1>1, OnPollMilder
<1>3. QED
  BY <1>1, <1>2 DEF Milder

-----------------------------------------------------------------------------
\* A step that is about one connection keeps the invariant of the others.
LEMMA OneKeeps ==
  ASSUME IInv, NEW c \in Conn, NEW n \in NcType, NEW d \in DnsType,
         nc' = [nc EXCEPT ![c] = n], dns' = [dns EXCEPT ![c] = d],
         UNCHANGED manager, Related(n, d), Heard(n)
  PROVE  IInv'
<1>1. TypeInv'
  BY DEF IInv, TypeInv
<1>2. ASSUME NEW b \in Conn PROVE Related(nc'[b], dns'[b]) /\ Heard(nc'[b])
  BY DEF IInv, TypeInv
<1>3. QED
  BY <1>1, <1>2 DEF IInv, Related, Heard, Live

LEMMA InitInv == Init => IInv
<1> SUFFICES ASSUME Init PROVE IInv
  OBVIOUS
<1>1. Fresh \in NcType /\ FreshDns \in DnsType
  BY Told DEF Fresh, FreshDns, NcType, DnsType, Never
<1>2. Related(Fresh, FreshDns) /\ Heard(Fresh)
  BY DEF Fresh, FreshDns, Related, Heard, Live
<1>3. QED
  BY <1>1, <1>2 DEF Init, IInv, TypeInv

-----------------------------------------------------------------------------
(* The program's actions.                                                  *)

LEMMA ConnectInv ==
  ASSUME IInv, NEW c \in Conn, Connect(c)
  PROVE  IInv'
<1> DEFINE n == nc[c]
           d == dns[c]
<1>1. n \in NcType /\ d \in DnsType /\ n.state = "none" /\ Related(n, d) /\ Heard(n)
  BY DEF IInv, TypeInv, Connect
<1>2. UNCHANGED manager
  BY DEF Connect, Polling
<1>3. CASE nc' = [nc EXCEPT ![c].state = "refused"] /\ UNCHANGED dns
  <2> DEFINE m == [n EXCEPT !.state = "refused"]
  <2>1. m \in NcType /\ Heard(m) /\ Related(m, d)
    BY <1>1 DEF NcType, Heard, Related, Live
  <2>2. nc' = [nc EXCEPT ![c] = m] /\ dns' = [dns EXCEPT ![c] = d]
    BY <1>3 DEF IInv, TypeInv
  <2> HIDE DEF m, n, d
  <2>3. QED
    BY <1>1, <1>2, <2>1, <2>2, OneKeeps
<1>4. ASSUME NEW broken \in BOOLEAN,
             nc' = [nc EXCEPT ![c].state = "resolving"],
             dns' = [dns EXCEPT ![c].state = "connecting", ![c].req = TRUE,
                                ![c].broken = broken]
      PROVE  IInv'
  <2> DEFINE m == [n EXCEPT !.state = "resolving"]
             e == [d EXCEPT !.state = "connecting", !.req = TRUE,
                            !.broken = broken]
  <2>1. m \in NcType /\ Heard(m) /\ m.state = "resolving"
    BY <1>1 DEF NcType, Heard
  <2>2. e \in DnsType /\ e.state = "connecting" /\ e.req
    BY <1>1, Zenon DEF DnsType
  <2>3. Related(m, e)
    BY <2>1, <2>2, Zenon DEF Related, Live
  <2>4. nc' = [nc EXCEPT ![c] = m] /\ dns' = [dns EXCEPT ![c] = e]
    BY <1>4, Zenon DEF IInv, TypeInv
  <2> HIDE DEF m, e
  <2>5. QED
    BY <1>2, <2>1, <2>2, <2>3, <2>4, OneKeeps
<1>5. QED
  BY <1>3, <1>4 DEF Connect

LEMMA WantsTimeoutInv ==
  ASSUME IInv, NEW c \in Conn, WantsTimeout(c)
  PROVE  IInv'
<1> DEFINE n == nc[c]
           d == dns[c]
<1>1. /\ n \in NcType /\ d \in DnsType /\ Related(n, d) /\ Heard(n)
      /\ n.state \in {"resolving", "connecting"}
  BY DEF IInv, TypeInv, WantsTimeout
<1>2. PICK t \in 1 .. MaxWait : SetTimer(c, t)
  BY DEF WantsTimeout
<1>3. t \in Int
  BY <1>2
<1> DEFINE m == [n EXCEPT !.timer = t]
           e == IF n.state = "resolving" THEN [d EXCEPT !.timer = t] ELSE d
<1>4. m \in NcType /\ Heard(m) /\ m.state = n.state
  BY <1>1, <1>3 DEF NcType, Heard
<1>5. e \in DnsType /\ e.state = d.state /\ e.req = d.req /\ e.close = d.close
  BY <1>1, <1>3, Zenon DEF DnsType
<1>6. Related(m, e)
  BY <1>1, <1>4, <1>5, Zenon DEF Related, Live
<1>7. nc' = [nc EXCEPT ![c] = m] /\ dns' = [dns EXCEPT ![c] = e]
  BY <1>2, Zenon DEF SetTimer, IInv, TypeInv
<1>8. UNCHANGED manager
  BY DEF WantsTimeout, Polling
<1> HIDE DEF m, e
<1>9. QED
  BY <1>4, <1>5, <1>6, <1>7, <1>8, OneKeeps

LEMMA WantsCloseInv ==
  ASSUME IInv, NEW c \in Conn, WantsClose(c)
  PROVE  IInv'
<1> DEFINE n == nc[c]
           d == dns[c]
           m == [n EXCEPT !.close = TRUE]
<1>1. n \in NcType /\ d \in DnsType /\ Related(n, d) /\ Heard(n)
  BY DEF IInv, TypeInv
<1>2. m \in NcType /\ Heard(m) /\ Related(m, d)
  BY <1>1, Zenon DEF NcType, Heard, Related
<1>3. nc' = [nc EXCEPT ![c] = m] /\ dns' = [dns EXCEPT ![c] = d] /\ UNCHANGED manager
  BY DEF WantsClose, Polling, IInv, TypeInv
<1> HIDE DEF m, n, d
<1>4. QED
  BY <1>1, <1>2, <1>3, OneKeeps

-----------------------------------------------------------------------------
(* The resolver's connection.                                              *)

\* Closing it answers a request it still has.
LEMMA CloseDnsInv ==
  ASSUME IInv, NEW c \in Conn, CloseDns(c), DnsListed(c), UNCHANGED manager
  PROVE  IInv'
<1> DEFINE n == nc[c]
           d == dns[c]
           m == OnClose(n, d)[1]
           e == [OnClose(n, d)[2] EXCEPT !.state = "gone"]
<1>1. n \in NcType /\ d \in DnsType /\ Related(n, d) /\ Heard(n) /\ Live(d)
  BY DEF IInv, TypeInv, DnsListed, Live
<1>2. nc' = [nc EXCEPT ![c] = m] /\ dns' = [dns EXCEPT ![c] = e]
  BY DEF CloseDns
<1>3. CASE d.req
  <2>1. n.state = "resolving"
    BY <1>1, <1>3 DEF Related
  <2>2. m = ResolveCb(n, "none", d.err) /\ e = [[d EXCEPT !.req = FALSE] EXCEPT !.state = "gone"]
    BY <1>3 DEF OnClose, Released
  <2>3. m \in NcType /\ Heard(m) /\ m.state \in {"connecting", "gone"}
    BY <1>1, <2>1, <2>2, ResolveCbKeeps
  <2>4. e \in DnsType /\ e.state = "gone" /\ ~e.req
    BY <1>1, <2>2, Zenon DEF DnsType
  <2>5. Related(m, e)
    BY <2>3, <2>4 DEF Related, Live
  <2> HIDE DEF m, e
  <2>6. QED
    BY <1>2, <2>3, <2>4, <2>5, OneKeeps
<1>4. CASE ~d.req
  <2>1. n.state # "resolving"
    BY <1>1, <1>4 DEF Related
  <2>2. m = n /\ e = [d EXCEPT !.state = "gone"]
    BY <1>4 DEF OnClose
  <2>3. e \in DnsType /\ e.state = "gone" /\ ~e.req
    BY <1>1, <1>4, <2>2, Zenon DEF DnsType
  <2>4. Related(m, e)
    BY <2>1, <2>2, <2>3 DEF Related, Live
  <2>5. m \in NcType /\ Heard(m)
    BY <1>1, <2>2
  <2> HIDE DEF m, e
  <2>6. QED
    BY <1>2, <2>3, <2>4, <2>5, OneKeeps
<1>5. QED
  BY <1>3, <1>4

\* What changes the resolver's connection only, and mildly.
LEMMA MilderKeeps ==
  ASSUME IInv, NEW c \in Conn, NEW e, Milder(dns[c], e),
         dns' = [dns EXCEPT ![c] = e], UNCHANGED <<nc, manager>>
  PROVE  IInv'
<1>1. /\ nc[c] \in NcType /\ Related(nc[c], dns[c]) /\ Heard(nc[c])
      /\ nc' = [nc EXCEPT ![c] = nc[c]]
  BY DEF IInv, TypeInv
<1>2. e \in DnsType
  BY DEF Milder
<1>3. e.close \in BOOLEAN
  BY <1>2, Zenon DEF DnsType
<1>4. Related(nc[c], e)
  BY <1>1, <1>3, MilderRelated
<1>5. QED
  BY <1>1, <1>2, <1>4, OneKeeps

LEMMA PollDnsInv ==
  ASSUME IInv, NEW c \in Conn, PollDns(c)
  PROVE  IInv'
<1>1. DnsListed(c) /\ UNCHANGED manager
  BY DEF PollDns, Polling
<1>2. CASE dns[c].close
  BY <1>1, <1>2, CloseDnsInv DEF PollDns
<1>3. CASE ~dns[c].close
  <2>1. Milder(dns[c], OnPoll(OnTimer(dns[c])))
    BY PollMilder DEF IInv, TypeInv
  <2>2. dns' = [dns EXCEPT ![c] = OnPoll(OnTimer(dns[c]))] /\ UNCHANGED nc
    BY <1>3 DEF PollDns
  <2>3. QED
    BY <1>1, <2>1, <2>2, MilderKeeps
<1>4. QED
  BY <1>2, <1>3

LEMMA ConnectDnsInv ==
  ASSUME IInv, NEW c \in Conn, ConnectDns(c)
  PROVE  IInv'
<1> DEFINE n == nc[c]
           d == [dns[c] EXCEPT !.state = "up", !.close = @ \/ dns[c].broken]
           e == IF d.req /\ Overdue(d) THEN Ask(d) ELSE d
<1>1. n \in NcType /\ dns[c] \in DnsType /\ Related(n, dns[c]) /\ Heard(n)
  BY DEF IInv, TypeInv
<1>2. dns[c].close \in BOOLEAN /\ dns[c].broken \in BOOLEAN
  BY <1>1, Zenon DEF DnsType
<1>3. (dns[c].close \/ dns[c].broken) \in BOOLEAN
  BY <1>2
<1>4. /\ d \in DnsType /\ d.state = "up" /\ d.req = dns[c].req
      /\ dns[c].close => d.close
  BY <1>1, <1>2, <1>3, Zenon DEF DnsType
<1>5. dns[c].state = "connecting"
  BY DEF ConnectDns
<1>6. Related(n, d)
  BY <1>1, <1>4, <1>5, Zenon DEF Related, Live
<1>7. dns' = [dns EXCEPT ![c] = e]
  BY Zenon DEF ConnectDns
<1>8. nc' = [nc EXCEPT ![c] = n] /\ UNCHANGED manager
  BY DEF ConnectDns, Polling, IInv, TypeInv
<1> HIDE DEF d, n
<1>9. Milder(d, e)
  BY <1>4, AskMilder, Zenon DEF Milder
<1>10. e \in DnsType /\ e.close \in BOOLEAN
  BY <1>9, Zenon DEF Milder, DnsType
<1>11. Related(n, e)
  BY <1>6, <1>9, <1>10, MilderRelated
<1> HIDE DEF e
<1>12. QED
  BY <1>1, <1>7, <1>8, <1>10, <1>11, OneKeeps

LEMMA SendDnsInv ==
  ASSUME IInv, NEW c \in Conn, SendDns(c)
  PROVE  IInv'
<1>1. PICK ok \in BOOLEAN :
        dns' = [dns EXCEPT ![c].query = FALSE, ![c].asked = @ \/ ok]
  BY DEF SendDns
<1> DEFINE d == dns[c]
           e == [d EXCEPT !.query = FALSE, !.asked = @ \/ ok]
<1>2. d \in DnsType
  BY DEF IInv, TypeInv
<1>3. (d.asked \/ ok) \in BOOLEAN
  OBVIOUS
<1>4. Milder(d, e)
  BY <1>2, <1>3, Zenon DEF Milder, DnsType
<1>5. dns' = [dns EXCEPT ![c] = e] /\ UNCHANGED <<nc, manager>>
  BY <1>1, Zenon DEF SendDns, Polling, IInv, TypeInv
<1> HIDE DEF e
<1>6. QED
  BY <1>4, <1>5, MilderKeeps

\* A datagram is looked at only while the request lives.
LEMMA RecvDnsInv ==
  ASSUME IInv, NEW c \in Conn, RecvDns(c)
  PROVE  IInv'
<1> DEFINE n == nc[c]
           d == dns[c]
           closing == [d EXCEPT !.close = TRUE]
<1>1. /\ n \in NcType /\ d \in DnsType /\ Related(n, d) /\ Heard(n)
      /\ d.state = "up" /\ ~d.close /\ UNCHANGED manager
  BY DEF IInv, TypeInv, RecvDns, Polling
<1>2. d.req /\ n.state = "resolving"
  BY <1>1 DEF Related, Live
<1>3. ASSUME NEW answer \in {"address", "other"},
             nc' = [nc EXCEPT ![c] = ResolveCb(@, answer, "ok")],
             dns' = [dns EXCEPT ![c] = Released(closing)]
      PROVE  IInv'
  <2> DEFINE m == ResolveCb(n, answer, "ok")
             e == [closing EXCEPT !.req = FALSE]
  <2>1. m \in NcType /\ Heard(m) /\ m.state \in {"connecting", "gone"}
    BY <1>1, <1>2, ResolveCbKeeps
  <2>2. e \in DnsType /\ ~e.req /\ e.close
    BY <1>1, Zenon DEF DnsType
  <2>3. Related(m, e)
    BY <2>1, <2>2 DEF Related
  <2>4. nc' = [nc EXCEPT ![c] = m] /\ dns' = [dns EXCEPT ![c] = e]
    BY <1>3, Zenon DEF Released, IInv, TypeInv
  <2> HIDE DEF m, e
  <2>5. QED
    BY <1>1, <2>1, <2>2, <2>3, <2>4, OneKeeps
<1>4. CASE dns' = [dns EXCEPT ![c] = [closing EXCEPT !.err = "no answers"]]
           /\ UNCHANGED nc
  <2> DEFINE e == [closing EXCEPT !.err = "no answers"]
  <2>1. Milder(d, e)
    BY <1>1, Zenon DEF Milder, DnsType
  <2>2. dns' = [dns EXCEPT ![c] = e]
    BY <1>4
  <2> HIDE DEF e
  <2>3. QED
    BY <1>1, <1>4, <2>1, <2>2, MilderKeeps
<1>5. CASE dns' = [dns EXCEPT ![c] = closing] /\ UNCHANGED nc
  <2>1. Milder(d, closing)
    BY <1>1, Zenon DEF Milder, DnsType
  <2>2. dns' = [dns EXCEPT ![c] = closing]
    BY <1>5
  <2> HIDE DEF closing
  <2>3. QED
    BY <1>1, <1>5, <2>1, <2>2, MilderKeeps
<1>6. QED
  BY <1>3, <1>4, <1>5, Zenon DEF RecvDns

-----------------------------------------------------------------------------
(* The connection itself.                                                  *)

\* A connection of the list changes by itself.
LEMMA ListedKeeps ==
  ASSUME IInv, NEW c \in Conn, Listed(c), NEW n \in NcType, Heard(n),
         n.state \in {"connecting", "up", "gone"},
         nc' = [nc EXCEPT ![c] = n], UNCHANGED <<dns, manager>>
  PROVE  IInv'
<1>1. /\ dns[c] \in DnsType /\ Related(nc[c], dns[c])
      /\ dns' = [dns EXCEPT ![c] = dns[c]]
  BY DEF IInv, TypeInv
<1>2. Related(n, dns[c])
  BY <1>1 DEF Related, Listed
<1>3. QED
  BY <1>1, <1>2, OneKeeps

LEMMA CloseNcInv ==
  ASSUME IInv, NEW c \in Conn, Listed(c), CloseNc(c), UNCHANGED <<dns, manager>>
  PROVE  IInv'
<1> DEFINE n == nc[c]
           told == Append(n.events, "close")
           m == [n EXCEPT !.events = told, !.state = "gone"]
<1>1. n \in NcType /\ Heard(n) /\ n.state \in {"connecting", "up"}
  BY DEF IInv, TypeInv, Listed
<1>2. n.events \in {<<>>, <<"timer">>, <<"connected">>, <<"failed">>}
  BY <1>1 DEF Heard
<1>3. told \in {<<"close">>, <<"timer", "close">>, <<"connected", "close">>,
               <<"failed", "close">>}
  BY <1>2, Sequels DEF Event
<1>4. told \in Seq(Event)
  BY <1>3, Told
<1>5. nc' = [nc EXCEPT ![c] = m]
  BY DEF CloseNc, Tell
<1> HIDE DEF told
<1>6. m \in NcType /\ m.state = "gone" /\ m.events = told
  BY <1>1, <1>4, Zenon DEF NcType
<1>7. Heard(m)
  BY <1>3, <1>6, Zenon DEF Heard
<1> HIDE DEF m
<1>8. QED
  BY <1>5, <1>6, <1>7, ListedKeeps

LEMMA PollNcInv ==
  ASSUME IInv, NEW c \in Conn, PollNc(c)
  PROVE  IInv'
<1> DEFINE n == nc[c]
           told == Append(n.events, "timer")
           m == [n EXCEPT !.events = told, !.timer = Never, !.close = TRUE]
<1>1. /\ n \in NcType /\ Heard(n) /\ n.state \in {"connecting", "up"}
      /\ Listed(c) /\ UNCHANGED <<dns, manager>>
  BY DEF IInv, TypeInv, Listed, PollNc, Polling
<1>2. CASE CloseNc(c)
  BY <1>1, <1>2, CloseNcInv
<1>3. CASE /\ ~n.close /\ n.timer = 0
           /\ nc' = [nc EXCEPT ![c] = [Tell(@, "timer") EXCEPT !.timer = Never,
                                                               !.close = TRUE]]
  <2>1. n.state = "connecting" /\ n.events = <<>>
    BY <1>1, <1>3 DEF Heard, Never
  <2>2. told = <<"timer">> /\ told \in Seq(Event)
    BY <2>1, Sequels, Told
  <2>3. nc' = [nc EXCEPT ![c] = m]
    BY <1>3 DEF Tell
  <2>4. Never \in Int
    BY DEF Never
  <2> HIDE DEF told
  <2>5. m \in NcType /\ m.state = "connecting" /\ m.events = told /\ m.close
    BY <1>1, <2>1, <2>2, <2>4, Zenon DEF NcType
  <2>6. Heard(m)
    BY <2>2, <2>5, Zenon DEF Heard
  <2> HIDE DEF m
  <2>7. QED
    BY <1>1, <2>3, <2>5, <2>6, ListedKeeps
<1>4. QED
  BY <1>2, <1>3 DEF PollNc

LEMMA ConnectedInv ==
  ASSUME IInv, NEW c \in Conn, Connected(c)
  PROVE  IInv'
<1>1. PICK e \in {"connected", "failed"} :
        nc' = [nc EXCEPT ![c] = [Tell(@, e) EXCEPT !.state = "up",
                                                   !.timer = Never,
                                                   !.close = e = "failed"]]
  BY DEF Connected
<1> DEFINE n == nc[c]
           told == Append(n.events, e)
           condemned == e = "failed"
           m == [n EXCEPT !.events = told, !.state = "up", !.timer = Never,
                          !.close = condemned]
<1>2. /\ n \in NcType /\ Heard(n) /\ n.state = "connecting" /\ ~n.close
      /\ Listed(c) /\ UNCHANGED <<dns, manager>>
  BY DEF IInv, TypeInv, Listed, Connected, Polling
<1>3. n.events = <<>>
  BY <1>2 DEF Heard
<1>4. told \in {<<"connected">>, <<"failed">>} /\ told \in Seq(Event)
  BY <1>3, Sequels, Told
<1>5. nc' = [nc EXCEPT ![c] = m]
  BY <1>1 DEF Tell
<1>6. Never \in Int /\ condemned \in BOOLEAN
  BY DEF Never
<1> HIDE DEF told, condemned
<1>7. m \in NcType /\ m.state = "up" /\ m.events = told /\ m.timer = Never
  BY <1>2, <1>4, <1>6, Zenon DEF NcType
<1>8. Heard(m)
  BY <1>4, <1>7, Zenon DEF Heard
<1> HIDE DEF m
<1>9. QED
  BY <1>2, <1>5, <1>7, <1>8, ListedKeeps

\* Time changes nothing but timers and ages, and sets no timer.
LEMMA TickInv ==
  ASSUME IInv, Tick
  PROVE  IInv'
<1>1. \A t \in Int : Left(t) \in Int /\ (t = Never => Left(t) = Never)
  BY DEF Left, Never
<1>2. Timeout \in Int /\ \A a \in Int : Least(a + 1, Timeout) \in Int
  BY MgResolverAssumption DEF Least
<1>3. ASSUME NEW c \in Conn
      PROVE  /\ nc'[c] = [nc[c] EXCEPT !.timer = Left(@)]
             /\ dns'[c] = IF DnsListed(c)
                  THEN [dns[c] EXCEPT !.timer = Left(@), !.age = Least(@ + 1, Timeout)]
                  ELSE dns[c]
             /\ nc[c] \in NcType /\ dns[c] \in DnsType
             /\ Related(nc[c], dns[c]) /\ Heard(nc[c])
  BY Zenon DEF Tick, IInv, TypeInv
<1>4. ASSUME NEW c \in Conn
      PROVE  /\ nc'[c] \in NcType /\ nc'[c].state = nc[c].state
             /\ nc'[c].events = nc[c].events /\ nc'[c].close = nc[c].close
             /\ nc[c].timer = Never => nc'[c].timer = Never
  <2>1. nc[c].timer \in Int
    BY <1>3, Zenon DEF NcType
  <2> DEFINE t == Left(nc[c].timer)
  <2>2. t \in Int /\ (nc[c].timer = Never => t = Never)
    BY <1>1, <2>1
  <2>3. nc'[c] = [nc[c] EXCEPT !.timer = t]
    BY <1>3
  <2> HIDE DEF t
  <2>4. nc'[c] \in NcType /\ nc'[c].timer = t
    BY <1>3, <2>2, <2>3, Zenon DEF NcType
  <2>5. /\ nc'[c].state = nc[c].state
        /\ nc'[c].events = nc[c].events /\ nc'[c].close = nc[c].close
    BY <1>3, <2>3, Zenon DEF NcType
  <2>6. QED
    BY <2>2, <2>4, <2>5
<1>5. ASSUME NEW c \in Conn PROVE Milder(dns[c], dns'[c])
  <2>1. dns[c].timer \in Int /\ dns[c].age \in Int
    BY <1>3, Zenon DEF DnsType
  <2> DEFINE t == Left(dns[c].timer)
             a == Least(dns[c].age + 1, Timeout)
             e == [dns[c] EXCEPT !.timer = t, !.age = a]
  <2>2. t \in Int /\ a \in Int
    BY <1>1, <1>2, <2>1
  <2>3. dns'[c] = e \/ dns'[c] = dns[c]
    BY <1>3
  <2> HIDE DEF t, a
  <2>4. dns[c] \in DnsType
    BY <1>3
  <2>5. e \in DnsType /\ e.state = dns[c].state /\ e.req = dns[c].req
        /\ e.close = dns[c].close
    BY <2>2, <2>4 DEF DnsType
  <2> HIDE DEF e
  <2>6. CASE dns'[c] = e
    BY <2>5, <2>6 DEF Milder
  <2>7. CASE dns'[c] = dns[c]
    BY <2>4, <2>7 DEF Milder
  <2>8. QED
    BY <2>3, <2>6, <2>7
<1>6. TypeInv'
  <2>1. nc' \in [Conn -> NcType]
    BY <1>4, Zenon DEF Tick
  <2>2. dns' \in [Conn -> DnsType]
    <3>1. \A c \in Conn : dns'[c] \in DnsType
      BY <1>5, Zenon DEF Milder
    <3>2. QED
      BY <3>1, Zenon DEF Tick
  <2>3. QED
    BY <2>1, <2>2 DEF IInv, TypeInv, Tick
<1>7. ASSUME NEW c \in Conn PROVE Related(nc'[c], dns'[c]) /\ Heard(nc'[c])
  <2>1. dns'[c].close \in BOOLEAN
    BY <1>5, Zenon DEF Milder, DnsType
  <2>2. Related(nc[c], dns'[c])
    BY <1>3, <1>5, <2>1, MilderRelated
  <2>3. Related(nc'[c], dns'[c])
    BY <1>4, <2>2, Zenon DEF Related
  <2>4. Heard(nc'[c])
    BY <1>3, <1>4, Zenon DEF Heard
  <2>5. QED
    BY <2>3, <2>4
<1>8. QED
  BY <1>6, <1>7 DEF IInv, Related, Heard, Live

LEMMA FreeConnInv ==
  ASSUME IInv, NEW c \in Conn, FreeConn(c)
  PROVE  IInv'
BY CloseDnsInv, CloseNcInv DEF FreeConn

-----------------------------------------------------------------------------
LEMMA NextInv == IInv /\ [Next]_vars => IInv'
<1> SUFFICES ASSUME IInv, [Next]_vars PROVE IInv'
  OBVIOUS
<1>1. ASSUME UNCHANGED <<nc, dns>>, manager' \in {"polling", "walk", "freed"}
      PROVE  IInv'
  BY <1>1 DEF IInv, TypeInv, Related, Heard, Live
<1>2. CASE UNCHANGED vars
  BY <1>1, <1>2 DEF vars, IInv, TypeInv
<1>3. CASE Free \/ Freed
  BY <1>1, <1>3 DEF Free, Freed
<1>4. CASE Tick
  BY <1>4, TickInv
<1>5. ASSUME NEW c \in Conn,
             \/ Connect(c) \/ WantsTimeout(c) \/ WantsClose(c)
             \/ PollDns(c) \/ ConnectDns(c) \/ SendDns(c) \/ RecvDns(c)
             \/ PollNc(c) \/ Connected(c) \/ FreeConn(c)
      PROVE  IInv'
  BY <1>5, ConnectInv, WantsTimeoutInv, WantsCloseInv, PollDnsInv,
     ConnectDnsInv, SendDnsInv, RecvDnsInv, PollNcInv, ConnectedInv, FreeConnInv
<1>6. QED
  BY <1>2, <1>3, <1>4, <1>5 DEF Next

THEOREM Invariance == SafeSpec => []IInv
BY InitInv, NextInv, PTL DEF SafeSpec

\* Whatever the name server does, a connection is being resolved exactly as
\* long as a live request leads to it.
THEOREM RequestLives == SafeSpec => []ResolvingHasRequest
<1>1. IInv => ResolvingHasRequest
  BY DEF IInv, Related, Live, ResolvingHasRequest, DnsListed
<1>2. QED
  BY <1>1, Invariance, PTL

\* Handlers hear of the end of connecting at most once and of the close
\* exactly once and last, for any number of attempts and any timeouts.
THEOREM EventsOrdered == SafeSpec => []EventsInOrder
<1>1. IInv => EventsInOrder
  BY HeardInOrder DEF IInv, TypeInv, EventsInOrder
<1>2. QED
  BY <1>1, Invariance, PTL
==============================================================================
