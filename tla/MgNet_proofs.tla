---------------------------- MODULE MgNet_proofs ----------------------------
(***************************************************************************)
(* Proofs about MgNet, for every value of the constants, in three parts.   *)
(*                                                                         *)
(* The list of active_connections, in which "ahead of" is what the loops   *)
(* of mg_socket_if_poll and mg_mgr_free have still to visit, and what the  *)
(* handlers do to the blocks of the connections on it: the links between   *)
(* clients and programs stay mutual, the listener stays as it was, a file  *)
(* that is not at its end keeps its buffer full, and no handler touches a  *)
(* descriptor.                                                             *)
(*                                                                         *)
(* An inductive invariant of the poll, and the safety properties that      *)
(* follow from it.                                                         *)
(*                                                                         *)
(* MgNet implements ConnManager: handlers only raise flags, of at most one *)
(* client each, so that a step of the poll is at most one of the promise.  *)
(***************************************************************************)
EXTENDS MgNet, SequenceTheorems, FiniteSetTheorems, NaturalsInduction, TLAPS

-----------------------------------------------------------------------------
(* The list: adding at the head, removing, following.                      *)

\* A list in which no connection is twice.
Distinct(l) == /\ l \in Seq(Conn)
               /\ \A i, j \in 1 .. Len(l) : l[i] = l[j] => i = j

\* Those that are c or come after it.
Ahead(l, c) == {d \in Conn : \E i, k \in 1 .. Len(l) :
                               i <= k /\ l[i] = c /\ l[k] = d}

\* What a list holds.
LEMMA Listed ==
  ASSUME NEW l \in Seq(Conn)
  PROVE  /\ \A c : c \in ToSet(l) <=> \E i \in 1 .. Len(l) : l[i] = c
         /\ ToSet(l) \subseteq Conn
BY DEF ToSet

\* Where Place finds a connection.
LEMMA Places ==
  ASSUME NEW l, Distinct(l), NEW c \in ToSet(l)
  PROVE  Place(l, c) \in 1 .. Len(l) /\ l[Place(l, c)] = c
<1>1. \E i \in DOMAIN l : l[i] = c
  BY DEF ToSet
<1>2. Place(l, c) \in DOMAIN l /\ l[Place(l, c)] = c
  BY <1>1 DEF Place
<1>3. QED
  BY <1>2 DEF Distinct

\* Of those ahead of c all are listed, c among them.
LEMMA AheadListed ==
  ASSUME NEW l, Distinct(l)
  PROVE  /\ \A c : Ahead(l, c) \subseteq ToSet(l)
         /\ \A c \in ToSet(l) : c \in Ahead(l, c)
         /\ Ahead(l, NoConn) = {}
<1>1. \A c : Ahead(l, c) \subseteq ToSet(l)
  BY Listed DEF Ahead, Distinct
<1>2. ASSUME NEW c \in ToSet(l) PROVE c \in Ahead(l, c)
  <2>1. PICK i \in 1 .. Len(l) : l[i] = c
    BY Listed DEF Distinct
  <2>2. i <= i /\ c \in Conn
    BY <2>1 DEF Distinct
  <2>3. QED
    BY <2>1, <2>2 DEF Ahead
<1>3. Ahead(l, NoConn) = {}
  BY MgNetAssumption DEF Ahead, Distinct
<1>4. QED
  BY <1>1, <1>2, <1>3

\* mg_add_conn.
LEMMA Added ==
  ASSUME NEW l, Distinct(l), NEW d \in Conn \ ToSet(l)
  PROVE  /\ Distinct(AddConn(l, d))
         /\ ToSet(AddConn(l, d)) = ToSet(l) \cup {d}
         /\ \A c : c # d => Ahead(AddConn(l, d), c) = Ahead(l, c)
         /\ Ahead(AddConn(l, d), d) = ToSet(l) \cup {d}
<1> DEFINE m == AddConn(l, d)
<1>0. l \in Seq(Conn) /\ Len(l) \in Nat
  BY DEF Distinct
<1>1. /\ m \in Seq(Conn) /\ Len(m) = Len(l) + 1 /\ m[1] = d
      /\ \A i \in 1 .. Len(l) : m[i + 1] = l[i]
  BY <1>0 DEF AddConn
<1>2. \A i \in 1 .. Len(m) : i = 1 \/ (i - 1 \in 1 .. Len(l) /\ m[i] = l[i - 1])
  <2>1. ASSUME NEW i \in 1 .. Len(m), i # 1
        PROVE  i - 1 \in 1 .. Len(l) /\ m[i] = l[i - 1]
    <3>1. i - 1 \in 1 .. Len(l) /\ (i - 1) + 1 = i
      BY <1>0, <1>1, <2>1
    <3>2. QED
      BY <1>1, <3>1
  <2>2. QED
    BY <2>1
<1>3. \A i \in 1 .. Len(l) : l[i] # d /\ i + 1 \in 1 .. Len(m)
  BY <1>0, <1>1, Listed
<1> HIDE DEF m
<1>4. Distinct(m)
  <2>1. ASSUME NEW i \in 1 .. Len(m), NEW j \in 1 .. Len(m), m[i] = m[j]
        PROVE  i = j
    <3>1. CASE i = 1 \/ j = 1
      BY <1>1, <1>2, <1>3, <2>1, <3>1
    <3>2. CASE i # 1 /\ j # 1
      <4>1. i - 1 = j - 1
        BY <1>2, <2>1, <3>2 DEF Distinct
      <4>2. QED
        BY <4>1
    <3>3. QED
      BY <3>1, <3>2
  <2>2. QED
    BY <1>1, <2>1 DEF Distinct
<1>5. ToSet(m) = ToSet(l) \cup {d}
  <2>1. ASSUME NEW c PROVE c \in ToSet(m) <=> c \in ToSet(l) \/ c = d
    <3>1. c \in ToSet(m) <=> \E i \in 1 .. Len(m) : m[i] = c
      BY <1>1, Listed
    <3>2. c \in ToSet(l) <=> \E i \in 1 .. Len(l) : l[i] = c
      BY <1>0, Listed
    <3>3. 1 \in 1 .. Len(m)
      BY <1>0, <1>1
    <3>4. QED
      BY <1>1, <1>2, <1>3, <3>1, <3>2, <3>3, SMTT(30)
  <2>2. QED
    BY <2>1
<1>6. ASSUME NEW c, c # d PROVE Ahead(m, c) = Ahead(l, c)
  <2>1. ASSUME NEW e \in Ahead(m, c) PROVE e \in Ahead(l, c)
    <3>1. PICK i \in 1 .. Len(m), k \in 1 .. Len(m) : i <= k /\ m[i] = c /\ m[k] = e
      BY <2>1 DEF Ahead
    <3>2. i # 1 /\ k # 1
      BY <1>1, <1>6, <3>1
    <3>3. /\ i - 1 \in 1 .. Len(l) /\ l[i - 1] = c
          /\ k - 1 \in 1 .. Len(l) /\ l[k - 1] = e
      BY <1>2, <3>1, <3>2
    <3>4. i - 1 <= k - 1
      BY <3>1
    <3>5. QED
      BY <2>1, <3>3, <3>4 DEF Ahead
  <2>2. ASSUME NEW e \in Ahead(l, c) PROVE e \in Ahead(m, c)
    <3>1. PICK i \in 1 .. Len(l), k \in 1 .. Len(l) : i <= k /\ l[i] = c /\ l[k] = e
      BY <2>2 DEF Ahead
    <3>2. i + 1 \in 1 .. Len(m) /\ k + 1 \in 1 .. Len(m) /\ i + 1 <= k + 1
      BY <1>3, <3>1
    <3>3. m[i + 1] = c /\ m[k + 1] = e
      BY <1>1, <3>1
    <3>4. QED
      BY <2>2, <3>2, <3>3 DEF Ahead
  <2>3. QED
    BY <2>1, <2>2
<1>7. Ahead(m, d) = ToSet(l) \cup {d}
  <2>1. Ahead(m, d) \subseteq ToSet(l) \cup {d}
    BY <1>4, <1>5, AheadListed
  <2>2. ASSUME NEW e \in ToSet(m) PROVE e \in Ahead(m, d)
    <3>1. PICK k \in 1 .. Len(m) : m[k] = e
      BY <1>1, <2>2, Listed
    <3>2. 1 <= k /\ 1 \in 1 .. Len(m) /\ e \in Conn
      BY <1>0, <1>1, <3>1
    <3>3. QED
      BY <1>1, <3>1, <3>2 DEF Ahead
  <2>3. QED
    BY <1>5, <2>1, <2>2
<1>8. QED
  BY <1>4, <1>5, <1>6, <1>7 DEF m

\* mg_remove_conn.
LEMMA Removed ==
  ASSUME NEW l, Distinct(l), NEW c \in ToSet(l)
  PROVE  /\ Distinct(RemoveConn(l, c))
         /\ ToSet(RemoveConn(l, c)) = ToSet(l) \ {c}
         /\ \A e : e # c => Ahead(RemoveConn(l, c), e) = Ahead(l, e) \ {c}
<1> DEFINE m == RemoveConn(l, c)
           p == Place(l, c)
           Old(i) == IF i < p THEN i ELSE i + 1
           New(i) == IF i < p THEN i ELSE i - 1
<1>0. l \in Seq(Conn) /\ Len(l) \in Nat /\ p \in 1 .. Len(l) /\ l[p] = c
  BY Places DEF Distinct
<1>1. /\ m \in Seq(Conn) /\ Len(m) = Len(l) - 1
      /\ \A i \in 1 .. Len(m) : m[i] = l[Old(i)]
  <2> DEFINE a == SubSeq(l, 1, p - 1)
             b == SubSeq(l, p + 1, Len(l))
  <2>1. a \in Seq(Conn) /\ Len(a) = p - 1 /\ \A i \in 1 .. (p - 1) : a[i] = l[i]
    BY <1>0
  <2>2. /\ b \in Seq(Conn) /\ Len(b) = Len(l) - p
        /\ \A i \in 1 .. (Len(l) - p) : b[i] = l[i + p]
    BY <1>0
  <2>3. m = a \o b
    BY DEF RemoveConn, RemoveAt
  <2> HIDE DEF a, b, m, p
  <2>4. /\ m \in Seq(Conn) /\ Len(m) = Len(a) + Len(b)
        /\ \A i \in 1 .. (Len(a) + Len(b)) :
             m[i] = IF i <= Len(a) THEN a[i] ELSE b[i - Len(a)]
    BY <2>1, <2>2, <2>3, ConcatProperties
  <2>5. Len(m) = Len(l) - 1
    BY <1>0, <2>1, <2>2, <2>4
  <2>6. ASSUME NEW i \in 1 .. Len(m) PROVE m[i] = l[Old(i)]
    <3>1. CASE i < p
      <4>1. i \in 1 .. (p - 1) /\ i <= Len(a) /\ i \in 1 .. (Len(a) + Len(b))
        BY <1>0, <2>1, <2>2, <2>5, <3>1
      <4>2. QED
        BY <2>1, <2>4, <3>1, <4>1
    <3>2. CASE ~(i < p)
      <4>1. /\ ~(i <= Len(a)) /\ i \in 1 .. (Len(a) + Len(b))
            /\ i - Len(a) \in 1 .. (Len(l) - p) /\ (i - Len(a)) + p = i + 1
        BY <1>0, <2>1, <2>2, <2>5, <3>2
      <4>2. QED
        BY <2>2, <2>4, <3>2, <4>1
    <3>3. QED
      BY <3>1, <3>2
  <2>7. QED
    BY <2>4, <2>5, <2>6
<1> HIDE DEF m, p
<1>2. /\ \A i \in 1 .. Len(m) : Old(i) \in 1 .. Len(l) /\ Old(i) # p
      /\ \A i, j \in 1 .. Len(m) : i <= j <=> Old(i) <= Old(j)
      /\ \A i, j \in 1 .. Len(m) : Old(i) = Old(j) => i = j
  BY <1>0, <1>1
<1>3. \A i \in 1 .. Len(l) : i # p => New(i) \in 1 .. Len(m) /\ Old(New(i)) = i
  BY <1>0, <1>1
<1>4. /\ \A i \in 1 .. Len(l) : l[i] = c => i = p
      /\ \A i \in 1 .. Len(m) : m[i] # c
  BY <1>0, <1>1, <1>2 DEF Distinct
<1>5. \A i \in 1 .. Len(l) : i # p => m[New(i)] = l[i]
  BY <1>1, <1>3
<1>6. \A i, j \in 1 .. Len(l) : i # p /\ j # p /\ i <= j => New(i) <= New(j)
  BY <1>0
<1> HIDE DEF Old, New
<1>7. Distinct(m)
  BY <1>1, <1>2 DEF Distinct
<1>8. ToSet(m) = ToSet(l) \ {c}
  <2>1. ASSUME NEW e PROVE e \in ToSet(m) <=> e \in ToSet(l) /\ e # c
    <3>1. e \in ToSet(m) <=> \E i \in 1 .. Len(m) : m[i] = e
      BY <1>1, Listed
    <3>2. e \in ToSet(l) <=> \E i \in 1 .. Len(l) : l[i] = e
      BY <1>0, Listed
    <3>3. e \in ToSet(m) => e \in ToSet(l) /\ e # c
      BY <1>1, <1>2, <1>4, <3>1, <3>2
    <3>4. e \in ToSet(l) /\ e # c => e \in ToSet(m)
      BY <1>0, <1>3, <1>5, <3>1, <3>2
    <3>5. QED
      BY <3>3, <3>4
  <2>2. QED
    BY <2>1
<1>9. ASSUME NEW e, e # c PROVE Ahead(m, e) = Ahead(l, e) \ {c}
  <2>1. ASSUME NEW d \in Ahead(m, e) PROVE d \in Ahead(l, e) \ {c}
    <3>1. PICK i \in 1 .. Len(m), k \in 1 .. Len(m) : i <= k /\ m[i] = e /\ m[k] = d
      BY <2>1 DEF Ahead
    <3>2. /\ Old(i) \in 1 .. Len(l) /\ Old(k) \in 1 .. Len(l) /\ Old(i) <= Old(k)
          /\ l[Old(i)] = e /\ l[Old(k)] = d
      BY <1>1, <1>2, <3>1
    <3>3. d # c /\ d \in Conn
      BY <1>4, <2>1, <3>1 DEF Ahead
    <3>4. QED
      BY <3>2, <3>3 DEF Ahead
  <2>2. ASSUME NEW d \in Ahead(l, e) \ {c} PROVE d \in Ahead(m, e)
    <3>1. PICK i \in 1 .. Len(l), k \in 1 .. Len(l) : i <= k /\ l[i] = e /\ l[k] = d
      BY <2>2 DEF Ahead
    <3>2. i # p /\ k # p
      BY <1>0, <1>9, <2>2, <3>1
    <3>3. /\ New(i) \in 1 .. Len(m) /\ New(k) \in 1 .. Len(m) /\ New(i) <= New(k)
          /\ m[New(i)] = e /\ m[New(k)] = d
      BY <1>3, <1>5, <1>6, <3>1, <3>2
    <3>4. d \in Conn
      BY <2>2 DEF Ahead
    <3>5. QED
      BY <3>3, <3>4 DEF Ahead
  <2>3. QED
    BY <2>1, <2>2
<1>10. QED
  BY <1>7, <1>8, <1>9 DEF m

\* The saved pointer of the loops: who comes next is listed, and all but c
\* that were ahead of c are ahead of it.
LEMMA Followed ==
  ASSUME Distinct(list), NEW c \in Active
  PROVE  /\ Following(c) \in Active \cup {NoConn}
         /\ Following(c) # c
         /\ Ahead(list, Following(c)) = Ahead(list, c) \ {c}
<1> DEFINE p == Place(list, c)
           n == Following(c)
<1>0. list \in Seq(Conn) /\ Len(list) \in Nat /\ p \in 1 .. Len(list) /\ list[p] = c
  BY Places DEF Active, Distinct
<1>1. n = IF p < Len(list) THEN list[p + 1] ELSE NoConn
  BY DEF Following
<1> HIDE DEF p, n
<1>2. \A i \in 1 .. Len(list) : list[i] = c => i = p
  BY <1>0 DEF Distinct
<1>3. c \in Conn /\ c # NoConn
  BY <1>0, MgNetAssumption
<1>4. CASE p < Len(list)
  <2>1. p + 1 \in 1 .. Len(list) /\ n = list[p + 1]
    BY <1>0, <1>1, <1>4
  <2>2. n \in Active /\ n # c
    <3>1. n \in Active
      BY <1>0, <2>1, Listed DEF Active
    <3>2. p + 1 # p
      BY <1>0
    <3>3. QED
      BY <1>2, <2>1, <3>1, <3>2
  <2>3. \A i \in 1 .. Len(list) : list[i] = n => i = p + 1
    BY <2>1 DEF Distinct
  <2>4. ASSUME NEW d \in Conn
        PROVE  d \in Ahead(list, n) <=> d \in Ahead(list, c) /\ d # c
    <3>1. d \in Ahead(list, n) <=> \E k \in 1 .. Len(list) : p + 1 <= k /\ list[k] = d
      BY <2>1, <2>3 DEF Ahead
    <3>2. d \in Ahead(list, c) <=> \E k \in 1 .. Len(list) : p <= k /\ list[k] = d
      BY <1>0, <1>2 DEF Ahead
    <3>3. \A k \in 1 .. Len(list) : p + 1 <= k <=> p <= k /\ k # p
      BY <1>0
    <3>4. QED
      BY <1>0, <1>2, <3>1, <3>2, <3>3
  <2>5. QED
    BY <2>2, <2>4 DEF n, Ahead
<1>5. CASE ~(p < Len(list))
  <2>1. n = NoConn /\ p = Len(list)
    BY <1>0, <1>1, <1>5
  <2>2. Ahead(list, NoConn) = {}
    BY AheadListed
  <2>3. ASSUME NEW d \in Ahead(list, c) PROVE d = c
    <3>1. PICK i \in 1 .. Len(list), k \in 1 .. Len(list) :
                 i <= k /\ list[i] = c /\ list[k] = d
      BY <2>3 DEF Ahead
    <3>2. i = p /\ k = p
      BY <1>0, <1>2, <2>1, <3>1
    <3>3. QED
      BY <1>0, <3>1, <3>2
  <2>4. QED
    BY <1>3, <2>1, <2>2, <2>3 DEF n
<1>6. QED
  BY <1>4, <1>5

\* All are ahead of the first.
LEMMA Headed ==
  ASSUME NEW l, Distinct(l)
  PROVE  /\ First(l) \in ToSet(l) \cup {NoConn}
         /\ Ahead(l, First(l)) = ToSet(l)
         /\ First(l) = NoConn => ToSet(l) = {}
<1>1. l \in Seq(Conn) /\ Len(l) \in Nat
  BY DEF Distinct
<1>2. CASE l = <<>>
  <2>1. First(l) = NoConn /\ ToSet(l) = {}
    BY <1>2 DEF First, ToSet
  <2>2. QED
    BY <2>1, AheadListed
<1>3. CASE l # <<>>
  <2>1. First(l) = l[1] /\ 1 \in 1 .. Len(l)
    BY <1>1, <1>3 DEF First
  <2>2. First(l) \in ToSet(l) /\ First(l) # NoConn
    BY <1>1, <2>1, Listed, MgNetAssumption
  <2>3. ASSUME NEW d \in ToSet(l) PROVE d \in Ahead(l, First(l))
    <3>1. PICK k \in 1 .. Len(l) : l[k] = d
      BY <1>1, <2>3, Listed
    <3>2. 1 <= k /\ d \in Conn
      BY <1>1, <3>1
    <3>3. QED
      BY <2>1, <3>1, <3>2 DEF Ahead
  <2>4. QED
    BY <2>2, <2>3, AheadListed
<1>4. QED
  BY <1>2, <1>3

-----------------------------------------------------------------------------
(* The handlers.                                                           *)

\* What a block may hold.
Flag == {"LISTENING", "CLOSE_IMMEDIATELY", "SEND_AND_CLOSE"}
Block == [sock : Fd \cup {NoFd}, flags : SUBSET Flag, send : 0 .. MaxSend,
          listener : Conn \cup {NoConn}, held : BOOLEAN,
          file : 0 .. FileSize, link : Conn \cup {NoConn}]

\* What the blocks of the listed connections A hold.
LinksOf(m, A) ==
  \A c \in A : m[c].link = NoConn
                 \/ (m[c].link \in A /\ m[m[c].link].link = c)
\* Only the listener listens; nothing is sent on it, nor is it linked.
ListenerPlain(m, A) ==
  /\ \A c \in A \ {Listener} : "LISTENING" \notin m[c].flags
  /\ Listener \in A => /\ m[Listener].flags = {"LISTENING"}
                       /\ m[Listener].listener = NoConn
                       /\ m[Listener].link = NoConn
                       /\ ~m[Listener].held
                       /\ m[Listener].send = 0
\* All of it, and that who accepted a client is the listener.
Sound(m, A) ==
  /\ m \in [Conn -> Block]
  /\ LinksOf(m, A)
  /\ ListenerPlain(m, A)
  /\ \A c \in A : m[c].listener \in {NoConn, Listener}

\* While there is more of a client's file, its buffer is full.
Full(r) == r.file > 0 => r.send = MaxSend /\ r.listener # NoConn
\* That of all the connections in A.
Filled(m, A) == \A c \in A : Full(m[c])

\* What no handler changes.
Same(m, k) == \A d \in Conn : k[d].sock = m[d].sock /\ k[d].listener = m[d].listener
\* A handler was given m and leaves k.
Good(m, k, A) == Sound(k, A) /\ Filled(k, A) /\ Same(m, k)

\* The assumptions on the constants, one by one.
LEMMA Sizes ==
  /\ MaxSend \in Nat /\ MaxSend > 0 /\ FileSize \in Nat /\ FileSize > 0
  /\ NumFds \in Nat /\ NumFds > 0 /\ SetSize \in Nat /\ SetSize > 0
  /\ NoConn \notin Conn /\ Listener \in Conn
BY MgNetAssumption

\* A flag is set.
LEMMA WithFlagGood ==
  ASSUME NEW A \in SUBSET Conn, NEW m, Sound(m, A), NEW c \in A \ {Listener},
         NEW flag \in {"CLOSE_IMMEDIATELY", "SEND_AND_CLOSE"}
  PROVE  /\ Sound(WithFlag(m, c, flag), A)
         /\ Same(m, WithFlag(m, c, flag))
         /\ Filled(m, A) => Filled(WithFlag(m, c, flag), A)
         /\ \A d \in Conn : WithFlag(m, c, flag)[d].link = m[d].link
<1> DEFINE k == WithFlag(m, c, flag)
<1>1. k = [m EXCEPT ![c].flags = @ \cup {flag}]
  BY DEF WithFlag
<1>2. m \in [Conn -> Block] /\ c \in Conn
  BY DEF Sound
<1>3. k \in [Conn -> Block]
  BY <1>1, <1>2 DEF Block, Flag
<1>4. /\ \A d \in Conn : /\ k[d].sock = m[d].sock /\ k[d].listener = m[d].listener
                         /\ k[d].link = m[d].link /\ k[d].send = m[d].send
                         /\ k[d].file = m[d].file /\ k[d].held = m[d].held
      /\ \A d \in Conn \ {c} : k[d].flags = m[d].flags
      /\ k[c].flags = m[c].flags \cup {flag}
  BY <1>1, <1>2 DEF Block
<1> HIDE DEF k
<1>5. LinksOf(k, A) /\ Same(m, k) /\ (Filled(m, A) => Filled(k, A))
  BY <1>4 DEF Sound, LinksOf, Same, Filled, Full
<1>6. ListenerPlain(k, A)
  BY <1>4 DEF Sound, ListenerPlain
<1>7. QED
  BY <1>3, <1>4, <1>5, <1>6 DEF Sound, k

\* mg_send.
LEMMA QueueGood ==
  ASSUME NEW A \in SUBSET Conn, NEW m, Sound(m, A), Filled(m, A),
         NEW c \in A \ {Listener}
  PROVE  Good(m, Queue(m, c, 1), A)
<1> DEFINE k == Queue(m, c, 1)
           s == Least(m[c].send + 1, MaxSend)
<1>1. k = [m EXCEPT ![c].send = s]
  BY DEF Queue
<1>2. m \in [Conn -> Block] /\ c \in Conn
  BY DEF Sound
<1>3. s \in 0 .. MaxSend /\ (m[c].send = MaxSend => s = MaxSend)
  BY <1>2, Sizes DEF Least, Block
<1> HIDE DEF s
<1>4. k \in [Conn -> Block]
  BY <1>1, <1>2, <1>3 DEF Block
<1>5. /\ \A d \in Conn : /\ k[d].sock = m[d].sock /\ k[d].listener = m[d].listener
                         /\ k[d].link = m[d].link /\ k[d].flags = m[d].flags
                         /\ k[d].file = m[d].file /\ k[d].held = m[d].held
      /\ \A d \in Conn \ {c} : k[d].send = m[d].send
      /\ k[c].send = s
  BY <1>1, <1>2 DEF Block
<1> HIDE DEF k
<1>6. LinksOf(k, A) /\ Same(m, k) /\ ListenerPlain(k, A)
  BY <1>5 DEF Sound, LinksOf, Same, ListenerPlain
<1>7. Filled(k, A)
  BY <1>3, <1>5 DEF Filled, Full
<1>8. QED
  BY <1>4, <1>5, <1>6, <1>7 DEF Sound, Good, k

\* mg_http_transfer_file_data fills the buffer again.
LEMMA TransferGood ==
  ASSUME NEW A \in SUBSET Conn, NEW m, Sound(m, A), NEW c \in A \ {Listener},
         \A d \in A \ {c} : Full(m[d]), IsHttp(m, c),
         NEW k \in TransferFile(m, c)
  PROVE  Good(m, k, A) /\ \A d \in Conn : k[d].link = m[d].link
<1>0. m \in [Conn -> Block] /\ c \in Conn
  BY DEF Sound
<1>1. m[c].send \in 0 .. MaxSend /\ m[c].file \in 0 .. FileSize
  BY <1>0 DEF Block
<1>2. CASE m[c].file = 0
  <2>1. k = m /\ Full(m[c])
    BY <1>2 DEF TransferFile, Full
  <2>2. QED
    BY <2>1 DEF Good, Filled, Same
<1>3. CASE m[c].file # 0
  <2> DEFINE n == Least(MaxSend - m[c].send, m[c].file)
             filled == [m EXCEPT ![c].send = @ + n, ![c].file = @ - n]
             s == m[c].send + n
             f == m[c].file - n
  <2>1. /\ s \in 0 .. MaxSend /\ f \in 0 .. FileSize
        /\ f > 0 => s = MaxSend
    BY <1>1, Sizes DEF Least
  <2>2. filled = [m EXCEPT ![c] = [m[c] EXCEPT !.send = s, !.file = f]]
    BY <1>0 DEF Block
  <2>3. k = filled \/ k = WithFlag(filled, c, "SEND_AND_CLOSE")
    BY <1>3 DEF TransferFile
  <2> HIDE DEF s, f, n, filled
  <2>4. filled \in [Conn -> Block]
    BY <1>0, <2>1, <2>2, ZenonT(30) DEF Block
  <2>5. /\ \A d \in Conn : /\ filled[d].sock = m[d].sock
                           /\ filled[d].listener = m[d].listener
                           /\ filled[d].link = m[d].link
                           /\ filled[d].flags = m[d].flags
                           /\ filled[d].held = m[d].held
        /\ \A d \in Conn \ {c} : filled[d] = m[d]
        /\ filled[c].send = s /\ filled[c].file = f
    BY <1>0, <2>2 DEF Block
  <2>6. LinksOf(filled, A) /\ ListenerPlain(filled, A) /\ Same(m, filled)
    BY <2>5 DEF Sound, LinksOf, ListenerPlain, Same
  <2>7. Filled(filled, A)
    BY <2>1, <2>5 DEF Filled, Full, IsHttp
  <2>8. Sound(filled, A)
    BY <2>4, <2>5, <2>6 DEF Sound
  <2> DEFINE w == WithFlag(filled, c, "SEND_AND_CLOSE")
  <2>9. /\ Sound(w, A) /\ Same(filled, w) /\ Filled(w, A)
        /\ \A d \in Conn : w[d].link = filled[d].link
    BY <2>7, <2>8, WithFlagGood
  <2> HIDE DEF w
  <2>10. k = filled \/ k = w
    BY <2>3 DEF w
  <2>11. QED
    BY <2>5, <2>6, <2>7, <2>8, <2>9, <2>10 DEF Good, Same
<1>4. QED
  BY <1>2, <1>3

\* mg_http_free_proto_data_cgi: both ends of the link are cut.
LEMMA UnlinkGood ==
  ASSUME NEW A \in SUBSET Conn, NEW m, Sound(m, A), Filled(m, A),
         NEW c \in A
  PROVE  Good(m, Unlink(m, c), A) /\ Unlink(m, c)[c].link = NoConn
<1> DEFINE k == Unlink(m, c)
           d == m[c].link
           w == WithFlag(m, d, "CLOSE_IMMEDIATELY")
<1>0. m \in [Conn -> Block] /\ c \in Conn
  BY DEF Sound
<1>1. CASE d = NoConn
  BY <1>1 DEF Unlink, Good, Same
<1>2. CASE d # NoConn
  <2>1. d \in A /\ m[d].link = c /\ d \in Conn
    BY <1>2 DEF Sound, LinksOf
  <2>2. d # Listener /\ c # Listener
    BY <1>2, <2>1, Sizes DEF Sound, ListenerPlain
  <2>3. Sound(w, A) /\ Same(m, w) /\ Filled(w, A) /\ \A e \in Conn : w[e].link = m[e].link
    <3> HIDE DEF d
    <3>1. d \in A \ {Listener}
      BY <2>1, <2>2
    <3>2. QED
      BY <3>1, WithFlagGood
  <2>4. k = [w EXCEPT ![d].link = NoConn, ![c].link = NoConn]
    BY <1>2 DEF Unlink
  <2>5. w \in [Conn -> Block]
    BY <2>3 DEF Sound
  <2> HIDE DEF w, d
  <2>6. k \in [Conn -> Block]
    BY <1>0, <2>1, <2>4, <2>5 DEF Block
  <2>7. /\ \A e \in Conn : /\ k[e].sock = w[e].sock
                           /\ k[e].listener = w[e].listener
                           /\ k[e].flags = w[e].flags /\ k[e].held = w[e].held
                           /\ k[e].send = w[e].send /\ k[e].file = w[e].file
        /\ \A e \in Conn \ {c, d} : k[e].link = w[e].link
        /\ k[c].link = NoConn /\ k[d].link = NoConn
    BY <1>0, <2>1, <2>4, <2>5 DEF Block
  <2> HIDE DEF k
  <2>8. ListenerPlain(k, A) /\ Same(m, k) /\ Filled(k, A)
    BY <2>2, <2>3, <2>7, Sizes DEF Sound, ListenerPlain, Same, Filled, Full
  <2>9. LinksOf(k, A)
    <3>1. ASSUME NEW e \in A, k[e].link # NoConn
          PROVE  k[e].link \in A /\ k[k[e].link].link = e
      <4>1. e # c /\ e # d /\ k[e].link = m[e].link
        BY <2>3, <2>7, <3>1
      <4>2. m[e].link \in A /\ m[m[e].link].link = e
        BY <3>1, <4>1 DEF Sound, LinksOf
      <4>3. m[e].link # c /\ m[e].link # d
        BY <2>1, <4>1, <4>2 DEF d
      <4>4. QED
        BY <2>3, <2>7, <4>1, <4>2, <4>3
    <3>2. QED
      BY <3>1 DEF LinksOf
  <2>10. QED
    BY <2>3, <2>6, <2>7, <2>8, <2>9 DEF Sound, Good, k
<1>3. QED
  BY <1>1, <1>2

\* Good is transitive.
LEMMA GoodAfter ==
  ASSUME NEW A, NEW m, NEW k, NEW r, Same(m, k), Good(k, r, A)
  PROVE  Good(m, r, A)
BY DEF Good, Same

\* A handler that does nothing.
LEMMA GoodStays ==
  ASSUME NEW A, NEW m, Sound(m, A), Filled(m, A) PROVE Good(m, m, A)
BY DEF Good, Same

\* One that sets a flag.
LEMMA FlagGood ==
  ASSUME NEW A \in SUBSET Conn, NEW m, Sound(m, A), Filled(m, A),
         NEW c \in A \ {Listener},
         NEW flag \in {"CLOSE_IMMEDIATELY", "SEND_AND_CLOSE"}
  PROVE  Good(m, WithFlag(m, c, flag), A)
BY WithFlagGood DEF Good

\* recv_mbuf is left with whole headers or without.
LEMMA HeldGood ==
  ASSUME NEW A \in SUBSET Conn, NEW m, Sound(m, A), Filled(m, A),
         NEW c \in A \ {Listener}, NEW h \in BOOLEAN
  PROVE  Good(m, [m EXCEPT ![c].held = h], A)
<1> DEFINE k == [m EXCEPT ![c].held = h]
<1>1. m \in [Conn -> Block] /\ c \in Conn
  BY DEF Sound
<1>2. k \in [Conn -> Block]
  BY <1>1 DEF Block
<1>3. /\ \A d \in Conn : /\ k[d].sock = m[d].sock /\ k[d].listener = m[d].listener
                         /\ k[d].link = m[d].link /\ k[d].flags = m[d].flags
                         /\ k[d].send = m[d].send /\ k[d].file = m[d].file
      /\ \A d \in Conn \ {c} : k[d].held = m[d].held
  BY <1>1 DEF Block
<1> HIDE DEF k
<1>4. LinksOf(k, A) /\ Same(m, k) /\ ListenerPlain(k, A) /\ Filled(k, A)
  BY <1>3 DEF Sound, LinksOf, Same, ListenerPlain, Filled, Full
<1>5. QED
  BY <1>2, <1>3, <1>4 DEF Sound, Good, k

\* mg_http_create_proto_data: the previous request leaves no file and no program.
LEMMA NewProtoDataGood ==
  ASSUME NEW A \in SUBSET Conn, NEW m, Sound(m, A), Filled(m, A),
         NEW c \in A \ {Listener}
  PROVE  /\ Good(m, NewProtoData(m, c), A)
         /\ NewProtoData(m, c)[c].link = NoConn
<1> DEFINE u == Unlink(m, c)
           k == NewProtoData(m, c)
<1>1. Good(m, u, A) /\ u[c].link = NoConn
  BY UnlinkGood
<1>2. k = [u EXCEPT ![c].file = 0]
  BY DEF NewProtoData
<1> HIDE DEF u
<1>3. u \in [Conn -> Block] /\ c \in Conn
  BY <1>1 DEF Good, Sound
<1>4. k \in [Conn -> Block]
  BY <1>2, <1>3, Sizes DEF Block
<1>5. /\ \A d \in Conn : /\ k[d].sock = u[d].sock /\ k[d].listener = u[d].listener
                         /\ k[d].link = u[d].link /\ k[d].flags = u[d].flags
                         /\ k[d].send = u[d].send /\ k[d].held = u[d].held
      /\ \A d \in Conn \ {c} : k[d].file = u[d].file
      /\ k[c].file = 0
  BY <1>2, <1>3 DEF Block
<1> HIDE DEF k
<1>6. LinksOf(k, A) /\ Same(u, k) /\ ListenerPlain(k, A)
  BY <1>1, <1>5 DEF Good, Sound, LinksOf, Same, ListenerPlain
<1>7. Filled(k, A)
  BY <1>1, <1>5 DEF Good, Filled, Full
<1>8. Good(u, k, A) /\ k[c].link = NoConn
  BY <1>1, <1>4, <1>5, <1>6, <1>7 DEF Sound, Good
<1>9. QED
  BY <1>1, <1>8, GoodAfter DEF Good, k

\* MG_EV_POLL.  The listener's handler does nothing then.
LEMMA OnPollGood ==
  ASSUME NEW A \in SUBSET Conn, NEW m, Sound(m, A), NEW c \in A,
         \A d \in A \ {c} : Full(m[d]),
         ~IsHttp(m, c) => Full(m[c]),
         NEW k \in OnPoll(m, c)
  PROVE  Good(m, k, A)
<1>1. CASE c = Listener
  <2>1. ~IsHttp(m, c) /\ ~IsCgi(m, c)
    BY <1>1 DEF Sound, ListenerPlain, IsHttp, IsCgi
  <2>2. k = m /\ Filled(m, A)
    BY <2>1 DEF OnPoll, Filled
  <2>3. QED
    BY <2>2, GoodStays
<1>2. CASE c # Listener
  <2>1. CASE IsHttp(m, c)
    <3>1. k \in TransferFile(m, c)
      BY <2>1 DEF OnPoll
    <3>2. QED
      BY <1>2, <2>1, <3>1, TransferGood
  <2>2. CASE ~IsHttp(m, c)
    <3>1. Filled(m, A) /\ (k = m \/ k = WithFlag(m, c, "CLOSE_IMMEDIATELY"))
      BY <2>2 DEF OnPoll, Abandoned, Filled
    <3>2. QED
      BY <1>2, <3>1, GoodStays, FlagGood
  <2>3. QED
    BY <2>1, <2>2
<1>3. QED
  BY <1>1, <1>2

\* mg_serve_http and what it may answer.
LEMMA RepliedGood ==
  ASSUME NEW A \in SUBSET Conn, NEW m, Sound(m, A), Filled(m, A),
         NEW c \in A \ {Listener}, IsHttp(m, c), NEW k \in Replied(m, c)
  PROVE  Good(m, k, A)
<1> DEFINE sent == Queue(m, c, 1)
           s == Least(m[c].send + 1, MaxSend)
           x == [m EXCEPT ![c].send = Least(@ + 1, MaxSend), ![c].file = FileSize]
<1>1. Good(m, sent, A)
  BY QueueGood
<1>2. Good(m, WithFlag(sent, c, "SEND_AND_CLOSE"), A)
  <2> HIDE DEF sent
  <2>1. Good(sent, WithFlag(sent, c, "SEND_AND_CLOSE"), A)
    BY <1>1, FlagGood DEF Good
  <2>2. QED
    BY <1>1, <2>1, GoodAfter DEF Good
<1>3. k = sent \/ k = WithFlag(sent, c, "SEND_AND_CLOSE") \/ k \in TransferFile(x, c)
  BY DEF Replied
<1>4. ASSUME k \in TransferFile(x, c) PROVE Good(m, k, A)
  <2>1. m \in [Conn -> Block] /\ c \in Conn
    BY DEF Sound
  <2>2. s \in 0 .. MaxSend
    BY <2>1, Sizes DEF Least, Block
  <2>3. x = [m EXCEPT ![c] = [m[c] EXCEPT !.send = s, !.file = FileSize]]
    BY <2>1 DEF Block
  <2> HIDE DEF s, x
  <2>4. x \in [Conn -> Block]
    <3>1. FileSize \in 0 .. FileSize /\ m[c] \in Block
      BY <2>1, Sizes
    <3>2. [m[c] EXCEPT !.send = s, !.file = FileSize] \in Block
      BY <2>2, <3>1 DEF Block
    <3>3. QED
      BY <2>1, <2>3, <3>2
  <2>5. /\ \A d \in Conn : /\ x[d].sock = m[d].sock /\ x[d].listener = m[d].listener
                           /\ x[d].link = m[d].link /\ x[d].flags = m[d].flags
                           /\ x[d].held = m[d].held
        /\ \A d \in Conn \ {c} : x[d] = m[d]
    BY <2>1, <2>3 DEF Block
  <2>6. LinksOf(x, A) /\ Same(m, x) /\ ListenerPlain(x, A)
    BY <2>5 DEF Sound, LinksOf, Same, ListenerPlain
  <2>7. \A d \in A \ {c} : Full(x[d])
    BY <2>5 DEF Filled
  <2>8. Sound(x, A)
    BY <2>4, <2>5, <2>6 DEF Sound
  <2>9. Good(x, k, A)
    BY <1>4, <2>1, <2>5, <2>7, <2>8, TransferGood DEF IsHttp
  <2>10. QED
    BY <2>6, <2>9, GoodAfter
<1>5. QED
  BY <1>1, <1>2, <1>3, <1>4

\* MG_EV_RECV of a client.
LEMMA OnHttpRecvGood ==
  ASSUME NEW A \in SUBSET Conn, NEW m, Sound(m, A), Filled(m, A),
         NEW c \in A \ {Listener}, IsHttp(m, c),
         NEW r \in OnHttpRecv(m, c)
  PROVE  Good(m, r, A)
<1>1. PICK k \in TransferFile(m, c) :
        \/ r = k
        \/ r = WithFlag(k, c, "CLOSE_IMMEDIATELY")
        \/ r = [NewProtoData(k, c) EXCEPT ![c].held = TRUE]
        \/ \E q \in Replied(NewProtoData(k, c), c), h \in BOOLEAN :
             r = [q EXCEPT ![c].held = h]
  BY DEF OnHttpRecv
<1>2. Good(m, k, A)
  BY <1>1, TransferGood DEF Filled
<1>3. Good(k, NewProtoData(k, c), A)
  BY <1>2, NewProtoDataGood DEF Good
<1>4. CASE r = k
  BY <1>2, <1>4
<1>5. CASE r = WithFlag(k, c, "CLOSE_IMMEDIATELY")
  <2>1. Good(k, r, A)
    BY <1>2, <1>5, FlagGood DEF Good
  <2>2. QED
    BY <1>2, <2>1, GoodAfter DEF Good
<1>6. CASE r = [NewProtoData(k, c) EXCEPT ![c].held = TRUE]
  <2>1. Good(NewProtoData(k, c), r, A)
    BY <1>3, <1>6, HeldGood DEF Good
  <2>2. Good(k, r, A)
    BY <1>3, <2>1, GoodAfter DEF Good
  <2>3. QED
    BY <1>2, <2>2, GoodAfter DEF Good
<1>7. ASSUME NEW q \in Replied(NewProtoData(k, c), c), NEW h \in BOOLEAN,
             r = [q EXCEPT ![c].held = h]
      PROVE  Good(m, r, A)
  <2>1. Good(NewProtoData(k, c), q, A)
    <3>1. IsHttp(NewProtoData(k, c), c)
      BY <1>2, <1>3 DEF Good, Same, IsHttp
    <3>2. QED
      BY <1>3, <1>7, <3>1, RepliedGood DEF Good
  <2>2. Good(q, r, A)
    BY <1>7, <2>1, HeldGood DEF Good
  <2>3. Good(k, q, A)
    BY <1>3, <2>1, GoodAfter DEF Good
  <2>4. Good(k, r, A)
    BY <2>2, <2>3, GoodAfter DEF Good
  <2>5. QED
    BY <1>2, <2>4, GoodAfter DEF Good
<1>8. QED
  BY <1>1, <1>4, <1>5, <1>6, <1>7

\* MG_EV_RECV of a CGI connection.
LEMMA OnCgiRecvGood ==
  ASSUME NEW A \in SUBSET Conn, NEW m, Sound(m, A), Filled(m, A),
         NEW c \in A \ {Listener}, NEW r \in OnCgiRecv(m, c)
  PROVE  Good(m, r, A)
<1> DEFINE d == m[c].link
           q == Queue(m, d, 1)
           w == WithFlag(q, d, "SEND_AND_CLOSE")
<1>1. CASE d = NoConn
  <2>1. r = WithFlag(m, c, "CLOSE_IMMEDIATELY")
    BY <1>1 DEF OnCgiRecv, Abandoned
  <2>2. QED
    BY <2>1, FlagGood
<1>2. CASE d # NoConn
  <2>1. d \in A /\ m[d].link = c
    BY <1>2 DEF Sound, LinksOf
  <2>2. d \in A \ {Listener}
    BY <2>1, Sizes DEF Sound, ListenerPlain
  <2>3. r = m \/ r = q \/ r = WithFlag(w, c, "CLOSE_IMMEDIATELY")
    BY <1>2 DEF OnCgiRecv
  <2> HIDE DEF d
  <2>4. Good(m, q, A)
    BY <2>2, QueueGood
  <2> HIDE DEF q
  <2>5. Good(q, w, A)
    BY <2>2, <2>4, FlagGood DEF Good
  <2>6. Good(m, w, A)
    BY <2>4, <2>5, GoodAfter DEF Good
  <2> HIDE DEF w
  <2>7. Good(w, WithFlag(w, c, "CLOSE_IMMEDIATELY"), A)
    BY <2>6, FlagGood DEF Good
  <2>8. Good(m, WithFlag(w, c, "CLOSE_IMMEDIATELY"), A)
    BY <2>6, <2>7, GoodAfter DEF Good
  <2>9. QED
    BY <2>3, <2>4, <2>8, GoodStays
<1>3. QED
  BY <1>1, <1>2

\* MG_EV_RECV of either.
LEMMA OnRecvGood ==
  ASSUME NEW A \in SUBSET Conn, NEW m, Sound(m, A), Filled(m, A),
         NEW c \in A \ {Listener}, NEW r \in OnRecv(m, c)
  PROVE  Good(m, r, A)
BY OnHttpRecvGood, OnCgiRecvGood DEF OnRecv

\* MG_EV_CLOSE of c leaves it without a link.
LEMMA OnCloseGood ==
  ASSUME NEW A \in SUBSET Conn, NEW m, Sound(m, A), Filled(m, A),
         NEW c \in A \ {Listener}
  PROVE  Good(m, OnClose(m, c), A) /\ OnClose(m, c)[c].link = NoConn
<1>1. CASE IsCgi(m, c) /\ m[c].link # NoConn
  <2> DEFINE d == m[c].link
             u == Unlink(m, d)
             w == WithFlag(u, d, "SEND_AND_CLOSE")
  <2>1. d \in A /\ m[d].link = c /\ d # NoConn
    BY <1>1 DEF Sound, LinksOf
  <2>2. d \in A \ {Listener}
    BY <2>1, Sizes DEF Sound, ListenerPlain
  <2>3. OnClose(m, c) = w
    BY <1>1 DEF OnClose
  <2>4. Good(m, u, A) /\ u[c].link = NoConn
    <3>1. m \in [Conn -> Block] /\ c \in Conn /\ c # NoConn
      BY Sizes DEF Sound
    <3>2. u = [WithFlag(m, c, "CLOSE_IMMEDIATELY") EXCEPT ![c].link = NoConn, ![d].link = NoConn]
      BY <2>1, <3>1 DEF Unlink
    <3> DEFINE v == WithFlag(m, c, "CLOSE_IMMEDIATELY")
    <3>3. v \in [Conn -> Block]
      BY FlagGood DEF Good, Sound
    <3>4. Good(m, u, A)
      <4> HIDE DEF d
      <4>1. QED
        BY <2>1, UnlinkGood
    <3> HIDE DEF v, d
    <3>5. d \in Conn
      BY <2>1
    <3>6. u[c].link = NoConn
      BY <3>1, <3>2, <3>3, <3>5 DEF v, Block
    <3>7. QED
      BY <3>4, <3>6
  <2> HIDE DEF d, u
  <2>5. Good(u, w, A) /\ w[c].link = u[c].link
    <3>1. Sound(u, A) /\ Filled(u, A) /\ c \in Conn
      BY <2>4 DEF Good
    <3>2. Good(u, w, A)
      BY <2>2, <3>1, FlagGood
    <3>3. \A e \in Conn : w[e].link = u[e].link
      BY <2>2, <3>1, WithFlagGood
    <3>4. QED
      BY <3>1, <3>2, <3>3
  <2>6. Good(m, w, A)
    BY <2>4, <2>5, GoodAfter DEF Good
  <2>7. QED
    BY <2>3, <2>4, <2>5, <2>6
<1>2. CASE ~(IsCgi(m, c) /\ m[c].link # NoConn)
  <2>1. OnClose(m, c) = Unlink(m, c)
    BY <1>2 DEF OnClose
  <2>2. QED
    BY <2>1, UnlinkGood
<1>3. QED
  BY <1>1, <1>2

\* m has become k, with a new connection d on socket f.
Started(m, k, A, d, f) ==
  /\ Sound(k, A \cup {d}) /\ Filled(k, A \cup {d})
  /\ \A e \in A : k[e].sock = m[e].sock /\ k[e].listener = m[e].listener
  /\ k[d].sock = f /\ k[d].listener = NoConn

\* mg_handle_cgi links c and d.
LEMMA StartCgiGood ==
  ASSUME NEW A \in SUBSET Conn, NEW m, Sound(m, A), Filled(m, A),
         NEW c \in A \ {Listener}, m[c].link = NoConn, Listener \in A,
         NEW d \in Conn \ A, NEW f \in Fd, NEW n \in 0 .. 1,
         NEW k, k = StartCgi(m, c, d, f, n)
  PROVE  Started(m, k, A, d, f)
<1> DEFINE b == [Blank EXCEPT !.sock = f, !.link = c, !.send = n]
           a == [m[c] EXCEPT !.link = d, !.held = FALSE]
<1>1. m \in [Conn -> Block] /\ c \in Conn /\ c # d /\ d # Listener /\ d \in Conn
  BY DEF Sound
<1>2. n \in 0 .. MaxSend /\ 0 \in 0 .. FileSize
  BY Sizes
<1>3. /\ b.sock = f /\ b.flags = {} /\ b.send = n /\ b.listener = NoConn
      /\ b.file = 0 /\ b.link = c
  BY DEF Blank
<1>4. b \in Block /\ a \in Block
  <2>1. Blank \in Block
    BY <1>2, Sizes DEF Blank, Block
  <2>2. b \in Block
    BY <1>1, <1>2, <2>1 DEF Block
  <2>3. m[c] \in Block
    BY <1>1
  <2>4. QED
    BY <1>1, <2>2, <2>3 DEF Block
<1>5. k = [m EXCEPT ![d] = b, ![c] = a]
  BY <1>1 DEF StartCgi, Block
<1>6. /\ a.sock = m[c].sock /\ a.listener = m[c].listener /\ a.link = d
      /\ a.flags = m[c].flags /\ a.send = m[c].send /\ a.file = m[c].file
  BY <1>1 DEF Block
<1> HIDE DEF a, b
<1>7. /\ k \in [Conn -> Block] /\ k[d] = b /\ k[c] = a
      /\ \A e \in Conn \ {c, d} : k[e] = m[e]
  BY <1>1, <1>4, <1>5
<1>8. LinksOf(k, A \cup {d})
  <2>1. ASSUME NEW e \in A \cup {d}, k[e].link # NoConn
        PROVE  k[e].link \in A \cup {d} /\ k[k[e].link].link = e
    <3>1. CASE e \in {c, d}
      BY <1>1, <1>3, <1>6, <1>7, <3>1
    <3>2. CASE e \notin {c, d}
      <4>1. e \in A /\ k[e] = m[e]
        BY <1>7, <3>2
      <4>2. m[e].link \in A /\ m[m[e].link].link = e
        BY <2>1, <4>1 DEF Sound, LinksOf
      <4>3. e # NoConn
        BY <4>1, Sizes
      <4>4. m[e].link \notin {c, d}
        BY <4>2, <4>3
      <4>5. QED
        BY <1>7, <4>1, <4>2, <4>4
    <3>3. QED
      BY <3>1, <3>2
  <2>2. QED
    BY <2>1 DEF LinksOf
<1>9. ListenerPlain(k, A \cup {d})
  BY <1>1, <1>3, <1>6, <1>7 DEF Sound, ListenerPlain
<1>10. Filled(k, A \cup {d})
  BY <1>3, <1>6, <1>7 DEF Filled, Full
<1>11. QED
  BY <1>3, <1>6, <1>7, <1>8, <1>9, <1>10 DEF Sound, Started

\* mg_destroy_conn frees c, to which nothing leads any more.
LEMMA DestroyGood ==
  ASSUME NEW A \in SUBSET Conn, NEW m, Sound(m, A), Filled(m, A), NEW c \in A
  PROVE  LET k == Destroy(m, c)
         IN /\ Sound(k, A \ {c}) /\ Filled(k, A \ {c})
            /\ \A e \in A \ {c} : /\ k[e].sock = m[e].sock
                                 /\ k[e].listener = m[e].listener
<1> DEFINE k == Destroy(m, c)
           u == Unlink(m, c)
<1>1. Good(m, u, A) /\ u[c].link = NoConn
  BY UnlinkGood
<1>2. k = [u EXCEPT ![c] = Blank]
  BY DEF Destroy
<1> HIDE DEF u, k
<1>3. Blank \in Block
  BY Sizes DEF Blank, Block
<1>4. u \in [Conn -> Block] /\ c \in Conn
  BY <1>1 DEF Good, Sound
<1>5. k \in [Conn -> Block] /\ \A e \in Conn \ {c} : k[e] = u[e]
  BY <1>2, <1>3, <1>4
<1>6. LinksOf(k, A \ {c})
  <2>1. ASSUME NEW e \in A \ {c}, k[e].link # NoConn
        PROVE  k[e].link \in A \ {c} /\ k[k[e].link].link = e
    <3>1. u[e].link \in A /\ u[u[e].link].link = e /\ k[e] = u[e]
      BY <1>1, <1>5, <2>1 DEF Good, Sound, LinksOf
    <3>2. u[e].link # c
      BY <1>1, <3>1, Sizes
    <3>3. QED
      BY <1>5, <3>1, <3>2
  <2>2. QED
    BY <2>1 DEF LinksOf
<1>7. ListenerPlain(k, A \ {c})
  BY <1>1, <1>5 DEF Good, Sound, ListenerPlain
<1>8. Filled(k, A \ {c})
  BY <1>1, <1>5 DEF Good, Filled
<1>9. QED
  BY <1>1, <1>5, <1>6, <1>7, <1>8 DEF Good, Sound, Same, k

-----------------------------------------------------------------------------
(* The inductive invariant: what it says of descriptors.                   *)

\* Descriptors are numbers, finitely many.
LEMMA FdNat ==
  Fd \subseteq Nat /\ 0 \in Fd /\ IsFiniteSet(Fd) /\ NoFd \notin Fd
<1>1. IsFiniteSet(0 .. (NumFds - 1))
  BY Sizes, FS_Interval
<1>2. QED
  BY <1>1, Sizes DEF Fd, NoFd

\* The kernel's choice is the lowest.
LEMMA LowIsIn ==
  ASSUME NEW S \in SUBSET Fd, S # {}
  PROVE  Low(S) \in S /\ \A g \in S : Low(S) <= g
<1>0. S \subseteq Nat
  BY FdNat
<1>1. PICK f \in S : \A g \in S : <<g, f>> \notin OpToRel(<, Nat)
  BY <1>0, WFMin, NatLessThanWellFounded, Zenon
<1>2. \A g \in S : f <= g
  <2>1. \A g \in S : ~(g < f)
    BY <1>0, <1>1, Zenon DEF OpToRel
  <2>2. QED
    BY <1>0, <2>1
<1>3. QED
  BY <1>2 DEF Low

\* mg_socketpair keeps a descriptor that was free.
LEMMA PairFree ==
  ASSUME NEW op \in SUBSET Fd, PairPossible(op)
  PROVE  PairFd(op) \in Fd \ op
<1> DEFINE free == Fd \ op
           f == Low(free)
<1>1. Cardinality(free) >= 3
  BY DEF PairPossible
<1>2. free # {}
  BY <1>1, FS_EmptySet
<1>3. free # {f}
  BY <1>1, FS_Singleton
<1>4. f \in free
  BY <1>2, LowIsIn
<1>5. free \ {f} # {}
  BY <1>2, <1>3
<1>6. Low(free \ {f}) \in free \ {f}
  BY <1>5, LowIsIn
<1>7. QED
  BY <1>6 DEF PairFd

-----------------------------------------------------------------------------

\* Every descriptor in use is one listed connection's.
Owned(m, A, op) ==
  /\ op \in SUBSET Fd
  /\ op = {m[c].sock : c \in A}
  /\ \A c, d \in A : c # d => m[c].sock # m[d].sock

\* The listener comes last.
Ordered(l) == Listener \in ToSet(l) => \A c \in ToSet(l) : Listener \in Ahead(l, c)

\* The list, what its blocks hold and the descriptors fit together.
Blocks == /\ Distinct(list)
          /\ Sound(conn, Active)
          /\ Filled(conn, Active)
          /\ Owned(conn, Active, opened)
          /\ Ordered(list)

\* Connections leave with their descriptors.
LEMMA OwnedKept ==
  ASSUME NEW A \in SUBSET Conn, NEW B \in SUBSET A, NEW m, NEW k, NEW op,
         Owned(m, A, op), \A e \in B : k[e].sock = m[e].sock
  PROVE  Owned(k, B, op \ {m[c].sock : c \in A \ B})
BY DEF Owned

\* One comes with a free descriptor.
LEMMA OwnedAdded ==
  ASSUME NEW A \in SUBSET Conn, NEW m, NEW k, NEW op, NEW f \in Fd \ op,
         NEW d \in Conn \ A, Owned(m, A, op),
         \A e \in A : k[e].sock = m[e].sock, k[d].sock = f
  PROVE  Owned(k, A \cup {d}, op \cup {f})
BY DEF Owned

\* NULL is not in the list.
LEMMA ActiveConn ==
  ASSUME Distinct(list)
  PROVE  Active \in SUBSET Conn /\ NoConn \notin Active
BY Listed, Sizes DEF Active, Distinct

\* An event that neither adds nor removes a connection.
LEMMA BlocksKept ==
  ASSUME Blocks, list' = list, opened' = opened, Good(conn, conn', Active)
  PROVE  /\ Blocks' /\ Active' = Active
         /\ \A c : Ahead(list', c) = Ahead(list, c)
         /\ \A c \in Active : /\ conn'[c].sock = conn[c].sock
                              /\ conn'[c].listener = conn[c].listener
<1>1. Active' = Active
  BY DEF Active
<1>2. \A c \in Active : /\ conn'[c].sock = conn[c].sock
                        /\ conn'[c].listener = conn[c].listener
  BY ActiveConn DEF Good, Same, Blocks
<1>3. Owned(conn', Active, opened)
  BY <1>2 DEF Blocks, Owned
<1>4. QED
  BY <1>1, <1>2, <1>3 DEF Blocks, Good

\* One that adds a connection.
LEMMA BlocksAdded ==
  ASSUME Blocks, NEW d \in Conn \ Active, NEW f \in Fd \ opened, Listener \in Active,
         list' = AddConn(list, d), opened' = opened \cup {f},
         Sound(conn', Active \cup {d}), Filled(conn', Active \cup {d}),
         \A e \in Active : /\ conn'[e].sock = conn[e].sock
                           /\ conn'[e].listener = conn[e].listener,
         conn'[d].sock = f
  PROVE  /\ Blocks' /\ Active' = Active \cup {d}
         /\ \A c : c # d => Ahead(list', c) = Ahead(list, c)
<1>1. /\ Distinct(list') /\ Active' = Active \cup {d}
      /\ \A c : c # d => Ahead(list', c) = Ahead(list, c)
      /\ Ahead(list', d) = Active'
  <2> DEFINE l == AddConn(list, d)
  <2>1. Distinct(list) /\ d \in Conn \ ToSet(list)
    BY DEF Blocks, Active
  <2>2. /\ Distinct(l) /\ ToSet(l) = ToSet(list) \cup {d}
        /\ \A c : c # d => Ahead(l, c) = Ahead(list, c)
        /\ Ahead(l, d) = ToSet(list) \cup {d}
    BY <2>1, Added
  <2> HIDE DEF l
  <2>3. list' = l
    BY DEF l
  <2>4. QED
    BY <2>2, <2>3 DEF Active
<1>2. Ordered(list')
  BY <1>1 DEF Blocks, Ordered, Active
<1>3. Owned(conn', Active \cup {d}, opened \cup {f})
  <2>1. Active \in SUBSET Conn /\ Owned(conn, Active, opened)
    BY ActiveConn DEF Blocks
  <2>2. \A e \in Active : conn'[e].sock = conn[e].sock
    OBVIOUS
  <2>3. QED
    BY <2>1, <2>2, OwnedAdded
<1>4. /\ Sound(conn', Active') /\ Filled(conn', Active')
      /\ Owned(conn', Active', opened')
  BY <1>1, <1>3
<1>5. QED
  BY <1>1, <1>2, <1>4 DEF Blocks

-----------------------------------------------------------------------------
(* Closing, which may start a program on its way.                          *)

\* What a close leaves: N is the connection of a program it has started, or
\* nothing.
Leaves(c, new) ==
  /\ Blocks'
  /\ c = Listener => new = {}
  /\ Active' = (Active \ {c}) \cup new
  /\ \A b \in Active \ {c} : /\ conn'[b].sock = conn[b].sock
                             /\ conn'[b].listener = conn[b].listener
  /\ \A b \in new : conn'[b].listener = NoConn
  /\ \A b : b \notin new \cup {c} => Ahead(list', b) = Ahead(list, b) \ {c}

\* The listener closes: nothing is linked to it, and it holds no request.
LEMMA ListenerCloses ==
  ASSUME Blocks, Listener \in Active,
         CloseConn(WithFlag(conn, Listener, "CLOSE_IMMEDIATELY"), Listener)
  PROVE  Leaves(Listener, {})
<1> DEFINE w == WithFlag(conn, Listener, "CLOSE_IMMEDIATELY")
           l == RemoveConn(list, Listener)
<1>1. conn \in [Conn -> Block] /\ Listener \in Conn
  BY Sizes DEF Blocks, Sound
<1>2. /\ w \in [Conn -> Block] /\ w[Listener].sock = conn[Listener].sock
      /\ w[Listener].link = NoConn /\ w[Listener].held = FALSE
      /\ "LISTENING" \in w[Listener].flags
      /\ \A e \in Conn \ {Listener} : w[e] = conn[e]
  BY <1>1 DEF WithFlag, Block, Flag, Blocks, Sound, ListenerPlain
<1> HIDE DEF w
<1>3. OnClose(w, Listener) = w
  BY <1>2 DEF OnClose, IsCgi, Unlink
<1>4. Destroy(w, Listener) = [w EXCEPT ![Listener] = Blank]
  BY <1>2 DEF Destroy, Unlink
<1>5. /\ list' = l /\ conn' = [w EXCEPT ![Listener] = Blank]
      /\ opened' = opened \ {conn[Listener].sock}
  BY <1>2, <1>3, <1>4 DEF CloseConn, Closed, w
<1>6. /\ Distinct(l) /\ ToSet(l) = Active \ {Listener}
      /\ \A e : e # Listener => Ahead(l, e) = Ahead(list, e) \ {Listener}
  BY Removed DEF Blocks, Active
<1> HIDE DEF l
<1>7. Active' = Active \ {Listener}
  BY <1>5, <1>6 DEF Active
<1>8. conn' \in [Conn -> Block] /\ \A e \in Conn \ {Listener} : conn'[e] = conn[e]
  <2>1. Blank \in Block
    BY Sizes DEF Blank, Block
  <2>2. QED
    BY <1>1, <1>2, <1>5, <2>1
<1>9. Active \in SUBSET Conn /\ NoConn \notin Active
  BY ActiveConn DEF Blocks
<1>10. LinksOf(conn', Active \ {Listener})
  <2>1. ASSUME NEW e \in Active \ {Listener}, conn[e].link # NoConn
        PROVE  conn[e].link \in Active \ {Listener} /\ conn[conn[e].link].link = e
    BY <1>9, <2>1 DEF Blocks, Sound, LinksOf, ListenerPlain
  <2>2. QED
    BY <1>8, <1>9, <2>1 DEF LinksOf
<1>11. Sound(conn', Active \ {Listener}) /\ Filled(conn', Active \ {Listener})
  BY <1>8, <1>9, <1>10 DEF Blocks, Sound, ListenerPlain, Filled
<1>12. Owned(conn', Active \ {Listener}, opened')
  <2>1. Owned(conn, Active, opened)
    BY DEF Blocks
  <2>2. \A e \in Active \ {Listener} : conn'[e] = conn[e]
    BY <1>8, <1>9
  <2>3. QED
    BY <1>5, <2>1, <2>2 DEF Owned
<1>13. Ordered(list')
  BY <1>5, <1>6 DEF Ordered
<1>14. Blocks'
  BY <1>5, <1>6, <1>7, <1>11, <1>12, <1>13 DEF Blocks
<1>15. QED
  BY <1>5, <1>6, <1>7, <1>8, <1>9, <1>14 DEF Leaves

\* Any other closes, starting a program on its way or not.
LEMMA OtherCloses ==
  ASSUME Blocks, Listener \in Active, NEW c \in Active, c # Listener,
         CloseConn(WithFlag(conn, c, "CLOSE_IMMEDIATELY"), c)
  PROVE  \E new \in SUBSET (Conn \ Active) : Leaves(c, new)
<1> DEFINE w == WithFlag(conn, c, "CLOSE_IMMEDIATELY")
           l == RemoveConn(list, c)
           e == OnClose(w, c)
           op == opened \ {conn[c].sock}
<1>0. Active \in SUBSET Conn /\ NoConn \notin Active /\ c \in Active \ {Listener}
  BY ActiveConn DEF Blocks
<1>1. Good(conn, w, Active)
  BY <1>0, FlagGood DEF Blocks
<1> HIDE DEF w
<1>2. Good(w, e, Active) /\ e[c].link = NoConn
  BY <1>0, <1>1, OnCloseGood DEF Good
<1> HIDE DEF e
<1>3. Sound(e, Active) /\ Filled(e, Active) /\ Same(conn, e)
  BY <1>1, <1>2, GoodAfter DEF Good
<1>4. /\ Distinct(l) /\ ToSet(l) = Active \ {c}
      /\ \A b : b # c => Ahead(l, b) = Ahead(list, b) \ {c}
  BY Removed DEF Blocks, Active
<1> HIDE DEF l
<1>5. \A b \in ToSet(l) : Listener \in Ahead(l, b)
  BY <1>0, <1>4 DEF Blocks, Ordered, Active
<1>6. w[c].sock = conn[c].sock
  BY <1>0, <1>1 DEF Good, Same
<1>7. Owned(conn, Active \ {c}, op)
  BY <1>0 DEF Blocks, Owned
<1> HIDE DEF op
<1>8. CASE /\ list' = l /\ conn' = Destroy(e, c) /\ opened' = op
  <2>1. /\ Sound(conn', Active \ {c}) /\ Filled(conn', Active \ {c})
        /\ \A b \in Active \ {c} : /\ conn'[b].sock = conn[b].sock
                                   /\ conn'[b].listener = conn[b].listener
    BY <1>0, <1>3, <1>8, DestroyGood DEF Same
  <2>2. Owned(conn', Active \ {c}, opened')
    BY <1>7, <1>8, <2>1 DEF Owned
  <2>3. Active' = Active \ {c}
    BY <1>4, <1>8 DEF Active
  <2>4. Ordered(list') /\ Distinct(list')
    BY <1>4, <1>5, <1>8 DEF Ordered
  <2>5. /\ Sound(conn', Active') /\ Filled(conn', Active') /\ Owned(conn', Active', opened')
    BY <2>1, <2>2, <2>3
  <2>6. Blocks'
    BY <2>4, <2>5 DEF Blocks
  <2>7. Leaves(c, {})
    BY <1>4, <1>8, <2>1, <2>3, <2>6 DEF Leaves
  <2>8. QED
    BY <2>7
<1>9. ASSUME PairPossible(op), NEW d \in Conn \ Active, NEW n \in 0 .. 1,
             list' = AddConn(l, d),
             conn' = Destroy(StartCgi(e, c, d, PairFd(op), n), c),
             opened' = op \cup {PairFd(op)}
      PROVE  Leaves(c, {d})
  <2> DEFINE f == PairFd(op)
             s == StartCgi(e, c, d, f, n)
             B == Active \cup {d}
  <2>1. f \in Fd \ op
    BY <1>7, <1>9, PairFree DEF Owned
  <2> HIDE DEF f
  <2>2. /\ Sound(s, B) /\ Filled(s, B)
        /\ \A b \in Active : s[b].sock = e[b].sock /\ s[b].listener = e[b].listener
        /\ s[d].sock = f /\ s[d].listener = NoConn
    <3> HIDE DEF s, B
    <3>1. /\ Active \in SUBSET Conn /\ c \in Active \ {Listener} /\ e[c].link = NoConn
          /\ Sound(e, Active) /\ Filled(e, Active) /\ Listener \in Active
          /\ d \in Conn \ Active /\ f \in Fd /\ n \in 0 .. 1
      BY <1>0, <1>2, <1>3, <1>9, <2>1
    <3>2. s = StartCgi(e, c, d, f, n)
      BY DEF s
    <3>3. Started(e, s, Active, d, f)
      BY <3>1, <3>2, StartCgiGood
    <3>4. QED
      BY <3>3 DEF B, Started
  <2> HIDE DEF s
  <2>3. conn' = Destroy(s, c) /\ opened' = op \cup {f}
    BY <1>9 DEF s, f
  <2>4. c \in B /\ B \in SUBSET Conn /\ d \in B \ {c} /\ B \ {c} = (Active \ {c}) \cup {d}
    BY <1>0
  <2> HIDE DEF B
  <2>5. /\ Sound(conn', B \ {c}) /\ Filled(conn', B \ {c})
        /\ \A b \in B \ {c} : /\ conn'[b].sock = s[b].sock
                              /\ conn'[b].listener = s[b].listener
    <3>1. B \in SUBSET Conn /\ c \in B /\ Sound(s, B) /\ Filled(s, B)
      BY <2>2, <2>4
    <3>2. QED
      BY <2>3, <3>1, DestroyGood, ZenonT(30)
  <2>6. \A b \in Active \ {c} : /\ conn'[b].sock = conn[b].sock
                                /\ conn'[b].listener = conn[b].listener
    BY <1>0, <1>3, <2>2, <2>4, <2>5 DEF Same
  <2>7. conn'[d].sock = f /\ conn'[d].listener = NoConn
    BY <2>2, <2>4, <2>5
  <2>8. Owned(conn', (Active \ {c}) \cup {d}, op \cup {f})
    <3>1. Active \ {c} \in SUBSET Conn /\ d \in Conn \ (Active \ {c})
      BY <1>0
    <3>2. \A b \in Active \ {c} : conn'[b].sock = conn[b].sock
      BY <2>6
    <3>3. QED
      BY <1>7, <2>1, <2>7, <3>1, <3>2, OwnedAdded
  <2>9. /\ Distinct(list') /\ Active' = (Active \ {c}) \cup {d}
        /\ \A b : b # d => Ahead(list', b) = Ahead(l, b)
        /\ Ahead(list', d) = Active'
    <3> DEFINE a == AddConn(l, d)
    <3>1. d \in Conn \ ToSet(l)
      BY <1>4
    <3>2. /\ Distinct(a) /\ ToSet(a) = ToSet(l) \cup {d}
          /\ \A b : b # d => Ahead(a, b) = Ahead(l, b)
          /\ Ahead(a, d) = ToSet(l) \cup {d}
      BY <1>4, <3>1, Added
    <3> HIDE DEF a
    <3>3. list' = a
      BY <1>9 DEF a
    <3>4. QED
      BY <1>4, <3>2, <3>3 DEF Active
  <2>10. Ordered(list')
    BY <1>0, <1>4, <1>5, <2>9 DEF Ordered, Active
  <2>11. Sound(conn', Active') /\ Filled(conn', Active') /\ Owned(conn', Active', opened')
    BY <2>3, <2>4, <2>5, <2>8, <2>9
  <2>12. Blocks'
    BY <2>9, <2>10, <2>11 DEF Blocks
  <2>13. \A b : b \notin {d} \cup {c} => Ahead(list', b) = Ahead(list, b) \ {c}
    BY <1>4, <2>9
  <2>14. QED
    BY <2>6, <2>7, <2>9, <2>12, <2>13 DEF Leaves
<1>10. QED
  BY <1>6, <1>8, <1>9 DEF CloseConn, Closed, w, l, e, op

-----------------------------------------------------------------------------
(* The inductive invariant.                                                *)

\* The bits found for c were collected for it.
Here(c) == seen[conn[c].sock] = c
\* The descriptors select() can be asked about.
Lowest == 0 .. (SetSize - 1)

\* Where the thread is, and that what it points to is in the list.
Cursor ==
  /\ pc \in {"idle", "build", "poll", "recv", "drain", "parse", "send", "walk",
              "freed"}
  /\ pc \in {"build", "walk"} => nc \in Active \cup {NoConn}
  /\ pc \in {"poll", "recv", "drain", "parse", "send"} => nc \in Active
  /\ pc \in {"recv", "drain", "parse", "send"} => tmp \in Active \cup {NoConn}
  /\ pc \in {"drain", "parse"} => nc # Listener
\* The listener is there until the walk is through.
Present == Listener \in Active \/ (pc = "walk" /\ nc = NoConn) \/ pc = "freed"
\* Those the walk has behind it were not accepted.
Walked ==
  /\ pc = "walk" => \A c \in Active \ Ahead(list, nc) : conn[c].listener = NoConn
  /\ pc = "freed" => \A c \in Active : conn[c].listener = NoConn
\* The first loop has seen those behind it, the second finds those ahead.
Gathered ==
  /\ seen \in [Fd -> Conn \cup {NoConn}]
  /\ pc = "build" => \A c \in Active \ Ahead(list, nc) : Here(c)
  /\ pc = "poll" => \A c \in Ahead(list, nc) : Here(c)
  /\ pc \in {"recv", "drain", "parse", "send"} =>
       Here(nc) /\ \A c \in Ahead(list, tmp) : Here(c)
\* The first loop gives up when no low descriptor is left.
Tried ==
  pc = "build" =>
    /\ tryDup \in BOOLEAN
    /\ tryDup = FALSE => Lowest \subseteq opened
    /\ \A c \in Active \ Ahead(list, nc) :
         conn[c].sock >= SetSize => tryDup = FALSE

\* The inductive invariant.
IInv == Blocks /\ Cursor /\ Present /\ Walked /\ Gathered /\ Tried

-----------------------------------------------------------------------------

\* What Blocks says of the listed connections, in the form the steps use.
LEMMA Actives ==
  ASSUME Blocks
  PROVE  /\ Active \in SUBSET Conn /\ NoConn \notin Active
         /\ \A c \in Active : conn[c].sock \in Fd /\ conn[c].sock \in opened
         /\ \A c : Ahead(list, c) \subseteq Active
         /\ Ahead(list, NoConn) = {}
         /\ Distinct(list)
BY ActiveConn, AheadListed DEF Blocks, Owned, Active

\* It holds once mg_bind has returned.
LEMMA InitInv == Init => IInv
<1> SUFFICES ASSUME Init PROVE IInv
  OBVIOUS
<1>1. list = <<Listener>> /\ Distinct(list) /\ Active = {Listener}
  BY Sizes DEF Init, Distinct, Active, ToSet
<1>2. Blank \in Block
  BY Sizes DEF Blank, Block
<1> DEFINE r == [Blank EXCEPT !.sock = 0, !.flags = {"LISTENING"}]
<1>3. /\ r \in Block /\ r.sock = 0 /\ r.flags = {"LISTENING"} /\ r.listener = NoConn
      /\ r.link = NoConn /\ r.held = FALSE /\ r.send = 0 /\ r.file = 0
  BY <1>2, FdNat DEF Blank, Block, Flag
<1> HIDE DEF r
<1>4. conn = [c \in Conn |-> IF c = Listener THEN r ELSE Blank]
  BY DEF Init, r
<1>5. conn \in [Conn -> Block] /\ conn[Listener] = r
  BY <1>2, <1>3, <1>4, Sizes
<1>6. Sound(conn, Active)
  BY <1>1, <1>3, <1>5 DEF Sound, LinksOf, ListenerPlain
<1>7. Filled(conn, Active)
  BY <1>1, <1>3, <1>5 DEF Filled, Full
<1>8. Owned(conn, Active, opened)
  BY <1>1, <1>3, <1>5, FdNat DEF Owned, Init
<1>9. Ordered(list)
  BY <1>1, AheadListed DEF Ordered, Active
<1>10. Blocks
  BY <1>1, <1>6, <1>7, <1>8, <1>9 DEF Blocks
<1>11. seen \in [Fd -> Conn \cup {NoConn}]
  BY DEF Init
<1>12. Cursor /\ Present /\ Walked /\ Gathered /\ Tried
  BY <1>1, <1>11 DEF Init, Cursor, Present, Walked, Gathered, Tried
<1>13. QED
  BY <1>10, <1>12 DEF IInv

\* The second loop goes on to n, or the poll is over.
LEMMA GoOnInv ==
  ASSUME Blocks', Listener \in Active', seen' \in [Fd -> Conn \cup {NoConn}],
         NEW n, n \in Active' \cup {NoConn}, GoOn(n, list'),
         \A c \in Ahead(list', n) : Here(c)'
  PROVE  IInv'
<1>0. Distinct(list)'
  BY DEF Blocks
<1>1. CASE n # NoConn
  <2>1. pc' = "poll" /\ nc' = n
    BY <1>1 DEF GoOn
  <2>2. QED
    BY <1>1, <2>1 DEF IInv, Cursor, Present, Walked, Gathered, Tried
<1>2. CASE n = NoConn /\ final
  <2>1. pc' = "walk" /\ nc' = First(list')
    BY <1>2 DEF GoOn
  <2>2. nc' \in Active' \cup {NoConn} /\ Ahead(list', nc') = Active'
    <3>1. Distinct(list')
      BY <1>0
    <3>2. QED
      BY <2>1, <3>1, Headed DEF Active
  <2>3. QED
    BY <2>1, <2>2 DEF IInv, Cursor, Present, Walked, Gathered, Tried
<1>3. CASE n = NoConn /\ ~final
  <2>1. pc' = "idle"
    BY <1>3 DEF GoOn
  <2>2. QED
    BY <2>1 DEF IInv, Cursor, Present, Walked, Gathered, Tried
<1>4. QED
  BY <1>1, <1>2, <1>3

\* An event in the middle of a visit: the thread stays at the connection.
LEMMA VisitInv ==
  ASSUME IInv, Blocks', Active \subseteq Active',
         pc \in {"recv", "drain", "parse", "send"},
         pc' \in {"recv", "drain", "parse", "send"},
         pc' \in {"drain", "parse"} => nc # Listener,
         nc' = nc, tmp' = tmp, seen' = seen,
         Ahead(list', tmp) = Ahead(list, tmp),
         \A c \in Active : conn'[c].sock = conn[c].sock
  PROVE  IInv'
<1>1. nc \in Active /\ tmp \in Active \cup {NoConn} /\ Listener \in Active
  BY DEF IInv, Cursor, Present
<1>2. Ahead(list, tmp) \subseteq Active
  BY Actives DEF IInv
<1>3. Here(nc) /\ \A c \in Ahead(list, tmp) : Here(c)
  BY DEF IInv, Gathered
<1>4. Here(nc)' /\ \A c \in Ahead(list', tmp') : Here(c)'
  BY <1>1, <1>2, <1>3 DEF Here
<1>5. Cursor' /\ Present'
  BY <1>1 DEF Cursor, Present
<1>6. Gathered'
  BY <1>4 DEF IInv, Gathered
<1>7. Walked' /\ Tried'
  BY DEF Walked, Tried
<1>8. QED
  BY <1>5, <1>6, <1>7 DEF IInv

-----------------------------------------------------------------------------
(* Every step keeps it.                                                    *)

\* What clients and programs do.
LEMMA PeerInv == ASSUME IInv, PeerStep PROVE IInv'
<1>1. UNCHANGED <<list, conn, opened, setVars, pc, nc, tmp>>
  BY DEF PeerStep, ClientConnects, PeerSends, PeerShuts, PeerResets, Outside
<1>2. QED
  BY <1>1 DEF IInv, Blocks, Cursor, Present, Walked, Gathered, Tried, Active,
              Here, setVars

\* The poll begins.
LEMMA StartPollInv == ASSUME IInv, StartPoll PROVE IInv'
<1>1. /\ pc' = "build" /\ nc' = First(list) /\ tryDup' = TRUE
      /\ seen' = [f \in Fd |-> NoConn]
      /\ UNCHANGED <<list, conn, opened, tmp>>
  BY DEF StartPoll, kernelVars
<1>2. First(list) \in Active \cup {NoConn} /\ Ahead(list, First(list)) = Active
  BY Headed, Actives DEF IInv, Active
<1>3. Blocks' /\ Active' = Active
  BY <1>1 DEF IInv, Blocks, Active
<1>4. Present
  BY DEF IInv
<1>5. Listener \in Active
  BY <1>4 DEF StartPoll, Present
<1>6. seen' \in [Fd -> Conn \cup {NoConn}]
  BY <1>1
<1>7. QED
  BY <1>1, <1>2, <1>3, <1>5, <1>6 DEF IInv, Cursor, Present, Walked, Gathered, Tried

\* All have been collected: the second loop begins at the head.
LEMMA SelectInv == ASSUME IInv, Select PROVE IInv'
<1>1. /\ pc = "build" /\ nc = NoConn /\ pc' = "poll" /\ nc' = First(list)
      /\ UNCHANGED <<list, conn, opened, seen, tmp>>
  BY DEF Select, kernelVars
<1>2. Blocks' /\ Active' = Active /\ Listener \in Active
  BY <1>1 DEF IInv, Blocks, Active, Present
<1>3. First(list) \in Active /\ Ahead(list, First(list)) = Active
  BY <1>2, Headed, Actives DEF IInv, Active
<1>4. \A c \in Active : Here(c)
  BY <1>1, Actives DEF IInv, Gathered
<1>5. \A c \in Ahead(list', nc') : Here(c)'
  BY <1>1, <1>3, <1>4 DEF Here
<1>6. QED
  BY <1>1, <1>2, <1>3, <1>5 DEF IInv, Cursor, Present, Walked, Gathered, Tried

\* Nothing is read.
LEMMA PassRecvInv == ASSUME IInv, PassRecv PROVE IInv'
<1>1. /\ pc = "recv" /\ pc' = "send"
      /\ UNCHANGED <<list, conn, opened, seen, nc, tmp>>
  BY DEF PassRecv, kernelVars, setVars
<1>2. Blocks' /\ Active' = Active
  BY <1>1 DEF IInv, Blocks, Active
<1>3. QED
  BY <1>1, <1>2, VisitInv

\* mg_do_recv begins, never for the listener.
LEMMA StartRecvInv == ASSUME IInv, StartRecv PROVE IInv'
<1>1. /\ pc = "recv" /\ pc' = "drain" /\ ~Listening(nc)
      /\ UNCHANGED <<list, conn, opened, seen, nc, tmp>>
  BY DEF StartRecv, kernelVars, setVars
<1>2. Blocks' /\ Active' = Active
  BY <1>1 DEF IInv, Blocks, Active
<1>3. nc # Listener
  BY <1>1 DEF IInv, Cursor, Blocks, Sound, ListenerPlain, Listening
<1>4. QED
  BY <1>1, <1>2, <1>3, VisitInv

\* A client is accepted during the visit of the listener.
LEMMA AcceptInv == ASSUME IInv, Accept PROVE IInv'
<1>1. /\ pc = "recv" /\ pc' = "send" /\ Listening(nc)
      /\ UNCHANGED <<seen, nc, tmp>>
  BY DEF Accept, setVars
<1>2. Blocks /\ nc \in Active /\ tmp \in Active \cup {NoConn}
  BY <1>1 DEF IInv, Cursor
<1>3. nc = Listener
  BY <1>1, <1>2 DEF Blocks, Sound, ListenerPlain, Listening
<1>4. CASE UNCHANGED <<list, conn, opened>>
  <2>1. Blocks' /\ Active' = Active
    BY <1>2, <1>4 DEF Blocks, Active
  <2>2. QED
    BY <1>1, <1>4, <2>1, VisitInv
<1>5. CASE ~UNCHANGED <<list, conn, opened>>
  <2> DEFINE f == Low(Fd \ opened)
  <2>1. Fd # opened
    BY <1>5 DEF Accept, kernelVars
  <2>2. PICK d \in Conn \ Active :
          /\ list' = AddConn(list, d)
          /\ conn' = [conn EXCEPT ![d] =
                        [Blank EXCEPT !.sock = f, !.listener = nc]]
          /\ opened' = opened \cup {f}
    BY <1>5 DEF Accept, kernelVars
  <2>3. f \in Fd \ opened
    <3>1. Fd \ opened \in SUBSET Fd /\ Fd \ opened # {}
      BY <1>2, <2>1 DEF Blocks, Owned
    <3>2. QED
      BY <3>1, LowIsIn
  <2> DEFINE b == [Blank EXCEPT !.sock = f, !.listener = nc]
  <2> HIDE DEF f
  <2>4. /\ b \in Block /\ b.sock = f /\ b.flags = {} /\ b.listener = Listener
        /\ b.link = NoConn /\ b.file = 0
    <3>1. Blank \in Block
      BY Sizes DEF Blank, Block
    <3>2. b \in Block
      BY <1>3, <2>3, <3>1, Sizes DEF Block
    <3>3. QED
      BY <1>3, <3>2 DEF Blank
  <2> HIDE DEF b
  <2>5. conn' = [conn EXCEPT ![d] = b]
    BY <2>2 DEF b
  <2>6. Active \in SUBSET Conn /\ NoConn \notin Active /\ conn \in [Conn -> Block]
    BY <1>2, Actives DEF Blocks, Sound
  <2>7. /\ conn' \in [Conn -> Block] /\ conn'[d] = b
        /\ \A e \in Active : conn'[e] = conn[e]
    BY <2>4, <2>5, <2>6
  <2>8. LinksOf(conn', Active \cup {d})
    BY <1>2, <2>4, <2>7 DEF Blocks, Sound, LinksOf
  <2>9. ListenerPlain(conn', Active \cup {d})
    BY <1>2, <1>3, <2>4, <2>7 DEF Blocks, Sound, ListenerPlain
  <2>10. Sound(conn', Active \cup {d}) /\ Filled(conn', Active \cup {d})
    BY <1>2, <2>4, <2>7, <2>8, <2>9 DEF Blocks, Sound, Filled, Full
  <2>11. /\ Blocks' /\ Active' = Active \cup {d}
         /\ \A c : c # d => Ahead(list', c) = Ahead(list, c)
    BY <1>2, <1>3, <2>2, <2>3, <2>4, <2>7, <2>10, BlocksAdded
  <2>12. d # tmp
    BY <1>2, Sizes
  <2>13. QED
    BY <1>1, <2>7, <2>11, <2>12, VisitInv
<1>6. QED
  BY <1>4, <1>5

\* The visit begins: the next connection is saved.
LEMMA PollConnInv == ASSUME IInv, PollConn PROVE IInv'
<1>1. /\ pc = "poll" /\ pc' = "recv" /\ tmp' = Following(nc)
      /\ conn' \in OnPoll(conn, nc)
      /\ UNCHANGED <<list, opened, seen, nc>>
  BY DEF PollConn, kernelVars, setVars
<1>2. Blocks /\ nc \in Active /\ Listener \in Active /\ Active \in SUBSET Conn
  BY <1>1, Actives DEF IInv, Cursor, Present
<1>3. Good(conn, conn', Active)
  <2>1. Sound(conn, Active) /\ \A d \in Active : Full(conn[d])
    BY <1>2 DEF Blocks, Filled
  <2>2. QED
    BY <1>1, <1>2, <2>1, OnPollGood
<1>4. /\ Blocks' /\ Active' = Active
      /\ \A c : Ahead(list', c) = Ahead(list, c)
      /\ \A c \in Active : conn'[c].sock = conn[c].sock
  BY <1>1, <1>2, <1>3, BlocksKept
<1>5. /\ Following(nc) \in Active \cup {NoConn}
      /\ Ahead(list, Following(nc)) = Ahead(list, nc) \ {nc}
  BY <1>2, Followed DEF Blocks
<1>6. nc \in Ahead(list, nc) /\ Ahead(list, nc) \subseteq Active
  BY <1>2, AheadListed DEF Blocks, Active
<1>7. \A c \in Ahead(list, nc) : seen'[conn'[c].sock] = c
  BY <1>1, <1>4, <1>6 DEF IInv, Gathered, Here
<1>8. /\ seen'[conn'[nc'].sock] = nc'
      /\ \A c \in Ahead(list', tmp') : seen'[conn'[c].sock] = c
  BY <1>1, <1>4, <1>5, <1>6, <1>7
<1>9. Gathered'
  <2>1. seen' \in [Fd -> Conn \cup {NoConn}]
    BY <1>1 DEF IInv, Gathered
  <2>2. QED
    BY <1>1, <1>8, <2>1 DEF Gathered, Here
<1>10. QED
  BY <1>1, <1>2, <1>4, <1>5, <1>9 DEF IInv, Cursor, Present, Walked, Tried

\* What a step of a visit does to the connections without adding one.
LEMMA EventInv ==
  ASSUME IInv, pc \in {"drain", "parse", "send"},
         pc' \in {"drain", "parse", "send"},
         pc' \in {"drain", "parse"} => pc \in {"drain", "parse"},
         Good(conn, conn', Active), UNCHANGED <<list, opened, seen, nc, tmp>>
  PROVE  IInv'
<1>1. /\ Blocks' /\ Active' = Active
      /\ \A c : Ahead(list', c) = Ahead(list, c)
      /\ \A c \in Active : conn'[c].sock = conn[c].sock
  BY BlocksKept DEF IInv
<1>2. pc' \in {"drain", "parse"} => nc # Listener
  BY DEF IInv, Cursor
<1>3. QED
  BY <1>1, <1>2, VisitInv

\* Where mg_do_recv is.
LEMMA DrainAt ==
  ASSUME IInv, pc = "drain"
  PROVE  /\ Blocks /\ Active \in SUBSET Conn /\ nc \in Active \ {Listener}
         /\ Sound(conn, Active) /\ Filled(conn, Active) /\ Listener \in Active
         /\ tmp \in Active \cup {NoConn}
BY Actives DEF IInv, Cursor, Present, Blocks

\* Data is read.
LEMMA RecvUnitInv == ASSUME IInv, RecvUnit PROVE IInv'
<1>1. /\ pc = "drain" /\ pc' \in {"drain", "send"} /\ conn' \in OnRecv(conn, nc)
      /\ UNCHANGED <<list, opened, seen, nc, tmp>>
  BY DEF RecvUnit, setVars
<1>2. Good(conn, conn', Active)
  BY <1>1, DrainAt, OnRecvGood
<1>3. QED
  BY <1>1, <1>2, EventInv

\* Part of a message is read, and the socket is asked again.
LEMMA RecvPartInv == ASSUME IInv, RecvPart \/ AskAgain PROVE IInv'
<1>1. /\ pc \in {"drain", "parse"} /\ pc' \in {"drain", "parse"}
      /\ UNCHANGED <<list, conn, opened, seen, nc, tmp>>
  BY DEF RecvPart, AskAgain, kernelVars, setVars
<1>2. Blocks' /\ Active' = Active
  BY <1>1 DEF IInv, Blocks, Active
<1>3. nc # Listener
  BY <1>1 DEF IInv, Cursor
<1>4. QED
  BY <1>1, <1>2, <1>3, VisitInv 

\* None is left.
LEMMA RecvEndsInv == ASSUME IInv, RecvEnds PROVE IInv'
<1>1. /\ pc = "drain" /\ pc' = "send"
      /\ UNCHANGED <<list, opened, seen, nc, tmp>>
  BY DEF RecvEnds, AfterEmpty, kernelVars, setVars
<1>2. Good(conn, conn', Active)
  <2>1. \/ conn' = conn
        \/ conn' = WithFlag(conn, nc, "SEND_AND_CLOSE")
        \/ conn' = WithFlag(conn, nc, "CLOSE_IMMEDIATELY")
    BY DEF RecvEnds
  <2>2. QED
    BY <1>1, <2>1, DrainAt, GoodStays, FlagGood
<1>3. QED
  BY <1>1, <1>2, EventInv

\* A program is started in the middle of mg_do_recv.
LEMMA RecvStartsCgiInv == ASSUME IInv, RecvStartsCgi PROVE IInv'
<1>1. pc = "drain" /\ IsHttp(conn, nc) /\ UNCHANGED <<seen, nc, tmp>>
  BY DEF RecvStartsCgi, setVars
<1>2. PICK k \in TransferFile(conn, nc) :
        \/ /\ PairPossible(opened)
           /\ \E d \in Conn \ Active, n \in 0 .. 1 :
                /\ list' = AddConn(list, d)
                /\ conn' = StartCgi(NewProtoData(k, nc), nc, d, PairFd(opened), n)
                /\ opened' = opened \cup {PairFd(opened)}
                /\ pc' = pc
        \/ /\ conn' = WithFlag(NewProtoData(k, nc), nc, "CLOSE_IMMEDIATELY")
           /\ pc' = "send"
           /\ UNCHANGED <<list, opened>>
  BY DEF RecvStartsCgi
<1> DEFINE p == NewProtoData(k, nc)
<1>3. Good(conn, p, Active) /\ p[nc].link = NoConn
  <2>1. \A d \in Active \ {nc} : Full(conn[d])
    BY <1>1, DrainAt DEF Filled
  <2>2. Good(conn, k, Active)
    BY <1>1, <2>1, DrainAt, TransferGood
  <2>3. Good(k, p, Active) /\ p[nc].link = NoConn
    BY <1>1, <2>2, DrainAt, NewProtoDataGood DEF Good
  <2>4. QED
    BY <2>2, <2>3, GoodAfter DEF Good
<1> HIDE DEF p
<1>4. CASE /\ conn' = WithFlag(p, nc, "CLOSE_IMMEDIATELY")
           /\ pc' = "send" /\ UNCHANGED <<list, opened>>
  <2>1. Good(p, conn', Active)
    BY <1>1, <1>3, <1>4, DrainAt, FlagGood DEF Good
  <2>2. Good(conn, conn', Active)
    BY <1>3, <2>1, GoodAfter DEF Good
  <2>3. QED
    BY <1>1, <1>4, <2>2, EventInv
<1>5. ASSUME PairPossible(opened), NEW d \in Conn \ Active, NEW n \in 0 .. 1,
             list' = AddConn(list, d),
             conn' = StartCgi(p, nc, d, PairFd(opened), n),
             opened' = opened \cup {PairFd(opened)}, pc' = pc
      PROVE  IInv'
  <2> DEFINE f == PairFd(opened)
  <2>1. f \in Fd \ opened
    BY <1>1, <1>5, DrainAt, PairFree DEF Blocks, Owned
  <2> HIDE DEF f
  <2>2. Started(p, conn', Active, d, f)
    <3>1. /\ Active \in SUBSET Conn /\ nc \in Active \ {Listener} /\ Listener \in Active
          /\ Sound(p, Active) /\ Filled(p, Active) /\ p[nc].link = NoConn
          /\ d \in Conn \ Active /\ f \in Fd /\ n \in 0 .. 1
      BY <1>1, <1>3, <1>5, <2>1, DrainAt DEF Good
    <3>2. conn' = StartCgi(p, nc, d, f, n)
      BY <1>5 DEF f
    <3>3. QED
      BY <3>1, <3>2, StartCgiGood
  <2>3. /\ Sound(conn', Active \cup {d}) /\ Filled(conn', Active \cup {d})
        /\ \A e \in Active : /\ conn'[e].sock = conn[e].sock
                             /\ conn'[e].listener = conn[e].listener
        /\ conn'[d].sock = f
    BY <1>1, <1>3, <2>2, DrainAt DEF Started, Good, Same
  <2>4. opened' = opened \cup {f}
    BY <1>5 DEF f
  <2>5. /\ Blocks' /\ Active' = Active \cup {d}
        /\ \A c : c # d => Ahead(list', c) = Ahead(list, c)
    BY <1>1, <1>5, <2>1, <2>3, <2>4, DrainAt, BlocksAdded
  <2>6. d # tmp
    BY <1>1, <1>5, DrainAt, Sizes
  <2>7. QED
    BY <1>1, <1>5, <2>3, <2>5, <2>6, DrainAt, VisitInv
<1>6. QED
  BY <1>2, <1>4, <1>5 DEF p

\* The second loop leaves a connection for the saved one.
LEMMA NextVisitInv ==
  ASSUME IInv, pc = "send", GoOn(tmp, list), Good(conn, conn', Active),
         UNCHANGED <<list, opened, seen, tmp>>
  PROVE  IInv'
<1>1. /\ Blocks' /\ Active' = Active
      /\ \A c : Ahead(list', c) = Ahead(list, c)
      /\ \A c \in Active : conn'[c].sock = conn[c].sock
  BY BlocksKept DEF IInv
<1>2. tmp \in Active' \cup {NoConn} /\ Listener \in Active'
  BY <1>1 DEF IInv, Cursor, Present
<1>3. Ahead(list, tmp) \subseteq Active /\ \A c \in Ahead(list, tmp) : Here(c)
  BY Actives DEF IInv, Gathered
<1>4. \A c \in Ahead(list', tmp) : Here(c)'
  BY <1>1, <1>3 DEF Here
<1>5. seen' \in [Fd -> Conn \cup {NoConn}] /\ GoOn(tmp, list')
  BY DEF IInv, Gathered
<1>6. QED
  BY <1>1, <1>2, <1>4, <1>5, GoOnInv

\* Nothing is sent.
LEMMA PassSendInv == ASSUME IInv, PassSend PROVE IInv'
<1>1. /\ pc = "send" /\ GoOn(tmp, list) /\ conn' = conn
      /\ UNCHANGED <<list, opened, seen, tmp>>
  BY DEF PassSend, kernelVars, setVars
<1>2. Good(conn, conn', Active)
  BY <1>1, GoodStays DEF IInv, Blocks
<1>3. QED
  BY <1>1, <1>2, NextVisitInv

\* send() takes some, and the handler fills the buffer again.
LEMMA SendInv == ASSUME IInv, Send PROVE IInv'
<1>1. /\ pc = "send" /\ GoOn(tmp, list) /\ UNCHANGED <<list, opened, seen, tmp>>
      /\ conn[nc].send > 0
  BY DEF Send, MaySend, kernelVars, setVars
<1>2. /\ Blocks /\ nc \in Active /\ Active \in SUBSET Conn
      /\ Sound(conn, Active) /\ Filled(conn, Active)
  BY <1>1, Actives DEF IInv, Cursor, Blocks
<1>3. nc \in Active \ {Listener}
  BY <1>1, <1>2 DEF Sound, ListenerPlain
<1>4. Good(conn, conn', Active)
  <2>1. CASE conn' \in OnPoll(WithFlag(conn, nc, "CLOSE_IMMEDIATELY"), nc)
    <3> DEFINE m == WithFlag(conn, nc, "CLOSE_IMMEDIATELY")
    <3>1. Good(conn, m, Active)
      BY <1>2, <1>3, FlagGood
    <3> HIDE DEF m
    <3>2. \A d \in Active : Full(m[d])
      BY <3>1 DEF Good, Filled
    <3>3. conn' \in OnPoll(m, nc)
      BY <2>1 DEF m
    <3>4. Good(m, conn', Active)
      BY <1>2, <3>1, <3>2, <3>3, OnPollGood DEF Good
    <3>5. QED
      BY <3>1, <3>4, GoodAfter DEF Good
  <2>2. ASSUME NEW n \in 1 .. conn[nc].send,
               conn' \in OnPoll([conn EXCEPT ![nc].send = @ - n], nc)
        PROVE  Good(conn, conn', Active)
    <3> DEFINE s == conn[nc].send - n
               m == [conn EXCEPT ![nc].send = s]
    <3>1. conn \in [Conn -> Block] /\ nc \in Conn /\ conn[nc].send \in 0 .. MaxSend
      BY <1>2 DEF Sound, Block
    <3>2. s \in 0 .. MaxSend
      BY <3>1, Sizes
    <3>3. conn' \in OnPoll(m, nc)
      BY <2>2
    <3> HIDE DEF s
    <3>4. m \in [Conn -> Block]
      BY <3>1, <3>2 DEF Block
    <3>5. /\ \A d \in Conn : /\ m[d].sock = conn[d].sock
                             /\ m[d].listener = conn[d].listener
                             /\ m[d].link = conn[d].link
                             /\ m[d].flags = conn[d].flags
                             /\ m[d].held = conn[d].held
                             /\ m[d].file = conn[d].file
          /\ \A d \in Conn \ {nc} : m[d] = conn[d]
      BY <3>1 DEF Block
    <3> HIDE DEF m
    <3>6. LinksOf(m, Active) /\ ListenerPlain(m, Active) /\ Same(conn, m)
      BY <1>2, <1>3, <3>5 DEF Sound, LinksOf, ListenerPlain, Same
    <3>7. Sound(m, Active)
      BY <1>2, <3>4, <3>5, <3>6 DEF Sound
    <3>8. \A d \in Active \ {nc} : Full(m[d])
      BY <1>2, <3>5 DEF Filled
    <3>9. ~IsHttp(m, nc) => Full(m[nc])
      BY <1>2, <3>5 DEF Filled, Full, IsHttp
    <3>10. Good(m, conn', Active)
      BY <1>2, <3>3, <3>7, <3>8, <3>9, OnPollGood
    <3>11. QED
      BY <3>6, <3>10, GoodAfter
  <2>3. QED
    BY <2>1, <2>2 DEF Send, OnSend
<1>5. QED
  BY <1>1, <1>4, NextVisitInv

\* The first loop passes one connection, exchanging its descriptor or not.
LEMMA BuildInv == ASSUME IInv, Build PROVE IInv'
<1> DEFINE old == conn[nc].sock
           free == Fd \ opened
           swap == tryDup /\ Exchangeable(old, free)
           new == IF swap THEN Low(free) ELSE old
<1>1. /\ pc = "build" /\ pc' = "build" /\ nc # NoConn /\ nc' = Following(nc)
      /\ conn' = [conn EXCEPT ![nc].sock = new]
      /\ opened' = (opened \ {old}) \cup {new}
      /\ tryDup' = (tryDup /\ (old >= SetSize => swap))
      /\ seen' = [seen EXCEPT ![new] = nc]
      /\ list' = list
  BY DEF Build, Replaced
<1>2. /\ Blocks /\ nc \in Active /\ Listener \in Active /\ Active \in SUBSET Conn
      /\ conn \in [Conn -> Block] /\ old \in opened /\ old \in Fd /\ opened \subseteq Fd
  BY <1>1, Actives DEF IInv, Cursor, Present, Blocks, Sound, Owned
<1>3. tryDup \in BOOLEAN /\ (tryDup = FALSE => Lowest \subseteq opened)
  BY <1>1 DEF IInv, Tried
\* Either the descriptor stays, or the lowest free one takes its place.
<1>4. \/ new = old /\ ~swap
      \/ new \in Fd \ opened /\ new < SetSize /\ swap
  <2>1. CASE swap
    <3>1. free # {} /\ free \in SUBSET Fd /\ Low(free) < SetSize
      BY <2>1 DEF Exchangeable
    <3>2. Low(free) \in free
      BY <3>1, LowIsIn
    <3>3. QED
      BY <2>1, <3>1, <3>2
  <2>2. CASE ~swap
    BY <2>2
  <2>3. QED
    BY <2>1, <2>2
\* Where none takes it, every low one is taken.
<1>5. ~swap /\ old >= SetSize => Lowest \subseteq opened
  <2>1. SUFFICES ASSUME ~swap, old >= SetSize, tryDup = TRUE
                 PROVE  Lowest \subseteq opened
    BY <1>3
  <2>2. free = {} \/ ~(Low(free) < SetSize)
    BY <2>1 DEF Exchangeable
  <2>3. Lowest \subseteq Fd
    BY <1>2, <2>1, Sizes DEF Lowest, Fd
  <2>4. CASE free = {}
    BY <2>3, <2>4
  <2>5. CASE free # {} /\ ~(Low(free) < SetSize)
    <3>1. Low(free) \in free /\ \A g \in free : Low(free) <= g
      BY <2>5, LowIsIn
    <3>2. ASSUME NEW g \in Lowest, g \in free PROVE FALSE
      <4> DEFINE low == Low(free)
      <4>1. ~(low < SetSize) /\ low <= g
        BY <2>5, <3>1, <3>2
      <4>2. low \in Fd
        BY <3>1
      <4> HIDE DEF low
      <4>3. low \in Nat
        BY <4>2, FdNat
      <4>4. QED
        BY <3>2, <4>1, <4>3, Sizes DEF Lowest
    <3>3. QED
      BY <2>3, <3>2
  <2>6. QED
    BY <2>2, <2>4, <2>5
<1>6. new \in Fd /\ (swap => new < SetSize)
  BY <1>2, <1>4
<1> DEFINE go == (old >= SetSize => swap)
<1>7. tryDup' = (tryDup /\ go) /\ (~swap => new = old)
  BY <1>1, <1>4
<1> HIDE DEF old, free, swap, new
<1>8. /\ conn' \in [Conn -> Block] /\ conn'[nc].sock = new
      /\ \A d \in Conn \ {nc} : conn'[d] = conn[d]
      /\ \A d \in Conn : /\ conn'[d].flags = conn[d].flags
                         /\ conn'[d].listener = conn[d].listener
                         /\ conn'[d].link = conn[d].link
                         /\ conn'[d].send = conn[d].send
                         /\ conn'[d].file = conn[d].file
                         /\ conn'[d].held = conn[d].held
  BY <1>1, <1>2, <1>6 DEF Block
<1>9. Active' = Active /\ \A c : Ahead(list', c) = Ahead(list, c)
  BY <1>1 DEF Active
<1>10. Blocks'
  <2>1. Sound(conn, Active) /\ Filled(conn, Active) /\ Owned(conn, Active, opened)
    BY <1>2 DEF Blocks
  <2>2. LinksOf(conn', Active) /\ ListenerPlain(conn', Active) /\ Filled(conn', Active)
    BY <1>2, <1>8, <2>1 DEF Sound, LinksOf, ListenerPlain, Filled, Full
  <2>3. Sound(conn', Active)
    BY <1>2, <1>8, <2>1, <2>2 DEF Sound
  <2>4. Owned(conn', Active, opened')
    <3>1. opened' = {conn'[c].sock : c \in Active}
      BY <1>1, <1>2, <1>4, <1>8, <2>1 DEF Owned, old
    <3>2. opened' \in SUBSET Fd
      BY <1>1, <1>2, <1>6
    <3>3. \A c, d \in Active : c # d => conn'[c].sock # conn'[d].sock
      BY <1>2, <1>4, <1>8, <2>1 DEF Owned, old
    <3>4. QED
      BY <3>1, <3>2, <3>3 DEF Owned
  <2>5. QED
    BY <1>1, <1>2, <1>9, <2>2, <2>3, <2>4 DEF Blocks
<1>11. /\ nc' \in Active \cup {NoConn}
       /\ Ahead(list', nc') = Ahead(list, nc) \ {nc}
  BY <1>1, <1>2, Followed DEF Blocks
<1>12. \A c \in Active \ Ahead(list, nc') : c = nc \/ c \in Active \ Ahead(list, nc)
  BY <1>9, <1>11
<1>13. \A c \in Active \ {nc} : conn[c].sock # new /\ conn[c].sock \in Fd
  BY <1>2, <1>4, Actives DEF Blocks, Owned, old
<1>14. Gathered'
  <2>1. seen \in [Fd -> Conn \cup {NoConn}]
    BY DEF IInv, Gathered
  <2>2. seen' \in [Fd -> Conn \cup {NoConn}] /\ seen'[new] = nc
        /\ \A f \in Fd \ {new} : seen'[f] = seen[f]
    BY <1>1, <1>2, <1>6, <2>1
  <2>3. ASSUME NEW c \in Active \ Ahead(list, nc')
        PROVE  seen'[conn'[c].sock] = c
    <3>1. CASE c = nc
      BY <1>8, <2>2, <3>1
    <3>2. CASE c # nc
      <4>1. c \in Active \ Ahead(list, nc) /\ c \in Conn
        BY <1>2, <1>12, <2>3, <3>2
      <4>2. seen[conn[c].sock] = c
        BY <1>1, <4>1 DEF IInv, Gathered, Here
      <4>3. QED
        BY <1>8, <1>13, <2>2, <3>2, <4>1, <4>2
    <3>3. QED
      BY <3>1, <3>2
  <2>4. QED
    BY <1>1, <1>9, <2>2, <2>3 DEF Gathered, Here
<1>15. Tried'
  <2>1. tryDup' \in BOOLEAN /\ (tryDup' = FALSE <=> (tryDup = FALSE \/ ~go))
    BY <1>3, <1>7
  <2>2. tryDup' = FALSE => Lowest \subseteq opened'
    <3>1. SUFFICES ASSUME tryDup' = FALSE PROVE Lowest \subseteq opened'
      OBVIOUS
    <3>2. CASE swap
      <4>1. tryDup = FALSE
        BY <2>1, <3>1, <3>2
      <4>2. QED
        BY <3>2, <4>1 DEF swap
    <3>3. CASE ~swap
      <4>1. opened' = opened
        BY <1>1, <1>2, <1>7, <3>3
      <4>2. QED
        BY <1>3, <1>5, <2>1, <3>1, <3>3, <4>1
    <3>4. QED
      BY <3>2, <3>3
  <2>3. ASSUME NEW c \in Active \ Ahead(list, nc'), conn'[c].sock >= SetSize
        PROVE  tryDup' = FALSE
    <3>1. CASE c = nc
      <4>1. ~swap
        BY <1>6, <1>8, <2>3, <3>1, Sizes, FdNat
      <4>2. old >= SetSize
        BY <1>7, <1>8, <2>3, <3>1, <4>1
      <4>3. QED
        BY <2>1, <4>1, <4>2
    <3>2. CASE c # nc
      <4>1. c \in Active \ Ahead(list, nc) /\ c \in Conn
        BY <1>2, <1>12, <2>3, <3>2
      <4>2. tryDup = FALSE
        BY <1>1, <1>8, <2>3, <3>2, <4>1 DEF IInv, Tried
      <4>3. QED
        BY <2>1, <4>2
    <3>3. QED
      BY <3>1, <3>2
  <2>4. QED
    BY <1>1, <1>9, <2>1, <2>2, <2>3 DEF Tried
<1>16. Cursor' /\ Present' /\ Walked'
  BY <1>1, <1>2, <1>9, <1>11 DEF Cursor, Present, Walked
<1>17. QED
  BY <1>10, <1>14, <1>15, <1>16 DEF IInv

\* A due connection closes, possibly starting a program: the saved next one stays.
LEMMA PollClosesInv == ASSUME IInv, PollCloses PROVE IInv'
<1>1. /\ pc = "poll" /\ Due(conn, nc) /\ tmp' = Following(nc)
      /\ CloseConn(WithFlag(conn, nc, "CLOSE_IMMEDIATELY"), nc)
      /\ GoOn(tmp', list') /\ seen' = seen
  BY DEF PollCloses, setVars
<1>2. /\ Blocks /\ nc \in Active /\ Listener \in Active /\ Active \in SUBSET Conn
      /\ NoConn \notin Conn
  BY <1>1, Actives, Sizes DEF IInv, Cursor, Present
<1>3. nc # Listener
  BY <1>1, <1>2 DEF Due, Blocks, Sound, ListenerPlain
<1>4. PICK new \in SUBSET (Conn \ Active) : Leaves(nc, new)
  BY <1>1, <1>2, <1>3, OtherCloses
<1> DEFINE n == Following(nc)
<1>5. /\ n \in Active \cup {NoConn} /\ n # nc
      /\ Ahead(list, n) = Ahead(list, nc) \ {nc}
  BY <1>2, Followed DEF Blocks
<1> HIDE DEF n
<1>6. n \in Active' \cup {NoConn} /\ Listener \in Active' /\ Blocks'
  BY <1>2, <1>3, <1>4, <1>5 DEF Leaves
<1>7. n \notin new \cup {nc} /\ Ahead(list', n) = Ahead(list, nc) \ {nc}
  <2>1. n \notin new \cup {nc}
    BY <1>2, <1>4, <1>5
  <2>2. Ahead(list', n) = Ahead(list, n) \ {nc}
    BY <1>4, <2>1 DEF Leaves
  <2>3. QED
    BY <1>5, <2>1, <2>2
<1>8. Ahead(list, nc) \subseteq Active /\ \A c \in Ahead(list, nc) : seen[conn[c].sock] = c
  BY <1>1, <1>2, Actives DEF IInv, Gathered, Here
<1>9. \A c \in Ahead(list', n) : seen'[conn'[c].sock] = c
  BY <1>1, <1>4, <1>7, <1>8 DEF Leaves
<1>10. seen' \in [Fd -> Conn \cup {NoConn}] /\ GoOn(n, list')
  BY <1>1 DEF IInv, Gathered, n
<1>11. \A c \in Ahead(list', n) : Here(c)'
  BY <1>9 DEF Here
<1>12. QED
  BY <1>6, <1>10, <1>11, GoOnInv

\* The walk of mg_mgr_free closes one.
LEMMA FreeConnInv == ASSUME IInv, FreeConn PROVE IInv'
<1>1. /\ pc = "walk" /\ pc' = "walk" /\ nc # NoConn /\ nc' = Following(nc)
      /\ CloseConn(WithFlag(conn, nc, "CLOSE_IMMEDIATELY"), nc)
      /\ seen' = seen
  BY DEF FreeConn, setVars
<1>2. /\ Blocks /\ nc \in Active /\ Listener \in Active /\ Active \in SUBSET Conn
      /\ NoConn \notin Conn
  BY <1>1, Actives, Sizes DEF IInv, Cursor, Present
<1> DEFINE n == Following(nc)
<1>3. /\ n \in Active \cup {NoConn} /\ n # nc
      /\ Ahead(list, n) = Ahead(list, nc) \ {nc}
  BY <1>2, Followed DEF Blocks
<1>4. \A c \in Active \ Ahead(list, nc) : conn[c].listener = NoConn
  BY <1>1 DEF IInv, Walked
<1>5. nc' = n
  BY <1>1
<1>6. seen' \in [Fd -> Conn \cup {NoConn}]
  BY <1>1 DEF IInv, Gathered
<1> HIDE DEF n
<1>7. CASE nc = Listener
  <2>1. Leaves(Listener, {})
    BY <1>1, <1>2, <1>7, ListenerCloses
  <2>2. n = NoConn
    <3>1. Listener \notin Ahead(list, n)
      BY <1>3, <1>7
    <3>2. \A c \in Active : Listener \in Ahead(list, c)
      BY <1>2 DEF Blocks, Ordered, Active
    <3>3. QED
      BY <1>3, <3>1, <3>2
  <2>3. Ahead(list, nc) \ {nc} = {}
    BY <1>2, <1>3, <2>2, Actives
  <2>4. /\ Blocks' /\ Active' = Active \ {nc}
        /\ \A c \in Active \ {nc} : conn'[c].listener = conn[c].listener
    BY <1>7, <2>1 DEF Leaves
  <2>5. \A c \in Active' : conn'[c].listener = NoConn
    BY <1>4, <2>3, <2>4
  <2>6. QED
    BY <1>1, <1>5, <1>6, <2>2, <2>4, <2>5
       DEF IInv, Cursor, Present, Walked, Gathered, Tried
<1>8. CASE nc # Listener
  <2>1. PICK new \in SUBSET (Conn \ Active) : Leaves(nc, new)
    BY <1>1, <1>2, <1>8, OtherCloses
  <2>2. /\ n \in Active' \cup {NoConn} /\ Listener \in Active' /\ Blocks'
        /\ Active' = (Active \ {nc}) \cup new
        /\ \A c \in Active \ {nc} : conn'[c].listener = conn[c].listener
        /\ \A c \in new : conn'[c].listener = NoConn
    BY <1>2, <1>3, <1>8, <2>1 DEF Leaves
  <2>3. Ahead(list', n) = Ahead(list, nc) \ {nc}
    <3>1. n \notin new \cup {nc}
      BY <1>2, <1>3, <2>1
    <3>2. QED
      BY <1>3, <2>1, <3>1 DEF Leaves
  <2>4. \A c \in Active' \ Ahead(list', n) : conn'[c].listener = NoConn
    BY <1>4, <2>2, <2>3
  <2>5. QED
    BY <1>1, <1>5, <1>6, <2>2, <2>4
       DEF IInv, Cursor, Present, Walked, Gathered, Tried
<1>9. QED
  BY <1>7, <1>8

\* It is through.
LEMMA FreeDoneInv == ASSUME IInv, FreeDone PROVE IInv'
<1>1. /\ pc = "walk" /\ nc = NoConn /\ pc' = "freed"
      /\ UNCHANGED <<list, conn, opened, seen, nc, tmp>>
  BY DEF FreeDone, kernelVars, setVars
<1>2. Ahead(list, NoConn) = {}
  BY Actives DEF IInv
<1>3. Blocks' /\ Active' = Active
  BY <1>1 DEF IInv, Blocks, Active
<1>4. \A c \in Active : conn[c].listener = NoConn
  BY <1>1, <1>2 DEF IInv, Walked
<1>5. QED
  BY <1>1, <1>3, <1>4 DEF IInv, Cursor, Present, Walked, Gathered, Tried

\* Every step keeps it.
LEMMA NextInv == IInv /\ [Next]_vars => IInv'
<1> SUFFICES ASSUME IInv, [Next]_vars PROVE IInv'
  OBVIOUS
<1>1. CASE UNCHANGED vars
  BY <1>1 DEF vars, setVars, kernelVars, IInv, Blocks, Cursor, Present, Walked,
              Gathered, Tried, Active, Here
<1>2. CASE PeerStep
  BY <1>2, PeerInv
<1>3. CASE ThreadStep
  BY <1>3, StartPollInv, BuildInv, SelectInv, PollClosesInv, PollConnInv,
     PassRecvInv, AcceptInv, StartRecvInv, RecvUnitInv, RecvStartsCgiInv,
     RecvPartInv, RecvEndsInv, PassSendInv, SendInv, FreeConnInv, FreeDoneInv
     DEF ThreadStep
<1>4. QED
  BY <1>1, <1>2, <1>3 DEF Next

\* The inductive invariant holds throughout every behaviour, for any
\* number of connections and descriptors, any FD_SETSIZE and buffer limit,
\* and whatever clients and programs do.
THEOREM Invariance == SafeSpec => []IInv
BY InitInv, NextInv, PTL DEF SafeSpec

\* The loops of mg_socket_if_poll and mg_mgr_free never touch a connection
\* that has been freed, whatever the handlers close and start meanwhile.
THEOREM KeepsCursorsAlive == SafeSpec => []CursorsAlive
<1>1. IInv => CursorsAlive
  <2> SUFFICES ASSUME IInv PROVE CursorsAlive
    OBVIOUS
  <2>1. \A c \in Active : Alive(c)
    BY Actives, FdNat DEF IInv, Alive
  <2>2. QED
    BY <2>1 DEF IInv, Cursor, CursorsAlive, Visit
<1>2. QED
  BY <1>1, Invariance, PTL

\* A client and its program point to each other or nowhere: neither
\* mg_http_handler nor mg_cgi_ev_handler writes to a freed block.
THEOREM KeepsLinksMutual == SafeSpec => []LinksMutual
<1>1. IInv => LinksMutual
  BY Actives, FdNat DEF IInv, Blocks, Sound, LinksOf, LinksMutual, Alive
<1>2. QED
  BY <1>1, Invariance, PTL

\* mg_http_handler can always read nc->listener: mg_mgr_free frees it last.
THEOREM KeepsListener == SafeSpec => []ListenerOutlives
<1>1. IInv => ListenerOutlives
  <2> SUFFICES ASSUME IInv, NEW c \in Active
               PROVE  conn[c].listener \in Active \cup {NoConn}
    BY DEF ListenerOutlives
  <2>1. conn[c].listener \in {NoConn, Listener}
    BY DEF IInv, Blocks, Sound
  <2>2. CASE Listener \in Active
    BY <2>1, <2>2
  <2>3. CASE pc = "walk" /\ nc = NoConn
    BY <2>3, Actives DEF IInv, Walked
  <2>4. CASE pc = "freed"
    BY <2>4 DEF IInv, Walked
  <2>5. QED
    BY <2>2, <2>3, <2>4 DEF IInv, Present
<1>2. QED
  BY <1>1, Invariance, PTL

\* No descriptor leaks, and none has two owners, through accept(), the dup()
\* exchange, CGI and closes.
THEOREM KeepsFdOwned == SafeSpec => []FdOwned
<1>1. IInv => FdOwned
  BY DEF IInv, Blocks, Owned, FdOwned
<1>2. QED
  BY <1>1, Invariance, PTL

\* Readiness found by select() is applied to the connection it was asked
\* for, though descriptors are reused in the same poll.
THEOREM KeepsReadiness == SafeSpec => []ReadinessIsOwn
<1>1. IInv => ReadinessIsOwn
  BY DEF IInv, Gathered, Here, ReadinessIsOwn, Visit
<1>2. QED
  BY <1>1, Invariance, PTL

\* A connection is left out of select() only when no descriptor below
\* FD_SETSIZE is left to exchange its own for.
THEOREM KeepsExchangeComplete == SafeSpec => []ExchangeComplete
<1>1. IInv => ExchangeComplete
  BY Actives DEF IInv, Tried, Lowest, ExchangeComplete
<1>2. QED
  BY <1>1, Invariance, PTL

\* Which steps take connections off the list.
LEMMA OnlyClosesRemove ==
  ASSUME IInv, [Next]_vars, pc = "poll", NEW c \in Active, c \notin ToSet(list')
  PROVE  PollCloses
<1>1. list' = list \/ PollCloses
  BY DEF Next, vars, PeerStep, ClientConnects, PeerSends, PeerShuts, PeerResets,
         Outside, ThreadStep, StartPoll, Build, Select, PollConn, PassRecv, Accept,
         StartRecv, RecvUnit, RecvStartsCgi, RecvPart, AskAgain, RecvEnds,
         PassSend, Send, FreeConn, FreeDone
<1>2. QED
  BY <1>1 DEF Active

\* A poll closes what nobody condemned only after its output and the rest of
\* its file are gone.
THEOREM KeepsClosesFlushed == SafeSpec => ClosesFlushed
<1> DEFINE A == \A c \in Active : c \notin ToSet(list') /\ pc = "poll" /\ ~Closing(c)
                                    => conn[c].send = 0 /\ conn[c].file = 0
<1>1. IInv /\ [Next]_vars => [A]_vars
  <2> SUFFICES ASSUME IInv, [Next]_vars, NEW c \in Active,
                      c \notin ToSet(list'), pc = "poll", ~Closing(c)
               PROVE  conn[c].send = 0 /\ conn[c].file = 0
    OBVIOUS
  <2>1. PollCloses
    BY OnlyClosesRemove
  <2>2. /\ Blocks /\ nc \in Active /\ Listener \in Active /\ Active \in SUBSET Conn
        /\ conn \in [Conn -> Block]
    BY Actives DEF IInv, Cursor, Present, Blocks, Sound
  <2>3. Due(conn, nc) /\ CloseConn(WithFlag(conn, nc, "CLOSE_IMMEDIATELY"), nc)
    BY <2>1 DEF PollCloses
  <2>4. nc # Listener
    BY <2>2, <2>3 DEF Due, Blocks, Sound, ListenerPlain
  <2>5. PICK new \in SUBSET (Conn \ Active) : Leaves(nc, new)
    BY <2>2, <2>3, <2>4, OtherCloses
  <2>6. c = nc
    BY <2>5 DEF Leaves, Active
  <2>7. conn[c].send = 0
    BY <2>3, <2>6 DEF Due, Closing
  <2>8. Full(conn[c]) /\ conn[c].file \in Nat
    BY <2>2, Sizes DEF Blocks, Filled, Block
  <2>9. QED
    BY <2>7, <2>8, Sizes DEF Full
<1>2. QED
  BY <1>1, Invariance, PTL DEF SafeSpec, ClosesFlushed

-----------------------------------------------------------------------------
(* The refinement.                                                         *)

\* A link joins a client and a program, and only a client holds a request.
Kinds(m, A) ==
  \A c \in A : /\ m[c].link # NoConn => (IsHttp(m, c) <=> ~IsHttp(m, m[c].link))
               /\ m[c].held => IsHttp(m, c)

\* From m to k flags are only raised, of no client but c; links are only cut,
\* and only clients come to hold a request.
Raises(m, k, A, c) ==
  \A d \in A : /\ k[d].listener = m[d].listener
               /\ m[d].flags \subseteq k[d].flags
               /\ IsHttp(m, d) /\ d # c => k[d].flags = m[d].flags
Loosens(m, k, A) ==
  \A d \in A : /\ k[d].link \in {m[d].link, NoConn}
               /\ k[d].held => m[d].held \/ IsHttp(m, d)
Mild(m, k, A, c) == Raises(m, k, A, c) /\ Loosens(m, k, A)

\* One handler after another.
LEMMA MildAfter ==
  ASSUME NEW A, NEW m, NEW k, NEW r, NEW c, Mild(m, k, A, c), Mild(k, r, A, c)
  PROVE  Mild(m, r, A, c)
BY DEF Mild, Raises, Loosens, IsHttp

\* A handler that does nothing.
LEMMA MildStays ==
  ASSUME NEW A, NEW m, NEW c PROVE Mild(m, m, A, c)
BY DEF Mild, Raises, Loosens

\* What handlers do keeps links between clients and programs.
LEMMA KindsKept ==
  ASSUME NEW A, NEW m, NEW k, NEW c, Sound(m, A), Kinds(m, A), Mild(m, k, A, c)
  PROVE  Kinds(k, A)
BY DEF Mild, Raises, Loosens, Kinds, IsHttp, Sound, LinksOf

\* The handlers of another connection's event, or c's own.
Own(m, x, c) == x = c \/ ~IsHttp(m, x)

\* A flag is set.
LEMMA FlagMild ==
  ASSUME NEW A \in SUBSET Conn, NEW m \in [Conn -> Block], NEW x \in A, NEW c,
         Own(m, x, c), NEW flag
  PROVE  Mild(m, WithFlag(m, x, flag), A, c)
<1> DEFINE k == WithFlag(m, x, flag)
<1>1. k = [m EXCEPT ![x].flags = @ \cup {flag}]
  BY DEF WithFlag
<1>2. /\ \A d \in Conn : /\ k[d].listener = m[d].listener
                         /\ k[d].link = m[d].link /\ k[d].held = m[d].held
      /\ \A d \in Conn \ {x} : k[d].flags = m[d].flags
      /\ k[x].flags = m[x].flags \cup {flag}
  BY <1>1 DEF Block
<1> HIDE DEF k
<1>3. QED
  BY <1>2 DEF Mild, Raises, Loosens, Own, k

\* mg_send.
LEMMA QueueMild ==
  ASSUME NEW A \in SUBSET Conn, NEW m \in [Conn -> Block], NEW x \in A, NEW c
  PROVE  Mild(m, Queue(m, x, 1), A, c)
<1> DEFINE k == Queue(m, x, 1)
           s == Least(m[x].send + 1, MaxSend)
<1>1. k = [m EXCEPT ![x].send = s]
  BY DEF Queue
<1> HIDE DEF s
<1>2. \A d \in Conn : /\ k[d].listener = m[d].listener /\ k[d].flags = m[d].flags
                      /\ k[d].link = m[d].link /\ k[d].held = m[d].held
  BY <1>1 DEF Block
<1> HIDE DEF k
<1>3. QED
  BY <1>2 DEF Mild, Raises, Loosens, k

\* recv_mbuf is left with whole headers or without.
LEMMA HeldMild ==
  ASSUME NEW A \in SUBSET Conn, NEW m \in [Conn -> Block], NEW c \in A,
         IsHttp(m, c), NEW h
  PROVE  Mild(m, [m EXCEPT ![c].held = h], A, c)
<1> DEFINE k == [m EXCEPT ![c].held = h]
<1>1. /\ \A d \in Conn : /\ k[d].listener = m[d].listener /\ k[d].flags = m[d].flags
                         /\ k[d].link = m[d].link
      /\ \A d \in Conn \ {c} : k[d].held = m[d].held
  BY DEF Block
<1> HIDE DEF k
<1>2. QED
  BY <1>1 DEF Mild, Raises, Loosens, k

\* mg_http_transfer_file_data.
LEMMA TransferMild ==
  ASSUME NEW A \in SUBSET Conn, NEW m \in [Conn -> Block], NEW c \in A,
         NEW k \in TransferFile(m, c)
  PROVE  Mild(m, k, A, c)
<1>1. CASE m[c].file = 0
  BY <1>1, MildStays DEF TransferFile
<1>2. CASE m[c].file # 0
  <2> DEFINE n == Least(MaxSend - m[c].send, m[c].file)
             filled == [m EXCEPT ![c].send = @ + n, ![c].file = @ - n]
             s == m[c].send + n
             f == m[c].file - n
  <2>1. filled = [m EXCEPT ![c] = [m[c] EXCEPT !.send = s, !.file = f]]
    BY DEF Block
  <2>2. k = filled \/ k = WithFlag(filled, c, "SEND_AND_CLOSE")
    BY <1>2 DEF TransferFile
  <2> HIDE DEF s, f, n, filled
  <2>3. /\ \A d \in Conn : /\ filled[d].listener = m[d].listener
                           /\ filled[d].flags = m[d].flags
                           /\ filled[d].link = m[d].link
                           /\ filled[d].held = m[d].held
        /\ \A d \in Conn \ {c} : filled[d] = m[d]
    BY <2>1 DEF Block
  <2>4. DOMAIN filled = Conn /\ DOMAIN filled[c] = DOMAIN m[c]
    BY <2>1
  <2> DEFINE w == WithFlag(filled, c, "SEND_AND_CLOSE")
  <2>5. w = [filled EXCEPT ![c] =
               [filled[c] EXCEPT !.flags = filled[c].flags \cup {"SEND_AND_CLOSE"}]]
    BY DEF WithFlag
  <2>6. /\ \A d \in Conn \ {c} : w[d] = filled[d]
        /\ w[c].listener = filled[c].listener /\ w[c].link = filled[c].link
        /\ w[c].held = filled[c].held /\ filled[c].flags \subseteq w[c].flags
    BY <2>4, <2>5 DEF Block
  <2> HIDE DEF w
  <2>7. k = filled \/ k = w
    BY <2>2 DEF w
  <2>8. QED
    BY <2>3, <2>6, <2>7 DEF Mild, Raises, Loosens, IsHttp
<1>3. QED
  BY <1>1, <1>2

\* A client and its program part.
LEMMA UnlinkMild ==
  ASSUME NEW A \in SUBSET Conn, NEW m, Sound(m, A), NEW x \in A, NEW c,
         m[x].link # NoConn => Own(m, m[x].link, c)
  PROVE  Mild(m, Unlink(m, x), A, c)
<1> DEFINE k == Unlink(m, x)
           d == m[x].link
           w == WithFlag(m, d, "CLOSE_IMMEDIATELY")
<1>1. CASE d = NoConn
  BY <1>1, MildStays DEF Unlink
<1>2. CASE d # NoConn
  <2>1. d \in A /\ d \in Conn /\ x \in Conn /\ m \in [Conn -> Block]
    BY <1>2 DEF Sound, LinksOf
  <2>2. Mild(m, w, A, c)
    <3> HIDE DEF d
    <3>1. Own(m, d, c)
      BY <1>2 DEF d
    <3>2. QED
      BY <2>1, <3>1, FlagMild
  <2>3. k = [w EXCEPT ![d].link = NoConn, ![x].link = NoConn]
    BY <1>2 DEF Unlink
  <2>4. w = [m EXCEPT ![d] =
             [m[d] EXCEPT !.flags = m[d].flags \cup {"CLOSE_IMMEDIATELY"}]]
    BY DEF WithFlag
  <2>5. \A e \in Conn : DOMAIN w = Conn /\ DOMAIN w[e] = DOMAIN m[e]
    BY <2>1, <2>4
  <2> HIDE DEF w, d
  <2>6. \A e \in Conn : /\ k[e].listener = w[e].listener /\ k[e].flags = w[e].flags
                        /\ k[e].held = w[e].held /\ k[e].link \in {w[e].link, NoConn}
    BY <2>1, <2>3, <2>5 DEF Block
  <2> HIDE DEF k
  <2>7. Mild(m, k, A, c)
    BY <2>2, <2>6 DEF Mild, Raises, Loosens, IsHttp
  <2>8. QED
    BY <2>7 DEF k
<1>3. QED
  BY <1>1, <1>2

\* mg_http_create_proto_data.
LEMMA NewProtoDataMild ==
  ASSUME NEW A \in SUBSET Conn, NEW m, Sound(m, A), Filled(m, A), Kinds(m, A),
         NEW c \in A \ {Listener}, IsHttp(m, c)
  PROVE  Mild(m, NewProtoData(m, c), A, c)
<1> DEFINE u == Unlink(m, c)
           k == NewProtoData(m, c)
<1>1. Mild(m, u, A, c) /\ u \in [Conn -> Block]
  <2>1. m[c].link # NoConn => Own(m, m[c].link, c)
    BY DEF Kinds, Own
  <2>2. QED
    BY <2>1, UnlinkMild, UnlinkGood DEF Good, Sound
<1>2. k = [u EXCEPT ![c].file = 0]
  BY DEF NewProtoData
<1> HIDE DEF u
<1>3. \A d \in Conn : /\ k[d].listener = u[d].listener /\ k[d].flags = u[d].flags
                      /\ k[d].link = u[d].link /\ k[d].held = u[d].held
  BY <1>1, <1>2 DEF Block
<1> HIDE DEF k
<1>4. Mild(m, k, A, c)
  BY <1>1, <1>3 DEF Mild, Raises, Loosens, IsHttp
<1>5. QED
  BY <1>4 DEF k

\* mg_serve_http and what it may answer.
LEMMA RepliedMild ==
  ASSUME NEW A \in SUBSET Conn, NEW m, Sound(m, A), Filled(m, A),
         NEW c \in A \ {Listener}, NEW k \in Replied(m, c)
  PROVE  Mild(m, k, A, c)
<1> DEFINE sent == Queue(m, c, 1)
           s == Least(m[c].send + 1, MaxSend)
           x == [m EXCEPT ![c].send = Least(@ + 1, MaxSend), ![c].file = FileSize]
<1>0. m \in [Conn -> Block] /\ c \in Conn
  BY DEF Sound
<1>1. Mild(m, sent, A, c)
  BY <1>0, QueueMild
<1>2. Mild(m, WithFlag(sent, c, "SEND_AND_CLOSE"), A, c)
  <2>1. sent \in [Conn -> Block]
    BY QueueGood DEF Good, Sound
  <2> HIDE DEF sent
  <2>2. Mild(sent, WithFlag(sent, c, "SEND_AND_CLOSE"), A, c)
    BY <2>1, FlagMild DEF Own
  <2>3. QED
    BY <1>1, <2>2, MildAfter
<1>3. k = sent \/ k = WithFlag(sent, c, "SEND_AND_CLOSE") \/ k \in TransferFile(x, c)
  BY DEF Replied
<1>4. ASSUME k \in TransferFile(x, c) PROVE Mild(m, k, A, c)
  <2>2. s \in 0 .. MaxSend
    BY <1>0, Sizes DEF Least, Block
  <2>3. x = [m EXCEPT ![c] = [m[c] EXCEPT !.send = s, !.file = FileSize]]
    BY <1>0 DEF Block
  <2> HIDE DEF s, x
  <2>4. x \in [Conn -> Block]
    <3>1. FileSize \in 0 .. FileSize /\ m[c] \in Block
      BY <1>0, Sizes
    <3>2. [m[c] EXCEPT !.send = s, !.file = FileSize] \in Block
      BY <2>2, <3>1 DEF Block
    <3>3. QED
      BY <1>0, <2>3, <3>2
  <2>5. \A d \in Conn : /\ x[d].listener = m[d].listener /\ x[d].flags = m[d].flags
                        /\ x[d].link = m[d].link /\ x[d].held = m[d].held
    BY <1>0, <2>3 DEF Block
  <2>6. Mild(m, x, A, c)
    BY <2>5 DEF Mild, Raises, Loosens
  <2>7. Mild(x, k, A, c)
    BY <1>4, <2>4, TransferMild
  <2>8. QED
    BY <2>6, <2>7, MildAfter
<1>5. QED
  BY <1>1, <1>2, <1>3, <1>4

\* MG_EV_RECV of a client.
LEMMA OnHttpRecvMild ==
  ASSUME NEW A \in SUBSET Conn, NEW m, Sound(m, A), Filled(m, A), Kinds(m, A),
         NEW c \in A \ {Listener}, IsHttp(m, c), NEW r \in OnHttpRecv(m, c)
  PROVE  Mild(m, r, A, c)
<1>1. PICK k \in TransferFile(m, c) :
        \/ r = k
        \/ r = WithFlag(k, c, "CLOSE_IMMEDIATELY")
        \/ r = [NewProtoData(k, c) EXCEPT ![c].held = TRUE]
        \/ \E q \in Replied(NewProtoData(k, c), c), h \in BOOLEAN :
             r = [q EXCEPT ![c].held = h]
  BY DEF OnHttpRecv
<1> DEFINE p == NewProtoData(k, c)
<1>2. Good(m, k, A) /\ Mild(m, k, A, c) /\ k \in [Conn -> Block]
  <2>1. m \in [Conn -> Block] /\ \A d \in A \ {c} : Full(m[d])
    BY DEF Sound, Filled
  <2>2. Good(m, k, A)
    BY <1>1, <2>1, TransferGood
  <2>3. Mild(m, k, A, c)
    BY <1>1, <2>1, TransferMild
  <2>4. QED
    BY <2>2, <2>3 DEF Good, Sound
<1>3. IsHttp(k, c) /\ Kinds(k, A)
  BY <1>2, KindsKept DEF Mild, Raises, IsHttp
<1>4. Good(k, p, A) /\ Mild(m, p, A, c) /\ p \in [Conn -> Block] /\ IsHttp(p, c)
  <2>1. Good(k, p, A) /\ Mild(k, p, A, c)
    BY <1>2, <1>3, NewProtoDataGood, NewProtoDataMild DEF Good
  <2> HIDE DEF p
  <2>2. Mild(m, p, A, c)
    BY <1>2, <2>1, MildAfter
  <2>3. QED
    BY <1>3, <2>1, <2>2 DEF Good, Sound, Mild, Raises, IsHttp
<1> HIDE DEF p
<1>5. CASE r = WithFlag(k, c, "CLOSE_IMMEDIATELY")
  <2>1. Mild(k, r, A, c)
    BY <1>2, <1>5, FlagMild DEF Own
  <2>2. QED
    BY <1>2, <2>1, MildAfter
<1>6. CASE r = [p EXCEPT ![c].held = TRUE]
  <2>1. Mild(p, r, A, c)
    BY <1>4, <1>6, HeldMild
  <2>2. QED
    BY <1>4, <2>1, MildAfter
<1>7. ASSUME NEW q \in Replied(p, c), NEW h \in BOOLEAN,
             r = [q EXCEPT ![c].held = h]
      PROVE  Mild(m, r, A, c)
  <2>1. Good(p, q, A) /\ Mild(p, q, A, c)
    BY <1>4, <1>7, RepliedGood, RepliedMild DEF Good
  <2>2. q \in [Conn -> Block] /\ IsHttp(q, c)
    BY <1>4, <2>1 DEF Good, Sound, Mild, Raises, IsHttp
  <2>3. Mild(q, r, A, c)
    BY <1>7, <2>2, HeldMild
  <2>4. Mild(m, q, A, c)
    BY <1>4, <2>1, MildAfter
  <2>5. QED
    BY <2>3, <2>4, MildAfter
<1>8. QED
  BY <1>1, <1>2, <1>5, <1>6, <1>7 DEF p

\* A program's event: its own flags, and its client's.
LEMMA OnCgiRecvMild ==
  ASSUME NEW A \in SUBSET Conn, NEW m, Sound(m, A), Filled(m, A), Kinds(m, A),
         NEW c \in A \ {Listener}, ~IsHttp(m, c), NEW r \in OnCgiRecv(m, c)
  PROVE  \E h \in A : Mild(m, r, A, h)
<1> DEFINE d == m[c].link
           q == Queue(m, d, 1)
           w == WithFlag(q, d, "SEND_AND_CLOSE")
<1>0. m \in [Conn -> Block] /\ c \in Conn
  BY DEF Sound
<1>1. CASE d = NoConn
  <2>1. r = WithFlag(m, c, "CLOSE_IMMEDIATELY")
    BY <1>1 DEF OnCgiRecv, Abandoned
  <2>2. QED
    BY <1>0, <2>1, FlagMild DEF Own
<1>2. CASE d # NoConn
  <2>1. d \in A \ {Listener}
    BY <1>2, Sizes DEF Sound, LinksOf, ListenerPlain
  <2>2. r = m \/ r = q \/ r = WithFlag(w, c, "CLOSE_IMMEDIATELY")
    BY <1>2 DEF OnCgiRecv
  <2> HIDE DEF d
  <2>3. Mild(m, q, A, d) /\ q \in [Conn -> Block]
    BY <1>0, <2>1, QueueMild, QueueGood DEF Good, Sound
  <2>4. Sound(q, A) /\ Filled(q, A)
    BY <2>1, QueueGood DEF Good
  <2> HIDE DEF q
  <2>5. Mild(q, w, A, d)
    BY <2>1, <2>3, FlagMild DEF Own
  <2>6. w \in [Conn -> Block]
    BY <2>1, <2>4, FlagGood DEF Good, Sound
  <2> HIDE DEF w
  <2>7. Mild(m, w, A, d)
    BY <2>3, <2>5, MildAfter
  <2>8. ~IsHttp(w, c)
    BY <2>7 DEF Mild, Raises, IsHttp
  <2>9. Mild(w, WithFlag(w, c, "CLOSE_IMMEDIATELY"), A, d)
    BY <2>6, <2>8, FlagMild DEF Own
  <2>10. Mild(m, WithFlag(w, c, "CLOSE_IMMEDIATELY"), A, d)
    BY <2>7, <2>9, MildAfter
  <2>11. QED
    BY <2>1, <2>2, <2>3, <2>10, MildStays
<1>3. QED
  BY <1>1, <1>2

\* MG_EV_RECV of either.
LEMMA OnRecvMild ==
  ASSUME NEW A \in SUBSET Conn, NEW m, Sound(m, A), Filled(m, A), Kinds(m, A),
         NEW c \in A \ {Listener}, NEW r \in OnRecv(m, c)
  PROVE  \E h \in A : Mild(m, r, A, h)
<1>1. CASE IsHttp(m, c)
  BY <1>1, OnHttpRecvMild DEF OnRecv
<1>2. CASE ~IsHttp(m, c)
  BY <1>2, OnCgiRecvMild DEF OnRecv
<1>3. QED
  BY <1>1, <1>2

\* MG_EV_POLL.
LEMMA OnPollMild ==
  ASSUME NEW A \in SUBSET Conn, NEW m \in [Conn -> Block], NEW c \in A,
         NEW r \in OnPoll(m, c)
  PROVE  Mild(m, r, A, c)
BY TransferMild, FlagMild, MildStays DEF OnPoll, Abandoned, Own

\* MG_EV_CLOSE of c: of the clients, c itself or the one of its program.
LEMMA OnCloseMild ==
  ASSUME NEW A \in SUBSET Conn, NEW m, Sound(m, A), Filled(m, A), Kinds(m, A),
         NEW c \in A \ {Listener}
  PROVE  \E h \in A : /\ Mild(m, OnClose(m, c), A, h)
                      /\ IsHttp(m, c) => h = c
<1>1. CASE IsCgi(m, c) /\ m[c].link # NoConn
  <2> DEFINE d == m[c].link
             u == Unlink(m, d)
             w == WithFlag(u, d, "SEND_AND_CLOSE")
  <2>1. d \in A \ {Listener} /\ m[d].link = c /\ d \in Conn
    BY <1>1, Sizes DEF Sound, LinksOf, ListenerPlain
  <2>2. OnClose(m, c) = w /\ ~IsHttp(m, c)
    BY <1>1 DEF OnClose, IsCgi, IsHttp
  <2> HIDE DEF d
  <2>3. Good(m, u, A)
    BY <2>1, UnlinkGood
  <2>4. Mild(m, u, A, d)
    BY <2>1, <2>2, UnlinkMild DEF Own
  <2> HIDE DEF u
  <2>5. Mild(u, w, A, d)
    BY <2>1, <2>3, FlagMild DEF Own, Good, Sound
  <2>6. Mild(m, w, A, d)
    BY <2>4, <2>5, MildAfter
  <2>7. QED
    BY <2>1, <2>2, <2>6
<1>2. CASE ~(IsCgi(m, c) /\ m[c].link # NoConn)
  <2>1. OnClose(m, c) = Unlink(m, c)
    BY <1>2 DEF OnClose
  <2>2. m[c].link # NoConn => IsHttp(m, c)
    BY <1>2 DEF IsCgi, IsHttp, Sound, ListenerPlain
  <2>3. m[c].link # NoConn => Own(m, m[c].link, c)
    BY <2>2 DEF Kinds, Own
  <2>4. Mild(m, Unlink(m, c), A, c)
    BY <2>3, UnlinkMild
  <2>5. QED
    BY <2>1, <2>4
<1>3. QED
  BY <1>1, <1>2

\* mg_handle_cgi: no flag changes, and c and d are linked.
Linked(m, k, A, c, d) ==
  /\ Raises(m, k, A, c)
  /\ \A e \in A \ {c} : k[e] = m[e]
  /\ ~k[c].held /\ k[c].link = d
  /\ k[d].listener = NoConn /\ k[d].link = c /\ ~k[d].held

\* mg_handle_cgi links what it starts.
LEMMA StartCgiLinks ==
  ASSUME NEW A \in SUBSET Conn, NEW m \in [Conn -> Block], NEW c \in A,
         NEW d \in Conn \ A, NEW f, NEW n, NEW k, k = StartCgi(m, c, d, f, n)
  PROVE  Linked(m, k, A, c, d)
<1> DEFINE b == [Blank EXCEPT !.sock = f, !.link = c, !.send = n]
           a == [m[c] EXCEPT !.link = d, !.held = FALSE]
<1>1. b.listener = NoConn /\ b.link = c /\ b.held = FALSE
  BY DEF Blank
<1>2. /\ a.listener = m[c].listener /\ a.flags = m[c].flags
      /\ a.link = d /\ a.held = FALSE
  BY DEF Block
<1>3. k = [m EXCEPT ![d] = b, ![c] = a]
  BY DEF StartCgi, Block
<1> HIDE DEF a, b
<1>4. k[d] = b /\ k[c] = a /\ \A e \in A \ {c} : k[e] = m[e]
  BY <1>3
<1>5. QED
  BY <1>1, <1>2, <1>4 DEF Linked, Raises

\* The link joins a client and a program.
LEMMA LinkedKinds ==
  ASSUME NEW A \in SUBSET Conn, NEW m, NEW k, NEW c \in A, NEW d \in Conn \ A,
         Sound(m, A), Kinds(m, A), IsHttp(m, c), m[c].link = NoConn,
         Linked(m, k, A, c, d)
  PROVE  Kinds(k, A \cup {d})
<1>1. \A e \in A : IsHttp(k, e) <=> IsHttp(m, e)
  BY DEF Linked, Raises, IsHttp
<1>2. ~IsHttp(k, d) /\ IsHttp(k, c)
  BY <1>1 DEF Linked, IsHttp
<1>3. ASSUME NEW e \in A \ {c}
      PROVE  /\ k[e].link # NoConn => (IsHttp(k, e) <=> ~IsHttp(k, k[e].link))
             /\ k[e].held => IsHttp(k, e)
  <2>1. k[e] = m[e] /\ (m[e].link # NoConn => m[e].link \in A)
    BY DEF Linked, Sound, LinksOf
  <2>2. QED
    BY <1>1, <2>1 DEF Kinds
<1>4. QED
  BY <1>2, <1>3 DEF Kinds, Linked

\* What a close leaves of the others, c's client or program among them.
Ended(c, h, new) ==
  /\ Blocks'
  /\ Active' = (Active \ {c}) \cup new
  /\ Mild(conn, conn', Active \ {c}, h)
  /\ IsHttp(conn, c) => h = c
  /\ \A b \in new : ~IsHttp(conn', b) /\ conn'[b].link = NoConn /\ ~conn'[b].held

\* mg_close_conn, in either form.
LEMMA CloseEnds ==
  ASSUME Blocks, Kinds(conn, Active), Listener \in Active,
         NEW c \in Active, c # Listener,
         CloseConn(WithFlag(conn, c, "CLOSE_IMMEDIATELY"), c)
  PROVE  \E h \in Active, new \in SUBSET (Conn \ Active) : Ended(c, h, new)
<1> DEFINE w == WithFlag(conn, c, "CLOSE_IMMEDIATELY")
           l == RemoveConn(list, c)
           e == OnClose(w, c)
<1>0. /\ Active \in SUBSET Conn /\ NoConn \notin Active /\ c \in Active \ {Listener}
      /\ conn \in [Conn -> Block]
  BY ActiveConn DEF Blocks, Sound
<1>1. Good(conn, w, Active) /\ Mild(conn, w, Active, c)
  BY <1>0, FlagGood, FlagMild DEF Blocks, Own
<1>2. Kinds(w, Active) /\ (IsHttp(w, c) <=> IsHttp(conn, c))
  <2> HIDE DEF w
  <2>1. QED
    BY <1>0, <1>1, KindsKept DEF Blocks, Mild, Raises, IsHttp
<1>3. \A h : (IsHttp(conn, c) => h = c) => Mild(conn, w, Active, h)
  BY <1>0, FlagMild DEF Own
<1> HIDE DEF w
<1>4. Good(w, e, Active) /\ e[c].link = NoConn /\ e \in [Conn -> Block]
  BY <1>0, <1>1, OnCloseGood DEF Good, Sound
<1>5. PICK h \in Active : Mild(w, e, Active, h) /\ (IsHttp(w, c) => h = c)
  BY <1>0, <1>1, <1>2, OnCloseMild DEF Good
<1> HIDE DEF e
<1>6. Mild(conn, e, Active, h) /\ (IsHttp(conn, c) => h = c)
  BY <1>2, <1>3, <1>5, MildAfter
<1>7. PICK new \in SUBSET (Conn \ Active) : Leaves(c, new)
  BY <1>0, OtherCloses
<1>8. SUFFICES ASSUME TRUE
               PROVE  /\ \A b \in Active \ {c} : conn'[b] = e[b]
                      /\ \A b \in new : conn'[b].link = NoConn /\ ~conn'[b].held
  <2>1. ASSUME /\ \A b \in Active \ {c} : conn'[b] = e[b]
               /\ \A b \in new : conn'[b].link = NoConn /\ ~conn'[b].held
        PROVE  Ended(c, h, new)
    <3>1. Mild(conn, conn', Active \ {c}, h)
      BY <1>6, <2>1 DEF Mild, Raises, Loosens
    <3>2. \A b \in new : ~IsHttp(conn', b)
      BY <1>7 DEF Leaves, IsHttp
    <3>3. QED
      BY <1>6, <1>7, <2>1, <3>1, <3>2 DEF Ended, Leaves
  <2>2. QED
    BY <2>1
<1>9. Distinct(l) /\ ToSet(l) = Active \ {c}
  BY Removed DEF Blocks, Active
<1> HIDE DEF l
<1>10. CASE list' = l /\ conn' = Destroy(e, c)
  <2>1. new = {}
    BY <1>7, <1>9, <1>10 DEF Leaves, Active
  <2>2. conn' = [e EXCEPT ![c] = Blank]
    BY <1>4, <1>10 DEF Destroy, Unlink
  <2>3. QED
    BY <1>0, <1>4, <2>1, <2>2
<1>11. ASSUME NEW d \in Conn \ Active, NEW f, NEW n,
              list' = AddConn(l, d), conn' = Destroy(StartCgi(e, c, d, f, n), c)
       PROVE  /\ \A b \in Active \ {c} : conn'[b] = e[b]
              /\ \A b \in new : conn'[b].link = NoConn /\ ~conn'[b].held
  <2> DEFINE s == StartCgi(e, c, d, f, n)
             u == WithFlag(s, d, "CLOSE_IMMEDIATELY")
             r == [e[c] EXCEPT !.link = d, !.held = FALSE]
             b0 == [Blank EXCEPT !.sock = f, !.link = c, !.send = n]
  <2>1. new = {d}
    <3>1. ToSet(AddConn(l, d)) = (Active \ {c}) \cup {d}
      BY <1>9, Added
    <3>2. Active' = (Active \ {c}) \cup {d}
      BY <1>11, <3>1 DEF Active
    <3>3. QED
      BY <1>0, <1>7, <1>11, <3>2 DEF Leaves
  <2>2. Linked(e, s, Active, c, d)
    BY <1>0, <1>4, <1>11, StartCgiLinks
  <2>3. DOMAIN s = Conn /\ DOMAIN s[d] = DOMAIN Blank
    <3>1. s = [e EXCEPT ![d] = b0, ![c] = r]
      BY <1>0, <1>4, <1>11 DEF StartCgi, Block
    <3> HIDE DEF r
    <3>2. s[d] = b0 /\ DOMAIN s = Conn
      BY <1>0, <1>4, <1>11, <3>1
    <3>3. QED
      BY <3>2
  <2> HIDE DEF s
  <2>4. conn' = Destroy(s, c)
    BY <1>11 DEF s
  <2>5. s[c].link = d /\ d # NoConn /\ ~s[d].held /\ d # c
    BY <1>0, <1>11, <2>2, Sizes DEF Linked
  <2>6. conn' = [[u EXCEPT ![d].link = NoConn, ![c].link = NoConn] EXCEPT ![c] = Blank]
    BY <2>4, <2>5 DEF Destroy, Unlink
  <2>7. u = [s EXCEPT ![d] =
             [s[d] EXCEPT !.flags = s[d].flags \cup {"CLOSE_IMMEDIATELY"}]]
    BY DEF WithFlag
  <2>8. /\ DOMAIN u = Conn /\ DOMAIN u[d] = DOMAIN Blank /\ u[d].held = s[d].held
        /\ \A b \in Conn \ {d} : u[b] = s[b]
    BY <1>11, <2>3, <2>7 DEF Blank
  <2> HIDE DEF u
  <2>9. /\ conn'[d].link = NoConn /\ conn'[d].held = u[d].held
        /\ \A b \in Active \ {c} : conn'[b] = u[b]
    BY <1>0, <1>11, <2>5, <2>6, <2>8 DEF Blank
  <2>10. \A b \in Active \ {c} : conn'[b] = e[b]
    BY <1>0, <1>11, <2>2, <2>8, <2>9 DEF Linked
  <2>11. QED
    BY <2>1, <2>5, <2>8, <2>9, <2>10
<1>12. QED
  BY <1>10, <1>11 DEF CloseConn, w, l, e

\* What ConnManager's constant and variables are here.
Client == Conn \ {Listener}
Statuses == [c \in Client |-> StatusOf(c)]
Listens == Listener \in Active
Phase == IF pc = "freed" THEN "freed" ELSE IF final THEN "freeing" ELSE "serving"

\* What the refinement needs beside IInv: the walk is the manager's end, and
\* has the listener still ahead of it.
Ending ==
  /\ final \in BOOLEAN
  /\ pc \in {"walk", "freed"} => final = TRUE
  /\ pc = "walk" /\ Listener \in Active => Listener \in Ahead(list, nc)

\* The invariant of the refinement.
RInv == IInv /\ Kinds(conn, Active) /\ Ending

\* It holds once mg_bind has returned.
LEMMA InitR == Init => RInv
<1> SUFFICES ASSUME Init PROVE RInv
  OBVIOUS
<1>1. IInv
  BY InitInv
<1>2. Active = {Listener} /\ conn[Listener].listener = NoConn
      /\ conn[Listener].link = NoConn /\ ~conn[Listener].held
  BY <1>1, Sizes DEF Init, Active, ToSet, IInv, Blocks, Sound, ListenerPlain
<1>3. QED
  BY <1>1, <1>2 DEF Init, RInv, Kinds, Ending

\* No client is there yet.
LEMMA InitImage == Init => Manager!Init
<1> SUFFICES ASSUME Init PROVE Manager!Init
  OBVIOUS
<1>1. Active = {Listener}
  BY Sizes DEF Init, Active, ToSet
<1>2. \A c \in Conn \ {Listener} : StatusOf(c) = "none"
  BY <1>1 DEF StatusOf
<1>3. QED
  BY <1>1, <1>2 DEF Init, Manager!Init

-----------------------------------------------------------------------------

\* A step the manager's promise does not see.
LEMMA NothingMoves ==
  ASSUME \A c \in Client : StatusOf(c)' = StatusOf(c), Listens' = Listens,
         Phase' = Phase
  PROVE  UNCHANGED Manager!vars
<1>1. Statuses' = Statuses
  BY DEF Statuses, Client
<1>2. QED
  BY <1>1 DEF Manager!vars, Statuses, Client, Listens, Phase

\* One that moves one client.
LEMMA OneMoves ==
  ASSUME NEW c \in Client, \A d \in Client \ {c} : StatusOf(d)' = StatusOf(d),
         Listens' = Listens, Phase' = Phase,
         \/ StatusOf(c)' = StatusOf(c)
         \/ StatusOf(c) = "open" /\ StatusOf(c)' = "ending"
         \/ StatusOf(c) \in {"open", "ending"} /\ StatusOf(c)' = "condemned"
         \/ StatusOf(c) = "none" /\ Listens /\ StatusOf(c)' = "open"
         \/ /\ StatusOf(c) # "none" /\ (StatusOf(c) # "open" \/ Phase = "freeing")
            /\ StatusOf(c)' = "none"
  PROVE  [Manager!Next]_(Manager!vars)
<1>1. Statuses' = [Statuses EXCEPT ![c] = StatusOf(c)']
  BY DEF Statuses, Client
<1>2. Statuses[c] = StatusOf(c)
  BY DEF Statuses, Client
<1>3. CASE StatusOf(c)' = StatusOf(c)
  BY <1>3, NothingMoves
<1>4. CASE StatusOf(c) = "open" /\ StatusOf(c)' = "ending"
  <2>1. Manager!End(c)
    BY <1>1, <1>2, <1>4
       DEF Manager!End, Manager!Become, Statuses, Client, Listens, Phase
  <2>2. QED
    BY <2>1 DEF Manager!Next, Client
<1>5. CASE StatusOf(c) \in {"open", "ending"} /\ StatusOf(c)' = "condemned"
  <2>1. Manager!Condemn(c)
    BY <1>1, <1>2, <1>5
       DEF Manager!Condemn, Manager!Become, Statuses, Client, Listens, Phase
  <2>2. QED
    BY <2>1 DEF Manager!Next, Client
<1>6. CASE StatusOf(c) = "none" /\ Listens /\ StatusOf(c)' = "open"
  <2>1. Manager!Accept(c)
    BY <1>1, <1>2, <1>6
       DEF Manager!Accept, Manager!Open, Manager!Become, Statuses, Client, Listens,
           Phase
  <2>2. QED
    BY <2>1 DEF Manager!Next, Client
<1>7. CASE /\ StatusOf(c) # "none" /\ (StatusOf(c) # "open" \/ Phase = "freeing")
           /\ StatusOf(c)' = "none"
  <2>1. Manager!HangUp(c)
    BY <1>1, <1>2, <1>7
       DEF Manager!HangUp, Manager!Open, Manager!Become, Statuses, Client, Listens,
           Phase
  <2>2. QED
    BY <2>1 DEF Manager!Next, Client
<1>8. QED
  BY <1>3, <1>4, <1>5, <1>6, <1>7

\* Flags are raised, of no client but h, and newcomers are programs.
LEMMA RaisesMoves ==
  ASSUME Active \subseteq Active', Listens' = Listens, Phase' = Phase,
         NEW h, Raises(conn, conn', Active, h),
         \A d \in Active' \ Active : ~IsHttp(conn', d)
  PROVE  [Manager!Next]_(Manager!vars)
<1>1. ASSUME NEW d, d # h PROVE StatusOf(d)' = StatusOf(d)
  <2>1. CASE d \in Active
    BY <1>1, <2>1 DEF Raises, StatusOf, IsHttp, Closing
  <2>2. CASE d \notin Active
    BY <2>2 DEF StatusOf
  <2>3. QED
    BY <2>1, <2>2
<1>2. CASE h \in Client /\ h \in Active
  <2>1. /\ IsHttp(conn', h) <=> IsHttp(conn, h)
        /\ conn[h].flags \subseteq conn'[h].flags /\ h \in Active'
    BY <1>2 DEF Raises, IsHttp
  <2>2. \/ StatusOf(h)' = StatusOf(h)
        \/ StatusOf(h) = "open" /\ StatusOf(h)' = "ending"
        \/ StatusOf(h) \in {"open", "ending"} /\ StatusOf(h)' = "condemned"
    BY <1>2, <2>1 DEF StatusOf, Closing
  <2>3. QED
    BY <1>1, <1>2, <2>2, OneMoves
<1>3. CASE ~(h \in Client /\ h \in Active)
  <2>1. \A d \in Client : StatusOf(d)' = StatusOf(d)
    <3>1. h \in Client => StatusOf(h)' = StatusOf(h)
      BY <1>3 DEF StatusOf
    <3>2. QED
      BY <1>1, <3>1
  <2>2. QED
    BY <2>1, NothingMoves
<1>4. QED
  BY <1>2, <1>3

\* A step keeps the invariant, and is one of the promise or none.
Moves == RInv' /\ [Manager!Next]_(Manager!vars)

\* A step that leaves the list alone.
LEMMA EventMoves ==
  ASSUME RInv, IInv', Ending', Phase' = Phase, list' = list,
         NEW h, Mild(conn, conn', Active, h)
  PROVE  Moves
<1>1. Active' = Active /\ Listens' = Listens
  BY DEF Active, Listens
<1>2. Kinds(conn', Active')
  BY <1>1, KindsKept DEF RInv, IInv, Blocks
<1>3. [Manager!Next]_(Manager!vars)
  BY <1>1, RaisesMoves DEF Mild
<1>4. QED
  BY <1>2, <1>3 DEF Moves, RInv

\* The second loop goes on, or the poll is over.
LEMMA GoOnEnding ==
  ASSUME IInv', final \in BOOLEAN, final' = final, pc # "freed", NEW n, GoOn(n, list')
  PROVE  Ending' /\ Phase' = Phase
<1>1. First(list') \in Active' \cup {NoConn} /\ Ahead(list', First(list')) = Active'
  <2>1. Distinct(list')
    BY DEF IInv, Blocks
  <2>2. QED
    BY <2>1, Headed DEF Active
<1>2. QED
  BY <1>1 DEF GoOn, Ending, Phase

\* What clients and programs do is not seen.
LEMMA PeerMoves == ASSUME RInv, PeerStep \/ UNCHANGED vars PROVE Moves
<1>1. UNCHANGED <<list, conn, opened, seen, tryDup, pc, nc, tmp, final>>
  BY DEF PeerStep, ClientConnects, PeerSends, PeerShuts, PeerResets, Outside,
         setVars, vars, kernelVars
<1>2. IInv'
  BY <1>1 DEF RInv, IInv, Blocks, Cursor, Present, Walked, Gathered, Tried, Active,
              Here
<1>3. Ending' /\ Phase' = Phase
  BY <1>1 DEF RInv, Ending, Phase, Active
<1>4. Mild(conn, conn', Active, NoConn)
  BY <1>1, MildStays
<1>5. QED
  BY <1>1, <1>2, <1>3, <1>4, EventMoves

\* A poll begins, or mg_mgr_free is called.
LEMMA StartPollMoves == ASSUME RInv, StartPoll PROVE Moves
<1>1. /\ pc = "idle" /\ ~final /\ pc' = "build" /\ final' \in BOOLEAN
      /\ UNCHANGED <<list, conn>>
  BY DEF StartPoll
<1>2. IInv' /\ Ending'
  BY <1>1, StartPollInv DEF RInv, Ending
<1>3. Active' = Active /\ Listens' = Listens
  BY <1>1 DEF Active, Listens
<1>4. Kinds(conn', Active')
  BY <1>1, <1>3 DEF RInv
<1>5. \A c \in Client : StatusOf(c)' = StatusOf(c)
  BY <1>1, <1>3 DEF StatusOf, Closing
<1>6. [Manager!Next]_(Manager!vars)
  <2>1. CASE Phase' = Phase
    BY <1>3, <1>5, <2>1, NothingMoves
  <2>2. CASE Phase' # Phase
    <3>1. Phase = "serving" /\ Phase' = "freeing"
      BY <1>1, <2>2 DEF Phase
    <3>2. Statuses' = Statuses
      BY <1>5 DEF Statuses, Client
    <3>3. Manager!Free
      BY <1>3, <3>1, <3>2
         DEF Manager!Free, Statuses, Client, Listens, Phase
    <3>4. QED
      BY <3>3 DEF Manager!Next
  <2>3. QED
    BY <2>1, <2>2
<1>7. QED
  BY <1>2, <1>4, <1>6 DEF Moves, RInv

\* Steps of the loops that no handler sees.
LEMMA QuietMoves ==
  ASSUME RInv,
         Select \/ PassRecv \/ StartRecv \/ RecvPart \/ AskAgain \/ PassSend
  PROVE  Moves
<1>1. IInv'
  BY SelectInv, PassRecvInv, StartRecvInv, RecvPartInv, PassSendInv DEF RInv
<1>2. UNCHANGED <<list, conn, final>>
  BY DEF Select, PassRecv, StartRecv, RecvPart, AskAgain, PassSend, restVars
<1>3. Ending' /\ Phase' = Phase
  <2>1. CASE PassSend
    <3>1. pc = "send" /\ GoOn(tmp, list')
      BY <1>2, <2>1 DEF PassSend
    <3>2. QED
      BY <1>1, <1>2, <3>1, GoOnEnding DEF RInv, Ending
  <2>2. CASE Select \/ PassRecv \/ StartRecv \/ RecvPart \/ AskAgain
    BY <1>2, <2>2
       DEF Select, PassRecv, StartRecv, RecvPart, AskAgain, RInv, Ending, Phase
  <2>3. QED
    BY <2>1, <2>2
<1>4. Mild(conn, conn', Active, NoConn)
  BY <1>2, MildStays
<1>5. QED
  BY <1>1, <1>2, <1>3, <1>4, EventMoves

\* The first loop passes one connection.
LEMMA BuildMoves == ASSUME RInv, Build PROVE Moves
<1>1. IInv' /\ pc = "build" /\ pc' = "build" /\ UNCHANGED <<list, final>>
  BY BuildInv DEF RInv, Build, restVars
<1>2. PICK s : conn' = [conn EXCEPT ![nc].sock = s]
  BY DEF Build
<1>3. conn \in [Conn -> Block] /\ Active \in SUBSET Conn
  BY Actives DEF RInv, IInv, Blocks, Sound
<1>4. \A d \in Conn : /\ conn'[d].listener = conn[d].listener
                      /\ conn'[d].flags = conn[d].flags
                      /\ conn'[d].link = conn[d].link /\ conn'[d].held = conn[d].held
  BY <1>2, <1>3 DEF Block
<1>5. Mild(conn, conn', Active, NoConn)
  BY <1>3, <1>4 DEF Mild, Raises, Loosens
<1>6. Ending' /\ Phase' = Phase
  BY <1>1 DEF RInv, Ending, Phase
<1>7. QED
  BY <1>1, <1>5, <1>6, EventMoves

\* MG_EV_POLL, MG_EV_RECV and MG_EV_SEND.
LEMMA HandlerMoves ==
  ASSUME RInv, PollConn \/ RecvUnit \/ RecvEnds PROVE Moves
<1>1. IInv'
  BY PollConnInv, RecvUnitInv, RecvEndsInv DEF RInv
<1>2. /\ UNCHANGED <<list, final>> /\ pc \in {"poll", "drain"}
      /\ pc' \in {"recv", "send", "drain"}
  BY DEF PollConn, RecvUnit, RecvEnds, AfterEmpty, restVars
<1>3. Ending' /\ Phase' = Phase
  BY <1>2 DEF RInv, Ending, Phase
<1>4. /\ nc \in Active /\ (pc = "drain" => nc # Listener) /\ Active \in SUBSET Conn
      /\ Sound(conn, Active) /\ Filled(conn, Active) /\ conn \in [Conn -> Block]
      /\ Kinds(conn, Active)
  BY <1>2, Actives DEF RInv, IInv, Cursor, Blocks, Sound
<1>5. \E h : Mild(conn, conn', Active, h)
  <2>1. CASE PollConn
    BY <1>4, <2>1, OnPollMild DEF PollConn
  <2>2. CASE RecvUnit
    BY <1>4, <2>2, OnRecvMild DEF RecvUnit
  <2>3. CASE RecvEnds
    BY <1>4, <2>3, FlagMild, MildStays DEF RecvEnds, Own
  <2>4. QED
    BY <2>1, <2>2, <2>3
<1>6. QED
  BY <1>1, <1>2, <1>3, <1>5, EventMoves

\* send() takes some, and the handler fills the buffer again.
LEMMA SendMoves == ASSUME RInv, Send PROVE Moves
<1>1. IInv' /\ UNCHANGED <<list, final>> /\ pc = "send" /\ GoOn(tmp, list')
  BY SendInv DEF RInv, Send, restVars
<1>2. Ending' /\ Phase' = Phase
  BY <1>1, GoOnEnding DEF RInv, Ending
<1>3. /\ nc \in Active /\ Active \in SUBSET Conn /\ conn \in [Conn -> Block]
      /\ Sound(conn, Active) /\ Filled(conn, Active) /\ nc # Listener
  BY <1>1, Actives DEF RInv, IInv, Cursor, Blocks, Sound, ListenerPlain, Send, MaySend
<1>4. Mild(conn, conn', Active, nc)
  <2>1. CASE conn' \in OnPoll(WithFlag(conn, nc, "CLOSE_IMMEDIATELY"), nc)
    <3> DEFINE m == WithFlag(conn, nc, "CLOSE_IMMEDIATELY")
    <3>1. Mild(conn, m, Active, nc) /\ m \in [Conn -> Block]
      BY <1>3, FlagMild, FlagGood DEF Own, Good, Sound
    <3> HIDE DEF m
    <3>2. conn' \in OnPoll(m, nc)
      BY <2>1 DEF m
    <3>3. Mild(m, conn', Active, nc)
      BY <1>3, <3>1, <3>2, OnPollMild
    <3>4. QED
      BY <3>1, <3>3, MildAfter
  <2>2. ASSUME NEW n \in 1 .. conn[nc].send,
               conn' \in OnPoll([conn EXCEPT ![nc].send = @ - n], nc)
        PROVE  Mild(conn, conn', Active, nc)
    <3> DEFINE s == conn[nc].send - n
               m == [conn EXCEPT ![nc].send = s]
    <3>1. nc \in Conn /\ conn[nc].send \in 0 .. MaxSend
      BY <1>3 DEF Block
    <3>2. s \in 0 .. MaxSend
      BY <3>1, Sizes
    <3>3. conn' \in OnPoll(m, nc)
      BY <2>2
    <3> HIDE DEF s
    <3>4. m \in [Conn -> Block]
      BY <1>3, <3>1, <3>2 DEF Block
    <3>5. \A d \in Conn : /\ m[d].listener = conn[d].listener
                          /\ m[d].flags = conn[d].flags
                          /\ m[d].link = conn[d].link /\ m[d].held = conn[d].held
      BY <1>3, <3>1 DEF Block
    <3> HIDE DEF m
    <3>6. Mild(conn, m, Active, nc)
      BY <1>3, <3>5 DEF Mild, Raises, Loosens
    <3>7. Mild(m, conn', Active, nc)
      BY <1>3, <3>3, <3>4, OnPollMild
    <3>8. QED
      BY <3>6, <3>7, MildAfter
  <2>3. QED
    BY <2>1, <2>2 DEF Send, OnSend
<1>5. QED
  BY <1>1, <1>2, <1>4, EventMoves

\* A client comes.
LEMMA AcceptMoves == ASSUME RInv, Accept PROVE Moves
<1>1. /\ IInv' /\ pc = "recv" /\ pc' = "send" /\ final' = final
      /\ Listening(nc)
  BY AcceptInv DEF RInv, Accept
<1>2. Ending' /\ Phase' = Phase
  BY <1>1 DEF RInv, Ending, Phase
<1>3. /\ nc \in Active /\ Listener \in Active /\ Active \in SUBSET Conn
      /\ conn \in [Conn -> Block] /\ Blocks /\ Kinds(conn, Active)
  BY <1>1, Actives DEF RInv, IInv, Cursor, Present, Blocks, Sound
<1>4. nc = Listener
  BY <1>1, <1>3 DEF Blocks, Sound, ListenerPlain, Listening
<1>5. CASE UNCHANGED <<list, conn>>
  BY <1>1, <1>2, <1>5, MildStays, EventMoves
<1>6. CASE ~UNCHANGED <<list, conn>>
  <2> DEFINE f == Low(Fd \ opened)
             b == [Blank EXCEPT !.sock = f, !.listener = nc]
  <2>1. PICK d \in Conn \ Active :
          list' = AddConn(list, d) /\ conn' = [conn EXCEPT ![d] = b]
    BY <1>6 DEF Accept
  <2>2. b.listener = Listener /\ b.flags = {} /\ b.link = NoConn /\ b.held = FALSE
    BY <1>4 DEF Blank
  <2> HIDE DEF b
  <2>3. conn'[d] = b /\ \A e \in Active : conn'[e] = conn[e]
    BY <1>3, <2>1
  <2>4. Active' = Active \cup {d}
    <3>1. ToSet(AddConn(list, d)) = ToSet(list) \cup {d}
      BY <1>3, <2>1, Added DEF Blocks, Active
    <3>2. QED
      BY <2>1, <3>1 DEF Active
  <2>5. Kinds(conn', Active')
    <3>1. \A e \in Active : conn[e].link # NoConn => conn[e].link \in Active
      BY <1>3 DEF Blocks, Sound, LinksOf
    <3>2. \A e \in Active : IsHttp(conn', e) <=> IsHttp(conn, e)
      BY <2>3 DEF IsHttp
    <3>3. IsHttp(conn', d)
      BY <2>2, <2>3, Sizes DEF IsHttp
    <3>4. QED
      BY <1>3, <2>2, <2>3, <2>4, <3>1, <3>2, <3>3 DEF Kinds
  <2>6. Listens' = Listens /\ d \in Client /\ Listens
    BY <1>3, <2>1, <2>4 DEF Listens, Client
  <2>7. \A e \in Client \ {d} : StatusOf(e)' = StatusOf(e)
    BY <2>3, <2>4 DEF StatusOf, IsHttp, Closing
  <2>8. StatusOf(d) = "none" /\ StatusOf(d)' = "open"
    <3>1. IsHttp(conn', d)
      BY <2>2, <2>3, Sizes DEF IsHttp
    <3>2. QED
      BY <2>1, <2>2, <2>3, <2>4, <3>1 DEF StatusOf, Closing
  <2>9. [Manager!Next]_(Manager!vars)
    BY <1>2, <2>6, <2>7, <2>8, OneMoves
  <2>10. QED
    BY <1>1, <1>2, <2>5, <2>9 DEF Moves, RInv
<1>7. QED
  BY <1>5, <1>6

\* A program starts.
LEMMA RecvStartsCgiMoves == ASSUME RInv, RecvStartsCgi PROVE Moves
<1>1. /\ IInv' /\ pc = "drain" /\ pc' \in {"drain", "send"} /\ final' = final
      /\ IsHttp(conn, nc)
  BY RecvStartsCgiInv DEF RInv, RecvStartsCgi, restVars
<1>2. Ending' /\ Phase' = Phase
  BY <1>1 DEF RInv, Ending, Phase
<1>3. /\ nc \in Active \ {Listener} /\ Listener \in Active /\ Active \in SUBSET Conn
      /\ Sound(conn, Active) /\ Filled(conn, Active) /\ conn \in [Conn -> Block]
      /\ Kinds(conn, Active) /\ Blocks
  BY <1>1, DrainAt DEF RInv, Sound
<1>4. PICK k \in TransferFile(conn, nc) :
        \/ /\ PairPossible(opened)
           /\ \E d \in Conn \ Active, n \in 0 .. 1 :
                /\ list' = AddConn(list, d)
                /\ conn' = StartCgi(NewProtoData(k, nc), nc, d, PairFd(opened), n)
        \/ /\ conn' = WithFlag(NewProtoData(k, nc), nc, "CLOSE_IMMEDIATELY")
           /\ list' = list
  BY DEF RecvStartsCgi
<1> DEFINE p == NewProtoData(k, nc)
<1>5. /\ Mild(conn, p, Active, nc) /\ p[nc].link = NoConn /\ p \in [Conn -> Block]
      /\ Sound(p, Active)
  <2>1. \A d \in Active \ {nc} : Full(conn[d])
    BY <1>3 DEF Filled
  <2>2. Good(conn, k, Active)
    BY <1>1, <1>3, <2>1, TransferGood
  <2>3. Mild(conn, k, Active, nc)
    BY <1>3, TransferMild
  <2>4. IsHttp(k, nc) /\ Kinds(k, Active)
    BY <1>1, <1>3, <2>3, KindsKept DEF Mild, Raises, IsHttp
  <2>5. Good(k, p, Active) /\ p[nc].link = NoConn /\ Mild(k, p, Active, nc)
    BY <1>3, <2>2, <2>4, NewProtoDataGood, NewProtoDataMild DEF Good
  <2> HIDE DEF p
  <2>6. Mild(conn, p, Active, nc)
    BY <2>3, <2>5, MildAfter
  <2>7. QED
    BY <2>5, <2>6 DEF Good, Sound
<1> HIDE DEF p
<1>6. IsHttp(p, nc) /\ Kinds(p, Active)
  BY <1>1, <1>3, <1>5, KindsKept DEF Mild, Raises, IsHttp
<1>7. CASE conn' = WithFlag(p, nc, "CLOSE_IMMEDIATELY") /\ list' = list
  <2>1. Mild(p, conn', Active, nc)
    BY <1>3, <1>5, <1>7, FlagMild DEF Own
  <2>2. Mild(conn, conn', Active, nc)
    BY <1>5, <2>1, MildAfter
  <2>3. QED
    BY <1>1, <1>2, <1>7, <2>2, EventMoves
<1>8. ASSUME NEW d \in Conn \ Active, NEW f, NEW n,
             list' = AddConn(list, d), conn' = StartCgi(p, nc, d, f, n)
      PROVE  Moves
  <2>1. Linked(p, conn', Active, nc, d)
    BY <1>3, <1>5, <1>8, StartCgiLinks
  <2>2. Active' = Active \cup {d}
    <3>1. ToSet(AddConn(list, d)) = ToSet(list) \cup {d}
      BY <1>3, <1>8, Added DEF Blocks, Active
    <3>2. QED
      BY <1>8, <3>1 DEF Active
  <2>3. Kinds(conn', Active')
    BY <1>3, <1>5, <1>6, <1>8, <2>1, <2>2, LinkedKinds
  <2>4. Raises(conn, conn', Active, nc)
    BY <1>5, <2>1 DEF Linked, Mild, Raises, IsHttp
  <2>5. ~IsHttp(conn', d)
    BY <2>1 DEF Linked, IsHttp
  <2>6. Listens' = Listens
    BY <1>3, <2>2 DEF Listens
  <2>7. [Manager!Next]_(Manager!vars)
    BY <1>2, <2>2, <2>4, <2>5, <2>6, RaisesMoves
  <2>8. QED
    BY <1>1, <1>2, <2>3, <2>7 DEF Moves, RInv
<1>9. QED
  BY <1>4, <1>7, <1>8 DEF p

\* A connection other than the listener closes, where it may.
LEMMA CloseMoves ==
  ASSUME RInv, IInv', Ending', Phase' = Phase, Listener \in Active,
         NEW c \in Active, c # Listener,
         CloseConn(WithFlag(conn, c, "CLOSE_IMMEDIATELY"), c),
         Due(conn, c) \/ Phase = "freeing"
  PROVE  Moves
<1>1. PICK h \in Active, new \in SUBSET (Conn \ Active) : Ended(c, h, new)
  BY CloseEnds DEF RInv, IInv
<1>2. Sound(conn, Active) /\ Sound(conn', Active') /\ Active \in SUBSET Conn
      /\ Kinds(conn, Active)
  BY <1>1, Actives DEF RInv, IInv, Blocks, Ended
<1>3. Active' = (Active \ {c}) \cup new /\ Listens' = Listens
  BY <1>1 DEF Ended, Listens
<1>4. \A b \in Active \ {c} : IsHttp(conn', b) <=> IsHttp(conn, b)
  BY <1>1 DEF Ended, Mild, Raises, IsHttp
<1>5. Kinds(conn', Active')
  <2>1. ASSUME NEW b \in Active \ {c}
        PROVE  /\ conn'[b].link # NoConn
                 => (IsHttp(conn', b) <=> ~IsHttp(conn', conn'[b].link))
               /\ conn'[b].held => IsHttp(conn', b)
    <3>1. conn'[b].held => IsHttp(conn', b)
      BY <1>1, <1>2, <1>4, <2>1 DEF Ended, Mild, Loosens, Kinds
    <3>2. ASSUME conn'[b].link # NoConn
          PROVE  IsHttp(conn', b) <=> ~IsHttp(conn', conn'[b].link)
      <4>1. conn'[b].link = conn[b].link
        BY <1>1, <2>1, <3>2 DEF Ended, Mild, Loosens
      <4>2. conn[b].link \in Active /\ conn'[b].link \in Active'
        BY <1>2, <1>3, <2>1, <3>2, <4>1 DEF Sound, LinksOf
      <4>3. conn[b].link \in Active \ {c}
        BY <1>3, <4>1, <4>2
      <4>4. QED
        BY <1>2, <1>4, <2>1, <3>2, <4>1, <4>3 DEF Kinds
    <3>3. QED
      BY <3>1, <3>2
  <2>2. QED
    BY <1>1, <1>3, <2>1 DEF Kinds, Ended
<1>6. [Manager!Next]_(Manager!vars)
  <2>1. ASSUME NEW d, d # h, d # c PROVE StatusOf(d)' = StatusOf(d)
    <3>1. CASE d \in Active
      BY <1>1, <1>3, <2>1, <3>1 DEF Ended, Mild, Raises, StatusOf, IsHttp, Closing
    <3>2. CASE d \notin Active
      BY <1>1, <1>3, <3>2 DEF StatusOf, Ended
    <3>3. QED
      BY <3>1, <3>2
  <2>2. StatusOf(c)' = "none"
    BY <1>1, <1>3 DEF StatusOf, Ended
  <2>3. CASE IsHttp(conn, c)
    <3>1. h = c /\ c \in Client
      BY <1>1, <1>2, <2>3 DEF Ended, Client
    <3>2. StatusOf(c) # "none" /\ (StatusOf(c) # "open" \/ Phase = "freeing")
      BY <2>3 DEF StatusOf, Due, Closing
    <3>3. QED
      BY <1>3, <2>1, <2>2, <3>1, <3>2, OneMoves
  <2>4. CASE ~IsHttp(conn, c)
    <3>1. StatusOf(c)' = StatusOf(c)
      BY <2>2, <2>4 DEF StatusOf
    <3>2. CASE h \in Client /\ h # c
      <4>1. /\ h \in Active' /\ (IsHttp(conn', h) <=> IsHttp(conn, h))
            /\ conn[h].flags \subseteq conn'[h].flags
        BY <1>1, <1>3, <1>4, <3>2 DEF Ended, Mild, Raises
      <4>2. \/ StatusOf(h)' = StatusOf(h)
            \/ StatusOf(h) = "open" /\ StatusOf(h)' = "ending"
            \/ StatusOf(h) \in {"open", "ending"} /\ StatusOf(h)' = "condemned"
        BY <1>1, <4>1 DEF StatusOf, Closing
      <4>3. QED
        BY <1>3, <2>1, <3>1, <3>2, <4>2, OneMoves
    <3>3. CASE ~(h \in Client /\ h # c)
      <4>1. \A d \in Client : StatusOf(d)' = StatusOf(d)
        BY <2>1, <3>1, <3>3
      <4>2. QED
        BY <1>3, <4>1, NothingMoves
    <3>4. QED
      BY <3>2, <3>3
  <2>5. QED
    BY <2>3, <2>4
<1>7. QED
  BY <1>5, <1>6 DEF Moves, RInv

\* A due connection closes.
LEMMA PollClosesMoves == ASSUME RInv, PollCloses PROVE Moves
<1>1. /\ IInv' /\ pc = "poll" /\ Due(conn, nc) /\ final' = final
      /\ CloseConn(WithFlag(conn, nc, "CLOSE_IMMEDIATELY"), nc)
      /\ GoOn(tmp', list')
  BY PollClosesInv DEF RInv, PollCloses, restVars
<1>2. nc \in Active /\ Listener \in Active
  BY <1>1 DEF RInv, IInv, Cursor, Present
<1>3. nc # Listener
  BY <1>1, <1>2 DEF Due, RInv, IInv, Blocks, Sound, ListenerPlain
<1> DEFINE n == tmp'
<1> HIDE DEF n
<1>4. GoOn(n, list')
  BY <1>1 DEF n
<1>5. Ending' /\ Phase' = Phase
  BY <1>1, <1>4, GoOnEnding DEF RInv, Ending
<1>6. QED
  BY <1>1, <1>2, <1>3, <1>5, CloseMoves

\* The listener closes, and nothing else changes.
LEMMA ListenerLeaves ==
  ASSUME Blocks, Listener \in Active,
         CloseConn(WithFlag(conn, Listener, "CLOSE_IMMEDIATELY"), Listener),
         NEW b \in Active \ {Listener}
  PROVE  conn'[b] = conn[b]
<1> DEFINE w == WithFlag(conn, Listener, "CLOSE_IMMEDIATELY")
<1>1. conn \in [Conn -> Block] /\ Listener \in Conn /\ b \in Conn \ {Listener}
  BY Sizes, ActiveConn DEF Blocks, Sound
<1>2. /\ w \in [Conn -> Block] /\ w[Listener].link = NoConn
      /\ w[Listener].held = FALSE /\ "LISTENING" \in w[Listener].flags
      /\ w[b] = conn[b]
  BY <1>1 DEF WithFlag, Block, Flag, Blocks, Sound, ListenerPlain
<1> HIDE DEF w
<1>3. OnClose(w, Listener) = w /\ Destroy(w, Listener) = [w EXCEPT ![Listener] = Blank]
  BY <1>2 DEF OnClose, IsCgi, Unlink, Destroy
<1>4. conn' = [w EXCEPT ![Listener] = Blank]
  BY <1>2, <1>3 DEF CloseConn, w
<1>5. QED
  BY <1>1, <1>2, <1>4

\* The walk of mg_mgr_free closes one, the listener last.
LEMMA FreeConnMoves == ASSUME RInv, FreeConn PROVE Moves
<1>1. /\ IInv' /\ pc = "walk" /\ pc' = "walk" /\ final' = final
      /\ nc # NoConn /\ nc' = Following(nc)
      /\ CloseConn(WithFlag(conn, nc, "CLOSE_IMMEDIATELY"), nc)
  BY FreeConnInv DEF RInv, FreeConn, restVars
<1>2. /\ nc \in Active /\ Listener \in Active /\ Active \in SUBSET Conn
      /\ Blocks /\ NoConn \notin Conn /\ final = TRUE
      /\ Listener \in Ahead(list, nc)
  BY <1>1, Actives, Sizes DEF RInv, IInv, Cursor, Present, Ending
<1>3. Phase = "freeing" /\ Phase' = Phase
  BY <1>1, <1>2 DEF Phase
<1> DEFINE n == Following(nc)
<1>4. n \in Active \cup {NoConn} /\ n # nc /\ Ahead(list, n) = Ahead(list, nc) \ {nc}
  BY <1>2, Followed DEF Blocks
<1>5. nc' = n
  BY <1>1
<1> HIDE DEF n
<1>6. CASE nc # Listener
  <2>1. PICK new \in SUBSET (Conn \ Active) : Leaves(nc, new)
    BY <1>1, <1>2, <1>6, OtherCloses
  <2>2. n \notin new \cup {nc}
    BY <1>2, <1>4, <2>1
  <2>3. Listener \in Ahead(list', n)
    BY <1>2, <1>4, <1>6, <2>1, <2>2 DEF Leaves
  <2>4. Ending'
    BY <1>1, <1>2, <1>5, <2>3 DEF Ending
  <2>5. QED
    BY <1>1, <1>2, <1>3, <1>6, <2>4, CloseMoves
<1>7. CASE nc = Listener
  <2>1. Leaves(Listener, {})
    BY <1>1, <1>2, <1>7, ListenerCloses
  <2>2. Active' = Active \ {Listener} /\ IInv
        /\ \A b \in Active \ {Listener} : conn'[b].listener = conn[b].listener
    BY <2>1 DEF Leaves, RInv
  <2>3. n = NoConn
    <3>1. Listener \notin Ahead(list, n)
      BY <1>4, <1>7
    <3>2. \A c \in Active : Listener \in Ahead(list, c)
      BY <1>2 DEF Blocks, Ordered, Active
    <3>3. QED
      BY <1>4, <3>1, <3>2
  <2>4. Ahead(list, nc) = {nc}
    BY <1>2, <1>4, <1>7, <2>2, <2>3, Actives
  <2>5. \A c \in Active : conn[c].listener = NoConn
    <3>1. conn[Listener].listener = NoConn
      BY <1>2 DEF Blocks, Sound, ListenerPlain
    <3>2. \A c \in Active \ {nc} : conn[c].listener = NoConn
      BY <1>1, <2>2, <2>4 DEF IInv, Walked
    <3>3. QED
      BY <1>7, <3>1, <3>2
  <2>6. \A c \in Client : StatusOf(c) = "none" /\ StatusOf(c)' = "none"
    BY <2>2, <2>5 DEF StatusOf, IsHttp
  <2>7. Statuses' = Statuses /\ \A c \in Client : Statuses[c] = "none"
    BY <2>6 DEF Statuses
  <2>8. Manager!StopListening
    BY <1>2, <1>3, <2>2, <2>7
       DEF Manager!StopListening, Manager!Open, Statuses, Client, Listens, Phase
  <2>9. Ending'
    BY <1>1, <1>2, <2>2 DEF Ending
  <2>10. Kinds(conn', Active')
    <3>1. ASSUME NEW b \in Active' PROVE conn'[b].link = NoConn /\ ~conn'[b].held
      <4>1. CloseConn(WithFlag(conn, Listener, "CLOSE_IMMEDIATELY"), Listener)
        BY <1>1, <1>7
      <4>2. conn'[b] = conn[b]
        BY <1>2, <2>2, <3>1, <4>1, ListenerLeaves
      <4>3. b \in Active \ {Listener} /\ conn[b].link # Listener
        BY <1>2, <2>2, <3>1, Sizes DEF Blocks, Sound, LinksOf, ListenerPlain
      <4>4. ~IsHttp(conn, b) /\ (conn[b].link # NoConn => ~IsHttp(conn, conn[b].link))
        BY <2>5, <4>3, <1>2 DEF IsHttp, Blocks, Sound, LinksOf
      <4>5. QED
        BY <4>2, <4>3, <4>4 DEF RInv, Kinds
    <3>2. QED
      BY <3>1 DEF Kinds
  <2>11. QED
    BY <1>1, <2>8, <2>9, <2>10 DEF Moves, RInv, Manager!Next
<1>8. QED
  BY <1>6, <1>7

\* It is through.
LEMMA FreeDoneMoves == ASSUME RInv, FreeDone PROVE Moves
<1>1. /\ IInv' /\ pc = "walk" /\ nc = NoConn /\ pc' = "freed"
      /\ UNCHANGED <<list, conn, final, nc>>
  BY FreeDoneInv DEF RInv, FreeDone, restVars
<1>2. Active' = Active /\ Ahead(list, NoConn) = {} /\ final = TRUE
  BY <1>1, Actives DEF RInv, IInv, Active, Ending
<1>3. ~Listens /\ ~Listens'
  BY <1>1, <1>2 DEF RInv, Ending, Listens
<1>4. \A c \in Client : StatusOf(c)' = StatusOf(c)
  BY <1>1, <1>2 DEF StatusOf, Closing
<1>5. Statuses' = Statuses
  BY <1>4 DEF Statuses, Client
<1>6. Phase = "freeing" /\ Phase' = "freed"
  BY <1>1, <1>2 DEF Phase
<1>7. Manager!Freed
  BY <1>3, <1>5, <1>6 DEF Manager!Freed, Statuses, Client, Listens, Phase
<1>8. Ending' /\ Kinds(conn', Active')
  BY <1>1, <1>2 DEF RInv, Ending
<1>9. QED
  BY <1>1, <1>7, <1>8 DEF Moves, RInv, Manager!Next

\* So does every step.
LEMMA NextMoves == RInv /\ [Next]_vars => Moves
<1> SUFFICES ASSUME RInv, [Next]_vars PROVE Moves
  OBVIOUS
<1>1. CASE PeerStep \/ UNCHANGED vars
  BY <1>1, PeerMoves
<1>2. CASE ThreadStep
  BY <1>2, StartPollMoves, QuietMoves, BuildMoves, HandlerMoves, SendMoves,
     AcceptMoves, RecvStartsCgiMoves, PollClosesMoves, FreeConnMoves, FreeDoneMoves
     DEF ThreadStep
<1>3. QED
  BY <1>1, <1>2 DEF Next

\* The safety half of the refinement: whatever happens inside the polls, no
\* client is dropped unasked, and freeing ends the clients before their
\* listener.
THEOREM Implements == SafeSpec => Manager!SafeSpec
<1>1. Init => RInv /\ Manager!Init
  BY InitR, InitImage
<1>2. RInv /\ [Next]_vars => RInv' /\ [Manager!Next]_(Manager!vars)
  BY NextMoves DEF Moves
<1>3. QED
  BY <1>1, <1>2, PTL DEF SafeSpec, Manager!SafeSpec
==============================================================================
