------------------------- MODULE CgiProcesses_proofs -------------------------
(***************************************************************************)
(* Proofs about CgiProcesses, for any number of servers and clients.       *)
(***************************************************************************)
EXTENDS CgiProcesses, TLAPS

Kind == {"client", "door", "near", "far"}

(***************************************************************************)
(* The inductive invariant.  A descriptor lacks the flag only in the       *)
(* middle of a call, or when dup() took it away; a thread is in the middle *)
(* of one call, so none of its own is without when it forks.  The          *)
(* program's end of the pair is there when it forks, and the program keeps *)
(* it, so it is not seen to be gone before the program is.                 *)
(***************************************************************************)

\* The places of a thread at which the socket is not flagged yet.
Window == [client |-> {"accepted"},
           door |-> {"door", "near", "far", "half", "paired"},
           near |-> {"near", "far"},
           far |-> {"far", "half"}]

Early == {"none", "accepted", "open", "door", "near", "far", "half", "paired",
          "ready"}

\* What is true of each client by itself.
ClientInv(b) ==
  /\ \A k \in Kind : files[Of(k, b)] = "plain" =>
       step[b] \in Window[k] \/ Of(k, b) \in exchanged
  /\ step[b] \in {"far", "half", "paired", "ready"} =>
       files[Of("far", b)] # "absent"
  /\ step[b] \in Early => proc[b] = "none"
  /\ step[b] = "ending" => proc[b] \in {"none", "over"}
  /\ proc[b] \in {"forked", "running"} => inherited[b][Of("far", b)] # "absent"

\* What a child will keep when it runs its program.
ForkedInv ==
  \A b \in Client : proc[b] = "forked" =>
    \A d \in Sock : inherited[b][d] = "plain" =>
      owner[d[2]] # owner[b] \/ d \in exchanged

IInv == /\ TypeOK
        /\ \A b \in Client : ClientInv(b)
        /\ ForkedInv
        /\ InheritsOnlyFromOthers

-----------------------------------------------------------------------------
(* Sockets are pairs of a kind and a client.                               *)

LEMMA OfSock == \A k \in Kind, c \in Client : Of(k, c) \in Sock
BY DEF Of, Sock, Kind

LEMMA SockOf ==
  ASSUME NEW d \in Sock
  PROVE  d[1] \in Kind /\ d[2] \in Client /\ d = Of(d[1], d[2])
BY DEF Of, Sock, Kind

LEMMA OfInjective ==
  ASSUME NEW k, NEW j, NEW b, NEW c, Of(k, b) = Of(j, c)
  PROVE  k = j /\ b = c
BY DEF Of

\* Put changes one descriptor of one client.
LEMMA PutChanges ==
  ASSUME files \in Table, NEW c \in Client, NEW k \in Kind,
         NEW flag \in {"absent", "plain", "flagged"}, Put(k, c, flag)
  PROVE  /\ files' \in Table
         /\ files'[Of(k, c)] = flag
         /\ \A b \in Client, j \in Kind :
              b # c \/ j # k => files'[Of(j, b)] = files[Of(j, b)]
<1>1. Of(k, c) \in Sock
  BY OfSock
<1>2. files' \in Table /\ files'[Of(k, c)] = flag
  BY <1>1 DEF Put, Table
<1>3. ASSUME NEW b \in Client, NEW j \in Kind, b # c \/ j # k
      PROVE  files'[Of(j, b)] = files[Of(j, b)]
  <2>1. Of(j, b) \in Sock /\ Of(j, b) # Of(k, c)
    BY <1>3, OfSock, OfInjective
  <2>2. QED
    BY <2>1 DEF Put, Table
<1>4. QED
  BY <1>2, <1>3

-----------------------------------------------------------------------------
(* A step of a thread leaves the other clients alone.                      *)

LEMMA GoesKeeps ==
  ASSUME IInv, NEW c \in Client, NEW from, NEW to \in Inside \cup Between,
         Goes(c, from, to), files' \in Table,
         \A b \in Client, k \in Kind :
           b # c => files'[Of(k, b)] = files[Of(k, b)],
         ClientInv(c)'
  PROVE  IInv'
<1>1. step' \in [Client -> Inside \cup Between]
  BY DEF Goes, IInv, TypeOK
<1>2. \A b \in Client : b # c => step'[b] = step[b]
  BY DEF Goes, IInv, TypeOK
<1>3. ASSUME NEW a \in Client, NEW b \in Client, owner[a] = owner[b],
             {step'[a], step'[b]} \subseteq Inside
      PROVE  a = b
  <2>1. Inside \cap Between = {}
    BY DEF Inside, Between
  <2>2. CASE a # c /\ b # c
    BY <1>2, <1>3, <2>2 DEF IInv, TypeOK
  <2>3. ASSUME NEW d \in Client, owner[d] = owner[c], step[d] \in Inside
        PROVE  d = c
    <3>1. step[c] \in Inside
      BY <2>1, <2>3 DEF Goes, IInv, TypeOK
    <3>2. QED
      BY <2>3, <3>1 DEF IInv, TypeOK
  <2>4. QED
    BY <1>2, <1>3, <2>2, <2>3
<1>4. TypeOK'
  BY <1>1, <1>3 DEF Goes, IInv, TypeOK
<1>5. ASSUME NEW b \in Client PROVE ClientInv(b)'
  <2>1. CASE b = c
    BY <2>1
  <2>2. CASE b # c
    <3>1. \A k \in Kind : files'[Of(k, b)] = files[Of(k, b)]
      BY <2>2
    <3>2. files'[Of("far", b)] = files[Of("far", b)]
      BY <3>1 DEF Kind
    <3>3. step'[b] = step[b]
      BY <1>2, <2>2
    <3>4. UNCHANGED <<proc, inherited, exchanged>>
      BY DEF Goes
    <3>5. ClientInv(b)
      BY DEF IInv
    <3>6. QED
      BY <3>1, <3>2, <3>3, <3>4, <3>5 DEF ClientInv, Of, Window
  <2>3. QED
    BY <2>1, <2>2
<1>6. ForkedInv' /\ InheritsOnlyFromOthers'
  BY DEF Goes, IInv, ForkedInv, InheritsOnlyFromOthers, Of
<1>7. QED
  BY <1>4, <1>5, <1>6 DEF IInv

\* The step of a thread that makes, flags or closes one descriptor.
LEMMA PutKeeps ==
  ASSUME IInv, NEW c \in Client, NEW from, NEW to \in Inside \cup Between,
         NEW k \in Kind, NEW flag \in {"absent", "plain", "flagged"},
         Goes(c, from, to), Put(k, c, flag), ClientInv(c)'
  PROVE  IInv'
<1>1. files' \in Table
  BY PutChanges DEF IInv, TypeOK
<1>2. \A b \in Client, j \in Kind : b # c => files'[Of(j, b)] = files[Of(j, b)]
  BY PutChanges DEF IInv, TypeOK
<1>3. QED
  BY <1>1, <1>2, GoesKeeps

-----------------------------------------------------------------------------
LEMMA InitInv == Init => IInv
<1> SUFFICES ASSUME Init PROVE IInv
  OBVIOUS
<1>1. TypeOK
  BY DEF Init, TypeOK, NoFiles, Table, Inside, Between
<1>2. ASSUME NEW b \in Client PROVE ClientInv(b)
  <2>1. \A k \in Kind : files[Of(k, b)] = "absent"
    BY OfSock DEF Init, NoFiles
  <2>2. QED
    BY <2>1 DEF Init, ClientInv, Early
<1>3. ForkedInv /\ InheritsOnlyFromOthers
  BY DEF Init, ForkedInv, InheritsOnlyFromOthers
<1>4. QED
  BY <1>1, <1>2, <1>3 DEF IInv

\* What such a step does to its client.
LEMMA PutStep ==
  ASSUME IInv, NEW c \in Client, NEW from, NEW to \in Inside \cup Between,
         NEW k \in Kind, NEW flag \in {"absent", "plain", "flagged"},
         Goes(c, from, to), Put(k, c, flag)
  PROVE  /\ ClientInv(c) /\ step[c] = from /\ step'[c] = to
         /\ UNCHANGED <<proc, inherited, exchanged>>
         /\ \A j \in Kind : files'[Of(j, c)] = IF j = k THEN flag
                                               ELSE files[Of(j, c)]
         /\ files'[Of("far", c)] = IF "far" = k THEN flag
                                  ELSE files[Of("far", c)]
<1>1. step[c] = from /\ step'[c] = to /\ UNCHANGED <<proc, inherited, exchanged>>
  BY DEF Goes, IInv, TypeOK
<1>2. \A j \in Kind : files'[Of(j, c)] = IF j = k THEN flag ELSE files[Of(j, c)]
  BY PutChanges DEF IInv, TypeOK
<1>3. QED
  BY <1>1, <1>2 DEF IInv, Kind

LEMMA CallInv ==
  ASSUME IInv, NEW c \in Client,
         \/ Accept(c) \/ SockSet(c) \/ Door(c) \/ Near(c) \/ Far(c)
         \/ FlagNear(c) \/ FlagFar(c) \/ CloseDoor(c) \/ Link(c) \/ CloseFar(c)
  PROVE  IInv'
<1>1. CASE Accept(c)
  <2>1. /\ Goes(c, "none", "accepted") /\ Put("client", c, "plain")
        /\ "accepted" \in Inside \cup Between /\ "client" \in Kind
    BY <1>1 DEF Accept, Inside, Between, Kind
  <2>2. ClientInv(c)'
    BY <2>1, PutStep DEF ClientInv, Window, Early, Kind
  <2>3. QED
    BY <2>1, <2>2, PutKeeps
<1>2. CASE SockSet(c)
  <2>1. /\ Goes(c, "accepted", "open") /\ Put("client", c, "flagged")
        /\ "open" \in Inside \cup Between /\ "client" \in Kind
    BY <1>2 DEF SockSet, Flag, Inside, Between, Kind
  <2>2. ClientInv(c)'
    BY <2>1, PutStep DEF ClientInv, Window, Early, Kind
  <2>3. QED
    BY <2>1, <2>2, PutKeeps
<1>3. CASE Door(c)
  <2>1. /\ Goes(c, "open", "door") /\ Put("door", c, "plain")
        /\ "door" \in Inside \cup Between /\ "door" \in Kind
    BY <1>3 DEF Door, Inside, Between, Kind
  <2>2. ClientInv(c)'
    BY <2>1, PutStep DEF ClientInv, Window, Early, Kind
  <2>3. QED
    BY <2>1, <2>2, PutKeeps
<1>4. CASE Near(c)
  <2>1. /\ Goes(c, "door", "near") /\ Put("near", c, "plain")
        /\ "near" \in Inside \cup Between /\ "near" \in Kind
    BY <1>4 DEF Near, Inside, Between, Kind
  <2>2. ClientInv(c)'
    BY <2>1, PutStep DEF ClientInv, Window, Early, Kind
  <2>3. QED
    BY <2>1, <2>2, PutKeeps
<1>5. CASE Far(c)
  <2>1. /\ Goes(c, "near", "far") /\ Put("far", c, "plain")
        /\ "far" \in Inside \cup Between /\ "far" \in Kind
    BY <1>5 DEF Far, Inside, Between, Kind
  <2>2. ClientInv(c)'
    BY <2>1, PutStep DEF ClientInv, Window, Early, Kind
  <2>3. QED
    BY <2>1, <2>2, PutKeeps
<1>6. CASE FlagNear(c)
  <2>1. /\ Goes(c, "far", "half") /\ Put("near", c, "flagged")
        /\ "half" \in Inside \cup Between /\ "near" \in Kind
    BY <1>6 DEF FlagNear, Flag, Inside, Between, Kind
  <2>2. ClientInv(c)'
    BY <2>1, PutStep DEF ClientInv, Window, Early, Kind
  <2>3. QED
    BY <2>1, <2>2, PutKeeps
<1>7. CASE FlagFar(c)
  <2>1. /\ Goes(c, "half", "paired") /\ Put("far", c, "flagged")
        /\ "paired" \in Inside \cup Between /\ "far" \in Kind
    BY <1>7 DEF FlagFar, Flag, Inside, Between, Kind
  <2>2. ClientInv(c)'
    BY <2>1, PutStep DEF ClientInv, Window, Early, Kind
  <2>3. QED
    BY <2>1, <2>2, PutKeeps
<1>8. CASE CloseDoor(c)
  <2>1. /\ Goes(c, "paired", "ready") /\ Put("door", c, "absent")
        /\ "ready" \in Inside \cup Between /\ "door" \in Kind
    BY <1>8 DEF CloseDoor, Inside, Between, Kind
  <2>2. ClientInv(c)'
    BY <2>1, PutStep DEF ClientInv, Window, Early, Kind
  <2>3. QED
    BY <2>1, <2>2, PutKeeps
<1>9. CASE Link(c)
  <2>1. /\ Goes(c, "forked", "linked") /\ Put("near", c, "flagged")
        /\ "linked" \in Inside \cup Between /\ "near" \in Kind
    BY <1>9 DEF Link, Flag, Inside, Between, Kind
  <2>2. ClientInv(c)'
    BY <2>1, PutStep DEF ClientInv, Window, Early, Kind
  <2>3. QED
    BY <2>1, <2>2, PutKeeps
<1>10. CASE CloseFar(c)
  <2>1. /\ Goes(c, "linked", "cgi") /\ Put("far", c, "absent")
        /\ "cgi" \in Inside \cup Between /\ "far" \in Kind
    BY <1>10 DEF CloseFar, Inside, Between, Kind
  <2>2. ClientInv(c)'
    BY <2>1, PutStep DEF ClientInv, Window, Early, Kind
  <2>3. QED
    BY <2>1, <2>2, PutKeeps
<1>11. QED
  BY <1>1, <1>2, <1>3, <1>4, <1>5, <1>6, <1>7, <1>8, <1>9, <1>10

\* The ends: of the output, of the client, of the program's connection.
LEMMA EndInv ==
  ASSUME IInv, NEW c \in Client,
         OutputEnds(c) \/ Finish(c) \/ Leave(c) \/ CloseOrphan(c)
  PROVE  IInv'
<1>1. CASE OutputEnds(c)
  <2>1. /\ Goes(c, "cgi", "ending") /\ Put("near", c, "absent")
        /\ "ending" \in Inside \cup Between /\ "near" \in Kind
    BY <1>1 DEF OutputEnds, Inside, Between, Kind
  <2>2. proc[c] \in {"none", "over"}
    <3>1. inherited[c][Of("far", c)] = "absent"
      BY <1>1 DEF OutputEnds, Held
    <3>2. QED
      BY <3>1 DEF IInv, TypeOK, ClientInv
  <2>3. ClientInv(c)'
    BY <2>1, <2>2, PutStep DEF ClientInv, Window, Early, Kind
  <2>4. QED
    BY <2>1, <2>3, PutKeeps
<1>2. CASE Finish(c)
  <2>1. /\ Goes(c, "ending", "closed") /\ Put("client", c, "absent")
        /\ "closed" \in Inside \cup Between /\ "client" \in Kind
    BY <1>2 DEF Finish, Inside, Between, Kind
  <2>2. ClientInv(c)'
    BY <1>2, <2>1, PutStep DEF ClientInv, Window, Early, Kind
  <2>3. QED
    BY <2>1, <2>2, PutKeeps
<1>3. CASE Leave(c) /\ Goes(c, "open", "closed")
  <2>1. /\ Goes(c, "open", "closed") /\ Put("client", c, "absent")
        /\ "closed" \in Inside \cup Between /\ "client" \in Kind
    BY <1>3 DEF Leave, Inside, Between, Kind
  <2>2. ClientInv(c)'
    BY <1>3, <2>1, PutStep DEF ClientInv, Window, Early, Kind
  <2>3. QED
    BY <2>1, <2>2, PutKeeps
<1>4. CASE Leave(c) /\ Goes(c, "cgi", "orphan")
  <2>1. /\ Goes(c, "cgi", "orphan") /\ Put("client", c, "absent")
        /\ "orphan" \in Inside \cup Between /\ "client" \in Kind
    BY <1>4 DEF Leave, Inside, Between, Kind
  <2>2. ClientInv(c)'
    BY <1>4, <2>1, PutStep DEF ClientInv, Window, Early, Kind
  <2>3. QED
    BY <2>1, <2>2, PutKeeps
<1>5. CASE CloseOrphan(c)
  <2>1. /\ Goes(c, "orphan", "closed") /\ Put("near", c, "absent")
        /\ "closed" \in Inside \cup Between /\ "near" \in Kind
    BY <1>5 DEF CloseOrphan, Inside, Between, Kind
  <2>2. ClientInv(c)'
    BY <1>5, <2>1, PutStep DEF ClientInv, Window, Early, Kind
  <2>3. QED
    BY <2>1, <2>2, PutKeeps
<1>6. QED
  BY <1>1, <1>2, <1>3, <1>4, <1>5 DEF Leave

\* A pair that could not be made: the program's end was not there yet.
LEMMA PairFailsInv ==
  ASSUME IInv, NEW c \in Client, PairFails(c)
  PROVE  IInv'
<1>1. PICK from \in {"door", "near"} : Goes(c, from, "ending")
  BY DEF PairFails
<1>2. files' = [files EXCEPT ![Of("door", c)] = "absent",
                             ![Of("near", c)] = "absent"]
  BY DEF PairFails, Undone
<1>3. Of("door", c) \in Sock /\ Of("near", c) \in Sock
  BY OfSock DEF Kind
<1>4. files' \in Table
  BY <1>2, <1>3 DEF IInv, TypeOK, Table
<1>5. \A b \in Client, k \in Kind :
        files'[Of(k, b)] = IF b = c /\ k \in {"door", "near"} THEN "absent"
                           ELSE files[Of(k, b)]
  <2> TAKE b \in Client, k \in Kind
  <2>1. Of(k, b) \in Sock
    BY OfSock
  <2>2. /\ Of(k, b) = Of("door", c) <=> b = c /\ k = "door"
        /\ Of(k, b) = Of("near", c) <=> b = c /\ k = "near"
    BY OfInjective
  <2>3. QED
    BY <1>2, <1>3, <2>1, <2>2 DEF IInv, TypeOK, Table
<1>6. ClientInv(c)'
  <2>1. /\ step[c] = from /\ step'[c] = "ending"
        /\ UNCHANGED <<proc, inherited, exchanged>>
    BY <1>1 DEF Goes, IInv, TypeOK
  <2>2. ClientInv(c)
    BY DEF IInv
  <2>3. QED
    BY <1>5, <2>1, <2>2 DEF ClientInv, Window, Early, Kind
<1>7. "ending" \in Inside \cup Between
  BY DEF Between
<1>8. QED
  BY <1>1, <1>4, <1>5, <1>6, <1>7, GoesKeeps

\* fork(): whatever of its own server's is without the flag, dup() has moved.
LEMMA ForkInv ==
  ASSUME IInv, NEW c \in Client, Fork(c)
  PROVE  IInv'
<1>1. /\ step[c] = "ready" /\ step' = [step EXCEPT ![c] = "forked"]
      /\ UNCHANGED <<owner, files, exchanged>>
  BY DEF Fork
<1>2. /\ proc' \in [Client -> {"none", "forked", "running", "over"}]
      /\ inherited' \in [Client -> Table]
  BY DEF Fork, IInv, TypeOK
<1>3. ASSUME NEW b \in Client, b # c
      PROVE  step'[b] = step[b] /\ proc'[b] = proc[b] /\ inherited'[b] = inherited[b]
  BY <1>3 DEF Fork, IInv, TypeOK
<1>4. step'[c] = "forked"
  BY <1>1 DEF IInv, TypeOK
<1>5. TypeOK'
  <2>1. step' \in [Client -> Inside \cup Between]
    BY <1>1 DEF IInv, TypeOK, Inside
  <2>2. \A a \in Client : step'[a] \in Inside => step[a] \in Inside
    BY <1>1, <1>3 DEF Inside
  <2>3. QED
    BY <1>1, <1>2, <2>1, <2>2 DEF IInv, TypeOK
<1>6. ASSUME NEW b \in Client PROVE ClientInv(b)'
  <2>1. ClientInv(b)
    BY DEF IInv
  <2>2. CASE b # c
    BY <1>1, <1>3, <2>1, <2>2 DEF ClientInv, Of
  <2>3. CASE b = c
    <3>1. files[Of("far", c)] # "absent" /\ proc[c] = "none"
      BY <1>1, <2>1, <2>3 DEF ClientInv, Early
    <3>2. proc'[c] \in {"forked", "running"} => inherited'[c] = files
      BY <3>1 DEF Fork, IInv, TypeOK
    <3>3. \A k \in Kind : "ready" \notin Window[k]
      BY DEF Window, Kind
    <3>4. \A k \in Kind : files[Of(k, c)] = "plain" => Of(k, c) \in exchanged
      BY <1>1, <2>1, <2>3, <3>3 DEF ClientInv
    <3>5. QED
      BY <1>1, <1>4, <2>3, <3>1, <3>2, <3>4 DEF ClientInv, Early, Of
  <2>4. QED
    BY <2>2, <2>3
<1>7. ASSUME NEW d \in Sock, files[d] = "plain"
      PROVE  owner[d[2]] # owner[c] \/ d \in exchanged
  <2>1. d[1] \in Kind /\ d[2] \in Client /\ d = Of(d[1], d[2])
    BY SockOf
  <2>2. step[d[2]] \in Window[d[1]] \/ d \in exchanged
    BY <1>7, <2>1 DEF IInv, ClientInv
  <2>3. Window[d[1]] \subseteq Inside \ {"ready"}
    BY <2>1 DEF Window, Inside, Kind
  <2>4. "ready" \in Inside
    BY DEF Inside
  <2>5. owner[d[2]] = owner[c] /\ step[d[2]] \in Inside => d[2] = c
    BY <1>1, <2>1, <2>4 DEF IInv, TypeOK
  <2>6. QED
    BY <1>1, <2>2, <2>3, <2>5
<1>8. ForkedInv'
  <2> SUFFICES ASSUME NEW b \in Client, proc'[b] = "forked",
                      NEW d \in Sock, inherited'[b][d] = "plain"
               PROVE  owner[d[2]] # owner[b] \/ d \in exchanged
    BY <1>1 DEF ForkedInv
  <2>1. CASE b # c
    BY <1>3, <2>1 DEF IInv, ForkedInv
  <2>2. CASE b = c
    <3>1. proc[c] = "none"
      BY <1>1 DEF IInv, ClientInv, Early
    <3>2. inherited'[c] = files
      BY <2>2, <3>1 DEF Fork, IInv, TypeOK
    <3>3. QED
      BY <1>7, <2>2, <3>2
  <2>3. QED
    BY <2>1, <2>2
<1>9. InheritsOnlyFromOthers'
  <2>1. \A b \in Client : proc'[b] = "running" =>
           proc[b] = "running" /\ inherited'[b] = inherited[b]
    BY <1>3 DEF Fork, IInv, TypeOK
  <2>2. QED
    BY <1>1, <2>1 DEF IInv, InheritsOnlyFromOthers, Of
<1>10. QED
  BY <1>5, <1>6, <1>8, <1>9 DEF IInv

\* dup() takes a flag away and is remembered for it.
LEMMA ExchangeInv ==
  ASSUME IInv, NEW c \in Client, Exchange(c)
  PROVE  IInv'
<1>1. PICK k \in {"client", "near"} :
        /\ files[Of(k, c)] = "flagged"
        /\ Put(k, c, "plain")
        /\ exchanged' = exchanged \cup {Of(k, c)}
  BY DEF Exchange
<1>2. UNCHANGED <<owner, step, proc, inherited>>
  BY DEF Exchange
<1>3. k \in Kind /\ Of(k, c) \in Sock
  BY OfSock DEF Kind
<1>4. /\ files' \in Table /\ files'[Of(k, c)] = "plain"
      /\ \A b \in Client, j \in Kind :
           b # c \/ j # k => files'[Of(j, b)] = files[Of(j, b)]
  BY <1>1, <1>3, PutChanges DEF IInv, TypeOK
<1>5. TypeOK'
  BY <1>1, <1>2, <1>3, <1>4 DEF IInv, TypeOK
<1>6. ASSUME NEW b \in Client PROVE ClientInv(b)'
  <2>1. ClientInv(b)
    BY DEF IInv
  <2>2. files'[Of("far", b)] = files[Of("far", b)]
    BY <1>1, <1>4 DEF Kind
  <2>3. ASSUME NEW j \in Kind, files'[Of(j, b)] = "plain"
        PROVE  step[b] \in Window[j] \/ Of(j, b) \in exchanged'
    BY <1>1, <1>4, <2>1, <2>3 DEF ClientInv
  <2>4. QED
    BY <1>2, <2>1, <2>2, <2>3 DEF ClientInv, Of, Window
<1>7. ForkedInv' /\ InheritsOnlyFromOthers'
  BY <1>1, <1>2 DEF IInv, ForkedInv, InheritsOnlyFromOthers, Of
<1>8. QED
  BY <1>5, <1>6, <1>7 DEF IInv

\* exec() and the end of a program.
LEMMA ProgramInv ==
  ASSUME IInv, NEW c \in Client, Exec(c) \/ Exit(c)
  PROVE  IInv'
<1> DEFINE kept == [d \in Sock |-> IF Stdio(c)[d] = "plain"
                                     THEN "plain" ELSE "absent"]
<1>1. /\ proc[c] \in {"forked", "running"}
      /\ \/ proc[c] = "forked" /\ Becomes(c, "running", kept)
         \/ Becomes(c, "over", NoFiles)
  BY DEF Exec, Exit
<1>2. UNCHANGED <<owner, step, files, exchanged>>
  BY <1>1 DEF Becomes
<1>3. kept \in Table /\ NoFiles \in Table
  BY DEF Table, NoFiles
<1>4. Of("far", c) \in Sock
  BY OfSock DEF Kind
<1>5. Stdio(c) = [d \in Sock |-> IF d = Of("far", c) THEN "plain"
                                ELSE inherited[c][d]]
  BY <1>4 DEF Stdio, IInv, TypeOK, Table
<1>6. \A b \in Client : b # c =>
        proc'[b] = proc[b] /\ inherited'[b] = inherited[b]
  BY <1>1 DEF Becomes, IInv, TypeOK
<1>7. \/ /\ proc[c] = "forked" /\ proc'[c] = "running"
         /\ inherited'[c] = kept
      \/ proc'[c] = "over"
  <2> HIDE DEF kept
  <2>1. QED
    BY <1>1 DEF Becomes, IInv, TypeOK
<1>8. TypeOK'
  <2> HIDE DEF kept
  <2>1. QED
    BY <1>1, <1>2, <1>3 DEF Becomes, IInv, TypeOK
<1>9. ASSUME NEW b \in Client PROVE ClientInv(b)'
  <2>1. ClientInv(b)
    BY DEF IInv
  <2>2. CASE b # c
    BY <1>2, <1>6, <2>1, <2>2 DEF ClientInv, Of, Window
  <2>3. CASE b = c
    <3>1. kept[Of("far", c)] # "absent"
      BY <1>4, <1>5
    <3>2. step[c] # "ending" /\ step[c] \notin Early
      BY <1>1, <2>1, <2>3 DEF ClientInv
    <3>3. proc'[c] \in {"forked", "running"} =>
            inherited'[c][Of("far", c)] # "absent"
      <4> HIDE DEF kept
      <4>1. QED
        BY <1>7, <3>1
    <3>4. QED
      BY <1>2, <2>1, <2>3, <3>2, <3>3 DEF ClientInv, Of
  <2>4. QED
    BY <2>2, <2>3
<1>10. ForkedInv'
  <2>1. proc'[c] # "forked"
    <3> HIDE DEF kept
    <3>1. QED
      BY <1>7
  <2>2. QED
    BY <1>2, <1>6, <2>1 DEF IInv, ForkedInv, Of
<1>11. InheritsOnlyFromOthers'
  <2> SUFFICES ASSUME NEW b \in Client, proc'[b] = "running",
                      NEW d \in Sock, inherited'[b][d] # "absent"
               PROVE  d = Of("far", b) \/ owner[d[2]] # owner[b] \/ d \in exchanged
    BY <1>2 DEF InheritsOnlyFromOthers, Of
  <2>1. CASE b # c
    BY <1>6, <2>1 DEF IInv, InheritsOnlyFromOthers
  <2>2. CASE b = c
    <3>1. proc[c] = "forked" /\ inherited'[c][d] = kept[d]
      <4> HIDE DEF kept
      <4>1. QED
        BY <1>7, <2>2
    <3>2. d = Of("far", c) \/ inherited[c][d] = "plain"
      BY <1>5, <2>2, <3>1
    <3>3. QED
      BY <2>2, <3>1, <3>2 DEF IInv, ForkedInv
  <2>3. QED
    BY <2>1, <2>2
<1>12. QED
  BY <1>8, <1>9, <1>10, <1>11 DEF IInv

-----------------------------------------------------------------------------
LEMMA NextInv == IInv /\ [Next]_vars => IInv'
<1> SUFFICES ASSUME IInv, [Next]_vars PROVE IInv'
  OBVIOUS
<1>1. CASE UNCHANGED vars
  BY <1>1 DEF vars, IInv, TypeOK, ClientInv, ForkedInv,
              InheritsOnlyFromOthers, Of, Held, Window
<1>2. ASSUME NEW c \in Client,
             Accept(c) \/ Door(c) \/ Proceed(c) \/ Finish(c) \/ Leave(c)
      PROVE  IInv'
  BY <1>2, CallInv, EndInv, PairFailsInv, ForkInv DEF Proceed
<1>3. ASSUME NEW c \in Client, Exchange(c) PROVE IInv'
  BY <1>3, ExchangeInv
<1>4. ASSUME NEW c \in Client, Exec(c) \/ Exit(c) PROVE IInv'
  BY <1>4, ProgramInv
<1>5. QED
  BY <1>1, <1>2, <1>3, <1>4 DEF Next

THEOREM Invariance == SafeSpec => []IInv
BY InitInv, NextInv, PTL DEF SafeSpec

\* Every variable keeps its type, and a thread is in the middle of one call.
THEOREM TypeCorrect == SafeSpec => []TypeOK
<1>1. IInv => TypeOK
  BY DEF IInv
<1>2. QED
  BY <1>1, Invariance, PTL

\* However many servers fork, a program gets sockets of its own server only
\* if dup() took their flag away.
THEOREM OnlyFromOthers == SafeSpec => []InheritsOnlyFromOthers
<1>1. IInv => InheritsOnlyFromOthers
  BY DEF IInv
<1>2. QED
  BY <1>1, Invariance, PTL

\* The end of an output is the end of its program, whatever other programs
\* hold.
THEOREM EndIsProgramsEnd == SafeSpec => []EndsWithProgram
<1>1. IInv => EndsWithProgram
  BY DEF IInv, ClientInv, EndsWithProgram
<1>2. QED
  BY <1>1, Invariance, PTL
==============================================================================
