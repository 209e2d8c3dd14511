-------------------------- MODULE MgWebsocket_proofs --------------------------
(***************************************************************************)
(* Proofs about MgWebsocket: for any script of frames, of any length and   *)
(* however it is cut into pieces, handlers see what an ideal reader of the *)
(* stream sees, and the buffer is the ideal reader's open message followed *)
(* by what has come of the frames behind it, until a first fragment comes  *)
(* inside an open message.                                                 *)
(***************************************************************************)
EXTENDS MgWebsocket, SequenceFacts

Cell == [of : Nat, at : Nat, masked : BOOLEAN]
AllKinds == Control \cup Data \cup {"huge"}

\* What clients send: some of the frames there are, in any order.
IsScript == \E n \in Nat \ {0} : script \in [1 .. n -> Frames]

LEMMA ScriptLen ==
  ASSUME IsScript
  PROVE  /\ Len(script) \in Nat \ {0} /\ DOMAIN script = 1 .. Len(script)
         /\ \A i \in 1 .. Len(script) : script[i] \in Frames
BY DEF IsScript

\* What a frame's header says.
LEMMA FrameFacts ==
  ASSUME IsScript, NEW i \in 1 .. Len(script)
  PROVE  /\ KindOf(i) \in AllKinds
         /\ FormOf(i).ext \in {0, 2, 8} /\ FormOf(i).mask \in {0, 4}
         /\ Header(i) = 2 + FormOf(i).ext + FormOf(i).mask
         /\ Header(i) \in 2 .. 14 /\ Payload(i) \in 0 .. 2
         /\ KindOf(i) # "huge" => FormOf(i).len = Payload(i)
         /\ KindOf(i) = "huge" => /\ FormOf(i) = [ext |-> 8, mask |-> 4, len |-> Word - 1]
                                  /\ Header(i) = 14 /\ Payload(i) = 0
<1>1. script[i] \in Frames
  BY ScriptLen
<1>2. script[i] \in Data \X Sizes \cup Control \X {"short"}
                        \cup {<<"huge", "huge">>}
  BY <1>1, MgWebsocketAssumption
<1>3. /\ script[i][1] \in AllKinds
      /\ script[i][1] # "huge" => script[i][2] \in {"empty", "short", "medium", "long"}
      /\ script[i][1] = "huge" => script[i][2] = "huge"
  BY <1>2 DEF AllKinds, Control, Data, Sizes
<1>4. CASE script[i][1] = "huge"
  <2>1. FormOf(i) = [ext |-> 8, mask |-> 4, len |-> Word - 1]
    BY <1>3, <1>4 DEF FormOf, Form
  <2>2. QED
    BY <1>3, <1>4, <2>1 DEF KindOf, Header, Payload
<1>5. CASE script[i][1] # "huge"
  <2>1. /\ FormOf(i).ext \in {0, 2, 8} /\ FormOf(i).mask \in {0, 4}
        /\ FormOf(i).len \in 0 .. 2
    BY <1>3, <1>5 DEF FormOf, Form
  <2>2. KindOf(i) # "huge" /\ script[i][2] # "huge"
    BY <1>3, <1>5 DEF KindOf
  <2>3. QED
    BY <1>3, <2>1, <2>2, SMTT(30) DEF KindOf, Header, Payload
<1>6. QED
  BY <1>4, <1>5

\* Its bytes, and those of its payload unmasked.
LEMMA CellsFacts ==
  ASSUME IsScript, NEW i \in 1 .. Len(script)
  PROVE  /\ Cells(i) \in Seq(Cell) /\ Len(Cells(i)) = Header(i) + Payload(i)
         /\ \A j \in 1 .. Len(Cells(i)) :
              Cells(i)[j] = [of |-> i, at |-> j,
                             masked |-> FormOf(i).mask > 0 /\ j > Header(i)]
         /\ Clear(i) \in Seq(Cell) /\ Len(Clear(i)) = Payload(i)
         /\ \A j \in 1 .. Payload(i) :
              Clear(i)[j] = [of |-> i, at |-> Header(i) + j, masked |-> FALSE]
         /\ Op(i) = [of |-> i, at |-> 1, masked |-> FALSE]
<1>1. Header(i) \in 2 .. 14 /\ Payload(i) \in 0 .. 2 /\ i \in Nat
  BY FrameFacts, ScriptLen
<1> DEFINE n == Header(i) + Payload(i)
           c == [j \in 1 .. n |-> [of |-> i, at |-> j,
                   masked |-> FormOf(i).mask > 0 /\ j > Header(i)]]
           d == [j \in 1 .. Payload(i) |->
                   [of |-> i, at |-> Header(i) + j, masked |-> FALSE]]
<1>2. n \in Nat /\ n >= 2 /\ Cells(i) = c /\ Clear(i) = d
  BY <1>1, SMTT(30) DEF Cells, Clear
<1> HIDE DEF n
<1>3. /\ \A j \in 1 .. n : c[j] = [of |-> i, at |-> j,
                                  masked |-> FormOf(i).mask > 0 /\ j > Header(i)]
      /\ \A j \in 1 .. n : c[j] \in Cell
      /\ Len(c) = n /\ c \in [1 .. n -> Cell]
  BY <1>1, <1>2 DEF Cell
<1>4. c \in Seq(Cell)
  <2> HIDE DEF c
  <2>1. QED
    BY <1>2, <1>3
<1>5. /\ \A j \in 1 .. Payload(i) : d[j] = [of |-> i, at |-> Header(i) + j, masked |-> FALSE]
      /\ \A j \in 1 .. Payload(i) : d[j] \in Cell
      /\ Len(d) = Payload(i) /\ d \in [1 .. Payload(i) -> Cell]
  BY <1>1, <1>2, SMTT(30) DEF Cell
<1>6. d \in Seq(Cell)
  <2> HIDE DEF d
  <2>1. QED
    BY <1>1, <1>5
<1>7. Op(i) = [of |-> i, at |-> 1, masked |-> FALSE]
  <2>1. Op(i) = c[1]
    BY <1>2 DEF Op
  <2>2. 1 \in 1 .. n /\ ~(1 > Header(i))
    BY <1>1, <1>2, SMTT(30)
  <2> HIDE DEF c
  <2>3. c[1] = [of |-> i, at |-> 1, masked |-> FormOf(i).mask > 0 /\ 1 > Header(i)]
    BY <1>3, <2>2
  <2>4. QED
    BY <2>1, <2>2, <2>3
<1> HIDE DEF c, d
<1>8. QED
  BY <1>2, <1>3, <1>4, <1>5, <1>6, <1>7 DEF n

\* What is behind a frame.
LEMMA BehindFacts ==
  ASSUME IsScript
  PROVE  /\ \A i \in 0 .. Len(script) : Behind[i] \in Seq(Cell)
         /\ Behind[Len(script)] = <<>>
         /\ \A i \in 0 .. (Len(script) - 1) : Behind[i] = Cells(i + 1) \o Behind[i + 1]
<1> DEFINE N == Len(script)
           S == Seq(Cell)
           step == [p \in (1 .. N) \X S |-> Cells(N - p[1] + 1) \o p[2]]
<1>1. N \in Nat \ {0} /\ <<>> \in S /\ \A i \in 1 .. N : Cells(i) \in S
  BY ScriptLen, CellsFacts
<1>2. ASSUME NEW k \in 1 .. N, NEW s \in S
      PROVE  step[<<k, s>>] = Cells(N - k + 1) \o s /\ Cells(N - k + 1) \o s \in S
  <2>1. step[<<k, s>>] = Cells(N - k + 1) \o s
    <3> HIDE DEF N, S
    <3>1. QED
      OBVIOUS
  <2>2. Cells(N - k + 1) \in S
    <3>1. N - k + 1 \in 1 .. N
      BY <1>1
    <3> HIDE DEF N, S
    <3>2. QED
      BY <1>1, <3>1
  <2>3. Cells(N - k + 1) \o s \in S
    BY <2>2, ConcatProperties
  <2>4. QED
    BY <2>1, <2>3
<1>3. step \in [(1 .. N) \X S -> S]
  <2>1. \A p \in (1 .. N) \X S : Cells(N - p[1] + 1) \o p[2] \in S
    <3> HIDE DEF N, S, step
    <3>1. QED
      BY <1>2
  <2> HIDE DEF N, S
  <2>2. QED
    BY <2>1
<1> HIDE DEF S, step
<1>4. PICK f \in [0 .. N -> S] :
        Recursive(f, N, <<>>, step)
  <2>1. N \in Nat /\ <<>> \in S
    BY <1>1
  <2> HIDE DEF N
  <2>2. QED
    BY <1>3, <2>1, Recursion
<1> DEFINE F(h) == h = [i \in 0 .. N |->
                          IF i = N THEN <<>> ELSE Cells(i + 1) \o h[i + 1]]
           g == [i \in 0 .. N |-> f[N - i]]
<1>5. ASSUME NEW i \in 0 .. N
      PROVE  g[i] = IF i = N THEN <<>> ELSE Cells(i + 1) \o g[i + 1]
  <2> HIDE DEF N
  <2>1. CASE i = N
    <3>1. N - i = 0
      BY <1>1, <2>1
    <3>2. QED
      BY <1>4, <2>1, <3>1 DEF Recursive
  <2>2. CASE i # N
    <3>1. /\ N - i \in 1 .. N /\ (N - i) - 1 = N - (i + 1) /\ i + 1 \in 0 .. N
          /\ N - (N - i) + 1 = i + 1 /\ N - (i + 1) \in 0 .. N
      BY <1>1, <2>2
    <3>2. f[N - i] = step[<<N - i, f[N - (i + 1)]>>] /\ f[N - (i + 1)] \in S
      BY <1>4, <3>1 DEF Recursive
    <3>3. f[N - i] = Cells(i + 1) \o f[N - (i + 1)]
      BY <1>2, <3>1, <3>2
    <3>4. QED
      BY <2>2, <3>1, <3>3
  <2>3. QED
    BY <2>1, <2>2
<1>6. F(g)
  <2>1. g = [i \in 0 .. N |-> g[i]]
    <3> HIDE DEF N
    <3>1. QED
      OBVIOUS
  <2> HIDE DEF g, N
  <2>2. [i \in 0 .. N |-> g[i]]
          = [i \in 0 .. N |-> IF i = N THEN <<>> ELSE Cells(i + 1) \o g[i + 1]]
    BY <1>5
  <2>3. QED
    BY <2>1, <2>2, Zenon
<1> HIDE DEF g
<1>7. F(Behind)
  <2> DEFINE B == CHOOSE h : F(h)
  <2>1. F(B)
    <3> HIDE DEF F
    <3>1. QED
      BY <1>6, Zenon
  <2>2. Behind = B
    BY DEF Behind
  <2> HIDE DEF B
  <2>3. QED
    BY <2>1, <2>2, Zenon
<1>8. \A i \in 0 .. N : Behind[i] = IF i = N THEN <<>> ELSE Cells(i + 1) \o Behind[i + 1]
  <2> HIDE DEF N
  <2>1. QED
    BY <1>7
<1> DEFINE Has == {m \in Nat : m \in 0 .. N => Behind[N - m] \in S}
<1>9. 0 \in Has
  <2>1. N - 0 = N /\ N \in 0 .. N
    BY <1>1
  <2> HIDE DEF N
  <2>2. QED
    BY <1>1, <1>8, <2>1
<1>10. ASSUME NEW m \in Nat, m \in Has PROVE m + 1 \in Has
  <2> SUFFICES ASSUME m + 1 \in 0 .. N PROVE Behind[N - (m + 1)] \in S
    OBVIOUS
  <2> HIDE DEF N
  <2>1. /\ N - (m + 1) \in 0 .. N /\ N - (m + 1) # N /\ m \in 0 .. N
        /\ (N - (m + 1)) + 1 = N - m /\ N - m \in 1 .. N
    BY <1>1
  <2>2. Behind[N - (m + 1)] = Cells(N - m) \o Behind[N - m]
    BY <1>8, <2>1
  <2>3. Cells(N - m) \in S /\ Behind[N - m] \in S
    BY <1>1, <1>10, <2>1
  <2>4. QED
    BY <2>2, <2>3, ConcatProperties DEF S
<1>11. \A i \in 0 .. N : Behind[i] \in S
  <2>1. Nat \subseteq Has
    <3> HIDE DEF Has
    <3>1. QED
      BY <1>9, <1>10, AllNats
  <2> HIDE DEF N
  <2>2. ASSUME NEW i \in 0 .. N PROVE Behind[i] \in S
    <3>1. N - i \in Nat /\ N - i \in 0 .. N /\ N - (N - i) = i
      BY <1>1
    <3>2. N - i \in Has
      BY <2>1, <3>1
    <3>3. QED
      BY <3>1, <3>2
  <2>3. QED
    BY <2>2
<1>12. /\ Behind[N] = <<>>
       /\ \A i \in 0 .. (N - 1) : Behind[i] = Cells(i + 1) \o Behind[i + 1]
  <2> HIDE DEF N
  <2>1. N \in 0 .. N /\ \A i \in 0 .. (N - 1) : i \in 0 .. N /\ i # N
    BY <1>1
  <2>2. QED
    BY <1>8, <2>1
<1>13. QED
  BY <1>11, <1>12 DEF S

\* What the ideal reader may know.
Answers == {"pong", "close"} \X Seq(Cell)
Seen == (AllKinds \cup {"unnamed", "unsized"}) \X Seq(Cell)
Reading == [open : Seq(Cell), seen : Seq(Seen), answers : Seq(Answers),
            asked : BOOLEAN, over : BOOLEAN, upto : Nat]
Start == [open |-> <<>>, seen |-> <<>>, answers |-> <<>>,
          asked |-> FALSE, over |-> FALSE, upto |-> 0]

\* The frames at which the ideal reader stops.
Stops(st, i) == Refused(st, i) \/ Nested(st, i)

\* What one frame more amounts to.
LEMMA AbsorbFacts ==
  ASSUME IsScript, NEW i \in 1 .. Len(script), NEW st \in Reading
  PROVE  /\ Absorb(st, i) \in Reading
         /\ st.over \/ Stops(st, i) =>
              Absorb(st, i) = [st EXCEPT !.over = TRUE]
         /\ ~st.over /\ ~Stops(st, i) =>
              /\ Absorb(st, i).upto = i /\ ~Absorb(st, i).over
              /\ Absorb(st, i).open =
                   CASE KindOf(i) = "first" -> <<Op(i)>> \o Clear(i)
                     [] KindOf(i) = "middle" -> st.open \o Clear(i)
                     [] KindOf(i) = "last" -> <<>>
                     [] OTHER -> st.open
              /\ Absorb(st, i).seen =
                   CASE KindOf(i) \in {"first", "middle"} -> st.seen
                     [] KindOf(i) = "last" ->
                          Append(st.seen, Message(st.open \o Clear(i)))
                     [] OTHER -> Append(st.seen, <<KindOf(i), Clear(i)>>)
              /\ Absorb(st, i).answers =
                   CASE KindOf(i) = "ping" ->
                          Append(st.answers, <<"pong", Clear(i)>>)
                     [] KindOf(i) = "close" ->
                          Append(st.answers, <<"close", Clear(i)>>)
                     [] OTHER -> st.answers
              /\ Absorb(st, i).asked = (st.asked \/ KindOf(i) = "close")
<1> DEFINE c == Clear(i)
           k == KindOf(i)
           m == Message(st.open \o c)
<1>1. k \in AllKinds /\ c \in Seq(Cell) /\ Op(i) \in Cell /\ i \in Nat
  <2>1. Op(i) = [of |-> i, at |-> 1, masked |-> FALSE] /\ i \in Nat
    BY CellsFacts, ScriptLen
  <2>2. Op(i) \in Cell
    BY <2>1 DEF Cell
  <2>3. QED
    BY <2>1, <2>2, FrameFacts, CellsFacts
<1>2. /\ st.open \in Seq(Cell) /\ st.seen \in Seq(Seen) /\ st.answers \in Seq(Answers)
      /\ st.asked \in BOOLEAN /\ st.over \in BOOLEAN /\ st.upto \in Nat
  BY DEF Reading
<1>3. m \in Seen
  <2> DEFINE all == st.open \o c
             l == Len(all)
  <2>1. all \in Seq(Cell)
    BY <1>1, <1>2, ConcatProperties
  <2> HIDE DEF all
  <2>2. l \in Nat /\ \A j \in 2 .. l : all[j] \in Cell
    BY <2>1
  <2> HIDE DEF l
  <2>3. SubSeq(all, 2, l) \in Seq(Cell) /\ <<>> \in Seq(Cell)
    BY <2>2, SubSeqProperties
  <2>4. "first" \in AllKinds
    BY DEF AllKinds, Data
  <2>5. Message(all) \in Seen
    BY <2>3, <2>4 DEF Message, Seen, l
  <2>6. QED
    BY <2>5 DEF all
<1>4. <<Op(i)>> \o c \in Seq(Cell) /\ st.open \o c \in Seq(Cell) /\ <<>> \in Seq(Cell)
  <2>1. <<Op(i)>> \in Seq(Cell)
    BY <1>1
  <2> HIDE DEF c
  <2>2. QED
    BY <1>1, <1>2, <2>1, ConcatProperties
<1>5. <<"pong", c>> \in Answers /\ <<"close", c>> \in Answers
  BY <1>1 DEF Answers
<1>6. /\ Append(st.seen, <<k, c>>) \in Seq(Seen)
      /\ Append(st.seen, m) \in Seq(Seen)
      /\ Append(st.answers, <<"pong", c>>) \in Seq(Answers)
      /\ Append(st.answers, <<"close", c>>) \in Seq(Answers)
  <2>1. <<k, c>> \in Seen
    BY <1>1 DEF Seen
  <2> HIDE DEF k, c, m
  <2>2. QED
    BY <1>2, <1>3, <1>5, <2>1, AppendProperties
<1>7. CASE st.over \/ Stops(st, i)
  <2>1. Absorb(st, i) = [st EXCEPT !.over = TRUE]
    BY <1>7 DEF Absorb, Stops
  <2>2. [st EXCEPT !.over = TRUE] \in Reading
    BY DEF Reading
  <2>3. QED
    BY <1>7, <2>1, <2>2
<1>8. CASE ~(st.over \/ Stops(st, i))
  <2> DEFINE one == [st EXCEPT !.upto = i]
             seen == [one EXCEPT !.seen = Append(@, <<k, c>>)]
             a == Absorb(st, i)
  <2>1. a = CASE k = "first" -> [one EXCEPT !.open = <<Op(i)>> \o c]
             [] k = "middle" -> [one EXCEPT !.open = @ \o c]
             [] k = "last" -> [one EXCEPT !.open = <<>>, !.seen = Append(@, m)]
             [] k = "ping" -> [seen EXCEPT !.answers = Append(@, <<"pong", c>>)]
             [] k = "close" -> [seen EXCEPT !.asked = TRUE,
                                  !.answers = Append(@, <<"close", c>>)]
             [] OTHER -> seen
    BY <1>8 DEF Absorb, Stops
  <2>2. /\ one \in Reading /\ one.upto = i /\ one.over = FALSE /\ one.open = st.open
        /\ one.seen = st.seen /\ one.answers = st.answers /\ one.asked = st.asked
    BY <1>1, <1>2, <1>8 DEF Reading
  <2> HIDE DEF one
  <2>3. /\ seen \in Reading /\ seen.upto = i /\ seen.over = FALSE
        /\ seen.open = st.open /\ seen.seen = Append(st.seen, <<k, c>>)
        /\ seen.answers = st.answers /\ seen.asked = st.asked
    BY <1>2, <1>6, <2>2 DEF Reading
  <2> HIDE DEF seen, a, k, c, m
  <2>4. CASE k \in {"first", "middle", "last"}
    <3>1. CASE k = "first"
      <4>1. a = [one EXCEPT !.open = <<Op(i)>> \o c]
        BY <2>1, <3>1
      <4>2. QED
        BY <1>4, <1>8, <2>2, <3>1, <4>1 DEF Reading, a, k, c
    <3>2. CASE k = "middle"
      <4>1. a = [one EXCEPT !.open = st.open \o c]
        BY <2>1, <2>2, <3>2
      <4>2. QED
        BY <1>4, <1>8, <2>2, <3>2, <4>1 DEF Reading, a, k, c
    <3>3. CASE k = "last"
      <4>1. a = [one EXCEPT !.open = <<>>, !.seen = Append(st.seen, m)]
        BY <2>1, <2>2, <3>3
      <4>2. QED
        BY <1>4, <1>6, <1>8, <2>2, <3>3, <4>1 DEF Reading, a, k, c, m
    <3>4. QED
      BY <2>4, <3>1, <3>2, <3>3
  <2>5. CASE k = "ping"
    <3>1. a = [seen EXCEPT !.answers = Append(st.answers, <<"pong", c>>)]
      BY <2>1, <2>3, <2>5
    <3>2. QED
      BY <1>6, <1>8, <2>3, <2>5, <3>1 DEF Reading, a, k, c
  <2>6. CASE k = "close"
    <3>1. a = [seen EXCEPT !.asked = TRUE,
                 !.answers = Append(st.answers, <<"close", c>>)]
      BY <2>1, <2>3, <2>6
    <3>2. QED
      BY <1>6, <1>8, <2>3, <2>6, <3>1 DEF Reading, a, k, c
  <2>7. CASE k \notin {"first", "middle", "last", "ping", "close"}
    <3>1. a = seen
      BY <2>1, <2>7
    <3>2. /\ a \in Reading /\ a.upto = i /\ ~a.over /\ a.open = st.open
          /\ a.seen = Append(st.seen, <<k, c>>) /\ a.answers = st.answers
          /\ a.asked = st.asked
      BY <2>3, <3>1
    <3>3. /\ KindOf(i) \notin {"first", "middle", "last", "ping", "close"}
          /\ a = Absorb(st, i) /\ k = KindOf(i) /\ c = Clear(i)
      BY <2>7 DEF a, k, c
    <3>4. QED
      BY <1>2, <1>8, <3>2, <3>3
  <2>8. QED
    BY <2>4, <2>5, <2>6, <2>7
<1>9. QED
  BY <1>7, <1>8

\* What the frames amount to, one after the other.
LEMMA AfterFacts ==
  ASSUME IsScript
  PROVE  /\ \A i \in 0 .. Len(script) : After[i] \in Reading
         /\ After[0] = Start
         /\ \A i \in 0 .. (Len(script) - 1) : After[i + 1] = Absorb(After[i], i + 1)
<1> DEFINE N == Len(script)
           step == [p \in (1 .. N) \X Reading |-> Absorb(p[2], p[1])]
<1>1. N \in Nat \ {0} /\ Start \in Reading
  <2>1. <<>> \in Seq(Cell) /\ <<>> \in Seq(Seen) /\ <<>> \in Seq(Answers)
    BY EmptySeq
  <2>2. QED
    BY <2>1, ScriptLen DEF Start, Reading
<1>2. ASSUME NEW k \in 1 .. N, NEW s \in Reading
      PROVE  step[<<k, s>>] = Absorb(s, k) /\ Absorb(s, k) \in Reading
  <2>1. Absorb(s, k) \in Reading
    BY AbsorbFacts
  <2> HIDE DEF N
  <2>2. QED
    BY <2>1
<1>3. step \in [(1 .. N) \X Reading -> Reading]
  <2>1. \A p \in (1 .. N) \X Reading : Absorb(p[2], p[1]) \in Reading
    <3> HIDE DEF N, step
    <3>1. QED
      BY <1>2
  <2> HIDE DEF N
  <2>2. QED
    BY <2>1
<1> HIDE DEF step
<1>4. PICK f \in [0 .. N -> Reading] :
        Recursive(f, N, Start, step)
  <2>1. N \in Nat
    BY <1>1
  <2> HIDE DEF N
  <2>2. QED
    BY <1>1, <1>3, <2>1, Recursion
<1> DEFINE F(h) == h = [i \in 0 .. N |->
                          IF i = 0 THEN Start ELSE Absorb(h[i - 1], i)]
<1>5. ASSUME NEW i \in 0 .. N
      PROVE  f[i] = IF i = 0 THEN Start ELSE Absorb(f[i - 1], i)
  <2>1. CASE i = 0
    BY <1>4, <2>1 DEF Recursive
  <2>2. CASE i # 0
    <3>1. i \in 1 .. N /\ i - 1 \in 0 .. N
      BY <1>1, <2>2
    <3> HIDE DEF N
    <3>2. f[i] = step[<<i, f[i - 1]>>] /\ f[i - 1] \in Reading
      BY <1>4, <3>1 DEF Recursive
    <3>3. QED
      BY <1>2, <2>2, <3>1, <3>2
  <2>3. QED
    BY <2>1, <2>2
<1>6. F(f)
  <2> HIDE DEF N
  <2>1. f = [i \in 0 .. N |-> f[i]]
    BY <1>4
  <2>2. [i \in 0 .. N |-> f[i]]
          = [i \in 0 .. N |-> IF i = 0 THEN Start ELSE Absorb(f[i - 1], i)]
    BY <1>5
  <2>3. QED
    BY <2>1, <2>2, Zenon
<1>7. F(After)
  <2> DEFINE B == CHOOSE h : F(h)
  <2>1. F(B)
    <3> HIDE DEF F
    <3>1. QED
      BY <1>6, Zenon
  <2>2. After = B
    BY DEF After, Start
  <2> HIDE DEF B
  <2>3. QED
    BY <2>1, <2>2, Zenon
<1>8. \A i \in 0 .. N : After[i] = IF i = 0 THEN Start ELSE Absorb(After[i - 1], i)
  <2> HIDE DEF N
  <2>1. QED
    BY <1>7
<1>9. After[0] = Start
  <2>1. 0 \in 0 .. N
    BY <1>1
  <2> HIDE DEF N
  <2>2. QED
    BY <1>8, <2>1
<1>10. ASSUME NEW i \in 0 .. (N - 1) PROVE After[i + 1] = Absorb(After[i], i + 1)
  <2>1. i + 1 \in 0 .. N /\ i + 1 # 0 /\ (i + 1) - 1 = i
    BY <1>1
  <2> HIDE DEF N
  <2>2. QED
    BY <1>8, <2>1
<1> DEFINE Has == {m \in Nat : m \in 0 .. N => After[m] \in Reading}
<1>11. 0 \in Has
  <2> HIDE DEF N
  <2>1. QED
    BY <1>1, <1>9
<1>12. ASSUME NEW m \in Nat, m \in Has PROVE m + 1 \in Has
  <2> SUFFICES ASSUME m + 1 \in 0 .. N PROVE After[m + 1] \in Reading
    OBVIOUS
  <2>1. m \in 0 .. N /\ m \in 0 .. (N - 1) /\ m + 1 \in 1 .. N
    BY <1>1
  <2>2. After[m] \in Reading /\ After[m + 1] = Absorb(After[m], m + 1)
    BY <1>10, <1>12, <2>1
  <2>3. QED
    BY <1>2, <2>1, <2>2
<1>13. \A i \in 0 .. N : After[i] \in Reading
  <2>1. Nat \subseteq Has
    <3> HIDE DEF Has
    <3>1. QED
      BY <1>11, <1>12, AllNats
  <2>2. N \in Nat
    BY <1>1
  <2> HIDE DEF N
  <2>3. QED
    BY <2>1, <2>2
<1>14. QED
  BY <1>9, <1>10, <1>13

\* What is behind a later frame is less.
LEMMA BehindShrinks ==
  ASSUME IsScript
  PROVE  /\ \A i \in 0 .. (Len(script) - 1) : Len(Behind[i + 1]) < Len(Behind[i])
         /\ \A i, j \in 0 .. Len(script) : i <= j => Len(Behind[j]) <= Len(Behind[i])
<1> DEFINE N == Len(script)
           L(i) == Len(Behind[i])
<1>1. N \in Nat \ {0}
  BY ScriptLen
<1>2. \A i \in 0 .. N : L(i) \in Nat
  BY BehindFacts
<1>3. ASSUME NEW i \in 0 .. (N - 1) PROVE L(i + 1) < L(i)
  <2> DEFINE c == Cells(i + 1)
             b == Behind[i + 1]
  <2>1. i + 1 \in 1 .. N /\ i + 1 \in 0 .. N
    BY <1>1
  <2>2. c \in Seq(Cell) /\ Len(c) = Header(i + 1) + Payload(i + 1)
    BY <2>1, CellsFacts
  <2>3. Header(i + 1) \in 2 .. 14 /\ Payload(i + 1) \in 0 .. 2
    BY <2>1, FrameFacts
  <2>4. Behind[i] = c \o b /\ b \in Seq(Cell)
    BY <2>1, BehindFacts
  <2> HIDE DEF c, b
  <2>5. Len(c \o b) = Len(c) + Len(b)
    BY <2>2, <2>4, ConcatProperties
  <2>6. Len(b) \in Nat
    BY <2>4
  <2>7. Len(b) < Len(Behind[i])
    BY <2>2, <2>3, <2>4, <2>5, <2>6, SMTT(30)
  <2>8. QED
    BY <2>7 DEF b
<1> HIDE DEF L, N
<1> DEFINE Has == {m \in Nat : \A i \in 0 .. N : i + m <= N => L(i + m) <= L(i)}
<1>4. 0 \in Has
  BY <1>1, <1>2
<1>5. ASSUME NEW m \in Nat, m \in Has PROVE m + 1 \in Has
  <2> SUFFICES ASSUME NEW i \in 0 .. N, i + (m + 1) <= N
               PROVE  L(i + (m + 1)) <= L(i)
    OBVIOUS
  <2>1. i + m \in 0 .. (N - 1) /\ i + m <= N /\ (i + m) + 1 = i + (m + 1)
    BY <1>1
  <2>2. L(i + m) <= L(i)
    BY <1>5, <2>1
  <2>3. L(i + (m + 1)) < L(i + m)
    BY <1>3, <2>1
  <2>4. L(i) \in Nat /\ L(i + m) \in Nat /\ L(i + (m + 1)) \in Nat
    <3>1. i + m \in 0 .. N /\ i + (m + 1) \in 0 .. N
      BY <1>1, <2>1
    <3>2. QED
      BY <1>2, <3>1
  <2>5. QED
    BY <2>2, <2>3, <2>4
<1>6. ASSUME NEW i \in 0 .. N, NEW j \in 0 .. N, i <= j PROVE L(j) <= L(i)
  <2>1. Nat \subseteq Has
    <3> HIDE DEF Has
    <3>1. QED
      BY <1>4, <1>5, AllNats
  <2>2. j - i \in Nat /\ i + (j - i) = j /\ i + (j - i) <= N
    BY <1>1, <1>6
  <2>3. j - i \in Has
    BY <2>1, <2>2
  <2>4. QED
    BY <2>2, <2>3
<1>7. QED
  BY <1>3, <1>6 DEF L, N

\* Which frames the ideal reader knows.
LEMMA Known ==
  ASSUME IsScript, NEW k \in 0 .. Len(script), ~After[k].over
  PROVE  After[k].upto = k
<1>1. CASE k = 0
  BY <1>1, AfterFacts DEF Start
<1>2. CASE k # 0
  <2> DEFINE N == Len(script)
             m == k - 1
             st == After[m]
  <2>1. N \in Nat /\ k \in 0 .. N
    BY ScriptLen
  <2>2. m \in 0 .. (N - 1) /\ m \in 0 .. N /\ k \in 1 .. N /\ m + 1 = k
    BY <1>2, <2>1
  <2>3. st \in Reading /\ After[k] = Absorb(st, k)
    <3> HIDE DEF m
    <3>1. After[m] \in Reading /\ After[m + 1] = Absorb(After[m], m + 1)
      BY <2>2, AfterFacts
    <3>2. QED
      BY <2>2, <3>1
  <2> HIDE DEF m, st
  <2>4. ~(st.over \/ Stops(st, k))
    <3> SUFFICES ASSUME st.over \/ Stops(st, k) PROVE FALSE
      OBVIOUS
    <3>1. After[k] = [st EXCEPT !.over = TRUE]
      <4>1. Absorb(st, k) = [st EXCEPT !.over = TRUE]
        BY <2>2, <2>3, AbsorbFacts, ZenonT(30)
      <4>2. QED
        BY <2>3, <4>1
    <3>2. QED
      BY <2>3, <3>1 DEF Reading
  <2>5. ~st.over /\ ~Stops(st, k) => Absorb(st, k).upto = k
    BY <2>2, <2>3, AbsorbFacts, ZenonT(30)
  <2>6. QED
    BY <2>3, <2>4, <2>5
<1>3. QED
  BY <1>1, <1>2

\* Nothing counts behind a frame at which the reader stops.
LEMMA OverStays ==
  ASSUME IsScript, NEW i \in 0 .. Len(script), NEW j \in i .. Len(script),
         After[i].over
  PROVE  After[j] = After[i]
<1> DEFINE N == Len(script)
           Has == {m \in Nat : i + m <= N => After[i + m] = After[i]}
<1>1. N \in Nat /\ i \in Nat
  BY ScriptLen
<1>2. 0 \in Has
  BY <1>1
<1>3. ASSUME NEW m \in Nat, m \in Has PROVE m + 1 \in Has
  <2> SUFFICES ASSUME i + (m + 1) <= N PROVE After[i + (m + 1)] = After[i]
    OBVIOUS
  <2>1. /\ i + m \in 0 .. (N - 1) /\ i + m <= N /\ (i + m) + 1 = i + (m + 1)
        /\ i + m \in 0 .. N /\ i + (m + 1) \in 1 .. N
    BY <1>1
  <2>2. After[i + m] = After[i]
    BY <1>3, <2>1
  <2>3. After[i] \in Reading /\ After[i + (m + 1)] = Absorb(After[i + m], (i + m) + 1)
    BY <2>1, AfterFacts
  <2>4. After[i + (m + 1)] = [After[i] EXCEPT !.over = TRUE]
    <3> DEFINE p == i + (m + 1)
               st == After[i]
    <3>1. st \in Reading /\ After[p] = Absorb(st, p) /\ p \in 1 .. N /\ st.over
      BY <2>1, <2>2, <2>3
    <3> HIDE DEF p, st
    <3>2. After[p] = [st EXCEPT !.over = TRUE]
      BY <3>1, AbsorbFacts
    <3>3. QED
      BY <3>2 DEF p, st
  <2>5. QED
    BY <2>3, <2>4 DEF Reading
<1>4. QED
  <2>1. Nat \subseteq Has
    <3> HIDE DEF Has
    <3>1. QED
      BY <1>2, <1>3, AllNats
  <2>2. j - i \in Nat /\ i + (j - i) = j /\ i + (j - i) <= N
    BY <1>1
  <2>3. j - i \in Has
    BY <2>1, <2>2
  <2>4. QED
    BY <2>2, <2>3

\* What the ideal reader makes of what is there, when u frames and no more are,
\* or when it stops at the next one.
LEMMA IdealIs ==
  ASSUME IsScript, NEW u \in 0 .. Len(script), ~After[u].over, There(u),
         wire \in Seq(Cell)
  PROVE  /\ u = Len(script) \/ ~There(u + 1) => Ideal = After[u]
         /\ u < Len(script) /\ There(u + 1) /\ Stops(After[u], u + 1) =>
              Ideal = [After[u] EXCEPT !.over = TRUE]
<1> DEFINE N == Len(script)
           T == {i \in 0 .. N : There(i)}
<1>1. N \in Nat \ {0} /\ u \in T
  BY ScriptLen
<1>2. \A i, j \in 0 .. N : i <= j /\ There(j) => There(i)
  <2>1. \A i, j \in 0 .. N : i <= j => Len(Behind[j]) <= Len(Behind[i])
    BY BehindShrinks
  <2>2. Len(wire) \in Nat /\ \A i \in 0 .. N : Len(Behind[i]) \in Nat
    BY BehindFacts
  <2>3. QED
    BY <2>1, <2>2 DEF There
<1>3. PICK m \in T : Max(T) = m /\ \A i \in T : i <= m
  <2> DEFINE R == {N - i : i \in T}
  <2>1. R \in SUBSET Nat /\ R # {}
    BY <1>1
  <2>2. PICK r \in R : \A k \in R : r <= k
    <3> HIDE DEF R
    <3>1. QED
      BY <2>1, Smallest
  <2>3. PICK m \in T : r = N - m
    BY <2>2
  <2>4. ASSUME NEW i \in T PROVE m >= i
    <3>1. N - i \in R
      OBVIOUS
    <3>2. N - m <= N - i
      BY <2>2, <2>3, <3>1
    <3>3. QED
      BY <1>1, <3>2
  <2>5. Max(T) \in T /\ \A i \in T : Max(T) >= i
    <3> HIDE DEF T
    <3>1. QED
      BY <2>4 DEF Max
  <2>6. QED
    BY <2>5
<1>4. Ideal = After[m]
  BY <1>3 DEF Ideal
<1>5. ASSUME u = N \/ ~There(u + 1) PROVE m = u
  <2>1. u <= m
    BY <1>1, <1>3
  <2>2. ASSUME u < m PROVE FALSE
    <3>1. u + 1 \in 0 .. N /\ u + 1 <= m /\ u # N
      BY <1>1, <1>3, <2>2
    <3>2. There(u + 1)
      BY <1>2, <1>3, <3>1
    <3>3. QED
      BY <1>5, <3>1, <3>2
  <2>3. QED
    BY <1>1, <1>3, <2>1, <2>2
<1>6. ASSUME u < N, There(u + 1), Stops(After[u], u + 1)
      PROVE  After[m] = [After[u] EXCEPT !.over = TRUE]
  <2> DEFINE v == u + 1
             st == After[u]
  <2>1. v \in T /\ v \in 1 .. N /\ v \in 0 .. N /\ v <= m /\ m \in v .. N
    <3>1. v \in T
      BY <1>1, <1>6
    <3>2. v <= m /\ m \in 0 .. N
      BY <1>3, <3>1
    <3>3. QED
      BY <1>1, <1>6, <3>1, <3>2
  <2>2. st \in Reading /\ After[v] = Absorb(st, v) /\ Stops(st, v)
    BY <1>1, <1>6, AfterFacts
  <2> HIDE DEF v, st
  <2>3. After[v] = [st EXCEPT !.over = TRUE]
    BY <2>1, <2>2, AbsorbFacts, ZenonT(30)
  <2>4. After[v].over
    BY <2>2, <2>3 DEF Reading
  <2>5. After[m] = After[v]
    BY <2>1, <2>4, OverStays
  <2>6. QED
    BY <2>3, <2>5 DEF st
<1>7. QED
  BY <1>4, <1>5, <1>6

\* A concatenation, cut where one of its parts ends.
LEMMA CutConcat ==
  ASSUME NEW S, NEW a \in Seq(S), NEW b \in Seq(S)
  PROVE  /\ SubSeq(a \o b, 1, Len(a)) = a
         /\ SubSeq(a \o b, Len(a) + 1, Len(a \o b)) = b
<1> DEFINE c == a \o b
           l == Len(a)
           n == Len(c)
           f == l + 1
<1>1. /\ c \in Seq(S) /\ Len(c) = n /\ n = l + Len(b) /\ l \in Nat /\ Len(b) \in Nat /\ n \in Nat
      /\ \A i \in 1 .. n : c[i] = IF i <= l THEN a[i] ELSE b[i - l]
  BY ConcatProperties
<1>2. f \in Nat /\ f = l + 1
  BY <1>1
<1> HIDE DEF c, l, n, f
<1>3. SubSeq(c, 1, l) = a
  <2> DEFINE h == SubSeq(c, 1, l)
  <2>1. \A i \in 1 .. l : c[i] \in S
    BY <1>1
  <2>2. /\ h \in Seq(S) /\ Len(h) = IF 1 <= l THEN l - 1 + 1 ELSE 0
        /\ \A i \in 1 .. l - 1 + 1 : h[i] = c[1 + i - 1]
    BY <1>1, <2>1, SubSeqProperties
  <2> HIDE DEF h
  <2>3. Len(h) = l
    BY <1>1, <2>2
  <2>4. ASSUME NEW i \in 1 .. l PROVE h[i] = a[i]
    <3>1. i \in 1 .. l - 1 + 1 /\ 1 + i - 1 = i /\ i \in 1 .. n /\ i <= l
      BY <1>1
    <3>2. QED
      BY <1>1, <2>2, <3>1
  <2>5. QED
    BY <2>2, <2>3, <2>4, SeqEqual DEF h, l
<1>4. SubSeq(c, f, n) = b
  <2> DEFINE h == SubSeq(c, f, n)
  <2>1. \A i \in f .. n : c[i] \in S
    BY <1>1, <1>2
  <2>2. /\ h \in Seq(S) /\ Len(h) = IF f <= n THEN n - f + 1 ELSE 0
        /\ \A i \in 1 .. n - f + 1 : h[i] = c[f + i - 1]
    BY <1>1, <1>2, <2>1, SubSeqProperties
  <2> HIDE DEF h
  <2>3. Len(h) = Len(b)
    BY <1>1, <1>2, <2>2
  <2>4. ASSUME NEW i \in 1 .. Len(b) PROVE h[i] = b[i]
    <3>1. i \in 1 .. n - f + 1 /\ f + i - 1 = l + i /\ l + i \in 1 .. n
          /\ ~(l + i <= l) /\ (l + i) - l = i
      BY <1>1, <1>2
    <3>2. h[i] = c[l + i] /\ c[l + i] = b[i]
      BY <1>1, <2>2, <3>1
    <3>3. QED
      BY <3>2
  <2>5. QED
    BY <2>2, <2>3, <2>4, SeqEqual DEF h
<1>5. QED
  BY <1>3, <1>4 DEF c, l, n, f

\* One sequence, cut in two places.
Same(a, b, c, d) == a \o b = c \o d
Between(a, b, c, d, r) == a = c \o r /\ d = r \o b

\* Of two ways to write a sequence, the longer beginning has the shorter one.
LEMMA Longer ==
  ASSUME NEW S, NEW a \in Seq(S), NEW b \in Seq(S), NEW c \in Seq(S), NEW d \in Seq(S),
         Same(a, b, c, d), Len(c) <= Len(a)
  PROVE  \E r \in Seq(S) : Between(a, b, c, d, r)
<1> DEFINE l == Len(c)
           f == l + 1
           n == Len(a)
           r == SubSeq(a, f, n)
<1>1. l \in Nat /\ n \in Nat /\ l <= n /\ f \in 1 .. n + 1 /\ f = l + 1
  OBVIOUS
<1>2. a = SubSeq(a, 1, l) \o r
  <2>1. /\ 1 \in 1 .. Len(a) + 1 /\ l \in 1 - 1 .. Len(a) /\ n \in l .. Len(a)
    BY <1>1
  <2> HIDE DEF l, n
  <2>2. SubSeq(a, 1, l) \o SubSeq(a, l + 1, n) = SubSeq(a, 1, n)
    BY <2>1, ConcatAdjacentSubSeq
  <2>3. SubSeq(a, 1, n) = a
    BY SubSeqFull DEF n
  <2>4. QED
    BY <2>2, <2>3
<1>3. SubSeq(a, 1, l) = c
  <2> DEFINE h == SubSeq(a, 1, l)
  <2>1. /\ h \in Seq(S) /\ Len(h) = l /\ \A i \in 1 .. l : h[i] = a[i]
    <3> HIDE DEF l, n
    <3>1. /\ \A i \in 1 .. l : a[i] \in S
      BY <1>1 DEF n
    <3>2. /\ h \in Seq(S) /\ Len(h) = IF 1 <= l THEN l - 1 + 1 ELSE 0
          /\ \A i \in 1 .. l - 1 + 1 : h[i] = a[1 + i - 1]
      BY <1>1, <3>1, SubSeqProperties
    <3> HIDE DEF h
    <3>3. QED
      BY <1>1, <3>2
  <2>2. \A i \in 1 .. l : a[i] = c[i]
    <3> DEFINE x == a \o b
               y == c \o d
    <3>1. /\ \A i \in 1 .. Len(a) + Len(b) : x[i] = IF i <= Len(a) THEN a[i] ELSE b[i - Len(a)]
          /\ \A i \in 1 .. Len(c) + Len(d) : y[i] = IF i <= Len(c) THEN c[i] ELSE d[i - Len(c)]
      BY ConcatProperties
    <3>2. x = y
      BY DEF Same
    <3> HIDE DEF x, y
    <3>3. Len(b) \in Nat /\ Len(d) \in Nat
      OBVIOUS
    <3>4. QED
      BY <1>1, <3>1, <3>2, <3>3, SMTT(30)
  <2> HIDE DEF h
  <2>3. h = c
    BY <2>1, <2>2, SeqEqual DEF l
  <2>4. QED
    BY <2>3 DEF h
<1>4. r \in Seq(S)
  <2> HIDE DEF l, f, n
  <2>1. \A i \in f .. n : a[i] \in S
    BY <1>1 DEF n
  <2>2. QED
    BY <1>1, <2>1, SubSeqProperties
<1> HIDE DEF r, l
<1>5. a = c \o r
  BY <1>2, <1>3
<1>6. c \o (r \o b) = c \o d
  <2>1. (c \o r) \o b = c \o (r \o b)
    BY <1>4, ConcatAssociative, SMTT(30)
  <2>2. QED
    BY <1>5, <2>1, Zenon DEF Same
<1>7. r \o b \in Seq(S)
  BY <1>4, ConcatProperties
<1>8. r \o b = d
  BY <1>6, <1>7, ConcatSimplifications
<1>9. QED
  BY <1>4, <1>5, <1>8 DEF Between

\* t is what has come of the frames behind the first u, and the buffer is the
\* open message and t.
Follows(u, t) == t \o wire = Behind[u]
Layout(u, t) == buf = After[u].open \o t /\ Follows(u, t)

\* The frame behind the first u is one to refuse, and some of it has come.
Rejected(u) == /\ u < Len(script) /\ Refused(After[u], u + 1)
               /\ Len(wire) < Len(Behind[u])

\* What the first u frames ask for has been answered, and then n times the
\* one behind them has been refused.
Sent(u, n) == answers = After[u].answers \o Refusals(n)
Said(u) ==
  \/ answers = After[u].answers /\ closing = After[u].asked
  \/ closing /\ Rejected(u) /\ \E n \in Nat \ {0} : Sent(u, n)

\* Nothing is left to do until more comes.
AtRest(u) == \/ u = Len(script) \/ ~There(u + 1)
             \/ /\ closing /\ Refused(After[u], u + 1)
                /\ \E n \in Nat \ {0} : Sent(u, n)

\* u frames have been taken.
Taken(u, t) == /\ ~After[u].over
               /\ Layout(u, t)
               /\ reass = Len(After[u].open)
               /\ delivered = After[u].seen
               /\ Said(u)
               /\ pc # "deliver" => AtRest(u)

\* The frame behind the first u came inside an open message, and was taken.
Misled(u) == /\ u < Len(script) /\ There(u + 1)
             /\ ~After[u].over /\ Nested(After[u], u + 1)
             /\ After[u].asked => closing

IInv == /\ IsScript
        /\ wire \in Seq(Cell) /\ closing \in BOOLEAN /\ astray \in BOOLEAN
        /\ ~astray => \E u \in 0 .. Len(script), t \in Seq(Cell) : Taken(u, t)
        /\ astray => \E u \in 0 .. Len(script) : Misled(u)

\* One refusal more.
LEMMA RefusalFacts ==
  ASSUME NEW n \in Nat
  PROVE  /\ Refusals(n) \in Seq(Answers) /\ Len(Refusals(n)) = n
         /\ Refusals(n + 1) = Append(Refusals(n), <<"close", <<>>>>)
<1> DEFINE x == <<"close", <<>>>>
           R(m) == [k \in 1 .. m |-> x]
<1>1. x \in Answers
  BY EmptySeq DEF Answers
<1> HIDE DEF x
<1>2. \A m \in Nat : R(m) \in [1 .. m -> Answers]
  BY <1>1
<1>3. \A m \in Nat : R(m) \in Seq(Answers) /\ Len(R(m)) = m
  BY <1>2
<1>4. R(n + 1) = Append(R(n), x)
  <2> DEFINE a == R(n + 1)
             b == Append(R(n), x)
  <2>1. a \in Seq(Answers) /\ Len(a) = n + 1 /\ \A k \in 1 .. n + 1 : a[k] = x
    BY <1>3
  <2>2. /\ b \in Seq(Answers) /\ Len(b) = n + 1
        /\ \A k \in 1 .. n + 1 : b[k] = x
    <3> DEFINE r == R(n)
    <3>1. r \in Seq(Answers) /\ Len(r) = n /\ \A k \in 1 .. n : r[k] = x
      BY <1>3
    <3> HIDE DEF r
    <3>2. /\ Append(r, x) \in Seq(Answers) /\ Len(Append(r, x)) = Len(r) + 1
          /\ \A k \in 1 .. Len(r) : Append(r, x)[k] = r[k]
          /\ Append(r, x)[Len(r) + 1] = x
      BY <1>1, <3>1, AppendProperties
    <3>3. QED
      BY <3>1, <3>2 DEF r
  <2> HIDE DEF a, b
  <2>3. a = b
    BY <2>1, <2>2, SeqEqual
  <2>4. QED
    BY <2>3 DEF a, b
<1>5. \A m \in Nat : Refusals(m) = R(m)
  BY DEF Refusals, x
<1> HIDE DEF R
<1>6. QED
  BY <1>3, <1>4, <1>5 DEF x

LEMMA OneMoreRefusal ==
  ASSUME NEW a \in Seq(Answers), NEW n \in Nat
  PROVE  /\ Len(a \o Refusals(n)) = Len(a) + n
         /\ Append(a \o Refusals(n), <<"close", <<>>>>) = a \o Refusals(n + 1)
         /\ Append(a, <<"close", <<>>>>) = a \o Refusals(1)
<1> DEFINE x == <<"close", <<>>>>
<1>1. x \in Answers
  BY EmptySeq DEF Answers
<1> HIDE DEF x
<1>2. \A m \in Nat : /\ Refusals(m) \in Seq(Answers) /\ Len(Refusals(m)) = m
                     /\ Refusals(m + 1) = Append(Refusals(m), x)
  BY RefusalFacts DEF x
<1>3. ASSUME NEW r \in Seq(Answers)
      PROVE  Append(a \o r, x) = a \o Append(r, x) /\ Len(a \o r) = Len(a) + Len(r)
  <2>1. a \o r \in Seq(Answers) /\ Len(a \o r) = Len(a) + Len(r)
    BY ConcatProperties
  <2>2. Append(a \o r, x) = (a \o r) \o <<x>> /\ Append(r, x) = r \o <<x>>
    BY <1>1, <2>1, AppendIsConcat
  <2>3. <<x>> \in Seq(Answers)
    BY <1>1
  <2>4. (a \o r) \o <<x>> = a \o (r \o <<x>>)
    BY <2>3, ConcatAssociative
  <2>5. QED
    BY <2>1, <2>2, <2>4
<1>4. Append(a, x) = a \o Refusals(1)
  <2>1. /\ Refusals(0) \in Seq(Answers) /\ Len(Refusals(0)) = 0
        /\ Refusals(0 + 1) = Append(Refusals(0), x)
    BY <1>2
  <2>2. Refusals(0) = <<>> /\ Refusals(1) = Append(Refusals(0), x)
    BY <2>1
  <2>3. Append(a \o <<>>, x) = a \o Append(<<>>, x) /\ a \o <<>> = a
    BY <1>3, EmptySeq, ConcatEmptySeq
  <2>4. QED
    BY <2>2, <2>3
<1>5. Append(a \o Refusals(n), x) = a \o Refusals(n + 1) /\ Len(a \o Refusals(n)) = Len(a) + n
  BY <1>2, <1>3
<1>6. QED
  BY <1>4, <1>5 DEF x

\* What the handler finds behind what it has taken.
LEMMA RestFacts ==
  ASSUME IsScript, wire \in Seq(Cell), NEW u \in 0 .. Len(script),
         NEW t \in Seq(Cell), Layout(u, t), reass = Len(After[u].open)
  PROVE  /\ After[u].open \in Seq(Cell)
         /\ Rest = t /\ SubSeq(buf, 1, reass) = After[u].open
         /\ Len(t) + Len(wire) = Len(Behind[u]) /\ There(u)
         /\ t # <<>> => /\ u < Len(script) /\ InStep /\ Current = u + 1
                        /\ t[1] = Op(u + 1) /\ Len(wire) < Len(Behind[u])
<1> DEFINE o == After[u].open
           b == Behind[u]
           N == Len(script)
<1>1. o \in Seq(Cell) /\ b \in Seq(Cell) /\ N \in Nat /\ u \in Nat
  BY AfterFacts, BehindFacts, ScriptLen DEF Reading
<1>2. buf = o \o t /\ t \o wire = b
  BY DEF Layout, Follows
<1>3. SubSeq(buf, 1, reass) = o /\ SubSeq(buf, reass + 1, Len(buf)) = t
  <2> HIDE DEF o
  <2>1. SubSeq(o \o t, 1, Len(o)) = o /\ SubSeq(o \o t, Len(o) + 1, Len(o \o t)) = t
    BY <1>1, CutConcat
  <2>2. buf = o \o t /\ reass = Len(o)
    BY <1>2 DEF o
  <2>3. QED
    BY <2>1, <2>2, Zenon
<1>4. Rest = t
  BY <1>3 DEF Rest
<1>5. /\ Len(b) = Len(t) + Len(wire) /\ Len(t) \in Nat /\ Len(wire) \in Nat
      /\ \A i \in 1 .. Len(t) : b[i] = t[i]
  <2> HIDE DEF b, o
  <2>1. /\ Len(t \o wire) = Len(t) + Len(wire)
        /\ \A i \in 1 .. Len(t) + Len(wire) :
             (t \o wire)[i] = IF i <= Len(t) THEN t[i] ELSE wire[i - Len(t)]
    BY ConcatProperties
  <2>2. Len(t) \in Nat /\ Len(wire) \in Nat
    OBVIOUS
  <2> DEFINE c == t \o wire
  <2>3. b = c
    BY <1>2
  <2>4. /\ Len(c) = Len(t) + Len(wire)
        /\ \A i \in 1 .. Len(t) + Len(wire) :
             c[i] = IF i <= Len(t) THEN t[i] ELSE wire[i - Len(t)]
    BY <2>1
  <2> HIDE DEF c
  <2>5. QED
    BY <2>2, <2>3, <2>4
<1>6. There(u)
  BY <1>5 DEF There
<1>7. ASSUME t # <<>>
      PROVE  /\ u < N /\ InStep /\ Current = u + 1
             /\ t[1] = Op(u + 1) /\ Len(wire) < Len(Behind[u])
  <2>1. Len(t) > 0
    BY <1>7, <1>5
  <2>2. u # N
    <3>1. Behind[N] = <<>>
      BY BehindFacts
    <3> HIDE DEF N
    <3>2. ASSUME u = N PROVE FALSE
      <4>1. Len(b) = 0
        BY <3>1, <3>2
      <4> HIDE DEF b
      <4>2. QED
        BY <1>5, <2>1, <4>1
    <3>3. QED
      BY <3>2
  <2>3. u \in 0 .. (N - 1) /\ u + 1 \in 1 .. N /\ u + 1 \in 0 .. N /\ u < N
    BY <1>1, <2>2
  <2>4. b = Cells(u + 1) \o Behind[u + 1] /\ Behind[u + 1] \in Seq(Cell)
    BY <2>3, BehindFacts
  <2> DEFINE i == u + 1
             c == Cells(i)
             d == Behind[i]
  <2> HIDE DEF i, c, d, b, o, N
  <2>5. i \in 1 .. N
    BY <2>3 DEF i
  <2>6. /\ c \in Seq(Cell) /\ Len(c) >= 2 /\ c[1] = Op(i)
        /\ Op(i) = [of |-> i, at |-> 1, masked |-> FALSE]
    <3>1. /\ c \in Seq(Cell) /\ Len(c) = Header(i) + Payload(i)
          /\ Op(i) = [of |-> i, at |-> 1, masked |-> FALSE]
      BY <2>5, CellsFacts DEF c, N
    <3>2. Header(i) \in 2 .. 14 /\ Payload(i) \in 0 .. 2
      BY <2>5, FrameFacts DEF N
    <3>3. QED
      BY <3>1, <3>2, SMTT(30) DEF Op, c
  <2>7. b = c \o d /\ d \in Seq(Cell)
    BY <2>4 DEF c, d, i
  <2>8. b[1] = c[1]
    <3> DEFINE e == c \o d
    <3>1. \A k \in 1 .. Len(c) + Len(d) : e[k] = IF k <= Len(c) THEN c[k] ELSE d[k - Len(c)]
      BY <2>6, <2>7, ConcatProperties
    <3>2. b = e /\ Len(d) \in Nat /\ Len(c) \in Nat
      BY <2>6, <2>7
    <3> HIDE DEF e
    <3>3. QED
      BY <2>6, <3>1, <3>2
  <2>9. t[1] = Op(i)
    BY <1>5, <2>1, <2>6, <2>8
  <2>10. Rest # <<>> /\ Rest[1].at = 1 /\ Rest[1].of = i
    BY <1>4, <1>7, <2>6, <2>9
  <2>11. Len(wire) < Len(Behind[u])
    BY <1>5, <2>1 DEF b
  <2>12. QED
    BY <2>3, <2>9, <2>10, <2>11 DEF InStep, Current, i
<1>8. QED
  BY <1>1, <1>3, <1>4, <1>5, <1>6, <1>7

\* What the handler reads in the header of the frame at the head.
LEMMA HeaderFacts ==
  ASSUME IsScript, NEW i \in 1 .. Len(script), NEW t \in Seq(Cell), t # <<>>,
         Rest = t, Current = i
  PROVE  /\ KindOf(i) # "huge" =>
              /\ ~Overflows
              /\ IsWhole <=> Header(i) + Payload(i) <= Len(t)
              /\ IsWhole => /\ HeaderLen = Header(i) /\ DataLen = Payload(i)
                            /\ FrameLen = Header(i) + Payload(i)
         /\ KindOf(i) = "huge" =>
              /\ ~Overflows => Len(t) < Header(i) + Payload(i)
              /\ IsWhole => Overflows
         /\ NotAllowed <=> \/ KindOf(i) = "torn"
                           \/ KindOf(i) \in {"whole", "huge"} /\ reass > 0
<1> DEFINE n == Len(t)
           e == FormOf(i).ext
           k == FormOf(i).mask
           h == Header(i)
           p == Payload(i)
<1>1. /\ KindOf(i) \in AllKinds
      /\ e \in {0, 2, 8} /\ k \in {0, 4} /\ h = 2 + e + k
      /\ h \in 2 .. 14 /\ p \in 0 .. 2
      /\ KindOf(i) # "huge" => FormOf(i).len = p
      /\ KindOf(i) = "huge" => FormOf(i).len = Word - 1 /\ h = 14 /\ p = 0
  BY FrameFacts
<1>2. n \in Nat /\ Word \in Nat /\ Word > 32
  BY MgWebsocketAssumption
<1>3. HeaderLen = IF n < 2 THEN 0
                  ELSE IF e = 0 /\ n >= k THEN 2 + k
                  ELSE IF e = 2 /\ n >= 4 + k THEN 4 + k
                  ELSE IF n >= 10 + k THEN 10 + k
                  ELSE 0
  BY DEF HeaderLen
<1> HIDE DEF n, e, k, h, p
<1>4. DataLen = IF HeaderLen = 0 THEN 0 ELSE FormOf(i).len
  BY DEF DataLen
<1>5. HeaderLen \in {0, h} /\ (n >= h => HeaderLen = h)
  BY <1>1, <1>2, <1>3
<1>6. FrameLen = (HeaderLen + DataLen) % Word
  BY DEF FrameLen
<1>7. Overflows <=> FrameLen < HeaderLen \/ FrameLen < DataLen
  BY DEF Overflows
<1>8. IsWhole <=> FrameLen > 0 /\ FrameLen <= n
  BY DEF IsWhole, n
<1>9. \A x \in Nat : x < Word => x % Word = x
  BY <1>2
<1>10. ASSUME KindOf(i) # "huge"
       PROVE  /\ ~Overflows
              /\ IsWhole <=> h + p <= n
              /\ IsWhole => HeaderLen = h /\ DataLen = p /\ FrameLen = h + p
  <2>1. CASE HeaderLen = 0
    <3>1. HeaderLen + DataLen = 0
      BY <1>4, <2>1
    <3>2. FrameLen = 0 /\ DataLen = 0
      BY <1>2, <1>4, <1>6, <1>9, <2>1, <3>1
    <3>3. n < h
      BY <1>1, <1>2, <1>5, <2>1
    <3>4. QED
      BY <1>1, <1>2, <1>7, <1>8, <1>10, <2>1, <3>2, <3>3
  <2>2. CASE HeaderLen = h
    <3>1. DataLen = p
      BY <1>1, <1>4, <1>10, <2>2
    <3>2. h + p \in Nat /\ h + p < Word
      BY <1>1, <1>2
    <3>3. FrameLen = h + p
      BY <1>6, <1>9, <2>2, <3>1, <3>2
    <3>4. ~Overflows
      BY <1>1, <1>7, <2>2, <3>1, <3>3
    <3>5. IsWhole <=> h + p <= n
      BY <1>1, <1>2, <1>8, <3>3
    <3>6. QED
      BY <1>10, <2>2, <3>1, <3>3, <3>4, <3>5
  <2>3. QED
    BY <1>5, <2>1, <2>2
<1>11. ASSUME KindOf(i) = "huge"
       PROVE  (~Overflows => n < h + p) /\ (IsWhole => Overflows)
  <2>1. CASE HeaderLen = 0
    <3>1. HeaderLen + DataLen = 0
      BY <1>4, <2>1
    <3>2. FrameLen = 0
      BY <1>2, <1>6, <1>9, <3>1
    <3>3. n < h
      BY <1>1, <1>2, <1>5, <2>1
    <3>4. QED
      BY <1>1, <1>2, <1>8, <1>11, <3>2, <3>3
  <2>2. CASE HeaderLen = h
    <3>1. DataLen = Word - 1 /\ HeaderLen = 14
      BY <1>1, <1>4, <1>11, <2>2
    <3>2. FrameLen = (14 + (Word - 1)) % Word
      BY <1>6, <3>1
    <3>3. FrameLen = 13
      <4>1. 14 + (Word - 1) = 13 + Word
        BY <1>2
      <4>2. (13 + Word) % Word = 13
        BY <1>2
      <4>3. QED
        BY <3>2, <4>1, <4>2
    <3>4. Overflows
      BY <1>7, <3>1, <3>3
    <3>5. QED
      BY <1>11, <3>4
  <2>3. QED
    BY <1>5, <2>1, <2>2
<1>12. NotAllowed <=> \/ KindOf(i) = "torn"
                      \/ KindOf(i) \in {"whole", "huge"} /\ reass > 0
  <2>1. /\ IsFragment <=> KindOf(i) \in {"first", "middle", "last", "torn"}
        /\ IsControl <=> KindOf(i) \in {"ping", "pong", "close", "torn"}
    BY DEF IsFragment, IsControl, Control
  <2>2. KindOf(i) \in {"ping", "pong", "close", "torn", "whole", "first", "middle",
                       "last", "huge"}
    BY <1>1 DEF AllKinds, Control, Data
  <2>3. QED
    BY <2>1, <2>2 DEF NotAllowed
<1>13. QED
  BY <1>10, <1>11, <1>12 DEF n, h, p

\* Of a sequence, what begins behind a and ends with b.
LEMMA Middle ==
  ASSUME NEW S, NEW s \in Seq(S), NEW a \in 0 .. Len(s), NEW b \in a .. Len(s)
  PROVE  /\ SubSeq(s, a + 1, b) \in Seq(S) /\ Len(SubSeq(s, a + 1, b)) = b - a
         /\ \A i \in 1 .. (b - a) : SubSeq(s, a + 1, b)[i] = s[a + i]
<1> DEFINE f == a + 1
           h == SubSeq(s, f, b)
<1>1. f \in Int /\ b \in Int /\ a \in Nat /\ f = a + 1 /\ \A i \in f .. b : s[i] \in S
  OBVIOUS
<1> HIDE DEF f
<1>2. /\ h \in Seq(S) /\ Len(h) = IF f <= b THEN b - f + 1 ELSE 0
      /\ \A i \in 1 .. b - f + 1 : h[i] = s[f + i - 1]
  BY <1>1, SubSeqProperties
<1> HIDE DEF h
<1>3. Len(h) = b - a
  BY <1>1, <1>2
<1>4. ASSUME NEW i \in 1 .. (b - a) PROVE h[i] = s[a + i]
  <2>1. i \in 1 .. b - f + 1 /\ f + i - 1 = a + i
    BY <1>1
  <2>2. QED
    BY <1>2, <2>1
<1>5. QED
  BY <1>2, <1>3, <1>4 DEF h, f

\* A masked byte, unmasked.
LEMMA Toggled ==
  ASSUME NEW x \in Cell, x.masked
  PROVE  [x EXCEPT !.masked = ~@] = [of |-> x.of, at |-> x.at, masked |-> FALSE]
<1> DEFINE y == [x EXCEPT !.masked = FALSE]
<1>1. [x EXCEPT !.masked = ~@] = y
  OBVIOUS
<1>2. y \in Cell /\ y.of = x.of /\ y.at = x.at /\ y.masked = FALSE
  BY DEF Cell
<1> HIDE DEF y
<1>3. y = [of |-> x.of, at |-> x.at, masked |-> FALSE]
  BY <1>2 DEF Cell
<1>4. QED
  BY <1>1, <1>3

\* The frame at the head, when all of it has come.
LEMMA WholeFacts ==
  ASSUME IsScript, wire \in Seq(Cell), NEW u \in 0 .. Len(script),
         NEW t \in Seq(Cell), Layout(u, t), reass = Len(After[u].open),
         t # <<>>, KindOf(u + 1) # "huge", IsWhole
  PROVE  \E r \in Seq(Cell) :
           /\ Follows(u + 1, r)
           /\ SubSeq(Unmasked, HeaderLen + 1, FrameLen) = Clear(u + 1)
           /\ SubSeq(Unmasked, HeaderLen + 1, Len(Rest)) = Clear(u + 1) \o r
           /\ SubSeq(Rest, FrameLen + 1, Len(Rest)) = r
<1> DEFINE i == u + 1
           n == Len(t)
           h == Header(i)
           p == Payload(i)
           c == Cells(i)
           d == Behind[i]
           m == FormOf(i).mask > 0
           cl == Clear(i)
<1>1. /\ Rest = t /\ u < Len(script) /\ Current = i
  BY RestFacts
<1>2. i \in 1 .. Len(script) /\ i \in 0 .. Len(script) /\ u \in 0 .. (Len(script) - 1)
  BY <1>1, ScriptLen
<1>3. Behind[u] = c \o d /\ d \in Seq(Cell)
  BY <1>2, BehindFacts
<1>4. KindOf(i) # "huge"
  OBVIOUS
<1>5. t \o wire = Behind[u]
  BY DEF Layout, Follows
<1> HIDE DEF i, n, h, p, c, d, m, cl
<1>6. HeaderLen = h /\ FrameLen = h + p /\ h + p <= n
  BY <1>1, <1>2, <1>4, HeaderFacts DEF n, h, p
<1>7. /\ c \in Seq(Cell) /\ Len(c) = h + p
      /\ \A j \in 1 .. Len(c) : c[j] = [of |-> i, at |-> j, masked |-> m /\ j > h]
      /\ cl \in Seq(Cell) /\ Len(cl) = p
      /\ \A j \in 1 .. p : cl[j] = [of |-> i, at |-> h + j, masked |-> FALSE]
  BY <1>2, CellsFacts DEF c, h, p, m, cl
<1>8. h \in 2 .. 14 /\ p \in 0 .. 2 /\ n \in Nat /\ h + p \in 0 .. n /\ i \in Nat
  <2>1. h \in 2 .. 14 /\ p \in 0 .. 2 /\ n \in Nat /\ i \in Nat
    BY <1>2, FrameFacts, ScriptLen DEF h, p, n
  <2>2. QED
    BY <1>6, <2>1
<1>9. PICK r \in Seq(Cell) : Between(t, wire, c, d, r)
  <2>1. Same(t, wire, c, d)
    BY <1>3, <1>5 DEF Same
  <2>2. Len(c) <= Len(t)
    BY <1>6, <1>7 DEF n
  <2>3. QED
    BY <1>3, <1>7, <2>1, <2>2, Longer
<1> DEFINE U == Unmasked
<1>10. /\ n = h + p + Len(r) /\ Len(r) \in Nat
       /\ \A j \in 1 .. (h + p) : t[j] = c[j]
       /\ \A j \in 1 .. Len(r) : t[h + p + j] = r[j]
  <2> DEFINE e == c \o r
  <2>1. t = e
    BY <1>9 DEF Between
  <2>2. /\ Len(e) = Len(c) + Len(r) /\ Len(r) \in Nat
        /\ \A j \in 1 .. Len(c) + Len(r) : e[j] = IF j <= Len(c) THEN c[j] ELSE r[j - Len(c)]
    <3>1. c \in Seq(Cell)
      BY <1>7
    <3>2. QED
      BY <3>1, ConcatProperties
  <2> HIDE DEF e
  <2>3. n = h + p + Len(r) /\ \A j \in 1 .. (h + p) : t[j] = c[j]
    BY <1>7, <1>8, <2>1, <2>2 DEF n
  <2>4. ASSUME NEW j \in 1 .. Len(r) PROVE t[h + p + j] = r[j]
    <3>1. /\ h + p + j \in 1 .. Len(c) + Len(r) /\ ~(h + p + j <= Len(c))
          /\ (h + p + j) - Len(c) = j
      BY <1>7, <1>8, <2>2
    <3>2. QED
      BY <2>1, <2>2, <3>1
  <2>5. QED
    BY <2>2, <2>3, <2>4
<1>11. U = [j \in 1 .. n |-> IF m /\ j \in (h + 1) .. (h + p)
                               THEN [t[j] EXCEPT !.masked = ~@] ELSE t[j]]
  <2>1. DOMAIN t = 1 .. n
    BY DEF n
  <2>2. QED
    BY <1>1, <1>6, <2>1 DEF Unmasked, m
<1> HIDE DEF U
<1>12. /\ \A j \in 1 .. p : U[h + j] = cl[j]
       /\ \A j \in 1 .. Len(r) : U[h + p + j] = r[j]
  <2>1. ASSUME NEW j \in 1 .. p PROVE U[h + j] = cl[j]
    <3>1. h + j \in 1 .. n /\ h + j \in 1 .. (h + p) /\ h + j > h /\ h + j \in (h + 1) .. (h + p)
      BY <1>8
    <3>2. t[h + j] = [of |-> i, at |-> h + j, masked |-> m]
      BY <1>7, <1>10, <3>1 DEF m
    <3>3. m \in BOOLEAN
      BY DEF m
    <3>4. U[h + j] = IF m THEN [t[h + j] EXCEPT !.masked = ~@] ELSE t[h + j]
      <4>1. U[h + j] = IF m /\ h + j \in (h + 1) .. (h + p)
                         THEN [t[h + j] EXCEPT !.masked = ~@] ELSE t[h + j]
        BY <1>11, <3>1
      <4>2. QED
        BY <3>1, <4>1
    <3>5. U[h + j] = [of |-> i, at |-> h + j, masked |-> FALSE]
      <4>1. CASE m
        <5> DEFINE x == t[h + j]
        <5>1. x \in Cell
          <6>1. h + j \in 1 .. Len(t)
            BY <3>1 DEF n
          <6>2. QED
            BY <6>1
        <5>2. x.masked /\ x.of = i /\ x.at = h + j
          BY <3>2, <4>1
        <5>3. U[h + j] = [x EXCEPT !.masked = ~@]
          BY <3>4, <4>1
        <5> HIDE DEF x
        <5>4. [x EXCEPT !.masked = ~@] = [of |-> x.of, at |-> x.at, masked |-> FALSE]
          BY <5>1, <5>2, Toggled
        <5>5. QED
          BY <5>2, <5>3, <5>4
      <4>2. CASE ~m
        BY <3>2, <3>3, <3>4, <4>2
      <4>3. QED
        BY <4>1, <4>2
    <3>6. QED
      BY <1>7, <3>5
  <2>2. ASSUME NEW j \in 1 .. Len(r) PROVE U[h + p + j] = r[j]
    <3>1. h + p + j \in 1 .. n /\ h + p + j \notin (h + 1) .. (h + p)
      BY <1>8, <1>10
    <3>2. U[h + p + j] = t[h + p + j]
      BY <1>11, <3>1
    <3>3. QED
      BY <1>10, <3>2
  <2>3. QED
    BY <2>1, <2>2
<1>13. U \in Seq(Cell) /\ Len(U) = n
  <2>1. ASSUME NEW j \in 1 .. n PROVE U[j] \in Cell
    <3>1. t[j] \in Cell
      BY DEF n
    <3>2. [t[j] EXCEPT !.masked = ~@] \in Cell
      BY <3>1 DEF Cell
    <3>3. U[j] \in {t[j], [t[j] EXCEPT !.masked = ~@]}
      BY <1>11
    <3>4. QED
      BY <3>1, <3>2, <3>3
  <2>2. U = [j \in 1 .. n |-> U[j]]
    BY <1>11
  <2>3. U \in [1 .. n -> Cell]
    BY <2>1, <2>2
  <2>4. QED
    BY <1>8, <2>3
<1>14. SubSeq(U, h + 1, h + p) = cl
  <2> DEFINE s == SubSeq(U, h + 1, h + p)
  <2>1. /\ s \in Seq(Cell) /\ Len(s) = (h + p) - h
        /\ \A j \in 1 .. ((h + p) - h) : s[j] = U[h + j]
    <3>1. h \in 0 .. Len(U) /\ h + p \in h .. Len(U)
      BY <1>8, <1>13
    <3>2. QED
      BY <1>13, <3>1, Middle
  <2>2. (h + p) - h = p
    BY <1>8
  <2> HIDE DEF s
  <2>3. Len(s) = Len(cl) /\ \A j \in 1 .. Len(s) : s[j] = cl[j]
    BY <1>7, <1>12, <2>1, <2>2
  <2>4. s = cl
    BY <1>7, <2>1, <2>3, SeqEqual
  <2>5. QED
    BY <2>4 DEF s
<1>15. SubSeq(U, h + 1, n) = cl \o r
  <2> DEFINE s == SubSeq(U, h + 1, n)
             e == cl \o r
  <2>1. /\ s \in Seq(Cell) /\ Len(s) = n - h
        /\ \A j \in 1 .. (n - h) : s[j] = U[h + j]
    <3>1. h \in 0 .. Len(U) /\ n \in h .. Len(U)
      BY <1>8, <1>13
    <3>2. QED
      BY <1>13, <3>1, Middle
  <2>2. /\ e \in Seq(Cell) /\ Len(e) = p + Len(r)
        /\ \A j \in 1 .. p + Len(r) : e[j] = IF j <= p THEN cl[j] ELSE r[j - p]
    BY <1>7, ConcatProperties, SMTT(30)
  <2> HIDE DEF s, e
  <2>3. n - h = p + Len(r)
    BY <1>8, <1>10
  <2>4. ASSUME NEW j \in 1 .. Len(s) PROVE s[j] = e[j]
    <3>1. j \in 1 .. p + Len(r) /\ s[j] = U[h + j]
      BY <2>1, <2>3
    <3>2. CASE j <= p
      <4>1. j \in 1 .. p
        BY <1>8, <3>1, <3>2
      <4>2. QED
        BY <1>12, <2>2, <3>1, <3>2, <4>1
    <3>3. CASE ~(j <= p)
      <4>1. j - p \in 1 .. Len(r) /\ h + p + (j - p) = h + j
        BY <1>8, <1>10, <3>1, <3>3
      <4>2. U[h + p + (j - p)] = r[j - p]
        BY <1>12, <4>1
      <4>3. QED
        BY <2>2, <3>1, <3>3, <4>1, <4>2
    <3>4. QED
      BY <3>2, <3>3
  <2>5. s = e
    BY <2>1, <2>2, <2>3, <2>4, SeqEqual
  <2>6. QED
    BY <2>5 DEF s, e
<1>16. SubSeq(t, (h + p) + 1, n) = r
  <2> DEFINE x == c
  <2>1. SubSeq(c \o r, Len(c) + 1, Len(c \o r)) = r
    BY <1>7, CutConcat
  <2>2. c \o r = t /\ Len(c) = h + p /\ Len(t) = n
    BY <1>7, <1>9 DEF n, Between
  <2>3. QED
    BY <2>1, <2>2, Zenon
<1>17. Follows(i, r)
  BY <1>9 DEF Follows, d, Between
<1>18. /\ SubSeq(Unmasked, HeaderLen + 1, FrameLen) = cl
       /\ SubSeq(Unmasked, HeaderLen + 1, Len(Rest)) = cl \o r
       /\ SubSeq(Rest, FrameLen + 1, Len(Rest)) = r
  <2>1. Len(Rest) = n
    BY <1>1 DEF n
  <2>2. QED
    BY <1>1, <1>6, <1>14, <1>15, <1>16, <2>1, Zenon DEF U
<1>19. QED
  BY <1>17, <1>18 DEF i, cl

\* The script does not change, nor what depends on it alone.
LEMMA ScriptSame ==
  ASSUME script' = script
  PROVE  After' = After /\ Behind' = Behind /\ IsScript' = IsScript
<1>1. After' = After
  BY DEF After, Absorb, Refused, Nested, Message, KindOf, Clear, Op, Cells, Header, Payload, FormOf, Form
<1>2. Behind' = Behind
  BY DEF Behind, Cells, Header, Payload, FormOf, Form
<1>3. IsScript' = IsScript
  BY DEF IsScript
<1>4. QED
  BY <1>1, <1>2, <1>3

LEMMA StopsSame ==
  ASSUME script' = script, NEW u
  PROVE  /\ Refused(After[u], u + 1)' <=> Refused(After[u], u + 1)
         /\ Nested(After[u], u + 1)' <=> Nested(After[u], u + 1)
BY ScriptSame DEF Refused, Nested, KindOf

\* A step that leaves u frames taken.
LEMMA MovedTo ==
  ASSUME IsScript, script' = script, wire' \in Seq(Cell), closing' \in BOOLEAN,
         NEW u \in 0 .. Len(script), NEW t \in Seq(Cell), astray' = FALSE,
         ~After[u].over, buf' = After[u].open \o t, t \o wire' = Behind[u],
         reass' = Len(After[u].open), delivered' = After[u].seen,
         Said(u)', pc' # "deliver" => AtRest(u)'
  PROVE  IInv'
<1>1. After' = After /\ Behind' = Behind /\ IsScript'
  BY ScriptSame
<1>2. Taken(u, t)'
  BY <1>1 DEF Taken, Layout, Follows
<1>3. u \in 0 .. Len(script')
  OBVIOUS
<1> HIDE DEF Taken
<1>4. QED
  BY <1>1, <1>2, <1>3 DEF IInv

\* A step that takes nothing and answers nothing.
LEMMA StaysInv ==
  ASSUME IInv, NEW u \in 0 .. Len(script), NEW t \in Seq(Cell), Taken(u, t), ~astray,
         UNCHANGED <<script, wire, buf, reass, closing, astray, delivered, answers>>,
         pc' # "deliver" => AtRest(u)
  PROVE  IInv'
<1>1. After' = After /\ Behind' = Behind
  BY ScriptSame
<1>2. Refused(After[u], u + 1)' <=> Refused(After[u], u + 1)
  BY StopsSame
<1>3. Said(u)'
  <2>1. Said(u)
    BY DEF Taken
  <2>2. QED
    BY <1>1, <1>2, <2>1 DEF Said, Rejected, Sent, Refusals
<1>4. pc' # "deliver" => AtRest(u)'
  BY <1>1, <1>2 DEF AtRest, There, Sent, Refusals
<1>5. QED
  BY <1>3, <1>4, MovedTo DEF IInv, Taken, Layout, Follows

\* Once the frames are lost, they stay lost.
LEMMA LostInv ==
  ASSUME IInv, astray, script' = script, astray' = astray,
         wire' \in Seq(Cell), Len(wire') <= Len(wire),
         closing' \in BOOLEAN, closing => closing'
  PROVE  IInv'
<1>1. PICK u \in 0 .. Len(script) : Misled(u)
  BY DEF IInv
<1>2. /\ After' = After /\ Behind' = Behind /\ IsScript'
      /\ Nested(After[u], u + 1)' <=> Nested(After[u], u + 1)
  BY ScriptSame, StopsSame DEF IInv
<1>3. There(u + 1)'
  <2>1. u < Len(script) /\ Len(wire) <= Len(Behind[u + 1])
    BY <1>1 DEF Misled, There
  <2>2. u + 1 \in 0 .. Len(script)
    BY <2>1, ScriptLen DEF IInv
  <2>3. Behind[u + 1] \in Seq(Cell) /\ wire \in Seq(Cell)
    BY <2>2, BehindFacts DEF IInv
  <2>4. Len(wire) \in Nat /\ Len(wire') \in Nat /\ Len(Behind[u + 1]) \in Nat
    BY <2>3
  <2>5. Len(wire') <= Len(Behind[u + 1])
    BY <2>1, <2>4
  <2>6. QED
    BY <1>2, <2>5 DEF There
<1>4. Misled(u)'
  <2>1. After[u].asked => closing'
    BY <1>1 DEF Misled
  <2>2. QED
    BY <1>1, <1>2, <1>3, <2>1 DEF Misled
<1>5. u \in 0 .. Len(script')
  OBVIOUS
<1> HIDE DEF Misled
<1>6. QED
  BY <1>2, <1>4, <1>5 DEF IInv

\* Of bytes between two parts, it does not matter to which they belong.
Moves(a, b, c) == (a \o b) \o c = a \o (b \o c)
LEMMA Shift ==
  ASSUME NEW S, NEW a \in Seq(S), NEW b \in Seq(S), NEW c \in Seq(S)
  PROVE  Moves(a, b, c)
BY ConcatAssociative DEF Moves

\* mg_recv_tcp.
LEMMA ReceiveInv == ASSUME IInv, Receive PROVE IInv'
<1>1. PICK n \in 1 .. Len(wire) :
        buf' = buf \o SubSeq(wire, 1, n) /\ wire' = SubSeq(wire, n + 1, Len(wire))
  BY DEF Receive
<1>2. /\ pc' = "deliver"
      /\ UNCHANGED <<script, reass, closing, astray, delivered, answers>>
  BY DEF Receive, NoAnswer
<1>4. IsScript /\ wire \in Seq(Cell) /\ closing \in BOOLEAN
  BY DEF IInv
<1> DEFINE m == SubSeq(wire, 1, n)
           w == SubSeq(wire, n + 1, Len(wire))
<1>5. m \in Seq(Cell) /\ w \in Seq(Cell) /\ wire = m \o w /\ Len(w) <= Len(wire)
  <2> DEFINE l == Len(wire)
             f == n + 1
  <2>1. /\ l \in Nat /\ n \in Nat /\ n <= l /\ f \in Int /\ f = n + 1 /\ f >= 2
        /\ 1 \in 1 .. l + 1 /\ n \in 1 - 1 .. l /\ l \in n .. l
    BY <1>4
  <2>2. \A i \in 1 .. l : wire[i] \in Cell
    BY <1>4
  <2>3. SubSeq(wire, 1, n) \o SubSeq(wire, n + 1, l) = SubSeq(wire, 1, l)
    <3>1. l = Len(wire)
      OBVIOUS
    <3> HIDE DEF l, f
    <3>2. QED
      BY <1>4, <2>1, <3>1, ConcatAdjacentSubSeq
  <2>4. SubSeq(wire, 1, l) = wire
    BY <1>4, SubSeqFull
  <2> HIDE DEF l, f
  <2>5. SubSeq(wire, 1, n) \in Seq(Cell)
    <3>1. \A i \in 1 .. n : wire[i] \in Cell
      BY <2>1, <2>2
    <3>2. QED
      BY <2>1, <3>1, SubSeqProperties
  <2>6. SubSeq(wire, f, l) \in Seq(Cell) /\ Len(SubSeq(wire, f, l)) = IF f <= l THEN l - f + 1 ELSE 0
    <3>1. \A i \in f .. l : wire[i] \in Cell
      BY <2>1, <2>2
    <3>2. QED
      BY <2>1, <3>1, SubSeqProperties
  <2>7. w \in Seq(Cell) /\ Len(w) <= Len(wire)
    <3>1. w = SubSeq(wire, f, l) /\ Len(wire) = l
      BY DEF f, l
    <3> HIDE DEF w
    <3>2. QED
      BY <2>1, <2>6, <3>1
  <2>8. QED
    BY <2>3, <2>4, <2>5, <2>7 DEF l
<1>13. CASE astray
  BY <1>1, <1>2, <1>4, <1>5, <1>13, LostInv
<1> SUFFICES ASSUME ~astray PROVE IInv'
  BY <1>13
<1>3. PICK u \in 0 .. Len(script), t \in Seq(Cell) : Taken(u, t)
  BY DEF IInv
<1> DEFINE o == After[u].open
<1> HIDE DEF m, w
<1>6. o \in Seq(Cell) /\ buf = o \o t /\ t \o wire = Behind[u]
  <2>1. o \in Seq(Cell)
    BY <1>4, AfterFacts DEF Reading
  <2>2. QED
    BY <1>3, <2>1 DEF Taken, Layout, Follows
<1>7. t \o m \in Seq(Cell)
  BY <1>5, ConcatProperties
<1>8. buf' = o \o (t \o m)
  <2>1. buf' = buf \o m
    BY <1>1 DEF m
  <2>2. buf' = (o \o t) \o m
    BY <1>6, <2>1, Zenon
  <2> HIDE DEF o
  <2>3. Moves(o, t, m)
    <3>1. o \in Seq(Cell) /\ m \in Seq(Cell) /\ t \in Seq(Cell)
      BY <1>5, <1>6
    <3>2. QED
      BY <3>1, Shift
  <2>4. QED
    BY <2>2, <2>3, Zenon DEF Moves
<1>9. (t \o m) \o wire' = Behind[u]
  <2>1. wire' = w
    BY <1>1 DEF w
  <2>2. Moves(t, m, w)
    <3>1. w \in Seq(Cell) /\ m \in Seq(Cell)
      BY <1>5
    <3>2. QED
      BY <3>1, Shift
  <2>3. t \o (m \o w) = Behind[u]
    BY <1>5, <1>6, Zenon
  <2>4. QED
    BY <2>1, <2>2, <2>3, Zenon DEF Moves
<1>10. Said(u)'
  <2>1. Said(u)
    BY <1>3 DEF Taken
  <2>2. After' = After /\ Behind' = Behind /\ (Refused(After[u], u + 1)' <=> Refused(After[u], u + 1))
    BY <1>2, ScriptSame, StopsSame
  <2>3. Rejected(u) => Rejected(u)'
    <3>1. Len(wire') <= Len(wire) /\ Len(wire') \in Nat /\ Len(wire) \in Nat
      BY <1>1, <1>4, <1>5 DEF w
    <3>2. Behind[u] \in Seq(Cell)
      BY <1>4, BehindFacts
    <3>3. Len(Behind[u]) \in Nat
      BY <3>2
    <3>4. QED
      BY <1>2, <2>2, <3>1, <3>3 DEF Rejected
  <2> HIDE DEF o
  <2>4. QED
    BY <1>2, <2>1, <2>2, <2>3 DEF Said, Sent, Refusals
<1>11. /\ wire' \in Seq(Cell) /\ closing' \in BOOLEAN /\ script' = script /\ astray' = FALSE
       /\ ~After[u].over /\ reass' = Len(o) /\ delivered' = After[u].seen
  BY <1>1, <1>2, <1>3, <1>4, <1>5 DEF Taken, w, IInv
<1>12. QED
  BY <1>2, <1>4, <1>7, <1>8, <1>9, <1>10, <1>11, MovedTo

\* A frame to refuse, of which some is there, ends the connection.
LEMMA RejectInv ==
  ASSUME IInv, NEW u \in 0 .. Len(script), NEW t \in Seq(Cell), Taken(u, t), ~astray,
         Rejected(u), Answer(<<"close", <<>>>>),
         UNCHANGED <<script, wire, buf, reass, astray, delivered>>
  PROVE  IInv'
<1>1. /\ closing' = TRUE
      /\ answers' = Append(answers, <<"close", <<>>>>)
  BY DEF Answer, IInv
<1>2. After' = After /\ Behind' = Behind /\ (Refused(After[u], u + 1)' <=> Refused(After[u], u + 1))
  BY ScriptSame, StopsSame
<1>3. Rejected(u)'
  BY <1>2 DEF Rejected
<1>4. After[u].answers \in Seq(Answers)
  BY AfterFacts DEF Reading, IInv
<1>5. PICK n \in Nat \ {0} : answers' = After[u].answers \o Refusals(n)
  <2> DEFINE a == After[u].answers
  <2>1. Said(u)
    BY DEF Taken
  <2>2. CASE answers = a
    <3>1. Append(a, <<"close", <<>>>>) = a \o Refusals(1)
      BY <1>4, OneMoreRefusal
    <3>2. 1 \in Nat \ {0}
      OBVIOUS
    <3>3. QED
      BY <1>1, <2>2, <3>1, <3>2
  <2>3. CASE \E m \in Nat \ {0} : Sent(u, m)
    <3>1. PICK m \in Nat \ {0} : answers = a \o Refusals(m)
      BY <2>3 DEF Sent
    <3>2. Append(a \o Refusals(m), <<"close", <<>>>>) = a \o Refusals(m + 1)
      BY <1>4, OneMoreRefusal
    <3>3. m + 1 \in Nat \ {0}
      OBVIOUS
    <3>4. QED
      BY <1>1, <3>1, <3>2, <3>3
  <2>4. QED
    BY <2>1, <2>2, <2>3 DEF Said
<1>6. Sent(u, n)'
  BY <1>2, <1>5 DEF Sent, Refusals
<1>7. Said(u)'
  BY <1>1, <1>3, <1>6 DEF Said
<1>8. AtRest(u)'
  BY <1>1, <1>3, <1>6 DEF AtRest, Rejected
<1>9. QED
  BY <1>1, <1>7, <1>8, MovedTo DEF IInv, Taken, Layout, Follows

\* What one frame more amounts to, when the reader goes on.
LEMMA OneMore ==
  ASSUME IsScript, NEW u \in 0 .. (Len(script) - 1),
         ~After[u].over, ~Stops(After[u], u + 1)
  PROVE  /\ ~After[u + 1].over
         /\ After[u + 1].open =
              CASE KindOf(u + 1) = "first" -> <<Op(u + 1)>> \o Clear(u + 1)
                [] KindOf(u + 1) = "middle" -> After[u].open \o Clear(u + 1)
                [] KindOf(u + 1) = "last" -> <<>>
                [] OTHER -> After[u].open
         /\ After[u + 1].seen =
              CASE KindOf(u + 1) \in {"first", "middle"} -> After[u].seen
                [] KindOf(u + 1) = "last" ->
                     Append(After[u].seen, Message(After[u].open \o Clear(u + 1)))
                [] OTHER -> Append(After[u].seen, <<KindOf(u + 1), Clear(u + 1)>>)
         /\ After[u + 1].answers =
              CASE KindOf(u + 1) = "ping" ->
                     Append(After[u].answers, <<"pong", Clear(u + 1)>>)
                [] KindOf(u + 1) = "close" ->
                     Append(After[u].answers, <<"close", Clear(u + 1)>>)
                [] OTHER -> After[u].answers
         /\ After[u + 1].asked = (After[u].asked \/ KindOf(u + 1) = "close")
<1> DEFINE i == u + 1
           st == After[u]
<1>1. /\ i \in 1 .. Len(script) /\ st \in Reading /\ After[i] = Absorb(st, i)
      /\ ~st.over /\ ~Stops(st, i)
  BY ScriptLen, AfterFacts
<1> HIDE DEF i, st
<1>2. /\ ~Absorb(st, i).over
      /\ Absorb(st, i).open =
           CASE KindOf(i) = "first" -> <<Op(i)>> \o Clear(i)
             [] KindOf(i) = "middle" -> st.open \o Clear(i)
             [] KindOf(i) = "last" -> <<>>
             [] OTHER -> st.open
      /\ Absorb(st, i).seen =
           CASE KindOf(i) \in {"first", "middle"} -> st.seen
             [] KindOf(i) = "last" -> Append(st.seen, Message(st.open \o Clear(i)))
             [] OTHER -> Append(st.seen, <<KindOf(i), Clear(i)>>)
      /\ Absorb(st, i).answers =
           CASE KindOf(i) = "ping" -> Append(st.answers, <<"pong", Clear(i)>>)
             [] KindOf(i) = "close" -> Append(st.answers, <<"close", Clear(i)>>)
             [] OTHER -> st.answers
      /\ Absorb(st, i).asked = (st.asked \/ KindOf(i) = "close")
  BY <1>1, AbsorbFacts
<1>3. QED
  BY <1>1, <1>2, Zenon DEF i, st

\* The frame at the head has been taken.
LEMMA TakenNext ==
  ASSUME IInv, NEW u \in 0 .. (Len(script) - 1), NEW r \in Seq(Cell), Follows(u + 1, r),
         ~After[u + 1].over, UNCHANGED <<script, wire>>, pc' = "deliver", astray' = FALSE,
         buf' = After[u + 1].open \o r, reass' = Len(After[u + 1].open),
         delivered' = After[u + 1].seen,
         answers' = After[u + 1].answers, closing' = After[u + 1].asked
  PROVE  IInv'
<1> DEFINE i == u + 1
<1>1. i \in 0 .. Len(script) /\ IsScript /\ wire' \in Seq(Cell) /\ script' = script
  BY ScriptLen DEF IInv
<1>2. After[i].asked \in BOOLEAN
  BY <1>1, AfterFacts DEF Reading
<1>3. After' = After /\ Behind' = Behind
  BY ScriptSame
<1> HIDE DEF i
<1>4. Said(i)'
  BY <1>3 DEF Said, i
<1>5. r \o wire' = Behind[i]
  BY DEF Follows, i
<1>6. /\ ~After[i].over /\ buf' = After[i].open \o r /\ reass' = Len(After[i].open)
      /\ delivered' = After[i].seen /\ closing' \in BOOLEAN
  BY <1>2 DEF i
<1>7. pc' # "deliver" => AtRest(i)'
  OBVIOUS
<1>8. QED
  BY <1>1, <1>4, <1>5, <1>6, <1>7, MovedTo

\* The head of the buffer, when the handler takes a frame.
LEMMA TakeFacts ==
  ASSUME IInv, Whole, NEW u \in 0 .. Len(script), NEW t \in Seq(Cell), Taken(u, t)
  PROVE  /\ u \in 0 .. (Len(script) - 1) /\ Current = u + 1
         /\ KindOf(u + 1) \in AllKinds \ {"huge", "torn"}
         /\ ~After[u].over /\ ~Refused(After[u], u + 1)
         /\ delivered = After[u].seen
         /\ answers = After[u].answers /\ closing = After[u].asked
         /\ reass = Len(After[u].open) /\ SubSeq(buf, 1, reass) = After[u].open
         /\ After[u].open \in Seq(Cell)
         /\ DataLen = Payload(u + 1) /\ Rest # <<>> /\ Rest[1] = Op(u + 1)
         /\ \E r \in Seq(Cell) :
              /\ Follows(u + 1, r)
              /\ SubSeq(Unmasked, HeaderLen + 1, FrameLen) = Clear(u + 1)
              /\ SubSeq(Unmasked, HeaderLen + 1, Len(Rest)) = Clear(u + 1) \o r
              /\ SubSeq(Rest, FrameLen + 1, Len(Rest)) = r
<1> DEFINE i == u + 1
<1>1. IsScript /\ wire \in Seq(Cell)
  BY DEF IInv
<1>2. /\ ~After[u].over /\ Layout(u, t) /\ reass = Len(After[u].open)
      /\ delivered = After[u].seen /\ Said(u)
  BY DEF Taken
<1>3. /\ After[u].open \in Seq(Cell)
      /\ Rest = t /\ SubSeq(buf, 1, reass) = After[u].open
  BY <1>1, <1>2, RestFacts
<1>4. InStep /\ ~NotAllowed /\ ~Overflows /\ IsWhole /\ t # <<>>
  BY <1>3 DEF Whole, InStep
<1>5. u < Len(script) /\ Current = i /\ t[1] = Op(i)
  BY <1>1, <1>2, <1>4, RestFacts
<1>6. i \in 1 .. Len(script) /\ u \in 0 .. (Len(script) - 1)
  BY <1>1, <1>5, ScriptLen
<1> HIDE DEF i
<1>7. KindOf(i) # "huge" /\ KindOf(i) # "torn" /\ ~(KindOf(i) = "whole" /\ reass > 0)
  BY <1>1, <1>3, <1>4, <1>5, <1>6, HeaderFacts
<1>8. DataLen = Payload(i)
  BY <1>1, <1>3, <1>4, <1>5, <1>6, <1>7, HeaderFacts
<1>9. KindOf(i) \in AllKinds
  BY <1>1, <1>6, FrameFacts
<1>10. ~Refused(After[u], i)
  <2>1. KindOf(i) = "whole" => After[u].open = <<>>
    <3> DEFINE o == After[u].open
    <3>1. o \in Seq(Cell) /\ (KindOf(i) = "whole" => ~(Len(o) > 0))
      BY <1>2, <1>3, <1>7
    <3> HIDE DEF o
    <3>2. KindOf(i) = "whole" => o = <<>>
      BY <3>1
    <3>3. QED
      BY <3>2 DEF o
  <2>2. QED
    BY <1>7, <2>1 DEF Refused
<1>11. answers = After[u].answers /\ closing = After[u].asked
  BY <1>2, <1>10 DEF Said, Rejected, i
<1>12. \E r \in Seq(Cell) :
         /\ Follows(u + 1, r)
         /\ SubSeq(Unmasked, HeaderLen + 1, FrameLen) = Clear(u + 1)
         /\ SubSeq(Unmasked, HeaderLen + 1, Len(Rest)) = Clear(u + 1) \o r
         /\ SubSeq(Rest, FrameLen + 1, Len(Rest)) = r
  <2>1. KindOf(u + 1) # "huge"
    BY <1>7 DEF i
  <2>2. QED
    BY <1>1, <1>2, <1>4, <2>1, WholeFacts
<1>13. KindOf(u + 1) \in AllKinds \ {"huge", "torn"} /\ ~Refused(After[u], u + 1)
  BY <1>7, <1>9, <1>10 DEF i
<1>14. Current = u + 1 /\ DataLen = Payload(u + 1) /\ Rest # <<>> /\ Rest[1] = Op(u + 1)
  BY <1>3, <1>4, <1>5, <1>8 DEF i
<1>15. QED
  BY <1>2, <1>3, <1>6, <1>11, <1>12, <1>13, <1>14

\* A frame of its own.
LEMMA TakeFrameInv == ASSUME IInv, TakeFrame PROVE IInv'
<1>2. Whole /\ ~IsFragment /\ IsScript /\ astray = FALSE
  BY DEF TakeFrame, IInv, Whole, Looks
<1>1. PICK u \in 0 .. Len(script), t \in Seq(Cell) : Taken(u, t)
  BY <1>2 DEF IInv
<1> DEFINE i == u + 1
           k == KindOf(i)
           c == Clear(i)
           st == After[u]
           nx == After[i]
<1>3. /\ u \in 0 .. (Len(script) - 1) /\ Current = i /\ k \in AllKinds \ {"huge", "torn"}
      /\ ~st.over /\ ~Refused(st, i)
      /\ delivered = st.seen /\ answers = st.answers /\ closing = st.asked
      /\ reass = Len(st.open) /\ SubSeq(buf, 1, reass) = st.open
  BY <1>1, <1>2, TakeFacts
<1>4. PICK r \in Seq(Cell) :
        /\ Follows(i, r)
        /\ SubSeq(Unmasked, HeaderLen + 1, FrameLen) = c
        /\ SubSeq(Rest, FrameLen + 1, Len(Rest)) = r
  BY <1>1, <1>2, TakeFacts
<1>5. k \in {"whole", "ping", "pong", "close"}
  BY <1>2, <1>3 DEF IsFragment, AllKinds, Control, Data
<1>6. /\ ~nx.over
      /\ nx.open = CASE k = "first" -> <<Op(i)>> \o c
                     [] k = "middle" -> st.open \o c
                     [] k = "last" -> <<>>
                     [] OTHER -> st.open
      /\ nx.seen = CASE k \in {"first", "middle"} -> st.seen
                     [] k = "last" -> Append(st.seen, Message(st.open \o c))
                     [] OTHER -> Append(st.seen, <<k, c>>)
      /\ nx.answers = CASE k = "ping" -> Append(st.answers, <<"pong", c>>)
                        [] k = "close" -> Append(st.answers, <<"close", c>>)
                        [] OTHER -> st.answers
      /\ nx.asked = (st.asked \/ k = "close")
  <2>1. ~Stops(st, i)
    BY <1>3, <1>5 DEF Stops, Nested
  <2>2. QED
    BY <1>2, <1>3, <2>1, OneMore
<1>7. st.asked \in BOOLEAN
  BY <1>2, AfterFacts DEF Reading
<1>8. /\ CASE k = "ping" -> Answer(<<"pong", c>>)
           [] k = "close" -> Answer(<<"close", c>>)
           [] OTHER -> NoAnswer
      /\ delivered' = Append(delivered, <<k, c>>)
      /\ buf' = st.open \o r
      /\ UNCHANGED <<script, wire, reass, astray, pc>>
  BY <1>3, <1>4 DEF TakeFrame, PongData, Cut
<1>9. pc' = "deliver" /\ astray' = FALSE
  BY <1>2, <1>8 DEF Whole, Looks
<1> HIDE DEF i, k, c, st, nx
<1>10. nx.open = st.open /\ nx.seen = Append(st.seen, <<k, c>>)
  BY <1>5, <1>6
<1>11. answers' = nx.answers /\ closing' = nx.asked
  <2>1. CASE k = "ping"
    BY <1>3, <1>6, <1>7, <1>8, <2>1 DEF Answer
  <2>2. CASE k = "close"
    BY <1>3, <1>6, <1>7, <1>8, <2>2 DEF Answer
  <2>3. CASE k \in {"whole", "pong"}
    BY <1>3, <1>6, <1>7, <1>8, <2>3 DEF NoAnswer
  <2>4. QED
    BY <1>5, <2>1, <2>2, <2>3
<1>12. /\ buf' = nx.open \o r /\ reass' = Len(nx.open) /\ delivered' = nx.seen
       /\ ~nx.over /\ script' = script /\ wire' = wire
  BY <1>3, <1>6, <1>8, <1>10
<1>13. QED
  BY <1>3, <1>4, <1>9, <1>11, <1>12, TakenNext DEF nx, i

\* A fragment.
LEMMA TakeFragmentInv == ASSUME IInv, TakeFragment PROVE IInv'
<1>2. Whole /\ IsFragment /\ IsScript /\ astray = FALSE
  BY DEF TakeFragment, IInv, Whole, Looks
<1>1. PICK u \in 0 .. Len(script), t \in Seq(Cell) : Taken(u, t)
  BY <1>2 DEF IInv
<1> DEFINE i == u + 1
           k == KindOf(i)
           c == Clear(i)
           st == After[u]
           nx == After[i]
           o == st.open
<1>3. /\ u \in 0 .. (Len(script) - 1) /\ Current = i /\ k \in AllKinds \ {"huge", "torn"}
      /\ ~st.over /\ ~Refused(st, i)
      /\ delivered = st.seen /\ answers = st.answers /\ closing = st.asked
      /\ reass = Len(o) /\ SubSeq(buf, 1, reass) = o /\ o \in Seq(Cell)
      /\ DataLen = Payload(i) /\ Rest[1] = Op(i)
  BY <1>1, <1>2, TakeFacts
<1>4. PICK r \in Seq(Cell) :
        /\ Follows(i, r)
        /\ SubSeq(Unmasked, HeaderLen + 1, Len(Rest)) = c \o r
  BY <1>1, <1>2, TakeFacts
<1>5. k \in {"first", "middle", "last"}
  BY <1>2, <1>3 DEF IsFragment
<1>7. /\ st.asked \in BOOLEAN /\ c \in Seq(Cell) /\ Len(c) = Payload(i)
      /\ Op(i) \in Cell
  <2>1. i \in 1 .. Len(script) /\ i \in Nat
    BY <1>2, <1>3, ScriptLen
  <2>2. c \in Seq(Cell) /\ Len(c) = Payload(i) /\ Op(i) = [of |-> i, at |-> 1, masked |-> FALSE]
    BY <1>2, <2>1, CellsFacts
  <2>3. st.asked \in BOOLEAN
    BY <1>2, AfterFacts DEF Reading
  <2>4. Op(i) \in Cell
    <3> HIDE DEF i, c, o, st
    <3>1. QED
      BY <2>1, <2>2 DEF Cell
  <2>5. QED
    BY <2>2, <2>3, <2>4
<1> DEFINE head == o \o (IF k = "first" THEN <<Op(i)>> ELSE <<>>)
           all == head \o (c \o r)
           n == (IF k = "first" THEN 1 ELSE reass) + DataLen
<1>9. /\ IF k = "last"
           THEN /\ delivered' = Append(delivered, Message(SubSeq(all, 1, n)))
                /\ buf' = SubSeq(all, n + 1, Len(all))
           ELSE buf' = all /\ delivered' = delivered
      /\ reass' = IF k = "last" THEN 0 ELSE n
      /\ astray' = (k = "first" /\ reass > 0)
      /\ UNCHANGED <<script, wire, pc, answers, closing>>
  <2>1. IsFirst <=> k = "first"
    BY <1>3, <1>5 DEF IsFirst
  <2>2. head = SubSeq(buf, 1, reass) \o (IF IsFirst THEN <<Rest[1]>> ELSE <<>>)
    BY <1>3, <2>1
  <2>3. all = head \o SubSeq(Unmasked, HeaderLen + 1, Len(Rest))
    BY <1>4
  <2>4. n = (IF IsFirst THEN 1 ELSE reass) + DataLen
    BY <2>1
  <2>5. ReassLen(n) = IF k = "last" THEN 0 ELSE n
    BY <1>3 DEF ReassLen
  <2>6. astray' = (k = "first" /\ reass > 0)
    BY <2>1 DEF TakeFragment
  <2> HIDE DEF head, all, n
  <2>7. QED
    BY <1>3, <2>2, <2>3, <2>4, <2>5, <2>6 DEF TakeFragment, NoAnswer
<1>10. pc' = "deliver" /\ script' = script /\ wire' = wire
  BY <1>2, <1>9 DEF Whole, Looks
<1>16. reass > 0 <=> o # <<>>
  <2> HIDE DEF o
  <2>1. QED
    BY <1>3
<1>17. CASE Nested(st, i)
  <2>1. astray' = TRUE
    BY <1>9, <1>16, <1>17 DEF Nested
  <2>2. There(i)
    <3>1. r \o wire = Behind[i] /\ wire \in Seq(Cell)
      BY <1>4 DEF Follows, IInv
    <3> HIDE DEF i
    <3>2. Len(r \o wire) = Len(r) + Len(wire)
      BY <1>4, <3>1, ConcatProperties
    <3>4. Len(r) \in Nat /\ Len(wire) \in Nat
      BY <1>4, <3>1
    <3>3. Len(wire) <= Len(Behind[i])
      BY <3>1, <3>2, <3>4
    <3>5. QED
      BY <3>3 DEF There
  <2>3. /\ After' = After /\ Behind' = Behind /\ IsScript'
        /\ Nested(After[u], u + 1)' <=> Nested(After[u], u + 1)
    BY <1>2, <1>10, ScriptSame, StopsSame
  <2>4. Misled(u)'
    <3>1. There(u + 1)'
      BY <1>10, <2>2, <2>3 DEF There
    <3>2. closing' = After[u].asked
      BY <1>3, <1>9
    <3>3. u < Len(script') /\ ~After[u].over /\ Nested(After[u], u + 1)
      BY <1>3, <1>10, <1>17
    <3>4. QED
      BY <2>3, <3>1, <3>2, <3>3 DEF Misled
  <2>5. u \in 0 .. Len(script') /\ wire' \in Seq(Cell) /\ closing' \in BOOLEAN
    BY <1>9, <1>10 DEF IInv
  <2> HIDE DEF Misled
  <2>6. QED
    BY <2>1, <2>3, <2>4, <2>5 DEF IInv
<1>18. SUFFICES ASSUME ~Nested(st, i) PROVE IInv'
  BY <1>17
<1>6. /\ ~nx.over
      /\ nx.open = CASE k = "first" -> <<Op(i)>> \o c
                     [] k = "middle" -> o \o c
                     [] k = "last" -> <<>>
                     [] OTHER -> o
      /\ nx.seen = CASE k \in {"first", "middle"} -> st.seen
                     [] k = "last" -> Append(st.seen, Message(o \o c))
                     [] OTHER -> Append(st.seen, <<k, c>>)
      /\ nx.answers = CASE k = "ping" -> Append(st.answers, <<"pong", c>>)
                        [] k = "close" -> Append(st.answers, <<"close", c>>)
                        [] OTHER -> st.answers
      /\ nx.asked = (st.asked \/ k = "close")
  <2>1. ~Stops(st, i)
    BY <1>3, <1>18 DEF Stops
  <2>2. QED
    BY <1>2, <1>3, <2>1, OneMore
<1>8. (k = "first" => o = <<>>) /\ astray' = FALSE
  <2>1. k = "first" => o = <<>>
    BY <1>18 DEF Nested
  <2> HIDE DEF o
  <2>2. QED
    BY <1>9, <1>16, <2>1
<1>11. answers' = nx.answers /\ closing' = nx.asked
  BY <1>3, <1>5, <1>6, <1>7, <1>9
<1> HIDE DEF nx, st, i, k, c
<1>12. CASE k = "first"
  <2> DEFINE one == <<Op(i)>>
  <2>1. one \in Seq(Cell) /\ Len(one) = 1 /\ o = <<>>
    BY <1>7, <1>8, <1>12
  <2>2. /\ buf' = (<<>> \o one) \o (c \o r) /\ delivered' = delivered
        /\ reass' = 1 + DataLen
    BY <1>9, <1>12, <2>1
  <2> HIDE DEF o, one
  <2>3. <<>> \o one = one
    BY <2>1, ConcatEmptySeq
  <2>4. Moves(one, c, r)
    BY <1>7, <2>1, Shift
  <2>5. buf' = (one \o c) \o r
    BY <2>2, <2>3, <2>4, Zenon DEF Moves
  <2>6. nx.open = one \o c /\ nx.seen = st.seen
    BY <1>6, <1>12 DEF one
  <2>7. Len(one \o c) = 1 + Len(c)
    <3>1. one \in Seq(Cell) /\ c \in Seq(Cell)
      BY <1>7, <2>1
    <3>2. Len(one \o c) = Len(one) + Len(c)
      BY <3>1, ConcatProperties
    <3>3. QED
      BY <2>1, <3>2
  <2>8. buf' = nx.open \o r /\ reass' = Len(nx.open) /\ delivered' = nx.seen
    BY <1>3, <1>7, <2>2, <2>5, <2>6, <2>7
  <2>9. QED
    BY <1>3, <1>4, <1>6, <1>10, <1>11, <2>8, <1>8, TakenNext DEF nx, i
<1>13. CASE k = "middle"
  <2>1. /\ buf' = (o \o <<>>) \o (c \o r) /\ delivered' = delivered
        /\ reass' = Len(o) + DataLen
    BY <1>3, <1>9, <1>13
  <2> HIDE DEF o
  <2>2. o \o <<>> = o
    BY <1>3, ConcatEmptySeq
  <2>3. Moves(o, c, r)
    BY <1>3, <1>7, Shift
  <2>4. buf' = (o \o c) \o r
    BY <2>1, <2>2, <2>3, Zenon DEF Moves
  <2>5. nx.open = o \o c /\ nx.seen = st.seen
    BY <1>6, <1>13
  <2>6. Len(o \o c) = Len(o) + Len(c)
    BY <1>3, <1>7, ConcatProperties
  <2>7. buf' = nx.open \o r /\ reass' = Len(nx.open) /\ delivered' = nx.seen
    BY <1>3, <1>7, <2>1, <2>4, <2>5, <2>6
  <2>8. QED
    BY <1>3, <1>4, <1>6, <1>10, <1>11, <2>7, <1>8, TakenNext DEF nx, i
<1>14. CASE k = "last"
  <2> DEFINE x == o \o c
  <2>1. o \o <<>> = o /\ <<>> \o r = r
    BY <1>3, ConcatEmptySeq
  <2>2. head = o
    BY <1>14, <2>1
  <2>3. x \in Seq(Cell) /\ Len(x) = Len(o) + Len(c)
    BY <1>3, <1>7, ConcatProperties
  <2>4. n = Len(x)
    BY <1>3, <1>7, <1>14, <2>3
  <2>5. all = x \o r
    <3>1. Moves(o, c, r)
      BY <1>3, <1>7, Shift
    <3>2. all = o \o (c \o r)
      BY <2>2
    <3> HIDE DEF all, o
    <3>3. QED
      BY <3>1, <3>2, Zenon DEF Moves
  <2>6. SubSeq(x \o r, 1, Len(x)) = x /\ SubSeq(x \o r, Len(x) + 1, Len(x \o r)) = r
    BY <2>3, CutConcat
  <2> HIDE DEF o, x, head, all, n
  <2>7. SubSeq(all, 1, n) = x /\ SubSeq(all, n + 1, Len(all)) = r
    BY <2>4, <2>5, <2>6, Zenon
  <2>8. delivered' = Append(delivered, Message(x)) /\ buf' = r /\ reass' = 0
    BY <1>9, <1>14, <2>7
  <2>9. nx.open = <<>> /\ nx.seen = Append(st.seen, Message(x))
    BY <1>6, <1>14 DEF x
  <2>10. buf' = nx.open \o r /\ reass' = Len(nx.open) /\ delivered' = nx.seen
    BY <1>3, <2>1, <2>8, <2>9
  <2>11. QED
    BY <1>3, <1>4, <1>6, <1>8, <1>10, <1>11, <2>10, TakenNext DEF nx, i
<1>15. QED
  BY <1>5, <1>12, <1>13, <1>14

\* The end of the connection, because of the frame at the head.
LEMMA RejectsInv ==
  ASSUME IInv, Reject \/ RejectOverflow
  PROVE  IInv'
<1>14. ~astray
  BY DEF Reject, RejectOverflow, Looks
<1>1. PICK u \in 0 .. Len(script), t \in Seq(Cell) : Taken(u, t)
  BY <1>14 DEF IInv
<1> DEFINE i == u + 1
<1>2. IsScript /\ wire \in Seq(Cell)
  BY DEF IInv
<1>3. /\ Layout(u, t) /\ reass = Len(After[u].open)
  BY <1>1 DEF Taken
<1>4. /\ InStep /\ (NotAllowed \/ Overflows) /\ Answer(<<"close", <<>>>>)
      /\ UNCHANGED <<script, wire, buf, reass, astray, delivered>>
  BY DEF Reject, RejectOverflow
<1>5. After[u].open \in Seq(Cell) /\ Rest = t
  BY <1>2, <1>3, RestFacts
<1>6. t # <<>>
  BY <1>4, <1>5 DEF InStep
<1>7. u < Len(script) /\ Current = i /\ Len(wire) < Len(Behind[u])
  BY <1>2, <1>3, <1>6, RestFacts
<1>8. i \in 1 .. Len(script)
  BY <1>2, <1>7, ScriptLen
<1> HIDE DEF i
<1>9. KindOf(i) \in {"torn", "huge"} \/ (KindOf(i) = "whole" /\ reass > 0)
  BY <1>2, <1>4, <1>5, <1>6, <1>7, <1>8, HeaderFacts
<1>10. reass > 0 => After[u].open # <<>>
  <2> DEFINE o == After[u].open
  <2>1. o \in Seq(Cell) /\ reass = Len(o)
    BY <1>3, <1>5
  <2> HIDE DEF o
  <2>2. reass > 0 => o # <<>>
    BY <2>1
  <2>3. QED
    BY <2>2 DEF o
<1>11. Refused(After[u], i)
  BY <1>9, <1>10 DEF Refused
<1>12. Rejected(u)
  BY <1>7, <1>11 DEF Rejected, i
<1>13. QED
  BY <1>1, <1>4, <1>12, <1>14, RejectInv

\* The handler waits when the next frame is not wholly there.
LEMMA WaitInv == ASSUME IInv, Wait PROVE IInv'
<1>9. ~astray
  BY DEF Wait, Looks
<1>1. PICK u \in 0 .. Len(script), t \in Seq(Cell) : Taken(u, t)
  BY <1>9 DEF IInv
<1> DEFINE i == u + 1
<1>2. IsScript /\ wire \in Seq(Cell)
  BY DEF IInv
<1>3. /\ Layout(u, t) /\ reass = Len(After[u].open)
  BY <1>1 DEF Taken
<1>4. /\ Rest = <<>> \/ (InStep /\ ~Overflows /\ ~IsWhole)
      /\ UNCHANGED <<script, wire, buf, reass, closing, astray, delivered, answers>>
  BY DEF Wait, NoAnswer
<1>5. /\ After[u].open \in Seq(Cell) /\ Rest = t
      /\ Len(t) + Len(wire) = Len(Behind[u])
  BY <1>2, <1>3, RestFacts
<1>6. ASSUME u # Len(script) PROVE ~There(i)
  <2> DEFINE c == Cells(i)
             b == Behind[i]
             h == Header(i)
             p == Payload(i)
  <2>1. i \in 1 .. Len(script) /\ i \in 0 .. Len(script) /\ u \in 0 .. (Len(script) - 1)
    <3> DEFINE N == Len(script)
    <3>1. N \in Nat /\ u \in 0 .. N /\ u # N
      BY <1>2, <1>6, ScriptLen
    <3> HIDE DEF N
    <3>2. u + 1 \in 1 .. N /\ u + 1 \in 0 .. N /\ u \in 0 .. (N - 1)
      BY <3>1
    <3>3. QED
      BY <3>2 DEF N
  <2>2. c \in Seq(Cell) /\ Len(c) = h + p
    BY <1>2, <2>1, CellsFacts
  <2>3. b \in Seq(Cell) /\ Behind[u] = c \o b
    BY <1>2, <2>1, BehindFacts
  <2>4. h \in 2 .. 14 /\ p \in 0 .. 2
    BY <1>2, <2>1, FrameFacts
  <2> HIDE DEF c, b, h, p, i
  <2>5. Len(c \o b) = Len(c) + Len(b)
    BY <2>2, <2>3, ConcatProperties
  <2>6. Len(t) + Len(wire) = h + p + Len(b)
    BY <1>5, <2>2, <2>3, <2>5
  <2>7. Len(t) < h + p
    <3>1. CASE t = <<>>
      BY <2>4, <3>1
    <3>2. CASE t # <<>>
      <4>1. Current = i
        BY <1>2, <1>3, <3>2, RestFacts DEF i
      <4>2. ~Overflows /\ ~IsWhole
        BY <1>4, <1>5, <3>2
      <4>3. KindOf(i) # "huge" => ~(h + p <= Len(t))
        BY <1>2, <1>5, <2>1, <3>2, <4>1, <4>2, HeaderFacts DEF h, p
      <4>4. KindOf(i) = "huge" => Len(t) < h + p
        BY <1>2, <1>5, <2>1, <3>2, <4>1, <4>2, HeaderFacts DEF h, p
      <4>5. Len(t) \in Nat
        OBVIOUS
      <4>6. QED
        BY <2>4, <4>3, <4>4, <4>5
    <3>3. QED
      BY <3>1, <3>2
  <2>8. Len(t) \in Nat /\ Len(wire) \in Nat /\ Len(b) \in Nat
    BY <1>2, <2>3
  <2>9. ~(Len(wire) <= Len(b))
    BY <2>4, <2>6, <2>7, <2>8
  <2>10. QED
    BY <2>9 DEF There, b
<1>7. AtRest(u)
  BY <1>6 DEF AtRest
<1>8. QED
  BY <1>1, <1>4, <1>7, <1>9, StaysInv

\* Nothing that handlers do.
LEMMA OutsideInv ==
  ASSUME IInv, pc' # "deliver" => pc # "deliver",
         UNCHANGED <<script, wire, buf, reass, closing, astray, delivered, answers>>
  PROVE  IInv'
<1>1. wire' \in Seq(Cell) /\ Len(wire') <= Len(wire) /\ closing' \in BOOLEAN
  <2>1. wire \in Seq(Cell) /\ closing \in BOOLEAN
    BY DEF IInv
  <2>2. Len(wire) \in Nat
    BY <2>1
  <2>3. QED
    BY <2>1, <2>2
<1>2. CASE astray
  BY <1>1, <1>2, LostInv
<1>3. CASE ~astray
  <2>1. PICK u \in 0 .. Len(script), t \in Seq(Cell) : Taken(u, t)
    BY <1>3 DEF IInv
  <2>2. pc' # "deliver" => AtRest(u)
    BY <2>1 DEF Taken
  <2>3. QED
    BY <1>3, <2>1, <2>2, StaysInv
<1>4. QED
  BY <1>2, <1>3

\* The handler, where the frames are lost.
LEMMA MisreadInv == ASSUME IInv, Misread PROVE IInv'
<1>1. astray /\ UNCHANGED <<script, wire, astray>>
  BY DEF Misread
<1>7. closing' = closing \/ closing' = TRUE
  BY DEF Misread
<1>2. wire \in Seq(Cell) /\ closing \in BOOLEAN
  BY DEF IInv
<1>3. Len(wire) \in Nat
  BY <1>2
<1>4. wire' \in Seq(Cell) /\ Len(wire') <= Len(wire)
  BY <1>1, <1>2, <1>3
<1>8. closing' \in BOOLEAN /\ (closing => closing')
  BY <1>2, <1>7
<1>5. script' = script /\ astray' = astray
  BY <1>1
<1>6. QED
  BY <1>1, <1>4, <1>5, <1>8, LostInv

LEMMA InitInv == ASSUME Init PROVE IInv
<1>1. IsScript
  BY MgWebsocketAssumption DEF Init, IsScript
<1>2. After[0] = Start /\ Behind[0] \in Seq(Cell) /\ 0 \in 0 .. Len(script)
  BY <1>1, AfterFacts, BehindFacts, ScriptLen
<1>3. <<>> \in Seq(Cell)
  OBVIOUS
<1>4. Taken(0, <<>>)
  <2>1. /\ wire = Behind[0] /\ buf = <<>> /\ reass = 0 /\ closing = FALSE
        /\ pc = "deliver" /\ delivered = <<>> /\ answers = <<>>
    BY DEF Init
  <2> DEFINE b == Behind[0]
             e == <<>>
             st == After[0]
  <2>2. /\ ~st.over /\ st.open = <<>> /\ st.seen = <<>> /\ st.answers = <<>>
        /\ st.asked = FALSE
    BY <1>2 DEF Start
  <2>3. b \in Seq(Cell)
    BY <1>2
  <2> HIDE DEF b
  <2>4. <<>> \o b = b /\ <<>> \o <<>> = <<>> /\ Len(<<>>) = 0
    BY <1>3, <2>3, ConcatEmptySeq
  <2>5. Layout(0, <<>>)
    BY <2>1, <2>2, <2>4 DEF Layout, Follows, b
  <2>6. QED
    BY <2>1, <2>2, <2>4, <2>5 DEF Taken, Said
<1>5. QED
  <2>1. wire \in Seq(Cell) /\ closing \in BOOLEAN /\ astray = FALSE
    BY <1>2 DEF Init
  <2> HIDE DEF Taken
  <2>2. QED
    BY <1>1, <1>2, <1>3, <1>4, <2>1 DEF IInv

LEMMA NextInv == ASSUME IInv, [Next]_vars PROVE IInv'
<1>1. CASE Receive
  BY <1>1, ReceiveInv
<1>2. CASE Reject \/ RejectOverflow
  BY <1>2, RejectsInv
<1>3. CASE Wait
  BY <1>3, WaitInv
<1>4. CASE TakeFragment
  BY <1>4, TakeFragmentInv
<1>5. CASE TakeFrame
  BY <1>5, TakeFrameInv
<1>6. CASE PingIdle \/ Flush \/ Close
  <2>1. /\ pc = "idle"
        /\ UNCHANGED <<script, wire, buf, reass, closing, astray, delivered, answers>>
    BY <1>6 DEF PingIdle, Flush, Close, NoAnswer
  <2>2. QED
    BY <2>1, OutsideInv
<1>7. CASE UNCHANGED vars
  <2>1. /\ pc' = pc
        /\ UNCHANGED <<script, wire, buf, reass, closing, astray, delivered, answers>>
    BY <1>7 DEF vars
  <2>2. QED
    BY <2>1, OutsideInv
<1>8. CASE Misread
  BY <1>8, MisreadInv
<1>9. QED
  BY <1>1, <1>2, <1>3, <1>4, <1>5, <1>6, <1>7, <1>8 DEF Next, Handler

\* Some number of frames has been taken: the buffer holds what they leave open
\* and what has come behind them, and handlers saw what they amount to; or a
\* first fragment has come inside an open message.
THEOREM Invariance == SafeSpec => []IInv
<1>1. Init => IInv
  BY InitInv
<1>2. IInv /\ [Next]_vars => IInv'
  BY NextInv
<1>3. QED
  BY <1>1, <1>2, PTL DEF SafeSpec

\* Between receives the ideal reader has taken as many frames.
LEMMA AtIdle ==
  ASSUME IInv, pc = "idle", ~astray
  PROVE  \E u \in 0 .. Len(script), t \in Seq(Cell) :
           /\ Taken(u, t) /\ After[u] \in Reading /\ ~Lost(Ideal)
           /\ Ideal.open = After[u].open /\ Ideal.seen = After[u].seen
           /\ Ideal.answers = After[u].answers /\ Ideal.asked = After[u].asked
           /\ Ideal.upto = u
           /\ Ideal.over => closing /\ \E n \in Nat \ {0} : Sent(u, n)
           /\ Torn(Ideal) <=> Rejected(u)
<1>1. PICK u \in 0 .. Len(script), t \in Seq(Cell) : Taken(u, t)
  BY DEF IInv
<1>2. IsScript /\ wire \in Seq(Cell)
  BY DEF IInv
<1>3. ~After[u].over /\ Layout(u, t) /\ reass = Len(After[u].open) /\ AtRest(u)
  BY <1>1 DEF Taken
<1>4. There(u) /\ After[u] \in Reading /\ After[u].upto = u
  BY <1>2, <1>3, RestFacts, AfterFacts, Known
<1>5. /\ Ideal.open = After[u].open /\ Ideal.seen = After[u].seen
      /\ Ideal.answers = After[u].answers /\ Ideal.asked = After[u].asked
      /\ Ideal.upto = u
      /\ Ideal.over => /\ closing /\ \E n \in Nat \ {0} : Sent(u, n)
                       /\ Refused(After[u], u + 1)
  <2>1. CASE u = Len(script) \/ ~There(u + 1)
    <3>1. Ideal = After[u]
      BY <1>2, <1>3, <1>4, <2>1, IdealIs
    <3>2. QED
      BY <1>3, <1>4, <3>1
  <2>2. CASE ~(u = Len(script) \/ ~There(u + 1))
    <3>1. /\ closing /\ Refused(After[u], u + 1) /\ There(u + 1) /\ u < Len(script)
          /\ \E n \in Nat \ {0} : Sent(u, n)
      <4> DEFINE N == Len(script)
      <4>1. N \in Nat /\ u \in 0 .. N /\ u # N
        BY <1>2, <2>2, ScriptLen
      <4> HIDE DEF N
      <4>2. u < N
        BY <4>1
      <4>3. QED
        BY <1>3, <2>2, <4>2 DEF AtRest, N
    <3>2. Ideal = [After[u] EXCEPT !.over = TRUE]
      <4>1. Stops(After[u], u + 1)
        BY <3>1 DEF Stops
      <4>2. QED
        BY <1>2, <1>3, <1>4, <3>1, <4>1, IdealIs
    <3> DEFINE st == After[u]
    <3>3. st \in Reading /\ Ideal = [st EXCEPT !.over = TRUE]
      BY <1>4, <3>2
    <3> HIDE DEF st
    <3>4. /\ Ideal.open = st.open /\ Ideal.seen = st.seen /\ Ideal.answers = st.answers
          /\ Ideal.asked = st.asked /\ Ideal.upto = st.upto
      BY <3>3 DEF Reading
    <3>5. QED
      BY <1>4, <3>1, <3>4 DEF st
  <2>3. QED
    BY <2>1, <2>2
<1>6. Torn(Ideal) <=> Rejected(u)
  BY <1>5 DEF Torn, Rejected, Refused
<1>7. ~Lost(Ideal)
  <2>1. Ideal.over => KindOf(u + 1) # "first"
    BY <1>5 DEF Refused
  <2>2. QED
    BY <1>5, <2>1 DEF Lost, Nested
<1>8. QED
  BY <1>1, <1>4, <1>5, <1>6, <1>7

\* And it has lost the frames when the handler has.
LEMMA AtLoss ==
  ASSUME IInv, astray
  PROVE  Lost(Ideal) /\ (Ideal.asked => closing)
<1>1. PICK u \in 0 .. Len(script) : Misled(u)
  BY DEF IInv
<1>2. IsScript /\ wire \in Seq(Cell)
  BY DEF IInv
<1>3. /\ u < Len(script) /\ There(u + 1) /\ ~After[u].over
      /\ Nested(After[u], u + 1) /\ (After[u].asked => closing)
  BY <1>1 DEF Misled
<1>4. There(u)
  <2>1. u \in 0 .. (Len(script) - 1) /\ u \in 0 .. Len(script) /\ u + 1 \in 0 .. Len(script)
    BY <1>2, <1>3, ScriptLen
  <2>2. Len(Behind[u + 1]) < Len(Behind[u])
    BY <1>2, <2>1, BehindShrinks
  <2>3. Behind[u] \in Seq(Cell) /\ Behind[u + 1] \in Seq(Cell)
    BY <1>2, <2>1, BehindFacts
  <2>4. Len(wire) \in Nat /\ Len(Behind[u]) \in Nat /\ Len(Behind[u + 1]) \in Nat
    BY <1>2, <2>3
  <2>5. Len(wire) <= Len(Behind[u])
    BY <1>3, <2>2, <2>4 DEF There
  <2>6. QED
    BY <2>5 DEF There
<1>5. Ideal = [After[u] EXCEPT !.over = TRUE]
  <2>1. Stops(After[u], u + 1)
    BY <1>3 DEF Stops
  <2>2. QED
    BY <1>2, <1>3, <1>4, <2>1, IdealIs
<1>6. After[u] \in Reading /\ After[u].upto = u
  BY <1>2, <1>3, AfterFacts, Known
<1> DEFINE st == After[u]
<1>7. st \in Reading /\ Ideal = [st EXCEPT !.over = TRUE] /\ st.upto = u
  BY <1>5, <1>6
<1> HIDE DEF st
<1>8. /\ Ideal.open = st.open /\ Ideal.asked = st.asked /\ Ideal.upto = u /\ Ideal.over
  BY <1>7 DEF Reading
<1>9. QED
  BY <1>3, <1>8 DEF Lost, Nested, st

\* Handlers have seen what an ideal reader of the stream has, when there is
\* nothing to do: for every script, however it is cut into pieces, unless a
\* first fragment inside an open message has made the server lose the frames.
THEOREM Delivery == SafeSpec => []DeliversWhatIsThere
<1>1. IInv => DeliversWhatIsThere
  <2> SUFFICES ASSUME IInv, pc = "idle", ~Lost(Ideal) PROVE delivered = Ideal.seen
    BY DEF DeliversWhatIsThere
  <2>1. ~astray
    BY AtLoss
  <2>2. QED
    BY <2>1, AtIdle DEF Taken
<1>2. QED
  BY <1>1, Invariance, PTL

\* The buffer is the open message followed by what has come of later frames;
\* only a first fragment inside an open message puts an end to that.
THEOREM BufferIsLaidOut == SafeSpec => []BufferLayout
<1>1. IInv => BufferLayout
  <2> SUFFICES ASSUME IInv, pc = "idle"
               PROVE  /\ astray = Lost(Ideal)
                      /\ ~Lost(Ideal) =>
                           /\ reass = Len(Ideal.open)
                           /\ buf \o wire = Ideal.open \o Behind[Ideal.upto]
    BY DEF BufferLayout
  <2>1. CASE astray
    BY <2>1, AtLoss DEF Lost, IInv
  <2>2. CASE ~astray
    <3>1. PICK u \in 0 .. Len(script), t \in Seq(Cell) :
            /\ Taken(u, t) /\ After[u] \in Reading /\ ~Lost(Ideal)
            /\ Ideal.open = After[u].open /\ Ideal.upto = u
      BY <2>2, AtIdle
    <3> DEFINE o == After[u].open
    <3>2. /\ buf = o \o t /\ t \o wire = Behind[u] /\ reass = Len(o)
          /\ o \in Seq(Cell) /\ wire \in Seq(Cell)
      BY <3>1 DEF Taken, Layout, Follows, Reading, IInv
    <3> HIDE DEF o
    <3>3. Moves(o, t, wire)
      BY <3>2, Shift
    <3>4. buf \o wire = o \o Behind[u]
      BY <3>2, <3>3, Zenon DEF Moves
    <3>5. reass = Len(Ideal.open)
      BY <3>1, <3>2 DEF o
    <3>6. buf \o wire = Ideal.open \o Behind[Ideal.upto]
      BY <3>1, <3>4, Zenon DEF o
    <3>7. astray = Lost(Ideal)
      BY <2>2, <3>1 DEF Lost, IInv
    <3>8. QED
      BY <3>5, <3>6, <3>7
  <2>3. QED
    BY <2>1, <2>2
<1>2. QED
  BY <1>1, Invariance, PTL

\* Every Ping and every Close has its answer, in order, with its payload; a
\* refused frame has one Close or more; nothing else is sent.
THEOREM Answering == SafeSpec => []PingsAnswered
<1>1. IInv => PingsAnswered
  <2> DEFINE n == Len(answers) - Len(Ideal.answers)
  <2> SUFFICES ASSUME IInv, pc = "idle", ~Lost(Ideal)
               PROVE  /\ n >= 0 /\ answers = Ideal.answers \o Refusals(n)
                      /\ n > 0 => Torn(Ideal)
                      /\ Ideal.over => n > 0
    BY DEF PingsAnswered
  <2>1. ~astray
    BY AtLoss
  <2>2. PICK u \in 0 .. Len(script), t \in Seq(Cell) :
          /\ Taken(u, t) /\ After[u] \in Reading
          /\ Ideal.answers = After[u].answers
          /\ Ideal.over => \E m \in Nat \ {0} : Sent(u, m)
          /\ Torn(Ideal) <=> Rejected(u)
    BY <2>1, AtIdle
  <2> DEFINE a == Ideal.answers
  <2>3. a \in Seq(Answers)
    BY <2>2 DEF Reading
  <2>4. Said(u)
    BY <2>2 DEF Taken
  <2> HIDE DEF a
  <2>5. ASSUME NEW m \in Nat, answers = a \o Refusals(m)
        PROVE  n = m
    <3>1. Len(answers) = Len(a) + m
      BY <2>3, <2>5, OneMoreRefusal
    <3>2. Len(a) \in Nat
      BY <2>3
    <3>3. QED
      BY <3>1, <3>2 DEF a
  <2>6. a \o Refusals(0) = a
    <3>1. Refusals(0) \in Seq(Answers) /\ Len(Refusals(0)) = 0
      BY RefusalFacts
    <3>2. Refusals(0) = <<>>
      BY <3>1
    <3>3. QED
      BY <2>3, <3>2, ConcatEmptySeq
  <2> HIDE DEF n
  <2>7. CASE \E m \in Nat \ {0} : Sent(u, m)
    <3>1. PICK m \in Nat \ {0} : answers = a \o Refusals(m)
      BY <2>2, <2>7 DEF Sent, a
    <3>2. n = m
      BY <2>5, <3>1
    <3>3. Torn(Ideal)
      BY <2>2, <2>3, <2>4, <2>5, <2>6, <3>1, <3>2 DEF Said, a
    <3>4. QED
      BY <3>1, <3>2, <3>3 DEF a
  <2>8. CASE ~\E m \in Nat \ {0} : Sent(u, m)
    <3>1. answers = a \o Refusals(0)
      BY <2>2, <2>4, <2>6, <2>8 DEF Said, a
    <3>2. n = 0
      BY <2>5, <3>1
    <3>3. QED
      BY <2>2, <2>8, <3>1, <3>2 DEF a
  <2>9. QED
    BY <2>7, <2>8
<1>2. QED
  BY <1>1, Invariance, PTL

\* A connection is ended because of a Close or of a refused frame, and for
\* nothing else, unless the frames are lost: for every script, with frames the
\* protocol forbids anywhere in it.
THEOREM Ending == SafeSpec => []ClosesForReason
<1>1. IInv => ClosesForReason
  <2> SUFFICES ASSUME IInv, pc = "idle"
               PROVE  /\ Ideal.asked \/ (Ideal.over /\ ~Lost(Ideal)) => closing
                      /\ closing => Ideal.asked \/ Torn(Ideal) \/ Lost(Ideal)
    BY DEF ClosesForReason
  <2>1. CASE astray
    BY <2>1, AtLoss
  <2>2. CASE ~astray
    <3>1. PICK u \in 0 .. Len(script), t \in Seq(Cell) :
            /\ Taken(u, t) /\ Ideal.asked = After[u].asked
            /\ Ideal.over => closing
            /\ Torn(Ideal) <=> Rejected(u)
      BY <2>2, AtIdle
    <3>2. Said(u)
      BY <3>1 DEF Taken
    <3>3. QED
      BY <3>1, <3>2 DEF Said
  <2>3. QED
    BY <2>1, <2>2
<1>2. QED
  BY <1>1, Invariance, PTL
===============================================================================
