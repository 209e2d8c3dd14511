---------------------------- MODULE MgHttp_proofs ---------------------------
(***************************************************************************)
(* Proofs about MgHttp: requests are dispatched in order and none is lost, *)
(* with their bodies and without waiting, for any script of any length.    *)
(* What the stream looks like is proved by induction over the messages,    *)
(* carried out with sets of naturals.                                      *)
(***************************************************************************)
EXTENDS MgHttp, SequenceFacts

\* What bytes there are.
Parts == {"line", "end", "body", "size", "data", "last", "crlf", "piece"}
Symbol == [id : Nat, part : Parts]

\* No two empty lines belong to one message, and later ones to later messages.
Ordered(b) == \A j, k \in Ends(b) : j < k => b[j].id < b[k].id

\* The bytes of a message: one empty line.
LEMMA WireOne ==
  ASSUME NEW k \in AllKinds
  PROVE  /\ Wire(k) \in Seq(Parts)
         /\ \A i, j \in 1 .. Len(Wire(k)) :
              Wire(k)[i] = "end" /\ Wire(k)[j] = "end" => i = j
<1> DEFINE One(w) == /\ w \in Seq(Parts)
                    /\ \A i, j \in 1 .. Len(w) : w[i] = "end" /\ w[j] = "end" => i = j
<1>1. ASSUME NEW t \in Seq(Parts), \A i \in 1 .. Len(t) : t[i] # "end",
             Wire(k) = Head2 \o t
      PROVE  One(Wire(k))
  <2>1. /\ Head2 \in Seq(Parts) /\ Len(Head2) = 2
        /\ Head2[1] = "line" /\ Head2[2] = "end"
    BY DEF Head2, Parts
  <2> DEFINE w == Head2 \o t
  <2>2. /\ w \in Seq(Parts) /\ Len(w) = 2 + Len(t) /\ Len(t) \in Nat
        /\ \A i \in 1 .. Len(w) : w[i] = IF i <= 2 THEN Head2[i] ELSE t[i - 2]
    <3>1. /\ w \in Seq(Parts) /\ Len(w) = Len(Head2) + Len(t)
          /\ \A i \in 1 .. Len(Head2) + Len(t) :
               w[i] = IF i <= Len(Head2) THEN Head2[i] ELSE t[i - Len(Head2)]
      BY <2>1, ConcatProperties
    <3>2. Len(t) \in Nat
      OBVIOUS
    <3> HIDE DEF w
    <3>3. QED
      BY <2>1, <3>1, <3>2
  <2>3. \A i \in 1 .. Len(w) : w[i] = "end" => i = 2
    <3> SUFFICES ASSUME NEW i \in 1 .. Len(w), w[i] = "end", i # 2 PROVE FALSE
      OBVIOUS
    <3>1. CASE i = 1
      BY <2>1, <2>2, <3>1
    <3>2. CASE i > 2
      <4>1. i - 2 \in 1 .. Len(t) /\ w[i] = t[i - 2]
        BY <2>2, <3>2
      <4>2. QED
        BY <1>1, <4>1
    <3>3. QED
      BY <2>2, <3>1, <3>2
  <2>4. QED
    BY <1>1, <2>2, <2>3
<1>2. CASE k \in {"get", "file", "cgi", "bad", "negative"}
  <2>1. One(Head2)
    BY DEF Head2, Parts
  <2>2. Wire(k) = Head2
    BY <1>2 DEF Wire
  <2>3. QED
    BY <2>1, <2>2
<1>3. CASE k = "post"
  <2> DEFINE t == <<"body", "body">>
  <2>1. Wire(k) = Head2 \o t
    BY <1>3 DEF Wire
  <2>2. t \in Seq(Parts) /\ \A i \in 1 .. Len(t) : t[i] # "end"
    BY DEF Parts
  <2>3. QED
    BY <1>1, <2>1, <2>2
<1>4. CASE k = "open"
  <2> DEFINE t == <<"body">>
  <2>1. Wire(k) = Head2 \o t
    BY <1>4 DEF Wire
  <2>2. t \in Seq(Parts) /\ \A i \in 1 .. Len(t) : t[i] # "end"
    BY DEF Parts
  <2>3. QED
    BY <1>1, <2>1, <2>2
<1>5. CASE k = "chunked"
  <2> DEFINE t == <<"size", "data", "size", "data", "last", "crlf">>
  <2>1. Wire(k) = Head2 \o t
    BY <1>5 DEF Wire
  <2>2. t \in Seq(Parts) /\ \A i \in 1 .. Len(t) : t[i] # "end"
    BY DEF Parts
  <2>3. QED
    BY <1>1, <2>1, <2>2
<1>6. CASE k = "long"
  <2> DEFINE l == [i \in 1 .. MaxRequest |-> "line"]
  <2>1. Wire(k) = l \o <<"end">>
    BY <1>6 DEF Wire
  <2>2. /\ l \in Seq(Parts) /\ Len(l) = MaxRequest
        /\ \A i \in 1 .. MaxRequest : l[i] = "line"
    BY MgHttpAssumption DEF Parts
  <2>3. <<"end">> \in Seq(Parts) /\ Len(<<"end">>) = 1
    BY DEF Parts
  <2> HIDE DEF l
  <2>4. QED
    BY <2>1, <2>2, <2>3
<1>7. QED
  BY <1>2, <1>3, <1>4, <1>5, <1>6 DEF AllKinds

\* What the client sends.
IsScript == \E n \in Nat \ {0} : script \in [1 .. n -> AllKinds]

\* A message's symbols carry its number.
LEMMA SymbolsOne ==
  ASSUME NEW i, script[i] \in AllKinds, i \in Nat
  PROVE  /\ Symbols(i) \in Seq(Symbol)
         /\ \A j \in 1 .. Len(Symbols(i)) : Symbols(i)[j].id = i
         /\ \A j, k \in Ends(Symbols(i)) : j = k
<1> DEFINE w == Wire(script[i])
           s == [j \in 1 .. Len(w) |-> [id |-> i, part |-> w[j]]]
<1>1. /\ w \in Seq(Parts)
      /\ \A j, k \in 1 .. Len(w) : w[j] = "end" /\ w[k] = "end" => j = k
  BY WireOne
<1>2. Symbols(i) = s
  BY DEF Symbols
<1> HIDE DEF w
<1>3. Len(w) \in Nat /\ \A j \in 1 .. Len(w) : w[j] \in Parts
  BY <1>1
<1>4. \A j \in 1 .. Len(w) : [id |-> i, part |-> w[j]] \in Symbol
  BY <1>3 DEF Symbol
<1>5. s \in Seq(Symbol) /\ DOMAIN s = 1 .. Len(w) /\ Len(s) = Len(w)
  BY <1>3, <1>4
<1>6. \A j \in 1 .. Len(w) : s[j].id = i /\ s[j].part = w[j]
  OBVIOUS
<1> HIDE DEF s
<1>7. QED
  BY <1>1, <1>2, <1>5, <1>6 DEF Ends

\* One more message, behind what is numbered lower.
LEMMA OrderedJoin ==
  ASSUME NEW a \in Seq(Symbol), NEW b \in Seq(Symbol), Ordered(a), Ordered(b),
         \A j \in Ends(a), k \in Ends(b) : a[j].id < b[k].id
  PROVE  Ordered(a \o b)
<1> DEFINE c == a \o b
<1>1. /\ c \in Seq(Symbol) /\ Len(c) = Len(a) + Len(b)
      /\ \A i \in 1 .. Len(a) + Len(b) :
           c[i] = IF i <= Len(a) THEN a[i] ELSE b[i - Len(a)]
  BY ConcatProperties
<1> HIDE DEF c
<1>2. /\ DOMAIN a = 1 .. Len(a) /\ DOMAIN b = 1 .. Len(b)
      /\ DOMAIN c = 1 .. Len(c) /\ Len(a) \in Nat /\ Len(b) \in Nat
  BY <1>1
<1>3. ASSUME NEW j \in Ends(c), NEW k \in Ends(c), j < k
      PROVE  c[j].id < c[k].id
  <2>1. j \in 1 .. Len(c) /\ k \in 1 .. Len(c)
    BY <1>2 DEF Ends
  <2>2. CASE k <= Len(a)
    <3>1. j \in Ends(a) /\ k \in Ends(a) /\ c[j] = a[j] /\ c[k] = a[k]
      BY <1>1, <1>2, <1>3, <2>1, <2>2 DEF Ends
    <3>2. QED
      BY <1>3, <3>1 DEF Ordered
  <2>3. CASE j > Len(a)
    <3> DEFINE jj == j - Len(a)
               kk == k - Len(a)
    <3>1. /\ jj \in 1 .. Len(b) /\ kk \in 1 .. Len(b) /\ jj < kk
          /\ c[j] = b[jj] /\ c[k] = b[kk]
      BY <1>1, <1>2, <1>3, <2>1, <2>3
    <3>2. jj \in Ends(b) /\ kk \in Ends(b)
      BY <1>2, <3>1 DEF Ends
    <3> HIDE DEF jj, kk
    <3>3. QED
      BY <3>1, <3>2 DEF Ordered
  <2>4. CASE j <= Len(a) /\ k > Len(a)
    <3> DEFINE kk == k - Len(a)
    <3>1. j \in 1 .. Len(a) /\ kk \in 1 .. Len(b) /\ c[j] = a[j] /\ c[k] = b[kk]
      BY <1>1, <1>2, <2>1, <2>4
    <3>2. j \in Ends(a) /\ kk \in Ends(b)
      BY <1>2, <3>1 DEF Ends
    <3> HIDE DEF kk
    <3>3. QED
      BY <3>1, <3>2
  <2>5. QED
    BY <1>2, <2>1, <2>2, <2>3, <2>4
<1>4. QED
  BY <1>3 DEF Ordered, c

\* The whole stream.
LEMMA StreamOrdered ==
  ASSUME IsScript
  PROVE  /\ Stream \in Seq(Symbol) /\ Ordered(Stream)
         /\ \A j \in 1 .. Len(Stream) : Stream[j].id \in DOMAIN script
<1>1. PICK n \in Nat \ {0} : script \in [1 .. n -> AllKinds]
  BY DEF IsScript
<1> DEFINE s == [i \in 1 .. n |-> Symbols(i)]
<1>2. Stream = FlattenSeq(s)
  BY <1>1 DEF Stream
<1>3. \A i \in 1 .. n : /\ Symbols(i) \in Seq(Symbol)
                        /\ \A j \in 1 .. Len(Symbols(i)) : Symbols(i)[j].id = i
                        /\ \A j, k \in Ends(Symbols(i)) : j = k
  BY <1>1, SymbolsOne
<1>4. s \in [1 .. n -> Seq(Symbol)] /\ \A i \in 1 .. n : s[i] = Symbols(i)
  BY <1>3
<1> HIDE DEF s
<1>5. PICK g \in [1 .. n -> Seq(Symbol)] :
         Joined(g, s, n)
  BY <1>4, Flattened
<1> DEFINE Fine(m) == /\ Ordered(g[m])
                      /\ \A j \in 1 .. Len(g[m]) : g[m][j].id \in 1 .. m
           Has == {m \in Nat : m \in 1 .. n => Fine(m)}
<1>6. ASSUME NEW i \in 1 .. n
      PROVE  /\ s[i] \in Seq(Symbol) /\ Ordered(s[i])
             /\ \A j \in 1 .. Len(s[i]) : s[i][j].id = i
  <2>1. /\ s[i] \in Seq(Symbol) /\ \A j, k \in Ends(s[i]) : j = k
        /\ \A j \in 1 .. Len(s[i]) : s[i][j].id = i
    BY <1>3, <1>4
  <2>2. \A j \in Ends(s[i]) : j \in Nat
    BY <2>1 DEF Ends
  <2>3. QED
    BY <2>1, <2>2 DEF Ordered
<1>7. 0 \in Has
  OBVIOUS
<1>8. ASSUME NEW m \in Nat, m \in Has PROVE m + 1 \in Has
  <2> SUFFICES ASSUME m + 1 \in 1 .. n PROVE Fine(m + 1)
    <3> HIDE DEF Fine
    <3>1. QED
      OBVIOUS
  <2>1. CASE m = 0
    <3>1. m + 1 = 1 /\ 1 \in 1 .. n /\ g[m + 1] = s[1]
      BY <1>5, <2>1 DEF Joined
    <3>2. Ordered(s[1]) /\ \A j \in 1 .. Len(s[1]) : s[1][j].id = 1
      BY <1>6, <3>1
    <3>3. QED
      BY <3>1, <3>2
  <2>2. CASE m # 0
    <3> DEFINE a == g[m]
               b == s[m + 1]
    <3>1. m \in 1 .. n /\ m \in 1 .. (n - 1)
      BY <2>2
    <3>2. g[m + 1] = a \o b /\ a \in Seq(Symbol)
      BY <1>5, <3>1 DEF Joined
    <3>3. Fine(m)
      <4> HIDE DEF Fine
      <4>1. QED
        BY <1>8, <3>1
    <3>4. /\ b \in Seq(Symbol) /\ Ordered(b)
          /\ \A j \in 1 .. Len(b) : b[j].id = m + 1
      BY <1>6
    <3>5. Ordered(a) /\ \A j \in 1 .. Len(a) : a[j].id \in 1 .. m
      BY <3>3
    <3> HIDE DEF a, b
    <3>6. \A j \in Ends(a), k \in Ends(b) : a[j].id < b[k].id
      <4>1. Ends(a) \subseteq 1 .. Len(a) /\ Ends(b) \subseteq 1 .. Len(b)
        BY <3>2, <3>4 DEF Ends
      <4>2. QED
        BY <3>4, <3>5, <4>1
    <3>7. Ordered(a \o b)
      BY <3>2, <3>4, <3>5, <3>6, OrderedJoin
    <3>8. \A j \in 1 .. Len(a \o b) : (a \o b)[j].id \in 1 .. (m + 1)
      <4> DEFINE c == a \o b
      <4>1. /\ Len(c) = Len(a) + Len(b)
            /\ \A i \in 1 .. Len(a) + Len(b) :
                 c[i] = IF i <= Len(a) THEN a[i] ELSE b[i - Len(a)]
        BY <3>2, <3>4, ConcatProperties
      <4> HIDE DEF c
      <4>2. Len(a) \in Nat /\ Len(b) \in Nat
        BY <3>2, <3>4
      <4>3. ASSUME NEW i \in 1 .. Len(c) PROVE c[i].id \in 1 .. (m + 1)
        <5>1. CASE i <= Len(a)
          <6>1. i \in 1 .. Len(a) /\ c[i] = a[i]
            BY <4>1, <4>2, <5>1
          <6>2. a[i].id \in 1 .. m
            BY <3>5, <6>1
          <6>3. QED
            BY <6>1, <6>2
        <5>2. CASE i > Len(a)
          <6>1. i - Len(a) \in 1 .. Len(b) /\ c[i] = b[i - Len(a)]
            BY <4>1, <4>2, <5>2
          <6>2. QED
            BY <3>4, <6>1, SMTT(30)
        <5>3. QED
          BY <4>2, <5>1, <5>2
      <4>4. QED
        BY <4>3 DEF c
    <3>9. QED
      BY <3>2, <3>7, <3>8
  <2>3. QED
    BY <2>1, <2>2
<1>9. Fine(n)
  <2> HIDE DEF Has
  <2>1. Nat \subseteq Has
    BY <1>7, <1>8, AllNats
  <2>2. n \in Has
    BY <2>1
  <2> HIDE DEF Fine
  <2>3. QED
    BY <2>2 DEF Has
<1>10. g[n] = Stream /\ DOMAIN script = 1 .. n
  BY <1>1, <1>2, <1>5 DEF Joined
<1>11. QED
  BY <1>5, <1>9, <1>10

\* Positions of empty lines.
LEMMA EndsIn ==
  ASSUME NEW b \in Seq(Symbol)
  PROVE  /\ Ends(b) \subseteq 1 .. Len(b) /\ Len(b) \in Nat
         /\ \A j \in Ends(b) : b[j].id \in Nat /\ b[j].part = "end"
         /\ \A j \in 1 .. Len(b) : b[j] \in Symbol
<1>1. \A j \in 1 .. Len(b) : b[j] \in Symbol
  OBVIOUS
<1>2. QED
  BY <1>1 DEF Ends, Symbol

\* The headers end at the first empty line.
LEMMA ParseFirst ==
  ASSUME NEW b \in Seq(Symbol), NEW len \in Parse(b), len > 0
  PROVE  len \in Ends(b) /\ \A k \in Ends(b) : len <= k
<1> DEFINE e == CHOOSE j \in Ends(b) : \A k \in Ends(b) : j <= k
<1>1. Ends(b) # {}
  BY DEF Parse
<1>2. PICK j \in Ends(b) : \A k \in Ends(b) : j <= k
  <2>1. Ends(b) \in SUBSET Nat
    BY EndsIn
  <2>2. QED
    BY <1>1, <2>1, Smallest
<1>3. e \in Ends(b) /\ \A k \in Ends(b) : e <= k
  BY <1>2
<1>4. len \in {-1, e}
  BY <1>1 DEF Parse
<1> HIDE DEF e
<1>5. QED
  BY <1>3, <1>4

\* n whole chunks, none of them behind the last one.
Run(b, i, n) == \A j \in 0 .. (n - 1) :
                  /\ IsChunk(b, i + 2 * j)
                  /\ j < n - 1 => b[i + 2 * j].part # "last"

\* Chunks that are there.
LEMMA ChunksThere ==
  ASSUME NEW b \in Seq(Symbol), NEW i \in Nat \ {0}
  PROVE  /\ WholeChunks(b, i) \in Nat
         /\ Run(b, i, WholeChunks(b, i))
         /\ \A n \in 0 .. Len(b) : Run(b, i, n) => n <= WholeChunks(b, i)
         /\ \A j \in 0 .. (WholeChunks(b, i) - 1) : i + 2 * j + 1 <= Len(b)
<1> DEFINE runs == {n \in 0 .. Len(b) : Run(b, i, n)}
           gaps == {g \in Nat : \E n \in runs : g = Len(b) - n}
           w == CHOOSE n \in runs : \A k \in runs : k <= n
<1>1. Len(b) \in Nat
  OBVIOUS
<1>2. 0 \in runs
  BY <1>1 DEF Run
<1>3. runs \subseteq 0 .. Len(b) /\ \A n \in runs : Run(b, i, n)
  OBVIOUS
<1>4. WholeChunks(b, i) = w
  BY DEF WholeChunks, Run
<1> HIDE DEF runs
<1>5. PICK n \in runs : \A k \in runs : k <= n
  <2>1. gaps \in SUBSET Nat /\ Len(b) \in gaps
    BY <1>1, <1>2
  <2>2. PICK g \in gaps : \A k \in gaps : g <= k
    <3> HIDE DEF gaps
    <3>1. QED
      BY <2>1, Smallest
  <2>3. PICK n \in runs : g = Len(b) - n
    OBVIOUS
  <2>4. ASSUME NEW k \in runs PROVE k <= n
    <3>1. Len(b) - k \in gaps
      BY <1>1, <1>3
    <3>2. g <= Len(b) - k
      BY <2>2, <3>1
    <3>3. k \in Nat /\ n \in Nat
      BY <1>1, <1>3
    <3>4. QED
      BY <1>1, <2>3, <3>2, <3>3
  <2>5. QED
    BY <2>4
<1>6. w \in runs /\ \A k \in runs : k <= w
  BY <1>5
<1> HIDE DEF w
<1>7. w \in Nat /\ Run(b, i, w) /\ \A k \in runs : k <= w
  BY <1>1, <1>3, <1>5, <1>6
<1>8. ASSUME NEW j \in 0 .. (w - 1) PROVE i + 2 * j + 1 <= Len(b)
  <2>1. IsChunk(b, i + 2 * j)
    BY <1>7 DEF Run
  <2>2. QED
    BY <2>1 DEF IsChunk
<1>9. QED
  BY <1>4, <1>7, <1>8 DEF runs

\* r is what some removals leave of b: its empty lines are of b, those behind
\* n among those behind n.
Keeps(b, r, n) ==
  /\ r \in Seq(Symbol) /\ Ordered(r)
  /\ \A j \in Ends(r) : \E i \in Ends(b) : /\ r[j].id = b[i].id
                                           /\ j > n => i > n

\* What becomes of b's n whole chunks behind the headers of length len: m
\* pieces, followed by the rest.
Collapsed(b, len, n, m, r) ==
  /\ n \in Nat /\ m \in 0 .. n /\ len + 2 * n <= Len(b)
  /\ r \in Seq(Symbol) /\ Len(r) = Len(b) - 2 * n + m
  /\ \A j \in 1 .. len : r[j] = b[j]
  /\ \A j \in 1 .. m : r[len + j] = [id |-> b[len + 2 * j - 1].id, part |-> "piece"]
  /\ \A j \in (len + m + 1) .. Len(r) : r[j] = b[j - m + 2 * n]

\* The last chunk is there.
Finished(b, len) ==
  /\ WholeChunks(b, len + 1) > 0
  /\ b[len + 1 + 2 * (WholeChunks(b, len + 1) - 1)].part = "last"

\* mg_handle_chunked, position by position.
LEMMA ReassembledIs ==
  ASSUME NEW b \in Seq(Symbol), NEW len \in 1 .. Len(b)
  PROVE  /\ Collapsed(b, len, WholeChunks(b, len + 1),
                      IF Finished(b, len) THEN WholeChunks(b, len + 1) - 1
                                          ELSE WholeChunks(b, len + 1),
                      Reassembled(b, len, 0).buf)
         /\ Reassembled(b, len, 0).message =
              IF Finished(b, len) THEN Len(Reassembled(b, len, 0).buf)
                                  ELSE MessageLen(b, len)
<1> DEFINE from == len + 0 + 1
           n == WholeChunks(b, from)
           done == n > 0 /\ b[from + 2 * (n - 1)].part = "last"
           m == IF done THEN n - 1 ELSE n
           data == [j \in 1 .. m |->
                      [id |-> b[from + 2 * (j - 1)].id, part |-> "piece"]]
           rest == SubSeq(b, from + 2 * n, Len(b))
           head == SubSeq(b, 1, from - 1)
           whole == head \o data \o rest
           r == Reassembled(b, len, 0)
<1>1. r = [buf |-> whole,
           message |-> IF done THEN Len(whole) ELSE MessageLen(b, len),
           chunks |-> 0 + Len(data)]
  BY DEF Reassembled
<1>2. r.buf = whole /\ r.message = IF done THEN Len(whole) ELSE MessageLen(b, len)
  <2> HIDE DEF r, whole, done, data, m
  <2>1. QED
    BY <1>1
<1> HIDE DEF r
<1>3. /\ len \in 1 .. Len(b) /\ Len(b) \in Nat /\ from = len + 1
      /\ \A j \in 1 .. Len(b) : b[j] \in Symbol
  BY EndsIn
<1>4. n \in Nat /\ \A j \in 0 .. (n - 1) : from + 2 * j + 1 <= Len(b)
  BY <1>3, ChunksThere
<1> HIDE DEF from, n
<1>5. m \in 0 .. n
  BY <1>4
<1>6. len + 2 * n <= Len(b)
  <2>1. CASE n = 0
    BY <1>3, <2>1
  <2>2. CASE n # 0
    <3>1. n - 1 \in 0 .. (n - 1)
      BY <1>4, <2>2
    <3>2. from + 2 * (n - 1) + 1 <= Len(b)
      BY <1>4, <3>1
    <3>3. QED
      BY <1>3, <1>4, <3>2
  <2>3. QED
    BY <2>1, <2>2
<1> HIDE DEF done, m
<1>7. /\ data \in Seq(Symbol) /\ Len(data) = m
      /\ \A j \in 1 .. m : data[j] = [id |-> b[from + 2 * (j - 1)].id, part |-> "piece"]
  <2>1. ASSUME NEW j \in 1 .. m
        PROVE  [id |-> b[from + 2 * (j - 1)].id, part |-> "piece"] \in Symbol
    <3>1. j - 1 \in 0 .. (n - 1)
      BY <1>4, <1>5
    <3>2. from + 2 * (j - 1) + 1 <= Len(b)
      BY <1>4, <3>1
    <3>3. from + 2 * (j - 1) \in 1 .. Len(b)
      BY <1>3, <3>1, <3>2
    <3>4. b[from + 2 * (j - 1)] \in Symbol
      BY <1>3, <3>3
    <3>5. QED
      BY <3>4 DEF Symbol, Parts
  <2>2. m \in Nat
    BY <1>4, <1>5
  <2>3. QED
    BY <2>1, <2>2
<1>8. /\ head \in Seq(Symbol) /\ Len(head) = len
      /\ \A j \in 1 .. len : head[j] = b[j]
  <2>1. from - 1 = len
    BY <1>3
  <2>2. QED
    BY <1>3, <2>1, SubSeqProperties
<1>9. /\ rest \in Seq(Symbol) /\ Len(rest) = Len(b) - len - 2 * n
      /\ \A j \in 1 .. Len(rest) : rest[j] = b[len + 2 * n + j]
  <2> DEFINE f == from + 2 * n
  <2>1. f \in 1 .. Len(b) + 1 /\ f = len + 2 * n + 1
    BY <1>3, <1>4, <1>6
  <2> HIDE DEF f
  <2>2. /\ SubSeq(b, f, Len(b)) \in Seq(Symbol)
        /\ Len(SubSeq(b, f, Len(b))) = IF f <= Len(b) THEN Len(b) - f + 1 ELSE 0
        /\ \A j \in 1 .. Len(b) - f + 1 : SubSeq(b, f, Len(b))[j] = b[f + j - 1]
    BY <1>3, <2>1, SubSeqProperties
  <2>3. rest = SubSeq(b, f, Len(b))
    BY DEF f
  <2> HIDE DEF rest
  <2>4. Len(rest) = Len(b) - f + 1
    BY <1>3, <2>1, <2>2, <2>3
  <2>5. ASSUME NEW j \in 1 .. Len(rest) PROVE rest[j] = b[len + 2 * n + j]
    <3>1. rest[j] = b[f + j - 1] /\ j \in Nat
      BY <2>2, <2>3, <2>4
    <3>2. f + j - 1 = len + 2 * n + j
      BY <1>3, <1>4, <2>1, <3>1
    <3>3. QED
      BY <3>1, <3>2
  <2>6. Len(rest) = Len(b) - len - 2 * n
    BY <1>3, <1>4, <2>1, <2>4
  <2>7. QED
    BY <2>2, <2>3, <2>5, <2>6
<1> HIDE DEF head, data, rest
<1>10. /\ whole \in Seq(Symbol) /\ Len(whole) = len + m + Len(rest)
       /\ \A j \in 1 .. len : whole[j] = b[j]
       /\ \A j \in 1 .. m : whole[len + j] = [id |-> b[len + 2 * j - 1].id, part |-> "piece"]
       /\ \A j \in (len + m + 1) .. Len(whole) : whole[j] = b[j - m + 2 * n]
  <2> DEFINE h == head \o data
  <2>1. /\ h \in Seq(Symbol) /\ Len(h) = len + m
        /\ \A j \in 1 .. (len + m) : h[j] = IF j <= len THEN head[j] ELSE data[j - len]
    BY <1>7, <1>8, ConcatProperties, ZenonT(30)
  <2> HIDE DEF h
  <2>2. /\ h \o rest \in Seq(Symbol) /\ Len(h \o rest) = len + m + Len(rest)
        /\ \A j \in 1 .. (len + m + Len(rest)) :
             (h \o rest)[j] = IF j <= len + m THEN h[j] ELSE rest[j - (len + m)]
    <3>1. /\ h \o rest \in Seq(Symbol) /\ Len(h \o rest) = Len(h) + Len(rest)
          /\ \A j \in 1 .. Len(h) + Len(rest) :
               (h \o rest)[j] = IF j <= Len(h) THEN h[j] ELSE rest[j - Len(h)]
      BY <1>9, <2>1, ConcatProperties
    <3> DEFINE w == h \o rest
    <3> HIDE DEF w
    <3>2. /\ w \in Seq(Symbol) /\ Len(w) = len + m + Len(rest)
          /\ \A j \in 1 .. (len + m + Len(rest)) :
               w[j] = IF j <= len + m THEN h[j] ELSE rest[j - (len + m)]
      BY <2>1, <3>1 DEF w
    <3>3. QED
      BY <3>2 DEF w
  <2>3. whole = h \o rest
    BY DEF h
  <2> HIDE DEF whole
  <2>4. len \in Nat /\ m \in Nat /\ n \in Nat /\ Len(rest) \in Nat
    BY <1>3, <1>4, <1>5, <1>6, <1>9
  <2>5. \A j \in 1 .. len : whole[j] = b[j]
    BY <1>8, <2>1, <2>2, <2>3, <2>4
  <2>6. ASSUME NEW j \in 1 .. m
        PROVE  whole[len + j] = [id |-> b[len + 2 * j - 1].id, part |-> "piece"]
    <3>1. /\ len + j \in 1 .. (len + m) /\ ~(len + j <= len) /\ (len + j) - len = j
          /\ len + j \in 1 .. (len + m + Len(rest)) /\ len + j <= len + m
      BY <2>4
    <3>2. whole[len + j] = data[j]
      BY <2>1, <2>2, <2>3, <3>1
    <3>3. from + 2 * (j - 1) = len + 2 * j - 1
      BY <1>3, <2>4
    <3>4. QED
      BY <1>7, <3>2, <3>3
  <2>7. ASSUME NEW j \in (len + m + 1) .. Len(whole)
        PROVE  whole[j] = b[j - m + 2 * n]
    <3>1. j - (len + m) \in 1 .. Len(rest) /\ whole[j] = rest[j - (len + m)] /\ j \in Nat
      BY <2>2, <2>3, <2>4
    <3>2. len + 2 * n + (j - (len + m)) = j - m + 2 * n
      BY <2>4, <3>1
    <3>3. QED
      BY <1>9, <3>1, <3>2
  <2>8. QED
    BY <2>2, <2>3, <2>5, <2>6, <2>7
<1>11. n = WholeChunks(b, len + 1) /\ done = Finished(b, len)
  BY <1>3 DEF n, done, Finished
<1>12. m = IF done THEN n - 1 ELSE n
  BY DEF m
<1> HIDE DEF whole
<1>13. Len(whole) = Len(b) - 2 * n + m
  BY <1>3, <1>4, <1>5, <1>9, <1>10
<1>14. Collapsed(b, len, n, m, whole)
  BY <1>4, <1>5, <1>6, <1>10, <1>13 DEF Collapsed
<1>15. QED
  BY <1>2, <1>11, <1>12, <1>14 DEF r

\* mg_handle_chunked: everything up to the headers' end stays.
LEMMA ReassembledKeeps ==
  ASSUME NEW b \in Seq(Symbol), Ordered(b), NEW len \in Ends(b)
  PROVE  LET r == Reassembled(b, len, 0)
         IN /\ Keeps(b, r.buf, len) /\ len <= Len(r.buf)
            /\ r.message \in {Len(r.buf), MessageLen(b, len)}
<1> DEFINE whole == Reassembled(b, len, 0).buf
<1>1. len \in 1 .. Len(b) /\ Len(b) \in Nat
  BY EndsIn
<1>2. PICK n, m : Collapsed(b, len, n, m, whole)
  BY <1>1, ReassembledIs
<1>3. Reassembled(b, len, 0).message \in {Len(whole), MessageLen(b, len)}
  BY <1>1, ReassembledIs
<1> HIDE DEF whole
<1>4. /\ whole \in Seq(Symbol) /\ Len(whole) = Len(b) - 2 * n + m
      /\ n \in Nat /\ m \in Nat /\ m <= n /\ len + 2 * n <= Len(b)
      /\ \A j \in 1 .. len : whole[j] = b[j]
      /\ \A j \in (len + m + 1) .. Len(whole) : whole[j] = b[j - m + 2 * n]
  BY <1>2 DEF Collapsed
<1>5. ASSUME NEW j \in (len + 1) .. (len + m) PROVE whole[j].part = "piece"
  <2> DEFINE k == j - len
  <2>1. k \in 1 .. m /\ len + k = j
    BY <1>1, <1>4
  <2> HIDE DEF k
  <2>2. whole[len + k] = [id |-> b[len + 2 * k - 1].id, part |-> "piece"]
    BY <1>2, <2>1 DEF Collapsed
  <2>3. QED
    BY <2>1, <2>2
<1> DEFINE at(j) == IF j <= len THEN j ELSE j - m + 2 * n
<1>6. ASSUME NEW j \in Ends(whole)
      PROVE  /\ at(j) \in Ends(b) /\ whole[j] = b[at(j)] /\ (j > len => at(j) > len)
             /\ j \in 1 .. Len(whole) /\ (j > len => j > len + m)
  <2>1. j \in 1 .. Len(whole) /\ whole[j].part = "end"
    BY <1>4, EndsIn
  <2>2. DOMAIN b = 1 .. Len(b)
    OBVIOUS
  <2>3. CASE j <= len
    <3>1. j \in DOMAIN b /\ whole[j] = b[j]
      BY <1>1, <1>4, <2>1, <2>2, <2>3
    <3>2. QED
      BY <1>1, <2>1, <2>3, <3>1 DEF Ends
  <2>4. CASE j > len
    <3>1. j > len + m
      <4>1. j \notin (len + 1) .. (len + m)
        BY <1>5, <2>1
      <4>2. QED
        BY <1>1, <1>4, <2>1, <2>4, <4>1
    <3>2. whole[j] = b[j - m + 2 * n]
      BY <1>1, <1>4, <2>1, <3>1
    <3>3. j - m + 2 * n \in 1 .. Len(b) /\ j - m + 2 * n > len
      BY <1>1, <1>4, <2>1, <3>1
    <3>4. ~(j <= len) /\ j \in Int
      BY <1>1, <2>1, <2>4
    <3>5. at(j) = j - m + 2 * n
      BY <3>4
    <3> HIDE DEF at
    <3>6. whole[j] = b[at(j)] /\ at(j) \in 1 .. Len(b) /\ at(j) > len
      BY <3>2, <3>3, <3>5
    <3>7. at(j) \in Ends(b)
      BY <2>1, <2>2, <3>6 DEF Ends
    <3>8. QED
      BY <2>1, <3>1, <3>6, <3>7
  <2>5. QED
    BY <1>1, <2>1, <2>3, <2>4
<1>7. Ordered(whole)
  <2>1. ASSUME NEW j \in Ends(whole), NEW k \in Ends(whole), j < k
        PROVE  whole[j].id < whole[k].id
    <3>1. at(j) < at(k)
      <4>1. j \in Nat /\ k \in Nat
        BY <1>6, <2>1
      <4>2. QED
        BY <1>1, <1>4, <2>1, <4>1
    <3> HIDE DEF at
    <3>2. QED
      BY <1>6, <3>1 DEF Ordered
  <2>2. QED
    BY <2>1 DEF Ordered
<1>8. Keeps(b, whole, len)
  <2> HIDE DEF at
  <2>1. QED
    BY <1>4, <1>6, <1>7 DEF Keeps
<1>9. len <= Len(whole)
  BY <1>1, <1>4
<1>10. QED
  BY <1>3, <1>8, <1>9 DEF whole

\* Behind an empty line behind n, r ends as b does.
EndsAlike(b, r, n) ==
  /\ Len(r) <= Len(b)
  /\ \A f \in Ends(r) :
       f > n => \A k \in 0 .. (Len(r) - f) : r[Len(r) - k] = b[Len(b) - k]

\* mg_handle_chunked: what is behind the chunks stays too.
LEMMA ReassembledRest ==
  ASSUME NEW b \in Seq(Symbol), NEW len \in Ends(b)
  PROVE  LET r == Reassembled(b, len, 0).buf
         IN /\ EndsAlike(b, r, len) /\ \A j \in 1 .. len : r[j] = b[j]
            /\ \A i \in Ends(b) : i > len => \E j \in Ends(r) : j > len /\ r[j] = b[i]
<1> DEFINE r == Reassembled(b, len, 0).buf
           n == WholeChunks(b, len + 1)
<1>1. len \in 1 .. Len(b) /\ Len(b) \in Nat
  BY EndsIn
<1>2. PICK m : Collapsed(b, len, n, m, r)
  BY <1>1, ReassembledIs
<1>3. Run(b, len + 1, n)
  BY <1>1, ChunksThere
<1> HIDE DEF r, n
<1>4. /\ r \in Seq(Symbol) /\ Len(r) = Len(b) - 2 * n + m
      /\ n \in Nat /\ m \in Nat /\ m <= n /\ len + 2 * n <= Len(b)
      /\ \A j \in 1 .. len : r[j] = b[j]
      /\ \A j \in 1 .. m : r[len + j] = [id |-> b[len + 2 * j - 1].id, part |-> "piece"]
      /\ \A j \in (len + m + 1) .. Len(r) : r[j] = b[j - m + 2 * n]
  BY <1>2 DEF Collapsed
<1>5. ASSUME NEW f \in Ends(r), f > len PROVE f \in (len + m + 1) .. Len(r)
  <2>1. f \in 1 .. Len(r) /\ r[f].part = "end"
    BY <1>4, EndsIn
  <2>2. CASE f <= len + m
    <3> DEFINE j == f - len
    <3>1. j \in 1 .. m /\ len + j = f
      BY <1>1, <1>4, <1>5, <2>1, <2>2
    <3> HIDE DEF j
    <3>2. r[len + j] = [id |-> b[len + 2 * j - 1].id, part |-> "piece"]
      BY <1>4, <3>1
    <3>3. QED
      BY <2>1, <3>1, <3>2
  <2>3. QED
    BY <1>1, <1>4, <2>1, <2>2
<1>6. ASSUME NEW f \in Ends(r), f > len, NEW k \in 0 .. (Len(r) - f)
      PROVE  r[Len(r) - k] = b[Len(b) - k]
  <2> DEFINE j == Len(r) - k
  <2>1. j \in (len + m + 1) .. Len(r) /\ j - m + 2 * n = Len(b) - k
    BY <1>1, <1>4, <1>5, <1>6
  <2> HIDE DEF j
  <2>2. r[j] = b[Len(b) - k]
    BY <1>4, <2>1
  <2>3. QED
    BY <2>2 DEF j
<1>7. EndsAlike(b, r, len)
  BY <1>1, <1>4, <1>6 DEF EndsAlike
\* There is no empty line in the chunks.
<1>8. ASSUME NEW i \in Ends(b), i > len PROVE i > len + 2 * n
  <2> SUFFICES ASSUME i <= len + 2 * n PROVE FALSE
    BY <1>1, <1>4, EndsIn
  <2>1. i \in 1 .. Len(b) /\ b[i].part = "end"
    BY EndsIn
  <2> DEFINE x == i - len - 1
             j == x \div 2
  <2>2. x \in Nat /\ x < 2 * n /\ i = len + 1 + x
    BY <1>1, <1>4, <1>8, <2>1
  <2> HIDE DEF x
  <2>3. j \in 0 .. (n - 1) /\ (x = 2 * j \/ x = 2 * j + 1)
    BY <1>4, <2>2
  <2> HIDE DEF j
  <2>4. IsChunk(b, len + 1 + 2 * j)
    BY <1>3, <2>3 DEF Run
  <2> DEFINE y == len + 1 + 2 * j
  <2>5. i = y \/ i = y + 1
    BY <1>1, <2>2, <2>3
  <2> HIDE DEF y
  <2>6. IsChunk(b, y)
    BY <2>4 DEF y
  <2>7. b[y].part # "end" /\ b[y + 1].part # "end"
    BY <2>6 DEF IsChunk
  <2>8. QED
    BY <2>1, <2>5, <2>7
<1>9. ASSUME NEW i \in Ends(b), i > len PROVE \E j \in Ends(r) : j > len /\ r[j] = b[i]
  <2> DEFINE j == i + m - 2 * n
  <2>1. i \in 1 .. Len(b) /\ b[i].part = "end" /\ i > len + 2 * n
    BY <1>8, <1>9, EndsIn
  <2>2. j \in (len + m + 1) .. Len(r) /\ j - m + 2 * n = i /\ j > len
    BY <1>1, <1>4, <2>1
  <2> HIDE DEF j
  <2>3. r[j] = b[i]
    BY <1>4, <2>2
  <2>4. j \in DOMAIN r
    BY <1>1, <1>4, <2>2
  <2>5. j \in Ends(r)
    BY <2>1, <2>3, <2>4 DEF Ends
  <2>6. QED
    BY <2>2, <2>3, <2>5
<1>10. QED
  BY <1>4, <1>7, <1>9 DEF r

\* mbuf_remove.
LEMMA DropIs ==
  ASSUME NEW b \in Seq(Symbol), NEW n \in 0 .. Len(b)
  PROVE  /\ Drop(b, n) \in Seq(Symbol) /\ Len(Drop(b, n)) = Len(b) - n
         /\ \A j \in 1 .. (Len(b) - n) : Drop(b, n)[j] = b[j + n]
<1>1. Len(b) \in Nat /\ n \in Nat /\ n <= Len(b)
  OBVIOUS
<1>2. CASE n = 0
  <2>1. Drop(b, n) = b
    BY <1>2 DEF Drop
  <2>2. QED
    BY <1>1, <1>2, <2>1
<1>3. CASE n # 0
  <2> DEFINE f == n + 1
  <2>1. Drop(b, n) = SubSeq(b, f, Len(b))
    BY <1>1, <1>3 DEF Drop
  <2>2. f \in 1 .. Len(b) + 1 /\ f = n + 1
    BY <1>1
  <2> HIDE DEF f
  <2>3. /\ SubSeq(b, f, Len(b)) \in Seq(Symbol)
        /\ Len(SubSeq(b, f, Len(b))) = IF f <= Len(b) THEN Len(b) - f + 1 ELSE 0
        /\ \A j \in 1 .. Len(b) - f + 1 : SubSeq(b, f, Len(b))[j] = b[f + j - 1]
    BY <1>1, <2>2, SubSeqProperties
  <2> DEFINE d == Drop(b, n)
  <2>4. d = SubSeq(b, f, Len(b))
    BY <2>1
  <2> HIDE DEF d
  <2>5. d \in Seq(Symbol) /\ Len(d) = Len(b) - n
    BY <1>1, <2>2, <2>3, <2>4
  <2>6. ASSUME NEW j \in 1 .. (Len(b) - n) PROVE d[j] = b[j + n]
    <3>1. j \in 1 .. Len(b) - f + 1 /\ f + j - 1 = j + n
      BY <1>1, <2>2
    <3>2. d[j] = b[f + j - 1]
      BY <2>3, <2>4, <3>1
    <3>3. QED
      BY <3>1, <3>2
  <2>7. QED
    BY <2>5, <2>6 DEF d
<1>4. QED
  BY <1>2, <1>3

\* Its empty lines are those of b behind n.
LEMMA DropEnds ==
  ASSUME NEW b \in Seq(Symbol), Ordered(b), NEW n \in 0 .. Len(b)
  PROVE  /\ Ordered(Drop(b, n))
         /\ \A j \in Ends(Drop(b, n)) : /\ j + n \in Ends(b) /\ j + n > n
                                       /\ Drop(b, n)[j] = b[j + n]
         /\ \A i \in Ends(b) : i > n => \E j \in Ends(Drop(b, n)) : Drop(b, n)[j] = b[i]
<1> DEFINE d == Drop(b, n)
<1>1. /\ d \in Seq(Symbol) /\ Len(d) = Len(b) - n
      /\ \A j \in 1 .. (Len(b) - n) : d[j] = b[j + n]
  BY DropIs
<1> HIDE DEF d
<1>2. Len(b) \in Nat /\ n \in Nat /\ n <= Len(b) /\ DOMAIN b = 1 .. Len(b)
      /\ DOMAIN d = 1 .. Len(d)
  BY <1>1
<1>3. ASSUME NEW j \in Ends(d)
      PROVE  j \in Nat /\ j + n \in Ends(b) /\ j + n > n /\ d[j] = b[j + n]
  <2>1. j \in 1 .. Len(d) /\ d[j].part = "end"
    BY <1>1, EndsIn
  <2>2. d[j] = b[j + n] /\ j + n \in 1 .. Len(b) /\ j + n > n
    BY <1>1, <1>2, <2>1
  <2>3. QED
    BY <1>2, <2>1, <2>2 DEF Ends
<1>4. Ordered(d)
  <2>1. ASSUME NEW j \in Ends(d), NEW k \in Ends(d), j < k PROVE d[j].id < d[k].id
    <3>1. j + n < k + n
      BY <1>2, <1>3, <2>1
    <3>2. QED
      BY <1>3, <3>1 DEF Ordered
  <2>2. QED
    BY <2>1 DEF Ordered
<1>5. ASSUME NEW i \in Ends(b), i > n PROVE \E j \in Ends(d) : d[j] = b[i]
  <2> DEFINE j == i - n
  <2>1. i \in 1 .. Len(b) /\ b[i].part = "end"
    BY EndsIn
  <2>2. j \in 1 .. Len(d) /\ j \in 1 .. (Len(b) - n) /\ j + n = i
    BY <1>1, <1>2, <1>5, <2>1
  <2> HIDE DEF j
  <2>3. d[j] = b[i]
    BY <1>1, <2>2
  <2>4. j \in Ends(d)
    BY <1>2, <2>1, <2>2, <2>3 DEF Ends
  <2>5. QED
    BY <2>3, <2>4
<1>6. QED
  BY <1>3, <1>4, <1>5 DEF d

-----------------------------------------------------------------------------
(* Where messages lie in the stream.                                       *)

\* b starts with a.
Starts(a, b) == Len(a) <= Len(b) /\ \A j \in 1 .. Len(a) : b[j] = a[j]

LEMMA StartsLonger ==
  ASSUME NEW S, NEW a \in Seq(S), NEW b \in Seq(S), NEW c \in Seq(S), Starts(a, b)
  PROVE  Starts(a, b \o c)
<1>1. /\ Len(a) \in Nat /\ Len(b) \in Nat /\ Len(c) \in Nat
      /\ Len(b \o c) = Len(b) + Len(c)
      /\ \A j \in 1 .. Len(b) + Len(c) :
           (b \o c)[j] = IF j <= Len(b) THEN b[j] ELSE c[j - Len(b)]
  BY ConcatProperties
<1> DEFINE d == b \o c
<1> HIDE DEF d
<1>2. /\ Len(d) = Len(b) + Len(c)
      /\ \A j \in 1 .. Len(b) + Len(c) : d[j] = IF j <= Len(b) THEN b[j] ELSE c[j - Len(b)]
  BY <1>1 DEF d
<1>3. Len(a) <= Len(b) /\ \A j \in 1 .. Len(a) : b[j] = a[j]
  BY DEF Starts
<1>4. Len(a) <= Len(d)
  BY <1>1, <1>2, <1>3
<1>5. \A j \in 1 .. Len(a) : d[j] = a[j]
  BY <1>1, <1>2, <1>3
<1>6. Starts(a, d)
  BY <1>4, <1>5 DEF Starts
<1>7. QED
  BY <1>6 DEF d

\* A chain of joined sequences grows at its end.
LEMMA ChainGrows ==
  ASSUME NEW S, NEW n \in Nat \ {0}, NEW s \in [1 .. n -> Seq(S)],
         NEW g \in [1 .. n -> Seq(S)], Joined(g, s, n)
  PROVE  \A k \in 1 .. n : \A i \in 1 .. k : Starts(g[i], g[k])
<1> DEFINE Has == {k \in Nat : k \in 1 .. n => \A i \in 1 .. k : Starts(g[i], g[k])}
<1>1. 0 \in Has
  OBVIOUS
<1>2. ASSUME NEW m \in Nat, m \in Has PROVE m + 1 \in Has
  <2> SUFFICES ASSUME m + 1 \in 1 .. n, NEW i \in 1 .. (m + 1)
               PROVE  Starts(g[i], g[m + 1])
    OBVIOUS
  <2>1. CASE i = m + 1
    BY <2>1 DEF Starts
  <2>2. CASE i # m + 1
    <3>1. m \in 1 .. (n - 1) /\ m \in 1 .. n /\ i \in 1 .. m
      BY <2>2
    <3>2. Starts(g[i], g[m])
      BY <1>2, <3>1
    <3>3. g[m + 1] = g[m] \o s[m + 1]
      BY <3>1 DEF Joined
    <3>4. g[i] \in Seq(S) /\ g[m] \in Seq(S) /\ s[m + 1] \in Seq(S)
      BY <3>1
    <3>5. Starts(g[i], g[m] \o s[m + 1])
      BY <3>2, <3>4, StartsLonger
    <3>6. QED
      BY <3>3, <3>5, Zenon
  <2>3. QED
    BY <2>1, <2>2
<1> HIDE DEF Has
<1>3. Nat \subseteq Has
  BY <1>1, <1>2, AllNats
<1>4. QED
  BY <1>3 DEF Has

\* The first n of a and of b are the same.
Alike(a, b, n) == \A i \in 1 .. n : a[i] = b[i]

\* Chains that begin with the same sequences begin alike.
LEMMA ChainSame ==
  ASSUME NEW n \in Nat \ {0}, NEW s, NEW g, Joined(g, s, n),
         NEW m \in 1 .. n, NEW t, NEW h, Joined(h, t, m),
         Alike(t, s, m)
  PROVE  Alike(h, g, m)
<1> DEFINE Has == {k \in Nat : k \in 1 .. m => h[k] = g[k]}
<1>1. 0 \in Has
  OBVIOUS
<1>2. ASSUME NEW k \in Nat, k \in Has PROVE k + 1 \in Has
  <2> SUFFICES ASSUME k + 1 \in 1 .. m PROVE h[k + 1] = g[k + 1]
    OBVIOUS
  <2>1. CASE k = 0
    <3>1. 1 \in 1 .. m /\ k + 1 = 1
      BY <2>1
    <3>2. h[1] = t[1] /\ g[1] = s[1] /\ t[1] = s[1]
      BY <3>1 DEF Joined, Alike
    <3>3. QED
      BY <3>1, <3>2
  <2>2. CASE k # 0
    <3>1. k \in 1 .. (n - 1) /\ k \in 1 .. (m - 1) /\ k \in 1 .. m
      BY <2>2
    <3>2. h[k] = g[k] /\ t[k + 1] = s[k + 1]
      BY <1>2, <3>1 DEF Alike
    <3>3. h[k + 1] = h[k] \o t[k + 1]
      BY <3>1 DEF Joined
    <3>4. g[k + 1] = g[k] \o s[k + 1]
      BY <3>1 DEF Joined
    <3>5. QED
      BY <3>2, <3>3, <3>4, Zenon
  <2>3. QED
    BY <2>1, <2>2
<1> HIDE DEF Has
<1>3. Nat \subseteq Has
  BY <1>1, <1>2, AllNats
<1>4. QED
  BY <1>3 DEF Has, Alike

\* How many messages there are, and where the first i end.
N == Len(script)
At(i) == IF i = 0 THEN 0 ELSE Len(FlattenSeq([j \in 1 .. i |-> Symbols(j)]))

\* Message i + 1 of the stream s begins where the first i end.
Laid(s, i) ==
  /\ At(i + 1) = At(i) + Len(Symbols(i + 1)) /\ At(i + 1) <= Len(s)
  /\ \A j \in 1 .. Len(Symbols(i + 1)) : s[At(i) + j] = Symbols(i + 1)[j]

\* The messages lie one behind the other.
LEMMA Layout ==
  ASSUME IsScript
  PROVE  /\ N \in Nat \ {0} /\ \A i \in 1 .. N : script[i] \in AllKinds
         /\ At(0) = 0 /\ At(N) = Len(Stream)
         /\ \A i \in 0 .. N : At(i) \in Nat
         /\ \A i \in 0 .. (N - 1) : Laid(Stream, i)
<1>1. PICK n \in Nat \ {0} : script \in [1 .. n -> AllKinds]
  BY DEF IsScript
<1>2. N = n /\ DOMAIN script = 1 .. n
  BY <1>1 DEF N
<1> DEFINE s == [i \in 1 .. n |-> Symbols(i)]
<1>3. \A i \in 1 .. n : Symbols(i) \in Seq(Symbol)
  BY <1>1, SymbolsOne
<1>4. s \in [1 .. n -> Seq(Symbol)] /\ \A i \in 1 .. n : s[i] = Symbols(i)
  BY <1>3
<1>5. Stream = FlattenSeq(s)
  BY <1>2 DEF Stream
<1> HIDE DEF s
<1>6. PICK g \in [1 .. n -> Seq(Symbol)] : Joined(g, s, n)
  BY <1>4, Flattened
<1>7. g[n] = Stream
  BY <1>5, <1>6 DEF Joined
<1>8. ASSUME NEW i \in 1 .. n PROVE At(i) = Len(g[i])
  <2> DEFINE t == [j \in 1 .. i |-> Symbols(j)]
  <2>1. t \in [1 .. i -> Seq(Symbol)] /\ \A j \in 1 .. i : t[j] = Symbols(j)
    BY <1>3
  <2>2. At(i) = Len(FlattenSeq(t))
    BY DEF At
  <2> HIDE DEF t
  <2>3. PICK h \in [1 .. i -> Seq(Symbol)] : Joined(h, t, i)
    <3>1. i \in Nat \ {0}
      OBVIOUS
    <3>2. QED
      BY <2>1, <3>1, Flattened
  <2>4. Alike(t, s, i)
    BY <1>4, <2>1 DEF Alike
  <2>5. Alike(h, g, i)
    BY <1>6, <2>3, <2>4, ChainSame
  <2>6. h[i] = FlattenSeq(t)
    BY <2>3 DEF Joined
  <2>7. h[i] = g[i]
    BY <2>5 DEF Alike
  <2>8. QED
    BY <2>2, <2>6, <2>7
<1>9. At(0) = 0
  BY DEF At
<1>10. \A i \in 1 .. n : g[i] \in Seq(Symbol) /\ Len(g[i]) \in Nat
  OBVIOUS
<1>11. \A i \in 0 .. n : At(i) \in Nat
  BY <1>8, <1>9, <1>10
<1>12. \A i \in 1 .. n : Starts(g[i], Stream)
  <2>1. \A k \in 1 .. n : \A i \in 1 .. k : Starts(g[i], g[k])
    BY <1>4, <1>6, ChainGrows
  <2>2. n \in 1 .. n
    OBVIOUS
  <2>3. QED
    BY <1>7, <2>1, <2>2
<1>13. ASSUME NEW i \in 0 .. (n - 1) PROVE Laid(Stream, i)
  <2> DEFINE b == Symbols(i + 1)
  <2>1. i + 1 \in 1 .. n /\ s[i + 1] = b /\ b \in Seq(Symbol) /\ Len(b) \in Nat
    BY <1>3, <1>4
  <2> HIDE DEF b
  <2>2. Starts(g[i + 1], Stream) /\ At(i + 1) = Len(g[i + 1])
    BY <1>8, <1>12, <2>1
  <2>3. ASSUME NEW j \in 1 .. Len(b)
        PROVE  g[i + 1][At(i) + j] = b[j]
    <3>1. CASE i = 0
      BY <1>6, <1>9, <2>1, <3>1 DEF Joined
    <3>2. CASE i # 0
      <4>1. i \in 1 .. (n - 1) /\ i \in 1 .. n
        BY <3>2
      <4>2. g[i + 1] = g[i] \o b
        BY <1>6, <2>1, <4>1 DEF Joined
      <4> DEFINE a == g[i]
                 c == g[i + 1]
      <4>3. a \in Seq(Symbol) /\ At(i) = Len(a) /\ Len(a) \in Nat /\ c = a \o b
        BY <1>8, <1>10, <4>1, <4>2
      <4> HIDE DEF a, c
      <4>4. \A k \in 1 .. Len(a) + Len(b) :
              c[k] = IF k <= Len(a) THEN a[k] ELSE b[k - Len(a)]
        BY <2>1, <4>3, ConcatProperties
      <4> DEFINE p == At(i) + j
      <4>5. p \in 1 .. Len(a) + Len(b) /\ ~(p <= Len(a)) /\ p - Len(a) = j
        BY <2>1, <4>3
      <4> HIDE DEF p
      <4>6. c[p] = b[j]
        BY <4>4, <4>5
      <4>7. QED
        BY <4>6 DEF c, p
    <3>3. QED
      BY <3>1, <3>2
  <2>4. Len(g[i + 1]) = At(i) + Len(b)
    <3>1. CASE i = 0
      BY <1>6, <1>9, <2>1, <3>1 DEF Joined
    <3>2. CASE i # 0
      <4>1. i \in 1 .. (n - 1) /\ i \in 1 .. n
        BY <3>2
      <4>2. g[i + 1] = g[i] \o b
        BY <1>6, <2>1, <4>1 DEF Joined
      <4>3. Len(g[i] \o b) = Len(g[i]) + Len(b)
        BY <1>10, <2>1, <4>1, ConcatProperties
      <4>4. QED
        BY <1>8, <4>1, <4>2, <4>3
    <3>3. QED
      BY <3>1, <3>2
  <2>5. At(i + 1) = At(i) + Len(b) /\ At(i) \in Nat
    BY <1>11, <2>2, <2>4
  <2>6. At(i + 1) <= Len(Stream)
    BY <2>2 DEF Starts
  <2>7. \A j \in 1 .. Len(b) : Stream[At(i) + j] = b[j]
    <3> TAKE j \in 1 .. Len(b)
    <3>1. At(i) + j \in 1 .. Len(g[i + 1])
      BY <2>1, <2>4, <2>5
    <3>2. QED
      BY <2>2, <2>3, <3>1 DEF Starts
  <2>8. QED
    BY <2>5, <2>6, <2>7 DEF Laid, b
<1>14. At(n) = Len(Stream)
  <2>1. n \in 1 .. n
    OBVIOUS
  <2>2. QED
    BY <1>7, <1>8, <2>1
<1>15. \A i \in 1 .. N : script[i] \in AllKinds
  BY <1>1, <1>2
<1> HIDE DEF N
<1>16. QED
  BY <1>2, <1>9, <1>11, <1>13, <1>14, <1>15

\* Later messages end further behind.
LEMMA AtRises ==
  ASSUME IsScript, NEW i \in 0 .. N
  PROVE  \A k \in 0 .. N : i <= k => At(i) <= At(k)
<1>1. /\ N \in Nat /\ \A j \in 0 .. N : At(j) \in Nat
      /\ \A j \in 0 .. (N - 1) : Laid(Stream, j)
      /\ \A j \in 1 .. N : script[j] \in AllKinds
  BY Layout
<1> DEFINE Has == {k \in Nat : k \in i .. N => At(i) <= At(k)}
<1> HIDE DEF N
<1>2. 0 \in Has
  <2>1. 0 \in i .. N => i = 0
    BY <1>1
  <2>2. QED
    BY <1>1, <2>1
<1>3. ASSUME NEW k \in Nat, k \in Has PROVE k + 1 \in Has
  <2> SUFFICES ASSUME k + 1 \in i .. N PROVE At(i) <= At(k + 1)
    OBVIOUS
  <2>1. CASE i = k + 1
    BY <1>1, <2>1
  <2>2. CASE i # k + 1
    <3>1. k \in i .. N /\ k \in 0 .. (N - 1) /\ k \in 0 .. N /\ k + 1 \in 1 .. N
      BY <1>1, <2>2
    <3>2. At(i) <= At(k) /\ At(k + 1) = At(k) + Len(Symbols(k + 1))
      BY <1>1, <1>3, <3>1 DEF Laid
    <3>3. Symbols(k + 1) \in Seq(Symbol)
      BY <1>1, <3>1, SymbolsOne
    <3>4. Len(Symbols(k + 1)) \in Nat
      BY <3>3
    <3>5. At(i) \in Nat /\ At(k) \in Nat
      BY <1>1, <3>1
    <3>6. QED
      BY <3>2, <3>4, <3>5
  <2>3. QED
    BY <2>1, <2>2
<1> HIDE DEF Has
<1>4. Nat \subseteq Has
  BY <1>2, <1>3, AllNats
<1>5. ASSUME NEW k \in 0 .. N, i <= k PROVE At(i) <= At(k)
  <2>1. k \in Has /\ k \in i .. N
    BY <1>1, <1>4, <1>5
  <2>2. QED
    BY <2>1 DEF Has
<1>6. QED
  BY <1>5

-----------------------------------------------------------------------------
(* What messages look like.                                                *)

\* Where the empty line of a message is.
HeadLen(kind) == IF kind = "long" THEN MaxRequest + 1 ELSE 2

\* A symbol of message i.
Sym(i, part) == [id |-> i, part |-> part]

\* A message w with two lines of headers, and then t.
Headed(w, t) ==
  /\ Len(w) = 2 + Len(t) /\ Len(t) \in Nat
  /\ w[1] = "line" /\ w[2] = "end" /\ \A j \in 1 .. Len(t) : w[2 + j] = t[j]

LEMMA HeadThen == ASSUME NEW t \in Seq(Parts) PROVE Headed(Head2 \o t, t)
<1> DEFINE w == Head2 \o t
<1>1. Head2 \in Seq(Parts) /\ Len(Head2) = 2 /\ Head2[1] = "line" /\ Head2[2] = "end"
  BY DEF Head2, Parts
<1>0. /\ w \in Seq(Parts) /\ Len(w) = Len(Head2) + Len(t)
      /\ \A i \in 1 .. Len(Head2) + Len(t) :
           w[i] = IF i <= Len(Head2) THEN Head2[i] ELSE t[i - Len(Head2)]
  BY <1>1, ConcatProperties
<1>2. /\ Len(w) = Len(Head2) + Len(t) /\ Len(t) \in Nat
      /\ \A i \in 1 .. Len(Head2) + Len(t) :
           w[i] = IF i <= Len(Head2) THEN Head2[i] ELSE t[i - Len(Head2)]
  <2> HIDE DEF w
  <2>1. QED
    BY <1>0
<1> HIDE DEF w
<1>3. w[1] = "line" /\ w[2] = "end"
  <2> DEFINE l == Len(t)
             a == Head2
  <2>1. l \in Nat /\ Len(a) = 2 /\ a[1] = "line" /\ a[2] = "end"
    BY <1>1
  <2>2. \A i \in 1 .. Len(a) + l : w[i] = IF i <= Len(a) THEN a[i] ELSE t[i - Len(a)]
    BY <1>2
  <2> HIDE DEF l, a
  <2>3. 1 \in 1 .. Len(a) + l /\ 2 \in 1 .. Len(a) + l
    BY <2>1
  <2>4. QED
    BY <2>1, <2>2, <2>3
<1>4. ASSUME NEW j \in 1 .. Len(t) PROVE w[2 + j] = t[j]
  <2> DEFINE i == 2 + j
             l == Len(t)
  <2>0. l \in Nat /\ j \in 1 .. l
    OBVIOUS
  <2> HIDE DEF l
  <2>1. i \in 1 .. Len(Head2) + l /\ ~(i <= Len(Head2)) /\ i - Len(Head2) = j
    BY <1>1, <2>0
  <2> HIDE DEF i
  <2>2. w[i] = t[j]
    BY <1>2, <2>1 DEF l
  <2>3. QED
    BY <2>2 DEF i
<1>5. Headed(w, t)
  BY <1>1, <1>2, <1>3, <1>4 DEF Headed
<1>6. QED
  BY <1>5 DEF w

\* Where the parts of a message of kind k are in w.
Shaped(w, k) ==
  /\ Len(w) \in Nat /\ HeadLen(k) \in Nat /\ 2 <= HeadLen(k) /\ HeadLen(k) <= Len(w)
  /\ w[HeadLen(k)] = "end" /\ \A j \in 1 .. (HeadLen(k) - 1) : w[j] = "line"
  /\ k \notin {"post", "open", "chunked"} => Len(w) = HeadLen(k)
  /\ k = "post" => Len(w) = 4 /\ w[3] = "body" /\ w[4] = "body"
  /\ k = "chunked" => /\ Len(w) = 8
                      /\ w[3] = "size" /\ w[4] = "data" /\ w[5] = "size" /\ w[6] = "data"
                      /\ w[7] = "last" /\ w[8] = "crlf"

LEMMA WireIs == ASSUME NEW k \in AllKinds PROVE Shaped(Wire(k), k)
<1>1. CASE k = "long"
  <2> DEFINE l == [i \in 1 .. MaxRequest |-> "line"]
             w == l \o <<"end">>
  <2>1. Wire(k) = w /\ HeadLen(k) = MaxRequest + 1
    BY <1>1 DEF Wire, HeadLen
  <2>2. MaxRequest \in Nat \ {0}
    BY MgHttpAssumption
  <2>3. /\ l \in Seq(Parts) /\ Len(l) = MaxRequest
        /\ \A i \in 1 .. MaxRequest : l[i] = "line"
    BY <2>2 DEF Parts
  <2>4. <<"end">> \in Seq(Parts) /\ Len(<<"end">>) = 1 /\ <<"end">>[1] = "end"
    BY DEF Parts
  <2> DEFINE e == <<"end">>
  <2> HIDE DEF l, e
  <2>5. /\ Len(w) = Len(l) + Len(e)
        /\ \A i \in 1 .. Len(l) + Len(e) : w[i] = IF i <= Len(l) THEN l[i] ELSE e[i - Len(l)]
    BY <2>3, <2>4, ConcatProperties DEF e
  <2> HIDE DEF w
  <2>6. /\ Len(w) = MaxRequest + 1 /\ w[MaxRequest + 1] = "end"
        /\ \A j \in 1 .. MaxRequest : w[j] = "line"
    BY <2>2, <2>3, <2>4, <2>5 DEF e
  <2>7. QED
    BY <1>1, <2>1, <2>2, <2>6 DEF Shaped
<1>2. CASE k = "post"
  <2> DEFINE w == Wire(k)
             t == <<"body", "body">>
  <2>1. w = Head2 \o t /\ HeadLen(k) = 2
    BY <1>2 DEF Wire, HeadLen
  <2>2. t \in Seq(Parts) /\ Len(t) = 2
    BY DEF Parts
  <2>3. t[1] = "body" /\ t[2] = "body"
    OBVIOUS
  <2> HIDE DEF w, t
  <2>0. Headed(w, t)
    <3>1. Headed(Head2 \o t, t)
      BY <2>2, HeadThen, Zenon
    <3>2. QED
      BY <2>1, <3>1, Zenon
  <2>4. /\ Len(w) = 2 + 2 /\ w[1] = "line" /\ w[2] = "end"
        /\ \A j \in 1 .. 2 : w[2 + j] = t[j]
    BY <2>0, <2>2 DEF Headed
  <2>5. w[2 + 1] = t[1] /\ w[2 + 2] = t[2]
    BY <2>4
  <2>6. Shaped(w, k)
    BY <1>2, <2>1, <2>3, <2>4, <2>5 DEF Shaped
  <2>7. QED
    BY <2>6 DEF w
<1>3. CASE k = "open"
  <2> DEFINE w == Wire(k)
             t == <<"body">>
  <2>1. w = Head2 \o t /\ HeadLen(k) = 2
    BY <1>3 DEF Wire, HeadLen
  <2>2. t \in Seq(Parts) /\ Len(t) = 1
    BY DEF Parts
  <2>3. t[1] = "body"
    OBVIOUS
  <2> HIDE DEF w, t
  <2>0. Headed(w, t)
    <3>1. Headed(Head2 \o t, t)
      BY <2>2, HeadThen, Zenon
    <3>2. QED
      BY <2>1, <3>1, Zenon
  <2>4. /\ Len(w) = 2 + 1 /\ w[1] = "line" /\ w[2] = "end"
        /\ \A j \in 1 .. 1 : w[2 + j] = t[j]
    BY <2>0, <2>2 DEF Headed
  <2>5. QED
    BY <1>3, <2>1, <2>2, <2>3, <2>4 DEF Shaped, w
<1>4. CASE k = "chunked"
  <2> DEFINE w == Wire(k)
             t == <<"size", "data", "size", "data", "last", "crlf">>
  <2>1. w = Head2 \o t /\ HeadLen(k) = 2
    BY <1>4 DEF Wire, HeadLen
  <2>2. t \in Seq(Parts) /\ Len(t) = 6
    BY DEF Parts
  <2>3. /\ t[1] = "size" /\ t[2] = "data" /\ t[3] = "size" /\ t[4] = "data"
        /\ t[5] = "last" /\ t[6] = "crlf"
    OBVIOUS
  <2> HIDE DEF w, t
  <2>0. Headed(w, t)
    <3>1. Headed(Head2 \o t, t)
      BY <2>2, HeadThen, Zenon
    <3>2. QED
      BY <2>1, <3>1, Zenon
  <2>4. /\ Len(w) = 2 + 6 /\ w[1] = "line" /\ w[2] = "end"
        /\ \A j \in 1 .. 6 : w[2 + j] = t[j]
    BY <2>0, <2>2 DEF Headed
  <2>5. /\ w[2 + 1] = t[1] /\ w[2 + 2] = t[2] /\ w[2 + 3] = t[3] /\ w[2 + 4] = t[4]
        /\ w[2 + 5] = t[5] /\ w[2 + 6] = t[6]
    BY <2>4
  <2>6. /\ Len(w) = 8 /\ w[1] = "line" /\ w[2] = "end"
        /\ w[3] = "size" /\ w[4] = "data" /\ w[5] = "size" /\ w[6] = "data"
        /\ w[7] = "last" /\ w[8] = "crlf"
    <3> HIDE <1>4
    <3>1. QED
      BY <2>3, <2>4, <2>5
  <2>7. \A j \in 1 .. (HeadLen(k) - 1) : w[j] = "line"
    BY <2>1, <2>6
  <2>8. Shaped(w, k)
    BY <1>4, <2>1, <2>6, <2>7, SMTT(30) DEF Shaped
  <2>9. QED
    BY <2>8 DEF w
<1>5. CASE k \in {"get", "file", "cgi", "bad", "negative"}
  <2>1. Wire(k) = Head2 /\ HeadLen(k) = 2
    BY <1>5 DEF Wire, HeadLen
  <2>2. Len(Head2) = 2 /\ Head2[1] = "line" /\ Head2[2] = "end"
    BY DEF Head2
  <2>3. QED
    BY <1>5, <2>1, <2>2 DEF Shaped
<1>6. QED
  BY <1>1, <1>2, <1>3, <1>4, <1>5 DEF AllKinds

\* A message in symbols.
LEMMA SymbolsAre ==
  ASSUME NEW i \in Nat, script[i] \in AllKinds
  PROVE  /\ Symbols(i) \in Seq(Symbol) /\ Len(Symbols(i)) \in Nat
         /\ HeadLen(script[i]) \in Nat
         /\ 2 <= HeadLen(script[i]) /\ HeadLen(script[i]) <= Len(Symbols(i))
         /\ Symbols(i)[HeadLen(script[i])] = Sym(i, "end")
         /\ \A j \in 1 .. (HeadLen(script[i]) - 1) : Symbols(i)[j] = Sym(i, "line")
         /\ script[i] \notin {"post", "open", "chunked"} =>
              Len(Symbols(i)) = HeadLen(script[i])
         /\ script[i] = "post" =>
              /\ Len(Symbols(i)) = 4
              /\ Symbols(i)[3] = Sym(i, "body") /\ Symbols(i)[4] = Sym(i, "body")
         /\ script[i] = "chunked" =>
              /\ Len(Symbols(i)) = 8
              /\ Symbols(i)[3] = Sym(i, "size") /\ Symbols(i)[4] = Sym(i, "data")
              /\ Symbols(i)[5] = Sym(i, "size") /\ Symbols(i)[6] = Sym(i, "data")
              /\ Symbols(i)[7] = Sym(i, "last") /\ Symbols(i)[8] = Sym(i, "crlf")
<1> DEFINE k == script[i]
           w == Wire(k)
           h == HeadLen(k)
           s == Symbols(i)
<1>1. s \in Seq(Symbol)
  BY SymbolsOne
<1>2. s = [j \in 1 .. Len(w) |-> [id |-> i, part |-> w[j]]]
  BY DEF Symbols
<1>3. Shaped(w, k)
  BY WireIs
<1> HIDE DEF k, w, h, s
<1>4. Len(s) = Len(w) /\ \A j \in 1 .. Len(w) : s[j] = Sym(i, w[j])
  BY <1>2, <1>3 DEF Sym, Shaped
<1>5. s[h] = Sym(i, "end")
  BY <1>3, <1>4 DEF Shaped, h
<1>6. \A j \in 1 .. (h - 1) : s[j] = Sym(i, "line")
  BY <1>3, <1>4 DEF Shaped, h
<1>7. ASSUME k = "post"
      PROVE  Len(s) = 4 /\ s[3] = Sym(i, "body") /\ s[4] = Sym(i, "body")
  <2>1. Len(w) = 4 /\ w[3] = "body" /\ w[4] = "body"
    BY <1>3, <1>7 DEF Shaped
  <2>2. QED
    BY <1>4, <2>1
<1>8. ASSUME k = "chunked"
      PROVE  /\ Len(s) = 8 /\ s[3] = Sym(i, "size") /\ s[4] = Sym(i, "data")
             /\ s[5] = Sym(i, "size") /\ s[6] = Sym(i, "data")
             /\ s[7] = Sym(i, "last") /\ s[8] = Sym(i, "crlf")
  <2>1. /\ Len(w) = 8 /\ w[3] = "size" /\ w[4] = "data" /\ w[5] = "size"
        /\ w[6] = "data" /\ w[7] = "last" /\ w[8] = "crlf"
    BY <1>3, <1>8 DEF Shaped
  <2>2. QED
    BY <1>4, <2>1
<1>9. /\ s \in Seq(Symbol) /\ Len(s) \in Nat /\ h \in Nat /\ 2 <= h /\ h <= Len(s)
      /\ k \notin {"post", "open", "chunked"} => Len(s) = h
  BY <1>1, <1>3, <1>4 DEF Shaped, h
<1>10. QED
  BY <1>5, <1>6, <1>7, <1>8, <1>9 DEF k, h, s

-----------------------------------------------------------------------------
(* Parsing and reassembling.                                               *)

\* The headers that start with a line end at the first empty line.
LEMMA ParseAt ==
  ASSUME NEW b \in Seq(Symbol), NEW h \in 1 .. Len(b), b[h].part = "end",
         \A j \in 1 .. (h - 1) : b[j].part = "line", h # 1,
         NEW len \in Parse(b)
  PROVE  \/ len = h /\ script[b[h].id] # "bad"
         \/ len = -1 /\ script[b[h].id] = "bad"
<1> DEFINE e == CHOOSE j \in Ends(b) : \A k \in Ends(b) : j <= k
<1>1. /\ h \in Ends(b) /\ Len(b) \in Nat /\ Ends(b) \subseteq 1 .. Len(b)
      /\ \A k \in Ends(b) : b[k].part = "end"
  BY EndsIn DEF Ends
<1>2. ASSUME NEW k \in Ends(b) PROVE h <= k
  <2>1. k \notin 1 .. (h - 1)
    BY <1>1
  <2>2. QED
    BY <1>1, <2>1
<1>3. e \in Ends(b) /\ \A k \in Ends(b) : e <= k
  BY <1>1, <1>2
<1>4. b[1].part = "line" /\ Ends(b) # {}
  BY <1>1
<1>5. Parse(b) = IF script[b[e].id] = "bad" THEN {-1} ELSE {e}
  BY <1>4 DEF Parse
<1> HIDE DEF e
<1>6. e <= h /\ h <= e
  BY <1>1, <1>2, <1>3
<1>7. e = h
  BY <1>1, <1>3, <1>6
<1>8. QED
  BY <1>5, <1>7

\* Without an empty line there are no headers.
LEMMA ParseNone ==
  ASSUME NEW b, \A j \in DOMAIN b : b[j].part # "end"
  PROVE  Parse(b) = {0}
BY DEF Parse, Ends

\* Without a whole chunk nothing changes.
LEMMA NoChunk ==
  ASSUME NEW b \in Seq(Symbol), NEW len \in 1 .. Len(b), WholeChunks(b, len + 1) = 0
  PROVE  /\ Reassembled(b, len, 0).buf = b
         /\ Reassembled(b, len, 0).message = MessageLen(b, len)
<1> DEFINE r == Reassembled(b, len, 0).buf
<1>1. ~Finished(b, len)
  BY DEF Finished
<1>2. Collapsed(b, len, 0, 0, r) /\ Reassembled(b, len, 0).message = MessageLen(b, len)
  BY <1>1, ReassembledIs
<1> HIDE DEF r
<1>3. /\ r \in Seq(Symbol) /\ Len(r) = Len(b) - 2 * 0 + 0
      /\ \A j \in 1 .. len : r[j] = b[j]
      /\ \A j \in (len + 0 + 1) .. Len(r) : r[j] = b[j - 0 + 2 * 0]
  BY <1>2 DEF Collapsed
<1>4. Len(r) = Len(b) /\ Len(b) \in Nat
  BY <1>3
<1>5. ASSUME NEW j \in 1 .. Len(b) PROVE r[j] = b[j]
  <2>1. CASE j <= len
    BY <1>3, <2>1
  <2>2. CASE ~(j <= len)
    <3>1. j \in (len + 0 + 1) .. Len(r) /\ j - 0 + 2 * 0 = j
      BY <1>4, <2>2
    <3>2. r[j] = b[j - 0 + 2 * 0]
      BY <1>3, <3>1
    <3>3. QED
      BY <3>1, <3>2
  <2>3. QED
    BY <2>1, <2>2
<1>6. r = b
  BY <1>3, <1>4, <1>5, SeqEqual
<1>7. QED
  BY <1>2, <1>6 DEF r

\* What there is of the chunked message i, and maybe more, b: with a part of
\* its chunks the message does not end and loses its chunks; with all it ends.
LEMMA ChunksOf ==
  ASSUME NEW i \in Nat, script[i] = "chunked", NEW b \in Seq(Symbol), 2 <= Len(b),
         \A k \in 1 .. Len(b) : k <= 8 => b[k] = Symbols(i)[k]
  PROVE  LET r == Reassembled(b, 2, 0)
         IN \/ r.buf = b /\ r.message = Endless
            \/ /\ r.message = Endless /\ Len(r.buf) >= 3
               /\ r.buf[1] = b[1] /\ r.buf[2] = b[2] /\ r.buf[3].part = "piece"
            \/ /\ Len(b) >= 8 /\ r.message = Len(r.buf) /\ Len(r.buf) = Len(b) - 4
               /\ r.buf[3] = Sym(i, "piece") /\ r.buf[4] = Sym(i, "piece")
<1> DEFINE r == Reassembled(b, 2, 0)
           n == WholeChunks(b, 3)
           l == Len(b)
           s == Symbols(i)
<1>1. /\ s[1] = Sym(i, "line") /\ s[2] = Sym(i, "end")
      /\ s[3] = Sym(i, "size") /\ s[4] = Sym(i, "data")
      /\ s[5] = Sym(i, "size") /\ s[6] = Sym(i, "data")
      /\ s[7] = Sym(i, "last") /\ s[8] = Sym(i, "crlf")
  <2>1. script[i] \in AllKinds /\ HeadLen(script[i]) = 2
    BY DEF AllKinds, HeadLen
  <2>2. 1 \in 1 .. (2 - 1)
    OBVIOUS
  <2>3. QED
    BY <2>1, <2>2, SymbolsAre
<1>2. l \in Nat /\ 2 <= l /\ \A k \in 1 .. l : k <= 8 => b[k] = s[k]
  OBVIOUS
<1>3. /\ n \in Nat /\ Run(b, 3, n) /\ \A k \in 0 .. l : Run(b, 3, k) => k <= n
      /\ \A j \in 0 .. (n - 1) : 3 + 2 * j + 1 <= l
  BY ChunksThere
<1>4. MessageLen(b, 2) = Endless
  <2>1. b[1] = s[1] /\ b[2] = s[2]
    BY <1>2
  <2>2. b[2].id = i /\ b[1].part = "line"
    BY <1>1, <2>1 DEF Sym
  <2>3. QED
    BY <2>2 DEF MessageLen
<1>5. /\ Collapsed(b, 2, n, IF Finished(b, 2) THEN n - 1 ELSE n, r.buf)
      /\ r.message = IF Finished(b, 2) THEN Len(r.buf) ELSE MessageLen(b, 2)
      /\ n = 0 => r.buf = b /\ r.message = MessageLen(b, 2)
      /\ Finished(b, 2) = (n > 0 /\ b[3 + 2 * (n - 1)].part = "last")
  <2>1. 2 \in 1 .. Len(b)
    BY <1>2
  <2>2. WholeChunks(b, 2 + 1) = n /\ 2 + 1 = 3
    OBVIOUS
  <2> HIDE DEF n, r
  <2>3. /\ Collapsed(b, 2, WholeChunks(b, 2 + 1),
                     IF Finished(b, 2) THEN WholeChunks(b, 2 + 1) - 1
                                       ELSE WholeChunks(b, 2 + 1),
                     Reassembled(b, 2, 0).buf)
        /\ Reassembled(b, 2, 0).message =
             IF Finished(b, 2) THEN Len(Reassembled(b, 2, 0).buf) ELSE MessageLen(b, 2)
    BY <2>1, ReassembledIs
  <2>4. WholeChunks(b, 2 + 1) = 0 => /\ Reassembled(b, 2, 0).buf = b
                                     /\ Reassembled(b, 2, 0).message = MessageLen(b, 2)
    BY <2>1, NoChunk
  <2>5. Finished(b, 2) = (n > 0 /\ b[3 + 2 * (n - 1)].part = "last")
    BY <2>2 DEF Finished
  <2>6. QED
    BY <2>2, <2>3, <2>4, <2>5 DEF r
<1> DEFINE buf == r.buf
           done == Finished(b, 2)
           m == IF done THEN n - 1 ELSE n
<1>6. /\ Collapsed(b, 2, n, m, buf)
      /\ r.message = IF done THEN Len(buf) ELSE Endless
      /\ n = 0 => buf = b /\ r.message = Endless
      /\ done = (n > 0 /\ b[3 + 2 * (n - 1)].part = "last")
      /\ done \in BOOLEAN
  BY <1>4, <1>5 DEF Finished
<1> HIDE DEF buf, done, n, l, s
<1>7. CASE l < 8
  <2>1. CASE n = 0
    BY <1>6, <2>1 DEF buf
  <2>2. CASE n # 0
    <3>1. n \in {1, 2}
      <4>1. n - 1 \in 0 .. (n - 1)
        BY <1>3, <2>2
      <4>2. 3 + 2 * (n - 1) + 1 <= l
        BY <1>3, <4>1
      <4>3. QED
        BY <1>2, <1>3, <1>7, <2>2, <4>2
    <3>2. 2 + 2 * n <= l
      <4>1. n - 1 \in 0 .. (n - 1)
        BY <1>3, <2>2
      <4>2. 3 + 2 * (n - 1) + 1 <= l
        BY <1>3, <4>1
      <4>3. QED
        BY <1>3, <4>2
    <3>3. b[3 + 2 * (n - 1)].part = "size"
      <4>1. CASE n = 1
        <5>1. b[3] = s[3] /\ 3 + 2 * (n - 1) = 3
          BY <1>2, <3>2, <4>1
        <5>2. QED
          BY <1>1, <5>1 DEF Sym
      <4>2. CASE n = 2
        <5>1. b[5] = s[5] /\ 3 + 2 * (n - 1) = 5
          BY <1>2, <3>2, <4>2
        <5>2. QED
          BY <1>1, <5>1 DEF Sym
      <4>3. QED
        BY <3>1, <4>1, <4>2
    <3>4. ~done
      BY <1>6, <3>3
    <3>5. m = n /\ r.message = Endless
      BY <1>6, <3>4
    <3>6. Collapsed(b, 2, n, n, buf)
      BY <1>6, <3>5
    <3>7. /\ Len(buf) = Len(b) - 2 * n + n
          /\ \A j \in 1 .. 2 : buf[j] = b[j]
          /\ \A j \in 1 .. n : buf[2 + j] = [id |-> b[2 + 2 * j - 1].id, part |-> "piece"]
      BY <3>6 DEF Collapsed
    <3>8. Len(buf) >= 3
      BY <1>2, <3>1, <3>2, <3>7 DEF l
    <3>9. buf[1] = b[1] /\ buf[2] = b[2]
      BY <3>7
    <3>10. buf[3].part = "piece"
      <4>1. 1 \in 1 .. n /\ 2 + 1 = 3
        BY <3>1
      <4>2. buf[2 + 1] = [id |-> b[2 + 2 * 1 - 1].id, part |-> "piece"]
        BY <3>7, <4>1
      <4>3. QED
        BY <4>1, <4>2
    <3>11. QED
      BY <3>5, <3>8, <3>9, <3>10 DEF buf
  <2>3. QED
    BY <2>1, <2>2
<1>8. CASE ~(l < 8)
  <2>1. 8 <= l
    BY <1>2, <1>8
  <2>2. /\ b[3] = s[3] /\ b[4] = s[4] /\ b[5] = s[5] /\ b[6] = s[6]
        /\ b[7] = s[7] /\ b[8] = s[8]
    BY <1>2, <2>1
  <2>3. /\ b[3].part = "size" /\ b[4].part = "data" /\ b[5].part = "size"
        /\ b[6].part = "data" /\ b[7].part = "last" /\ b[8].part = "crlf"
        /\ b[3].id = i /\ b[5].id = i
    BY <1>1, <2>2 DEF Sym
  <2>4. Run(b, 3, 3)
    <3> SUFFICES ASSUME NEW j \in 0 .. (3 - 1)
                 PROVE  IsChunk(b, 3 + 2 * j) /\ (j < 3 - 1 => b[3 + 2 * j].part # "last")
      BY DEF Run
    <3>1. IsChunk(b, 3) /\ IsChunk(b, 5) /\ IsChunk(b, 7)
      BY <2>1, <2>3 DEF IsChunk, l
    <3>2. j = 0 \/ j = 1 \/ j = 2
      OBVIOUS
    <3>3. CASE j = 0
      BY <2>3, <3>1, <3>3
    <3>4. CASE j = 1
      BY <2>3, <3>1, <3>4
    <3>5. CASE j = 2
      BY <2>3, <3>1, <3>5
    <3>6. QED
      BY <3>2, <3>3, <3>4, <3>5
  <2>5. 3 <= n
    BY <1>2, <1>3, <2>1, <2>4
  <2>6. ~(3 < n)
    <3> SUFFICES ASSUME 3 < n PROVE FALSE
      OBVIOUS
    <3>1. 2 \in 0 .. (n - 1) /\ 2 < n - 1 /\ 3 + 2 * 2 = 7
      BY <1>3
    <3>2. b[3 + 2 * 2].part # "last"
      BY <1>3, <3>1 DEF Run
    <3>3. QED
      BY <2>3, <3>1, <3>2
  <2>7. n = 3
    BY <1>3, <2>5, <2>6
  <2>8. done
    <3>1. 3 + 2 * (n - 1) = 7 /\ n > 0
      BY <2>7
    <3>2. b[3 + 2 * (n - 1)].part = "last"
      BY <2>3, <3>1
    <3>3. QED
      BY <1>6, <3>1, <3>2
  <2>9. m = 2 /\ r.message = Len(buf)
    BY <1>6, <2>7, <2>8
  <2>10. Collapsed(b, 2, 3, 2, buf)
    BY <1>6, <2>7, <2>9
  <2>11. /\ Len(buf) = Len(b) - 2 * 3 + 2
         /\ \A j \in 1 .. 2 : buf[2 + j] = [id |-> b[2 + 2 * j - 1].id, part |-> "piece"]
    BY <2>10 DEF Collapsed
  <2>12. Len(buf) = Len(b) - 4
    BY <1>2, <2>11 DEF l
  <2>13. buf[3] = Sym(i, "piece") /\ buf[4] = Sym(i, "piece")
    <3>1. /\ buf[2 + 1] = [id |-> b[2 + 2 * 1 - 1].id, part |-> "piece"]
          /\ buf[2 + 2] = [id |-> b[2 + 2 * 2 - 1].id, part |-> "piece"]
      BY <2>11
    <3>2. 2 + 1 = 3 /\ 2 + 2 = 4 /\ 2 + 2 * 1 - 1 = 3 /\ 2 + 2 * 2 - 1 = 5
      OBVIOUS
    <3>3. QED
      BY <2>3, <3>1, <3>2 DEF Sym
  <2>14. /\ Len(b) >= 8 /\ r.message = Len(buf) /\ Len(buf) = Len(b) - 4
         /\ buf[3] = Sym(i, "piece") /\ buf[4] = Sym(i, "piece")
    BY <1>2, <2>1, <2>9, <2>12, <2>13 DEF l
  <2>15. QED
    BY <2>14 DEF buf
<1>9. QED
  BY <1>7, <1>8

\* Once a piece stands where a chunk would, no chunk is seen again.
LEMMA ChunksLost ==
  ASSUME NEW b \in Seq(Symbol), 3 <= Len(b), b[3].part = "piece"
  PROVE  /\ Reassembled(b, 2, 0).buf = b
         /\ Reassembled(b, 2, 0).message = MessageLen(b, 2)
<1> DEFINE n == WholeChunks(b, 3)
<1>1. n \in Nat /\ Run(b, 3, n) /\ Len(b) \in Nat
  BY ChunksThere
<1> HIDE DEF n
<1>2. n = 0
  <2> SUFFICES ASSUME n # 0 PROVE FALSE
    OBVIOUS
  <2>1. 0 \in 0 .. (n - 1) /\ 3 + 2 * 0 = 3
    BY <1>1
  <2>2. IsChunk(b, 3 + 2 * 0)
    BY <1>1, <2>1 DEF Run
  <2>3. IsChunk(b, 3)
    BY <2>1, <2>2
  <2>4. QED
    BY <2>3 DEF IsChunk
<1>3. WholeChunks(b, 2 + 1) = 0 /\ 2 \in 1 .. Len(b)
  BY <1>1, <1>2 DEF n
<1>4. QED
  BY <1>3, NoChunk

-----------------------------------------------------------------------------
(* In order, and none lost.                                                *)

\* Before n: id is that of a message before those of b's empty lines behind n.
Before(id, b, n) == \A k \in Ends(b) : k > n => id < b[k].id
\* Those of b's empty lines may be dispatched after the message with this id.
Reaches(id, b) == \A k \in Ends(b) : After(b[k].id, id)

\* Behind an empty line, but one of a chunked message, the buffer holds what
\* came last.
InPlace(b) ==
  \A f \in Ends(b) : \/ script[b[f].id] = "chunked"
                     \/ \A k \in 0 .. (Len(b) - f) : b[Len(b) - k] = Stream[arrived - k]

\* An MG_EV_HTTP_REQUEST.
Dispatch == [id : Nat, on : {"recv", "close"}, body : Seq(Symbol)]

\* Message i is done, or its empty line is in the buffer or to come.
Accounted(i) ==
  \/ i \in Ids \/ Swallowed(i)
  \/ \E j \in Ends(io) : io[j].id = i
  \/ \E k \in Ends(Stream) : k > arrived /\ Stream[k].id = i

\* The empty lines in the buffer are of messages before those to come.
Due == \A j \in Ends(io) : /\ io[j].id \in DOMAIN script
                           /\ Before(io[j].id, Stream, arrived)
\* Those dispatched are before both.
Done == \A d \in DOMAIN dispatched : /\ Reaches(dispatched[d].id, io)
                                     /\ Before(dispatched[d].id, Stream, arrived)

\* Requests dispatched, empty lines in the buffer and empty lines to come are
\* in the client's order, and no message is lost between them.
IInv ==
  /\ IsScript
  /\ arrived \in 0 .. Len(Stream)
  /\ io \in Seq(Symbol) /\ Ordered(io) /\ Len(io) <= arrived /\ InPlace(io)
  /\ Due /\ dispatched \in Seq(Dispatch) /\ OrderKept /\ Done
  /\ pc # "closed" => \A i \in DOMAIN script : Accounted(i)

\* Where the empty line of message i is.
LEMMA StreamEnd ==
  ASSUME IsScript, NEW i \in DOMAIN script
  PROVE  /\ i \in Nat \ {0} /\ script[i] \in AllKinds /\ At(i - 1) \in Nat
         /\ At(i - 1) + HeadLen(script[i]) \in Ends(Stream)
         /\ Stream[At(i - 1) + HeadLen(script[i])] = Sym(i, "end")
         /\ \A j \in 1 .. Len(Symbols(i)) : Stream[At(i - 1) + j] = Symbols(i)[j]
<1>1. PICK n \in Nat \ {0} : script \in [1 .. n -> AllKinds]
  BY DEF IsScript
<1>2. /\ N = n /\ \A k \in 0 .. N : At(k) \in Nat
      /\ \A k \in 0 .. (N - 1) : Laid(Stream, k)
  <2>1. N = n
    BY <1>1 DEF N
  <2>2. QED
    BY <2>1, Layout
<1> HIDE DEF N
<1> DEFINE u == i - 1
           h == HeadLen(script[i])
<1>3. /\ i \in 1 .. n /\ script[i] \in AllKinds /\ u \in 0 .. N /\ u \in 0 .. (N - 1)
      /\ u + 1 = i
  BY <1>1, <1>2
<1> HIDE DEF u
<1>4. /\ At(u) \in Nat /\ At(u) + Len(Symbols(i)) <= Len(Stream)
      /\ \A j \in 1 .. Len(Symbols(i)) : Stream[At(u) + j] = Symbols(i)[j]
  <2>1. Laid(Stream, u) /\ At(u) \in Nat
    BY <1>2, <1>3
  <2>2. QED
    BY <1>3, <2>1 DEF Laid
<1>5. /\ Len(Symbols(i)) \in Nat /\ h \in Nat /\ 2 <= h /\ h <= Len(Symbols(i))
      /\ Symbols(i)[h] = Sym(i, "end")
  BY <1>3, SymbolsAre
<1> HIDE DEF h
<1>6. Stream \in Seq(Symbol) /\ Len(Stream) \in Nat
  BY StreamOrdered
<1>7. At(u) + h \in 1 .. Len(Stream) /\ Stream[At(u) + h] = Sym(i, "end")
  <2>1. h \in 1 .. Len(Symbols(i))
    BY <1>5
  <2>2. Stream[At(u) + h] = Symbols(i)[h]
    BY <1>4, <2>1
  <2>3. QED
    BY <1>4, <1>5, <1>6, <2>2
<1>8. At(u) + h \in Ends(Stream)
  BY <1>6, <1>7 DEF Ends, Sym
<1>9. QED
  BY <1>3, <1>4, <1>7, <1>8 DEF u, h

\* It holds after the accept.
LEMMA InitInv == Init => IInv
<1> SUFFICES ASSUME Init PROVE IInv
  OBVIOUS
<1>1. IsScript
  <2>1. PICK n \in 1 .. MaxMessages : script \in [1 .. n -> Kinds]
    BY DEF Init
  <2>2. n \in Nat \ {0} /\ script \in [1 .. n -> AllKinds]
    BY <2>1, MgHttpAssumption
  <2>3. QED
    BY <2>2 DEF IsScript
<1>2. Stream \in Seq(Symbol)
  BY <1>1, StreamOrdered
<1>3. io = <<>> /\ dispatched = <<>> /\ arrived = 0
  BY DEF Init
<1>4. ASSUME NEW i \in DOMAIN script PROVE Accounted(i)
  <2>1. PICK k \in Ends(Stream) : Stream[k] = Sym(i, "end")
    BY <1>1, StreamEnd
  <2>2. k > 0 /\ Stream[k].id = i
    BY <1>2, <2>1, EndsIn DEF Sym
  <2>3. QED
    BY <1>3, <2>2 DEF Accounted
<1>5. InPlace(io) /\ OrderKept
  BY <1>3 DEF InPlace, Ends, OrderKept
<1>6. QED
  BY <1>1, <1>2, <1>3, <1>4, <1>5 DEF IInv, Ordered, Ends, Due, Done

\* The stream is that of the script.
LEMMA StreamSame == script' = script => Stream' = Stream /\ IsScript' = IsScript
BY DEF Stream, Symbols, IsScript

\* mg_recv_tcp appends what comes next.
LEMMA Taken ==
  ASSUME IInv, Receive
  PROVE  \E m \in Seq(Symbol) :
           /\ io' = io \o m /\ arrived' = arrived + Len(m) /\ Len(m) > 0
           /\ arrived + Len(m) \in 0 .. Len(Stream)
           /\ \A j \in 1 .. Len(m) : m[j] = Stream[arrived + j]
<1>1. PICK n \in 1 .. (Len(Stream) - arrived) :
        io' = io \o SubSeq(Stream, arrived + 1, arrived + n) /\ arrived' = arrived + n
  BY DEF Receive
<1>2. /\ Stream \in Seq(Symbol) /\ Len(Stream) \in Nat
      /\ arrived \in Nat /\ arrived + n \in 0 .. Len(Stream) /\ n \in Nat \ {0}
  BY <1>1, StreamOrdered DEF IInv
<1> DEFINE m == SubSeq(Stream, arrived + 1, arrived + n)
<1>3. /\ m \in Seq(Symbol) /\ Len(m) = n
      /\ \A j \in 1 .. n : m[j] = Stream[arrived + j]
  <2> DEFINE f == arrived + 1
             t == arrived + n
  <2>1. f \in 1 .. Len(Stream) + 1 /\ t \in 0 .. Len(Stream) /\ f <= t /\ t - f + 1 = n
    BY <1>2
  <2>2. m = SubSeq(Stream, f, t)
    OBVIOUS
  <2> HIDE DEF f, t, m
  <2>3. /\ SubSeq(Stream, f, t) \in Seq(Symbol)
        /\ Len(SubSeq(Stream, f, t)) = IF f <= t THEN t - f + 1 ELSE 0
        /\ \A j \in 1 .. t - f + 1 : SubSeq(Stream, f, t)[j] = Stream[f + j - 1]
    BY <1>2, <2>1, SubSeqProperties
  <2>4. m \in Seq(Symbol) /\ Len(m) = n
    BY <2>1, <2>2, <2>3
  <2>5. ASSUME NEW j \in 1 .. n PROVE m[j] = Stream[arrived + j]
    <3>1. m[j] = Stream[f + j - 1] /\ f + j - 1 = arrived + j
      BY <1>2, <2>1, <2>2, <2>3 DEF f
    <3>2. QED
      BY <3>1
  <2>6. QED
    BY <2>4, <2>5
<1>4. io' = io \o m /\ arrived' = arrived + n
  BY <1>1
<1> HIDE DEF m
<1>5. arrived' = arrived + Len(m) /\ Len(m) > 0 /\ arrived + Len(m) \in 0 .. Len(Stream)
  BY <1>2, <1>3, <1>4
<1>6. \A j \in 1 .. Len(m) : m[j] = Stream[arrived + j]
  BY <1>3
<1>7. QED
  BY <1>3, <1>4, <1>5, <1>6, Zenon

\* Bytes move from what is to come to the end of the buffer.
LEMMA ReceiveInv == ASSUME IInv, Receive PROVE IInv'
<1> DEFINE a == arrived
<1>1. PICK m \in Seq(Symbol) :
        /\ io' = io \o m /\ arrived' = a + Len(m) /\ Len(m) > 0
        /\ a + Len(m) \in 0 .. Len(Stream)
        /\ \A j \in 1 .. Len(m) : m[j] = Stream[a + j]
  BY Taken
<1> DEFINE n == Len(m)
<1>2. /\ UNCHANGED <<script, dispatched>> /\ Stream' = Stream /\ IsScript'
      /\ pc # "closed"
  BY StreamSame DEF Receive, IInv
<1>3. /\ Stream \in Seq(Symbol) /\ Ordered(Stream) /\ Len(Stream) \in Nat
      /\ a \in Nat /\ a + n \in 0 .. Len(Stream) /\ n \in Nat \ {0}
  BY <1>1, StreamOrdered DEF IInv
<1>4. /\ m \in Seq(Symbol) /\ Len(m) = n
      /\ \A j \in 1 .. n : m[j] = Stream[a + j]
  BY <1>1
<1>5. io' = io \o m /\ arrived' = a + n /\ a \in Nat
  BY <1>1, <1>3
<1> HIDE DEF n, a
<1>6. ASSUME NEW j \in Ends(m)
      PROVE  j \in 1 .. n /\ a + j \in Ends(Stream) /\ m[j] = Stream[a + j]
  <2>1. j \in 1 .. n /\ m[j].part = "end"
    BY <1>4, EndsIn
  <2>2. DOMAIN Stream = 1 .. Len(Stream) /\ a + j \in 1 .. Len(Stream)
    BY <1>3, <2>1 DEF a
  <2>3. QED
    BY <1>4, <2>1, <2>2 DEF Ends
<1>7. Ordered(m)
  <2>1. ASSUME NEW j \in Ends(m), NEW k \in Ends(m), j < k PROVE m[j].id < m[k].id
    <3>1. a + j < a + k
      BY <1>5, <1>6, <2>1
    <3>2. QED
      BY <1>3, <1>6, <3>1 DEF Ordered
  <2>2. QED
    BY <2>1 DEF Ordered
<1>8. ASSUME NEW id, Before(id, Stream, a), NEW j \in Ends(m) PROVE id < m[j].id
  <2>1. a + j > a
    BY <1>5, <1>6
  <2>2. QED
    BY <1>6, <1>8, <2>1 DEF Before
<1>9. ASSUME NEW id, Before(id, Stream, a) PROVE Before(id, Stream, a + n)
  <2>1. \A k \in Ends(Stream) : k > a + n => k > a
    BY <1>3, <1>5, EndsIn
  <2>2. QED
    BY <1>9, <2>1 DEF Before
<1>10. /\ io \in Seq(Symbol) /\ Ordered(io) /\ Len(io) <= a /\ InPlace(io)
       /\ \A j \in Ends(io) : /\ io[j].id \in DOMAIN script
                              /\ Before(io[j].id, Stream, a)
       /\ \A d \in DOMAIN dispatched : /\ Reaches(dispatched[d].id, io)
                                       /\ Before(dispatched[d].id, Stream, a)
  BY DEF IInv, Due, Done, a
<1> DEFINE c == io \o m
<1>11. c \in Seq(Symbol) /\ Ordered(c)
  BY <1>4, <1>7, <1>8, <1>10, OrderedJoin
<1>12. ASSUME NEW k \in Ends(c)
       PROVE  \/ k \in Ends(io) /\ c[k] = io[k]
              \/ \E j \in Ends(m) : c[k] = m[j]
  <2>1. /\ Len(c) = Len(io) + Len(m)
        /\ \A i \in 1 .. Len(io) + Len(m) :
             c[i] = IF i <= Len(io) THEN io[i] ELSE m[i - Len(io)]
    BY <1>4, <1>10, ConcatProperties
  <2>2. k \in 1 .. Len(c) /\ c[k].part = "end"
    BY <1>11, EndsIn
  <2> HIDE DEF c
  <2>3. /\ DOMAIN io = 1 .. Len(io) /\ DOMAIN m = 1 .. Len(m)
        /\ Len(io) \in Nat /\ Len(m) \in Nat
    BY <1>4, <1>10
  <2>4. CASE k <= Len(io)
    BY <2>1, <2>2, <2>3, <2>4 DEF Ends
  <2>5. CASE k > Len(io)
    <3>1. k - Len(io) \in 1 .. Len(m) /\ c[k] = m[k - Len(io)]
      BY <2>1, <2>2, <2>3, <2>5
    <3>2. k - Len(io) \in Ends(m)
      BY <2>2, <2>3, <3>1 DEF Ends
    <3>3. QED
      BY <3>1, <3>2
  <2>6. QED
    BY <2>2, <2>3, <2>4, <2>5
<1>13. ASSUME NEW k \in Ends(c) PROVE Before(c[k].id, Stream, a + n)
  <2>1. CASE k \in Ends(io) /\ c[k] = io[k]
    <3> HIDE DEF c
    <3>1. QED
      BY <1>9, <1>10, <2>1
  <2>2. ASSUME NEW j \in Ends(m), c[k] = m[j]
        PROVE  Before(c[k].id, Stream, a + n)
    <3>1. a + j \in Ends(Stream) /\ c[k] = Stream[a + j] /\ j <= n /\ j \in Nat
      BY <1>6, <2>2
    <3> HIDE DEF c
    <3>2. \A i \in Ends(Stream) : i > a + n => a + j < i
      BY <1>3, <1>5, <3>1, EndsIn
    <3>3. QED
      BY <1>3, <3>1, <3>2 DEF Before, Ordered
  <2>3. QED
    BY <1>12, <2>1, <2>2
<1>14. ASSUME NEW d \in DOMAIN dispatched PROVE Reaches(dispatched[d].id, c)
  <2> SUFFICES ASSUME NEW k \in Ends(c) PROVE After(c[k].id, dispatched[d].id)
    BY DEF Reaches
  <2> HIDE DEF c
  <2>1. CASE k \in Ends(io) /\ c[k] = io[k]
    BY <1>10, <2>1 DEF Reaches
  <2>2. CASE \E j \in Ends(m) : c[k] = m[j]
    <3>1. dispatched[d].id < c[k].id
      BY <1>8, <1>10, <2>2
    <3>2. QED
      BY <3>1 DEF After
  <2>3. QED
    BY <1>12, <2>1, <2>2
<1>15. OrderKept' /\ dispatched' \in Seq(Dispatch)
  BY <1>2 DEF IInv, OrderKept, After, Swallowed, Ids
<1>16. io' = c /\ arrived' \in 0 .. Len(Stream)
  BY <1>3, <1>5 DEF a
<1>17. /\ Len(c) = Len(io) + n /\ Len(io) \in Nat
       /\ \A k \in 1 .. Len(c) : c[k] = IF k <= Len(io) THEN io[k] ELSE m[k - Len(io)]
  <2>1. /\ Len(c) = Len(io) + Len(m)
        /\ \A k \in 1 .. Len(io) + Len(m) :
             c[k] = IF k <= Len(io) THEN io[k] ELSE m[k - Len(io)]
    BY <1>4, <1>10, ConcatProperties
  <2>2. Len(io) \in Nat
    BY <1>10
  <2> HIDE DEF c
  <2>3. QED
    BY <1>4, <2>1, <2>2
<1> HIDE DEF c
<1>18. ASSUME NEW k \in Ends(c) PROVE c[k].id \in DOMAIN script
  <2>1. CASE k \in Ends(io) /\ c[k] = io[k]
    BY <1>10, <2>1
  <2>2. ASSUME NEW j \in Ends(m), c[k] = m[j] PROVE c[k].id \in DOMAIN script
    <3>1. a + j \in Ends(Stream) /\ c[k] = Stream[a + j]
      BY <1>6, <2>2
    <3>2. a + j \in 1 .. Len(Stream)
      BY <1>3, <3>1, EndsIn
    <3>3. QED
      BY <3>1, <3>2, StreamOrdered DEF IInv
  <2>3. QED
    BY <1>12, <2>1, <2>2
\* What came last is at the end.
<1>19. ASSUME NEW f \in Ends(c), script[c[f].id] # "chunked",
              NEW k \in 0 .. (Len(c) - f)
       PROVE  c[Len(c) - k] = Stream[(a + n) - k]
  <2>1. f \in 1 .. Len(c)
    BY <1>11, EndsIn
  <2>2. CASE k < n
    <3> DEFINE i == n - k
    <3>1. /\ i \in 1 .. n /\ Len(c) - k \in 1 .. Len(c) /\ ~(Len(c) - k <= Len(io))
          /\ (Len(c) - k) - Len(io) = i /\ (a + n) - k = a + i
      BY <1>3, <1>5, <1>17, <2>1, <2>2
    <3>2. c[Len(c) - k] = m[i]
      BY <1>17, <3>1
    <3> HIDE DEF i
    <3>3. m[i] = Stream[a + i]
      BY <1>4, <3>1
    <3>4. QED
      BY <3>1, <3>2, <3>3
  <2>3. CASE ~(k < n)
    <3> DEFINE l == k - n
    <3>1. /\ f \in 1 .. Len(io) /\ l \in 0 .. (Len(io) - f)
          /\ Len(c) - k = Len(io) - l /\ Len(io) - l \in 1 .. Len(io)
          /\ (a + n) - k = a - l
      BY <1>3, <1>5, <1>17, <2>1, <2>3
    <3> HIDE DEF l
    <3>2. /\ c[f] = io[f] /\ c[Len(c) - k] = io[Len(io) - l]
      BY <1>17, <3>1
    <3>3. f \in Ends(io)
      <4>1. c[f].part = "end"
        BY <1>11, EndsIn
      <4>2. DOMAIN io = 1 .. Len(io)
        BY <1>10
      <4>3. QED
        BY <3>1, <3>2, <4>1, <4>2 DEF Ends
    <3>4. io[Len(io) - l] = Stream[arrived - l]
      BY <1>10, <1>19, <3>1, <3>2, <3>3 DEF InPlace
    <3>5. QED
      BY <3>1, <3>2, <3>4 DEF a
  <2>4. QED
    BY <2>2, <2>3
<1>20. InPlace(io)'
  BY <1>2, <1>5, <1>16, <1>19 DEF InPlace
<1>21. Len(io') <= arrived'
  <2>1. QED
    BY <1>3, <1>5, <1>10, <1>16, <1>17
\* No message is lost.
<1>22. ASSUME NEW i \in DOMAIN script PROVE Accounted(i)'
  <2>1. Accounted(i)
    BY <1>2 DEF IInv
  <2>2. Ids' = Ids /\ Swallowed(i)' = Swallowed(i)
    BY <1>2 DEF Ids, Swallowed
  <2>3. CASE \E j \in Ends(io) : io[j].id = i
    <3>1. PICK j \in Ends(io) : io[j].id = i
      BY <2>3
    <3>2. j \in 1 .. Len(io) /\ io[j].part = "end"
      BY <1>10, EndsIn
    <3>3. j \in 1 .. Len(c) /\ c[j] = io[j] /\ DOMAIN c = 1 .. Len(c)
      BY <1>3, <1>5, <1>11, <1>17, <3>2
    <3>4. j \in Ends(c) /\ c[j].id = i
      BY <3>1, <3>2, <3>3 DEF Ends
    <3>5. QED
      BY <1>16, <3>4 DEF Accounted
  <2>4. ASSUME NEW k \in Ends(Stream), k > a, Stream[k].id = i PROVE Accounted(i)'
    <3>1. k \in 1 .. Len(Stream) /\ Stream[k].part = "end"
      BY <1>3, EndsIn
    <3>2. CASE k > a + n
      <4>1. k \in Ends(Stream)' /\ k > arrived' /\ Stream'[k].id = i
        BY <1>2, <1>5, <2>4, <3>2 DEF Ends
      <4>2. QED
        BY <4>1 DEF Accounted
    <3>3. CASE ~(k > a + n)
      <4> DEFINE l == k - a
                 j == Len(io) + l
      <4>1. l \in 1 .. n /\ a + l = k
        BY <1>3, <1>5, <2>4, <3>1, <3>3
      <4>2. j \in 1 .. Len(c) /\ ~(j <= Len(io)) /\ j - Len(io) = l
        <5> HIDE DEF l
        <5>1. QED
          BY <1>3, <1>17, <4>1
      <4> HIDE DEF l
      <4>3. m[l] = Stream[k]
        BY <1>4, <4>1
      <4>4. c[j] = m[l]
        BY <1>17, <4>2
      <4> HIDE DEF j
      <4>5. DOMAIN c = 1 .. Len(c)
        BY <1>11
      <4>6. j \in Ends(c) /\ c[j].id = i
        BY <2>4, <3>1, <4>2, <4>3, <4>4, <4>5 DEF Ends
      <4>7. QED
        BY <1>16, <4>6 DEF Accounted
    <3>4. QED
      BY <3>2, <3>3
  <2>5. QED
    BY <2>1, <2>2, <2>3, <2>4 DEF Accounted, a
<1>23. \A j \in Ends(io') : /\ io'[j].id \in DOMAIN script
                            /\ Before(io'[j].id, Stream, a + n)
  BY <1>13, <1>16, <1>18
<1>24. \A d \in DOMAIN dispatched : /\ Reaches(dispatched[d].id, io')
                                    /\ Before(dispatched[d].id, Stream, a + n)
  BY <1>9, <1>10, <1>14, <1>16
<1>25. Due' /\ Done'
  <2>1. Due'
    BY <1>2, <1>5, <1>23 DEF Due
  <2>2. Done'
    BY <1>2, <1>5, <1>24 DEF Done, Reaches, After
  <2>3. QED
    BY <2>1, <2>2
<1>26. QED
  BY <1>2, <1>11, <1>15, <1>16, <1>20, <1>21, <1>22, <1>25 DEF IInv

\* What ends as the buffer does behind its empty lines.
LEMMA InPlaceKeeps ==
  ASSUME NEW b \in Seq(Symbol), NEW r \in Seq(Symbol), Len(r) <= Len(b), InPlace(b),
         \A f \in Ends(r) :
           \/ script[r[f].id] = "chunked"
           \/ \A k \in 0 .. (Len(r) - f) : r[Len(r) - k] = b[Len(b) - k]
  PROVE  InPlace(r)
<1> SUFFICES ASSUME NEW f \in Ends(r), script[r[f].id] # "chunked",
                    NEW k \in 0 .. (Len(r) - f)
             PROVE  r[Len(r) - k] = Stream[arrived - k]
  BY DEF InPlace
<1>1. f \in 1 .. Len(r) /\ r[f].part = "end" /\ Len(b) \in Nat /\ Len(r) \in Nat
  BY EndsIn
<1>2. \A l \in 0 .. (Len(r) - f) : r[Len(r) - l] = b[Len(b) - l]
  OBVIOUS
<1> DEFINE l == Len(r) - f
           g == Len(b) - l
<1>3. l \in 0 .. (Len(r) - f) /\ Len(r) - l = f /\ g \in 1 .. Len(b) /\ Len(b) - g = l
  BY <1>1
<1>4. r[f] = b[g]
  BY <1>2, <1>3
<1> HIDE DEF g
<1>5. g \in Ends(b) /\ script[b[g].id] # "chunked"
  BY <1>1, <1>3, <1>4 DEF Ends
<1>6. b[Len(b) - k] = Stream[arrived - k]
  BY <1>3, <1>5 DEF InPlace
<1>7. QED
  BY <1>2, <1>6

\* A removal.
LEMMA InPlaceDrop ==
  ASSUME NEW b \in Seq(Symbol), NEW n \in 0 .. Len(b), InPlace(b)
  PROVE  InPlace(Drop(b, n))
<1> DEFINE d == Drop(b, n)
<1>1. /\ d \in Seq(Symbol) /\ Len(d) = Len(b) - n
      /\ \A j \in 1 .. (Len(b) - n) : d[j] = b[j + n]
  BY DropIs
<1> HIDE DEF d
<1>2. Len(b) \in Nat /\ n \in Nat /\ n <= Len(b)
  OBVIOUS
<1>3. ASSUME NEW f \in Ends(d), NEW k \in 0 .. (Len(d) - f)
      PROVE  d[Len(d) - k] = b[Len(b) - k]
  <2> DEFINE j == Len(d) - k
  <2>1. f \in 1 .. Len(d)
    BY <1>1, EndsIn
  <2>2. j \in 1 .. (Len(b) - n) /\ j + n = Len(b) - k
    BY <1>1, <1>2, <2>1
  <2> HIDE DEF j
  <2>3. d[j] = b[Len(b) - k]
    BY <1>1, <2>2
  <2>4. QED
    BY <2>3 DEF j
<1>4. Len(d) <= Len(b)
  BY <1>1, <1>2
<1>5. InPlace(d)
  BY <1>1, <1>3, <1>4, InPlaceKeeps
<1>6. QED
  BY <1>5 DEF d

\* The body of a counted POST is behind its headers.
LEMMA PostBody ==
  ASSUME IInv, NEW f \in Ends(io), script[io[f].id] = "post",
         NEW k \in 1 .. 2, f + k <= Len(io)
  PROVE  f + k \notin Ends(io)
<1> DEFINE i == io[f].id
           p == arrived - (Len(io) - f)
<1>1. /\ IsScript /\ io \in Seq(Symbol) /\ Len(io) \in Nat /\ f \in 1 .. Len(io)
      /\ arrived \in Nat /\ arrived <= Len(Stream) /\ Len(io) <= arrived
      /\ io[f].part = "end" /\ i \in DOMAIN script /\ InPlace(io)
  <2>1. io \in Seq(Symbol)
    BY DEF IInv
  <2>2. IsScript /\ Len(Stream) \in Nat
    BY StreamOrdered DEF IInv
  <2>3. QED
    BY <2>1, <2>2, EndsIn DEF IInv, Due
<1>2. \A l \in 0 .. (Len(io) - f) : io[Len(io) - l] = Stream[arrived - l]
  BY <1>1 DEF InPlace
<1>3. /\ Stream \in Seq(Symbol) /\ Ordered(Stream) /\ Len(Stream) \in Nat
      /\ DOMAIN Stream = 1 .. Len(Stream)
  BY <1>1, StreamOrdered
<1>4. /\ p \in 1 .. Len(Stream) /\ Stream[p] = io[f]
      /\ Stream[p + k] = io[f + k]
  <2> DEFINE l == Len(io) - f
             h == Len(io) - (f + k)
  <2>1. /\ l \in 0 .. (Len(io) - f) /\ Len(io) - l = f /\ arrived - l = p
        /\ h \in 0 .. (Len(io) - f) /\ Len(io) - h = f + k /\ arrived - h = p + k
    BY <1>1
  <2>2. p \in 1 .. Len(Stream)
    BY <1>1
  <2> HIDE DEF l, h, p
  <2>3. QED
    BY <1>2, <2>1, <2>2
<1> DEFINE h == HeadLen(script[i])
           a == At(i - 1)
<1>5. /\ i \in Nat \ {0} /\ script[i] \in AllKinds /\ a \in Nat
      /\ a + h \in Ends(Stream) /\ Stream[a + h] = Sym(i, "end")
      /\ \A j \in 1 .. Len(Symbols(i)) : Stream[a + j] = Symbols(i)[j]
  <2> HIDE DEF i
  <2>1. QED
    BY <1>1, StreamEnd
<1>6. /\ h = 2 /\ Len(Symbols(i)) = 4
      /\ Symbols(i)[3] = Sym(i, "body") /\ Symbols(i)[4] = Sym(i, "body")
  <2>1. script[i] = "post"
    OBVIOUS
  <2> HIDE DEF i
  <2>2. HeadLen(script[i]) = 2
    BY <2>1 DEF HeadLen
  <2>3. QED
    BY <1>5, <2>1, <2>2, SymbolsAre
<1>7. Stream[p].id = i
  BY <1>4
<1> HIDE DEF h, i, a, p
<1>8. p = a + h
  <2>1. p \in Ends(Stream)
    BY <1>1, <1>3, <1>4 DEF Ends
  <2>2. Stream[a + h].id = i
    BY <1>5 DEF Sym
  <2>3. p \in Int /\ a + h \in Int /\ i \in Int
    BY <1>4, <1>5, <1>6
  <2>4. ~(p < a + h) /\ ~(a + h < p)
    BY <1>3, <1>5, <1>7, <2>1, <2>2, <2>3 DEF Ordered
  <2>5. QED
    BY <2>3, <2>4
<1>9. Stream[p + k] = Sym(i, "body")
  <2> DEFINE j == 2 + k
  <2>1. j \in 1 .. Len(Symbols(i)) /\ j \in 3 .. 4 /\ p + k = a + j
    BY <1>5, <1>6, <1>8
  <2>2. Symbols(i)[j] = Sym(i, "body")
    BY <1>6, <2>1
  <2> HIDE DEF j
  <2>3. QED
    BY <1>5, <2>1, <2>2
<1>10. io[f + k].part = "body"
  BY <1>4, <1>9 DEF Sym
<1>11. QED
  BY <1>10 DEF Ends

\* A step without a dispatch that keeps the empty lines, unless it is the close.
LEMMA ShrinksInv ==
  ASSUME IInv, UNCHANGED <<script, arrived, dispatched>>,
         io' \in Seq(Symbol), Ordered(io'), Len(io') <= Len(io), InPlace(io'),
         \A j \in Ends(io') : \E i \in Ends(io) : io'[j].id = io[i].id,
         pc' # "closed" =>
           /\ pc # "closed"
           /\ \A i \in Ends(io) : \E j \in Ends(io') : io'[j].id = io[i].id
  PROVE  IInv'
<1>1. Stream' = Stream /\ IsScript'
  BY StreamSame DEF IInv
<1>2. OrderKept' /\ Ids' = Ids /\ \A i : Swallowed(i)' = Swallowed(i)
  <2>1. Ids' = Ids
    BY DEF Ids
  <2>2. \A i : Swallowed(i)' = Swallowed(i)
    BY DEF Swallowed
  <2>3. OrderKept
    BY DEF IInv
  <2>4. OrderKept'
    BY <2>1, <2>2, <2>3 DEF OrderKept, After
  <2>5. QED
    BY <2>1, <2>2, <2>4
<1>3. InPlace(io)'
  BY <1>1 DEF InPlace
<1>4. ASSUME NEW j \in Ends(io')
      PROVE  io'[j].id \in DOMAIN script /\ Before(io'[j].id, Stream, arrived)
  BY <1>4 DEF IInv, Due
<1>5. Due'
  BY <1>1, <1>4 DEF Due
<1>6. ASSUME NEW d \in DOMAIN dispatched, NEW j \in Ends(io')
      PROVE  After(io'[j].id, dispatched[d].id)
  BY <1>6 DEF IInv, Done, Reaches
<1>7. Done'
  <2>1. \A d \in DOMAIN dispatched : Before(dispatched[d].id, Stream, arrived)
    BY DEF IInv, Done
  <2>2. QED
    BY <1>1, <1>6, <2>1 DEF Done, Reaches, After
<1>8. ASSUME pc' # "closed", NEW i \in DOMAIN script PROVE Accounted(i)'
  <2>1. Accounted(i)
    BY <1>8 DEF IInv
  <2>2. QED
    BY <1>1, <1>2, <1>8, <2>1 DEF Accounted
<1>9. Len(io') <= arrived' /\ arrived' \in 0 .. Len(Stream)
  <2>1. Len(io) \in Nat /\ Len(io') \in Nat /\ Len(io) <= arrived /\ arrived \in Int
    BY DEF IInv
  <2>2. QED
    BY <2>1 DEF IInv
<1>10. QED
  BY <1>1, <1>2, <1>3, <1>5, <1>7, <1>8, <1>9 DEF IInv

\* The request whose headers end at len is dispatched.  What is left of the
\* buffer was behind them, but for a negative Content-Length, and what is not
\* left was swallowed.
LEMMA DispatchInv ==
  ASSUME IInv, pc # "closed", UNCHANGED <<script, arrived>>, NEW len \in Ends(io),
         \A k \in Ends(io) : len <= k,
         NEW d \in Dispatch, d.id = io[len].id,
         dispatched' = Append(dispatched, d),
         io' \in Seq(Symbol), Ordered(io'), Len(io') <= Len(io), InPlace(io'),
         \A j \in Ends(io') : \E i \in Ends(io) :
           io'[j].id = io[i].id /\ (i > len \/ script[d.id] = "negative"),
         pc' # "closed" =>
           \A i \in Ends(io) : i > len =>
             \/ \E j \in Ends(io') : io'[j].id = io[i].id
             \/ /\ script[d.id] \in {"chunked", "cgi"}
                /\ \E x \in 1 .. Len(d.body) : d.body[x] = io[i]
  PROVE  IInv'
<1>1. Stream' = Stream /\ IsScript'
  BY StreamSame DEF IInv
<1>2. /\ io \in Seq(Symbol) /\ Ordered(io) /\ dispatched \in Seq(Dispatch)
      /\ Due /\ OrderKept /\ Done
  BY DEF IInv
<1> DEFINE n == Len(dispatched)
<1>3. /\ dispatched' \in Seq(Dispatch) /\ n \in Nat
      /\ DOMAIN dispatched' = 1 .. (n + 1) /\ DOMAIN dispatched = 1 .. n
      /\ dispatched'[n + 1] = d
      /\ \A e \in 1 .. n : dispatched'[e] = dispatched[e]
  BY <1>2, AppendProperties
<1> HIDE DEF n
<1>4. /\ len \in 1 .. Len(io) /\ io[len].part = "end" /\ d.id \in DOMAIN script
      /\ d.id \in Nat \ {0} /\ Before(d.id, Stream, arrived)
  <2>1. len \in 1 .. Len(io) /\ io[len].part = "end"
    BY <1>2, EndsIn
  <2>2. d.id \in DOMAIN script /\ Before(d.id, Stream, arrived)
    BY <1>2 DEF Due
  <2>3. d.id \in Nat \ {0}
    BY <2>2, StreamEnd DEF IInv
  <2>4. QED
    BY <2>1, <2>2, <2>3
<1>5. ASSUME NEW j \in Ends(io')
      PROVE  /\ io'[j].id \in DOMAIN script /\ Before(io'[j].id, Stream, arrived)
             /\ After(io'[j].id, d.id)
             /\ \A e \in 1 .. n : After(io'[j].id, dispatched[e].id)
  <2>1. PICK i \in Ends(io) :
          io'[j].id = io[i].id /\ (i > len \/ script[d.id] = "negative")
    OBVIOUS
  <2>2. CASE i > len
    <3>1. io[len].id < io[i].id
      BY <1>2, <2>2 DEF Ordered
    <3>2. QED
      BY <1>2, <1>3, <2>1, <3>1 DEF Due, Done, Reaches, After
  <2>3. CASE ~(i > len)
    <3>1. i = len /\ script[d.id] = "negative"
      <4>1. i \in 1 .. Len(io) /\ len <= i
        BY <1>2, EndsIn
      <4>2. QED
        BY <1>4, <2>1, <2>3, <4>1
    <3>2. After(io'[j].id, d.id)
      BY <2>1, <3>1 DEF After
    <3>3. QED
      BY <1>2, <1>3, <2>1, <3>1, <3>2 DEF Due, Done, Reaches
  <2>4. QED
    BY <2>2, <2>3
<1>6. \A e \in 1 .. n : After(d.id, dispatched[e].id)
  BY <1>2, <1>3 DEF Done, Reaches
<1>7. /\ d.id \in Ids' /\ \A e \in Ids : e \in Ids'
      /\ \A i : Swallowed(i) => Swallowed(i)'
  <2>1. d.id \in Ids'
    BY <1>3 DEF Ids
  <2>2. ASSUME NEW e \in Ids PROVE e \in Ids'
    BY <1>3 DEF Ids
  <2>3. ASSUME NEW i, Swallowed(i) PROVE Swallowed(i)'
    <3>1. PICK k \in 1 .. n : /\ script[dispatched[k].id] \in {"chunked", "cgi"}
                              /\ [id |-> i, part |-> "end"] \in Range(dispatched[k].body)
      BY <1>3, <2>3 DEF Swallowed
    <3>2. k \in 1 .. (n + 1) /\ dispatched'[k] = dispatched[k]
      BY <1>3
    <3>3. QED
      BY <1>3, <3>1, <3>2 DEF Swallowed
  <2>4. QED
    BY <2>1, <2>2, <2>3
\* A message before this one is not in the buffer, nor to come.
<1>8. ASSUME NEW h \in 1 .. (d.id - 1) PROVE h \in Ids' \/ Swallowed(h)'
  <2>1. h \in DOMAIN script /\ h < d.id
    <3>1. PICK m \in Nat \ {0} : script \in [1 .. m -> AllKinds]
      BY DEF IInv, IsScript
    <3>2. d.id \in 1 .. m /\ DOMAIN script = 1 .. m
      BY <1>4, <3>1
    <3>3. QED
      BY <3>2
  <2>2. Accounted(h)
    BY <2>1 DEF IInv
  <2>3. ASSUME NEW j \in Ends(io), io[j].id = h PROVE FALSE
    <3>1. j = len \/ len < j
      BY <1>2, EndsIn
    <3>2. io[len].id < io[j].id \/ j = len
      BY <1>2, <3>1 DEF Ordered
    <3>3. QED
      BY <1>4, <2>1, <2>3, <3>2
  <2>4. ASSUME NEW k \in Ends(Stream), k > arrived, Stream[k].id = h PROVE FALSE
    <3>1. d.id < h
      BY <1>4, <2>4 DEF Before
    <3>2. QED
      BY <1>4, <2>1, <3>1
  <2>5. QED
    BY <1>7, <2>2, <2>3, <2>4 DEF Accounted
<1>9. OrderKept'
  <2> SUFFICES ASSUME NEW k \in 1 .. (n + 1)
               PROVE  /\ \A j \in 1 .. (k - 1) :
                           After(dispatched'[k].id, dispatched'[j].id)
                      /\ \A h \in 1 .. (dispatched'[k].id - 1) :
                           h \in Ids' \/ Swallowed(h)'
    BY <1>3 DEF OrderKept, After
  <2>1. CASE k \in 1 .. n
    <3>1. /\ \A j \in 1 .. (k - 1) : After(dispatched[k].id, dispatched[j].id)
          /\ \A h \in 1 .. (dispatched[k].id - 1) : h \in Ids \/ Swallowed(h)
      BY <1>2, <1>3, <2>1 DEF OrderKept
    <3>2. \A j \in 1 .. (k - 1) : dispatched'[j] = dispatched[j]
      BY <1>3, <2>1
    <3>3. dispatched'[k] = dispatched[k]
      BY <1>3, <2>1
    <3>4. \A j \in 1 .. (k - 1) : After(dispatched'[k].id, dispatched'[j].id)
      BY <3>1, <3>2, <3>3
    <3>5. \A h \in 1 .. (dispatched'[k].id - 1) : h \in Ids' \/ Swallowed(h)'
      BY <1>7, <3>1, <3>3
    <3>6. QED
      BY <3>4, <3>5
  <2>2. CASE k = n + 1
    <3>1. \A j \in 1 .. (k - 1) : dispatched'[j] = dispatched[j] /\ j \in 1 .. n
      BY <1>3, <2>2
    <3>2. dispatched'[k] = d
      BY <1>3, <2>2
    <3>3. \A j \in 1 .. (k - 1) : After(dispatched'[k].id, dispatched'[j].id)
      BY <1>6, <3>1, <3>2
    <3>4. \A h \in 1 .. (dispatched'[k].id - 1) : h \in Ids' \/ Swallowed(h)'
      BY <1>8, <3>2
    <3>5. QED
      BY <3>3, <3>4
  <2>3. QED
    BY <1>3, <2>1, <2>2
<1>10. ASSUME NEW e \in 1 .. (n + 1)
       PROVE  /\ \A j \in Ends(io') : After(io'[j].id, dispatched'[e].id)
              /\ Before(dispatched'[e].id, Stream, arrived)
  <2>1. CASE e \in 1 .. n
    BY <1>2, <1>3, <1>5, <2>1 DEF Done
  <2>2. CASE e = n + 1
    BY <1>3, <1>4, <1>5, <2>2
  <2>3. QED
    BY <1>3, <2>1, <2>2
<1>11. Due' /\ Done'
  <2>1. Due'
    BY <1>1, <1>5 DEF Due
  <2>2. Done'
    BY <1>1, <1>3, <1>10 DEF Done, Reaches, After
  <2>3. QED
    BY <2>1, <2>2
<1>12. ASSUME pc' # "closed", NEW i \in DOMAIN script PROVE Accounted(i)'
  <2>1. Accounted(i)
    BY <1>12 DEF IInv
  <2>2. CASE \E j \in Ends(io) : io[j].id = i
    <3>1. PICK j \in Ends(io) : io[j].id = i
      BY <2>2
    <3>2. CASE j = len
      BY <1>7, <3>1, <3>2 DEF Accounted
    <3>3. CASE j # len
      <4>1. j > len
        <5>1. j \in 1 .. Len(io) /\ len <= j
          BY <1>2, EndsIn
        <5>2. QED
          BY <1>4, <3>3, <5>1
      <4>2. CASE \E l \in Ends(io') : io'[l].id = io[j].id
        BY <3>1, <4>2 DEF Accounted
      <4>3. CASE /\ script[d.id] \in {"chunked", "cgi"}
                 /\ \E x \in 1 .. Len(d.body) : d.body[x] = io[j]
        <5>1. PICK x \in 1 .. Len(d.body) : d.body[x] = io[j]
          BY <4>3
        <5>2. io[j] = [id |-> i, part |-> "end"]
          <6>1. io[j] \in Symbol /\ io[j].part = "end"
            BY <1>2, EndsIn
          <6>2. QED
            BY <3>1, <6>1 DEF Symbol
        <5>3. x \in DOMAIN d.body
          BY DEF Dispatch
        <5>4. [id |-> i, part |-> "end"] \in Range(d.body)
          BY <5>1, <5>2, <5>3 DEF Range
        <5>5. Swallowed(i)'
          <6>1. n + 1 \in DOMAIN dispatched' /\ dispatched'[n + 1] = d
            BY <1>3
          <6>2. script'[d.id] \in {"chunked", "cgi"}
            BY <4>3
          <6>3. QED
            BY <5>4, <6>1, <6>2 DEF Swallowed
        <5>6. QED
          BY <5>5 DEF Accounted
      <4>4. QED
        BY <1>12, <4>1, <4>2, <4>3
    <3>4. QED
      BY <3>2, <3>3
  <2>3. QED
    BY <1>1, <1>7, <2>1, <2>2 DEF Accounted
<1>13. Len(io') <= arrived' /\ arrived' \in 0 .. Len(Stream) /\ InPlace(io)'
  <2>1. Len(io) \in Nat /\ Len(io') \in Nat /\ Len(io) <= arrived /\ arrived \in Int
    BY DEF IInv
  <2>2. InPlace(io)'
    BY <1>1 DEF InPlace
  <2>3. QED
    BY <2>1, <2>2 DEF IInv
<1>14. QED
  BY <1>1, <1>3, <1>9, <1>11, <1>12, <1>13 DEF IInv

\* A round of the loop for headers of length len: buffer, lengths and request.
Buf(len) == IF script[io[len].id] = "chunked" THEN Reassembled(io, len, 0).buf ELSE io
Messages(len) == IF script[io[len].id] = "chunked"
                   THEN {Reassembled(io, len, 0).message} ELSE MessageLens(io, len)
Request(len) == [id |-> io[len].id, on |-> "recv",
                 body |-> SubSeq(Buf(len), len + 1, Len(Buf(len)))]

Waits(len, message) == /\ ~Complete(message, Len(io))
                       /\ io' = Buf(len) /\ dispatched' = dispatched

Goes(len, message) ==
  /\ Complete(message, Len(io)) /\ dispatched' = Append(dispatched, Request(len))
  /\ io' = IF script[io[len].id] = "cgi" THEN <<>> ELSE Drop(Buf(len), message)
  /\ pc' = "idle" /\ script[io[len].id] \in {"get", "post"} => io' = <<>>

LEMMA Round ==
  ASSUME ParseRequest
  PROVE  /\ pc = "parse" /\ pc' # "closed" /\ UNCHANGED <<script, arrived>>
         /\ \E len \in Parse(io) : \E message \in Messages(len) :
              len > 0 /\ (Waits(len, message) \/ Goes(len, message))
<1>1. /\ pc = "parse" /\ UNCHANGED <<script, arrived>>
      /\ \E len \in Parse(io) :
           /\ len > 0
           /\ LET kind == script[io[len].id]
                  fresh == [rcvd |-> Len(io), chunks |-> 0]
                  chunked == Reassembled(io, len, fresh.chunks)
                  buf == IF kind = "chunked" THEN chunked.buf ELSE io
              IN \E message \in IF kind = "chunked" THEN {chunked.message}
                                                    ELSE MessageLens(io, len) :
                 IF ~Complete(message, fresh.rcvd)
                   THEN io' = buf /\ pc' = "idle" /\ UNCHANGED dispatched
                   ELSE /\ dispatched' = Append(dispatched,
                             [id |-> io[len].id, on |-> "recv",
                              body |-> SubSeq(buf, len + 1, Len(buf))])
                        /\ io' = IF kind = "cgi" THEN <<>> ELSE Drop(buf, message)
                        /\ busy' = IF kind \in {"file", "cgi"} THEN kind ELSE "none"
                        /\ pc' = IF busy' = "none" /\ Again(io') THEN "parse" ELSE "idle"
  BY ZenonT(40) DEF ParseRequest
<1> DEFINE Outcome(len, message) ==
        /\ len > 0
        /\ IF ~Complete(message, Len(io))
             THEN io' = Buf(len) /\ pc' = "idle" /\ UNCHANGED dispatched
             ELSE /\ dispatched' = Append(dispatched, Request(len))
                  /\ io' = IF script[io[len].id] = "cgi" THEN <<>>
                             ELSE Drop(Buf(len), message)
                  /\ busy' = IF script[io[len].id] \in {"file", "cgi"}
                               THEN script[io[len].id] ELSE "none"
                  /\ pc' = IF busy' = "none" /\ Again(io') THEN "parse" ELSE "idle"
<1>2. PICK len \in Parse(io) : \E message \in Messages(len) : Outcome(len, message)
  BY <1>1 DEF Buf, Messages, Request
<1>3. PICK message \in Messages(len) : Outcome(len, message)
  BY <1>2
<1>4. CASE ~Complete(message, Len(io))
  BY <1>1, <1>3, <1>4 DEF Waits
<1>5. CASE Complete(message, Len(io))
  <2>1. pc' = "idle" /\ script[io[len].id] \in {"get", "post"} => io' = <<>>
    <3> SUFFICES ASSUME pc' = "idle", script[io[len].id] \in {"get", "post"}
                 PROVE  io' = <<>>
      OBVIOUS
    <3>1. busy' = "none"
      BY <1>3, <1>5
    <3>2. ~Again(io')
      BY <1>3, <1>5, <3>1
    <3>3. QED
      BY <3>2 DEF Again
  <2>2. Goes(len, message)
    BY <1>3, <1>5, <2>1 DEF Goes
  <2>3. QED
    BY <1>1, <1>3, <1>5, <2>2
<1>6. QED
  BY <1>4, <1>5

\* What is behind position len of b is in the body of a request.
LEMMA InBody ==
  ASSUME NEW b \in Seq(Symbol), NEW len \in 0 .. Len(b)
  PROVE  /\ SubSeq(b, len + 1, Len(b)) \in Seq(Symbol)
         /\ \A j \in 1 .. Len(b) : j > len =>
              \E x \in 1 .. Len(SubSeq(b, len + 1, Len(b))) :
                SubSeq(b, len + 1, Len(b))[x] = b[j]
<1> DEFINE f == len + 1
           t == SubSeq(b, f, Len(b))
<1>1. f \in 1 .. Len(b) + 1 /\ Len(b) \in Nat /\ f = len + 1 /\ len \in Nat
  OBVIOUS
<1>2. t = SubSeq(b, f, Len(b))
  OBVIOUS
<1> HIDE DEF f, t
<1>3. /\ t \in Seq(Symbol)
      /\ Len(t) = IF f <= Len(b) THEN Len(b) - f + 1 ELSE 0
      /\ \A j \in 1 .. Len(b) - f + 1 : t[j] = b[f + j - 1]
  BY <1>1, <1>2, SubSeqProperties
<1>4. ASSUME NEW j \in 1 .. Len(b), j > len PROVE \E x \in 1 .. Len(t) : t[x] = b[j]
  <2> DEFINE x == j - len
  <2>1. x \in 1 .. Len(b) - f + 1 /\ f + x - 1 = j /\ f <= Len(b)
    BY <1>1, <1>4
  <2> HIDE DEF x
  <2>2. Len(t) = Len(b) - f + 1
    BY <1>3, <2>1
  <2>3. t[x] = b[j]
    BY <1>3, <2>1
  <2>4. QED
    BY <2>1, <2>2, <2>3
<1>5. QED
  BY <1>3, <1>4 DEF t, f

\* A round for a chunked message.
LEMMA ChunkedInv ==
  ASSUME IInv, pc # "closed", pc' # "closed", UNCHANGED <<script, arrived>>,
         NEW len \in Ends(io), \A k \in Ends(io) : len <= k,
         script[io[len].id] = "chunked", NEW message \in Messages(len),
         Waits(len, message) \/ Goes(len, message)
  PROVE  IInv'
<1> DEFINE r == Reassembled(io, len, 0)
           b == r.buf
<1>1. /\ io \in Seq(Symbol) /\ Ordered(io) /\ InPlace(io)
      /\ len \in 1 .. Len(io) /\ Len(io) \in Nat /\ io[len].id \in Nat
  BY EndsIn DEF IInv
<1>2. Buf(len) = b /\ message = r.message
  BY DEF Buf, Messages
<1>3. /\ Keeps(io, b, len) /\ len <= Len(b)
      /\ r.message \in {Len(b), MessageLen(io, len)}
  BY <1>1, ReassembledKeeps
<1>4. /\ EndsAlike(io, b, len) /\ \A j \in 1 .. len : b[j] = io[j]
      /\ \A i \in Ends(io) : i > len => \E j \in Ends(b) : j > len /\ b[j] = io[i]
  BY <1>1, ReassembledRest
<1> HIDE DEF r
<1>5. message \in {Len(b), Endless, len}
  BY <1>2, <1>3 DEF MessageLen
<1> DEFINE d == Request(len)
<1>6. d = [id |-> io[len].id, on |-> "recv", body |-> SubSeq(b, len + 1, Len(b))]
  BY <1>2 DEF Request
<1> HIDE DEF b, d
<1>7. /\ b \in Seq(Symbol) /\ Ordered(b) /\ Len(b) \in Nat /\ Len(b) <= Len(io)
      /\ \A j \in Ends(b) : \E i \in Ends(io) : /\ b[j].id = io[i].id
                                                /\ j > len => i > len
  BY <1>3, <1>4 DEF Keeps, EndsAlike
<1>8. InPlace(b)
  <2>1. ASSUME NEW f \in Ends(b)
        PROVE  \/ script[b[f].id] = "chunked"
               \/ \A k \in 0 .. (Len(b) - f) : b[Len(b) - k] = io[Len(io) - k]
    <3>1. f \in 1 .. Len(b) /\ b[f].part = "end"
      BY <1>7, EndsIn
    <3>2. CASE f > len
      BY <1>4, <3>2 DEF EndsAlike
    <3>3. CASE ~(f > len)
      <4>1. f \in 1 .. len
        BY <1>1, <3>1, <3>3
      <4>2. b[f] = io[f] /\ f \in DOMAIN io
        BY <1>1, <1>4, <4>1
      <4>3. f \in Ends(io)
        BY <3>1, <4>2 DEF Ends
      <4>4. f = len
        BY <1>1, <4>1, <4>3
      <4>5. QED
        BY <4>2, <4>4
    <3>4. QED
      BY <3>2, <3>3
  <2>2. QED
    BY <1>1, <1>7, <2>1, InPlaceKeeps
\* All of its own headers stay.
<1>9. ASSUME NEW i \in Ends(io) PROVE \E j \in Ends(b) : b[j].id = io[i].id
  <2>1. CASE i > len
    BY <1>4, <2>1
  <2>2. CASE ~(i > len)
    <3>1. i = len /\ io[len].part = "end"
      BY <1>1, <2>2, EndsIn
    <3>2. len \in DOMAIN b /\ b[len] = io[len]
      BY <1>1, <1>3, <1>4, <1>7
    <3>3. len \in Ends(b)
      BY <3>1, <3>2 DEF Ends
    <3>4. QED
      BY <3>1, <3>2, <3>3
  <2>3. QED
    BY <2>1, <2>2
<1>10. CASE Waits(len, message)
  <2>1. io' = b /\ UNCHANGED dispatched
    BY <1>2, <1>10 DEF Waits
  <2>2. /\ io' \in Seq(Symbol) /\ Ordered(io') /\ Len(io') <= Len(io) /\ InPlace(io')
        /\ \A j \in Ends(io') : \E i \in Ends(io) : io'[j].id = io[i].id
        /\ \A i \in Ends(io) : \E j \in Ends(io') : io'[j].id = io[i].id
    BY <1>7, <1>8, <1>9, <2>1
  <2>3. QED
    BY <2>1, <2>2, ShrinksInv
<1>11. CASE Goes(len, message)
  <2>1. /\ Complete(message, Len(io)) /\ dispatched' = Append(dispatched, d)
        /\ io' = Drop(b, message)
    BY <1>2, <1>11 DEF Goes, d
  <2>2. message \in 0 .. Len(b) /\ len <= message
    BY <1>1, <1>3, <1>5, <1>7, <2>1 DEF Complete
  <2>3. /\ io' \in Seq(Symbol) /\ Len(io') <= Len(io) /\ Ordered(io') /\ InPlace(io')
    <3>1. io' \in Seq(Symbol) /\ Len(io') = Len(b) - message
      BY <1>7, <2>1, <2>2, DropIs
    <3>2. Ordered(io') /\ InPlace(io')
      BY <1>7, <1>8, <2>1, <2>2, DropEnds, InPlaceDrop
    <3>3. QED
      BY <1>1, <1>7, <2>2, <3>1, <3>2
  <2>4. ASSUME NEW j \in Ends(io')
        PROVE  \E i \in Ends(io) : i > len /\ io'[j].id = io[i].id
    <3>1. /\ j + message \in Ends(b) /\ j + message > message
          /\ io'[j] = b[j + message]
      BY <1>7, <2>1, <2>2, DropEnds
    <3>2. j + message > len
      BY <1>1, <1>7, <2>2, <3>1, EndsIn
    <3>3. QED
      BY <1>7, <3>1, <3>2
  <2>5. d \in Dispatch /\ d.id = io[len].id /\ d.body = SubSeq(b, len + 1, Len(b))
    <3>1. SubSeq(b, len + 1, Len(b)) \in Seq(Symbol)
      BY <1>1, <1>3, <1>7, InBody
    <3>2. QED
      BY <1>1, <1>6, <3>1 DEF Dispatch
  <2>6. ASSUME NEW i \in Ends(io), i > len
        PROVE  \E x \in 1 .. Len(d.body) : d.body[x] = io[i]
    <3>1. PICK j \in Ends(b) : j > len /\ b[j] = io[i]
      BY <1>4, <2>6
    <3>2. j \in 1 .. Len(b) /\ len \in 0 .. Len(b)
      BY <1>1, <1>3, <1>7, EndsIn
    <3> DEFINE t == d.body
    <3>3. t = SubSeq(b, len + 1, Len(b))
      BY <2>5
    <3> HIDE DEF t
    <3>4. \A y \in 1 .. Len(b) : y > len => \E x \in 1 .. Len(t) : t[x] = b[y]
      <4>1. \A y \in 1 .. Len(b) : y > len =>
              \E x \in 1 .. Len(SubSeq(b, len + 1, Len(b))) :
                SubSeq(b, len + 1, Len(b))[x] = b[y]
        BY <1>7, <3>2, InBody
      <4>2. QED
        BY <3>3, <4>1
    <3>5. \E x \in 1 .. Len(t) : t[x] = b[j]
      BY <3>1, <3>2, <3>4
    <3>6. QED
      BY <3>1, <3>5 DEF t
  <2>7. QED
    BY <2>1, <2>3, <2>4, <2>5, <2>6, DispatchInv
<1>12. QED
  BY <1>10, <1>11

\* A round for any other one.
LEMMA PlainInv ==
  ASSUME IInv, pc # "closed", pc' # "closed", UNCHANGED <<script, arrived>>,
         NEW len \in Ends(io), \A k \in Ends(io) : len <= k,
         script[io[len].id] # "chunked", NEW message \in Messages(len),
         Waits(len, message) \/ Goes(len, message)
  PROVE  IInv'
<1> DEFINE kind == script[io[len].id]
           d == Request(len)
<1>1. /\ io \in Seq(Symbol) /\ Ordered(io) /\ InPlace(io)
      /\ len \in 1 .. Len(io) /\ Len(io) \in Nat /\ io[len].id \in Nat
  BY EndsIn DEF IInv
<1>2. Buf(len) = io /\ message \in MessageLens(io, len)
  BY DEF Buf, Messages
<1>3. \/ kind = "negative" /\ message \in 0 .. len \cup {Endless}
      \/ kind = "post" /\ message = len + 2
      \/ message \in {Endless, len}
  BY <1>2 DEF MessageLens, MessageLen
<1>4. d = [id |-> io[len].id, on |-> "recv", body |-> SubSeq(io, len + 1, Len(io))]
  BY <1>2 DEF Request
<1> HIDE DEF d
<1>5. d \in Dispatch /\ d.id = io[len].id /\ d.body = SubSeq(io, len + 1, Len(io))
  <2>1. SubSeq(io, len + 1, Len(io)) \in Seq(Symbol)
    BY <1>1, InBody
  <2>2. QED
    BY <1>1, <1>4, <2>1 DEF Dispatch
<1>6. CASE Waits(len, message)
  <2>1. io' = io /\ UNCHANGED dispatched
    BY <1>2, <1>6 DEF Waits
  <2>2. QED
    BY <1>1, <2>1, ShrinksInv
<1>7. CASE Goes(len, message) /\ kind = "cgi"
  <2>1. dispatched' = Append(dispatched, d) /\ io' = <<>>
    BY <1>7 DEF Goes, d
  <2>2. /\ io' \in Seq(Symbol) /\ Ends(io') = {} /\ Len(io') <= Len(io)
        /\ Ordered(io') /\ InPlace(io')
    BY <1>1, <2>1 DEF Ends, Ordered, InPlace
  <2>3. ASSUME NEW i \in Ends(io), i > len
        PROVE  \E x \in 1 .. Len(d.body) : d.body[x] = io[i]
    <3>1. i \in 1 .. Len(io) /\ len \in 0 .. Len(io)
      BY <1>1, EndsIn
    <3> DEFINE t == d.body
    <3>2. t = SubSeq(io, len + 1, Len(io))
      BY <1>5
    <3> HIDE DEF t
    <3>3. \A y \in 1 .. Len(io) : y > len => \E x \in 1 .. Len(t) : t[x] = io[y]
      <4>1. \A y \in 1 .. Len(io) : y > len =>
              \E x \in 1 .. Len(SubSeq(io, len + 1, Len(io))) :
                SubSeq(io, len + 1, Len(io))[x] = io[y]
        BY <1>1, <3>1, InBody
      <4>2. QED
        BY <3>2, <4>1
    <3>4. \E x \in 1 .. Len(t) : t[x] = io[i]
      BY <2>3, <3>1, <3>3
    <3>5. QED
      BY <3>4 DEF t
  <2>4. script[d.id] \in {"chunked", "cgi"}
    BY <1>5, <1>7
  <2>5. QED
    BY <1>5, <2>1, <2>2, <2>3, <2>4, DispatchInv
<1>8. CASE Goes(len, message) /\ kind # "cgi"
  <2>1. /\ Complete(message, Len(io)) /\ dispatched' = Append(dispatched, d)
        /\ io' = Drop(io, message)
    BY <1>2, <1>8 DEF Goes, d
  <2>2. /\ message \in 0 .. Len(io)
        /\ \/ message <= len /\ kind = "negative"
           \/ message = len
           \/ message = len + 2 /\ kind = "post"
    BY <1>1, <1>3, <2>1 DEF Complete
  <2>3. /\ io' \in Seq(Symbol) /\ Len(io') <= Len(io) /\ Ordered(io') /\ InPlace(io')
    <3>1. io' \in Seq(Symbol) /\ Len(io') = Len(io) - message
      BY <1>1, <2>1, <2>2, DropIs
    <3>2. Ordered(io') /\ InPlace(io')
      BY <1>1, <2>1, <2>2, DropEnds, InPlaceDrop
    <3>3. QED
      BY <1>1, <2>2, <3>1, <3>2
  <2>4. ASSUME NEW j \in Ends(io')
        PROVE  \E i \in Ends(io) : /\ io'[j].id = io[i].id
                                   /\ i > len \/ script[d.id] = "negative"
    <3>1. /\ j + message \in Ends(io) /\ j + message > message
          /\ io'[j] = io[j + message]
      BY <1>1, <2>1, <2>2, DropEnds
    <3>2. j + message > len \/ kind = "negative"
      BY <1>1, <2>2, <3>1, EndsIn
    <3>3. QED
      BY <1>5, <3>1, <3>2
  <2>5. ASSUME NEW i \in Ends(io), i > len
        PROVE  \E j \in Ends(io') : io'[j].id = io[i].id
    <3>1. i \in 1 .. Len(io)
      BY <1>1, EndsIn
    <3>2. i > message
      <4>1. CASE message <= len
        BY <1>1, <2>2, <2>5, <3>1, <4>1
      <4>2. CASE message = len + 2 /\ kind = "post"
        <5> SUFFICES ASSUME ~(i > message) PROVE FALSE
          OBVIOUS
        <5> DEFINE k == i - len
        <5>1. k \in 1 .. 2 /\ len + k = i /\ len + k <= Len(io)
          BY <1>1, <2>5, <3>1, <4>2
        <5> HIDE DEF k
        <5>2. len + k \notin Ends(io)
          BY <4>2, <5>1, PostBody
        <5>3. QED
          BY <5>1, <5>2
      <4>3. QED
        BY <1>1, <2>2, <4>1, <4>2
    <3>3. \A x \in Ends(io) : x > message =>
            \E j \in Ends(Drop(io, message)) : Drop(io, message)[j] = io[x]
      BY <1>1, <2>2, DropEnds
    <3>4. \E j \in Ends(Drop(io, message)) : Drop(io, message)[j] = io[i]
      BY <3>2, <3>3
    <3>5. QED
      BY <2>1, <3>4
  <2>6. QED
    BY <1>5, <2>1, <2>3, <2>4, <2>5, DispatchInv
<1>9. QED
  BY <1>6, <1>7, <1>8

\* One round of mg_http_handler's loop.
LEMMA ParseRequestInv == ASSUME IInv, ParseRequest PROVE IInv'
<1>1. pc # "closed" /\ pc' # "closed" /\ UNCHANGED <<script, arrived>>
  BY Round
<1>2. PICK len \in Parse(io) : \E message \in Messages(len) :
        len > 0 /\ (Waits(len, message) \/ Goes(len, message))
  BY Round
<1>3. PICK message \in Messages(len) :
        len > 0 /\ (Waits(len, message) \/ Goes(len, message))
  BY <1>2
<1>4. len \in Ends(io) /\ \A k \in Ends(io) : len <= k
  BY <1>3, ParseFirst DEF IInv
<1>5. QED
  BY <1>1, <1>3, <1>4, ChunkedInv, PlainInv

\* MG_EV_CLOSE.
LEMMA CloseInv == ASSUME IInv, Close PROVE IInv'
<1>1. PICK len \in Parse(io) :
        dispatched' = IF len <= 0
                        THEN dispatched
                        ELSE Append(dispatched,
                               [id |-> io[len].id, on |-> "close",
                                body |-> SubSeq(io, len + 1, Len(io))])
  BY DEF Close
<1>2. UNCHANGED <<script, arrived>> /\ io' = <<>> /\ pc # "closed" /\ pc' = "closed"
  BY DEF Close
<1>3. io \in Seq(Symbol) /\ Len(io) \in Nat
  BY DEF IInv
<1>4. /\ io' \in Seq(Symbol) /\ Ends(io') = {} /\ Ordered(io') /\ InPlace(io')
      /\ Len(io') <= Len(io)
  BY <1>2, <1>3 DEF Ends, Ordered, InPlace
<1>5. CASE len <= 0
  BY <1>1, <1>2, <1>4, <1>5, ShrinksInv
<1>6. CASE ~(len <= 0)
  <2> DEFINE d == [id |-> io[len].id, on |-> "close",
                   body |-> SubSeq(io, len + 1, Len(io))]
  <2>0. len > 0
    <3>1. len \in Ends(io) \cup {0, -1}
      <4> DEFINE e == CHOOSE j \in Ends(io) : \A k \in Ends(io) : j <= k
      <4>1. CASE Ends(io) = {}
        BY <4>1 DEF Parse
      <4>2. CASE Ends(io) # {}
        <5>1. \E j \in Ends(io) : \A k \in Ends(io) : j <= k
          <6>1. Ends(io) \in SUBSET Nat
            BY <1>3, EndsIn
          <6>2. QED
            BY <4>2, <6>1, Smallest
        <5>2. e \in Ends(io)
          BY <5>1
        <5>3. len \in {-1, e}
          BY <4>2 DEF Parse
        <5>4. QED
          BY <5>2, <5>3
      <4>3. QED
        BY <4>1, <4>2
    <3>2. QED
      BY <1>3, <1>6, <3>1, EndsIn
  <2>1. /\ len \in Ends(io) /\ \A k \in Ends(io) : len <= k
        /\ len \in 1 .. Len(io) /\ Len(io) \in Nat /\ io[len].id \in Nat
    BY <1>3, <2>0, ParseFirst, EndsIn
  <2>2. SubSeq(io, len + 1, Len(io)) \in Seq(Symbol)
    <3>1. len \in 0 .. Len(io)
      BY <2>1
    <3>2. QED
      BY <1>3, <3>1, InBody
  <2>3. d \in Dispatch /\ d.id = io[len].id
    BY <2>1, <2>2 DEF Dispatch
  <2>4. dispatched' = Append(dispatched, d)
    BY <1>1, <1>6
  <2> HIDE DEF d
  <2>5. QED
    BY <1>2, <1>4, <2>1, <2>3, <2>4, DispatchInv
<1>7. QED
  BY <1>5, <1>6

\* Every step keeps it.
LEMMA NextInv == IInv /\ [Next]_vars => IInv'
<1> SUFFICES ASSUME IInv, [Next]_vars PROVE IInv'
  OBVIOUS
<1>1. CASE \/ ParseFails \/ Served \/ ClientShuts \/ UNCHANGED vars
  <2>1. /\ UNCHANGED <<script, arrived, dispatched, io>>
        /\ pc' # "closed" => pc # "closed"
    BY <1>1 DEF ParseFails, Served, ClientShuts, vars
  <2>2. /\ io' \in Seq(Symbol) /\ Ordered(io') /\ InPlace(io')
        /\ Len(io) \in Nat /\ Len(io') <= Len(io)
    BY <2>1 DEF IInv
  <2>3. QED
    BY <2>1, <2>2, ShrinksInv
<1>2. QED
  BY <1>1, ReceiveInv, ParseRequestInv, CloseInv DEF Next

\* It holds throughout every behaviour.
LEMMA Invariance == SafeSpec => []IInv
BY InitInv, NextInv, PTL DEF SafeSpec

\* Requests are dispatched in the client's order, none of them twice but one with
\* a negative Content-Length, and none is passed over that did not go to a handler
\* in a chunked body or a program's: for any script, however it is cut.
THEOREM KeepsOrder == SafeSpec => []OrderKept
<1>1. IInv => OrderKept
  BY DEF IInv
<1>2. QED
  BY <1>1, Invariance, PTL

-----------------------------------------------------------------------------
(* Dispatched in time, and whole.                                          *)

Simple(i) == script[i] \in {"get", "post"}
Plain(i) == script[i] \notin {"chunked", "cgi", "negative"}

\* The buffer holds what has come behind the first u messages.
Clean(u) == /\ arrived = At(u) + Len(io)
            /\ \A k \in 1 .. Len(io) : io[k] = Stream[At(u) + k]

\* The first u messages are done, and none swallowed what was behind it.
UpTo(u) == \A j \in 1 .. u : j \in Ids /\ Plain(j)

\* The loop and the stream agree where message u + 1 begins; while the loop
\* rests, that message is not whole, unless it is none the loop would answer.
InStep(u) ==
  /\ UpTo(u) /\ Clean(u)
  /\ pc = "idle" /\ u < N /\ (\A j \in 1 .. (u + 1) : Simple(j))
       => arrived < At(u + 1)

\* Message u + 1 has lost a chunk's size line and never ends.
Stuck(u) ==
  /\ UpTo(u) /\ u < N /\ script[u + 1] = "chunked"
  /\ Len(io) >= 3 /\ io[1].part = "line" /\ io[2] = Sym(u + 1, "end")
  /\ io[3].part = "piece"

\* Message u + 1 is done and may have swallowed what was behind it, or left some
\* of its headers in front of it.
Past(u) == UpTo(u) /\ u < N /\ ~Plain(u + 1) /\ u + 1 \in Ids

Held(u) == InStep(u) \/ Stuck(u) \/ Past(u)

HInv == WholeByRecv /\ (pc = "closed" \/ \E u \in 0 .. N : Held(u))

\* What depends on the script only.
LEMMA ScriptSame ==
  ASSUME script' = script
  PROVE  /\ N' = N /\ Stream' = Stream
         /\ \A i : /\ At(i)' = At(i) /\ Symbols(i)' = Symbols(i)
                   /\ Simple(i)' = Simple(i) /\ Plain(i)' = Plain(i)
<1>1. \A i : Symbols(i)' = Symbols(i)
  BY DEF Symbols
<1>2. \A i : At(i)' = At(i)
  BY DEF At, Symbols
<1>3. QED
  BY <1>1, <1>2, StreamSame DEF N, Simple, Plain

\* Without a dispatch.
LEMMA QuietKeeps ==
  ASSUME UNCHANGED <<script, dispatched>>
  PROVE  /\ WholeByRecv => WholeByRecv'
         /\ \A u : UpTo(u) => UpTo(u)'
         /\ \A u : Past(u) => Past(u)'
<1>1. \A i : Plain(i)' = Plain(i)
  BY ScriptSame
<1>2. Ids' = Ids
  BY DEF Ids
<1>3. ASSUME NEW u, UpTo(u) PROVE UpTo(u)'
  BY <1>1, <1>2, <1>3 DEF UpTo
<1>4. ASSUME NEW u, Past(u) PROVE Past(u)'
  BY <1>1, <1>2, <1>3, <1>4, ScriptSame DEF Past
<1>5. WholeByRecv => WholeByRecv'
  BY DEF WholeByRecv, Payload
<1>6. QED
  BY <1>3, <1>4, <1>5

\* d has its body, if it was dispatched for it.
RightBody(d) ==
  (/\ d.on = "recv" /\ script[d.id] \in {"post", "chunked"}
   /\ \A j \in 1 .. (d.id - 1) : Plain(j))
  => IsPrefix(Payload(d.id), d.body)

\* What is dispatched may be dispatched after all that was.
LEMMA LaterId ==
  ASSUME IInv, IInv', script' = script, NEW d, dispatched' = Append(dispatched, d)
  PROVE  d.id \in Ids' /\ \A e \in Ids : e \in Ids' /\ After(d.id, e)
<1> DEFINE n == Len(dispatched)
<1>1. dispatched \in Seq(Dispatch) /\ dispatched' \in Seq(Dispatch) /\ OrderKept'
  BY DEF IInv
<1>2. /\ n \in Nat /\ DOMAIN dispatched = 1 .. n /\ DOMAIN dispatched' = 1 .. (n + 1)
      /\ dispatched'[n + 1] = d /\ \A e \in 1 .. n : dispatched'[e] = dispatched[e]
  BY <1>1
<1> HIDE DEF n
<1>3. n + 1 \in DOMAIN dispatched'
  BY <1>2
<1>4. ASSUME NEW e \in Ids PROVE e \in Ids' /\ After(d.id, e)
  <2>1. PICK k \in 1 .. n : e = dispatched[k].id
    BY <1>2 DEF Ids
  <2>2. k \in DOMAIN dispatched' /\ k \in 1 .. (n + 1 - 1)
    BY <1>2
  <2> DEFINE m == n + 1
  <2> HIDE DEF m
  <2>3. After(dispatched'[m].id, dispatched'[k].id)
    <3>1. \A y \in DOMAIN dispatched' : \A x \in 1 .. (y - 1) :
            \/ dispatched'[x].id < dispatched'[y].id
            \/ /\ dispatched'[x].id = dispatched'[y].id
               /\ script'[dispatched'[y].id] = "negative"
      BY <1>1 DEF OrderKept, After
    <3>2. m \in DOMAIN dispatched' /\ k \in 1 .. (m - 1)
      BY <1>2, <1>3, <2>2 DEF m
    <3>3. QED
      BY <3>1, <3>2 DEF After
  <2>4. QED
    BY <1>2, <2>1, <2>2, <2>3 DEF Ids, m
<1>5. QED
  BY <1>2, <1>3, <1>4 DEF Ids

\* With one.
LEMMA DispatchKeeps ==
  ASSUME IInv, IInv', script' = script, NEW d, dispatched' = Append(dispatched, d),
         WholeByRecv, RightBody(d)
  PROVE  /\ WholeByRecv' /\ d.id \in Ids'
         /\ \A e \in Ids : e \in Ids' /\ After(d.id, e)
         /\ \A u : UpTo(u) => UpTo(u)'
<1> DEFINE n == Len(dispatched)
<1>1. dispatched \in Seq(Dispatch) /\ dispatched' \in Seq(Dispatch) /\ OrderKept'
  BY DEF IInv
<1>2. /\ n \in Nat /\ DOMAIN dispatched = 1 .. n /\ DOMAIN dispatched' = 1 .. (n + 1)
      /\ dispatched'[n + 1] = d /\ \A e \in 1 .. n : dispatched'[e] = dispatched[e]
  BY <1>1
<1> HIDE DEF n
<1>3. \A k \in 1 .. n : RightBody(dispatched[k])
  BY <1>2 DEF WholeByRecv, RightBody, Plain
<1>4. \A k \in 1 .. (n + 1) : RightBody(dispatched'[k])
  <2> TAKE k \in 1 .. (n + 1)
  <2>1. CASE k \in 1 .. n
    BY <1>2, <1>3, <2>1
  <2>2. CASE k \notin 1 .. n
    <3>1. k = n + 1
      BY <1>2, <2>2
    <3>2. QED
      BY <1>2, <3>1
  <2>3. QED
    BY <2>1, <2>2
<1>5. WholeByRecv'
  <2>1. \A i : Payload(i)' = Payload(i) /\ Plain(i)' = Plain(i)
    BY ScriptSame DEF Payload
  <2>2. ASSUME NEW k \in DOMAIN dispatched',
               dispatched'[k].on = "recv", script[dispatched'[k].id] \in {"post", "chunked"},
               \A j \in 1 .. (dispatched'[k].id - 1) : Plain(j)
        PROVE  IsPrefix(Payload(dispatched'[k].id), dispatched'[k].body)
    <3>1. RightBody(dispatched'[k])
      BY <1>2, <1>4
    <3>2. QED
      BY <2>2, <3>1 DEF RightBody, Plain
  <2>3. QED
    BY <2>1, <2>2 DEF WholeByRecv, Plain
<1>6. d.id \in Ids' /\ \A e \in Ids : e \in Ids' /\ After(d.id, e)
  BY LaterId
<1>7. ASSUME NEW u, UpTo(u) PROVE UpTo(u)'
  BY <1>6, <1>7, ScriptSame DEF UpTo
<1>8. QED
  BY <1>5, <1>6, <1>7

\* What is in a buffer in step with the stream: message u + 1, or its start.
LEMMA CleanIs ==
  ASSUME IInv, NEW u \in 0 .. (N - 1), Clean(u)
  PROVE  /\ u \in Nat /\ u + 1 \in 1 .. N /\ script[u + 1] \in AllKinds
         /\ At(u) \in Nat /\ At(u + 1) = At(u) + Len(Symbols(u + 1))
         /\ \A k \in 1 .. Len(io) :
              k <= Len(Symbols(u + 1)) => io[k] = Symbols(u + 1)[k]
<1>1. /\ N \in Nat /\ \A i \in 1 .. N : script[i] \in AllKinds
      /\ \A i \in 0 .. N : At(i) \in Nat
      /\ \A i \in 0 .. (N - 1) : Laid(Stream, i)
  BY Layout DEF IInv
<1> HIDE DEF N
<1>2. u \in Nat /\ u + 1 \in 1 .. N /\ u \in 0 .. N
  BY <1>1
<1>3. script[u + 1] \in AllKinds /\ At(u) \in Nat /\ Laid(Stream, u)
  BY <1>1, <1>2
<1>4. Symbols(u + 1) \in Seq(Symbol)
  BY <1>2, <1>3, SymbolsOne
<1>5. Len(Symbols(u + 1)) \in Nat
  BY <1>4
<1>6. ASSUME NEW k \in 1 .. Len(io), k <= Len(Symbols(u + 1))
      PROVE  io[k] = Symbols(u + 1)[k]
  <2>1. k \in 1 .. Len(Symbols(u + 1))
    BY <1>5, <1>6
  <2>2. io[k] = Stream[At(u) + k]
    BY DEF Clean
  <2>3. QED
    BY <1>3, <2>1, <2>2 DEF Laid
<1>7. QED
  BY <1>2, <1>3, <1>6 DEF Laid

\* mg_parse_http at the head of such a buffer.
LEMMA CleanParse ==
  ASSUME IInv, NEW u \in 0 .. (N - 1), Clean(u), NEW len \in Parse(io)
  PROVE  \/ len = 0 /\ Len(io) < HeadLen(script[u + 1])
         \/ len = -1 /\ script[u + 1] = "bad"
         \/ /\ len = HeadLen(script[u + 1]) /\ script[u + 1] # "bad"
            /\ len <= Len(io) /\ io[len] = Sym(u + 1, "end")
            /\ io[1].part = "line"
<1> DEFINE s == Symbols(u + 1)
           h == HeadLen(script[u + 1])
<1>1. /\ u \in Nat /\ script[u + 1] \in AllKinds
      /\ \A k \in 1 .. Len(io) : k <= Len(s) => io[k] = s[k]
  BY CleanIs
<1>2. /\ Len(s) \in Nat /\ h \in Nat /\ 2 <= h /\ h <= Len(s)
      /\ s[h] = Sym(u + 1, "end") /\ \A j \in 1 .. (h - 1) : s[j] = Sym(u + 1, "line")
  <2>1. u + 1 \in Nat
    BY <1>1
  <2>2. QED
    BY <1>1, <2>1, SymbolsAre
<1>3. io \in Seq(Symbol) /\ Len(io) \in Nat /\ DOMAIN io = 1 .. Len(io)
  BY DEF IInv
<1> HIDE DEF s, h
<1>4. ASSUME NEW j \in 1 .. (h - 1), j <= Len(io) PROVE io[j].part = "line"
  <2>1. io[j] = s[j] /\ s[j] = Sym(u + 1, "line")
    BY <1>1, <1>2, <1>3, <1>4
  <2>2. QED
    BY <2>1 DEF Sym
<1>5. CASE Len(io) < h
  <2>1. \A j \in DOMAIN io : io[j].part = "line"
    BY <1>2, <1>3, <1>4, <1>5
  <2>2. Parse(io) = {0}
    BY <2>1, ParseNone
  <2>3. QED
    BY <1>5, <2>2 DEF h
<1>6. CASE ~(Len(io) < h)
  <2>1. h \in 1 .. Len(io) /\ h # 1
    BY <1>2, <1>3, <1>6
  <2>2. io[h] = Sym(u + 1, "end")
    BY <1>1, <1>2, <2>1
  <2>3. io[h].part = "end" /\ io[h].id = u + 1
    BY <2>2 DEF Sym
  <2>4. \A j \in 1 .. (h - 1) : io[j].part = "line"
    BY <1>2, <1>3, <1>4, <2>1
  <2>5. \/ len = h /\ script[u + 1] # "bad"
        \/ len = -1 /\ script[u + 1] = "bad"
    BY <1>3, <2>1, <2>3, <2>4, ParseAt
  <2>6. io[1].part = "line"
    BY <1>2, <2>4
  <2>7. QED
    BY <1>3, <2>1, <2>2, <2>5, <2>6 DEF h
<1>7. QED
  BY <1>5, <1>6

\* Behind the last message there is nothing.
LEMMA CleanEnd ==
  ASSUME IInv, Clean(N)
  PROVE  io = <<>> /\ Parse(io) = {0}
<1>1. At(N) = Len(Stream) /\ IsScript /\ io \in Seq(Symbol) /\ arrived <= Len(Stream)
  BY Layout DEF IInv
<1>2. Stream \in Seq(Symbol)
  BY <1>1, StreamOrdered
<1>3. Len(Stream) \in Nat /\ Len(io) \in Nat
  BY <1>1, <1>2
<1>4. arrived = Len(Stream) + Len(io)
  BY <1>1 DEF Clean
<1>5. Len(io) = 0
  BY <1>1, <1>3, <1>4
<1>6. io = <<>>
  BY <1>1, <1>5
<1>7. QED
  BY <1>6, ParseNone

\* mbuf_remove of message u + 1.
LEMMA CleanDrop ==
  ASSUME IInv, NEW u \in 0 .. (N - 1), Clean(u), Len(Symbols(u + 1)) <= Len(io),
         UNCHANGED <<script, arrived>>, io' = Drop(io, Len(Symbols(u + 1)))
  PROVE  Clean(u + 1)'
<1> DEFINE l == Len(Symbols(u + 1))
           a == At(u)
<1>1. /\ u + 1 \in 1 .. N /\ u + 1 \in Nat /\ a \in Nat /\ At(u + 1) = a + l
      /\ script[u + 1] \in AllKinds
  BY CleanIs
<1>2. l \in Nat /\ 2 <= l
  <2>1. /\ Len(Symbols(u + 1)) \in Nat /\ HeadLen(script[u + 1]) \in Nat
        /\ 2 <= HeadLen(script[u + 1])
        /\ HeadLen(script[u + 1]) <= Len(Symbols(u + 1))
    BY <1>1, SymbolsAre
  <2>2. QED
    BY <2>1
<1>3. io \in Seq(Symbol) /\ Len(io) \in Nat
  BY DEF IInv
<1>4. arrived = a + Len(io) /\ \A k \in 1 .. Len(io) : io[k] = Stream[a + k]
  BY DEF Clean
<1>5. io' = SubSeq(io, l + 1, Len(io)) /\ l <= Len(io)
  BY <1>2 DEF Drop
<1>6. At(u + 1)' = a + l /\ Stream' = Stream /\ arrived' = arrived
  BY <1>1, ScriptSame
<1> HIDE DEF l, a
<1> DEFINE f == l + 1
<1>7. f \in 1 .. Len(io) + 1 /\ f = l + 1
  BY <1>2, <1>3, <1>5
<1>8. io' = SubSeq(io, f, Len(io))
  BY <1>5
<1> HIDE DEF f
<1>9. /\ Len(SubSeq(io, f, Len(io))) = IF f <= Len(io) THEN Len(io) - f + 1 ELSE 0
      /\ \A j \in 1 .. Len(io) - f + 1 : SubSeq(io, f, Len(io))[j] = io[f + j - 1]
  BY <1>3, <1>7, SubSeqProperties
<1>10. Len(io') = Len(io) - l
  BY <1>2, <1>3, <1>5, <1>7, <1>8, <1>9
<1>11. ASSUME NEW k \in 1 .. Len(io') PROVE io'[k] = Stream[(a + l) + k]
  <2> DEFINE p == f + k - 1
  <2>1. k \in 1 .. Len(io) - f + 1 /\ p \in 1 .. Len(io) /\ a + p = (a + l) + k
    BY <1>1, <1>2, <1>3, <1>5, <1>7, <1>10
  <2>2. io'[k] = io[p]
    BY <1>8, <1>9, <2>1
  <2> HIDE DEF p
  <2>3. io[p] = Stream[a + p]
    BY <1>4, <2>1
  <2>4. QED
    BY <2>1, <2>2, <2>3
<1>12. arrived' = (a + l) + Len(io')
  <2> DEFINE x == Len(io')
             y == Len(io)
             r == arrived'
  <2>1. r = a + y /\ x = y - l /\ a \in Nat /\ l \in Nat /\ y \in Nat
    BY <1>1, <1>2, <1>3, <1>4, <1>6, <1>10
  <2> HIDE DEF x, y, r
  <2>2. r = (a + l) + x
    BY <2>1
  <2>3. QED
    BY <2>2 DEF x, r
<1> DEFINE b == At(u + 1)'
<1>13. b = a + l
  BY <1>6
<1> HIDE DEF b
<1>14. arrived' = b + Len(io') /\ \A k \in 1 .. Len(io') : io'[k] = Stream'[b + k]
  BY <1>6, <1>11, <1>12, <1>13
<1>15. QED
  BY <1>14 DEF Clean, b

\* The first two symbols of what follows the headers.
LEMMA TwoOf ==
  ASSUME NEW p \in Seq(Symbol), Len(p) = 2, NEW b \in Seq(Symbol), NEW len \in Nat,
         len + 2 <= Len(b), p[1] = b[len + 1], p[2] = b[len + 2]
  PROVE  IsPrefix(p, SubSeq(b, len + 1, Len(b)))
<1> DEFINE f == len + 1
           t == SubSeq(b, f, Len(b))
<1>1. f \in 1 .. Len(b) + 1 /\ f <= Len(b) /\ Len(b) - f + 1 >= 2 /\ Len(b) \in Nat
  OBVIOUS
<1>2. f + 1 - 1 = len + 1 /\ f + 2 - 1 = len + 2
  OBVIOUS
<1> HIDE DEF f
<1>3. /\ t \in Seq(Symbol)
      /\ Len(t) = IF f <= Len(b) THEN Len(b) - f + 1 ELSE 0
      /\ \A j \in 1 .. Len(b) - f + 1 : t[j] = b[f + j - 1]
  BY <1>1, SubSeqProperties
<1> HIDE DEF t
<1>4. Len(t) >= 2 /\ Len(t) \in Nat
  BY <1>1, <1>3
<1>5. t[1] = b[f + 1 - 1] /\ t[2] = b[f + 2 - 1]
  BY <1>1, <1>3
<1>6. t[1] = p[1] /\ t[2] = p[2]
  BY <1>2, <1>5
<1>7. SubSeq(p, 1, 2) = SubSeq(t, 1, 2)
  <2>1. /\ SubSeq(p, 1, 2) \in Seq(Symbol) /\ Len(SubSeq(p, 1, 2)) = 2
        /\ \A j \in 1 .. 2 : SubSeq(p, 1, 2)[j] = p[j]
    <3>1. 1 \in 1 .. Len(p) + 1 /\ 2 \in 0 .. Len(p)
      OBVIOUS
    <3>2. /\ SubSeq(p, 1, 2) \in Seq(Symbol)
          /\ Len(SubSeq(p, 1, 2)) = IF 1 <= 2 THEN 2 - 1 + 1 ELSE 0
          /\ \A j \in 1 .. 2 - 1 + 1 : SubSeq(p, 1, 2)[j] = p[1 + j - 1]
      BY <3>1, SubSeqProperties
    <3>3. QED
      BY <3>2
  <2>2. /\ SubSeq(t, 1, 2) \in Seq(Symbol) /\ Len(SubSeq(t, 1, 2)) = 2
        /\ \A j \in 1 .. 2 : SubSeq(t, 1, 2)[j] = t[j]
    <3>1. 1 \in 1 .. Len(t) + 1 /\ 2 \in 0 .. Len(t)
      BY <1>4
    <3>2. /\ SubSeq(t, 1, 2) \in Seq(Symbol)
          /\ Len(SubSeq(t, 1, 2)) = IF 1 <= 2 THEN 2 - 1 + 1 ELSE 0
          /\ \A j \in 1 .. 2 - 1 + 1 : SubSeq(t, 1, 2)[j] = t[1 + j - 1]
      BY <1>3, <3>1, SubSeqProperties
    <3>3. QED
      BY <3>2
  <2> DEFINE x == SubSeq(p, 1, 2)
             y == SubSeq(t, 1, 2)
  <2> HIDE DEF x, y
  <2>3. /\ x \in Seq(Symbol) /\ Len(x) = 2 /\ \A j \in 1 .. 2 : x[j] = p[j]
        /\ y \in Seq(Symbol) /\ Len(y) = 2 /\ \A j \in 1 .. 2 : y[j] = t[j]
    BY <2>1, <2>2 DEF x, y
  <2>4. \A j \in 1 .. Len(x) : x[j] = y[j]
    BY <1>6, <2>3
  <2>5. x = y
    BY <2>3, <2>4, SeqEqual
  <2>6. QED
    BY <2>5 DEF x, y
<1>8. IsPrefix(p, t)
  BY <1>4, <1>7 DEF IsPrefix
<1>9. t = SubSeq(b, len + 1, Len(b))
  BY DEF t, f
<1>10. QED
  BY <1>8, <1>9

\* At least two symbols are to come behind the first u messages.
LEMMA MoreToCome ==
  ASSUME IsScript, NEW u \in 0 .. (N - 1)
  PROVE  At(u) \in Nat /\ At(u + 1) \in Nat /\ At(u) < At(u + 1)
<1>1. /\ N \in Nat /\ \A i \in 1 .. N : script[i] \in AllKinds
      /\ \A i \in 0 .. N : At(i) \in Nat
      /\ \A i \in 0 .. (N - 1) : Laid(Stream, i)
  BY Layout
<1> HIDE DEF N
<1>2. u \in Nat /\ u + 1 \in 1 .. N /\ u \in 0 .. N /\ u + 1 \in 0 .. N
  BY <1>1
<1>3. /\ Len(Symbols(u + 1)) \in Nat /\ HeadLen(script[u + 1]) \in Nat
      /\ 2 <= HeadLen(script[u + 1])
      /\ HeadLen(script[u + 1]) <= Len(Symbols(u + 1))
  <2>1. script[u + 1] \in AllKinds /\ u + 1 \in Nat
    BY <1>1, <1>2
  <2>2. QED
    BY <2>1, SymbolsAre
<1>4. At(u + 1) = At(u) + Len(Symbols(u + 1)) /\ At(u) \in Nat /\ At(u + 1) \in Nat
  BY <1>1, <1>2 DEF Laid
<1>5. QED
  BY <1>3, <1>4

\* After the accept.
LEMMA InitHeld == Init => HInv
<1> SUFFICES ASSUME Init PROVE HInv
  OBVIOUS
<1>1. IsScript
  BY InitInv DEF IInv
<1>2. io = <<>> /\ dispatched = <<>> /\ arrived = 0
  BY DEF Init
<1>3. WholeByRecv
  BY <1>2 DEF WholeByRecv
<1>4. /\ N \in Nat \ {0} /\ At(0) = 0
  BY <1>1, Layout
<1>5. UpTo(0) /\ Clean(0)
  BY <1>2, <1>4 DEF UpTo, Clean
<1>6. 0 < At(0 + 1)
  <2> HIDE DEF N
  <2>1. 0 \in 0 .. (N - 1)
    BY <1>4
  <2>2. At(0) < At(0 + 1)
    BY <1>1, <2>1, MoreToCome
  <2>3. QED
    BY <1>4, <2>2
<1>7. InStep(0)
  BY <1>2, <1>5, <1>6 DEF InStep
<1> HIDE DEF N
<1>8. 0 \in 0 .. N
  BY <1>4
<1>9. QED
  BY <1>3, <1>7, <1>8 DEF HInv, Held

\* More of the stream.
LEMMA ReceiveHeld == ASSUME IInv, HInv, Receive PROVE HInv'
<1>1. pc = "idle" /\ pc' = "parse" /\ UNCHANGED <<script, dispatched>>
  BY DEF Receive
<1>2. PICK m \in Seq(Symbol) :
        /\ io' = io \o m /\ arrived' = arrived + Len(m)
        /\ \A j \in 1 .. Len(m) : m[j] = Stream[arrived + j]
  BY Taken
<1>3. io \in Seq(Symbol) /\ arrived \in Int
  BY DEF IInv
<1>4. /\ Len(io) \in Nat /\ Len(m) \in Nat /\ Len(io') = Len(io) + Len(m)
      /\ \A k \in 1 .. Len(io) + Len(m) :
           io'[k] = IF k <= Len(io) THEN io[k] ELSE m[k - Len(io)]
  <2>1. /\ Len(io \o m) = Len(io) + Len(m)
        /\ \A k \in 1 .. Len(io) + Len(m) :
             (io \o m)[k] = IF k <= Len(io) THEN io[k] ELSE m[k - Len(io)]
    BY <1>3, ConcatProperties
  <2>2. Len(io) \in Nat /\ Len(m) \in Nat
    BY <1>3
  <2> DEFINE c == io \o m
  <2>3. c = io'
    BY <1>2
  <2> HIDE DEF c
  <2>4. /\ Len(c) = Len(io) + Len(m)
        /\ \A k \in 1 .. Len(io) + Len(m) :
             c[k] = IF k <= Len(io) THEN io[k] ELSE m[k - Len(io)]
    BY <2>1 DEF c
  <2>5. QED
    BY <2>2, <2>3, <2>4
<1>5. PICK u \in 0 .. N : Held(u)
  BY <1>1 DEF HInv
<1>6. IsScript /\ N \in Nat \ {0} /\ \A i \in 0 .. N : At(i) \in Nat
  BY Layout DEF IInv
<1> HIDE DEF N
<1>7. N' = N /\ Stream' = Stream /\ At(u)' = At(u)
  BY <1>1, ScriptSame
<1>8. CASE InStep(u)
  <2>1. UpTo(u)'
    BY <1>1, <1>8, QuietKeeps DEF InStep
  <2>2. arrived = At(u) + Len(io) /\ \A k \in 1 .. Len(io) : io[k] = Stream[At(u) + k]
    BY <1>8 DEF InStep, Clean
  <2> DEFINE a == At(u)
  <2>3. a \in Nat
    BY <1>6
  <2> HIDE DEF a
  <2>4. ASSUME NEW k \in 1 .. Len(io') PROVE io'[k] = Stream[a + k]
    <3>1. CASE k <= Len(io)
      BY <1>4, <2>2, <3>1 DEF a
    <3>2. CASE ~(k <= Len(io))
      <4> DEFINE j == k - Len(io)
      <4>1. j \in 1 .. Len(m) /\ arrived + j = a + k
        BY <1>4, <2>2, <2>3, <3>2 DEF a
      <4>2. io'[k] = m[j]
        BY <1>4, <3>2
      <4> HIDE DEF j
      <4>3. m[j] = Stream[arrived + j]
        BY <1>2, <4>1
      <4>4. QED
        BY <4>1, <4>2, <4>3
    <3>3. QED
      BY <3>1, <3>2
  <2>5. arrived' = a + Len(io')
    BY <1>2, <1>4, <2>2, <2>3 DEF a
  <2>6. Clean(u)'
    BY <1>7, <2>4, <2>5 DEF Clean, a
  <2>7. InStep(u)'
    BY <1>1, <2>1, <2>6 DEF InStep
  <2>8. QED
    BY <1>1, <1>7, <2>7, QuietKeeps DEF HInv, Held
<1>9. CASE Stuck(u)
  <2>1. UpTo(u)'
    BY <1>1, <1>9, QuietKeeps DEF Stuck
  <2>2. Len(io) >= 3
    BY <1>9 DEF Stuck
  <2>3. Len(io') >= 3 /\ io'[1] = io[1] /\ io'[2] = io[2] /\ io'[3] = io[3]
    BY <1>4, <2>2
  <2>4. Stuck(u)'
    BY <1>1, <1>7, <1>9, <2>1, <2>3 DEF Stuck
  <2>5. QED
    BY <1>1, <1>7, <2>4, QuietKeeps DEF HInv, Held
<1>10. CASE Past(u)
  <2>1. Past(u)'
    BY <1>1, <1>10, QuietKeeps
  <2>2. QED
    BY <1>1, <1>7, <2>1, QuietKeeps DEF HInv, Held
<1>11. QED
  BY <1>5, <1>8, <1>9, <1>10 DEF Held

\* A step that leaves buffer, stream and requests alone; it may wait only when
\* no simple message is whole.
LEMMA QuietHeld ==
  ASSUME IInv, HInv, UNCHANGED <<script, arrived, io, dispatched>>,
         pc # "closed" => pc' # "closed",
         pc' = pc \/ \A u \in 0 .. (N - 1) :
                       Clean(u) /\ Simple(u + 1) => arrived < At(u + 1)
  PROVE  HInv' \/ pc = "closed"
<1> SUFFICES ASSUME pc # "closed" PROVE HInv'
  OBVIOUS
<1>1. PICK u \in 0 .. N : Held(u)
  BY DEF HInv
<1>2. IsScript /\ N \in Nat \ {0}
  BY Layout DEF IInv
<1> HIDE DEF N
<1>3. /\ N' = N /\ Stream' = Stream
      /\ \A i : At(i)' = At(i) /\ Simple(i)' = Simple(i)
  BY ScriptSame
<1>4. WholeByRecv'
  BY QuietKeeps DEF HInv
<1>5. CASE InStep(u)
  <2>1. UpTo(u)' /\ Clean(u) /\ Clean(u)'
    BY <1>3, <1>5, QuietKeeps DEF InStep, Clean
  <2>2. ASSUME pc' = "idle", u < N, \A j \in 1 .. (u + 1) : Simple(j)
        PROVE  arrived < At(u + 1)
    <3>1. CASE pc' = pc
      BY <1>5, <2>2, <3>1 DEF InStep
    <3>2. CASE pc' # pc
      <4>1. u \in 0 .. (N - 1) /\ u + 1 \in 1 .. (u + 1)
        BY <1>2, <2>2
      <4>2. QED
        BY <2>1, <2>2, <3>2, <4>1
    <3>3. QED
      BY <3>1, <3>2
  <2>3. InStep(u)'
    BY <1>3, <2>1, <2>2 DEF InStep
  <2>4. QED
    BY <1>3, <1>4, <2>3 DEF HInv, Held
<1>6. CASE Stuck(u)
  <2>1. UpTo(u)'
    BY <1>6, QuietKeeps DEF Stuck
  <2>2. Stuck(u)'
    BY <1>3, <1>6, <2>1 DEF Stuck
  <2>3. QED
    BY <1>3, <1>4, <2>2 DEF HInv, Held
<1>7. CASE Past(u)
  <2>1. Past(u)'
    BY <1>7, QuietKeeps
  <2>2. QED
    BY <1>3, <1>4, <2>1 DEF HInv, Held
<1>8. QED
  BY <1>1, <1>5, <1>6, <1>7 DEF Held

\* Not a request yet, or malformed: no simple message is whole.
LEMMA ParseFailsHeld == ASSUME IInv, HInv, ParseFails PROVE HInv'
<1>1. PICK len \in Parse(io) : len <= 0
  BY DEF ParseFails
<1>2. /\ pc = "parse" /\ pc' = "idle" /\ UNCHANGED <<script, arrived, io, dispatched>>
  BY DEF ParseFails
<1>3. ASSUME NEW u \in 0 .. (N - 1), Clean(u), Simple(u + 1)
      PROVE  arrived < At(u + 1)
  <2> DEFINE h == HeadLen(script[u + 1])
             l == Len(Symbols(u + 1))
             y == Len(io)
  <2>1. /\ u + 1 \in Nat /\ script[u + 1] \in AllKinds /\ At(u) \in Nat
        /\ At(u + 1) = At(u) + l
    <3>1. /\ u \in Nat /\ script[u + 1] \in AllKinds /\ At(u) \in Nat
          /\ At(u + 1) = At(u) + Len(Symbols(u + 1))
      BY <1>3, CleanIs
    <3>2. QED
      BY <3>1
  <2>2. l \in Nat /\ h \in Nat /\ 2 <= h /\ h <= l
    BY <2>1, SymbolsAre
  <2>3. \/ len = 0 /\ y < h
        \/ len = -1 /\ script[u + 1] = "bad"
        \/ len = h
    BY <1>3, CleanParse
  <2>4. script[u + 1] # "bad"
    BY <1>3 DEF Simple
  <2>5. arrived = At(u) + y /\ y \in Nat
    BY <1>3 DEF Clean, IInv
  <2> HIDE DEF h, l, y
  <2>6. y < h
    BY <1>1, <2>2, <2>3, <2>4
  <2>7. QED
    BY <2>1, <2>2, <2>5, <2>6
<1>4. HInv' \/ pc = "closed"
  BY <1>2, <1>3, QuietHeld
<1>5. QED
  BY <1>2, <1>4

\* The end of what was served, of the client's side, or nothing at all.
LEMMA OthersHeld ==
  ASSUME IInv, HInv, Served \/ ClientShuts \/ UNCHANGED vars
  PROVE  HInv'
<1>1. UNCHANGED <<script, arrived, io, dispatched, pc>>
  BY DEF Served, ClientShuts, vars
<1>2. HInv' \/ pc = "closed"
  BY <1>1, QuietHeld
<1>3. WholeByRecv'
  BY <1>1, QuietKeeps DEF HInv
<1>4. QED
  BY <1>1, <1>2, <1>3 DEF HInv

\* What MG_EV_CLOSE dispatches is not promised whole.
LEMMA CloseHeld == ASSUME IInv, IInv', HInv, Close PROVE HInv'
<1>1. PICK len \in Parse(io) :
        dispatched' = IF len <= 0
                        THEN dispatched
                        ELSE Append(dispatched,
                               [id |-> io[len].id, on |-> "close",
                                body |-> SubSeq(io, len + 1, Len(io))])
  BY DEF Close
<1>2. script' = script /\ pc' = "closed" /\ WholeByRecv
  BY DEF Close, HInv
<1>3. WholeByRecv'
  <2>1. CASE len <= 0
    BY <1>1, <1>2, <2>1, QuietKeeps
  <2>2. CASE ~(len <= 0)
    <3> DEFINE d == [id |-> io[len].id, on |-> "close",
                     body |-> SubSeq(io, len + 1, Len(io))]
    <3>1. dispatched' = Append(dispatched, d)
      BY <1>1, <2>2
    <3>2. RightBody(d)
      BY DEF RightBody
    <3> HIDE DEF d
    <3>3. QED
      BY <1>2, <3>1, <3>2, DispatchKeeps
  <2>3. QED
    BY <2>1, <2>2
<1>4. QED
  BY <1>2, <1>3 DEF HInv

\* Message u + 1 is dispatched and taken off the buffer.
LEMMA StepOn ==
  ASSUME IInv, IInv', WholeByRecv, NEW u \in 0 .. (N - 1), UpTo(u), Clean(u),
         Plain(u + 1), Len(Symbols(u + 1)) <= Len(io),
         UNCHANGED <<script, arrived>>, NEW d, d.id = u + 1, RightBody(d),
         dispatched' = Append(dispatched, d), io' = Drop(io, Len(Symbols(u + 1))),
         pc' = "idle" /\ Simple(u + 1) => io' = <<>>
  PROVE  HInv'
<1>1. /\ WholeByRecv' /\ d.id \in Ids' /\ UpTo(u)'
  BY DispatchKeeps
<1>2. Clean(u + 1)'
  BY CleanDrop
<1>3. IsScript /\ N \in Nat \ {0} /\ N' = N /\ u \in Nat
  BY Layout, ScriptSame DEF IInv
<1>4. UpTo(u + 1)'
  <2>1. Plain(u + 1)'
    BY ScriptSame
  <2>2. ASSUME NEW j \in 1 .. (u + 1) PROVE j \in Ids' /\ Plain(j)'
    <3>1. CASE j \in 1 .. u
      BY <1>1, <3>1 DEF UpTo
    <3>2. CASE j \notin 1 .. u
      <4>1. j = u + 1
        BY <1>3, <3>2
      <4>2. QED
        BY <1>1, <2>1, <4>1
    <3>3. QED
      BY <3>1, <3>2
  <2>3. QED
    BY <2>2 DEF UpTo
<1> DEFINE v == u + 1
<1>5. ASSUME pc' = "idle", v < N, \A j \in 1 .. (v + 1) : Simple(j)
      PROVE  arrived' < At(v + 1)
  <2>1. v \in 0 .. (N - 1) /\ u + 1 \in 1 .. (v + 1)
    <3> HIDE DEF N
    <3>1. QED
      BY <1>3, <1>5
  <2>2. io' = <<>>
    BY <1>5, <2>1
  <2>3. arrived' = At(v)' + Len(io') /\ At(v)' = At(v)
    BY <1>2, ScriptSame DEF Clean
  <2> HIDE DEF v
  <2>4. At(v) < At(v + 1) /\ At(v) \in Nat
    BY <1>3, <2>1, MoreToCome
  <2>5. Len(io') = 0
    BY <2>2
  <2>6. QED
    BY <2>3, <2>4, <2>5
<1>6. InStep(v)'
  <2>1. /\ UpTo(v)' /\ Clean(v)'
    BY <1>2, <1>4
  <2>2. \A i : At(i)' = At(i) /\ Simple(i)' = Simple(i)
    BY ScriptSame
  <2> HIDE DEF v, N
  <2>3. QED
    BY <1>3, <1>5, <2>1, <2>2 DEF InStep
<1>7. v \in 0 .. N'
  <2> HIDE DEF N
  <2>1. QED
    BY <1>3
<1> HIDE DEF v, N
<1>8. QED
  BY <1>1, <1>6, <1>7 DEF HInv, Held

\* A request with whole headers, in a buffer in step with the stream.
LEMMA RoundInStep ==
  ASSUME IInv, IInv', HInv, pc = "parse", pc' # "closed", UNCHANGED <<script, arrived>>,
         NEW u \in 0 .. (N - 1), UpTo(u), Clean(u),
         NEW len \in Parse(io), len > 0, NEW message \in Messages(len),
         Waits(len, message) \/ Goes(len, message)
  PROVE  HInv'
<1> DEFINE i == u + 1
           s == Symbols(i)
<1>1. /\ u \in Nat /\ i \in 1 .. N /\ i \in Nat /\ script[i] \in AllKinds
      /\ At(u) \in Nat /\ At(i) = At(u) + Len(s)
      /\ \A k \in 1 .. Len(io) : k <= Len(s) => io[k] = s[k]
  BY CleanIs
<1>2. /\ len = HeadLen(script[i]) /\ script[i] # "bad"
      /\ len <= Len(io) /\ io[len] = Sym(i, "end") /\ io[1].part = "line"
  <2>1. \/ len = 0
        \/ len = -1
        \/ /\ len = HeadLen(script[u + 1]) /\ script[u + 1] # "bad"
           /\ len <= Len(io) /\ io[len] = Sym(u + 1, "end") /\ io[1].part = "line"
    BY CleanParse
  <2> HIDE DEF N
  <2>2. QED
    BY <2>1
<1>3. io[len].id = i
  BY <1>2 DEF Sym
<1>4. /\ s \in Seq(Symbol) /\ Len(s) \in Nat /\ len \in Nat /\ 2 <= len
      /\ script[i] \notin {"post", "open", "chunked"} => Len(s) = len
      /\ script[i] = "post" => /\ Len(s) = 4 /\ s[3] = Sym(i, "body")
                               /\ s[4] = Sym(i, "body")
  BY <1>1, <1>2, SymbolsAre
<1>5. io \in Seq(Symbol) /\ Len(io) \in Nat
  BY DEF IInv
<1>6. arrived = At(u) + Len(io) /\ WholeByRecv
  BY DEF Clean, HInv
<1>7. /\ N \in Nat \ {0} /\ N' = N
      /\ \A j : Plain(j)' = Plain(j) /\ Simple(j)' = Simple(j) /\ At(j)' = At(j)
      /\ Stream' = Stream /\ IsScript
  BY Layout, ScriptSame DEF IInv
<1> HIDE DEF N, s, i
<1>8. u < N /\ u \in 0 .. N
  BY <1>1, <1>7
\* Nothing happens: the message is not whole, or none that is answered.
<1>9. ASSUME io' = io, dispatched' = dispatched,
             Simple(i) => arrived < At(i)
      PROVE  HInv'
  <2>1. Clean(u)' /\ UpTo(u)' /\ WholeByRecv'
    BY <1>6, <1>7, <1>9, QuietKeeps DEF Clean
  <2>2. i \in 1 .. (u + 1) /\ i = u + 1
    BY <1>1 DEF i
  <2>3. InStep(u)'
    BY <1>7, <1>9, <2>1, <2>2 DEF InStep
  <2>4. QED
    BY <1>7, <1>8, <2>1, <2>3 DEF HInv, Held
<1> DEFINE d == Request(len)
<1>10. d.id = i /\ d.on = "recv"
  BY <1>3 DEF Request
\* Without a body to wait for.
<1>11. CASE script[i] \in {"get", "file", "long"}
  <2>1. message = len /\ Buf(len) = io
    BY <1>3, <1>11 DEF Messages, MessageLens, MessageLen, Buf
  <2>2. Complete(len, Len(io))
    BY <1>2, <1>4 DEF Complete, Endless
  <2>3. Len(s) = len /\ Plain(i) /\ script[i] # "cgi"
    BY <1>4, <1>11 DEF Plain
  <2>4. /\ dispatched' = Append(dispatched, d) /\ io' = Drop(io, len)
        /\ pc' = "idle" /\ script[i] \in {"get", "post"} => io' = <<>>
    <3>1. Goes(len, message)
      BY <2>1, <2>2 DEF Waits
    <3> HIDE DEF d
    <3>2. QED
      BY <1>3, <2>1, <2>3, <3>1 DEF Goes, d
  <2>5. RightBody(d)
    BY <1>10, <1>11 DEF RightBody
  <2> HIDE DEF d
  <2>6. /\ Plain(u + 1) /\ Len(Symbols(u + 1)) <= Len(io) /\ d.id = u + 1
        /\ io' = Drop(io, Len(Symbols(u + 1)))
        /\ pc' = "idle" /\ Simple(u + 1) => io' = <<>>
    BY <1>2, <1>10, <2>3, <2>4 DEF i, s, Simple
  <2>7. u \in 0 .. (N - 1)
    BY <1>1, <1>7, <1>8
  <2>8. QED
    BY <1>6, <2>4, <2>5, <2>6, <2>7, StepOn
\* With one that is counted.
<1>12. CASE script[i] = "post"
  <2>1. message = len + 2 /\ Buf(len) = io /\ len = 2
    BY <1>2, <1>3, <1>12 DEF Messages, MessageLens, MessageLen, Buf, HeadLen
  <2>2. /\ Len(s) = 4 /\ s[3] = Sym(i, "body") /\ s[4] = Sym(i, "body")
    BY <1>4, <1>12
  <2>3. CASE Len(io) < 4
    <3>1. ~Complete(message, Len(io))
      BY <1>5, <2>1, <2>3 DEF Complete
    <3>2. Waits(len, message)
      BY <3>1 DEF Goes
    <3>3. io' = io /\ dispatched' = dispatched
      BY <2>1, <3>2 DEF Waits
    <3>4. arrived < At(i)
      BY <1>1, <1>5, <1>6, <2>2, <2>3
    <3>5. QED
      BY <1>9, <3>3, <3>4
  <2>4. CASE ~(Len(io) < 4)
    <3>1. Complete(4, Len(io)) /\ message = 4 /\ 4 <= Len(io)
      BY <1>5, <2>1, <2>4 DEF Complete, Endless
    <3>2. /\ dispatched' = Append(dispatched, d) /\ io' = Drop(io, 4)
          /\ pc' = "idle" /\ script[i] \in {"get", "post"} => io' = <<>>
      <4>1. Goes(len, message)
        BY <3>1 DEF Waits
      <4>2. script[i] # "cgi"
        BY <1>12
      <4> HIDE DEF d
      <4>3. QED
        BY <1>3, <2>1, <3>1, <4>1, <4>2 DEF Goes, d
    <3>3. d.body = SubSeq(io, len + 1, Len(io))
      BY <2>1 DEF Request
    <3> HIDE DEF d
    <3>4. IsPrefix(Payload(i), SubSeq(io, len + 1, Len(io)))
      <4> DEFINE p == Payload(i)
      <4>1. p = [j \in 1 .. 2 |-> [id |-> i, part |-> <<"body", "body">>[j]]]
        <5>1. Body("post") = <<"body", "body">> /\ DOMAIN <<"body", "body">> = 1 .. 2
          BY DEF Body
        <5>2. QED
          BY <1>12, <5>1 DEF Payload
      <4>2. p[1] = Sym(i, "body") /\ p[2] = Sym(i, "body")
        BY <4>1 DEF Sym
      <4>3. p \in Seq(Symbol) /\ Len(p) = 2
        <5>1. \A j \in 1 .. 2 : [id |-> i, part |-> <<"body", "body">>[j]] \in Symbol
          BY <1>1 DEF Symbol, Parts
        <5>2. QED
          BY <4>1, <5>1
      <4>4. io[3] = Sym(i, "body") /\ io[4] = Sym(i, "body")
        BY <1>1, <1>5, <2>2, <3>1
      <4> HIDE DEF p
      <4>5. p[1] = io[len + 1] /\ p[2] = io[len + 2] /\ len + 2 <= Len(io)
        BY <1>5, <2>1, <3>1, <4>2, <4>4
      <4>6. IsPrefix(p, SubSeq(io, len + 1, Len(io)))
        BY <1>4, <1>5, <4>3, <4>5, TwoOf
      <4>7. QED
        BY <4>6 DEF p
    <3>5. RightBody(d)
      BY <1>10, <3>3, <3>4 DEF RightBody
    <3>6. Plain(i)
      BY <1>12 DEF Plain
    <3>7. /\ Plain(u + 1) /\ Len(Symbols(u + 1)) <= Len(io) /\ d.id = u + 1
          /\ io' = Drop(io, Len(Symbols(u + 1)))
          /\ pc' = "idle" /\ Simple(u + 1) => io' = <<>>
      BY <1>10, <2>2, <3>1, <3>2, <3>6 DEF i, s, Simple
    <3>8. u \in 0 .. (N - 1)
      BY <1>1, <1>7, <1>8
    <3>9. QED
      BY <1>6, <3>2, <3>5, <3>7, <3>8, StepOn
  <2>5. QED
    BY <2>3, <2>4
\* With an endless one.
<1>13. CASE script[i] = "open"
  <2>1. message = Endless /\ Buf(len) = io
    BY <1>2, <1>3, <1>13 DEF Messages, MessageLens, MessageLen, Buf
  <2>2. Waits(len, message)
    BY <2>1 DEF Goes, Complete
  <2>3. io' = io /\ dispatched' = dispatched
    BY <2>1, <2>2 DEF Waits
  <2>4. ~Simple(i)
    BY <1>13 DEF Simple
  <2>5. QED
    BY <1>9, <2>3, <2>4
\* For a program, which takes all of the buffer.
<1>14. CASE script[i] = "cgi"
  <2>1. message = len
    BY <1>3, <1>14 DEF Messages, MessageLens, MessageLen
  <2>2. Complete(len, Len(io))
    BY <1>2, <1>4 DEF Complete, Endless
  <2>3. Goes(len, message)
    BY <2>1, <2>2 DEF Waits
  <2>4. RightBody(d)
    BY <1>10, <1>14 DEF RightBody
  <2>5. dispatched' = Append(dispatched, d)
    BY <2>3 DEF Goes
  <2> HIDE DEF d
  <2>6. WholeByRecv' /\ UpTo(u)' /\ d.id \in Ids'
    BY <1>6, <2>4, <2>5, DispatchKeeps
  <2>7. ~Plain(i)
    BY <1>14 DEF Plain
  <2>8. Past(u)'
    BY <1>7, <1>8, <1>10, <2>6, <2>7 DEF Past, i
  <2>9. QED
    BY <1>7, <1>8, <2>6, <2>8 DEF HInv, Held
\* In chunks: not one of them is there, some are, or all of them.
<1>15. CASE script[i] = "chunked"
  <2> DEFINE r == Reassembled(io, 2, 0)
  <2>1. len = 2
    BY <1>2, <1>15 DEF HeadLen
  <2>2. message = r.message /\ Buf(len) = r.buf
    BY <1>3, <1>15, <2>1 DEF Messages, Buf
  <2>3. Len(s) = 8
    BY <1>1, <1>15, SymbolsAre DEF s
  <2>4. /\ i \in Nat /\ 2 <= Len(io)
        /\ \A k \in 1 .. Len(io) : k <= 8 => io[k] = Symbols(i)[k]
    BY <1>1, <1>2, <1>5, <2>1, <2>3 DEF s
  <2> HIDE DEF r
  <2>5. \/ r.buf = io /\ r.message = Endless
        \/ /\ r.message = Endless /\ Len(r.buf) >= 3
           /\ r.buf[1] = io[1] /\ r.buf[2] = io[2] /\ r.buf[3].part = "piece"
        \/ /\ Len(io) >= 8 /\ r.message = Len(r.buf) /\ Len(r.buf) = Len(io) - 4
           /\ r.buf[3] = Sym(i, "piece") /\ r.buf[4] = Sym(i, "piece")
    BY <1>5, <1>15, <2>4, ChunksOf DEF r
  <2>6. ~Simple(i) /\ ~Plain(i)
    BY <1>15 DEF Simple, Plain
  <2>7. CASE r.buf = io /\ r.message = Endless
    <3>1. Waits(len, message)
      BY <2>2, <2>7 DEF Goes, Complete
    <3>2. io' = io /\ dispatched' = dispatched
      BY <2>2, <2>7, <3>1 DEF Waits
    <3>3. QED
      BY <1>9, <2>6, <3>2
  <2>8. CASE /\ r.message = Endless /\ Len(r.buf) >= 3
             /\ r.buf[1] = io[1] /\ r.buf[2] = io[2] /\ r.buf[3].part = "piece"
    <3>1. Waits(len, message)
      BY <2>2, <2>8 DEF Goes, Complete
    <3>2. io' = r.buf /\ dispatched' = dispatched
      BY <2>2, <3>1 DEF Waits
    <3>3. UpTo(u)' /\ WholeByRecv'
      BY <1>6, <3>2, QuietKeeps
    <3>4. /\ script[u + 1] = "chunked" /\ io'[1].part = "line"
          /\ io'[2] = Sym(u + 1, "end") /\ Len(io') >= 3 /\ io'[3].part = "piece"
      BY <1>2, <1>15, <2>1, <2>8, <3>2 DEF i
    <3>5. Stuck(u)'
      BY <1>7, <1>8, <3>3, <3>4 DEF Stuck
    <3>6. QED
      BY <1>7, <1>8, <3>3, <3>5 DEF HInv, Held
  <2>9. CASE /\ Len(io) >= 8 /\ r.message = Len(r.buf) /\ Len(r.buf) = Len(io) - 4
             /\ r.buf[3] = Sym(i, "piece") /\ r.buf[4] = Sym(i, "piece")
    <3>1. Complete(message, Len(io))
      <4> DEFINE l == Len(io)
                 m == message
      <4>1. m = Len(r.buf) /\ Len(r.buf) = l - 4 /\ l >= 8 /\ l \in Nat
        BY <1>5, <2>2, <2>9
      <4> HIDE DEF l, m
      <4>2. m # -1 /\ m <= l
        BY <4>1
      <4>3. QED
        BY <4>2 DEF Complete, Endless, l, m
    <3>2. Goes(len, message)
      BY <3>1 DEF Waits
    <3>3. dispatched' = Append(dispatched, d)
      BY <3>2 DEF Goes
    <3>4. d.body = SubSeq(r.buf, len + 1, Len(r.buf))
      BY <2>2 DEF Request
    <3> HIDE DEF d
    <3>5. IsPrefix(Payload(i), SubSeq(r.buf, len + 1, Len(r.buf)))
      <4> DEFINE p == Payload(i)
                 b == r.buf
      <4>1. p = [j \in 1 .. 2 |-> [id |-> i, part |-> <<"piece", "piece">>[j]]]
        <5>1. /\ Body("chunked") = <<"piece", "piece">>
              /\ DOMAIN <<"piece", "piece">> = 1 .. 2
          BY DEF Body
        <5>2. QED
          BY <1>15, <5>1 DEF Payload
      <4>2. p[1] = Sym(i, "piece") /\ p[2] = Sym(i, "piece")
        BY <4>1 DEF Sym
      <4>3. p \in Seq(Symbol) /\ Len(p) = 2
        <5>1. \A j \in 1 .. 2 : [id |-> i, part |-> <<"piece", "piece">>[j]] \in Symbol
          BY <1>1 DEF Symbol, Parts
        <5>2. QED
          BY <4>1, <5>1
      <4>4. b \in Seq(Symbol)
        <5>1. 2 \in 1 .. Len(io)
          BY <1>5, <2>9
        <5>2. PICK n, m : Collapsed(io, 2, n, m, b)
          BY <1>5, <5>1, ReassembledIs DEF r
        <5> HIDE DEF b
        <5>3. QED
          BY <5>2 DEF Collapsed
      <4>5. b[3] = Sym(i, "piece") /\ b[4] = Sym(i, "piece") /\ Len(b) = Len(io) - 4
        BY <2>9
      <4> HIDE DEF p, b
      <4>6. p[1] = b[len + 1] /\ p[2] = b[len + 2] /\ len + 2 <= Len(b)
        BY <1>5, <2>1, <2>9, <4>2, <4>5
      <4>7. IsPrefix(p, SubSeq(b, len + 1, Len(b)))
        BY <1>4, <4>3, <4>4, <4>6, TwoOf
      <4>8. QED
        BY <4>7 DEF p, b
    <3>6. RightBody(d)
      BY <1>10, <3>4, <3>5 DEF RightBody
    <3>7. WholeByRecv' /\ UpTo(u)' /\ d.id \in Ids'
      BY <1>6, <3>3, <3>6, DispatchKeeps
    <3>8. Past(u)'
      BY <1>7, <1>8, <1>10, <2>6, <3>7 DEF Past, i
    <3>9. QED
      BY <1>7, <1>8, <3>7, <3>8 DEF HInv, Held
  <2>10. QED
    BY <2>5, <2>7, <2>8, <2>9
\* With a negative Content-Length: some of it may stay, or all of it wait.
<1>16. CASE script[i] = "negative"
  <2>1. Buf(len) = io /\ ~Simple(i) /\ ~Plain(i)
    BY <1>3, <1>16 DEF Buf, Simple, Plain
  <2>2. CASE Waits(len, message)
    <3>1. io' = io /\ dispatched' = dispatched
      BY <2>1, <2>2 DEF Waits
    <3>2. QED
      BY <1>9, <2>1, <3>1
  <2>3. CASE Goes(len, message)
    <3>1. dispatched' = Append(dispatched, d)
      BY <2>3 DEF Goes
    <3>2. RightBody(d)
      BY <1>10, <1>16 DEF RightBody
    <3> HIDE DEF d
    <3>3. WholeByRecv' /\ UpTo(u)' /\ d.id \in Ids'
      BY <1>6, <3>1, <3>2, DispatchKeeps
    <3>4. Past(u)'
      BY <1>7, <1>8, <1>10, <2>1, <3>3 DEF Past, i
    <3>5. QED
      BY <1>7, <1>8, <3>3, <3>4 DEF HInv, Held
  <2>4. QED
    BY <2>2, <2>3
<1>17. QED
  BY <1>1, <1>2, <1>11, <1>12, <1>13, <1>14, <1>15, <1>16 DEF AllKinds

\* A message that lost a size line waits for ever.
LEMMA RoundStuck ==
  ASSUME IInv, HInv, pc' # "closed", UNCHANGED <<script, arrived>>,
         NEW u \in 0 .. N, Stuck(u),
         NEW len \in Parse(io), len > 0, NEW message \in Messages(len),
         Waits(len, message) \/ Goes(len, message)
  PROVE  HInv'
<1>1. /\ u < N /\ script[u + 1] = "chunked" /\ Len(io) >= 3 /\ io[1].part = "line"
      /\ io[2] = Sym(u + 1, "end") /\ io[3].part = "piece" /\ UpTo(u)
  BY DEF Stuck
<1>2. io \in Seq(Symbol) /\ Len(io) \in Nat
  BY DEF IInv
<1>3. io[2].part = "end" /\ io[2].id = u + 1
  BY <1>1 DEF Sym
<1>4. len = 2
  <2> DEFINE h == 2
  <2>1. /\ h \in 1 .. Len(io) /\ h # 1 /\ io[h].part = "end"
        /\ \A j \in 1 .. (h - 1) : io[j].part = "line"
    BY <1>1, <1>2, <1>3
  <2> HIDE DEF h
  <2>2. len = h \/ len = -1
    BY <1>2, <2>1, ParseAt
  <2>3. QED
    BY <2>2 DEF h
<1>5. Buf(len) = io /\ message = MessageLen(io, 2)
  BY <1>1, <1>2, <1>3, <1>4, ChunksLost DEF Buf, Messages
<1>6. MessageLen(io, 2) = Endless
  BY <1>1, <1>3 DEF MessageLen
<1>7. Waits(len, message)
  BY <1>5, <1>6 DEF Goes, Complete
<1>8. io' = io /\ dispatched' = dispatched
  BY <1>5, <1>7 DEF Waits
<1>9. UpTo(u)' /\ WholeByRecv'
  BY <1>1, <1>8, QuietKeeps DEF HInv
<1>10. N' = N
  BY ScriptSame
<1>11. Stuck(u)'
  BY <1>1, <1>8, <1>9, <1>10 DEF Stuck
<1> HIDE DEF N
<1>12. QED
  BY <1>9, <1>10, <1>11 DEF HInv, Held

\* Behind a message that may have swallowed others, or left some of its headers,
\* nothing is promised.
LEMMA RoundPast ==
  ASSUME IInv, IInv', HInv, pc' # "closed", UNCHANGED <<script, arrived>>,
         NEW u \in 0 .. N, Past(u),
         NEW len \in Parse(io), len > 0, NEW message \in Messages(len),
         Waits(len, message) \/ Goes(len, message)
  PROVE  HInv'
<1>1. N' = N /\ \A i : Plain(i)' = Plain(i)
  BY ScriptSame
<1>2. UpTo(u) /\ u < N /\ ~Plain(u + 1) /\ u + 1 \in Ids /\ WholeByRecv
  BY DEF Past, HInv
<1>3. N \in Nat
  BY Layout DEF IInv
<1> HIDE DEF N
<1>4. CASE Waits(len, message)
  <2>1. dispatched' = dispatched
    BY <1>4 DEF Waits
  <2>2. Past(u)' /\ WholeByRecv'
    BY <1>2, <2>1, QuietKeeps
  <2>3. QED
    BY <1>1, <2>2 DEF HInv, Held
<1>5. CASE Goes(len, message)
  <2> DEFINE d == Request(len)
  <2>1. dispatched' = Append(dispatched, d)
    BY <1>5 DEF Goes
  <2>2. d.id \in Nat
    <3>1. d.id = io[len].id
      BY DEF Request
    <3>2. len \in Ends(io) /\ io \in Seq(Symbol)
      BY ParseFirst DEF IInv
    <3>3. QED
      BY <3>1, <3>2, EndsIn
  <2> HIDE DEF d
  \* It is numbered higher than that message, or is that message once more.
  <2>3. RightBody(d)
    <3> SUFFICES ASSUME script[d.id] \in {"post", "chunked"},
                        \A j \in 1 .. (d.id - 1) : Plain(j)
                 PROVE  FALSE
      BY DEF RightBody
    <3>1. u + 1 < d.id
      BY <1>2, <2>1, LaterId DEF After
    <3>2. u + 1 \in 1 .. (d.id - 1)
      BY <1>3, <2>2, <3>1
    <3>3. QED
      BY <1>2, <3>2
  <2>4. WholeByRecv' /\ UpTo(u)' /\ u + 1 \in Ids'
    BY <1>2, <2>1, <2>3, DispatchKeeps
  <2>5. Past(u)'
    BY <1>1, <1>2, <2>4 DEF Past
  <2>6. QED
    BY <1>1, <2>4, <2>5 DEF HInv, Held
<1>6. QED
  BY <1>4, <1>5

\* One round of mg_http_handler's loop.
LEMMA ParseRequestHeld == ASSUME IInv, IInv', HInv, ParseRequest PROVE HInv'
<1>1. pc = "parse" /\ pc' # "closed" /\ UNCHANGED <<script, arrived>>
  BY Round
<1>2. PICK len \in Parse(io) : \E message \in Messages(len) :
        len > 0 /\ (Waits(len, message) \/ Goes(len, message))
  BY Round
<1>3. PICK message \in Messages(len) :
        len > 0 /\ (Waits(len, message) \/ Goes(len, message))
  BY <1>2
<1>4. PICK u \in 0 .. N : Held(u)
  BY <1>1 DEF HInv
<1>5. CASE InStep(u)
  <2>1. UpTo(u) /\ Clean(u)
    BY <1>5 DEF InStep
  <2>2. u # N
    <3> SUFFICES ASSUME u = N PROVE FALSE
      OBVIOUS
    <3>1. Clean(N)
      BY <2>1
    <3>2. Parse(io) = {0}
      BY <3>1, CleanEnd
    <3>3. QED
      BY <1>2, <3>2
  <2>3. u \in 0 .. (N - 1)
    <3>1. N \in Nat
      BY Layout DEF IInv
    <3> HIDE DEF N
    <3>2. QED
      BY <2>2, <3>1
  <2>4. QED
    BY <1>1, <1>3, <2>1, <2>3, RoundInStep
<1>6. CASE Stuck(u)
  BY <1>1, <1>3, <1>6, RoundStuck
<1>7. CASE Past(u)
  BY <1>1, <1>3, <1>7, RoundPast
<1>8. QED
  BY <1>4, <1>5, <1>6, <1>7 DEF Held

\* Every step keeps it.
LEMMA NextHeld == IInv /\ HInv /\ [Next]_vars => HInv'
<1> SUFFICES ASSUME IInv, HInv, [Next]_vars PROVE HInv'
  OBVIOUS
<1>1. IInv'
  BY NextInv
<1>2. QED
  BY <1>1, ReceiveHeld, ParseFailsHeld, ParseRequestHeld, OthersHeld, CloseHeld DEF Next

\* It holds throughout every behaviour.
LEMMA Following == SafeSpec => []HInv
<1>1. Init => HInv
  BY InitHeld
<1>2. IInv /\ HInv /\ [Next]_vars => HInv'
  BY NextHeld
<1>3. QED
  BY <1>1, <1>2, Invariance, PTL DEF SafeSpec

\* While nothing is being parsed, no request without a body or with a counted
\* one that has arrived whole waits for more to come, if all those before it are
\* of these kinds: for any script, however it is cut into pieces.
THEOREM DispatchesPromptly == SafeSpec => []PromptDispatch
<1>1. ASSUME IInv, HInv PROVE PromptDispatch
  <2> SUFFICES ASSUME pc = "idle", NEW i \in Sent, \A j \in 1 .. i : Simple(j),
                      WholeIn(i), i \notin Ids
               PROVE  FALSE
    BY DEF PromptDispatch, Simple
  <2>1. PICK u \in 0 .. N : Held(u)
    BY <1>1 DEF HInv
  <2>2. IsScript /\ N \in Nat \ {0} /\ i \in 1 .. N
    <3>1. IsScript
      BY <1>1 DEF IInv
    <3>2. PICK n \in Nat \ {0} : script \in [1 .. n -> AllKinds]
      BY <3>1 DEF IsScript
    <3>3. N = n /\ i \in 1 .. n
      BY <3>2 DEF N, Sent
    <3>4. QED
      BY <3>1, <3>2, <3>3
  <2>3. arrived >= At(i) /\ arrived \in Int
    <3>1. i # 0
      BY <2>2
    <3>2. QED
      BY <1>1, <3>1 DEF WholeIn, At, IInv
  <2>4. UpTo(u)
    BY <2>1 DEF Held, InStep, Stuck, Past
  <2>5. i \notin 1 .. u
    BY <2>4 DEF UpTo
  <2> HIDE DEF N
  <2>6. u < i /\ u + 1 \in 1 .. i /\ u < N /\ u \in 0 .. (N - 1)
    BY <2>2, <2>5
  <2>7. Simple(u + 1) /\ \A j \in 1 .. (u + 1) : Simple(j)
    BY <2>2, <2>6
  <2>8. ~Past(u) /\ ~Stuck(u)
    BY <2>7 DEF Past, Stuck, Simple, Plain
  <2>9. arrived < At(u + 1)
    BY <2>1, <2>6, <2>7, <2>8 DEF Held, InStep
  <2>10. At(u + 1) <= At(i) /\ At(u + 1) \in Nat /\ At(i) \in Nat
    <3>1. u + 1 \in 0 .. N /\ i \in 0 .. N /\ u + 1 <= i
      BY <2>2, <2>6
    <3>2. QED
      BY <2>2, <3>1, AtRises, Layout
  <2>11. QED
    BY <2>3, <2>9, <2>10
<1>2. QED
  BY <1>1, Invariance, Following, PTL

\* A request dispatched while the connection lives begins with the whole body
\* it announces, chunks reassembled, if no message before it can have swallowed
\* any of it or, with a negative Content-Length, left something before it: for
\* any script, however it is cut into pieces.
THEOREM BodiesAreWhole == SafeSpec => []WholeByRecv
<1>1. HInv => WholeByRecv
  BY DEF HInv
<1>2. QED
  BY <1>1, Following, PTL
=============================================================================
