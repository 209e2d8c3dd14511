----------------------------- MODULE MgText_proofs -----------------------------
(***************************************************************************)
(* Proofs about the algorithms on bytes, for every alphabet, size and word *)
(* length: buffers hold what was put into them (Mbuf), the last entry of   *)
(* an address list that covers an address decides (MgAcl), paths are       *)
(* normalised in place as on a stack (MgUri), names in messages are read   *)
(* as they were written, whatever pointers lead there (MgNames), pages are *)
(* sent with their directives carried out (MgSsi), and patterns match what *)
(* they mean (MgGlobs).                                                    *)
(***************************************************************************)
EXTENDS MgText, SequenceFacts

-----------------------------------------------------------------------------
(* Buffers.                                                                *)

\* The first len bytes of b's memory are x.
Holds(b, x) ==
  /\ b = [mem |-> b.mem, len |-> b.len]
  /\ b.mem \in Seq(Cell) /\ b.len \in Nat /\ b.len <= Len(b.mem)
  /\ x \in Seq(Byte) /\ Len(x) = b.len
  /\ \A k \in 1 .. b.len : b.mem[k] = x[k]

\* The invariant.
MbufInv == Holds(mbuf, bytes)

\* What is in memory after writing to it,
LEMMA CopyFacts ==
  ASSUME NEW mem \in Seq(Cell), NEW to \in Nat, NEW new \in Seq(Cell)
  PROVE  /\ Copy(mem, to, new) \in Seq(Cell) /\ Len(Copy(mem, to, new)) = Len(mem)
         /\ \A k \in 1 .. Len(mem) :
              Copy(mem, to, new)[k] =
                IF k \in to + 1 .. to + Len(new) THEN new[k - to] ELSE mem[k]
<1> DEFINE n == Len(mem)
           c == Copy(mem, to, new)
<1>1. n \in Nat /\ DOMAIN mem = 1 .. n /\ Len(new) \in Nat
      /\ (\A k \in 1 .. n : mem[k] \in Cell) /\ (\A k \in 1 .. Len(new) : new[k] \in Cell)
  OBVIOUS
<1>2. c = [k \in 1 .. n |-> IF k \in to + 1 .. to + Len(new) THEN new[k - to] ELSE mem[k]]
  BY <1>1 DEF Copy
<1> HIDE DEF n
<1>3. \A k \in to + 1 .. to + Len(new) : k - to \in 1 .. Len(new)
  BY <1>1
<1>4. \A k \in 1 .. n : c[k] \in Cell
  BY <1>1, <1>2, <1>3
<1>5. c \in [1 .. n -> Cell]
  BY <1>2, <1>4
<1> HIDE DEF c
<1>6. c \in Seq(Cell) /\ Len(c) = n
  BY <1>1, <1>5
<1>7. QED
  BY <1>2, <1>6 DEF c, n

\* and after asking for other memory.
LEMMA ReallocatedFacts ==
  ASSUME NEW mem \in Seq(Cell), NEW size \in Nat
  PROVE  /\ Reallocated(mem, size) \in Seq(Cell) /\ Len(Reallocated(mem, size)) = size
         /\ \A k \in 1 .. size : k <= Len(mem) => Reallocated(mem, size)[k] = mem[k]
<1> DEFINE c == Reallocated(mem, size)
<1>1. c = [k \in 1 .. size |-> IF k <= Len(mem) THEN mem[k] ELSE Garbage]
  BY DEF Reallocated
<1>2. \A k \in 1 .. size : c[k] \in Cell
  BY <1>1 DEF Cell
<1>3. c \in [1 .. size -> Cell]
  BY <1>1, <1>2
<1> HIDE DEF c
<1>4. c \in Seq(Cell) /\ Len(c) = size
  BY <1>3
<1>5. QED
  BY <1>1, <1>4 DEF c

\* mbuf_resize loses nothing, and what it allocates is as large as asked.
LEMMA ResizeHolds ==
  ASSUME NEW b, NEW x, Holds(b, x), NEW size \in Nat, NEW memory \in Memory
  PROVE  Holds(Resize(b, size, memory), x) /\ Resize(b, size, memory).len = b.len
<1>1. CASE Resize(b, size, memory) = b
  BY <1>1
<1>2. CASE /\ size > Len(b.mem) \/ size >= b.len
           /\ Resize(b, size, memory) = [b EXCEPT !.mem = Reallocated(b.mem, size)]
  <2> DEFINE m == Reallocated(b.mem, size)
             r == Resize(b, size, memory)
  <2>1. b.mem \in Seq(Cell) /\ b.len \in Nat /\ b.len <= Len(b.mem) /\ b.len <= size
    BY <1>2 DEF Holds
  <2>2. /\ m \in Seq(Cell) /\ Len(m) = size
        /\ \A k \in 1 .. size : k <= Len(b.mem) => m[k] = b.mem[k]
    BY <2>1, ReallocatedFacts
  <2>3. r = [mem |-> m, len |-> b.len]
    BY <1>2 DEF Holds
  <2> HIDE DEF m, r
  <2>4. r.mem = m /\ r.len = b.len /\ r = [mem |-> r.mem, len |-> r.len]
    BY <2>3
  <2>5. \A k \in 1 .. b.len : m[k] = b.mem[k]
    BY <2>1, <2>2
  <2>6. Holds(r, x)
    BY <2>1, <2>2, <2>4, <2>5 DEF Holds
  <2>7. QED
    BY <2>4, <2>6 DEF r
<1>3. QED
  BY <1>1, <1>2 DEF Resize

\* The move and the copy of mbuf_insert.
LEMMA OpenedFacts ==
  ASSUME NEW mem \in Seq(Cell), NEW new \in Seq(Byte), NEW len \in Nat,
         NEW off \in 0 .. len, len + Len(new) <= Len(mem)
  PROVE  /\ Opened(mem, off, len, new) \in Seq(Cell)
         /\ Len(Opened(mem, off, len, new)) = Len(mem)
         /\ \A k \in 1 .. (len + Len(new)) :
              Opened(mem, off, len, new)[k] =
                IF k <= off THEN mem[k]
                ELSE IF k <= off + Len(new) THEN new[k - off]
                ELSE mem[k - Len(new)]
<1> DEFINE n == Len(new)
           tail == SubSeq(mem, off + 1, len)
           moved == Copy(mem, off + n, tail)
           o == Copy(moved, off, new)
<1>1. n \in Nat /\ off \in Nat /\ off <= len /\ new \in Seq(Cell) /\ Len(mem) \in Nat
      /\ len + n <= Len(mem)
  BY DEF Cell
<1>2. /\ tail \in Seq(Cell) /\ Len(tail) = len - off
      /\ \A i \in 1 .. (len - off) : tail[i] = mem[off + i]
  <2>1. off + 1 \in 1 .. (Len(mem) + 1) /\ len \in off .. Len(mem)
        /\ \A i \in off + 1 .. len : mem[i] \in Cell
    BY <1>1
  <2>2. /\ tail \in Seq(Cell) /\ Len(tail) = len - (off + 1) + 1
        /\ \A i \in 1 .. (len - (off + 1) + 1) : tail[i] = mem[(off + 1) + i - 1]
    <3>1. off + 1 <= len + 1
      BY <1>1
    <3>2. QED
      BY <1>1, <2>1, <3>1, SubSeqProperties, SMTT(30)
  <2>3. QED
    BY <1>1, <2>2, SMTT(30)
<1> HIDE DEF tail
<1>3. off + n \in Nat
  BY <1>1
<1>4. /\ moved \in Seq(Cell) /\ Len(moved) = Len(mem)
      /\ \A k \in 1 .. Len(mem) :
           moved[k] = IF k \in (off + n) + 1 .. (off + n) + Len(tail)
                        THEN tail[k - (off + n)] ELSE mem[k]
  BY <1>2, <1>3, CopyFacts
<1> HIDE DEF moved
<1>5. /\ o \in Seq(Cell) /\ Len(o) = Len(mem)
      /\ \A k \in 1 .. Len(mem) :
           o[k] = IF k \in off + 1 .. off + n THEN new[k - off] ELSE moved[k]
  BY <1>1, <1>4, CopyFacts
<1> HIDE DEF n, o
<1>6. ASSUME NEW k \in 1 .. (len + n)
      PROVE  o[k] = IF k <= off THEN mem[k]
                    ELSE IF k <= off + n THEN new[k - off] ELSE mem[k - n]
  <2>0. k \in 1 .. Len(mem)
    BY <1>1
  <2>1. CASE k <= off
    <3>1. k \notin off + 1 .. off + n /\ k \notin (off + n) + 1 .. (off + n) + Len(tail)
      BY <1>1, <2>1
    <3>2. QED
      BY <1>4, <1>5, <2>0, <2>1, <3>1
  <2>2. CASE ~(k <= off) /\ k <= off + n
    BY <1>1, <1>5, <2>0, <2>2
  <2>3. CASE ~(k <= off) /\ ~(k <= off + n)
    <3> DEFINE j == k - (off + n)
    <3>1. j \in 1 .. (len - off) /\ off + j = k - n
      BY <1>1, <2>3
    <3>2. o[k] = moved[k] /\ moved[k] = tail[j]
      BY <1>1, <1>2, <1>4, <1>5, <2>0, <2>3
    <3> HIDE DEF j
    <3>3. QED
      BY <1>2, <2>3, <3>1, <3>2
  <2>4. QED
    BY <2>1, <2>2, <2>3
<1>7. o = Opened(mem, off, len, new)
  BY DEF o, moved, tail, Opened, n
<1>8. QED
  BY <1>5, <1>6, <1>7 DEF n

\* What x is with new put in behind off.
Spliced(x, off, new, y) ==
  /\ y \in Seq(Byte) /\ Len(y) = Len(x) + Len(new)
  /\ \A k \in 1 .. (Len(x) + Len(new)) :
       y[k] = IF k <= off THEN x[k]
              ELSE IF k <= off + Len(new) THEN new[k - off]
              ELSE x[k - Len(new)]

LEMMA SplicedIs ==
  ASSUME NEW x \in Seq(Byte), NEW new \in Seq(Byte), NEW off \in 0 .. Len(x)
  PROVE  Spliced(x, off, new, SubSeq(x, 1, off) \o new \o SubSeq(x, off + 1, Len(x)))
<1> DEFINE l == Len(x)
           n == Len(new)
           a == SubSeq(x, 1, off)
           c == SubSeq(x, off + 1, l)
<1>1. l \in Nat /\ n \in Nat /\ off \in Nat /\ off <= l
  OBVIOUS
<1>2. /\ a \in Seq(Byte) /\ Len(a) = off /\ \A i \in 1 .. off : a[i] = x[i]
  <2>1. \A i \in 1 .. off : x[i] \in Byte
    OBVIOUS
  <2>2. a = [i \in 1 .. off |-> x[i]]
    OBVIOUS
  <2>3. QED
    BY <1>1, <2>1, <2>2
<1>3. /\ c \in Seq(Byte) /\ Len(c) = l - off /\ \A i \in 1 .. (l - off) : c[i] = x[off + i]
  <2>1. \A i \in off + 1 .. l : x[i] \in Byte
    OBVIOUS
  <2>2. off + 1 <= l + 1
    BY <1>1
  <2>3. /\ c \in Seq(Byte) /\ Len(c) = l - (off + 1) + 1
        /\ \A i \in 1 .. (l - (off + 1) + 1) : c[i] = x[(off + 1) + i - 1]
    BY <1>1, <2>1, <2>2, SubSeqProperties, SMTT(30)
  <2>4. QED
    BY <1>1, <2>3
<1> HIDE DEF a, c
<1> DEFINE h == a \o new
<1>4. /\ h \in Seq(Byte) /\ Len(h) = off + n
      /\ \A i \in 1 .. (off + n) : h[i] = IF i <= off THEN a[i] ELSE new[i - off]
  <2>1. /\ h \in Seq(Byte) /\ Len(h) = Len(a) + Len(new)
        /\ \A i \in 1 .. Len(a) + Len(new) :
             h[i] = IF i <= Len(a) THEN a[i] ELSE new[i - Len(a)]
    BY <1>2, ConcatProperties, Zenon
  <2> HIDE DEF h
  <2>2. QED
    BY <1>2, <2>1
<1> HIDE DEF h
<1> DEFINE y == h \o c
<1>5. /\ y \in Seq(Byte) /\ Len(y) = (off + n) + (l - off)
      /\ \A i \in 1 .. ((off + n) + (l - off)) :
           y[i] = IF i <= off + n THEN h[i] ELSE c[i - (off + n)]
  <2>1. /\ y \in Seq(Byte) /\ Len(y) = Len(h) + Len(c)
        /\ \A i \in 1 .. Len(h) + Len(c) :
             y[i] = IF i <= Len(h) THEN h[i] ELSE c[i - Len(h)]
    BY <1>3, <1>4, ConcatProperties, Zenon
  <2> HIDE DEF y
  <2>2. QED
    BY <1>3, <1>4, <2>1
<1> HIDE DEF y, l, n
<1>6. (off + n) + (l - off) = l + n
  BY <1>1
<1>7. ASSUME NEW k \in 1 .. (l + n)
      PROVE  y[k] = IF k <= off THEN x[k]
                    ELSE IF k <= off + n THEN new[k - off] ELSE x[k - n]
  <2>1. CASE k <= off + n
    <3>1. k \in 1 .. (off + n) /\ (k <= off => k \in 1 .. off)
      BY <1>1, <2>1
    <3>2. QED
      BY <1>2, <1>4, <1>5, <1>6, <2>1, <3>1
  <2>2. CASE ~(k <= off + n)
    <3> DEFINE j == k - (off + n)
    <3>1. j \in 1 .. (l - off) /\ off + j = k - n /\ ~(k <= off)
      BY <1>1, <2>2
    <3>2. y[k] = c[j]
      BY <1>5, <1>6, <2>2
    <3> HIDE DEF j
    <3>3. QED
      BY <1>3, <2>2, <3>1, <3>2
  <2>3. QED
    BY <2>1, <2>2
<1>8. y = SubSeq(x, 1, off) \o new \o SubSeq(x, off + 1, Len(x))
  BY DEF y, h, a, c, l
<1>9. QED
  BY <1>5, <1>6, <1>7, <1>8 DEF Spliced, l, n

\* mbuf_insert puts in what it says it does.
LEMMA InsertHolds ==
  ASSUME NEW b, NEW x, Holds(b, x), NEW off \in 0 .. b.len,
         NEW new \in Pieces, NEW memory \in Memory
  PROVE  LET r == Insert(b, off, new, memory)
             got == r.len - b.len
         IN Holds(r, SubSeq(x, 1, off) \o SubSeq(new, 1, got)
                       \o SubSeq(x, off + 1, Len(x)))
<1> DEFINE r == Insert(b, off, new, memory)
           got == r.len - b.len
           y == SubSeq(x, 1, off) \o SubSeq(new, 1, got) \o SubSeq(x, off + 1, Len(x))
           n == Len(new)
           need == b.len + n
<1>1. new \in Seq(Byte) /\ n \in Nat
  BY MbufAssumption DEF Pieces
<1>2. /\ b = [mem |-> b.mem, len |-> b.len]
      /\ b.mem \in Seq(Cell) /\ b.len \in Nat /\ b.len <= Len(b.mem)
      /\ x \in Seq(Byte) /\ Len(x) = b.len
      /\ \A k \in 1 .. b.len : b.mem[k] = x[k]
      /\ Len(b.mem) \in Nat
  BY DEF Holds
<1>3. CASE r = b
  <2>1. got = 0
    BY <1>2, <1>3
  <2> DEFINE e == SubSeq(new, 1, 0)
  <2>2. e \in Seq(Byte) /\ Len(e) = 0
    BY <1>1
  <2>3. y = SubSeq(x, 1, off) \o e \o SubSeq(x, off + 1, Len(x))
    BY <2>1
  <2> HIDE DEF e, y
  <2>4. Spliced(x, off, e, y)
    BY <1>2, <2>2, <2>3, SplicedIs
  <2>5. /\ y \in Seq(Byte) /\ Len(y) = b.len
        /\ \A k \in 1 .. b.len : y[k] = x[k]
    BY <1>2, <2>2, <2>4 DEF Spliced
  <2>6. Holds(b, y)
    BY <1>2, <2>5 DEF Holds
  <2>7. QED
    BY <1>3, <2>6 DEF y
<1>4. ASSUME NEW room \in Seq(Cell), need <= Len(room),
             \A k \in 1 .. b.len : room[k] = b.mem[k],
             r = [mem |-> Opened(room, off, b.len, new), len |-> need]
      PROVE  Holds(r, y)
  <2>1. got = n /\ off \in Nat /\ off <= b.len /\ need \in Nat
    BY <1>1, <1>2, <1>4
  <2>2. SubSeq(new, 1, got) = new
    BY <1>1, <2>1
  <2>3. y = SubSeq(x, 1, off) \o new \o SubSeq(x, off + 1, Len(x))
    BY <2>2
  <2> DEFINE m == Opened(room, off, b.len, new)
  <2>4. r.mem = m /\ r.len = need /\ r = [mem |-> r.mem, len |-> r.len]
    BY <1>4
  <2> HIDE DEF y, r, got
  <2>5. Spliced(x, off, new, y)
    BY <1>1, <1>2, <2>3, SplicedIs
  <2>6. /\ m \in Seq(Cell) /\ Len(m) = Len(room)
        /\ \A k \in 1 .. (b.len + Len(new)) :
             m[k] = IF k <= off THEN room[k]
                    ELSE IF k <= off + Len(new) THEN new[k - off]
                    ELSE room[k - Len(new)]
    BY <1>1, <1>2, <1>4, OpenedFacts
  <2> HIDE DEF m
  <2>7. ASSUME NEW k \in 1 .. need PROVE m[k] = y[k]
    <3>1. /\ m[k] = IF k <= off THEN room[k]
                    ELSE IF k <= off + n THEN new[k - off] ELSE room[k - n]
          /\ y[k] = IF k <= off THEN x[k]
                    ELSE IF k <= off + n THEN new[k - off] ELSE x[k - n]
      BY <1>2, <2>5, <2>6 DEF Spliced
    <3>2. /\ k <= off => k \in 1 .. b.len
          /\ ~(k <= off) /\ ~(k <= off + n) => k - n \in 1 .. b.len
      BY <1>1, <1>2, <2>1
    <3> HIDE DEF n
    <3>3. QED
      BY <1>2, <1>4, <3>1, <3>2
  <2>8. y \in Seq(Byte) /\ Len(y) = need
    BY <1>2, <2>5 DEF Spliced
  <2> HIDE DEF need
  <2>9. QED
    BY <1>4, <2>1, <2>4, <2>6, <2>7, <2>8 DEF Holds
<1> HIDE DEF y
<1>5. CASE need <= Len(b.mem)
  <2>1. r = [mem |-> Opened(b.mem, off, b.len, new), len |-> need]
    BY <1>1, <1>2, <1>5 DEF Insert
  <2>2. Holds(r, y)
    BY <1>2, <1>4, <1>5, <2>1
  <2>3. QED
    BY <2>2 DEF y
<1>6. CASE ~(need <= Len(b.mem)) /\ memory # "none"
  <2> DEFINE size == IF memory = "tight" THEN need ELSE Generous(need)
             room == Reallocated(b.mem, size)
  <2>1. size \in Nat /\ need <= size
    <3>1. need \in Nat /\ need \div 2 \in Nat /\ MaxRoom \in Nat
      BY <1>1, <1>2, MbufAssumption
    <3> HIDE DEF need
    <3>2. QED
      BY <3>1 DEF Generous
  <2> HIDE DEF size
  <2>2. /\ room \in Seq(Cell) /\ Len(room) = size
        /\ \A k \in 1 .. size : k <= Len(b.mem) => room[k] = b.mem[k]
    BY <1>2, <2>1, ReallocatedFacts
  <2>3. r = [mem |-> Opened(room, off, b.len, new), len |-> need]
    BY <1>1, <1>2, <1>6 DEF Insert, size
  <2> HIDE DEF room
  <2>4. \A k \in 1 .. b.len : room[k] = b.mem[k]
    BY <1>1, <1>2, <2>1, <2>2
  <2>5. Holds(r, y)
    BY <1>4, <2>1, <2>2, <2>3, <2>4
  <2>6. QED
    BY <2>5 DEF y
<1>7. CASE ~(need <= Len(b.mem)) /\ memory = "none"
  <2>1. r = b
    BY <1>1, <1>2, <1>7 DEF Insert
  <2>2. QED
    BY <1>3, <2>1
<1>8. QED
  BY <1>5, <1>6, <1>7

\* mbuf_remove takes off the first bytes.
LEMMA DropHolds ==
  ASSUME NEW b, NEW x, Holds(b, x), NEW n \in 0 .. b.len
  PROVE  Holds(Drop(b, n), SubSeq(x, n + 1, Len(x)))
<1> DEFINE y == SubSeq(x, n + 1, Len(x))
           tail == SubSeq(b.mem, n + 1, b.len)
           m == Copy(b.mem, 0, tail)
           r == Drop(b, n)
<1>1. /\ b = [mem |-> b.mem, len |-> b.len]
      /\ b.mem \in Seq(Cell) /\ b.len \in Nat /\ b.len <= Len(b.mem)
      /\ x \in Seq(Byte) /\ Len(x) = b.len /\ Len(b.mem) \in Nat
      /\ \A k \in 1 .. b.len : b.mem[k] = x[k]
      /\ n \in Nat /\ n <= b.len
  BY DEF Holds
<1>2. CASE n = 0
  <2>1. r = b
    BY <1>2 DEF Drop
  <2>2. y = x
    BY <1>1, <1>2
  <2>3. QED
    BY <2>1, <2>2
<1>3. CASE n # 0
  <2>1. r = [mem |-> m, len |-> b.len - n]
    BY <1>1, <1>3 DEF Drop
  <2>2. /\ y \in Seq(Byte) /\ Len(y) = b.len - n
        /\ \A i \in 1 .. (b.len - n) : y[i] = x[n + i]
    <3>1. (\A i \in n + 1 .. b.len : x[i] \in Byte) /\ n + 1 <= b.len + 1
      BY <1>1
    <3>2. /\ y \in Seq(Byte) /\ Len(y) = b.len - (n + 1) + 1
          /\ \A i \in 1 .. (b.len - (n + 1) + 1) : y[i] = x[(n + 1) + i - 1]
      BY <1>1, <3>1, SubSeqProperties, SMTT(30)
    <3> HIDE DEF y
    <3>3. /\ b.len - (n + 1) + 1 = b.len - n
          /\ \A i \in 1 .. (b.len - n) : (n + 1) + i - 1 = n + i
      BY <1>1
    <3>4. QED
      BY <3>2, <3>3, Zenon
  <2>3. /\ tail \in Seq(Cell) /\ Len(tail) = b.len - n
        /\ \A i \in 1 .. (b.len - n) : tail[i] = b.mem[n + i]
    <3>1. (\A i \in n + 1 .. b.len : b.mem[i] \in Cell) /\ n + 1 <= b.len + 1
      BY <1>1
    <3>2. /\ tail \in Seq(Cell) /\ Len(tail) = b.len - (n + 1) + 1
          /\ \A i \in 1 .. (b.len - (n + 1) + 1) : tail[i] = b.mem[(n + 1) + i - 1]
      BY <1>1, <3>1, SubSeqProperties, SMTT(30)
    <3> HIDE DEF tail
    <3>3. /\ b.len - (n + 1) + 1 = b.len - n
          /\ \A i \in 1 .. (b.len - n) : (n + 1) + i - 1 = n + i
      BY <1>1
    <3>4. QED
      BY <3>2, <3>3, Zenon
  <2> HIDE DEF y, tail
  <2>4. /\ m \in Seq(Cell) /\ Len(m) = Len(b.mem)
        /\ \A k \in 1 .. Len(b.mem) :
             m[k] = IF k \in 0 + 1 .. 0 + Len(tail) THEN tail[k - 0] ELSE b.mem[k]
    <3>1. 0 \in Nat /\ b.mem \in Seq(Cell) /\ tail \in Seq(Cell)
      BY <1>1, <2>3
    <3>2. QED
      BY <3>1, CopyFacts, ZenonT(30)
  <2>5. r.mem = m /\ r.len = b.len - n /\ r = [mem |-> r.mem, len |-> r.len]
    BY <2>1
  <2> HIDE DEF m, r
  <2>6. ASSUME NEW k \in 1 .. (b.len - n) PROVE m[k] = y[k]
    <3>1. k \in 1 .. Len(b.mem) /\ n + k \in 1 .. b.len /\ k - 0 = k
          /\ k \in 0 + 1 .. 0 + Len(tail)
      BY <1>1, <2>3
    <3>2. m[k] = tail[k]
      BY <2>4, <3>1
    <3>3. QED
      BY <1>1, <2>2, <2>3, <3>1, <3>2
  <2>7. Holds(r, y)
    BY <1>1, <2>2, <2>4, <2>5, <2>6 DEF Holds
  <2>8. QED
    BY <2>7 DEF r, y
<1>4. QED
  BY <1>2, <1>3

\* mg_do_recv adds what it reads.
LEMMA ReceiveHolds ==
  ASSUME NEW b, NEW x, Holds(b, x), NEW new \in Pieces,
         Len(new) <= Len(b.mem) - b.len
  PROVE  Holds(Receive(b, new), x \o new)
<1> DEFINE n == Len(new)
           m == Copy(b.mem, b.len, new)
           y == x \o new
           r == Receive(b, new)
<1>1. /\ b.mem \in Seq(Cell) /\ b.len \in Nat /\ b.len <= Len(b.mem)
      /\ x \in Seq(Byte) /\ Len(x) = b.len /\ Len(b.mem) \in Nat
      /\ \A k \in 1 .. b.len : b.mem[k] = x[k]
  BY DEF Holds
<1>2. new \in Seq(Byte) /\ new \in Seq(Cell) /\ n \in Nat /\ b.len + n <= Len(b.mem)
  <2>1. new \in Seq(Byte)
    BY MbufAssumption DEF Pieces
  <2>2. new \in Seq(Cell) /\ n \in Nat
    BY <2>1 DEF Cell
  <2>3. n <= Len(b.mem) - b.len
    OBVIOUS
  <2> HIDE DEF n
  <2>4. QED
    BY <1>1, <2>1, <2>2, <2>3
<1>3. r = [mem |-> m, len |-> b.len + n]
  BY DEF Receive
<1>4. /\ m \in Seq(Cell) /\ Len(m) = Len(b.mem)
      /\ \A k \in 1 .. Len(b.mem) :
           m[k] = IF k \in b.len + 1 .. b.len + n THEN new[k - b.len] ELSE b.mem[k]
  <2>1. b.mem \in Seq(Cell) /\ b.len \in Nat /\ new \in Seq(Cell)
    BY <1>1, <1>2
  <2>2. QED
    BY <2>1, CopyFacts, Zenon
<1>5. /\ y \in Seq(Byte) /\ Len(y) = Len(x) + Len(new)
      /\ \A i \in 1 .. Len(x) + Len(new) :
           y[i] = IF i <= Len(x) THEN x[i] ELSE new[i - Len(x)]
  <2>1. x \in Seq(Byte) /\ new \in Seq(Byte)
    BY <1>1, <1>2
  <2>2. QED
    BY <2>1, ConcatProperties, Zenon
<1>6. r.mem = m /\ r.len = b.len + n /\ r = [mem |-> r.mem, len |-> r.len]
  BY <1>3
<1> HIDE DEF m, y, r
<1>7. ASSUME NEW k \in 1 .. (b.len + n) PROVE m[k] = y[k]
  <2>1. k \in 1 .. Len(b.mem) /\ (k <= b.len => k \in 1 .. b.len)
        /\ (k <= b.len <=> k \notin b.len + 1 .. b.len + n)
    BY <1>1, <1>2
  <2>2. y[k] = IF k <= b.len THEN x[k] ELSE new[k - b.len]
    BY <1>1, <1>5
  <2> HIDE DEF n
  <2>3. QED
    BY <1>1, <1>4, <2>1, <2>2
<1>8. Holds(r, y)
  BY <1>1, <1>2, <1>4, <1>5, <1>6, <1>7 DEF Holds
<1>9. QED
  BY <1>8 DEF r, y

\* Every call keeps it.
LEMMA MbufNextInv ==
  ASSUME MbufInv, [MbufNext]_mbufVars
  PROVE  MbufInv'
<1>0. mbuf.len \in Nat /\ Len(bytes) = mbuf.len
  BY DEF MbufInv, Holds
<1>1. CASE MbufInsert
  <2>1. PICK off \in 0 .. mbuf.len, new \in Pieces, memory \in Memory :
          LET result == Insert(mbuf, off, new, memory)
              returned == result.len - mbuf.len
          IN /\ mbuf' = result
             /\ bytes' = SubSeq(bytes, 1, off) \o SubSeq(new, 1, returned)
                           \o SubSeq(bytes, off + 1, Len(bytes))
    BY <1>1 DEF MbufInsert
  <2>2. LET result == Insert(mbuf, off, new, memory)
            returned == result.len - mbuf.len
        IN Holds(result, SubSeq(bytes, 1, off) \o SubSeq(new, 1, returned)
                           \o SubSeq(bytes, off + 1, Len(bytes)))
    BY InsertHolds DEF MbufInv
  <2>3. QED
    BY <2>1, <2>2, Zenon DEF MbufInv
<1>2. CASE MbufRemove
  <2>1. PICK n \in 0 .. mbuf.len : /\ mbuf' = Drop(mbuf, n)
                                   /\ bytes' = SubSeq(bytes, n + 1, Len(bytes))
    BY <1>2 DEF MbufRemove
  <2>2. Holds(Drop(mbuf, n), SubSeq(bytes, n + 1, Len(bytes)))
    BY DropHolds DEF MbufInv
  <2>3. QED
    BY <2>1, <2>2, Zenon DEF MbufInv
<1>3. CASE MbufTrim
  <2>1. PICK memory \in Memory : mbuf' = Trim(mbuf, memory)
    BY <1>3 DEF MbufTrim
  <2>2. Holds(Trim(mbuf, memory), bytes)
    BY <1>0, ResizeHolds DEF MbufInv, Trim
  <2>3. bytes' = bytes
    BY <1>3 DEF MbufTrim
  <2>4. QED
    BY <2>1, <2>2, <2>3, Zenon DEF MbufInv
<1>4. CASE MbufReceive
  <2> DEFINE Room(io, first) ==
               IF Len(mbuf.mem) < mbuf.len + io THEN Resize(mbuf, mbuf.len + io, first)
                                                ELSE mbuf
  <2>1. PICK io \in 1 .. IoSize, first \in Memory, second \in Memory, new \in Pieces :
          /\ Len(new) <= Len(Room(io, first).mem) - mbuf.len
          /\ mbuf' = Trim(Receive(Room(io, first), new), second)
          /\ bytes' = bytes \o new
    BY <1>4 DEF MbufReceive
  <2> DEFINE wanted == mbuf.len + io
             held == Room(io, first)
  <2>2. wanted \in Nat
    BY <1>0, MbufAssumption
  <2>3. Holds(held, bytes) /\ held.len = mbuf.len
    <3>1. Holds(mbuf, bytes)
      BY DEF MbufInv
    <3>2. held = mbuf \/ held = Resize(mbuf, wanted, first)
      OBVIOUS
    <3> HIDE DEF wanted, held
    <3>3. CASE held = mbuf
      BY <3>1, <3>3
    <3>4. CASE held = Resize(mbuf, wanted, first)
      <4>1. /\ Holds(Resize(mbuf, wanted, first), bytes)
            /\ Resize(mbuf, wanted, first).len = mbuf.len
        BY <2>2, <3>1, ResizeHolds
      <4>2. QED
        BY <3>4, <4>1, Zenon
    <3>5. QED
      BY <3>2, <3>3, <3>4
  <2> DEFINE filled == Receive(held, new)
  <2>4. Holds(filled, bytes \o new)
    <3>1. Len(new) <= Len(held.mem) - held.len
      BY <2>1, <2>3
    <3> HIDE DEF held
    <3>2. QED
      BY <2>3, <3>1, ReceiveHolds DEF held
  <2>5. mbuf' = Trim(filled, second)
    BY <2>1
  <2> HIDE DEF filled
  <2>6. filled.len \in Nat
    BY <2>4 DEF Holds
  <2>7. Holds(Trim(filled, second), bytes \o new)
    BY <2>4, <2>6, ResizeHolds DEF Trim
  <2>8. QED
    BY <2>1, <2>5, <2>7, Zenon DEF MbufInv
<1>5. CASE UNCHANGED mbufVars
  BY <1>5 DEF MbufInv, mbufVars
<1>6. QED
  BY <1>1, <1>2, <1>3, <1>4, <1>5 DEF MbufNext

\* A buffer holds what was put in and not removed, for any bytes, any pieces
\* and any number of calls.
THEOREM BuffersHold == MbufSpec => []BufferHoldsAll
<1>1. MbufInit => MbufInv
  <2> SUFFICES ASSUME MbufInit PROVE MbufInv
    OBVIOUS
  <2>1. mbuf = [mem |-> <<>>, len |-> 0] /\ bytes = <<>>
    BY DEF MbufInit
  <2>2. mbuf.mem = <<>> /\ mbuf.len = 0 /\ mbuf = [mem |-> mbuf.mem, len |-> mbuf.len]
    BY <2>1
  <2>3. QED
    BY <2>1, <2>2 DEF MbufInv, Holds
<1>2. MbufInv /\ [MbufNext]_mbufVars => MbufInv'
  BY MbufNextInv
<1>3. MbufInv => BufferHoldsAll
  <2> SUFFICES ASSUME MbufInv PROVE BufferHoldsAll
    OBVIOUS
  <2> DEFINE m == mbuf.mem
             n == mbuf.len
  <2>1. /\ m \in Seq(Cell) /\ n \in Nat /\ n <= Len(m)
        /\ bytes \in Seq(Byte) /\ Len(bytes) = n
        /\ \A k \in 1 .. n : m[k] = bytes[k]
    BY DEF MbufInv, Holds
  <2> HIDE DEF m, n
  <2>2. SubSeq(m, 1, n) = [k \in 1 .. n |-> m[k]] /\ bytes = [k \in 1 .. n |-> bytes[k]]
    BY <2>1
  <2>3. SubSeq(m, 1, n) = bytes
    <3>1. [k \in 1 .. n |-> m[k]] = [k \in 1 .. n |-> bytes[k]]
      BY <2>1
    <3>2. QED
      BY <2>2, <3>1
  <2>4. QED
    BY <2>1, <2>3 DEF BufferHoldsAll, m, n
<1>4. QED
  BY <1>1, <1>2, <1>3, PTL DEF MbufSpec

-----------------------------------------------------------------------------
(* Address lists.                                                          *)

\* The entries checked so far have decided.
AclInv == /\ at \in Int /\ -1 <= at /\ at <= Len(acl)
          /\ acl \in Seq(Entries) /\ ip \in Word
          /\ LastMatchWins

\* A mask has ones where the network counts.
LEMMA MaskIs ==
  ASSUME NEW slash \in 0 .. Bits
  PROVE  Mask(slash) = [i \in 1 .. Bits |-> IF i <= slash THEN 1 ELSE 0]
<1>1. CASE slash = 0
  BY <1>1, MgAclAssumption DEF Mask, Zero
<1>2. CASE slash # 0
  <2>1. Mask(slash) = Shifted(Ones, Bits - slash)
    BY <1>2 DEF Mask
  <2>2. ASSUME NEW i \in 1 .. Bits
        PROVE  Shifted(Ones, Bits - slash)[i] = IF i <= slash THEN 1 ELSE 0
    BY MgAclAssumption DEF Shifted, Ones
  <2>3. QED
    BY <2>1, <2>2 DEF Shifted
<1>3. QED
  BY <1>1, <1>2

\* The comparison of mg_check_ip_acl asks whether an entry is for an address.
LEMMA MatchIsCover ==
  ASSUME NEW entry \in Entries, entry.slash # -1, NEW addr \in Word
  PROVE  entry.net = And(addr, Mask(entry.slash)) <=> Covers(entry, addr)
<1>1. entry.slash \in 0 .. Bits /\ entry.net \in Word
  BY MgAclAssumption DEF Entries
<1> DEFINE n == entry.slash
           net == entry.net
           masked == And(addr, Mask(n))
<1>2. /\ masked = [i \in 1 .. Bits |-> masked[i]]
      /\ \A i \in 1 .. Bits : masked[i] = IF i <= n THEN addr[i] ELSE 0
  <2>1. \A i \in 1 .. Bits : Mask(n)[i] = IF i <= n THEN 1 ELSE 0
    BY <1>1, MaskIs
  <2>2. \A i \in 1 .. Bits : addr[i] \in {0, 1}
    BY DEF Word
  <2>3. QED
    BY <2>1, <2>2 DEF And
<1>3. net = [i \in 1 .. Bits |-> net[i]]
  BY <1>1 DEF Word
<1>4. Covers(entry, addr) <=> \A i \in 1 .. Bits : net[i] = masked[i]
  <2>1. \A i : (i \in 1 .. n \/ i \in n + 1 .. Bits) <=> i \in 1 .. Bits
    BY <1>1, MgAclAssumption
  <2>2. \A i \in 1 .. n : i <= n
    BY <1>1
  <2>3. \A i \in n + 1 .. Bits : ~(i <= n)
    BY <1>1, MgAclAssumption
  <2> HIDE DEF n, net, masked
  <2>4. Covers(entry, addr) <=> /\ \A i \in 1 .. n : net[i] = addr[i]
                                /\ \A i \in n + 1 .. Bits : net[i] = 0
    BY DEF Covers, n, net
  <2>5. QED
    BY <1>2, <2>1, <2>2, <2>3, <2>4
<1> HIDE DEF n, net, masked
<1>5. net = masked <=> \A i \in 1 .. Bits : net[i] = masked[i]
  BY <1>2, <1>3, Zenon
<1>6. QED
  BY <1>4, <1>5 DEF n, net, masked

\* A round of the loop: the entry it is at decides, if it can be read and is
\* for the address, and otherwise what was decided stands.
LEMMA CheckEntryInv ==
  ASSUME AclInv, CheckEntry
  PROVE  AclInv'
<1> DEFINE n == at + 1
           entry == acl[n]
           covering == {k \in 1 .. at : Covers(acl[k], ip)}
           covering2 == {k \in 1 .. n : Covers(acl[k], ip)}
<1>1. /\ at \in Nat /\ n \in 1 .. Len(acl) /\ at' = n /\ acl' = acl /\ ip' = ip
      /\ allowed # "malformed" /\ entry \in Entries /\ Len(acl) \in Nat
      /\ \A k : k \in 1 .. n <=> k \in 1 .. at \/ k = n
  BY DEF AclInv, CheckEntry
<1>2. /\ ~\E k \in 1 .. at : acl[k].slash = -1
      /\ allowed = IF covering = {} THEN IF acl = <<>> THEN "+" ELSE "-"
                   ELSE acl[Max(covering)].sign
  BY <1>1 DEF AclInv, LastMatchWins
<1>3. allowed' = IF entry.slash = -1 THEN "malformed"
                 ELSE IF entry.net = And(ip, Mask(entry.slash)) THEN entry.sign
                 ELSE allowed
  BY DEF CheckEntry
<1>4. ip \in Word
  BY DEF AclInv
<1> HIDE DEF n, entry
<1>5. LastMatchWins' <=>
        IF \E k \in 1 .. n : acl[k].slash = -1 THEN allowed' = "malformed"
        ELSE IF covering2 = {} THEN allowed' = (IF acl = <<>> THEN "+" ELSE "-")
        ELSE allowed' = acl[Max(covering2)].sign
  <2>1. at' >= 0
    BY <1>1 DEF n
  <2>2. QED
    BY <1>1, <2>1, Zenon DEF LastMatchWins, Covers
<1>6. CASE entry.slash = -1
  BY <1>1, <1>3, <1>5, <1>6 DEF AclInv, entry
<1>7. CASE entry.slash # -1
  <2>1. ~\E k \in 1 .. n : acl[k].slash = -1
    BY <1>1, <1>2, <1>7 DEF entry
  <2>2. CASE Covers(entry, ip)
    <3>1. allowed' = entry.sign
      BY <1>1, <1>3, <1>4, <1>7, <2>2, MatchIsCover
    <3>2. n \in covering2 /\ \A k \in covering2 : n >= k
      BY <1>1, <2>2 DEF entry, n
    <3>3. Max(covering2) = n
      <4>1. covering2 \subseteq Int
        BY <1>1
      <4> HIDE DEF covering2
      <4>2. \A x \in covering2 : (\A k \in covering2 : x >= k) => x = n
        BY <3>2, <4>1
      <4>3. QED
        BY <3>2, <4>2, Zenon DEF Max
    <3>4. LastMatchWins'
      BY <1>5, <2>1, <3>1, <3>2, <3>3 DEF entry
    <3>5. QED
      BY <1>1, <3>4 DEF AclInv
  <2>3. CASE ~Covers(entry, ip)
    <3>1. allowed' = allowed
      BY <1>1, <1>3, <1>4, <1>7, <2>3, MatchIsCover
    <3>2. covering2 = covering
      BY <1>1, <2>3 DEF entry
    <3> HIDE DEF covering, covering2
    <3>3. LastMatchWins'
      BY <1>2, <1>5, <2>1, <3>1, <3>2
    <3>4. QED
      BY <1>1, <3>3 DEF AclInv
  <2>4. QED
    BY <2>2, <2>3
<1>8. QED
  BY <1>6, <1>7

\* The call: nothing has been checked yet.
LEMMA CheckIpAclInv ==
  ASSUME AclInv, CheckIpAcl
  PROVE  AclInv'
<1>1. PICK list \in Lists, addr \in Word :
        /\ acl' = list /\ ip' = addr /\ at' = 0
        /\ allowed' = IF list = <<>> THEN "+" ELSE "-"
  BY DEF CheckIpAcl
<1>2. list \in Seq(Entries) /\ Len(list) \in Nat
  BY <1>1, MgAclAssumption DEF Lists
<1>3. LastMatchWins'
  <2>1. 1 .. 0 = {}
    OBVIOUS
  <2>2. {k \in 1 .. 0 : Covers(acl'[k], ip')} = {}
    BY <2>1
  <2>3. QED
    BY <1>1, <2>1, <2>2 DEF LastMatchWins
<1>4. QED
  BY <1>1, <1>2, <1>3 DEF AclInv

\* mg_check_ip_acl lets the last entry decide that is for the address, for
\* words of any size and lists of any length.
THEOREM LastEntryDecides == AclSpec => []LastMatchWins
<1>1. AclInit => AclInv
  <2> SUFFICES ASSUME AclInit PROVE AclInv
    OBVIOUS
  <2>1. ip \in Word /\ acl \in Seq(Entries) /\ Len(acl) = 0 /\ at = -1
    BY DEF AclInit, Word, Zero
  <2>2. QED
    BY <2>1 DEF AclInv, LastMatchWins
<1>2. AclInv /\ [AclNext]_aclVars => AclInv'
  <2> SUFFICES ASSUME AclInv, [AclNext]_aclVars PROVE AclInv'
    OBVIOUS
  <2>1. CASE UNCHANGED aclVars
    <3>1. acl' = acl /\ ip' = ip /\ at' = at /\ allowed' = allowed
      BY <2>1 DEF aclVars
    <3>2. LastMatchWins'
      BY <3>1 DEF AclInv, LastMatchWins
    <3>3. QED
      BY <3>1, <3>2 DEF AclInv
  <2>2. QED
    BY <2>1, CheckIpAclInv, CheckEntryInv DEF AclNext
<1>3. AclInv => LastMatchWins
  BY DEF AclInv
<1>4. QED
  BY <1>1, <1>2, <1>3, PTL DEF AclSpec

-----------------------------------------------------------------------------
(* Paths.                                                                  *)

\* A component: no slash but at its end.
IsComponent(c) == /\ c \in Seq(Char) /\ Len(c) > 0
                  /\ \A j \in 1 .. (Len(c) - 1) : c[j] # "/"
Closed(c) == c[Len(c)] = "/"
AllClosed(st) == \A i \in 1 .. Len(st) : Closed(st[i])

\* The first m bytes of p are f.
Spells(p, m, f) == /\ f \in Seq(Char) /\ m = Len(f) /\ m <= Len(p)
                   /\ \A k \in 1 .. m : p[k] = f[k]

\* A stack of components, of which the first is the root.
IsStack(st) == /\ st \in Seq(Seq(Char))
               /\ \A i \in 1 .. Len(st) : IsComponent(st[i])
               /\ st # <<>> => st[1] = <<"/">>

\* The loop, when n bytes have been read and m are written.
Normalized(p, n, m, r, st) ==
  /\ p \in Seq(Char) /\ Len(p) > 0 /\ p[1] = "/" /\ n \in 0 .. Len(p) /\ m \in 0 .. n
  /\ r = SubSeq(p, n + 1, Len(p))
  /\ IsStack(st) /\ (n < Len(p) => AllClosed(st))
  /\ Spells(p, m, FlattenSeq(st))
  /\ st = <<>> <=> n = 0
  /\ m = 0 => n = 0

\* The invariant.
UriInv ==
  /\ loop = "none" => read = 0 /\ written = 0 /\ stack = <<>>
  /\ loop = "loop" => Normalized(path, read, written, rest, stack)
  /\ loop = "done" => rest = <<>> /\ out = FlattenSeq(stack)

\* What Min and Max choose.
LEMMA MinIs ==
  ASSUME NEW T \in SUBSET Int, NEW m \in T, \A k \in T : m <= k
  PROVE  Min(T) = m
<1>1. \A x \in T : (\A k \in T : x <= k) => x = m
  OBVIOUS
<1>2. QED
  BY <1>1, Zenon DEF Min
LEMMA MaxIs ==
  ASSUME NEW T \in SUBSET Int, NEW m \in T, \A k \in T : m >= k
  PROVE  Max(T) = m
<1>1. \A x \in T : (\A k \in T : x >= k) => x = m
  OBVIOUS
<1>2. QED
  BY <1>1, Zenon DEF Max

\* A piece of a sequence.
Piece(x, p, a, b) == /\ x \in Seq(Char) /\ Len(x) = b - a
                     /\ \A j \in 1 .. (b - a) : x[j] = p[a + j]
LEMMA PieceIs ==
  ASSUME NEW p \in Seq(Char), NEW a \in Nat, NEW b \in a .. Len(p)
  PROVE  Piece(SubSeq(p, a + 1, b), p, a, b)
<1> DEFINE x == SubSeq(p, a + 1, b)
<1>1. a + 1 \in Int /\ b \in Int /\ a + 1 <= b + 1 /\ \A i \in a + 1 .. b : p[i] \in Char
  OBVIOUS
<1>2. /\ x \in Seq(Char) /\ Len(x) = IF a + 1 <= b THEN b - (a + 1) + 1 ELSE 0
      /\ \A j \in 1 .. (b - (a + 1) + 1) : x[j] = p[(a + 1) + j - 1]
  BY <1>1, SubSeqProperties
<1> HIDE DEF x
<1>3. /\ b - (a + 1) + 1 = b - a /\ (~(a + 1 <= b) => b - a = 0)
      /\ \A j \in 1 .. (b - a) : (a + 1) + j - 1 = a + j
  OBVIOUS
<1>4. Piece(x, p, a, b)
  BY <1>2, <1>3 DEF Piece
<1>5. QED
  BY <1>4 DEF x

\* A sequence is what its members say.
LEMMA PieceSame ==
  ASSUME NEW p, NEW a \in Int, NEW b \in Int, NEW x, NEW y,
         Piece(x, p, a, b), Piece(y, p, a, b)
  PROVE  x = y
<1>1. /\ x \in Seq(Char) /\ y \in Seq(Char) /\ Len(x) = Len(y)
      /\ \A j \in 1 .. Len(x) : x[j] = y[j]
  BY DEF Piece
<1>2. QED
  BY <1>1, SeqEqual

\* The component the loop is at, in the memory and for the ideal reader.
At(p, n, e, c) ==
  /\ e \in (n + 1) .. Len(p)
  /\ c = SubSeq(p, n + 1, e) /\ Piece(c, p, n, e)
  /\ IsComponent(c) /\ (Closed(c) \/ e = Len(p))
  /\ p[n + 1] = "/" => e = n + 1

LEMMA ComponentAt ==
  ASSUME NEW p \in Seq(Char), NEW n \in 0 .. (Len(p) - 1)
  PROVE  /\ At(p, n, ComponentEnd(p, n), First(SubSeq(p, n + 1, Len(p))))
         /\ LET r == SubSeq(p, n + 1, Len(p))
            IN SubSeq(r, Len(First(r)) + 1, Len(r))
                 = SubSeq(p, ComponentEnd(p, n) + 1, Len(p))
<1> DEFINE N == Len(p)
           T == {k \in n + 1 .. Len(p) : p[k] = "/"}
           e == ComponentEnd(p, n)
           r == SubSeq(p, n + 1, Len(p))
           ends == {Len(r)} \cup {k \in DOMAIN r : r[k] = "/"}
           c == First(r)
<1>1. N \in Nat /\ n \in Nat /\ n < N
  OBVIOUS
<1>2. /\ e \in (n + 1) .. N /\ (p[e] = "/" \/ e = N)
      /\ \A k \in n + 1 .. N : p[k] = "/" => e <= k
  <2>1. CASE T = {}
    BY <1>1, <2>1 DEF ComponentEnd
  <2>2. CASE T # {}
    <3>1. e = Min(T)
      BY <2>2 DEF ComponentEnd
    <3>2. T \in SUBSET Nat
      BY <1>1
    <3>3. PICK m \in T : \A k \in T : m <= k
      BY <2>2, <3>2, Smallest
    <3>4. e = m
      <4>1. T \in SUBSET Int
        BY <3>2
      <4> HIDE DEF T, e
      <4>2. QED
        BY <3>1, <3>3, <4>1, MinIs
    <3>5. QED
      BY <3>3, <3>4
  <2>3. QED
    BY <2>1, <2>2
<1> HIDE DEF e
<1>3. Piece(r, p, n, N)
  BY <1>1, PieceIs
<1>4. /\ r \in Seq(Char) /\ Len(r) = N - n /\ DOMAIN r = 1 .. (N - n)
      /\ \A j \in 1 .. (N - n) : r[j] = p[n + j]
  BY <1>3 DEF Piece
<1> HIDE DEF r, N
<1>5. Min(ends) = e - n
  <2>1. ends \in SUBSET Int
    BY <1>1, <1>4
  <2>2. e - n \in ends
    <3>1. e - n \in 1 .. (N - n) /\ n + (e - n) = e /\ (e = N => e - n = N - n)
      BY <1>1, <1>2
    <3>2. r[e - n] = p[e]
      BY <1>4, <3>1
    <3>3. QED
      BY <1>2, <1>4, <3>1, <3>2
  <2>3. ASSUME NEW k \in ends PROVE e - n <= k
    <3>1. CASE k = N - n
      BY <1>1, <1>2, <3>1
    <3>2. CASE k \in 1 .. (N - n) /\ r[k] = "/"
      <4>1. n + k \in n + 1 .. N /\ p[n + k] = "/"
        BY <1>1, <1>4, <3>2
      <4>2. e <= n + k
        BY <1>2, <4>1
      <4>3. QED
        BY <1>1, <1>2, <3>2, <4>2
    <3>3. QED
      BY <1>4, <3>1, <3>2
  <2> HIDE DEF ends
  <2>4. QED
    BY <2>1, <2>2, <2>3, MinIs
<1>6. c = SubSeq(r, 1, e - n)
  BY <1>5 DEF First
<1>7. Piece(c, p, n, e)
  <2>1. e - n \in 0 .. Len(r) /\ 0 \in Nat
    BY <1>1, <1>2, <1>4
  <2>2. Piece(SubSeq(r, 0 + 1, e - n), r, 0, e - n)
    BY <1>4, <2>1, PieceIs
  <2> HIDE DEF c
  <2>3. Piece(c, r, 0, e - n)
    BY <1>6, <2>2
  <2>4. /\ c \in Seq(Char) /\ Len(c) = e - n
        /\ \A j \in 1 .. (e - n) : c[j] = r[j]
    BY <1>1, <1>2, <2>3 DEF Piece
  <2>5. \A j \in 1 .. (e - n) : r[j] = p[n + j]
    BY <1>1, <1>2, <1>4
  <2>6. QED
    BY <2>4, <2>5 DEF Piece
<1>8. c = SubSeq(p, n + 1, e)
  <2>1. Piece(SubSeq(p, n + 1, e), p, n, e)
    BY <1>1, <1>2, PieceIs DEF N
  <2>2. n \in Int /\ e \in Int
    BY <1>1, <1>2
  <2> HIDE DEF c
  <2>3. QED
    BY <1>7, <2>1, <2>2, PieceSame
<1> HIDE DEF c
<1>9. IsComponent(c) /\ (Closed(c) \/ e = N)
  <2>1. /\ c \in Seq(Char) /\ Len(c) = e - n /\ Len(c) > 0
        /\ \A j \in 1 .. (e - n) : c[j] = p[n + j]
    BY <1>1, <1>2, <1>7 DEF Piece
  <2>2. ASSUME NEW j \in 1 .. (Len(c) - 1) PROVE c[j] # "/"
    <3>1. j \in 1 .. (e - n) /\ n + j \in n + 1 .. N /\ ~(e <= n + j)
      BY <1>1, <1>2, <2>1
    <3>2. QED
      BY <1>2, <2>1, <3>1
  <2>3. c[e - n] = p[e]
    <3>1. e - n \in 1 .. (e - n) /\ n + (e - n) = e
      BY <1>1, <1>2
    <3>2. QED
      BY <2>1, <3>1
  <2>4. QED
    BY <1>2, <2>1, <2>2, <2>3 DEF IsComponent, Closed
<1>10. SubSeq(r, Len(c) + 1, Len(r)) = SubSeq(p, e + 1, N)
  <2> DEFINE x == SubSeq(r, (e - n) + 1, Len(r))
  <2>1. Len(c) = e - n /\ e - n \in Nat /\ Len(r) \in (e - n) .. Len(r)
    BY <1>1, <1>2, <1>4, <1>7 DEF Piece
  <2>2. Piece(x, r, e - n, Len(r))
    BY <1>4, <2>1, PieceIs
  <2> HIDE DEF x
  <2>3. Piece(x, p, e, N)
    <3>1. /\ x \in Seq(Char) /\ Len(x) = N - e
          /\ \A j \in 1 .. (N - e) : x[j] = r[(e - n) + j]
      <4>1. Len(r) - (e - n) = N - e
        BY <1>1, <1>2, <1>4
      <4>2. QED
        BY <2>2, <4>1, Zenon DEF Piece
    <3>2. ASSUME NEW j \in 1 .. (N - e) PROVE x[j] = p[e + j]
      <4>1. (e - n) + j \in 1 .. (N - n) /\ n + ((e - n) + j) = e + j
        BY <1>1, <1>2
      <4>2. QED
        BY <1>4, <3>1, <4>1
    <3>3. QED
      BY <3>1, <3>2 DEF Piece
  <2>4. Piece(SubSeq(p, e + 1, N), p, e, N)
    BY <1>1, <1>2, PieceIs DEF N
  <2>5. x = SubSeq(p, e + 1, N)
    <3>1. e \in Int /\ N \in Int
      BY <1>1, <1>2
    <3>2. QED
      BY <2>3, <2>4, <3>1, PieceSame, Zenon
  <2>6. QED
    BY <2>1, <2>5 DEF x
<1>11. p[n + 1] = "/" => e = n + 1
  BY <1>1, <1>2
<1>12. At(p, n, e, c)
  BY <1>2, <1>7, <1>8, <1>9, <1>11 DEF At, N
<1>13. QED
  BY <1>10, <1>12 DEF e, c, r, N

-----------------------------------------------------------------------------
(* The stack and the text it stands for.                                   *)

\* What the last of a sequence adds to the others.
LEMMA FrontLast ==
  ASSUME NEW T, NEW st \in Seq(T), st # <<>>
  PROVE  /\ Front(st) \in Seq(T) /\ Last(st) \in T /\ Len(Front(st)) = Len(st) - 1
         /\ \A i \in 1 .. (Len(st) - 1) : Front(st)[i] = st[i]
         /\ Last(st) = st[Len(st)] /\ Len(st) \in Nat \ {0}
         /\ st = Append(Front(st), Last(st))
<1> DEFINE f == SubSeq(st, 1, Len(st) - 1)
<1>1. Len(st) \in Nat \ {0} /\ Front(st) = f /\ Last(st) = st[Len(st)]
  BY DEF Front, Last
<1>2. /\ f \in Seq(T) /\ Len(f) = Len(st) - 1
      /\ \A i \in 1 .. (Len(st) - 1) : f[i] = st[i]
  <2> DEFINE n == Len(st) - 1
  <2>1. n \in Nat /\ \A i \in 1 .. n : st[i] \in T
    BY <1>1
  <2>2. f = [i \in 1 .. n |-> st[i]]
    BY <2>1
  <2> HIDE DEF n, f
  <2>3. f \in [1 .. n -> T]
    BY <2>1, <2>2
  <2>4. f \in Seq(T) /\ Len(f) = n
    BY <2>1, <2>3
  <2>5. QED
    BY <2>2, <2>4 DEF n
<1> HIDE DEF f
<1>3. st[Len(st)] \in T
  BY <1>1
<1> DEFINE a == Append(f, st[Len(st)])
<1>4. /\ a \in Seq(T) /\ Len(a) = Len(f) + 1
      /\ \A i \in 1 .. Len(f) : a[i] = f[i] /\ a[Len(f) + 1] = st[Len(st)]
      /\ a[Len(f) + 1] = st[Len(st)]
  BY <1>2, <1>3, AppendProperties
<1> HIDE DEF a
<1>5. st = a
  <2>1. Len(a) = Len(st)
    BY <1>1, <1>2, <1>4
  <2>2. ASSUME NEW i \in 1 .. Len(st) PROVE st[i] = a[i]
    <3>1. CASE i = Len(st)
      BY <1>1, <1>2, <1>4, <3>1
    <3>2. CASE i # Len(st)
      <4>1. i \in 1 .. (Len(st) - 1)
        BY <1>1, <3>2
      <4>2. QED
        BY <1>2, <1>4, <4>1
    <3>3. QED
      BY <3>1, <3>2
  <2>3. QED
    BY <1>4, <2>1, <2>2, SeqEqual
<1>6. QED
  BY <1>1, <1>2, <1>3, <1>5 DEF a

\* One component more.
LEMMA Pushed ==
  ASSUME NEW st, IsStack(st), NEW c, IsComponent(c), st = <<>> => c = <<"/">>
  PROVE  /\ IsStack(Append(st, c)) /\ Append(st, c) # <<>>
         /\ FlattenSeq(st) \in Seq(Char)
         /\ FlattenSeq(Append(st, c)) = FlattenSeq(st) \o c
         /\ AllClosed(st) /\ Closed(c) => AllClosed(Append(st, c))
<1> DEFINE T == Seq(Char)
           a == Append(st, c)
           n == Len(st)
<1>1. st \in Seq(T) /\ c \in T
  BY DEF IsStack, IsComponent
<1>2. FlattenSeq(st) \in T /\ FlattenSeq(a) = FlattenSeq(st) \o c
  BY <1>1, FlattenAppend
<1> HIDE DEF T
<1>3. /\ a \in Seq(T) /\ a # <<>> /\ Len(a) = n + 1 /\ a[n + 1] = c
      /\ \A i \in 1 .. n : a[i] = st[i]
  BY <1>1, AppendProperties
<1>4. n \in Nat /\ (n = 0 <=> st = <<>>)
  BY <1>1
<1> HIDE DEF a, n
<1>5. \A i \in 1 .. (n + 1) : i \in 1 .. n \/ i = n + 1
  BY <1>4
<1>6. \A i \in 1 .. Len(a) : IsComponent(a[i])
  BY <1>3, <1>5 DEF IsStack, n
<1>7. a[1] = <<"/">>
  <2>1. CASE st = <<>>
    BY <1>3, <1>4, <2>1
  <2>2. CASE st # <<>>
    <3>1. 1 \in 1 .. n
      BY <1>4, <2>2
    <3>2. QED
      BY <1>3, <2>2, <3>1 DEF IsStack
  <2>3. QED
    BY <2>1, <2>2
<1>8. AllClosed(st) /\ Closed(c) => AllClosed(a)
  BY <1>3, <1>5 DEF AllClosed, n
<1>9. QED
  BY <1>2, <1>3, <1>6, <1>7, <1>8 DEF IsStack, a, T

\* One less.
LEMMA Popped ==
  ASSUME NEW st, IsStack(st), AllClosed(st), Len(st) > 1
  PROVE  /\ IsStack(Front(st)) /\ AllClosed(Front(st)) /\ Front(st) # <<>>
         /\ IsComponent(Last(st)) /\ Closed(Last(st))
         /\ FlattenSeq(Front(st)) \in Seq(Char)
         /\ FlattenSeq(st) = FlattenSeq(Front(st)) \o Last(st)
<1> DEFINE T == Seq(Char)
           f == Front(st)
           c == Last(st)
           n == Len(st)
<1>1. st \in Seq(T) /\ st # <<>> /\ n \in Nat /\ n > 1
  BY DEF IsStack
<1> HIDE DEF T
<1>2. /\ f \in Seq(T) /\ c \in T /\ Len(f) = n - 1
      /\ \A i \in 1 .. (n - 1) : f[i] = st[i]
      /\ c = st[n] /\ st = Append(f, c)
  BY <1>1, FrontLast
<1>3. FlattenSeq(f) \in Seq(Char) /\ FlattenSeq(Append(f, c)) = FlattenSeq(f) \o c
  <2> HIDE DEF f, c
  <2>1. QED
    BY <1>2, FlattenAppend DEF T
<1> HIDE DEF f, c, n
<1>4. n \in 1 .. n /\ 1 \in 1 .. (n - 1) /\ \A i \in 1 .. (n - 1) : i \in 1 .. n
  BY <1>1
<1>5. IsComponent(c) /\ Closed(c)
  BY <1>2, <1>4 DEF IsStack, AllClosed, n
<1>6. \A i \in 1 .. Len(f) : IsComponent(f[i]) /\ Closed(f[i])
  BY <1>2, <1>4 DEF IsStack, AllClosed, n
<1>7. f[1] = <<"/">> /\ f # <<>>
  <2>1. f[1] = st[1]
    BY <1>2, <1>4
  <2>2. st[1] = <<"/">>
    BY <1>1 DEF IsStack
  <2>3. f # <<>>
    BY <1>1, <1>2
  <2>4. QED
    BY <2>1, <2>2, <2>3
<1>8. IsStack(f) /\ AllClosed(f)
  BY <1>2, <1>6, <1>7 DEF IsStack, AllClosed, T
<1>9. QED
  BY <1>2, <1>3, <1>5, <1>7, <1>8 DEF f, c

\* Two texts, one after the other.
Glued(x, f, c) ==
  /\ x \in Seq(Char) /\ Len(x) = Len(f) + Len(c)
  /\ \A k \in 1 .. Len(f) : x[k] = f[k]
  /\ \A j \in 1 .. Len(c) : x[Len(f) + j] = c[j]

LEMMA GluedIs ==
  ASSUME NEW f \in Seq(Char), NEW c \in Seq(Char)
  PROVE  Glued(f \o c, f, c)
<1> DEFINE x == f \o c
<1>1. /\ x \in Seq(Char) /\ Len(x) = Len(f) + Len(c)
      /\ \A i \in 1 .. Len(f) + Len(c) :
           x[i] = IF i <= Len(f) THEN f[i] ELSE c[i - Len(f)]
  BY ConcatProperties
<1> HIDE DEF x
<1>2. Len(f) \in Nat /\ Len(c) \in Nat
  OBVIOUS
<1>3. ASSUME NEW k \in 1 .. Len(f) PROVE x[k] = f[k]
  <2>1. k \in 1 .. Len(f) + Len(c) /\ k <= Len(f)
    BY <1>2
  <2>2. QED
    BY <1>1, <2>1
<1>4. ASSUME NEW j \in 1 .. Len(c) PROVE x[Len(f) + j] = c[j]
  <2>1. /\ Len(f) + j \in 1 .. Len(f) + Len(c) /\ ~(Len(f) + j <= Len(f))
        /\ (Len(f) + j) - Len(f) = j
    BY <1>2
  <2>2. QED
    BY <1>1, <2>1
<1>5. Glued(x, f, c)
  BY <1>1, <1>3, <1>4 DEF Glued
<1>6. QED
  BY <1>5 DEF x

\* A text of closed components ends in a slash.
LEMMA TextCloses ==
  ASSUME NEW st, IsStack(st), AllClosed(st), st # <<>>
  PROVE  LET f == FlattenSeq(st) IN f \in Seq(Char) /\ Len(f) > 0 /\ f[Len(f)] = "/"
<1> DEFINE T == Seq(Char)
           f == FlattenSeq(Front(st))
           c == Last(st)
           x == FlattenSeq(st)
           n == Len(st)
<1>1. st \in Seq(T)
  BY DEF IsStack
<1> HIDE DEF T
<1>2. /\ Front(st) \in Seq(T) /\ c = st[n] /\ n \in Nat \ {0}
      /\ st = Append(Front(st), c) /\ c \in T
  BY <1>1, FrontLast
<1>3. f \in Seq(Char) /\ x = f \o c
  <2> DEFINE g == Front(st)
  <2> HIDE DEF c
  <2>1. FlattenSeq(g) \in Seq(Char) /\ FlattenSeq(Append(g, c)) = FlattenSeq(g) \o c
    <3> HIDE DEF g
    <3>1. g \in Seq(T)
      BY <1>2 DEF g
    <3>2. QED
      BY <1>2, <3>1, FlattenAppend DEF T
  <2>2. QED
    BY <1>2, <2>1, Zenon
<1>4. IsComponent(c) /\ Closed(c)
  <2>1. n \in 1 .. n
    BY <1>2
  <2> HIDE DEF c
  <2>2. QED
    BY <1>2, <2>1 DEF IsStack, AllClosed
<1> HIDE DEF f, c, x
<1>5. Glued(x, f, c)
  BY <1>3, <1>4, GluedIs DEF IsComponent
<1>6. Len(f) \in Nat /\ Len(c) \in Nat /\ Len(c) > 0 /\ c[Len(c)] = "/"
  BY <1>3, <1>4 DEF IsComponent, Closed
<1>7. x \in Seq(Char) /\ Len(x) > 0 /\ x[Len(x)] = "/"
  <2>1. Len(c) \in 1 .. Len(c) /\ Len(x) = Len(f) + Len(c)
    BY <1>5, <1>6 DEF Glued
  <2>2. x[Len(f) + Len(c)] = c[Len(c)]
    BY <1>5, <2>1 DEF Glued
  <2>3. QED
    BY <1>5, <1>6, <2>1, <2>2 DEF Glued
<1>8. QED
  BY <1>7 DEF x

\* Going back takes off exactly the last component.
LEMMA BacktrackIs ==
  ASSUME NEW p \in Seq(Char), NEW m \in Nat, NEW f \in Seq(Char), NEW c,
         Spells(p, m, f \o c), Len(f) > 0, f[Len(f)] = "/",
         IsComponent(c), Closed(c)
  PROVE  Backtrack(p, m) = Len(f) /\ Spells(p, Len(f), f)
<1> DEFINE x == f \o c
           a == Len(f)
           T == {0} \cup {k \in 1 .. (m - 1) : p[k] = "/"}
<1>1. Glued(x, f, c)
  BY GluedIs DEF IsComponent
<1>2. /\ a \in Nat /\ a > 0 /\ Len(c) \in Nat /\ Len(c) > 0 /\ m = a + Len(c)
      /\ m <= Len(p) /\ Len(p) \in Nat
      /\ \A k \in 1 .. a : p[k] = f[k]
      /\ \A j \in 1 .. Len(c) : p[a + j] = c[j]
  <2>1. /\ m = Len(x) /\ m <= Len(p) /\ \A k \in 1 .. m : p[k] = x[k]
    BY DEF Spells
  <2> HIDE DEF x, a
  <2>2. a \in Nat /\ a > 0 /\ Len(c) \in Nat /\ Len(c) > 0
    BY DEF IsComponent, a
  <2>3. /\ Len(x) = a + Len(c) /\ (\A k \in 1 .. a : x[k] = f[k])
        /\ \A j \in 1 .. Len(c) : x[a + j] = c[j]
    BY <1>1 DEF Glued, a
  <2>4. ASSUME NEW k \in 1 .. a PROVE p[k] = f[k]
    <3>1. k \in 1 .. m
      BY <2>1, <2>2, <2>3
    <3>2. QED
      BY <2>1, <2>3, <3>1
  <2>5. ASSUME NEW j \in 1 .. Len(c) PROVE p[a + j] = c[j]
    <3>1. a + j \in 1 .. m
      BY <2>1, <2>2, <2>3
    <3>2. QED
      BY <2>1, <2>3, <3>1
  <2>6. QED
    BY <2>1, <2>2, <2>3, <2>4, <2>5
<1> HIDE DEF x, a
<1>3. p[m] = "/" /\ m > 1 /\ a \in 1 .. (m - 1) /\ p[a] = "/"
  <2>1. Len(c) \in 1 .. Len(c) /\ a \in 1 .. a
    BY <1>2
  <2>2. p[m] = c[Len(c)] /\ p[a] = f[a]
    BY <1>2, <2>1
  <2>3. QED
    BY <1>2, <2>2 DEF Closed, a
<1>4. Backtrack(p, m) = Max(T)
  BY <1>3 DEF Backtrack
<1>5. ASSUME NEW k \in T PROVE a >= k
  <2> SUFFICES ASSUME k \in 1 .. (m - 1), p[k] = "/", ~(a >= k) PROVE FALSE
    BY <1>2
  <2> DEFINE j == k - a
  <2>1. j \in 1 .. (Len(c) - 1) /\ j \in 1 .. Len(c) /\ a + j = k
    BY <1>2
  <2> HIDE DEF j
  <2>2. p[k] = c[j]
    BY <1>2, <2>1
  <2>3. QED
    BY <2>1, <2>2 DEF IsComponent
<1>6. T \in SUBSET Int /\ a \in T
  BY <1>2, <1>3
<1> HIDE DEF T
<1>7. Max(T) = a
  BY <1>5, <1>6, MaxIs
<1>8. Spells(p, a, f)
  BY <1>2 DEF Spells, a
<1>9. QED
  BY <1>4, <1>7, <1>8 DEF a

\* What memmove leaves behind.
Slid(q, p, m, n, e) ==
  /\ q \in Seq(Char) /\ Len(q) = Len(p)
  /\ \A k \in 1 .. m : q[k] = p[k]
  /\ \A j \in 1 .. (e - n) : q[m + j] = p[n + j]
  /\ \A k \in (e + 1) .. Len(p) : q[k] = p[k]

LEMMA MovedIs ==
  ASSUME NEW p \in Seq(Char), NEW n \in Nat, NEW m \in 0 .. n, NEW e \in (n + 1) .. Len(p)
  PROVE  Slid(Moved(p, m, n, e), p, m, n, e)
<1> DEFINE N == Len(p)
           q == Moved(p, m, n, e)
<1>1. N \in Nat /\ DOMAIN p = 1 .. N /\ \A k \in 1 .. N : p[k] \in Char
  OBVIOUS
<1>2. q = [k \in 1 .. N |-> IF k \in m + 1 .. m + e - n THEN p[k - m + n] ELSE p[k]]
  BY <1>1, Zenon DEF Moved
<1> HIDE DEF q, N
<1>3. \A k \in m + 1 .. m + e - n : k - m + n \in 1 .. N
  BY <1>1 DEF N
<1>4. q \in [1 .. N -> Char]
  BY <1>1, <1>2, <1>3
<1>5. q \in Seq(Char) /\ Len(q) = N
  BY <1>1, <1>4
<1>6. ASSUME NEW k \in 1 .. m PROVE q[k] = p[k]
  <2>1. k \in 1 .. N /\ k \notin m + 1 .. m + e - n
    BY <1>1 DEF N
  <2>2. QED
    BY <1>2, <2>1
<1>7. ASSUME NEW j \in 1 .. (e - n) PROVE q[m + j] = p[n + j]
  <2>1. m + j \in 1 .. N /\ m + j \in m + 1 .. m + e - n /\ (m + j) - m + n = n + j
    BY <1>1 DEF N
  <2>2. QED
    BY <1>2, <2>1
<1>8. ASSUME NEW k \in (e + 1) .. N PROVE q[k] = p[k]
  <2>1. k \in 1 .. N /\ k \notin m + 1 .. m + e - n
    BY <1>1 DEF N
  <2>2. QED
    BY <1>2, <2>1
<1>9. QED
  BY <1>5, <1>6, <1>7, <1>8 DEF Slid, q, N

\* The first component of a path is the slash it begins with, and the stack
\* is empty only before it.
LEMMA RootComesFirst ==
  ASSUME NEW p, NEW n, NEW m, NEW r, NEW st, Normalized(p, n, m, r, st),
         NEW e, NEW c, At(p, n, e, c), st = <<>>
  PROVE  c = <<"/">> /\ Name(c) = <<>> /\ e = 1
<1>1. n = 0 /\ p[1] = "/" /\ p \in Seq(Char)
  BY DEF Normalized
<1>2. e = 1
  BY <1>1 DEF At
<1>3. c \in Seq(Char) /\ Len(c) = 1 /\ c[1] = "/"
  <2>1. c \in Seq(Char) /\ Len(c) = 1 - 0 /\ \A j \in 1 .. (1 - 0) : c[j] = p[0 + j]
    BY <1>1, <1>2 DEF At, Piece
  <2>2. 1 \in 1 .. (1 - 0)
    OBVIOUS
  <2>3. QED
    BY <1>1, <2>1, <2>2
<1>4. c = <<"/">>
  BY <1>3
<1>5. Name(c) = <<>>
  BY <1>4 DEF Name, Last, Front
<1>6. QED
  BY <1>2, <1>4, <1>5

\* How much is written of a stack of closed components.
LEMMA SomethingWritten ==
  ASSUME NEW p, NEW n, NEW m, NEW r, NEW st, Normalized(p, n, m, r, st),
         n < Len(p), st # <<>>
  PROVE  m \in Nat \ {0} /\ p[m] = "/"
<1> DEFINE f == FlattenSeq(st)
<1>1. IsStack(st) /\ AllClosed(st) /\ Spells(p, m, f)
  BY DEF Normalized
<1>2. f \in Seq(Char) /\ Len(f) > 0 /\ f[Len(f)] = "/"
  BY <1>1, TextCloses
<1> HIDE DEF f
<1>3. QED
  BY <1>1, <1>2 DEF Spells

\* ".": nothing is written.
LEMMA DotKeeps ==
  ASSUME NEW p, NEW n, NEW m, NEW r, NEW st, Normalized(p, n, m, r, st), n < Len(p),
         NEW e, NEW c, At(p, n, e, c), Name(c) = <<".">>
  PROVE  Normalized(p, e, m, SubSeq(p, e + 1, Len(p)), Resolve(st, c))
<1>1. Resolve(st, c) = st
  BY DEF Resolve
<1>2. st # <<>>
  <2>1. ASSUME st = <<>> PROVE FALSE
    <3>1. Name(c) = <<>>
      BY <2>1, RootComesFirst
    <3>2. QED
      BY <3>1
  <2>2. QED
    BY <2>1
<1>3. /\ p \in Seq(Char) /\ Len(p) \in Nat /\ Len(p) > 0 /\ n \in 0 .. Len(p)
      /\ m \in 0 .. n /\ e \in (n + 1) .. Len(p)
  BY DEF Normalized, At
<1>4. e \in 0 .. Len(p) /\ m \in 0 .. e /\ e # 0 /\ m # 0
  BY <1>2, <1>3 DEF Normalized
<1>5. QED
  BY <1>1, <1>2, <1>3, <1>4 DEF Normalized

\* "..": the last component is taken off, but not the root.
LEMMA DotsKeep ==
  ASSUME NEW p, NEW n, NEW m, NEW r, NEW st, Normalized(p, n, m, r, st), n < Len(p),
         NEW e, NEW c, At(p, n, e, c), Name(c) = <<".", ".">>
  PROVE  Normalized(p, e, Backtrack(p, m), SubSeq(p, e + 1, Len(p)), Resolve(st, c))
<1> DEFINE v == Backtrack(p, m)
           s == Resolve(st, c)
<1>1. st # <<>>
  <2>1. ASSUME st = <<>> PROVE FALSE
    <3>1. Name(c) = <<>>
      BY <2>1, RootComesFirst
    <3>2. QED
      BY <3>1
  <2>2. QED
    BY <2>1
<1>2. /\ p \in Seq(Char) /\ Len(p) \in Nat /\ Len(p) > 0 /\ n \in 0 .. Len(p)
      /\ m \in 0 .. n /\ e \in (n + 1) .. Len(p) /\ p[1] = "/"
      /\ IsStack(st) /\ AllClosed(st) /\ Spells(p, m, FlattenSeq(st))
  BY DEF Normalized, At
<1>3. e \in 0 .. Len(p) /\ e # 0
  BY <1>2
<1>4. s = IF Len(st) > 1 THEN Front(st) ELSE st
  <2>1. Name(c) # <<".">>
    OBVIOUS
  <2>2. QED
    BY <2>1 DEF Resolve
<1>5. IsStack(s) /\ AllClosed(s) /\ s # <<>> /\ Spells(p, v, FlattenSeq(s)) /\ v \in 1 .. m
  <2>1. CASE Len(st) > 1
    <3> DEFINE f == FlattenSeq(Front(st))
               d == Last(st)
    <3>1. /\ IsStack(Front(st)) /\ AllClosed(Front(st)) /\ Front(st) # <<>>
          /\ IsComponent(d) /\ Closed(d) /\ f \in Seq(Char)
          /\ FlattenSeq(st) = f \o d
      BY <1>2, <2>1, Popped
    <3>2. Len(f) > 0 /\ f[Len(f)] = "/"
      BY <3>1, TextCloses
    <3>3. m \in Nat /\ Spells(p, m, f \o d)
      BY <1>2, <3>1
    <3> HIDE DEF f, d
    <3>4. Backtrack(p, m) = Len(f) /\ Spells(p, Len(f), f)
      BY <1>2, <3>1, <3>2, <3>3, BacktrackIs
    <3>5. Len(f) \in 1 .. m
      <4>1. Glued(f \o d, f, d)
        BY <3>1, GluedIs DEF IsComponent
      <4>2. m = Len(f \o d) /\ Len(f \o d) = Len(f) + Len(d)
        BY <3>3, <4>1, Zenon DEF Spells, Glued
      <4>3. Len(f) \in Nat /\ Len(d) \in Nat
        BY <3>1 DEF IsComponent
      <4>4. QED
        BY <3>2, <4>2, <4>3
    <3>6. s = Front(st)
      BY <1>4, <2>1
    <3>7. QED
      BY <3>1, <3>4, <3>5, <3>6, Zenon DEF f
  <2>2. CASE ~(Len(st) > 1)
    <3>1. st \in Seq(Seq(Char)) /\ Len(st) = 1 /\ st[1] = <<"/">> /\ s = st
      <4> DEFINE T == Seq(Char)
      <4>1. st \in Seq(T) /\ st[1] = <<"/">>
        BY <1>1, <1>2 DEF IsStack
      <4> HIDE DEF T
      <4>2. Len(st) = 1
        <5> DEFINE k == Len(st)
        <5>1. k \in Nat /\ k # 0
          BY <1>1, <4>1
        <5> HIDE DEF k
        <5>2. ~(k > 1)
          BY <2>2 DEF k
        <5>3. k = 1
          BY <5>1, <5>2
        <5>4. QED
          BY <5>3 DEF k
      <4>3. s = st
        BY <1>4, <2>2
      <4>4. QED
        BY <4>1, <4>2, <4>3 DEF T
    <3>2. m \in Nat \ {0} /\ p[m] = "/"
      BY <1>1, SomethingWritten
    <3>3. m = 1
      <4>1. st = <<st[1]>>
        BY <3>1
      <4>2. st = Append(<<>>, <<"/">>)
        BY <3>1, <4>1
      <4>3. <<>> \in Seq(Seq(Char)) /\ <<"/">> \in Seq(Char)
        BY MgUriAssumption
      <4>4. FlattenSeq(st) = FlattenSeq(<<>>) \o <<"/">>
        BY <4>2, <4>3, FlattenAppend
      <4>5. FlattenSeq(<<>>) = <<>>
        BY DEF FlattenSeq
      <4>6. FlattenSeq(st) = <<"/">>
        <5>1. <<>> \o <<"/">> = <<"/">>
          OBVIOUS
        <5>2. QED
          BY <4>4, <4>5, <5>1, Zenon
      <4>7. QED
        BY <1>2, <4>6 DEF Spells
    <3>4. v = 1
      <4> DEFINE T == {0} \cup {k \in 1 .. 1 : p[k] = "/"}
      <4>1. v = Max(T)
        BY <3>3 DEF Backtrack
      <4>2. 1 \in T /\ T \in SUBSET Int /\ \A k \in T : 1 >= k
        BY <1>2
      <4> HIDE DEF T, v
      <4>3. QED
        BY <4>1, <4>2, MaxIs
    <3>5. QED
      BY <1>1, <1>2, <3>1, <3>3, <3>4
  <2>3. QED
    BY <2>1, <2>2
<1>6. v \in 0 .. e /\ v # 0
  BY <1>2, <1>5
<1> HIDE DEF v, s
<1>7. Normalized(p, e, v, SubSeq(p, e + 1, Len(p)), s)
  BY <1>2, <1>3, <1>5, <1>6 DEF Normalized
<1>8. QED
  BY <1>7 DEF v, s

\* Any other: it is moved behind what is written.
LEMMA OtherKeeps ==
  ASSUME NEW p, NEW n, NEW m, NEW r, NEW st, Normalized(p, n, m, r, st), n < Len(p),
         NEW e, NEW c, At(p, n, e, c), Name(c) \notin {<<".">>, <<".", ".">>}
  PROVE  Normalized(Moved(p, m, n, e), e, m + e - n,
                    SubSeq(p, e + 1, Len(p)), Resolve(st, c))
<1> DEFINE q == Moved(p, m, n, e)
           s == Append(st, c)
           v == m + e - n
           N == Len(p)
           f == FlattenSeq(st)
           x == f \o c
<1>1. Resolve(st, c) = s
  BY DEF Resolve
<1>2. /\ p \in Seq(Char) /\ N \in Nat /\ N > 0 /\ p[1] = "/" /\ n \in 0 .. N
      /\ m \in 0 .. n /\ e \in (n + 1) .. N
      /\ IsStack(st) /\ AllClosed(st) /\ Spells(p, m, f)
      /\ IsComponent(c) /\ Piece(c, p, n, e) /\ (Closed(c) \/ e = N)
  BY DEF Normalized, At
<1>3. st = <<>> => c = <<"/">>
  BY RootComesFirst
<1>4. /\ IsStack(s) /\ s # <<>> /\ f \in Seq(Char) /\ FlattenSeq(s) = x
      /\ AllClosed(st) /\ Closed(c) => AllClosed(s)
  BY <1>2, <1>3, Pushed
<1>5. Slid(q, p, m, n, e)
  BY <1>2, MovedIs
<1>6. Glued(x, f, c)
  BY <1>2, <1>4, GluedIs DEF IsComponent
<1> HIDE DEF q, s, N, f, x
<1>7. /\ m = Len(f) /\ Len(f) \in Nat /\ Len(c) = e - n /\ v = Len(f) + Len(c)
      /\ v \in 0 .. e /\ v \in 1 .. N /\ v # 0
  BY <1>2, <1>4 DEF Spells, Piece
<1>8. Spells(q, v, x)
  <2>1. x \in Seq(Char) /\ v = Len(x) /\ v <= Len(q)
    BY <1>2, <1>5, <1>6, <1>7 DEF Glued, Slid, N
  <2>2. ASSUME NEW k \in 1 .. v PROVE q[k] = x[k]
    <3>1. CASE k <= m
      <4>1. k \in 1 .. m /\ k \in 1 .. Len(f)
        BY <1>7, <3>1
      <4>2. q[k] = p[k] /\ p[k] = f[k] /\ x[k] = f[k]
        BY <1>2, <1>5, <1>6, <4>1 DEF Slid, Spells, Glued
      <4>3. QED
        BY <4>2
    <3>2. CASE ~(k <= m)
      <4> DEFINE j == k - m
      <4>1. j \in 1 .. (e - n) /\ j \in 1 .. Len(c) /\ k = m + j /\ k = Len(f) + j
        BY <1>2, <1>7, <3>2
      <4> HIDE DEF j, v
      <4>2. q[m + j] = p[n + j] /\ c[j] = p[n + j] /\ x[Len(f) + j] = c[j]
        BY <1>2, <1>5, <1>6, <4>1 DEF Slid, Piece, Glued
      <4>3. QED
        BY <4>1, <4>2
    <3>3. QED
      BY <3>1, <3>2
  <2>3. QED
    BY <2>1, <2>2 DEF Spells
<1>9. q \in Seq(Char) /\ Len(q) = N
  BY <1>5 DEF Slid, N
<1>10. q[1] = "/"
  <2>1. CASE m = 0
    <3>1. st = <<>>
      <4>1. ASSUME st # <<>> PROVE FALSE
        <5>1. m \in Nat \ {0}
          BY <4>1, SomethingWritten
        <5>2. QED
          BY <2>1, <5>1
      <4>2. QED
        BY <4>1
    <3>2. n = 0
      BY <3>1 DEF Normalized
    <3>3. 1 \in 1 .. (e - n) /\ m + 1 = 1 /\ n + 1 = 1
      BY <1>2, <2>1, <3>2
    <3>4. q[m + 1] = p[n + 1]
      BY <1>5, <3>3 DEF Slid
    <3>5. QED
      BY <1>2, <3>3, <3>4
  <2>2. CASE m # 0
    <3>1. 1 \in 1 .. m
      BY <1>2, <2>2
    <3>2. QED
      BY <1>2, <1>5, <3>1 DEF Slid
  <2>3. QED
    BY <2>1, <2>2
<1>11. SubSeq(p, e + 1, N) = SubSeq(q, e + 1, N)
  <2> DEFINE y == SubSeq(p, e + 1, N)
             z == SubSeq(q, e + 1, N)
  <2>1. e \in Nat /\ N \in e .. Len(p) /\ N \in e .. Len(q) /\ e \in Int /\ N \in Int
    BY <1>2, <1>9 DEF N
  <2>2. Piece(y, p, e, N)
    BY <1>2, <2>1, PieceIs
  <2>3. Piece(z, q, e, N)
    BY <1>9, <2>1, PieceIs
  <2> HIDE DEF y, z
  <2>4. Piece(z, p, e, N)
    <3>1. ASSUME NEW j \in 1 .. (N - e) PROVE q[e + j] = p[e + j]
      <4>1. e + j \in (e + 1) .. Len(p)
        BY <1>2 DEF N
      <4>2. QED
        BY <1>5, <4>1 DEF Slid
    <3>2. QED
      BY <2>3, <3>1 DEF Piece
  <2>5. y = z
    BY <2>1, <2>2, <2>4, PieceSame
  <2>6. QED
    BY <2>5 DEF y, z
<1>12. e \in 0 .. N /\ e # 0 /\ (e < N => Closed(c))
  BY <1>2
<1> HIDE DEF v
<1>13. Normalized(q, e, v, SubSeq(q, e + 1, Len(q)), s)
  BY <1>2, <1>4, <1>7, <1>8, <1>9, <1>10, <1>12 DEF Normalized
<1>14. QED
  BY <1>1, <1>9, <1>11, <1>13 DEF q, v, N

-----------------------------------------------------------------------------
(* The invariant.                                                          *)

\* The call: nothing is read or written yet.
LEMMA Called ==
  ASSUME NEW p \in Seq(Char), Len(p) > 0, p[1] = "/"
  PROVE  Normalized(p, 0, 0, p, <<>>)
<1> DEFINE T == Seq(Char)
<1>1. Len(p) \in Nat /\ 0 \in 0 .. Len(p) /\ 0 \in 0 .. 0
  OBVIOUS
<1>2. p = SubSeq(p, 0 + 1, Len(p))
  <2>1. Piece(SubSeq(p, 0 + 1, Len(p)), p, 0, Len(p))
    <3>1. 0 \in Nat /\ Len(p) \in 0 .. Len(p)
      BY <1>1
    <3>2. QED
      BY <3>1, PieceIs
  <2>2. Piece(p, p, 0, Len(p))
    BY DEF Piece
  <2>3. 0 \in Int /\ Len(p) \in Int
    BY <1>1
  <2>4. QED
    BY <2>1, <2>2, <2>3, PieceSame
<1>3. Spells(p, 0, FlattenSeq(<<>>))
  <2>1. FlattenSeq(<<>>) = <<>>
    BY DEF FlattenSeq
  <2>2. <<>> \in Seq(Char) /\ Len(<<>>) = 0
    OBVIOUS
  <2>3. Spells(p, 0, <<>>)
    BY <1>1, <2>2 DEF Spells
  <2>4. QED
    BY <2>1, <2>3
<1>4. IsStack(<<>>) /\ AllClosed(<<>>)
  <2>1. <<>> \in Seq(T) /\ Len(<<>>) = 0 /\ 1 .. 0 = {}
    OBVIOUS
  <2>2. QED
    BY <2>1 DEF IsStack, AllClosed
<1>5. QED
  BY <1>1, <1>2, <1>3, <1>4 DEF Normalized

\* What has been written so far is what the stack stands for.
LEMMA WrittenIs ==
  ASSUME NEW p, NEW n, NEW m, NEW r, NEW st, Normalized(p, n, m, r, st)
  PROVE  SubSeq(p, 1, m) = FlattenSeq(st)
<1> DEFINE f == FlattenSeq(st)
           x == SubSeq(p, 0 + 1, m)
<1>1. p \in Seq(Char) /\ 0 \in Nat /\ m \in 0 .. Len(p) /\ m \in Int /\ Spells(p, m, f)
  BY DEF Normalized
<1>2. Piece(x, p, 0, m)
  BY <1>1, PieceIs
<1> HIDE DEF f
<1>3. Piece(f, p, 0, m)
  BY <1>1 DEF Piece, Spells
<1>4. x = f
  <2> HIDE DEF x
  <2>1. QED
    BY <1>1, <1>2, <1>3, PieceSame
<1>5. QED
  BY <1>4 DEF f

LEMMA UriInitInv == UriInit => UriInv
  BY DEF UriInit, UriInv

LEMMA NormalizeUriPathInv ==
  ASSUME UriInv, NormalizeUriPath
  PROVE  UriInv'
<1>1. PICK p \in Paths :
        /\ path' = p /\ rest' = p
        /\ loop' = IF p = <<>> \/ p[1] # "/" THEN "refused" ELSE "loop"
  BY DEF NormalizeUriPath
<1>2. read' = 0 /\ written' = 0 /\ stack' = <<>>
  BY DEF UriInv, NormalizeUriPath
<1>3. p \in Seq(Char)
  BY MgUriAssumption DEF Paths
<1>4. CASE p = <<>> \/ p[1] # "/"
  BY <1>1, <1>4 DEF UriInv
<1>5. CASE ~(p = <<>> \/ p[1] # "/")
  <2>1. Len(p) > 0 /\ p[1] = "/"
    BY <1>3, <1>5
  <2>2. Normalized(p, 0, 0, p, <<>>)
    BY <1>3, <2>1, Called
  <2>3. loop' = "loop"
    BY <1>1, <1>5
  <2>4. QED
    BY <1>1, <1>2, <2>2, <2>3 DEF UriInv
<1>6. QED
  BY <1>4, <1>5

LEMMA ComponentInv ==
  ASSUME UriInv, Component
  PROVE  UriInv'
<1> DEFINE next == ComponentEnd(path, read)
           c == First(rest)
           name == Name(SubSeq(path, read + 1, next))
<1>1. Normalized(path, read, written, rest, stack) /\ read < Len(path)
  BY DEF UriInv, Component
<1>2. /\ path \in Seq(Char) /\ read \in 0 .. (Len(path) - 1)
      /\ rest = SubSeq(path, read + 1, Len(path))
  BY <1>1 DEF Normalized
<1>3. /\ At(path, read, next, c)
      /\ SubSeq(rest, Len(c) + 1, Len(rest)) = SubSeq(path, next + 1, Len(path))
  BY <1>2, ComponentAt
<1>4. name = Name(c)
  BY <1>3 DEF At
<1>5. /\ loop' = "loop" /\ read' = next /\ stack' = Resolve(stack, c)
      /\ rest' = SubSeq(path, next + 1, Len(path))
      /\ \/ name = <<".">> /\ path' = path /\ written' = written
         \/ name = <<".", ".">> /\ written' = Backtrack(path, written) /\ path' = path
         \/ /\ name \notin {<<".">>, <<".", ".">>}
            /\ path' = Moved(path, written, read, next)
            /\ written' = written + next - read
  BY <1>3 DEF Component
<1> HIDE DEF next, c, name
<1>6. Normalized(path', next, written', rest', stack')
  <2>1. CASE name = <<".">> /\ path' = path /\ written' = written
    BY <1>1, <1>3, <1>4, <1>5, <2>1, DotKeeps
  <2>2. CASE name = <<".", ".">> /\ written' = Backtrack(path, written) /\ path' = path
    BY <1>1, <1>3, <1>4, <1>5, <2>2, DotsKeep
  <2>3. CASE /\ name \notin {<<".">>, <<".", ".">>}
             /\ path' = Moved(path, written, read, next)
             /\ written' = written + next - read
    BY <1>1, <1>3, <1>4, <1>5, <2>3, OtherKeeps
  <2>4. QED
    BY <1>5, <2>1, <2>2, <2>3
<1>7. QED
  BY <1>5, <1>6 DEF UriInv

LEMMA ReturnInv ==
  ASSUME UriInv, Return
  PROVE  UriInv'
<1>1. Normalized(path, read, written, rest, stack) /\ read = Len(path)
  BY DEF UriInv, Return
<1>2. /\ path \in Seq(Char) /\ Len(path) \in Nat \ {0} /\ written # 0
      /\ rest = SubSeq(path, Len(path) + 1, Len(path))
  BY <1>1 DEF Normalized
<1>3. rest = <<>>
  BY <1>2
<1>4. loop' = "done" /\ out' = SubSeq(path, 1, written) /\ rest' = <<>> /\ stack' = stack
  BY <1>2, <1>3 DEF Return
<1>5. out' = FlattenSeq(stack)
  BY <1>1, <1>4, WrittenIs
<1>6. QED
  BY <1>4, <1>5 DEF UriInv

LEMMA UriNextInv ==
  ASSUME UriInv, [UriNext]_uriVars
  PROVE  UriInv'
<1>1. CASE NormalizeUriPath
  BY <1>1, NormalizeUriPathInv
<1>2. CASE Component
  BY <1>2, ComponentInv
<1>3. CASE Return
  BY <1>3, ReturnInv
<1>4. CASE UNCHANGED uriVars
  BY <1>4 DEF uriVars, UriInv
<1>5. QED
  BY <1>1, <1>2, <1>3, <1>4 DEF UriNext

\* mg_normalize_uri_path, in place, resolves what the stack does: for every
\* alphabet and every path, however long.
THEOREM PathsResolve == UriSpec => []PathIsResolved
<1>1. UriInv => PathIsResolved
  <2> SUFFICES ASSUME UriInv PROVE PathIsResolved
    OBVIOUS
  <2>1. ASSUME loop = "loop"
        PROVE  /\ SubSeq(path, read + 1, Len(path)) = rest
               /\ SubSeq(path, 1, written) = FlattenSeq(stack)
    <3>1. Normalized(path, read, written, rest, stack)
      BY <2>1 DEF UriInv
    <3>2. QED
      BY <3>1, WrittenIs DEF Normalized
  <2>2. QED
    BY <2>1 DEF UriInv, PathIsResolved
<1>2. QED
  BY UriInitInv, UriNextInv, <1>1, PTL DEF UriSpec

-----------------------------------------------------------------------------
(* Names in DNS messages.                                                  *)

NameByte == 0 .. 4 * Quarter - 1

\* The byte behind the first k of an encoded name.
Coded(t, k) == IF k = 0 \/ t[k] = Dot THEN LabelLen(t, k) ELSE t[k]
\* n bytes of it are in the message.
Carries(m, b, t, n) ==
  /\ b >= 1 /\ b - 1 + n <= Len(m)
  /\ \A k \in 0 .. n - 1 : m[b + k] = Coded(t, k)

\* A name with a dot behind each label.
IsDotted(t) == t \in Seq(NameByte) /\ Len(t) > 0 /\ t[Len(t)] = Dot

\* l is what p bytes of t leave, but perhaps for the dot at the end.
IsLeft(t, p, l) ==
  /\ p \in 0 .. Len(t) - 1 /\ (p = 0 \/ t[p] = Dot)
  /\ l \in Seq(NameByte) /\ Len(l) \in {Len(t) - p - 1, Len(t) - p}
  /\ \A j \in 1 .. Len(l) : l[j] = t[p + j]
  /\ Len(l) = Len(t) - p - 1 /\ Len(l) > 0 => l[Len(l)] # Dot

\* The reader, k bytes into the name.
Spelt(t, k, d, m) ==
  /\ k \in 0 .. Len(t) /\ (k = 0 \/ t[k] = Dot)
  /\ Len(d) = m + k /\ \A j \in 1 .. k : d[m + j] = t[j]

SpeltAll(t, d, m, n) ==
  /\ Len(d) = IF m + Len(t) - 1 < n THEN m + Len(t) - 1 ELSE n
  /\ \A k \in 1 .. Len(d) - m : d[m + k] = t[k]

NamesType ==
  /\ phase \in {"none", "encode", "failed", "encoded", "read", "done"}
  /\ msg \in Seq(NameByte) /\ dst \in Seq(NameByte)
  /\ begins \in Nat /\ data \in Nat /\ dstLen \in Nat /\ hops \in Nat /\ rounds \in Nat
  /\ met \in Nat \cup {-1}

\* What holds of the writer,
NamesWritten ==
  /\ begins = 0 <=> text = <<>>
  /\ begins > 0 => IsDotted(text)
  /\ phase = "none" => begins = 0 /\ msg = <<>>
  /\ phase = "encode" => /\ begins > 0 /\ IsLeft(text, Len(msg) - begins + 1, left)
                         /\ Carries(msg, begins, text, Len(msg) - begins + 1)
  /\ phase \in {"encoded", "read", "done"} /\ begins > 0 =>
       Carries(msg, begins, text, Len(text) + 1)

\* and of the reader.
NamesRead ==
  /\ phase \in {"none", "encode", "encoded"} =>
       dst = <<>> /\ hops = 0 /\ rounds = 0 /\ met = -1
  /\ Len(dst) <= dstLen /\ hops <= Hops /\ 2 * rounds <= 2 * Hops + dstLen
  /\ met >= 0 => begins > 0
  /\ phase = "read" => /\ data \in 1 .. Len(msg) /\ 2 * rounds <= 2 * hops + Len(dst)
                       /\ met >= 0 /\ Readable(text) =>
                            Spelt(text, data - begins, dst, met)
  /\ phase = "done" /\ met >= 0 /\ Readable(text) => SpeltAll(text, dst, met, dstLen)

\* The invariant.
NamesInv == NamesType /\ NamesWritten /\ NamesRead

-----------------------------------------------------------------------------
\* A label: no dot, then a dot or the end.
IsLabel(t, k, n) ==
  /\ n \in 0 .. Len(t) - k
  /\ \A j \in 1 .. n : t[k + j] # Dot
  /\ k + n = Len(t) \/ t[k + n + 1] = Dot

\* The label behind the first k of t has n letters,
LEMMA LabelIs ==
  ASSUME NEW t \in Seq(NameByte), NEW k \in 0 .. Len(t)
  PROVE  IsLabel(t, k, LabelLen(t, k))
<1> DEFINE L == Len(t)
           dots == {j \in k + 1 .. Len(t) : t[j] = Dot}
<1>1. L \in Nat /\ k \in 0 .. L
  OBVIOUS
<1>2. CASE dots = {}
  <2>1. LabelLen(t, k) = L - k
    BY <1>2 DEF LabelLen
  <2>2. \A j \in k + 1 .. L : t[j] # Dot
    BY <1>2
  <2> HIDE DEF L
  <2>3. (L - k) \in 0 .. L - k /\ k + (L - k) = L /\ \A j \in 1 .. L - k : t[k + j] # Dot
    BY <1>1, <2>2
  <2>4. QED
    BY <2>1, <2>3 DEF IsLabel, L
<1>3. CASE dots # {}
  <2>1. PICK m \in dots : \A j \in dots : m <= j
    <3>1. dots \in SUBSET Nat
      OBVIOUS
    <3> HIDE DEF dots
    <3>2. QED
      BY <1>3, <3>1, Smallest
  <2>2. Min(dots) = m
    <3>1. dots \in SUBSET Int
      OBVIOUS
    <3> HIDE DEF dots
    <3>2. QED
      BY <2>1, <3>1, MinIs
  <2>3. LabelLen(t, k) = m - 1 - k
    BY <1>3, <2>2 DEF LabelLen
  <2>4. m \in k + 1 .. L /\ t[m] = Dot /\ \A j \in k + 1 .. L : t[j] = Dot => m <= j
    BY <2>1
  <2> HIDE DEF L, dots
  <2>5. /\ (m - 1 - k) \in 0 .. L - k /\ t[k + (m - 1 - k) + 1] = Dot
        /\ \A j \in 1 .. m - 1 - k : t[k + j] # Dot
    BY <1>1, <2>4
  <2>6. QED
    BY <2>3, <2>5 DEF IsLabel, L
<1>4. QED
  BY <1>2, <1>3

\* and in another name as many, if what it reads there is the same.
LEMMA LabelOnly ==
  ASSUME NEW t, Len(t) \in Nat, NEW k \in Int, NEW n, NEW m,
         IsLabel(t, k, n), IsLabel(t, k, m)
  PROVE  n = m
<1> DEFINE L == Len(t)
<1>1. /\ L \in Nat /\ n \in 0 .. L - k /\ m \in 0 .. L - k
      /\ (\A j \in 1 .. n : t[k + j] # Dot) /\ (\A j \in 1 .. m : t[k + j] # Dot)
      /\ (k + n = L \/ t[k + n + 1] = Dot) /\ (k + m = L \/ t[k + m + 1] = Dot)
  BY DEF IsLabel
<1> HIDE DEF L
<1>2. ASSUME n < m PROVE FALSE
  <2>1. n + 1 \in 1 .. m /\ k + n # L /\ k + n + 1 = k + (n + 1)
    BY <1>1, <1>2
  <2>2. QED
    BY <1>1, <2>1
<1>3. ASSUME m < n PROVE FALSE
  <2>1. m + 1 \in 1 .. n /\ k + m # L /\ k + m + 1 = k + (m + 1)
    BY <1>1, <1>3
  <2>2. QED
    BY <1>1, <2>1
<1>4. QED
  BY <1>1, <1>2, <1>3

\* In a name with a dot behind each label there is one behind this.
LEMMA LabelCloses ==
  ASSUME NEW t, IsDotted(t), NEW k \in 0 .. Len(t) - 1
  PROVE  LET n == LabelLen(t, k)
         IN n \in 0 .. Len(t) - k - 1 /\ t[k + n + 1] = Dot /\ \A j \in 1 .. n : t[k + j] # Dot
<1> DEFINE L == Len(t)
           n == LabelLen(t, k)
<1>1. t \in Seq(NameByte) /\ L \in Nat /\ L > 0 /\ t[L] = Dot /\ k \in 0 .. L - 1
  BY DEF IsDotted
<1>2. IsLabel(t, k, n)
  <2>1. k \in 0 .. Len(t)
    BY <1>1
  <2>2. QED
    BY <1>1, <2>1, LabelIs
<1>3. n \in 0 .. L - k /\ (\A j \in 1 .. n : t[k + j] # Dot) /\ (k + n = L \/ t[k + n + 1] = Dot)
  BY <1>2 DEF IsLabel
<1> HIDE DEF L, n
<1>4. n # L - k
  <2>1. SUFFICES ASSUME n = L - k PROVE FALSE
    OBVIOUS
  <2>2. n \in 1 .. n /\ k + n = L
    BY <1>1, <2>1
  <2>3. QED
    BY <1>1, <1>3, <2>2
<1>5. n \in 0 .. L - k - 1 /\ t[k + n + 1] = Dot
  BY <1>1, <1>3, <1>4
<1>6. QED
  BY <1>3, <1>5 DEF L, n

-----------------------------------------------------------------------------
\* x is a and then c.
Behind(x, a, c) ==
  /\ x \in Seq(NameByte) /\ Len(x) = Len(a) + Len(c)
  /\ \A i \in 1 .. Len(a) : x[i] = a[i]
  /\ \A i \in 1 .. Len(c) : x[Len(a) + i] = c[i]
\* What is put behind a, after a count.
LEMMA BehindIs ==
  ASSUME NEW a \in Seq(NameByte), NEW c \in Seq(NameByte)
  PROVE  Behind(a \o c, a, c)
<1> DEFINE A == Len(a)
           C == Len(c)
           x == a \o c
<1>1. x \in Seq(NameByte) /\ Len(x) = A + C
      /\ \A i \in 1 .. A + C : x[i] = IF i <= A THEN a[i] ELSE c[i - A]
  BY ConcatProperties, Zenon
<1>2. A \in Nat /\ C \in Nat
  OBVIOUS
<1> HIDE DEF A, C, x
<1>3. \A i \in 1 .. A : x[i] = a[i]
  BY <1>1, <1>2
<1>4. ASSUME NEW i \in 1 .. C PROVE x[A + i] = c[i]
  <2>1. A + i \in 1 .. A + C /\ ~(A + i <= A) /\ (A + i) - A = i
    BY <1>2
  <2>2. QED
    BY <1>1, <2>1
<1>5. QED
  BY <1>1, <1>3, <1>4, Zenon DEF Behind, A, C, x

\* The beginning of l, up to its dot.
LEMMA LabelOf ==
  ASSUME NEW t, IsDotted(t), NEW p \in Nat, NEW l, IsLeft(t, p, l)
  PROVE  LET n == LabelLen(l, 0)
             after == SubSeq(l, n + 2, Len(l))
         IN /\ n \in 0 .. Len(l) /\ n = LabelLen(t, p)
            /\ \A j \in 1 .. n : l[j] = t[p + j] /\ t[p + j] # Dot
            /\ p + n + 1 <= Len(t) /\ t[p + n + 1] = Dot
            /\ after = <<>> => p + n + 1 = Len(t)
            /\ after # <<>> => IsLeft(t, p + n + 1, after)
<1> DEFINE L == Len(l)
           T == Len(t)
           n == LabelLen(l, 0)
           after == SubSeq(l, n + 2, Len(l))
<1>1. /\ p \in 0 .. T - 1 /\ (p = 0 \/ t[p] = Dot) /\ l \in Seq(NameByte)
      /\ L \in {T - p - 1, T - p} /\ (\A j \in 1 .. L : l[j] = t[p + j])
      /\ L = T - p - 1 /\ L > 0 => l[L] # Dot
      /\ T \in Nat /\ T > 0 /\ L \in Nat /\ t \in Seq(NameByte) /\ t[T] = Dot
  BY DEF IsLeft, IsDotted
<1>2. IsLabel(l, 0, n)
  <2>1. 0 \in 0 .. Len(l)
    BY <1>1
  <2>2. QED
    BY <1>1, <2>1, LabelIs
<1>3. n \in 0 .. L /\ (\A j \in 1 .. n : l[0 + j] # Dot) /\ (0 + n = L \/ l[0 + n + 1] = Dot)
  BY <1>1, <1>2 DEF IsLabel
<1>4. /\ L - 1 + 1 = L
      /\ after \in Seq(NameByte) /\ Len(after) = IF n + 2 <= L THEN L - n - 1 ELSE 0
      /\ \A i \in 1 .. L - n - 1 : after[i] = l[n + 1 + i]
  <2>1. n + 2 \in Int /\ L \in Int /\ \A i \in n + 2 .. L : l[i] \in NameByte
    BY <1>1, <1>3
  <2>2. /\ after \in Seq(NameByte) /\ Len(after) = IF n + 2 <= L THEN L - (n + 2) + 1 ELSE 0
        /\ \A i \in 1 .. L - (n + 2) + 1 : after[i] = l[(n + 2) + i - 1]
    <3> HIDE DEF n
    <3>1. QED
      BY <2>1, SubSeqProperties
  <2> HIDE DEF n, L, after
  <2>3. /\ L - (n + 2) + 1 = L - n - 1 /\ L - 1 + 1 = L
        /\ \A i \in 1 .. L - n - 1 : (n + 2) + i - 1 = n + 1 + i
    BY <1>1, <1>3
  <2>4. QED
    BY <2>2, <2>3
<1> HIDE DEF L, T, n, after
<1>5. after = <<>> <=> Len(after) = 0
  BY <1>4, EmptySeq
<1>0. p \in Int /\ L \in Int /\ T \in Int /\ n \in Int /\ 0 <= p /\ p < T /\ 0 <= n /\ n <= L
      /\ (L = T - p - 1 \/ L = T - p)
  BY <1>1, <1>3
<1>6. \A j \in 1 .. n : 0 + j = j /\ j \in 1 .. L
  BY <1>1, <1>3
<1>7. \A j \in 1 .. n : l[j] = t[p + j] /\ t[p + j] # Dot
  BY <1>1, <1>3, <1>6
<1>8. n < L => l[n + 1] = Dot /\ t[p + n + 1] = Dot
  <2>1. n < L => n + 1 \in 1 .. L /\ p + (n + 1) = p + n + 1 /\ 0 + n # L /\ 0 + n + 1 = n + 1
    BY <1>1, <1>3
  <2>2. QED
    BY <1>1, <1>3, <2>1
<1>9. n = L => p + n + 1 = T
  <2>1. ASSUME n = L, L = T - p PROVE FALSE
    <3>1. n \in 1 .. n /\ p + n = T
      BY <1>1, <2>1
    <3>2. QED
      BY <1>1, <1>7, <3>1
  <2>2. QED
    BY <1>1, <2>1
<1>10. p + n + 1 <= T /\ t[p + n + 1] = Dot
  <2>1. p + n + 1 <= T
    BY <1>0, <1>9
  <2>2. CASE n = L
    BY <1>1, <1>9, <2>1, <2>2
  <2>3. CASE n # L
    BY <1>0, <1>8, <2>1, <2>3
  <2>4. QED
    BY <2>2, <2>3
<1>11. n = LabelLen(t, p)
  <2>1. IsLabel(t, p, n)
    <3>1. n \in 0 .. T - p
      BY <1>1, <1>3, <1>10
    <3>2. QED
      BY <1>7, <1>10, <3>1 DEF IsLabel, T
  <2>2. IsLabel(t, p, LabelLen(t, p))
    <3>1. p \in 0 .. Len(t)
      BY <1>1 DEF T
    <3>2. QED
      BY <1>1, <3>1, LabelIs
  <2>3. Len(t) \in Nat /\ p \in Int
    BY <1>1 DEF T
  <2>4. QED
    BY <2>1, <2>2, <2>3, LabelOnly
<1>12. after = <<>> => p + n + 1 = T
  <2>1. ASSUME after = <<>>, n # L PROVE p + n + 1 = T
    <3>1. n + 1 = L
      BY <1>1, <1>3, <1>4, <1>5, <2>1
    <3>2. l[L] = Dot
      BY <1>1, <1>3, <1>8, <3>1
    <3>3. L # T - p - 1
      BY <1>0, <1>1, <3>1, <3>2
    <3>4. QED
      BY <1>0, <3>1, <3>3
  <2>2. QED
    BY <1>9, <2>1
<1>13. ASSUME after # <<>> PROVE IsLeft(t, p + n + 1, after)
  <2>1. n + 2 <= L /\ Len(after) = L - n - 1
    BY <1>1, <1>3, <1>4, <1>5, <1>13
  <2>0. L \in {T - p - 1, T - p} /\ T \in Nat /\ p \in Nat /\ n \in Nat /\ L \in Nat
    BY <1>1, <1>3
  <2>2. p + n + 1 \in 0 .. T - 1 /\ Len(after) \in {T - (p + n + 1) - 1, T - (p + n + 1)}
    <3> DEFINE A == Len(after)
    <3>1. A = L - n - 1
      BY <2>1
    <3> HIDE DEF A, L, T
    <3>2. QED
      BY <2>0, <2>1, <3>1 DEF A
  <2>3. ASSUME NEW j \in 1 .. Len(after) PROVE after[j] = t[(p + n + 1) + j]
    <3>1. j \in 1 .. L - n - 1 /\ n + 1 + j \in 1 .. L /\ p + (n + 1 + j) = (p + n + 1) + j
      BY <1>0, <2>1
    <3>2. QED
      BY <1>1, <1>4, <3>1
  <2>4. ASSUME Len(after) = T - (p + n + 1) - 1 PROVE after[Len(after)] # Dot
    <3>1. L = T - p - 1 /\ L > 0 /\ Len(after) \in 1 .. L - n - 1 /\ n + 1 + Len(after) = L
      BY <1>1, <1>3, <2>1, <2>4
    <3>2. QED
      BY <1>1, <1>4, <3>1
  <2>5. QED
    BY <1>4, <1>10, <2>2, <2>3, <2>4 DEF IsLeft, T
<1>14. QED
  BY <1>3, <1>7, <1>10, <1>11, <1>12, <1>13 DEF L, T, n, after

\* Behind the last dot there is nothing.
LEMMA CodedEnd ==
  ASSUME NEW t, IsDotted(t)
  PROVE  Coded(t, Len(t)) = 0
<1>1. t \in Seq(NameByte) /\ Len(t) \in Nat /\ t[Len(t)] = Dot /\ Len(t) \in 0 .. Len(t)
  BY DEF IsDotted
<1>2. IsLabel(t, Len(t), LabelLen(t, Len(t)))
  BY <1>1, LabelIs
<1>3. LabelLen(t, Len(t)) \in 0 .. Len(t) - Len(t)
  BY <1>2 DEF IsLabel
<1>4. QED
  BY <1>1, <1>3 DEF Coded

\* The round that writes a label.
IsWritten(m, b, t, n, after, more) ==
  /\ more \in Seq(NameByte)
  /\ Len(more) = Len(m) + n + 1 + IF after = <<>> THEN 1 ELSE 0
  /\ Carries(more, b, t, Len(more) - b + 1)
  /\ after = <<>> => Len(more) - b + 1 = Len(t) + 1
\* A label written: the message carries as much more of the name.
LEMMA LabelWritten ==
  ASSUME NEW m \in Seq(NameByte), NEW b \in Nat \ {0}, NEW t, IsDotted(t),
         NEW p \in Nat, p = Len(m) - b + 1, NEW l, IsLeft(t, p, l), Carries(m, b, t, p),
         LabelLen(l, 0) < 2 * Quarter
  PROVE  LET n == LabelLen(l, 0)
             after == SubSeq(l, n + 2, Len(l))
             more == m \o <<n>> \o SubSeq(l, 1, n) \o IF after = <<>> THEN <<0>> ELSE <<>>
         IN IsWritten(m, b, t, n, after, more)
<1> DEFINE M == Len(m)
           T == Len(t)
           n == LabelLen(l, 0)
           after == SubSeq(l, n + 2, Len(l))
           w == SubSeq(l, 1, n)
           e == IF after = <<>> THEN <<0>> ELSE <<>>
           x == m \o <<n>>
           y == x \o w
           z == y \o e
           more == m \o <<n>> \o SubSeq(l, 1, n) \o IF after = <<>> THEN <<0>> ELSE <<>>
<1>1. /\ n \in 0 .. Len(l) /\ n = LabelLen(t, p)
      /\ \A j \in 1 .. n : l[j] = t[p + j] /\ t[p + j] # Dot
      /\ p + n + 1 <= T /\ t[p + n + 1] = Dot
      /\ after = <<>> => p + n + 1 = T
  BY LabelOf
<1>2. /\ p \in 0 .. T - 1 /\ (p = 0 \/ t[p] = Dot) /\ l \in Seq(NameByte) /\ Len(l) \in Nat
      /\ T \in Nat /\ M \in Nat /\ p = M - b + 1
  BY SMTT(30) DEF IsLeft, IsDotted
<1>3. <<n>> \in Seq(NameByte) /\ Len(<<n>>) = 1 /\ <<n>>[1] = n
  <2>1. n \in NameByte
    <3>1. n \in Nat /\ n < 2 * Quarter
      BY <1>1, <1>2
    <3> HIDE DEF n
    <3>2. QED
      BY <3>1, MgNamesAssumption DEF NameByte
  <2> HIDE DEF n
  <2>2. QED
    BY <2>1
<1>4. w \in Seq(NameByte) /\ Len(w) = n /\ \A j \in 1 .. n : w[j] = l[j]
  <2>1. \A i \in 1 .. n : l[i] \in NameByte
    BY <1>1, <1>2, SMTT(30)
  <2>2. 1 \in Int /\ n \in Int /\ n >= 0
    BY <1>1
  <2> HIDE DEF n
  <2>3. w \in Seq(NameByte) /\ Len(w) = (IF 1 <= n THEN n - 1 + 1 ELSE 0)
        /\ \A i \in 1 .. n - 1 + 1 : w[i] = l[1 + i - 1]
    BY <2>1, <2>2, SubSeqProperties
  <2>4. n - 1 + 1 = n /\ (IF 1 <= n THEN n - 1 + 1 ELSE 0) = n /\ \A i \in 1 .. n : 1 + i - 1 = i
    BY <2>2
  <2> HIDE DEF w
  <2>5. QED
    BY <2>3, <2>4
<1>5. /\ e \in Seq(NameByte) /\ Len(e) = (IF after = <<>> THEN 1 ELSE 0)
      /\ after = <<>> => e[1] = 0
  <2>1. 0 \in NameByte
    BY MgNamesAssumption DEF NameByte
  <2> HIDE DEF after
  <2>2. QED
    BY <2>1
<1>6. more = z
  OBVIOUS
<1> HIDE DEF n, w, e, after, more
<1>7. Behind(x, m, <<n>>)
  BY <1>3, BehindIs
<1>8. Behind(y, x, w)
  BY <1>4, <1>7, BehindIs, Zenon DEF Behind
<1>9. Behind(z, y, e)
  <2>1. y \in Seq(NameByte) /\ e \in Seq(NameByte)
    BY <1>5, <1>8, Zenon DEF Behind
  <2>2. QED
    BY <2>1, BehindIs
<1> HIDE DEF x, y, z
<1>10. /\ x \in Seq(NameByte) /\ Len(x) = M + 1
       /\ (\A i \in 1 .. M : x[i] = m[i]) /\ x[M + 1] = n
  BY <1>2, <1>3, <1>7 DEF Behind
<1>11. /\ y \in Seq(NameByte) /\ Len(y) = M + 1 + n
       /\ (\A i \in 1 .. M + 1 : y[i] = x[i]) /\ \A i \in 1 .. n : y[M + 1 + i] = w[i]
  BY <1>4, <1>8, <1>10 DEF Behind
<1>12. /\ z \in Seq(NameByte) /\ Len(z) = M + 1 + n + Len(e)
       /\ (\A i \in 1 .. M + 1 + n : z[i] = y[i])
       /\ after = <<>> => z[M + 1 + n + 1] = 0
  <2>1. after = <<>> => 1 \in 1 .. Len(e)
    BY <1>5
  <2>2. QED
    BY <1>5, <1>9, <1>11, <2>1 DEF Behind
<1> HIDE DEF M, T
<1>13. p \in Int /\ n \in Nat /\ M \in Nat /\ b \in Nat /\ b >= 1 /\ 0 <= p /\ p = M - b + 1
  BY <1>1, <1>2
<1>14. ASSUME NEW k \in 0 .. p - 1 PROVE z[b + k] = Coded(t, k)
  <2>1. b + k \in 1 .. M
    BY <1>13
  <2>2. b + k \in 1 .. M + 1 /\ b + k \in 1 .. M + 1 + n
    BY <1>13, <2>1
  <2>3. m[b + k] = Coded(t, k)
    BY DEF Carries
  <2>4. QED
    BY <1>10, <1>11, <1>12, <2>1, <2>2, <2>3
<1>15. z[b + p] = Coded(t, p)
  <2>1. b + p = M + 1 /\ M + 1 \in 1 .. M + 1 /\ M + 1 \in 1 .. M + 1 + n
    BY <1>13
  <2>2. Coded(t, p) = n
    BY <1>1, <1>2 DEF Coded
  <2>3. QED
    BY <1>10, <1>11, <1>12, <2>1, <2>2
<1>16. ASSUME NEW j \in 1 .. n PROVE z[b + (p + j)] = Coded(t, p + j)
  <2>1. b + (p + j) = M + 1 + j /\ M + 1 + j \in 1 .. M + 1 + n /\ p + j # 0
    BY <1>13
  <2>2. Coded(t, p + j) = t[p + j]
    BY <1>1, <2>1 DEF Coded
  <2>3. z[M + 1 + j] = w[j] /\ w[j] = l[j]
    BY <1>4, <1>11, <1>12, <2>1, SMTT(30)
  <2>4. QED
    BY <1>1, <2>1, <2>2, <2>3
<1>17. after = <<>> => z[b + (p + n + 1)] = Coded(t, p + n + 1)
  <2>1. b + (p + n + 1) = M + 1 + n + 1
    BY <1>13
  <2>2. after = <<>> => Coded(t, p + n + 1) = 0
    BY <1>1, CodedEnd DEF T
  <2>3. QED
    BY <1>12, <2>1, <2>2
<1>18. Len(z) = M + n + 1 + (IF after = <<>> THEN 1 ELSE 0)
  <2>1. Len(z) = M + 1 + n + Len(e) /\ Len(e) \in {0, 1} /\ Len(e) = IF after = <<>> THEN 1 ELSE 0
    BY <1>5, <1>12
  <2>2. QED
    BY <1>13, <2>1
<1>19. Carries(z, b, t, Len(z) - b + 1)
  <2>1. Len(z) \in Nat /\ b >= 1 /\ b - 1 + (Len(z) - b + 1) <= Len(z)
    BY <1>13, <1>18
  <2>2. ASSUME NEW k \in 0 .. (Len(z) - b + 1) - 1 PROVE z[b + k] = Coded(t, k)
    <3>1. CASE k < p
      BY <1>13, <1>14, <3>1
    <3>2. CASE k = p
      BY <1>15, <3>2
    <3>3. CASE k \in p + 1 .. p + n
      <4>1. k - p \in 1 .. n /\ p + (k - p) = k
        BY <1>13, <3>3
      <4>2. QED
        BY <1>16, <4>1
    <3>4. CASE k > p + n
      <4>1. after = <<>> /\ k = p + n + 1
        BY <1>13, <1>18, <3>4
      <4>2. QED
        BY <1>17, <4>1
    <3>5. QED
      BY <1>13, <3>1, <3>2, <3>3, <3>4
  <2>3. QED
    BY <2>1, <2>2 DEF Carries
<1>20. after = <<>> => Len(z) - b + 1 = T + 1
  <2>1. after = <<>> => Len(z) = M + n + 2 /\ T = p + n + 1
    BY <1>1, <1>13, <1>18
  <2>2. QED
    BY <1>13, <2>1
<1>21. QED
  BY <1>6, <1>12, <1>18, <1>19, <1>20 DEF IsWritten, more, n, after, M, T

-----------------------------------------------------------------------------
\* The byte behind the first k of a name: the end, or a count.
IsAt(m, b, t, k) ==
  /\ b + Len(t) <= Len(m)
  /\ k = Len(t) => m[b + k] = 0
  /\ k < Len(t) =>
       /\ m[b + k] \in 1 .. Quarter - 1 /\ k + m[b + k] + 1 <= Len(t)
       /\ t[k + m[b + k] + 1] = Dot
       /\ \A j \in 1 .. m[b + k] : m[b + k + j] = t[k + j]
\* A reader in the name finds a label where the name has one.
LEMMA AtLabel ==
  ASSUME NEW m \in Seq(NameByte), NEW b \in Nat \ {0}, NEW t, IsDotted(t), Readable(t),
         Carries(m, b, t, Len(t) + 1), NEW k \in 0 .. Len(t), k = 0 \/ t[k] = Dot
  PROVE  IsAt(m, b, t, k)
<1> DEFINE T == Len(t)
           M == Len(m)
           n == m[b + k]
<1>1. /\ T \in Nat /\ T > 0 /\ M \in Nat /\ t[T] = Dot /\ k \in 0 .. T /\ t \in Seq(NameByte)
      /\ b - 1 + (T + 1) <= M
      /\ \A i \in 0 .. T + 1 - 1 : m[b + i] = Coded(t, i)
  BY DEF IsDotted, Carries
<1>2. T + 1 - 1 = T
  BY <1>1
<1>3. b + T <= M
  BY <1>1
<1>4. n = LabelLen(t, k)
  <2>1. k \in 0 .. T + 1 - 1
    BY <1>1, <1>2
  <2>2. Coded(t, k) = LabelLen(t, k)
    BY DEF Coded
  <2>3. QED
    BY <1>1, <2>1, <2>2
<1>5. k = T => n = 0
  <2>1. k = T => Coded(t, k) = 0
    BY CodedEnd
  <2>2. Coded(t, k) = LabelLen(t, k)
    BY DEF Coded
  <2>3. QED
    BY <1>4, <2>1, <2>2
<1>6. ASSUME k < T
      PROVE  /\ n \in 1 .. Quarter - 1 /\ k + n + 1 <= T /\ t[k + n + 1] = Dot
             /\ \A j \in 1 .. n : m[b + k + j] = t[k + j]
  <2>1. k \in 0 .. T - 1
    BY <1>1, <1>6
  <2>2. n \in 1 .. Quarter - 1
    BY <1>4, <2>1 DEF Readable
  <2>3. n \in 0 .. T - k - 1 /\ t[k + n + 1] = Dot /\ \A j \in 1 .. n : t[k + j] # Dot
    BY <1>4, <2>1, LabelCloses
  <2> HIDE DEF n, T, M
  <2>4. ASSUME NEW j \in 1 .. n PROVE m[b + k + j] = t[k + j]
    <3>1. k + j \in 0 .. T + 1 - 1 /\ b + (k + j) = b + k + j /\ k + j # 0
      BY <1>1, <2>3
    <3>2. Coded(t, k + j) = t[k + j]
      BY <2>3, <3>1 DEF Coded
    <3>3. QED
      BY <1>1, <3>1, <3>2
  <2>5. k + n + 1 <= T
    BY <1>1, <2>3
  <2>6. QED
    BY <2>2, <2>3, <2>4, <2>5
<1>7. QED
  BY <1>3, <1>5, <1>6 DEF IsAt

\* n bytes of the label at p go behind d.
IsChunk(n, m, p, d, s) == n = Chunk(m[p], s - Len(d))

\* What a label, or as much of it as there is room for, is copied to.
IsCopied(m, d, s, p, n, more) ==
  /\ n \in 0 .. m[p] /\ more \in Seq(NameByte)
  /\ Len(more) = Len(d) + n /\ Len(more) <= s
  /\ Len(more) # s => n = m[p]
  /\ \A j \in 1 .. Len(d) : more[j] = d[j]
  /\ \A j \in 1 .. n : more[Len(d) + j] = m[p + j]
\* What has been written, after the copy.
LEMMA LabelCopied ==
  ASSUME NEW m \in Seq(NameByte), NEW d \in Seq(NameByte), NEW s \in Nat, Len(d) <= s,
         NEW p \in 1 .. Len(m), NEW n \in Nat, IsChunk(n, m, p, d, s), p + n < Len(m)
  PROVE  IsCopied(m, d, s, p, n, d \o SubSeq(m, p + 1, p + n))
<1> DEFINE M == Len(m)
           D == Len(d)
           c == m[p]
           w == SubSeq(m, p + 1, p + n)
           more == d \o w
<1>1. /\ M \in Nat /\ D \in Nat /\ c \in Nat /\ p \in 1 .. M /\ D <= s
      /\ n = (IF c > s - D THEN s - D ELSE c)
  BY MgNamesAssumption, SMTT(30) DEF NameByte, Chunk, IsChunk
<1> HIDE DEF c, D, M
<1>2. n \in Nat /\ n <= c /\ D + n <= s /\ (D + n # s => n = c) /\ n \in 0 .. c
  BY <1>1
<1>3. w \in Seq(NameByte) /\ Len(w) = n /\ \A j \in 1 .. n : w[j] = m[p + j]
  <2>1. p + n < M /\ \A i \in 1 .. M : m[i] \in NameByte
    BY DEF M
  <2>2. p + 1 \in Int /\ p + n \in Int /\ \A i \in (p + 1) .. (p + n) : m[i] \in NameByte
    BY <1>1, <1>2, <2>1
  <2>3. w \in Seq(NameByte) /\ Len(w) = (IF p + 1 <= p + n THEN (p + n) - (p + 1) + 1 ELSE 0)
        /\ \A i \in 1 .. (p + n) - (p + 1) + 1 : w[i] = m[(p + 1) + i - 1]
    BY <2>2, SubSeqProperties
  <2>4. (p + n) - (p + 1) + 1 = n
        /\ (IF p + 1 <= p + n THEN (p + n) - (p + 1) + 1 ELSE 0) = n
        /\ \A i \in 1 .. n : (p + 1) + i - 1 = p + i
    BY <1>1, <1>2
  <2> HIDE DEF w
  <2>5. QED
    BY <2>3, <2>4
<1> HIDE DEF w
<1>4. Behind(more, d, w)
  BY <1>3, BehindIs
<1> HIDE DEF more
<1>5. /\ more \in Seq(NameByte) /\ Len(more) = D + n
      /\ (\A i \in 1 .. D : more[i] = d[i]) /\ \A i \in 1 .. n : more[D + i] = m[p + i]
  BY <1>3, <1>4 DEF Behind, D
<1>6. Len(more) <= s /\ (Len(more) # s => n = c)
  BY <1>2, <1>5
<1>7. QED
  BY <1>2, <1>5, <1>6 DEF IsCopied, more, w, D, c

\* A label of the name spelled on.
LEMMA SpeltOn ==
  ASSUME NEW m \in Seq(NameByte), NEW b \in Nat \ {0}, NEW t, IsDotted(t), Readable(t),
         Carries(m, b, t, Len(t) + 1),
         NEW d \in Seq(NameByte), NEW s \in Nat, Len(d) <= s, NEW q \in Nat,
         NEW p \in 1 .. Len(m), m[p] # 0, Spelt(t, p - b, d, q),
         NEW n \in Nat, IsChunk(n, m, p, d, s), p + n < Len(m)
  PROVE  LET more == d \o SubSeq(m, p + 1, p + n)
         IN /\ Len(more) = s => SpeltAll(t, more, q, s)
            /\ Len(more) # s => Spelt(t, p + n + 1 - b, Append(more, Dot), q)
<1> DEFINE k == p - b
           T == Len(t)
           D == Len(d)
           c == m[p]
           more == d \o SubSeq(m, p + 1, p + n)
           E == Len(more)
<1>1. /\ k \in 0 .. T /\ (k = 0 \/ t[k] = Dot) /\ D = q + k /\ (\A j \in 1 .. k : d[q + j] = t[j])
      /\ p \in Nat /\ D \in Nat /\ T \in Nat
  BY DEF Spelt, IsDotted
<1>2. b + k = p
  BY <1>1
<1>3. k < T /\ c \in 1 .. Quarter - 1 /\ k + c + 1 <= T /\ t[k + c + 1] = Dot
      /\ \A j \in 1 .. c : m[p + j] = t[k + j]
  <2>1. IsAt(m, b, t, k)
    <3> HIDE DEF k
    <3>1. QED
      BY <1>1, AtLabel
  <2> HIDE DEF k
  <2>2. k # T
    BY <1>2, <2>1 DEF IsAt
  <2>3. k < T
    <3> HIDE DEF T
    <3>1. QED
      BY <1>1, <2>2
  <2>4. QED
    BY <1>2, <2>1, <2>3 DEF IsAt
<1>4. /\ n \in 0 .. c /\ more \in Seq(NameByte) /\ E = D + n /\ E <= s /\ (E # s => n = c)
      /\ (\A j \in 1 .. D : more[j] = d[j]) /\ \A j \in 1 .. n : more[D + j] = m[p + j]
  <2>1. IsCopied(m, d, s, p, n, more)
    BY LabelCopied
  <2> HIDE DEF more
  <2>2. QED
    BY <2>1 DEF IsCopied
<1> HIDE DEF k, T, D, c, E, more
<1>0. /\ k \in Int /\ 0 <= k /\ k <= T /\ T \in Int /\ D = q + k /\ p \in Int /\ D \in Int
      /\ n \in Int /\ 0 <= n /\ E = D + n /\ E <= s /\ b \in Int /\ q \in Int /\ s \in Int
  BY <1>1, <1>4
<1>5. c \in Int /\ E \in Int /\ n <= c /\ (E # s => n = c) /\ k + c + 1 <= T /\ E = q + k + n
  BY <1>0, <1>3, <1>4
<1>6. ASSUME NEW j \in 1 .. k + n PROVE more[q + j] = t[j]
  <2>1. CASE j <= k
    <3>1. j \in 1 .. k /\ q + j \in 1 .. D
      BY <1>0, <2>1
    <3>2. QED
      BY <1>1, <1>4, <3>1
  <2>2. CASE j > k
    <3>1. j \in Int /\ j <= k + n
      BY <1>0
    <3>2. j - k \in 1 .. n /\ j - k \in 1 .. c /\ D + (j - k) = q + j /\ k + (j - k) = j
      BY <1>0, <1>5, <2>2, <3>1
    <3>3. QED
      BY <1>3, <1>4, <3>2
  <2>3. QED
    BY <1>0, <2>1, <2>2
<1>7. ASSUME E = s PROVE SpeltAll(t, more, q, s)
  <2>1. ~(q + T - 1 < s) /\ E - q = k + n
    BY <1>0, <1>5, <1>7
  <2>2. QED
    BY <1>6, <1>7, <2>1 DEF SpeltAll, E, T
<1>8. ASSUME E # s PROVE Spelt(t, p + n + 1 - b, Append(more, Dot), q)
  <2>1. n = c /\ p + n + 1 - b = k + c + 1
    BY <1>0, <1>2, <1>5, <1>8
  <2>0. Dot \in NameByte
    BY MgNamesAssumption DEF NameByte
  <2>2. Len(Append(more, Dot)) = E + 1 /\ Append(more, Dot)[E + 1] = Dot
        /\ \A j \in 1 .. E : Append(more, Dot)[j] = more[j]
    BY <1>4, <2>0 DEF E
  <2> DEFINE x == Append(more, Dot)
  <2> HIDE DEF x
  <2>3. ASSUME NEW j \in 1 .. k + c + 1 PROVE x[q + j] = t[j]
    <3>1. CASE j = k + c + 1
      <4>1. q + j = E + 1
        BY <1>0, <1>5, <2>1, <3>1
      <4>2. QED
        BY <1>3, <2>2, <3>1, <4>1 DEF x
    <3>2. CASE j # k + c + 1
      <4>1. j \in 1 .. k + n /\ q + j \in 1 .. E
        BY <1>0, <1>5, <2>1, <3>2
      <4>2. QED
        BY <1>6, <2>2, <4>1 DEF x
    <3>3. QED
      BY <3>1, <3>2
  <2>4. k + c + 1 \in 0 .. T /\ Len(x) = q + (k + c + 1)
    BY <1>1, <1>3, <1>5, <2>1, <2>2 DEF x
  <2>5. Spelt(t, k + c + 1, x, q)
    BY <1>3, <2>3, <2>4 DEF Spelt, T
  <2>6. QED
    BY <2>1, <2>5 DEF x
<1>9. QED
  BY <1>7, <1>8 DEF E, more

\* Its end.
LEMMA SpeltToTheEnd ==
  ASSUME NEW m \in Seq(NameByte), NEW b \in Nat \ {0}, NEW t, IsDotted(t), Readable(t),
         Carries(m, b, t, Len(t) + 1),
         NEW d \in Seq(NameByte), NEW s \in Nat, Len(d) <= s, NEW q \in Nat,
         NEW p \in 1 .. Len(m), m[p] = 0, Spelt(t, p - b, d, q)
  PROVE  d # <<>> /\ SpeltAll(t, Front(d), q, s)
<1> DEFINE k == p - b
           T == Len(t)
           D == Len(d)
<1>1. /\ k \in 0 .. T /\ (k = 0 \/ t[k] = Dot) /\ D = q + k /\ (\A j \in 1 .. k : d[q + j] = t[j])
      /\ p \in Nat /\ D \in Nat /\ T \in Nat /\ T > 0
  BY DEF Spelt, IsDotted
<1>2. b + k = p /\ k \in Int /\ 0 <= k /\ k <= T
  BY <1>1
<1>3. k = T
  <2>1. IsAt(m, b, t, k)
    <3> HIDE DEF k
    <3>1. QED
      BY <1>1, AtLabel
  <2>2. ~(k < T)
    <3> HIDE DEF k
    <3>1. k < T => m[b + k] # 0
      BY <2>1 DEF IsAt
    <3>2. QED
      BY <1>2, <3>1
  <2> HIDE DEF k, T
  <2>3. QED
    BY <1>1, <1>2, <2>2
<1> HIDE DEF k, T
<1>0. T \in Int /\ T > 0 /\ k = T /\ D = q + T /\ D \in Int
  BY <1>1, <1>3
<1>4. d # <<>> /\ D > 0
  BY <1>1, <1>3
<1>5. Len(Front(d)) = D - 1 /\ \A j \in 1 .. D - 1 : Front(d)[j] = d[j]
  BY <1>1, <1>4 DEF Front
<1> HIDE DEF D
<1> DEFINE f == Front(d)
<1> HIDE DEF f
<1>6. Len(f) = q + T - 1 /\ q + T - 1 < s
  BY <1>1, <1>3, <1>5 DEF f, D
<1>7. ASSUME NEW j \in 1 .. Len(f) - q PROVE f[q + j] = t[j]
  <2>1. j \in 1 .. k /\ q + j \in 1 .. D - 1
    BY <1>0, <1>6
  <2>2. QED
    BY <1>1, <1>5, <2>1 DEF f
<1>8. QED
  BY <1>4, <1>6, <1>7 DEF SpeltAll, T, f

-----------------------------------------------------------------------------
(* The steps.                                                              *)

\* What is chosen to be in a message is bytes.
LEMMA StringsAre ==
  ASSUME NEW S \in SUBSET NameByte, NEW n, NEW x \in Strings(S, n)
  PROVE  x \in Seq(NameByte)
<1>1. CASE x = <<>>
  BY <1>1
<1>2. CASE x # <<>>
  <2>1. PICK k \in 1 .. n : x \in [1 .. k -> S]
    BY <1>2 DEF Strings
  <2>2. QED
    BY <2>1
<1>3. QED
  BY <1>1, <1>2

\* The invariant holds at first, and after each step.
LEMMA NamesInitInv == NamesInit => NamesInv
<1> SUFFICES ASSUME NamesInit PROVE NamesInv
  OBVIOUS
<1> USE DEF NamesInit
<1>1. NamesType
  BY DEF NamesType
<1>2. NamesWritten
  BY DEF NamesWritten
<1>3. NamesRead
  BY MgNamesAssumption DEF NamesRead
<1>4. QED
  BY <1>1, <1>2, <1>3 DEF NamesInv

\* The name to be encoded is given.
LEMMA EncodeNameInv == NamesInv /\ EncodeName => NamesInv'
<1> SUFFICES ASSUME NamesInv, EncodeName PROVE NamesInv'
  OBVIOUS
<1>1. PICK before \in Strings(Sent, MaxMsg) :
        \E t \in Strings(Sent \cup {Dot}, MaxMsg - Len(before)) :
          /\ msg' = before /\ begins' = Len(before) + 1 /\ left' = t
          /\ text' = IF t # <<>> /\ Last(t) = Dot THEN t ELSE Append(t, Dot)
  BY Zenon DEF EncodeName
<1>2. PICK t \in Strings(Sent \cup {Dot}, MaxMsg - Len(before)) :
        /\ msg' = before /\ begins' = Len(before) + 1 /\ left' = t
        /\ text' = IF t # <<>> /\ Last(t) = Dot THEN t ELSE Append(t, Dot)
  BY <1>1
<1>3. Sent \in SUBSET NameByte /\ Sent \cup {Dot} \in SUBSET NameByte /\ Dot \in NameByte
  BY MgNamesAssumption DEF NameByte
<1>4. before \in Seq(NameByte) /\ t \in Seq(NameByte)
  BY <1>3, StringsAre
<1>5. /\ phase' = "encode" /\ data' = data /\ dst' = dst /\ dstLen' = dstLen /\ hops' = hops
      /\ met' = met /\ rounds' = rounds /\ phase = "none"
  BY DEF EncodeName, reader
<1>6. IsDotted(text') /\ IsLeft(text', 0, t)
  <2>1. CASE t # <<>> /\ Last(t) = Dot
    <3>1. text' = t /\ Len(t) \in Nat /\ Len(t) > 0 /\ t[Len(t)] = Dot
      BY <1>2, <1>4, <2>1 DEF Last
    <3>2. QED
      BY <1>4, <3>1 DEF IsDotted, IsLeft
  <2>2. CASE ~(t # <<>> /\ Last(t) = Dot)
    <3>1. text' = Append(t, Dot)
      BY <1>2, <2>2
    <3>2. /\ text' \in Seq(NameByte) /\ Len(text') = Len(t) + 1 /\ text'[Len(t) + 1] = Dot
          /\ \A j \in 1 .. Len(t) : text'[j] = t[j]
          /\ Len(t) \in Nat
      BY <1>3, <1>4, <3>1
    <3>3. Len(t) > 0 => t[Len(t)] # Dot
      BY <1>4, <2>2 DEF Last
    <3> DEFINE x == text'
               L == Len(t)
    <3> HIDE DEF x, L
    <3>4. IsDotted(x)
      BY <3>2 DEF IsDotted, x, L
    <3>5. 0 \in 0 .. Len(x) - 1 /\ L \in {Len(x) - 0 - 1, Len(x) - 0}
          /\ \A j \in 1 .. L : 0 + j = j
      BY <3>2 DEF x, L
    <3>6. \A j \in 1 .. L : t[j] = x[0 + j]
      BY <3>2, <3>5 DEF x, L
    <3>7. IsLeft(x, 0, t)
      BY <1>4, <3>3, <3>5, <3>6 DEF IsLeft, L
    <3>8. QED
      BY <3>4, <3>7 DEF x
  <2>3. QED
    BY <2>1, <2>2
<1>7. NamesType'
  BY <1>2, <1>4, <1>5 DEF NamesInv, NamesType
<1>8. NamesWritten'
  <2>1. begins' > 0 /\ Len(msg') - begins' + 1 = 0 /\ text' # <<>>
    BY <1>2, <1>4, <1>6 DEF IsDotted
  <2>2. Carries(msg', begins', text', 0)
    BY <1>2, <1>4 DEF Carries
  <2>3. QED
    BY <1>2, <1>5, <1>6, <2>1, <2>2 DEF NamesWritten
<1>9. NamesRead'
  <2>1. NamesRead
    BY DEF NamesInv
  <2>2. begins' > 0
    BY <1>2, <1>4
  <2>3. QED
    BY <1>5, <2>1, <2>2 DEF NamesRead
<1>10. QED
  BY <1>7, <1>8, <1>9 DEF NamesInv

\* One label written.
LEMMA EncodeLabelInv == NamesInv /\ EncodeLabel => NamesInv'
<1> SUFFICES ASSUME NamesInv, EncodeLabel PROVE NamesInv'
  OBVIOUS
<1> DEFINE n == LabelLen(left, 0)
           behind == SubSeq(left, n + 2, Len(left))
           more == msg \o <<n>> \o SubSeq(left, 1, n) \o IF behind = <<>> THEN <<0>> ELSE <<>>
           p == Len(msg) - begins + 1
<1>1. /\ text' = text /\ begins' = begins /\ data' = data /\ dst' = dst /\ dstLen' = dstLen
      /\ hops' = hops /\ met' = met /\ rounds' = rounds /\ phase = "encode"
  BY DEF EncodeLabel, reader
<1>2. \/ phase' = "failed" /\ msg' = msg /\ left' = left
      \/ /\ n < 2 * Quarter /\ msg' = more /\ left' = behind
         /\ phase' = IF behind = <<>> THEN "encoded" ELSE "encode"
  BY DEF EncodeLabel
<1>3. /\ begins > 0 /\ begins \in Nat \ {0} /\ IsLeft(text, p, left) /\ Carries(msg, begins, text, p)
      /\ IsDotted(text) /\ msg \in Seq(NameByte)
  BY <1>1 DEF NamesInv, NamesType, NamesWritten
<1>4. p \in Nat
  <2> HIDE DEF p
  <2>1. QED
    BY <1>3 DEF IsLeft, IsDotted
<1>5. phase' \in {"failed", "encoded", "encode"}
  BY <1>2
<1>6. NamesRead'
  <2>1. NamesRead
    BY DEF NamesInv
  <2>2. QED
    BY <1>1, <1>5, <2>1 DEF NamesRead
<1>7. CASE phase' = "failed"
  <2>1. NamesType' /\ NamesWritten'
    <3>1. msg' = msg
      <4> HIDE DEF n, behind, more
      <4>1. QED
        BY <1>2, <1>7
    <3>2. QED
      BY <1>1, <1>7, <3>1 DEF NamesInv, NamesType, NamesWritten
  <2>2. QED
    BY <1>6, <2>1 DEF NamesInv
<1>8. CASE phase' # "failed"
  <2>1. n < 2 * Quarter /\ msg' = more /\ left' = behind
        /\ phase' = IF behind = <<>> THEN "encoded" ELSE "encode"
    <3> HIDE DEF n, behind, more
    <3>1. QED
      BY <1>2, <1>8
  <2>2. /\ more \in Seq(NameByte)
        /\ Len(more) = Len(msg) + n + 1 + IF behind = <<>> THEN 1 ELSE 0
        /\ Carries(more, begins, text, Len(more) - begins + 1)
        /\ behind = <<>> => Len(more) - begins + 1 = Len(text) + 1
    <3>1. IsWritten(msg, begins, text, n, behind, more)
      BY <1>3, <1>4, <2>1, LabelWritten
    <3> HIDE DEF n, behind, more
    <3>2. QED
      BY <3>1 DEF IsWritten
  <2>3. n \in 0 .. Len(left) /\ (behind # <<>> => IsLeft(text, p + n + 1, behind))
    <3> HIDE DEF p
    <3>1. QED
      BY <1>3, <1>4, LabelOf
  <2>4. NamesType'
    BY <1>1, <1>5, <2>1, <2>2 DEF NamesInv, NamesType
  <2>5. NamesWritten'
    <3>1. CASE behind = <<>>
      <4>1. phase' = "encoded" /\ Carries(msg', begins', text', Len(text') + 1)
        BY <1>1, <2>1, <2>2, <3>1
      <4>2. QED
        BY <1>1, <1>3, <4>1 DEF NamesInv, NamesWritten
    <3>2. CASE behind # <<>>
      <4>1. phase' = "encode" /\ Carries(msg', begins', text', Len(msg') - begins' + 1)
        BY <1>1, <2>1, <2>2, <3>2
      <4>2. Len(more) - begins + 1 = p + n + 1
        <5>1. Len(more) = Len(msg) + n + 1 /\ Len(msg) \in Nat /\ n \in Int
          <6> HIDE DEF behind, n, more
          <6>1. QED
            BY <1>3, <2>2, <2>3, <3>2
        <5> HIDE DEF more, n
        <5>2. QED
          BY <1>3, <5>1
      <4>3. IsLeft(text', Len(msg') - begins' + 1, left')
        BY <1>1, <2>1, <2>3, <3>2, <4>2
      <4>4. QED
        BY <1>1, <1>3, <4>1, <4>3 DEF NamesInv, NamesWritten
    <3>3. QED
      BY <3>1, <3>2
  <2>6. QED
    BY <1>6, <2>4, <2>5 DEF NamesInv
<1>9. QED
  BY <1>7, <1>8

\* What is behind a name leaves it as it is.
LEMMA CarriesOn ==
  ASSUME NEW m \in Seq(NameByte), NEW e \in Seq(NameByte), NEW b \in Nat \ {0}, NEW t,
         NEW n \in Nat, Carries(m, b, t, n)
  PROVE  Carries(m \o e, b, t, n)
<1> DEFINE x == m \o e
<1>1. Behind(x, m, e)
  BY BehindIs
<1> HIDE DEF x
<1>2. Len(x) >= Len(m) /\ Len(m) \in Nat /\ Len(x) \in Nat /\ \A i \in 1 .. Len(m) : x[i] = m[i]
  BY <1>1, SMTT(30) DEF Behind
<1>3. b - 1 + n <= Len(m) /\ \A k \in 0 .. n - 1 : m[b + k] = Coded(t, k)
  BY DEF Carries
<1>4. \A k \in 0 .. n - 1 : b + k \in 1 .. Len(m)
  BY <1>2, <1>3
<1>5. b - 1 + n <= Len(x) /\ \A k \in 0 .. n - 1 : x[b + k] = Coded(t, k)
  BY <1>2, <1>3, <1>4
<1>6. QED
  BY <1>5 DEF Carries, x

\* The reader is called, at the name or anywhere else.
LEMMA UncompressInv == NamesInv /\ Uncompress => NamesInv'
<1> SUFFICES ASSUME NamesInv, Uncompress PROVE NamesInv'
  OBVIOUS
<1>1. PICK behind \in Strings(Sent, MaxMsg - Len(msg)) :
        /\ msg' = msg \o behind
        /\ \E p \in 1 .. Len(msg') + 1 :
             /\ data' = p /\ met' = IF p = begins THEN 0 ELSE -1
             /\ phase' = IF p > Len(msg') THEN "done" ELSE "read"
  BY Zenon DEF Uncompress
<1>2. PICK p \in 1 .. Len(msg') + 1 :
        /\ data' = p /\ met' = IF p = begins THEN 0 ELSE -1
        /\ phase' = IF p > Len(msg') THEN "done" ELSE "read"
  BY <1>1
<1>3. /\ dstLen' \in Nat /\ text' = text /\ begins' = begins /\ left' = left /\ dst' = dst
      /\ hops' = hops /\ rounds' = rounds /\ phase \in {"none", "encoded"}
  BY MgNamesAssumption DEF Uncompress
<1>4. /\ msg \in Seq(NameByte) /\ begins \in Nat /\ dst = <<>> /\ hops = 0 /\ rounds = 0
      /\ (begins = 0 <=> text = <<>>) /\ (begins > 0 => IsDotted(text))
      /\ begins > 0 => Carries(msg, begins, text, Len(text) + 1)
  BY <1>3 DEF NamesInv, NamesType, NamesWritten, NamesRead
<1>5. msg' \in Seq(NameByte) /\ Len(msg') \in Nat
      /\ (begins > 0 => Carries(msg', begins, text, Len(text) + 1))
  <2>1. behind \in Seq(NameByte)
    <3>1. Sent \in SUBSET NameByte
      BY MgNamesAssumption DEF NameByte
    <3>2. QED
      BY <3>1, StringsAre
  <2>2. msg \o behind \in Seq(NameByte)
    BY <1>4, <2>1
  <2>3. begins > 0 => Carries(msg \o behind, begins, text, Len(text) + 1)
    <3>1. begins > 0 => begins \in Nat \ {0} /\ Len(text) + 1 \in Nat
      BY <1>4 DEF IsDotted
    <3>2. QED
      BY <1>4, <2>1, <3>1, CarriesOn
  <2>4. QED
    BY <1>1, <2>2, <2>3
<1>6. p \in Nat /\ p >= 1 /\ p <= Len(msg') + 1 /\ met' \in {0, -1} /\ phase' \in {"read", "done"}
      /\ (met' >= 0 => p = begins) /\ (phase' = "done" => p = Len(msg') + 1)
      /\ (phase' = "read" => p \in 1 .. Len(msg'))
  BY <1>2, <1>5
<1>7. NamesType'
  BY <1>2, <1>3, <1>4, <1>5, <1>6 DEF NamesInv, NamesType
<1>8. NamesWritten'
  BY <1>3, <1>4, <1>5, <1>6 DEF NamesWritten
<1>9. met' >= 0 => phase' = "read" /\ Spelt(text', data' - begins', dst', met')
  <2> SUFFICES ASSUME met' >= 0 PROVE phase' = "read" /\ Spelt(text', data' - begins', dst', met')
    OBVIOUS
  <2>1. p = begins /\ begins > 0 /\ met' = 0
    BY <1>6
  <2>2. begins + Len(text) <= Len(msg') /\ Len(text) \in Nat /\ Len(text) > 0
    BY <1>4, <1>5, <2>1 DEF Carries, IsDotted
  <2>3. phase' = "read"
    BY <1>5, <1>6, <2>1, <2>2
  <2>4. data' - begins' = 0
    BY <1>2, <1>3, <1>4, <2>1
  <2>5. Spelt(text, 0, <<>>, 0)
    BY <2>2 DEF Spelt
  <2>6. QED
    BY <1>3, <1>4, <2>1, <2>3, <2>4, <2>5
<1>10. NamesRead'
  <2>1. Len(dst') <= dstLen' /\ hops' <= Hops /\ 2 * rounds' <= 2 * Hops + dstLen'
        /\ 2 * rounds' <= 2 * hops' + Len(dst')
    BY <1>3, <1>4, MgNamesAssumption
  <2>2. met' >= 0 => begins' > 0
    BY <1>3, <1>6
  <2>3. phase' = "read" => data' \in 1 .. Len(msg')
    BY <1>2, <1>6
  <2>4. phase' = "done" => ~(met' >= 0)
    BY <1>9
  <2>5. QED
    BY <1>6, <1>9, <2>1, <2>2, <2>3, <2>4 DEF NamesRead
<1>11. QED
  BY <1>7, <1>8, <1>10 DEF NamesInv

\* What a step that reads finds.
Found ==
  /\ NamesType /\ NamesWritten /\ NamesRead
  /\ data \in 1 .. Len(msg) /\ msg[data] \in NameByte /\ Len(dst) \in Nat
  /\ met >= 0 /\ Readable(text) =>
       /\ begins \in Nat \ {0} /\ met \in Nat /\ IsDotted(text)
       /\ Carries(msg, begins, text, Len(text) + 1)
       /\ Spelt(text, data - begins, dst, met)
\* What the reader knows once it has come to the name.
LEMMA FoundIs == NamesInv /\ phase = "read" => Found
<1> SUFFICES ASSUME NamesInv, phase = "read" PROVE Found
  OBVIOUS
<1>1. NamesType /\ NamesWritten /\ NamesRead
  BY DEF NamesInv
<1>2. data \in 1 .. Len(msg) /\ msg[data] \in NameByte /\ Len(dst) \in Nat
  BY <1>1 DEF NamesType, NamesRead
<1>3. met >= 0 /\ Readable(text) =>
        /\ begins > 0 /\ IsDotted(text)
        /\ Carries(msg, begins, text, Len(text) + 1)
        /\ Spelt(text, data - begins, dst, met)
  BY <1>1 DEF NamesWritten, NamesRead
<1>4. begins \in Nat /\ met \in Nat \cup {-1}
  BY <1>1 DEF NamesType
<1>5. QED
  BY <1>1, <1>2, <1>3, <1>4 DEF Found

\* The reader comes to an end,
LEMMA EndOfNameInv == NamesInv /\ EndOfName => NamesInv'
<1> SUFFICES ASSUME NamesInv, EndOfName PROVE NamesInv'
  OBVIOUS
<1>1. /\ msg' = msg /\ text' = text /\ begins' = begins /\ left' = left /\ dstLen' = dstLen
      /\ data' = data /\ hops' = hops /\ met' = met /\ rounds' = rounds
      /\ phase = "read" /\ phase' = "done" /\ msg[data] = 0
      /\ dst' = IF dst = <<>> THEN <<>> ELSE Front(dst)
  BY DEF EndOfName, Reading
<1>2. Found
  BY <1>1, FoundIs
<1>3. dst' \in Seq(NameByte) /\ Len(dst') \in Nat /\ Len(dst') <= Len(dst) /\ Len(dst) \in Nat
      /\ dst \in Seq(NameByte)
  BY <1>1, <1>2 DEF Found, NamesType, Front
<1>4. NamesType' /\ NamesWritten'
  BY <1>1, <1>2, <1>3 DEF Found, NamesType, NamesWritten
<1>5. met' >= 0 /\ Readable(text') => SpeltAll(text', dst', met', dstLen')
  <2>1. dstLen \in Nat /\ Len(dst) <= dstLen /\ msg \in Seq(NameByte)
    BY <1>2 DEF Found, NamesType, NamesRead
  <2>2. met >= 0 /\ Readable(text) => dst # <<>> /\ SpeltAll(text, Front(dst), met, dstLen)
    BY <1>1, <1>2, <1>3, <2>1, SpeltToTheEnd DEF Found
  <2>3. QED
    BY <1>1, <2>2
<1>6. NamesRead'
  <2>1. dstLen \in Nat /\ Len(dst) <= dstLen
    BY <1>2 DEF Found, NamesType, NamesRead
  <2>2. Len(dst') <= dstLen'
    BY <1>1, <1>3, <2>1
  <2>3. QED
    BY <1>1, <1>2, <1>5, <2>2 DEF Found, NamesRead
<1>7. QED
  BY <1>4, <1>6 DEF NamesInv

\* What is copied of a label.
LEMMA ChunkIs ==
  ASSUME NEW a \in Nat, NEW r \in Nat
  PROVE  Chunk(a, r) \in Nat /\ Chunk(a, r) <= a
BY DEF Chunk

\* In the name there is nothing but labels that can be read.
LEMMA LabelFound ==
  ASSUME Found, met >= 0, Readable(text), msg[data] # 0
  PROVE  msg[data] \in 1 .. Quarter - 1 /\ data + msg[data] < Len(msg)
<1> DEFINE k == data - begins
           n == msg[data]
<1>1. /\ k \in 0 .. Len(text) /\ (k = 0 \/ text[k] = Dot) /\ IsDotted(text)
      /\ begins \in Nat \ {0} /\ data \in Nat /\ Len(msg) \in Nat /\ Len(text) \in Nat
      /\ msg \in Seq(NameByte) /\ Carries(msg, begins, text, Len(text) + 1)
  BY DEF Found, Spelt, IsDotted, NamesType
<1>2. IsAt(msg, begins, text, k)
  <2> HIDE DEF k
  <2>1. QED
    BY <1>1, AtLabel
<1>3. begins + k = data
  BY <1>1
<1> HIDE DEF k, n
<1>4. begins + Len(text) <= Len(msg) /\ (k = Len(text) => n = 0)
      /\ (k < Len(text) => n \in 1 .. Quarter - 1 /\ k + n + 1 <= Len(text))
  BY <1>2, <1>3 DEF IsAt, n
<1>5. n # 0
  BY DEF n
<1>6. k < Len(text)
  BY <1>1, <1>4, <1>5
<1>7. n \in 1 .. Quarter - 1 /\ data + n < Len(msg)
  BY <1>1, <1>3, <1>4, <1>6, MgNamesAssumption
<1>8. QED
  BY <1>7 DEF n

\* refuses what it cannot read, which is not the name,
LEMMA RefuseInv == NamesInv /\ Refuse => NamesInv'
<1> SUFFICES ASSUME NamesInv, Refuse PROVE NamesInv'
  OBVIOUS
<1>1. /\ msg' = msg /\ text' = text /\ begins' = begins /\ left' = left /\ dstLen' = dstLen
      /\ data' = data /\ hops' = hops /\ met' = met /\ rounds' = rounds
      /\ phase = "read" /\ phase' = "done" /\ msg[data] # 0 /\ dst' = <<>>
  BY DEF Refuse, Reading
<1>2. Found
  BY <1>1, FoundIs
<1>3. NamesType' /\ NamesWritten'
  BY <1>1, <1>2 DEF Found, NamesType, NamesWritten
<1>4. ~(met >= 0 /\ Readable(text))
  <2> SUFFICES ASSUME met >= 0, Readable(text) PROVE FALSE
    OBVIOUS
  <2> DEFINE n == msg[data]
             c == Chunk(n, dstLen - Len(dst))
  <2>1. n \in 1 .. Quarter - 1 /\ data + n < Len(msg)
    BY <1>1, <1>2, LabelFound
  <2>2. /\ data \in Nat /\ Len(msg) \in Nat /\ Quarter \in Nat /\ dstLen - Len(dst) \in Nat
        /\ n \in Nat
    <3>1. n \in Nat /\ Quarter \in Nat
      BY <2>1, MgNamesAssumption
    <3>2. /\ data \in Nat /\ Len(msg) \in Nat /\ dstLen \in Nat /\ Len(dst) \in Nat
          /\ Len(dst) <= dstLen
      BY <1>2 DEF Found, NamesType, NamesRead
    <3> HIDE DEF n
    <3>3. QED
      BY <3>1, <3>2
  <2>3. c \in Nat /\ c <= n
    BY <2>2, ChunkIs
  <2>4. \/ data = Len(msg) \/ n >= 3 * Quarter \/ n \in Quarter .. 3 * Quarter - 1
        \/ data + c >= Len(msg)
    BY DEF Refuse
  <2> HIDE DEF n, c
  <2>5. QED
    BY <2>1, <2>2, <2>3, <2>4
<1>5. NamesRead'
  <2>1. Len(dst') = 0 /\ dstLen \in Nat
    BY <1>1, <1>2 DEF Found, NamesType
  <2>2. Len(dst') <= dstLen'
    BY <1>1, <2>1
  <2>3. QED
    BY <1>1, <1>2, <1>4, <2>2 DEF Found, NamesRead
<1>6. QED
  BY <1>3, <1>5 DEF NamesInv

\* A pointer leads to some place.
LEMMA OffsetIs ==
  ASSUME NEW m \in Seq(NameByte), NEW p \in 1 .. Len(m), p < Len(m), m[p] >= 3 * Quarter
  PROVE  Offset(m, p) \in Nat
<1>1. m[p] - 3 * Quarter \in Nat /\ m[p + 1] \in Nat /\ Quarter \in Nat
  <2>1. m[p] \in NameByte /\ m[p + 1] \in NameByte
    OBVIOUS
  <2>2. QED
    BY <2>1, MgNamesAssumption DEF NameByte
<1>2. \A a, b, c \in Nat : a * 4 * b + c \in Nat
  OBVIOUS
<1>3. QED
  BY <1>1, <1>2 DEF Offset

\* A reader that has not been in the name comes to its beginning, or not.
LEMMA ComesTo ==
  ASSUME NamesWritten, NamesType, met' = IF met = -1 /\ data' = begins THEN Len(dst') ELSE met,
         data' \in Nat \ {0}, dst' \in Seq(NameByte), ~(met >= 0 /\ Readable(text)),
         text' = text, begins' = begins
  PROVE  /\ met' \in Nat \cup {-1} /\ (met' >= 0 => met >= 0 \/ begins > 0)
         /\ met' >= 0 /\ Readable(text') => Spelt(text', data' - begins', dst', met')
<1>1. met \in Nat \cup {-1} /\ begins \in Nat /\ Len(dst') \in Nat
  BY DEF NamesType
<1>2. CASE met = -1 /\ data' = begins
  <2>1. met' = Len(dst') /\ data' - begins' = 0 /\ begins > 0
    BY <1>1, <1>2
  <2>2. Len(text) \in Nat
    BY <2>1 DEF NamesWritten, IsDotted
  <2>3. Spelt(text, 0, dst', Len(dst'))
    BY <1>1, <2>2 DEF Spelt
  <2>4. QED
    BY <1>1, <2>1, <2>3
<1>3. CASE ~(met = -1 /\ data' = begins)
  BY <1>1, <1>3
<1>4. QED
  BY <1>2, <1>3

\* follows a pointer,
LEMMA FollowPointerInv == NamesInv /\ FollowPointer => NamesInv'
<1> SUFFICES ASSUME NamesInv, FollowPointer PROVE NamesInv'
  OBVIOUS
<1>1. /\ msg' = msg /\ text' = text /\ begins' = begins /\ left' = left /\ dstLen' = dstLen
      /\ dst' = dst /\ hops' = hops + 1 /\ hops + 1 <= Hops /\ rounds' = rounds + 1
      /\ phase = "read" /\ phase' = "read" /\ msg[data] >= 3 * Quarter /\ data < Len(msg)
      /\ Offset(msg, data) < Len(msg) /\ data' = Offset(msg, data) + 1
      /\ met' = IF met = -1 /\ data' = begins THEN Len(dst') ELSE met
  BY DEF FollowPointer, Reading, Goto, Hopped
<1>2. Found
  BY <1>1, FoundIs
<1>3. data' \in 1 .. Len(msg) /\ Len(msg) \in Nat
  <2>1. msg \in Seq(NameByte) /\ data \in 1 .. Len(msg) /\ Len(msg) \in Nat
    BY <1>2 DEF Found, NamesType
  <2>2. Offset(msg, data) \in Nat
    BY <1>1, <2>1, OffsetIs
  <2>3. QED
    BY <1>1, <2>1, <2>2
<1>4. ~(met >= 0 /\ Readable(text))
  <2> SUFFICES ASSUME met >= 0, Readable(text) PROVE FALSE
    OBVIOUS
  <2>1. Quarter \in Nat /\ Quarter > 0 /\ msg[data] \in Nat
    BY <1>2, MgNamesAssumption DEF Found, NameByte
  <2>2. msg[data] # 0
    BY <1>1, <2>1
  <2>3. msg[data] \in 1 .. Quarter - 1
    BY <1>2, <2>2, LabelFound
  <2>4. QED
    BY <1>1, <2>1, <2>3
<1>5. /\ met' \in Nat \cup {-1} /\ (met' >= 0 => met >= 0 \/ begins > 0)
      /\ met' >= 0 /\ Readable(text') => Spelt(text', data' - begins', dst', met')
  <2>1. data' \in Nat \ {0} /\ dst' \in Seq(NameByte) /\ NamesWritten /\ NamesType
    BY <1>1, <1>2, <1>3 DEF Found, NamesType
  <2>2. QED
    BY <1>1, <1>4, <2>1, ComesTo
<1>6. NamesType' /\ NamesWritten'
  BY <1>1, <1>2, <1>3, <1>5 DEF Found, NamesType, NamesWritten
<1>7. NamesRead'
  <2>1. /\ hops \in Nat /\ rounds \in Nat /\ dstLen \in Nat /\ Len(dst) \in Nat /\ Hops \in Nat
        /\ Len(dst) <= dstLen /\ 2 * rounds <= 2 * hops + Len(dst) /\ (met >= 0 => begins > 0)
    BY <1>1, <1>2, MgNamesAssumption DEF Found, NamesType, NamesRead
  <2>2. 2 * rounds' <= 2 * hops' + Len(dst') /\ 2 * rounds' <= 2 * Hops + dstLen'
    BY <1>1, <2>1
  <2>3. QED
    BY <1>1, <1>3, <1>5, <2>1, <2>2 DEF NamesRead
<1>8. QED
  BY <1>6, <1>7 DEF NamesInv

\* or copies a label.
LEMMA CopyLabelInv == NamesInv /\ CopyLabel => NamesInv'
<1> SUFFICES ASSUME NamesInv, CopyLabel PROVE NamesInv'
  OBVIOUS
<1> DEFINE n == Chunk(msg[data], dstLen - Len(dst))
           more == dst \o SubSeq(msg, data + 1, data + n)
<1>1. /\ msg' = msg /\ text' = text /\ begins' = begins /\ left' = left /\ dstLen' = dstLen
      /\ hops' = hops /\ phase = "read" /\ msg[data] \in 1 .. Quarter - 1 /\ data + n < Len(msg)
  BY DEF CopyLabel, Reading
<1>2. \/ /\ Len(more) = dstLen /\ dst' = more /\ phase' = "done"
         /\ data' = data /\ met' = met /\ rounds' = rounds
      \/ /\ Len(more) # dstLen /\ dst' = Append(more, Dot) /\ phase' = "read"
         /\ data' = data + n + 1 /\ rounds' = rounds + 1
         /\ met' = IF met = -1 /\ data' = begins THEN Len(dst') ELSE met
  BY DEF CopyLabel, Goto
<1>3. Found
  BY <1>1, FoundIs
<1>4. /\ msg \in Seq(NameByte) /\ dst \in Seq(NameByte) /\ dstLen \in Nat /\ Len(dst) \in Nat
      /\ Len(dst) <= dstLen /\ data \in 1 .. Len(msg) /\ Len(msg) \in Nat
      /\ dstLen - Len(dst) \in Nat /\ msg[data] \in Nat /\ Dot \in NameByte
      /\ hops \in Nat /\ rounds \in Nat /\ Hops \in Nat /\ hops <= Hops /\ data \in Nat
      /\ 2 * rounds <= 2 * hops + Len(dst) /\ 2 * rounds <= 2 * Hops + dstLen
      /\ (met >= 0 => begins > 0)
  BY <1>1, <1>3, MgNamesAssumption DEF Found, NamesType, NamesRead, NameByte
<1>5. n \in Nat
  BY <1>4, ChunkIs
<1>6. IsChunk(n, msg, data, dst, dstLen)
  BY DEF IsChunk
<1>7. IsCopied(msg, dst, dstLen, data, n, more)
  <2> HIDE DEF n
  <2>1. QED
    BY <1>1, <1>4, <1>5, <1>6, LabelCopied
<1>8. met >= 0 /\ Readable(text) =>
        /\ Len(more) = dstLen => SpeltAll(text, more, met, dstLen)
        /\ Len(more) # dstLen => Spelt(text, data + n + 1 - begins, Append(more, Dot), met)
  <2> HIDE DEF n
  <2>1. msg[data] # 0
    BY <1>1
  <2>2. QED
    BY <1>1, <1>3, <1>4, <1>5, <1>6, <2>1, SpeltOn DEF Found
<1> HIDE DEF n, more
<1>9. /\ more \in Seq(NameByte) /\ Len(more) = Len(dst) + n /\ Len(more) <= dstLen
      /\ (Len(more) # dstLen => n = msg[data])
  BY <1>7 DEF IsCopied
<1>10. CASE Len(more) = dstLen
  <2>1. dst' = more /\ phase' = "done" /\ data' = data /\ met' = met /\ rounds' = rounds
    BY <1>2, <1>10
  <2>2. NamesType' /\ NamesWritten'
    BY <1>1, <1>3, <1>9, <2>1 DEF Found, NamesType, NamesWritten
  <2>3. NamesRead'
    BY <1>1, <1>4, <1>8, <1>9, <1>10, <2>1 DEF NamesRead
  <2>4. QED
    BY <2>2, <2>3 DEF NamesInv
<1>11. CASE Len(more) # dstLen
  <2>1. /\ dst' = Append(more, Dot) /\ phase' = "read"
        /\ data' = data + n + 1 /\ rounds' = rounds + 1
        /\ met' = IF met = -1 /\ data' = begins THEN Len(dst') ELSE met
    BY <1>2, <1>11
  <2>2. dst' \in Seq(NameByte) /\ Len(dst') = Len(more) + 1
    BY <1>4, <1>9, <2>1
  <2>3. /\ n >= 1 /\ data' \in 1 .. Len(msg) /\ data' \in Nat \ {0} /\ Len(dst') \in Nat
        /\ Len(dst') <= dstLen /\ 2 * rounds' <= 2 * hops + Len(dst')
        /\ 2 * rounds' <= 2 * Hops + dstLen
    <3>0. n = msg[data] /\ msg[data] \in Nat /\ msg[data] # 0
      BY <1>1, <1>4, <1>9, <1>11
    <3>1. n >= 1 /\ Len(dst') = Len(dst) + n + 1 /\ Len(dst) + n < dstLen
      BY <1>4, <1>5, <1>9, <1>11, <2>2, <3>0, SMTT(30)
    <3>2. QED
      BY <1>1, <1>4, <1>5, <2>1, <3>1
  <2>4. /\ met' \in Nat \cup {-1} /\ (met' >= 0 => met >= 0 \/ begins > 0)
        /\ met' >= 0 /\ Readable(text') => Spelt(text', data' - begins', dst', met')
    <3>1. CASE met >= 0 /\ Readable(text)
      <4>1. Spelt(text, data + n + 1 - begins, Append(more, Dot), met)
        BY <1>8, <1>11, <3>1
      <4>2. met' = met /\ met \in Nat \cup {-1}
        BY <1>3, <2>1, <3>1 DEF Found, NamesType
      <4>3. Spelt(text', data' - begins', dst', met')
        <5>1. data' = data + n + 1 /\ begins' = begins /\ text' = text /\ dst' = Append(more, Dot)
          BY <1>1, <2>1
        <5>2. begins \in Nat
          BY <1>3 DEF Found, NamesType
        <5>3. data' - begins' = data + n + 1 - begins
          BY <1>4, <1>5, <5>1, <5>2
        <5>4. QED
          BY <4>1, <4>2, <5>1, <5>3
      <4>4. QED
        BY <3>1, <4>2, <4>3
    <3>2. CASE ~(met >= 0 /\ Readable(text))
      <4>1. NamesWritten /\ NamesType
        BY <1>3 DEF Found
      <4>2. /\ met' = (IF met = -1 /\ data' = begins THEN Len(dst') ELSE met)
            /\ data' \in Nat \ {0} /\ dst' \in Seq(NameByte) /\ text' = text /\ begins' = begins
        BY <1>1, <2>1, <2>2, <2>3
      <4>3. QED
        BY <3>2, <4>1, <4>2, ComesTo
    <3>3. QED
      BY <3>1, <3>2
  <2>5. NamesType' /\ NamesWritten'
    BY <1>1, <1>3, <1>4, <2>1, <2>2, <2>3, <2>4 DEF Found, NamesType, NamesWritten
  <2>6. NamesRead'
    BY <1>1, <1>4, <2>1, <2>3, <2>4 DEF NamesRead
  <2>7. QED
    BY <2>5, <2>6 DEF NamesInv
<1>12. QED
  BY <1>10, <1>11

\* Every step.
LEMMA NamesNextInv == NamesInv /\ [NamesNext]_namesVars => NamesInv'
<1> SUFFICES ASSUME NamesInv, [NamesNext]_namesVars PROVE NamesInv'
  OBVIOUS
<1>1. CASE EncodeName
  BY <1>1, EncodeNameInv
<1>2. CASE EncodeLabel
  BY <1>2, EncodeLabelInv
<1>3. CASE Uncompress
  BY <1>3, UncompressInv
<1>4. CASE EndOfName
  BY <1>4, EndOfNameInv
<1>5. CASE Refuse
  BY <1>5, RefuseInv
<1>6. CASE FollowPointer
  BY <1>6, FollowPointerInv
<1>7. CASE CopyLabel
  BY <1>7, CopyLabelInv
<1>8. CASE UNCHANGED namesVars
  BY <1>8 DEF namesVars, NamesInv, NamesType, NamesWritten, NamesRead
<1>9. QED
  BY <1>1, <1>2, <1>3, <1>4, <1>5, <1>6, <1>7, <1>8 DEF NamesNext

\* Names as mg_dns_encode_name_s writes them are spelled, with whatever
\* pointers there are to them, and mg_dns_uncompress_name stays within the
\* message, its destination and a number of rounds, whatever the bytes are.
THEOREM NamesSpell == NamesSpec => []NamesAreSpelled
<1>1. NamesInv => NamesAreSpelled
  <2> SUFFICES ASSUME NamesInv PROVE NamesAreSpelled
    OBVIOUS
  <2>1. phase = "read" => data \in DOMAIN msg
    BY DEF NamesInv, NamesType, NamesRead
  <2>2. Len(dst) <= dstLen /\ 2 * rounds <= 2 * Hops + dstLen
    BY DEF NamesInv, NamesRead
  <2>3. phase = "done" /\ met >= 0 /\ Readable(text) => SpeltAll(text, dst, met, dstLen)
    BY DEF NamesInv, NamesRead
  <2>4. QED
    BY <2>1, <2>2, <2>3 DEF NamesAreSpelled, SpeltAll
<1>2. QED
  BY <1>1, NamesInitInv, NamesNextInv, PTL DEF NamesSpec

-----------------------------------------------------------------------------
(* Pages.                                                                  *)

\* What pages are made of, buffers hold and clients are sent.
Sign ==
  Letter \cup Ssi \cup Plain \cup Unset
    \cup {"<", "!", "-", "#", ">", "0", "too deep", "too large"}

LEMMA Signs ==
  /\ {"<", "!", "-", "#", ">", "0", "too deep", "too large"} \subseteq Sign
  /\ Ssi \subseteq Sign /\ Plain \subseteq Sign /\ Letter \subseteq Sign
  /\ Unset \subseteq Sign
BY Zenon DEF Sign

LEMMA OneSign == ASSUME NEW x \in Sign PROVE <<x>> \in Seq(Sign)
OBVIOUS

LEMMA LengthIs == ASSUME NEW s \in Seq(Sign) PROVE Len(s) \in Nat
OBVIOUS

\* The last < of a page's beginning is one, and there is none behind it.
LEMMA OpensIs ==
  ASSUME NEW p \in Seq(Sign), NEW k \in 0 .. Len(p)
  PROVE  /\ Opens(p, k) \in 0 .. k
         /\ Opens(p, k) > 0 => p[Opens(p, k)] = "<"
         /\ \A i \in Opens(p, k) + 1 .. k : p[i] # "<"
<1> DEFINE T == {0} \cup {i \in 1 .. k : p[i] = "<"}
           Has == {n \in Nat : n <= k =>
                     \E m \in 0 .. n : /\ m > 0 => p[m] = "<"
                                       /\ \A i \in m + 1 .. n : p[i] # "<"}
<1>1. 0 \in Has
  <2>1. 0 \in 0 .. 0 /\ \A i \in 0 + 1 .. 0 : p[i] # "<"
    OBVIOUS
  <2>2. QED
    BY <2>1
<1>2. ASSUME NEW n \in Nat, n \in Has PROVE n + 1 \in Has
  <2> SUFFICES ASSUME n + 1 <= k
               PROVE  \E m \in 0 .. n + 1 : /\ m > 0 => p[m] = "<"
                                            /\ \A i \in m + 1 .. n + 1 : p[i] # "<"
    OBVIOUS
  <2>1. CASE p[n + 1] = "<"
    <3>1. n + 1 \in 0 .. n + 1 /\ \A i \in (n + 1) + 1 .. n + 1 : p[i] # "<"
      OBVIOUS
    <3>2. QED
      BY <2>1, <3>1
  <2>2. CASE p[n + 1] # "<"
    <3>1. PICK m \in 0 .. n : /\ m > 0 => p[m] = "<"
                              /\ \A i \in m + 1 .. n : p[i] # "<"
      BY <1>2
    <3>2. \A i \in m + 1 .. n + 1 : i \in m + 1 .. n \/ i = n + 1
      OBVIOUS
    <3>3. QED
      BY <2>2, <3>1, <3>2
  <2>3. QED
    BY <2>1, <2>2
<1>3. k \in Nat /\ k <= k
  OBVIOUS
<1>4. k \in Has
  <2> HIDE DEF Has
  <2>1. QED
    BY <1>1, <1>2, <1>3, AllNats
<1>5. PICK m \in 0 .. k : /\ m > 0 => p[m] = "<"
                          /\ \A i \in m + 1 .. k : p[i] # "<"
  BY <1>3, <1>4
<1>6. T \in SUBSET Int /\ m \in T
  BY <1>3, <1>5
<1>7. \A i \in T : m >= i
  BY <1>3, <1>5
<1>8. Opens(p, k) = m
  BY <1>6, <1>7, MaxIs DEF Opens
<1>9. QED
  BY <1>5, <1>8

\* One byte more: a < is the last one then, any other leaves it as it was.
LEMMA OpensNext ==
  ASSUME NEW p \in Seq(Sign), NEW k \in 0 .. Len(p) - 1
  PROVE  Opens(p, k + 1) = IF p[k + 1] = "<" THEN k + 1 ELSE Opens(p, k)
<1> DEFINE n == Opens(p, k + 1)
           m == Opens(p, k)
<1>1. k \in 0 .. Len(p) /\ k + 1 \in 0 .. Len(p) /\ k \in Nat
  OBVIOUS
<1>2. /\ m \in 0 .. k /\ (m > 0 => p[m] = "<")
      /\ \A i \in m + 1 .. k : p[i] # "<"
  BY <1>1, OpensIs
<1>3. /\ n \in 0 .. k + 1 /\ (n > 0 => p[n] = "<")
      /\ \A i \in n + 1 .. k + 1 : p[i] # "<"
  BY <1>1, OpensIs
<1> HIDE DEF n, m
<1>4. CASE p[k + 1] = "<"
  <2>1. ~(k + 1 \in n + 1 .. k + 1)
    BY <1>3, <1>4
  <2>2. QED
    BY <1>1, <1>3, <1>4, <2>1 DEF n
<1>5. CASE p[k + 1] # "<"
  <2>1. n # k + 1
    BY <1>1, <1>3, <1>5
  <2>2. ~(n < m)
    <3>1. n < m => m \in n + 1 .. k + 1 /\ m > 0
      BY <1>1, <1>2, <1>3
    <3>2. QED
      BY <1>2, <1>3, <3>1
  <2>3. ~(n > m)
    <3>1. n > m => n \in m + 1 .. k /\ n > 0
      BY <1>1, <1>2, <1>3, <2>1
    <3>2. QED
      BY <1>2, <1>3, <3>1
  <2>4. QED
    BY <1>2, <1>3, <1>5, <2>2, <2>3 DEF n, m
<1>6. QED
  BY <1>4, <1>5

\* What an end is, byte by byte,
LEMMA EndsIs ==
  ASSUME NEW p \in Seq(Sign), NEW k \in 1 .. Len(p)
  PROVE  Ends(p, k) <=> k > 2 /\ p[k - 2] = "-" /\ p[k - 1] = "-" /\ p[k] = ">"
<1>1. CASE k > 2
  <2> DEFINE s == SubSeq(p, k - 2, k)
             e == <<"-", "-", ">">>
  <2>1. \A i \in k - 2 .. k : p[i] \in Sign
    BY <1>1
  <2>2. s \in Seq(Sign) /\ Len(s) = 3 /\ \A i \in 1 .. 3 : s[i] = p[k - 2 + i - 1]
    <3>1. k - 2 \in Int /\ k \in Int /\ k - (k - 2) + 1 = 3 /\ k - 2 <= k
      OBVIOUS
    <3>2. QED
      BY <2>1, <3>1, SubSeqProperties
  <2>3. s[1] = p[k - 2] /\ s[2] = p[k - 1] /\ s[3] = p[k]
    BY <2>2
  <2>4. e \in Seq(Sign) /\ Len(e) = 3 /\ e[1] = "-" /\ e[2] = "-" /\ e[3] = ">"
    <3>1. "-" \in Sign /\ ">" \in Sign
      BY Signs, Zenon
    <3>2. QED
      BY <3>1
  <2> HIDE DEF s, e
  <2>5. \A i \in 1 .. 3 : i = 1 \/ i = 2 \/ i = 3
    OBVIOUS
  <2>6. s[1] = e[1] /\ s[2] = e[2] /\ s[3] = e[3] => s = e
    BY <2>2, <2>4, <2>5, SeqEqual
  <2>7. QED
    BY <1>1, <2>3, <2>4, <2>6 DEF Ends, s, e
<1>2. CASE ~(k > 2)
  BY <1>2 DEF Ends
<1>3. QED
  BY <1>1, <1>2

\* and an opening.
LEMMA OpeningIs ==
  ASSUME NEW p \in Seq(Sign), NEW j \in Nat \ {0}, j + 4 <= Len(p)
  PROVE  SubSeq(p, j, j + 4) = Opening <=>
           /\ p[j] = "<" /\ p[j + 1] = "!" /\ p[j + 2] = "-"
           /\ p[j + 3] = "-" /\ p[j + 4] = "#"
<1> DEFINE s == SubSeq(p, j, j + 4)
<1>1. \A i \in j .. j + 4 : p[i] \in Sign
  OBVIOUS
<1>2. s \in Seq(Sign) /\ Len(s) = 5 /\ \A i \in 1 .. 5 : s[i] = p[j + i - 1]
  <2>1. j \in Int /\ j + 4 \in Int /\ (j + 4) - j + 1 = 5 /\ j <= j + 4
    OBVIOUS
  <2>2. QED
    BY <1>1, <2>1, SubSeqProperties
<1>3. s[1] = p[j] /\ s[2] = p[j + 1] /\ s[3] = p[j + 2] /\ s[4] = p[j + 3] /\ s[5] = p[j + 4]
  BY <1>2
<1>4. /\ Opening \in Seq(Sign) /\ Len(Opening) = 5
      /\ Opening[1] = "<" /\ Opening[2] = "!" /\ Opening[3] = "-"
      /\ Opening[4] = "-" /\ Opening[5] = "#"
  <2>1. "<" \in Sign /\ "!" \in Sign /\ "-" \in Sign /\ "#" \in Sign
    BY Signs, Zenon
  <2>2. QED
    BY <2>1 DEF Opening
<1> HIDE DEF s
<1>5. \A i \in 1 .. 5 : i = 1 \/ i = 2 \/ i = 3 \/ i = 4 \/ i = 5
  OBVIOUS
<1>6. s[1] = Opening[1] /\ s[2] = Opening[2] /\ s[3] = Opening[3] /\ s[4] = Opening[4]
        /\ s[5] = Opening[5] => s = Opening
  BY <1>2, <1>4, <1>5, SeqEqual
<1>7. QED
  BY <1>3, <1>4, <1>6 DEF s

\* One byte more: what is unclosed then.
LEMMA UnclosedNext ==
  ASSUME NEW p \in Seq(Sign), NEW k \in 0 .. Len(p) - 1
  PROVE  Unclosed(p, k + 1) <=>
           p[k + 1] = "<" \/ (Unclosed(p, k) /\ ~Ends(p, k + 1))
<1>1. k \in Nat /\ k + 1 \in 1 .. Len(p) /\ k \in 0 .. Len(p)
  OBVIOUS
<1>2. CASE p[k + 1] = "<"
  <2>1. Opens(p, k + 1) = k + 1 /\ ~Ends(p, k + 1)
    BY <1>1, <1>2, OpensNext, EndsIs
  <2>2. \A i \in k + 1 .. k + 1 : i = k + 1
    BY <1>1
  <2>3. QED
    BY <1>1, <1>2, <2>1, <2>2 DEF Unclosed
<1>3. CASE p[k + 1] # "<"
  <2> DEFINE j == Opens(p, k)
  <2>1. Opens(p, k + 1) = j /\ j \in 0 .. k
    BY <1>1, <1>3, OpensNext, OpensIs
  <2>2. /\ Unclosed(p, k) <=> j > 0 /\ \A i \in j .. k : ~Ends(p, i)
        /\ Unclosed(p, k + 1) <=> j > 0 /\ \A i \in j .. k + 1 : ~Ends(p, i)
    BY <2>1, Zenon DEF Unclosed
  <2> HIDE DEF j
  <2>3. \A i : i \in j .. k + 1 <=> i \in j .. k \/ i = k + 1
    BY <1>1, <2>1
  <2>4. QED
    BY <1>3, <2>2, <2>3, Zenon
<1>4. QED
  BY <1>2, <1>3

\* The call has k bytes of p behind it and is in a tag, of which its buffer
\* holds n bytes;
Tagged(p, k, n, mem) ==
  /\ Unclosed(p, k) /\ n = k - Opens(p, k) + 1
  /\ \A i \in 1 .. n : mem[i] = p[Opens(p, k) + i - 1]
  /\ n > 5 => IsOpening(p, Opens(p, k))
\* it is in none.
Untagged(p, k) == ~(Unclosed(p, k) /\ IsOpening(p, Opens(p, k)))

\* The three bytes that end a tag, as the buffer shows them.
Shown(n, mem, ch) == ch = ">" /\ n > 1 /\ mem[n] = "-" /\ mem[n - 1] = "-"

\* A < begins a tag.
LEMMA TagBegins ==
  ASSUME NEW p \in Seq(Sign), NEW k \in 0 .. Len(p) - 1, p[k + 1] = "<",
         NEW mem, mem[1] = "<"
  PROVE  Tagged(p, k + 1, 1, mem) /\ ~Closes(p, k + 1)
<1>1. k \in Nat /\ k + 1 \in 1 .. Len(p)
  OBVIOUS
<1>2. Opens(p, k + 1) = k + 1 /\ Unclosed(p, k + 1) /\ ~Ends(p, k + 1)
  <2>1. Ends(p, k + 1) => p[k + 1] = ">"
    BY <1>1, EndsIs
  <2>2. Opens(p, k + 1) = k + 1
    BY OpensNext
  <2>3. Unclosed(p, k + 1)
    BY UnclosedNext
  <2>4. QED
    BY <2>1, <2>2, <2>3
<1>3. \A i \in 1 .. 1 : i = 1 /\ (k + 1) + i - 1 = k + 1
  BY <1>1
<1>4. 1 = (k + 1) - (k + 1) + 1 /\ ~(1 > 5)
  BY <1>1
<1>5. \A i \in 1 .. 1 : mem[i] = p[(k + 1) + i - 1]
  BY <1>3
<1>6. QED
  BY <1>2, <1>4, <1>5, Zenon DEF Tagged, Closes

\* Text stays text.
LEMMA TextGoesOn ==
  ASSUME NEW p \in Seq(Sign), NEW k \in 0 .. Len(p) - 1, p[k + 1] # "<", Untagged(p, k)
  PROVE  Untagged(p, k + 1) /\ ~Closes(p, k + 1)
<1>1. k \in Nat /\ (k + 1) - 1 = k
  OBVIOUS
<1>2. Opens(p, k + 1) = Opens(p, k)
  BY OpensNext
<1>3. Unclosed(p, k + 1) => Unclosed(p, k)
  BY UnclosedNext
<1>4. QED
  BY <1>1, <1>2, <1>3, Zenon DEF Untagged, Closes

\* Where a tag is, in an orderly page, its end is shown where it is.
LEMMA ShownIsEnd ==
  ASSUME NEW p \in Seq(Sign), NEW k \in 0 .. Len(p) - 1, p[k + 1] # "<", Orderly(p),
         NEW n \in Nat, NEW mem, Tagged(p, k, n, mem)
  PROVE  /\ Opens(p, k + 1) = Opens(p, k) /\ Opens(p, k) \in 1 .. k
         /\ n = k - Opens(p, k) + 1 /\ n \in 1 .. k
         /\ Shown(n, mem, p[k + 1]) <=> Ends(p, k + 1)
         /\ Ends(p, k + 1) => n > 5
<1> DEFINE j == Opens(p, k)
<1>1. k \in Nat /\ k + 1 \in 1 .. Len(p) /\ k \in 0 .. Len(p)
  OBVIOUS
<1>2. Opens(p, k + 1) = j /\ j \in 1 .. k /\ n = k - j + 1
  BY <1>1, OpensNext, OpensIs DEF Tagged, Unclosed
<1>3. \A i \in 1 .. n : mem[i] = p[j + i - 1]
  BY DEF Tagged
<1>4. Ends(p, k + 1) <=> k + 1 > 2 /\ p[k + 1 - 2] = "-" /\ p[k + 1 - 1] = "-" /\ p[k + 1] = ">"
  BY <1>1, EndsIs
<1>5. Ends(p, k + 1) => n > 5
  <2>1. k + 1 \in DOMAIN p
    BY <1>1
  <2>2. Len(Opening) = 5
    BY DEF Opening
  <2>3. Opens(p, k + 1) > 0 /\ Ends(p, k + 1) => (k + 1) - Opens(p, k + 1) + 1 > Len(Opening) + 1
    BY <2>1 DEF Orderly
  <2> HIDE DEF j
  <2>4. QED
    BY <1>1, <1>2, <2>2, <2>3
<1> HIDE DEF j
<1>6. n > 1 => /\ n \in 1 .. n /\ n - 1 \in 1 .. n /\ j + n - 1 = k /\ j + (n - 1) - 1 = k - 1
               /\ k + 1 > 2 /\ k + 1 - 2 = k - 1 /\ k + 1 - 1 = k
  BY <1>1, <1>2
<1>7. n > 1 => mem[n] = p[k] /\ mem[n - 1] = p[k - 1]
  BY <1>3, <1>6
<1>8. n > 5 => n > 1
  BY <1>2
<1>9. Shown(n, mem, p[k + 1]) <=> Ends(p, k + 1)
  BY <1>4, <1>5, <1>6, <1>7, <1>8 DEF Shown
<1>10. n \in 1 .. k
  BY <1>1, <1>2
<1>11. QED
  BY <1>2, <1>5, <1>9, <1>10 DEF j

\* What has five bytes and is no opening is no tag.
Kept(n, mem) == ~(n = 5 /\ SubSeq(mem, 1, n) # Opening)

\* At five bytes a tag is what the page has there.
LEMMA KeptIs ==
  ASSUME NEW p \in Seq(Sign), NEW k \in 0 .. Len(p),
         NEW mem \in Seq(Sign), 5 <= Len(mem), Tagged(p, k, 5, mem)
  PROVE  Kept(5, mem) <=> IsOpening(p, Opens(p, k))
<1> DEFINE j == Opens(p, k)
<1>1. k \in Nat /\ k <= Len(p) /\ Len(p) \in Nat
  OBVIOUS
<1>2. j \in 0 .. k /\ j > 0 /\ 5 = k - j + 1
  BY OpensIs DEF Tagged, Unclosed
<1>3. \A i \in 1 .. 5 : mem[i] = p[j + i - 1]
  BY DEF Tagged
<1> HIDE DEF j
<1>4. j \in Nat \ {0} /\ j + 4 <= Len(p)
  BY <1>1, <1>2
<1>5. mem[1] = p[j] /\ mem[2] = p[j + 1] /\ mem[3] = p[j + 2] /\ mem[4] = p[j + 3]
        /\ mem[5] = p[j + 4]
  <2>1. j + 1 - 1 = j /\ j + 2 - 1 = j + 1 /\ j + 3 - 1 = j + 2 /\ j + 4 - 1 = j + 3
        /\ j + 5 - 1 = j + 4
    BY <1>2
  <2>2. mem[1] = p[j + 1 - 1] /\ mem[2] = p[j + 2 - 1] /\ mem[3] = p[j + 3 - 1]
        /\ mem[4] = p[j + 4 - 1] /\ mem[5] = p[j + 5 - 1]
    BY <1>3
  <2>3. QED
    BY <2>1, <2>2
<1>6. SubSeq(p, j, j + 4) = Opening <=>
        p[j] = "<" /\ p[j + 1] = "!" /\ p[j + 2] = "-" /\ p[j + 3] = "-" /\ p[j + 4] = "#"
  BY <1>4, OpeningIs
<1>7. SubSeq(mem, 1, 5) = Opening <=>
        mem[1] = "<" /\ mem[2] = "!" /\ mem[3] = "-" /\ mem[4] = "-" /\ mem[5] = "#"
  <2>1. 1 \in Nat \ {0} /\ 1 + 4 <= Len(mem) /\ 1 + 4 = 5 /\ 1 + 1 = 2 /\ 1 + 2 = 3 /\ 1 + 3 = 4
    OBVIOUS
  <2>2. SubSeq(mem, 1, 1 + 4) = Opening <=>
          mem[1] = "<" /\ mem[1 + 1] = "!" /\ mem[1 + 2] = "-" /\ mem[1 + 3] = "-"
            /\ mem[1 + 4] = "#"
    BY <2>1, OpeningIs
  <2>3. QED
    BY <2>1, <2>2
<1>8. Kept(5, mem) <=> SubSeq(mem, 1, 5) = Opening
  BY DEF Kept
<1>9. QED
  BY <1>4, <1>5, <1>6, <1>7, <1>8 DEF IsOpening, j

\* mem holds one byte more.
OneMore(more, mem, n, ch) ==
  more[n + 1] = ch /\ \A i \in 1 .. n : more[i] = mem[i]

\* A tag that is not at its end goes on, or turns out to be none; one that is
\* there is never too large.
LEMMA TagGoesOn ==
  ASSUME NEW p \in Seq(Sign), NEW k \in 0 .. Len(p) - 1, p[k + 1] # "<", Orderly(p),
         NEW n \in Nat, NEW mem \in Seq(Sign), 5 <= Len(mem), Tagged(p, k, n, mem),
         ~Shown(n, mem, p[k + 1]),
         NEW more, OneMore(more, mem, n, p[k + 1])
  PROVE  /\ ~Closes(p, k + 1)
         /\ Kept(n, mem) => Tagged(p, k + 1, n + 1, more)
         /\ ~Kept(n, mem) => Untagged(p, k + 1)
         /\ Kept(n, mem) => n # BufSize - 2
<1> DEFINE j == Opens(p, k)
<1>1. k \in Nat /\ k \in 0 .. Len(p) /\ k + 1 \in DOMAIN p
  OBVIOUS
<1>2. /\ Opens(p, k + 1) = j /\ j \in 1 .. k /\ n = k - j + 1 /\ n \in 1 .. k
      /\ ~Ends(p, k + 1)
  BY ShownIsEnd
<1>3. Unclosed(p, k + 1)
  BY <1>2, UnclosedNext DEF Tagged
<1>4. n = 5 => (Kept(n, mem) <=> IsOpening(p, j))
  BY <1>1, KeptIs
<1>5. n > 5 => IsOpening(p, j)
  BY DEF Tagged
<1>6. n # 5 => Kept(n, mem)
  BY DEF Kept
<1> HIDE DEF j
<1>7. n + 1 > 5 /\ Kept(n, mem) => IsOpening(p, j)
  BY <1>2, <1>4, <1>5
<1>8. \A i \in 1 .. n + 1 : more[i] = p[j + i - 1]
  <2>1. j + (n + 1) - 1 = k + 1
    BY <1>1, <1>2
  <2>2. \A i \in 1 .. n + 1 : i \in 1 .. n \/ i = n + 1
    BY <1>2
  <2>3. \A i \in 1 .. n : more[i] = p[j + i - 1]
    BY DEF Tagged, OneMore, j
  <2>4. more[n + 1] = p[k + 1]
    BY DEF OneMore
  <2>5. QED
    BY <2>1, <2>2, <2>3, <2>4
<1>9. Kept(n, mem) => Tagged(p, k + 1, n + 1, more)
  <2>1. n + 1 = (k + 1) - j + 1
    BY <1>1, <1>2
  <2>2. QED
    BY <1>2, <1>3, <1>7, <1>8, <2>1 DEF Tagged
<1>10. ~Kept(n, mem) => Untagged(p, k + 1)
  BY <1>2, <1>4, <1>6 DEF Untagged
<1>11. Kept(n, mem) => n # BufSize - 2
  <2>1. Unclosed(p, k + 1) /\ IsOpening(p, Opens(p, k + 1)) =>
          (k + 1) - Opens(p, k + 1) + 1 < BufSize - 1
    BY <1>1 DEF Orderly
  <2>2. BufSize \in Nat /\ BufSize > 9
    BY MgSsiAssumption
  <2>3. Kept(n, mem) /\ n + 1 > 5 => n + 1 < BufSize - 1
    BY <1>1, <1>2, <1>3, <1>7, <2>1, <2>2
  <2>4. QED
    BY <1>2, <2>2, <2>3
<1>12. ~Closes(p, k + 1)
  BY <1>2 DEF Closes
<1>13. QED
  BY <1>9, <1>10, <1>11, <1>12

\* A tag at its end is a directive that closes; its name, if it has one, is
\* the byte behind the opening.
LEMMA TagCloses ==
  ASSUME NEW p \in Seq(Sign), NEW k \in 0 .. Len(p) - 1, p[k + 1] # "<", Orderly(p),
         NEW n \in Nat, NEW mem \in Seq(Sign), n <= Len(mem), Tagged(p, k, n, mem),
         Shown(n, mem, p[k + 1])
  PROVE  /\ Closes(p, k + 1) /\ Untagged(p, k + 1)
         /\ n = (k + 1) - Opens(p, k + 1) /\ n >= 7
         /\ mem[6] = p[Opens(p, k + 1) + 5]
         /\ n = 7 => mem[6] = "-"
<1> DEFINE j == Opens(p, k)
<1>1. k \in Nat /\ k \in 0 .. Len(p) /\ k + 1 \in DOMAIN p /\ (k + 1) - 1 = k
  OBVIOUS
<1>2. /\ Opens(p, k + 1) = j /\ j \in 1 .. k /\ n = k - j + 1 /\ n \in 1 .. k
      /\ Ends(p, k + 1) /\ n > 5
  BY ShownIsEnd
<1>3. IsOpening(p, j) /\ Unclosed(p, k) /\ \A i \in 1 .. n : mem[i] = p[j + i - 1]
  BY <1>2 DEF Tagged
<1>4. ~Unclosed(p, k + 1)
  BY <1>2, UnclosedNext
<1>5. mem[n] = "-" /\ mem[n - 1] = "-"
  BY DEF Shown
<1> HIDE DEF j
<1>6. mem[5] = "#" /\ mem[6] = p[j + 5]
  <2>1. 5 \in 1 .. n /\ 6 \in 1 .. n /\ j + 5 - 1 = j + 4 /\ j + 6 - 1 = j + 5
    BY <1>2
  <2>2. j \in Nat \ {0} /\ j + 4 <= Len(p) /\ SubSeq(p, j, j + 4) = Opening
    BY <1>2, <1>3 DEF IsOpening
  <2>3. p[j + 4] = "#"
    BY <2>2, OpeningIs
  <2>4. QED
    BY <1>3, <2>1, <2>3
<1>7. n # 6
  BY <1>5, <1>6
<1>8. n >= 7 /\ n = (k + 1) - j
  BY <1>1, <1>2, <1>7
<1>9. n = 7 => mem[6] = "-"
  BY <1>5
<1>10. Closes(p, k + 1)
  BY <1>1, <1>2, <1>3, Zenon DEF Closes
<1>11. QED
  BY <1>2, <1>4, <1>6, <1>8, <1>9, <1>10 DEF Untagged

-----------------------------------------------------------------------------
FilesAre(fs) == \A name \in Ssi \cup Plain : fs[name] \in Seq(Sign)

\* What byte k adds to s.
SaidNext(fs, p, inc, k, s) ==
  IF Closes(p, k)
    THEN SubSeq(s, 1, Len(s) - (k - Opens(p, k)))
           \o Included(fs, p[Opens(p, k) + 5], inc)
    ELSE Append(s, p[k])

LEMMA IncludedIs ==
  ASSUME NEW fs, FilesAre(fs), NEW inc \in [Ssi -> Seq(Sign)], NEW name
  PROVE  Included(fs, name, inc) \in Seq(Sign)
<1>1. <<>> \in Seq(Sign)
  OBVIOUS
<1>2. QED
  BY <1>1, Zenon DEF Included, FilesAre

LEMMA SaidNextIs ==
  ASSUME NEW fs, FilesAre(fs), NEW inc \in [Ssi -> Seq(Sign)],
         NEW p \in Seq(Sign), NEW k \in 1 .. Len(p), NEW s \in Seq(Sign)
  PROVE  SaidNext(fs, p, inc, k, s) \in Seq(Sign)
<1> DEFINE m == Len(s) - (k - Opens(p, k))
           t == SubSeq(s, 1, m)
           u == Included(fs, p[Opens(p, k) + 5], inc)
<1>1. Opens(p, k) \in 0 .. k
  BY OpensIs
<1>2. m \in Int /\ m <= Len(s) /\ 1 \in Int
  BY <1>1
<1>3. \A i \in 1 .. m : s[i] \in Sign
  BY <1>2
<1> HIDE DEF m
<1>4. t \in Seq(Sign)
  BY <1>2, <1>3, SubSeqProperties
<1>5. u \in Seq(Sign)
  BY IncludedIs
<1> HIDE DEF t, u
<1>6. t \o u \in Seq(Sign)
  BY <1>4, <1>5, ConcatProperties
<1>7. p[k] \in Sign
  OBVIOUS
<1>8. Append(s, p[k]) \in Seq(Sign)
  BY <1>7
<1>9. QED
  BY <1>6, <1>8, Zenon DEF SaidNext, t, u, m

\* What a page puts out is defined, byte by byte.
LEMMA SaidIs ==
  ASSUME NEW fs, FilesAre(fs), NEW inc \in [Ssi -> Seq(Sign)], NEW p \in Seq(Sign)
  PROVE  /\ Said(fs, p, inc) \in [0 .. Len(p) -> Seq(Sign)]
         /\ Said(fs, p, inc)[0] = <<>>
         /\ \A k \in 1 .. Len(p) :
              Said(fs, p, inc)[k] = SaidNext(fs, p, inc, k, Said(fs, p, inc)[k - 1])
<1> DEFINE n == Len(p)
           step == [q \in (1 .. n) \X Seq(Sign) |-> SaidNext(fs, p, inc, q[1], q[2])]
           F(f) == f = [k \in 0 .. n |-> IF k = 0 THEN <<>>
                                        ELSE SaidNext(fs, p, inc, k, f[k - 1])]
           c == Said(fs, p, inc)
<1>1. n \in Nat /\ <<>> \in Seq(Sign)
  OBVIOUS
<1>2. step \in [(1 .. n) \X Seq(Sign) -> Seq(Sign)]
  <2>1. \A q \in (1 .. n) \X Seq(Sign) : q[1] \in 1 .. n /\ q[2] \in Seq(Sign)
    OBVIOUS
  <2>2. \A q \in (1 .. n) \X Seq(Sign) : SaidNext(fs, p, inc, q[1], q[2]) \in Seq(Sign)
    BY <2>1, SaidNextIs
  <2> HIDE DEF n
  <2>3. QED
    BY <2>2
<1>3. PICK g \in [0 .. n -> Seq(Sign)] : Recursive(g, n, <<>>, step)
  <2> HIDE DEF step, n
  <2>1. QED
    BY <1>1, <1>2, Recursion
<1>4. g[0] = <<>> /\ \A k \in 1 .. n : g[k] = SaidNext(fs, p, inc, k, g[k - 1])
  <2>1. g[0] = <<>> /\ \A k \in 1 .. n : g[k] = step[<<k, g[k - 1]>>]
    BY <1>3, Zenon DEF Recursive
  <2>2. ASSUME NEW k \in 1 .. n PROVE step[<<k, g[k - 1]>>] = SaidNext(fs, p, inc, k, g[k - 1])
    <3>1. k - 1 \in 0 .. n
      OBVIOUS
    <3>2. g[k - 1] \in Seq(Sign)
      BY <1>3, <3>1
    <3> HIDE DEF n
    <3>3. <<k, g[k - 1]>> \in (1 .. n) \X Seq(Sign)
      BY <3>2
    <3>4. QED
      BY <3>3
  <2>3. QED
    BY <2>1, <2>2
<1>5. F(g)
  <2>1. \A k \in 0 .. n : k = 0 \/ k \in 1 .. n
    BY <1>1
  <2>2. \A k \in 0 .. n : g[k] = IF k = 0 THEN <<>> ELSE SaidNext(fs, p, inc, k, g[k - 1])
    BY <1>4, <2>1
  <2> HIDE DEF n
  <2>3. QED
    BY <1>3, <2>2
<1>6. c = CHOOSE f : F(f)
  BY DEF Said, SaidNext
<1>7. F(c)
  <2> HIDE DEF F, c
  <2>1. QED
    BY <1>5, <1>6
<1> HIDE DEF c
<1>8. /\ c = [k \in 0 .. n |-> c[k]] /\ c[0] = <<>>
      /\ \A k \in 1 .. n : c[k] = SaidNext(fs, p, inc, k, c[k - 1])
  <2>1. 0 \in 0 .. n /\ \A k \in 1 .. n : k \in 0 .. n /\ k # 0
    BY <1>1
  <2> HIDE DEF n
  <2>2. DOMAIN c = 0 .. n /\ c = [k \in DOMAIN c |-> c[k]]
    BY <1>7
  <2>3. QED
    BY <1>7, <2>1, <2>2
<1> DEFINE Same == {m \in Nat : m \in 0 .. n => c[m] \in Seq(Sign)}
<1>9. 0 \in Same
  BY <1>1, <1>8
<1>10. ASSUME NEW m \in Nat, m \in Same PROVE m + 1 \in Same
  <2> SUFFICES ASSUME m + 1 \in 0 .. n PROVE c[m + 1] \in Seq(Sign)
    OBVIOUS
  <2>1. m \in 0 .. n /\ m + 1 \in 1 .. n /\ (m + 1) - 1 = m
    OBVIOUS
  <2>2. c[m] \in Seq(Sign)
    BY <1>10, <2>1
  <2>3. c[m + 1] = SaidNext(fs, p, inc, m + 1, c[m])
    BY <1>8, <2>1
  <2>4. QED
    BY <2>1, <2>2, <2>3, SaidNextIs
<1>11. \A k \in 0 .. n : c[k] \in Seq(Sign)
  <2>1. \A k \in 0 .. n : k \in Nat
    OBVIOUS
  <2>2. Nat \subseteq Same
    <3> HIDE DEF Same
    <3>1. QED
      BY <1>9, <1>10, AllNats
  <2>3. QED
    BY <2>1, <2>2
<1>12. c \in [0 .. n -> Seq(Sign)]
  <2> HIDE DEF n
  <2>1. QED
    BY <1>8, <1>11
<1>13. QED
  BY <1>8, <1>12 DEF c

\* What pages put out is defined, level by level.
LEMMA ExpandedIs ==
  ASSUME NEW fs, FilesAre(fs)
  PROVE  /\ Expanded(fs) \in [0 .. MaxLevel + 1 -> [Ssi -> Seq(Sign)]]
         /\ \A name \in Ssi : Expanded(fs)[0][name] = <<"too deep">>
         /\ \A n \in 1 .. MaxLevel + 1 : \A name \in Ssi :
              Expanded(fs)[n][name] =
                Said(fs, fs[name], Expanded(fs)[n - 1])[Len(fs[name])]
<1> DEFINE N == MaxLevel + 1
           S == [Ssi -> Seq(Sign)]
           first == [name \in Ssi |-> <<"too deep">>]
           More(inc) == [name \in Ssi |-> Said(fs, fs[name], inc)[Len(fs[name])]]
           step == [q \in (1 .. N) \X S |-> More(q[2])]
           F(f) == f = [n \in 0 .. N |->
                          [name \in Ssi |-> IF n = 0 THEN <<"too deep">>
                             ELSE Said(fs, fs[name], f[n - 1])[Len(fs[name])]]]
           c == Expanded(fs)
<1>0. N \in Nat
  BY MgSsiAssumption
<1>1. first \in S
  <2>2. "too deep" \in Sign
    BY Signs, Zenon
  <2>3. <<"too deep">> \in Seq(Sign)
    BY <2>2, OneSign, Zenon
  <2>4. QED
    BY <2>3, Zenon
<1>2. ASSUME NEW inc \in S PROVE More(inc) \in S
  <2>1. ASSUME NEW name \in Ssi PROVE Said(fs, fs[name], inc)[Len(fs[name])] \in Seq(Sign)
    <3>1. fs[name] \in Seq(Sign)
      BY DEF FilesAre
    <3>2. Said(fs, fs[name], inc) \in [0 .. Len(fs[name]) -> Seq(Sign)]
      BY <3>1, SaidIs
    <3>3. Len(fs[name]) \in 0 .. Len(fs[name])
      BY <3>1
    <3>4. QED
      BY <3>2, <3>3, Zenon
  <2>2. QED
    BY <2>1
<1> HIDE DEF N
<1>3. step \in [(1 .. N) \X S -> S]
  <2>1. \A q \in (1 .. N) \X S : q[2] \in S
    OBVIOUS
  <2> HIDE DEF S, More
  <2>2. \A q \in (1 .. N) \X S : More(q[2]) \in S
    BY <1>2, <2>1
  <2>3. QED
    BY <2>2
<1>4. PICK g \in [0 .. N -> S] : Recursive(g, N, first, step)
  <2> HIDE DEF step, S, first
  <2>1. QED
    BY <1>0, <1>1, <1>3, Recursion
<1>5. g[0] = first /\ \A n \in 1 .. N : n - 1 \in 0 .. N /\ g[n - 1] \in S /\ g[n] = More(g[n - 1])
  <2>1. g[0] = first /\ \A k \in 1 .. N : g[k] = step[<<k, g[k - 1]>>]
    BY <1>4, Zenon DEF Recursive
  <2> HIDE DEF first, S, More
  <2>2. ASSUME NEW k \in 1 .. N
        PROVE  k - 1 \in 0 .. N /\ g[k - 1] \in S /\ step[<<k, g[k - 1]>>] = More(g[k - 1])
    <3>1. k - 1 \in 0 .. N
      BY <1>0
    <3>2. g[k - 1] \in S
      BY <1>4, <3>1
    <3>3. <<k, g[k - 1]>> \in (1 .. N) \X S
      BY <3>2
    <3>4. QED
      BY <3>1, <3>2, <3>3
  <2> HIDE DEF step
  <2>3. QED
    BY <2>1, <2>2
<1>6. F(g)
  <2>1. \A n \in 0 .. N : n = 0 \/ (n # 0 /\ n \in 1 .. N)
    BY <1>0
  <2> DEFINE V(f, n) == [name \in Ssi |-> IF n = 0 THEN <<"too deep">>
                             ELSE Said(fs, fs[name], f[n - 1])[Len(fs[name])]]
  <2>2. V(g, 0) = first
    OBVIOUS
  <2>3. \A n \in 1 .. N : n # 0 => V(g, n) = More(g[n - 1])
    OBVIOUS
  <2> HIDE DEF V, More, first
  <2>4. \A n \in 0 .. N : g[n] = V(g, n)
    BY <1>5, <2>1, <2>2, <2>3
  <2>5. g = [n \in 0 .. N |-> V(g, n)]
    BY <1>4, <2>4
  <2>6. QED
    BY <2>5 DEF V
<1>7. c = CHOOSE f : F(f)
  BY DEF Expanded, N
<1>8. F(c)
  <2> HIDE DEF F, c
  <2>1. QED
    BY <1>6, <1>7
<1> HIDE DEF c
<1>9. /\ c = [n \in 0 .. N |-> c[n]] /\ c[0] = first
      /\ \A n \in 1 .. N : c[n] = More(c[n - 1])
  <2> DEFINE V(f, n) == [name \in Ssi |-> IF n = 0 THEN <<"too deep">>
                             ELSE Said(fs, fs[name], f[n - 1])[Len(fs[name])]]
  <2>1. 0 \in 0 .. N /\ \A k \in 1 .. N : k \in 0 .. N /\ k # 0
    BY <1>0
  <2>2. V(c, 0) = first
    OBVIOUS
  <2>3. \A n \in 1 .. N : n # 0 => V(c, n) = More(c[n - 1])
    OBVIOUS
  <2>4. c = [n \in 0 .. N |-> V(c, n)]
    BY <1>8
  <2> HIDE DEF V, More, first
  <2>5. \A n \in 0 .. N : c[n] = V(c, n)
    BY <2>4, Zenon
  <2>6. QED
    BY <2>1, <2>2, <2>3, <2>4, <2>5
<1> DEFINE Same == {m \in Nat : m \in 0 .. N => c[m] \in S}
<1>10. 0 \in Same
  <2>1. 0 \in 0 .. N /\ 0 \in Nat
    BY <1>0
  <2> HIDE DEF S, first
  <2>2. QED
    BY <1>1, <1>9, <2>1
<1>11. ASSUME NEW m \in Nat, m \in Same PROVE m + 1 \in Same
  <2> SUFFICES ASSUME m + 1 \in 0 .. N PROVE c[m + 1] \in S
    OBVIOUS
  <2>1. m \in 0 .. N /\ m + 1 \in 1 .. N /\ (m + 1) - 1 = m
    BY <1>0
  <2> HIDE DEF S, More
  <2>2. c[m] \in S
    BY <1>11, <2>1
  <2>3. c[m + 1] = More(c[m])
    BY <1>9, <2>1
  <2>4. QED
    BY <1>2, <2>2, <2>3
<1>12. \A k \in 0 .. N : c[k] \in S
  <2>1. \A k \in 0 .. N : k \in Nat
    BY <1>0
  <2>2. Nat \subseteq Same
    <3> HIDE DEF Same
    <3>1. QED
      BY <1>10, <1>11, AllNats
  <2> HIDE DEF S
  <2>3. QED
    BY <2>1, <2>2
<1>13. c \in [0 .. N -> S]
  <2> HIDE DEF S
  <2>1. QED
    BY <1>9, <1>12
<1>14. \A name \in Ssi : c[0][name] = <<"too deep">>
  BY <1>9, Zenon
<1>15. \A n \in 1 .. N : \A name \in Ssi :
         c[n][name] = Said(fs, fs[name], c[n - 1])[Len(fs[name])]
  <2>1. ASSUME NEW n \in 1 .. N, NEW name \in Ssi
        PROVE  c[n][name] = Said(fs, fs[name], c[n - 1])[Len(fs[name])]
    <3>1. c[n] = More(c[n - 1])
      BY <1>9, Zenon
    <3>2. QED
      BY <3>1, Zenon
  <2>2. QED
    BY <2>1, Zenon
<1>16. QED
  BY <1>13, <1>14, <1>15, Zenon DEF c, N

-----------------------------------------------------------------------------
(* The calls and their buffers.                                            *)

FrameSet ==
  [file : Ssi, at : Nat, len : Nat, tag : BOOLEAN, mem : [1 .. BufSize -> Sign],
   before : Seq(Sign)]

LEMMA FrameIs ==
  ASSUME NEW f \in FrameSet
  PROVE  /\ f.file \in Ssi /\ f.at \in Nat /\ f.len \in Nat /\ f.tag \in BOOLEAN
         /\ f.mem \in [1 .. BufSize -> Sign] /\ f.before \in Seq(Sign)
         /\ Len(f.before) \in Nat
<1>1. f.before \in Seq(Sign)
  BY DEF FrameSet
<1> DEFINE b == f.before
<1>2. b \in Seq(Sign)
  BY <1>1
<1> HIDE DEF b
<1>3. Len(b) \in Nat
  BY <1>2
<1>4. QED
  BY <1>3 DEF FrameSet, b

\* A buffer that is not full, what it holds, and what one byte more does.
LEMMA BufferIs ==
  ASSUME NEW f \in FrameSet, f.len <= BufSize
  PROVE  /\ Buffered(f) \in Seq(Sign) /\ Len(Buffered(f)) = f.len
         /\ \A i \in 1 .. f.len : Buffered(f)[i] = f.mem[i]
<1>1. BufSize \in Nat /\ f.len \in Nat /\ f.mem \in [1 .. BufSize -> Sign]
  BY MgSsiAssumption DEF FrameSet
<1>2. \A i \in 1 .. f.len : f.mem[i] \in Sign
  BY <1>1
<1> DEFINE n == f.len
           m == f.mem
<1>3. n \in Nat /\ \A i \in 1 .. n : m[i] \in Sign
  BY <1>1, <1>2
<1> HIDE DEF n, m
<1>4. /\ SubSeq(m, 1, n) \in Seq(Sign)
      /\ Len(SubSeq(m, 1, n)) = IF 1 <= n THEN n - 1 + 1 ELSE 0
      /\ \A i \in 1 .. n - 1 + 1 : SubSeq(m, 1, n)[i] = m[1 + i - 1]
  BY <1>3, SubSeqProperties
<1>5. n - 1 + 1 = n /\ (IF 1 <= n THEN n - 1 + 1 ELSE 0) = n /\ \A i \in 1 .. n : 1 + i - 1 = i
  BY <1>3
<1>6. QED
  BY <1>4, <1>5 DEF Buffered, n, m

LEMMA PutIs ==
  ASSUME NEW f \in FrameSet, f.len < BufSize, NEW ch \in Sign
  PROVE  /\ Put(f, ch) \in FrameSet
         /\ Put(f, ch).file = f.file /\ Put(f, ch).tag = f.tag
         /\ Put(f, ch).before = f.before
         /\ Put(f, ch).at = f.at + 1 /\ Put(f, ch).len = f.len + 1
         /\ OneMore(Put(f, ch).mem, f.mem, f.len, ch)
         /\ Buffered(Put(f, ch)) = Append(Buffered(f), ch)
<1> DEFINE g == Put(f, ch)
           m == [f.mem EXCEPT ![f.len + 1] = ch]
<1>1. /\ BufSize \in Nat /\ f.len \in Nat /\ f.at \in Nat /\ f.mem \in [1 .. BufSize -> Sign]
      /\ f.file \in Ssi /\ f.tag \in BOOLEAN /\ f.before \in Seq(Sign)
  BY MgSsiAssumption DEF FrameSet
<1>2. f.len + 1 \in 1 .. BufSize
  BY <1>1
<1>3. /\ m \in [1 .. BufSize -> Sign] /\ m[f.len + 1] = ch
      /\ \A i \in 1 .. f.len : m[i] = f.mem[i]
  BY <1>1, <1>2
<1>4. g = [f EXCEPT !.mem = m, !.len = f.len + 1, !.at = f.at + 1]
  BY DEF Put
<1> HIDE DEF m
<1>5. /\ g = [file |-> f.file, at |-> f.at + 1, len |-> f.len + 1, tag |-> f.tag, mem |-> m,
              before |-> f.before]
  BY <1>4 DEF FrameSet
<1>6. /\ g.file = f.file /\ g.at = f.at + 1 /\ g.len = f.len + 1 /\ g.tag = f.tag
      /\ g.mem = m /\ g.before = f.before
  BY <1>5
<1>7. g \in FrameSet
  <2>1. f.at + 1 \in Nat /\ f.len + 1 \in Nat
    BY <1>1
  <2>2. QED
    BY <1>1, <1>3, <1>5, <2>1 DEF FrameSet
<1> HIDE DEF g
<1>8. OneMore(g.mem, f.mem, f.len, ch)
  BY <1>3, <1>6 DEF OneMore
<1>9. Buffered(g) = Append(Buffered(f), ch)
  <2> DEFINE b == Buffered(f)
             c == Buffered(g)
             a == Append(b, ch)
             n == f.len
  <2>1. b \in Seq(Sign) /\ Len(b) = n /\ \A i \in 1 .. n : b[i] = f.mem[i]
    BY <1>1, BufferIs
  <2>2. c \in Seq(Sign) /\ Len(c) = n + 1 /\ \A i \in 1 .. n + 1 : c[i] = g.mem[i]
    BY <1>1, <1>6, <1>7, BufferIs
  <2>3. n \in Nat /\ \A i \in 1 .. n + 1 : i \in 1 .. n \/ i = n + 1
    BY <1>1
  <2>4. m[n + 1] = ch /\ \A i \in 1 .. n : m[i] = f.mem[i]
    BY <1>3
  <2> HIDE DEF b, c, n
  <2>5. a \in Seq(Sign) /\ Len(a) = n + 1 /\ a[n + 1] = ch /\ \A i \in 1 .. n : a[i] = b[i]
    BY <2>1, AppendProperties
  <2>6. \A i \in 1 .. n + 1 : c[i] = a[i]
    BY <1>6, <2>1, <2>2, <2>3, <2>4, <2>5
  <2> HIDE DEF a
  <2>7. c = a
    BY <2>2, <2>5, <2>6, SeqEqual
  <2>8. QED
    BY <2>7 DEF a, b, c
<1>10. QED
  BY <1>6, <1>7, <1>8, <1>9 DEF g

\* The same, after the buffer was emptied.
LEMMA EmptiedIs ==
  ASSUME NEW f \in FrameSet, NEW t \in BOOLEAN, NEW g, g = [f EXCEPT !.len = 0, !.tag = t]
  PROVE  /\ g \in FrameSet
         /\ g.file = f.file /\ g.at = f.at /\ g.len = 0 /\ g.tag = t
         /\ g.mem = f.mem /\ g.before = f.before
<1>1. g = [file |-> f.file, at |-> f.at, len |-> 0, tag |-> t, mem |-> f.mem,
           before |-> f.before]
  BY DEF FrameSet
<1>2. QED
  BY <1>1 DEF FrameSet

LEMMA FlushedIs ==
  ASSUME NEW f \in FrameSet, NEW g, g = [f EXCEPT !.len = 0]
  PROVE  /\ g \in FrameSet
         /\ g.file = f.file /\ g.at = f.at /\ g.len = 0 /\ g.tag = f.tag
         /\ g.mem = f.mem /\ g.before = f.before
<1>1. g = [file |-> f.file, at |-> f.at, len |-> 0, tag |-> f.tag, mem |-> f.mem,
           before |-> f.before]
  BY DEF FrameSet
<1>2. QED
  BY <1>1 DEF FrameSet

\* Nothing is in an empty buffer.
LEMMA NothingBuffered ==
  ASSUME NEW f \in FrameSet, f.len = 0
  PROVE  Buffered(f) = <<>>
<1>1. f.len <= BufSize
  BY MgSsiAssumption
<1>2. Buffered(f) \in Seq(Sign) /\ Len(Buffered(f)) = 0
  BY <1>1, BufferIs
<1>3. QED
  BY <1>2

LEMMA TopIs ==
  ASSUME NEW s \in Seq(FrameSet), s # <<>>
  PROVE  Len(s) \in Nat \ {0} /\ Last(s) = s[Len(s)] /\ Last(s) \in FrameSet
BY DEF Last

\* The call on top goes on as g, calls another as h, or returns.
LEMMA StackIs ==
  ASSUME NEW s \in Seq(FrameSet), s # <<>>, NEW g \in FrameSet, NEW h \in FrameSet
  PROVE  /\ Len(s) \in Nat \ {0} /\ Last(s) = s[Len(s)] /\ Last(s) \in FrameSet
         /\ Append(Front(s), g) \in Seq(FrameSet) /\ Len(Append(Front(s), g)) = Len(s)
         /\ Append(Front(s), g)[Len(s)] = g
         /\ \A i \in 1 .. Len(s) - 1 : Append(Front(s), g)[i] = s[i]
         /\ Front(s) \o <<g, h>> \in Seq(FrameSet)
         /\ Len(Front(s) \o <<g, h>>) = Len(s) + 1
         /\ (Front(s) \o <<g, h>>)[Len(s) + 1] = h
         /\ (Front(s) \o <<g, h>>)[Len(s)] = g
         /\ \A i \in 1 .. Len(s) - 1 : (Front(s) \o <<g, h>>)[i] = s[i]
         /\ Front(s) \in Seq(FrameSet) /\ Len(Front(s)) = Len(s) - 1
         /\ \A i \in 1 .. Len(s) - 1 : Front(s)[i] = s[i]
<1> DEFINE n == Len(s)
           r == Front(s)
           two == <<g, h>>
<1>1. n \in Nat \ {0} /\ Last(s) = s[n] /\ s[n] \in FrameSet
  BY DEF Last
<1>2. r \in Seq(FrameSet) /\ Len(r) = n - 1 /\ \A i \in 1 .. n - 1 : r[i] = s[i]
  <2>1. \A i \in 1 .. n - 1 : s[i] \in FrameSet
    OBVIOUS
  <2>2. r = SubSeq(s, 1, n - 1)
    BY DEF Front
  <2> HIDE DEF n, r
  <2>3. /\ r \in Seq(FrameSet)
        /\ Len(r) = IF 1 <= n - 1 THEN (n - 1) - 1 + 1 ELSE 0
        /\ \A i \in 1 .. (n - 1) - 1 + 1 : r[i] = s[1 + i - 1]
    <3>1. n - 1 \in Int /\ 1 \in Int
      BY <1>1
    <3>2. QED
      BY <2>1, <2>2, <3>1, SubSeqProperties
  <2>4. (n - 1) - 1 + 1 = n - 1 /\ (IF 1 <= n - 1 THEN (n - 1) - 1 + 1 ELSE 0) = n - 1
    BY <1>1
  <2>5. \A i \in 1 .. n - 1 : 1 + i - 1 = i
    BY <1>1
  <2>6. QED
    BY <2>3, <2>4, <2>5
<1> HIDE DEF n, r
<1>3. n - 1 \in Nat /\ (n - 1) + 1 = n /\ (n - 1) + 2 = n + 1
  BY <1>1
<1>4. /\ Append(r, g) \in Seq(FrameSet) /\ Len(Append(r, g)) = n /\ Append(r, g)[n] = g
      /\ \A i \in 1 .. n - 1 : Append(r, g)[i] = r[i]
  BY <1>2, <1>3, AppendProperties
<1>5. two \in Seq(FrameSet) /\ Len(two) = 2 /\ two[1] = g /\ two[2] = h
  OBVIOUS
<1> HIDE DEF two
<1>6. /\ r \o two \in Seq(FrameSet) /\ Len(r \o two) = (n - 1) + 2
      /\ \A i \in 1 .. (n - 1) + 2 : (r \o two)[i] = IF i <= n - 1 THEN r[i] ELSE two[i - (n - 1)]
  <2>1. /\ r \o two \in Seq(FrameSet) /\ Len(r \o two) = Len(r) + Len(two)
        /\ \A i \in 1 .. Len(r) + Len(two) :
             (r \o two)[i] = IF i <= Len(r) THEN r[i] ELSE two[i - Len(r)]
    BY <1>2, <1>5, ConcatProperties, Zenon
  <2>2. Len(r) = n - 1 /\ Len(two) = 2
    BY <1>2, <1>5
  <2>3. QED
    BY <2>1, <2>2, Zenon
<1>7. /\ n \in 1 .. (n - 1) + 2 /\ n + 1 \in 1 .. (n - 1) + 2 /\ ~(n <= n - 1) /\ ~(n + 1 <= n - 1)
      /\ n - (n - 1) = 1 /\ (n + 1) - (n - 1) = 2
      /\ \A i \in 1 .. n - 1 : i \in 1 .. (n - 1) + 2 /\ i <= n - 1
  BY <1>1
<1>8. (r \o two)[n] = g /\ (r \o two)[n + 1] = h /\ \A i \in 1 .. n - 1 : (r \o two)[i] = r[i]
  BY <1>5, <1>6, <1>7
<1>9. QED
  BY <1>1, <1>2, <1>3, <1>4, <1>6, <1>8, Zenon DEF n, r, two

-----------------------------------------------------------------------------
(* What has been sent, against what the pages put out.                     *)

\* The levels that call i may still go down, itself included.
Budget(i) == MaxLevel + 2 - i

\* What the bytes that call f has read put out.
SaidBy(fs, f, n) ==
  IF f.at = 0 THEN <<>> ELSE Said(fs, fs[f.file], Expanded(fs)[n - 1])[f.at]

Fits(f, fs) ==
  /\ f.at <= Len(fs[f.file]) /\ f.len < BufSize
  /\ f.tag => f.len \in 1 .. BufSize - 2
  /\ f.at = 0 => f.len = 0 /\ ~f.tag

Placed(f, p) ==
  IF f.tag THEN Tagged(p, f.at, f.len, f.mem) ELSE Untagged(p, f.at)

\* The call on top: what is sent and what it holds is what its bytes put out.
TopSays(fs, f, o, n) ==
  /\ Len(f.before) <= Len(o) /\ (n = 0 => f.at = 0)
  /\ o \o Buffered(f) = f.before \o SaidBy(fs, f, n)
\* A call that waits for g will have sent what its bytes put out.
Waits(fs, f, g, n) ==
  /\ f.len = 0 /\ ~f.tag /\ Len(f.before) <= Len(g.before)
  /\ g.before \o Expanded(fs)[n - 1][g.file] = f.before \o SaidBy(fs, f, n)

InOrder(fs, s, o, pg) ==
  /\ \A i \in 1 .. Len(s) : Placed(s[i], fs[s[i].file])
  /\ s[1].file = pg /\ s[1].before = <<>>
  /\ TopSays(fs, s[Len(s)], o, Budget(Len(s)))
  /\ \A i \in 1 .. Len(s) - 1 : Waits(fs, s[i], s[i + 1], Budget(i))

AllOrderly(fs) == \A name \in Ssi : Orderly(fs[name])

\* The invariant.
SsiInv ==
  /\ serving \in {"no", "yes", "done"}
  /\ output \in Seq(Sign) /\ frames \in Seq(FrameSet)
  /\ serving = "no" => frames = <<>> /\ output = <<>>
  /\ serving = "done" => frames = <<>>
  /\ serving # "no" => FilesAre(files) /\ page \in Ssi
  /\ serving = "yes" => Len(frames) \in 1 .. MaxLevel + 2
  /\ \A i \in 1 .. Len(frames) : Fits(frames[i], files)
  /\ serving = "yes" /\ AllOrderly(files) => InOrder(files, frames, output, page)
  /\ serving = "done" /\ AllOrderly(files) => output = Expanded(files)[MaxLevel + 1][page]

\* What a call's bytes put out, and what the next of them does.
LEMMA SaidByIs ==
  ASSUME NEW fs, FilesAre(fs), NEW f \in FrameSet, NEW n \in 1 .. MaxLevel + 1,
         f.at <= Len(fs[f.file])
  PROVE  /\ fs[f.file] \in Seq(Sign) /\ Expanded(fs)[n - 1] \in [Ssi -> Seq(Sign)]
         /\ SaidBy(fs, f, n) \in Seq(Sign)
         /\ f.at = Len(fs[f.file]) => SaidBy(fs, f, n) = Expanded(fs)[n][f.file]
         /\ \A g \in FrameSet :
              f.at < Len(fs[f.file]) /\ g.file = f.file /\ g.at = f.at + 1 =>
                SaidBy(fs, g, n) =
                  SaidNext(fs, fs[f.file], Expanded(fs)[n - 1], f.at + 1, SaidBy(fs, f, n))
<1> DEFINE p == fs[f.file]
           inc == Expanded(fs)[n - 1]
           c == Said(fs, p, inc)
           k == f.at
<1>1. k \in Nat /\ f.file \in Ssi
  BY DEF FrameSet
<1>2. p \in Seq(Sign)
  BY <1>1, Zenon DEF FilesAre
<1>3. MaxLevel \in Nat
  BY MgSsiAssumption
<1>4. n - 1 \in 0 .. MaxLevel + 1
  BY <1>3
<1>5. inc \in [Ssi -> Seq(Sign)] /\ Expanded(fs)[n][f.file] = c[Len(p)]
  BY <1>1, <1>4, ExpandedIs, Zenon
<1> HIDE DEF inc
<1>6. /\ c \in [0 .. Len(p) -> Seq(Sign)] /\ c[0] = <<>>
      /\ \A i \in 1 .. Len(p) : c[i] = SaidNext(fs, p, inc, i, c[i - 1])
  BY <1>2, <1>5, SaidIs
<1>7. SaidBy(fs, f, n) = c[k]
  BY <1>6, Zenon DEF SaidBy, inc
<1>8. k \in 0 .. Len(p)
  BY <1>1, <1>2
<1>9. c[k] \in Seq(Sign)
  BY <1>6, <1>8, Zenon
<1>10. ASSUME NEW g \in FrameSet, k < Len(p), g.file = f.file, g.at = k + 1
       PROVE  SaidBy(fs, g, n) = SaidNext(fs, p, inc, k + 1, c[k])
  <2>1. k + 1 \in 1 .. Len(p) /\ k + 1 # 0 /\ (k + 1) - 1 = k
    BY <1>1, <1>2, <1>10
  <2>2. SaidBy(fs, g, n) = c[k + 1]
    BY <1>10, <2>1, Zenon DEF SaidBy, inc
  <2>3. c[k + 1] = SaidNext(fs, p, inc, k + 1, c[(k + 1) - 1])
    BY <1>6, <2>1, Zenon
  <2>4. QED
    BY <2>1, <2>2, <2>3
<1> HIDE DEF c
<1>11. QED
  BY <1>2, <1>5, <1>7, <1>9, <1>10, Zenon DEF inc

\* Joined to the left of an append.
LEMMA ConcatAppend ==
  ASSUME NEW x \in Seq(Sign), NEW y \in Seq(Sign), NEW ch \in Sign
  PROVE  x \o Append(y, ch) = Append(x \o y, ch)
<1>1. <<ch>> \in Seq(Sign)
  BY OneSign
<1>2. x \o y \in Seq(Sign)
  BY ConcatProperties
<1>3. Append(y, ch) = y \o <<ch>> /\ Append(x \o y, ch) = (x \o y) \o <<ch>>
  BY <1>2, AppendIsConcat
<1>4. QED
  BY <1>1, <1>3, ConcatAssociative

\* What was put in behind b can be taken out again.
Extends(o, x, b, s) == o \o x = b \o s /\ Len(b) <= Len(o)
Without(s, n) == SubSeq(s, 1, Len(s) - n)

LEMMA TakenBack ==
  ASSUME NEW o \in Seq(Sign), NEW x \in Seq(Sign), NEW b \in Seq(Sign), NEW s \in Seq(Sign),
         Extends(o, x, b, s)
  PROVE  Without(s, Len(x)) \in Seq(Sign) /\ o = b \o Without(s, Len(x))
<1> DEFINE O == Len(o)
           X == Len(x)
           B == Len(b)
           S == Len(s)
           t == SubSeq(s, 1, S - X)
           l == o \o x
           r == b \o t
<1>1. O \in Nat /\ X \in Nat /\ B \in Nat /\ S \in Nat /\ B <= O
  BY DEF Extends
<1>2. /\ Len(l) = O + X /\ Len(b \o s) = B + S
      /\ \A i \in 1 .. O + X : l[i] = IF i <= O THEN o[i] ELSE x[i - O]
      /\ \A i \in 1 .. B + S : (b \o s)[i] = IF i <= B THEN b[i] ELSE s[i - B]
  BY ConcatProperties
<1>3. l = b \o s
  BY DEF Extends
<1>4. O + X = B + S
  BY <1>2, <1>3
<1>5. \A i \in 1 .. S : s[i] \in Sign
  OBVIOUS
<1> HIDE DEF O, X, B, S, l
<1>6. S - X = O - B /\ S - X \in Nat /\ \A i \in 1 .. S - X : i \in 1 .. S
  BY <1>1, <1>4
<1>7. t \in Seq(Sign) /\ Len(t) = S - X /\ \A i \in 1 .. S - X : t[i] = s[i]
  <2> DEFINE m == S - X
  <2>1. m \in Nat /\ 1 \in Int /\ m \in Int /\ m - 1 + 1 = m
    BY <1>6
  <2>2. \A i \in 1 .. m : s[i] \in Sign
    BY <1>5, <1>6
  <2> HIDE DEF m
  <2>3. /\ SubSeq(s, 1, m) \in Seq(Sign)
        /\ Len(SubSeq(s, 1, m)) = IF 1 <= m THEN m - 1 + 1 ELSE 0
        /\ \A i \in 1 .. m - 1 + 1 : SubSeq(s, 1, m)[i] = s[1 + i - 1]
    BY <2>1, <2>2, SubSeqProperties
  <2>4. (IF 1 <= m THEN m - 1 + 1 ELSE 0) = m /\ \A i \in 1 .. m : 1 + i - 1 = i
    BY <2>1
  <2>5. QED
    BY <2>1, <2>3, <2>4 DEF m
<1> HIDE DEF t
<1>8. /\ r \in Seq(Sign) /\ Len(r) = B + (S - X)
      /\ \A i \in 1 .. B + (S - X) : r[i] = IF i <= B THEN b[i] ELSE t[i - B]
  <2>1. /\ b \o t \in Seq(Sign) /\ Len(b \o t) = Len(b) + Len(t)
        /\ \A i \in 1 .. Len(b) + Len(t) :
             (b \o t)[i] = IF i <= Len(b) THEN b[i] ELSE t[i - Len(b)]
    BY <1>7, ConcatProperties, Zenon
  <2>2. Len(b) = B /\ Len(t) = S - X
    BY <1>7 DEF B
  <2>3. QED
    BY <2>1, <2>2, Zenon DEF r
<1>9. B + (S - X) = O
  BY <1>1, <1>6
<1> HIDE DEF r
<1>10. \A i \in 1 .. O : o[i] = r[i]
  <2> SUFFICES ASSUME NEW i \in 1 .. O PROVE o[i] = r[i]
    OBVIOUS
  <2>1. i \in 1 .. O + X /\ i \in 1 .. B + S /\ i <= O
    BY <1>1, <1>4
  <2>2. o[i] = IF i <= B THEN b[i] ELSE s[i - B]
    BY <1>2, <1>3, <2>1
  <2>3. ~(i <= B) => i - B \in 1 .. S - X
    BY <1>1, <1>9
  <2>4. ~(i <= B) => t[i - B] = s[i - B]
    BY <1>7, <2>3
  <2>5. r[i] = IF i <= B THEN b[i] ELSE t[i - B]
    BY <1>8, <1>9
  <2>6. QED
    BY <2>2, <2>4, <2>5
<1>11. o = r
  BY <1>8, <1>9, <1>10, SeqEqual DEF O
<1>12. QED
  BY <1>7, <1>11, Zenon DEF r, t, S, X, Without

\* The call on top goes on.
LEMMA GoesOn ==
  ASSUME NEW fs, NEW s \in Seq(FrameSet), s # <<>>, NEW o, NEW o2, NEW pg,
         NEW g \in FrameSet, g.file = Last(s).file, g.before = Last(s).before,
         InOrder(fs, s, o, pg), Placed(g, fs[g.file]),
         TopSays(fs, g, o2, Budget(Len(s)))
  PROVE  InOrder(fs, Append(Front(s), g), o2, pg)
<1> DEFINE n == Len(s)
           t == Append(Front(s), g)
<1>1. /\ n \in Nat \ {0} /\ Len(t) = n /\ t[n] = g /\ \A i \in 1 .. n - 1 : t[i] = s[i]
      /\ Last(s) = s[n]
  BY StackIs, ZenonT(30)
<1>2. /\ \A i \in 1 .. n : Placed(s[i], fs[s[i].file])
      /\ s[1].file = pg /\ s[1].before = <<>>
      /\ \A i \in 1 .. n - 1 : Waits(fs, s[i], s[i + 1], Budget(i))
  BY Zenon DEF InOrder
<1> HIDE DEF n, t
<1>3. \A i \in 1 .. n : i = n \/ (i \in 1 .. n - 1 /\ i # n)
  BY <1>1
<1>4. \A i \in 1 .. n : Placed(t[i], fs[t[i].file])
  BY <1>1, <1>2, <1>3, Zenon
<1>5. t[1].file = pg /\ t[1].before = <<>>
  <2>1. 1 \in 1 .. n
    BY <1>1
  <2>2. CASE n = 1
    BY <1>1, <1>2, <2>2, Zenon
  <2>3. CASE n # 1
    BY <1>1, <1>2, <1>3, <2>1, <2>3, Zenon
  <2>4. QED
    BY <2>2, <2>3
<1>6. ASSUME NEW i \in 1 .. n - 1 PROVE Waits(fs, t[i], t[i + 1], Budget(i))
  <2>1. i + 1 \in 1 .. n /\ t[i] = s[i]
    BY <1>1
  <2>2. t[i + 1].file = s[i + 1].file /\ t[i + 1].before = s[i + 1].before
    <3>1. CASE i + 1 = n
      BY <1>1, <3>1, Zenon
    <3>2. CASE i + 1 # n
      BY <1>1, <1>3, <2>1, <3>2, Zenon
    <3>3. QED
      BY <3>1, <3>2
  <2>3. Waits(fs, s[i], s[i + 1], Budget(i))
    BY <1>2
  <2>4. QED
    BY <2>1, <2>2, <2>3, Zenon DEF Waits
<1>7. TopSays(fs, t[n], o2, Budget(n))
  BY <1>1, Zenon DEF n
<1>8. QED
  BY <1>1, <1>4, <1>5, <1>6, <1>7, Zenon DEF InOrder, t

\* It calls another.
LEMMA CallsOn ==
  ASSUME NEW fs, NEW s \in Seq(FrameSet), s # <<>>, NEW o, NEW o2, NEW pg,
         NEW g \in FrameSet, g.file = Last(s).file, g.before = Last(s).before,
         NEW h \in FrameSet,
         InOrder(fs, s, o, pg), Placed(g, fs[g.file]), Placed(h, fs[h.file]),
         Waits(fs, g, h, Budget(Len(s))), TopSays(fs, h, o2, Budget(Len(s) + 1))
  PROVE  InOrder(fs, Front(s) \o <<g, h>>, o2, pg)
<1> DEFINE n == Len(s)
           t == Front(s) \o <<g, h>>
<1>1. /\ n \in Nat \ {0} /\ Len(t) = n + 1 /\ t[n] = g /\ t[n + 1] = h
      /\ \A i \in 1 .. n - 1 : t[i] = s[i]
      /\ Last(s) = s[n]
  BY StackIs
<1>2. /\ \A i \in 1 .. n : Placed(s[i], fs[s[i].file])
      /\ s[1].file = pg /\ s[1].before = <<>>
      /\ \A i \in 1 .. n - 1 : Waits(fs, s[i], s[i + 1], Budget(i))
  BY Zenon DEF InOrder
<1> HIDE DEF n, t
<1>3. /\ (n + 1) - 1 = n
      /\ \A i \in 1 .. n + 1 : i = n + 1 \/ i = n \/ (i \in 1 .. n - 1 /\ i \in 1 .. n)
      /\ \A i \in 1 .. n : i = n \/ (i \in 1 .. n - 1 /\ i # n)
  BY <1>1
<1>4. \A i \in 1 .. n + 1 : Placed(t[i], fs[t[i].file])
  BY <1>1, <1>2, <1>3, Zenon
<1>5. t[1].file = pg /\ t[1].before = <<>>
  <2>1. 1 \in 1 .. n
    BY <1>1
  <2>2. CASE n = 1
    BY <1>1, <1>2, <2>2, Zenon
  <2>3. CASE n # 1
    BY <1>1, <1>2, <1>3, <2>1, <2>3, Zenon
  <2>4. QED
    BY <2>2, <2>3
<1>6. ASSUME NEW i \in 1 .. n PROVE Waits(fs, t[i], t[i + 1], Budget(i))
  <2>1. CASE i = n
    BY <1>1, <2>1, Zenon DEF n
  <2>2. CASE i # n
    <3>1. i \in 1 .. n - 1 /\ i + 1 \in 1 .. n /\ t[i] = s[i]
      BY <1>1, <2>2
    <3>2. t[i + 1].file = s[i + 1].file /\ t[i + 1].before = s[i + 1].before
      <4>1. CASE i + 1 = n
        BY <1>1, <4>1, Zenon
      <4>2. CASE i + 1 # n
        BY <1>1, <1>3, <3>1, <4>2, Zenon
      <4>3. QED
        BY <4>1, <4>2
    <3>3. Waits(fs, s[i], s[i + 1], Budget(i))
      BY <1>2, <3>1
    <3>4. QED
      BY <3>1, <3>2, <3>3, Zenon DEF Waits
  <2>3. QED
    BY <2>1, <2>2
<1>7. TopSays(fs, t[n + 1], o2, Budget(n + 1))
  BY <1>1, Zenon DEF n
<1>8. QED
  BY <1>1, <1>3, <1>4, <1>5, <1>6, <1>7, Zenon DEF InOrder, t

\* It returns, having sent what its page puts out.
LEMMA Returns ==
  ASSUME NEW fs, NEW s \in Seq(FrameSet), Len(s) > 1, Len(s) <= MaxLevel + 2,
         NEW o, NEW o2 \in Seq(Sign), NEW pg,
         InOrder(fs, s, o, pg),
         Len(Last(s).before) <= Len(o2),
         o2 = Last(s).before \o Expanded(fs)[Budget(Len(s))][Last(s).file]
  PROVE  InOrder(fs, Front(s), o2, pg)
<1> DEFINE n == Len(s)
           t == Front(s)
<1>1. s # <<>> /\ n \in Nat /\ n > 1 /\ s[n] \in FrameSet
  OBVIOUS
<1>2. /\ t \in Seq(FrameSet) /\ Len(t) = n - 1 /\ \A i \in 1 .. n - 1 : t[i] = s[i]
      /\ Last(s) = s[n]
  BY <1>1, StackIs
<1>3. /\ \A i \in 1 .. n : Placed(s[i], fs[s[i].file])
      /\ s[1].file = pg /\ s[1].before = <<>>
      /\ \A i \in 1 .. n - 1 : Waits(fs, s[i], s[i + 1], Budget(i))
  BY Zenon DEF InOrder
<1> DEFINE f == s[n - 1]
<1>4. n <= MaxLevel + 2
  OBVIOUS
<1>5. f \in FrameSet
  BY <1>1
<1> HIDE DEF n, t, f
<1>6. /\ 1 \in 1 .. n - 1 /\ n - 1 \in 1 .. n - 1 /\ (n - 1) + 1 = n
      /\ \A i \in 1 .. n - 1 : i \in 1 .. n
      /\ \A i \in 1 .. (n - 1) - 1 : i \in 1 .. n - 1 /\ i + 1 \in 1 .. n - 1
  BY <1>1
<1>7. MaxLevel \in Nat
  BY MgSsiAssumption
<1>8. Budget(n - 1) - 1 = Budget(n) /\ Budget(n - 1) # 0
  BY <1>1, <1>4, <1>7 DEF Budget
<1>9. Waits(fs, f, s[n], Budget(n - 1))
  BY <1>3, <1>6, Zenon DEF f
<1>10. TopSays(fs, f, o2, Budget(n - 1))
  <2>1. Buffered(f) = <<>>
    BY <1>5, <1>9, NothingBuffered DEF Waits
  <2>2. o2 \o Buffered(f) = o2
    BY <2>1, ConcatEmptySeq
  <2>3. o2 = f.before \o SaidBy(fs, f, Budget(n - 1))
    BY <1>2, <1>8, <1>9, Zenon DEF Waits, n
  <2>4. Len(f.before) <= Len(o2)
    <3>1. Len(f.before) <= Len(s[n].before) /\ Len(s[n].before) <= Len(o2)
      BY <1>2, <1>9 DEF Waits
    <3>2. Len(f.before) \in Nat /\ Len(s[n].before) \in Nat
      BY <1>1, <1>5, FrameIs, Zenon
    <3>3. Len(o2) \in Nat
      BY LengthIs
    <3> DEFINE x == Len(f.before)
               y == Len(s[n].before)
               z == Len(o2)
    <3>4. x \in Nat /\ y \in Nat /\ z \in Nat /\ x <= y /\ y <= z
      BY <3>1, <3>2, <3>3
    <3> HIDE DEF x, y, z
    <3>5. x <= z
      BY <3>4
    <3>6. QED
      BY <3>5 DEF x, z
  <2>5. QED
    BY <1>8, <2>2, <2>3, <2>4, Zenon DEF TopSays
<1>11. \A i \in 1 .. n - 1 : Placed(t[i], fs[t[i].file])
  BY <1>2, <1>3, <1>6, Zenon
<1>12. t[1].file = pg /\ t[1].before = <<>>
  BY <1>2, <1>3, <1>6, Zenon
<1>13. \A i \in 1 .. (n - 1) - 1 : Waits(fs, t[i], t[i + 1], Budget(i))
  BY <1>2, <1>3, <1>6, Zenon
<1>14. TopSays(fs, t[n - 1], o2, Budget(n - 1))
  BY <1>2, <1>6, <1>10, Zenon DEF f
<1>15. QED
  BY <1>2, <1>11, <1>12, <1>13, <1>14, Zenon DEF InOrder, t

\* One byte more has been read and is put out as it is.
LEMMA SaysOn ==
  ASSUME NEW fs, FilesAre(fs), NEW f \in FrameSet, NEW g \in FrameSet,
         NEW n \in 1 .. MaxLevel + 1, f.at < Len(fs[f.file]), f.len < BufSize,
         g.file = f.file, g.before = f.before, g.at = f.at + 1,
         NEW o \in Seq(Sign), NEW o2, TopSays(fs, f, o, n), Len(o) <= Len(o2),
         o2 \in Seq(Sign), ~Closes(fs[f.file], f.at + 1),
         o2 \o Buffered(g) = o \o Append(Buffered(f), fs[f.file][f.at + 1])
  PROVE  TopSays(fs, g, o2, n)
<1> DEFINE p == fs[f.file]
           k == f.at
           b == f.before
           S == SaidBy(fs, f, n)
           x == Buffered(f)
<1>1. k \in Nat /\ f.len \in Nat /\ f.file \in Ssi /\ b \in Seq(Sign) /\ Len(b) \in Nat
  BY FrameIs, Zenon
<1>2. p \in Seq(Sign)
  BY <1>1, Zenon DEF FilesAre
<1>3. k <= Len(p) /\ k + 1 \in 1 .. Len(p) /\ n # 0
  BY <1>1, <1>2, SMTT(30)
<1>4. S \in Seq(Sign) /\ SaidBy(fs, g, n) = SaidNext(fs, p, Expanded(fs)[n - 1], k + 1, S)
  BY <1>3, SaidByIs
<1>5. SaidBy(fs, g, n) = Append(S, p[k + 1])
  BY <1>4, Zenon DEF SaidNext
<1>6. p[k + 1] \in Sign
  BY <1>2, <1>3
<1>7. x \in Seq(Sign)
  <2>1. f.len <= BufSize
    BY <1>1, MgSsiAssumption
  <2>2. QED
    BY <2>1, BufferIs, Zenon
<1>8. o \o x = b \o S /\ Len(b) <= Len(o)
  BY Zenon DEF TopSays
<1>9. Len(b) <= Len(o2)
  <2> DEFINE i == Len(b)
             j == Len(o)
             l == Len(o2)
  <2>1. i \in Nat /\ j \in Nat /\ l \in Nat
    BY <1>1, LengthIs, Zenon
  <2>2. i <= j /\ j <= l
    BY <1>8
  <2> HIDE DEF i, j, l
  <2>3. i <= l
    BY <2>1, <2>2
  <2>4. QED
    BY <2>3 DEF i, l
<1> DEFINE ch == p[k + 1]
<1>10. o \o Append(x, ch) = Append(o \o x, ch) /\ b \o Append(S, ch) = Append(b \o S, ch)
  <2> HIDE DEF ch, x, b, S
  <2>1. ch \in Sign
    BY <1>6 DEF ch
  <2>2. QED
    BY <1>1, <1>4, <1>7, <2>1, ConcatAppend
<1>11. o2 \o Buffered(g) = g.before \o SaidBy(fs, g, n)
  BY <1>5, <1>8, <1>10, Zenon
<1>12. QED
  BY <1>3, <1>9, <1>11, Zenon DEF TopSays

\* What is known where a byte is read.
LEMMA FedIs ==
  ASSUME SsiInv, serving = "yes", Level <= MaxLevel
  PROVE  /\ frames \in Seq(FrameSet) /\ frames # <<>> /\ Top = frames[Len(frames)]
         /\ Len(frames) \in 1 .. MaxLevel + 1
         /\ Top \in FrameSet /\ Fits(Top, files) /\ FilesAre(files) /\ Source \in Seq(Sign)
         /\ Budget(Len(frames)) \in 1 .. MaxLevel + 1
         /\ AllOrderly(files) =>
              /\ Orderly(Source) /\ Placed(Top, Source)
              /\ TopSays(files, Top, output, Budget(Len(frames)))
<1>1. /\ frames \in Seq(FrameSet) /\ Len(frames) \in 1 .. MaxLevel + 2 /\ FilesAre(files)
      /\ \A i \in 1 .. Len(frames) : Fits(frames[i], files)
      /\ AllOrderly(files) => InOrder(files, frames, output, page)
  BY Zenon DEF SsiInv
<1>2. MaxLevel \in Nat
  BY MgSsiAssumption
<1>3. Len(frames) \in Nat /\ Len(frames) > 0
  BY <1>1, <1>2
<1>4. frames # <<>>
  BY <1>3
<1>5. Len(frames) \in 1 .. MaxLevel + 1 /\ Budget(Len(frames)) \in 1 .. MaxLevel + 1
  BY <1>2, <1>3 DEF Level, Budget
<1>6. Top = frames[Len(frames)] /\ Top \in FrameSet
  BY <1>1, <1>4, TopIs, Zenon DEF Top
<1>7. Len(frames) \in 1 .. Len(frames)
  BY <1>3
<1>8. Top.file \in Ssi
  BY <1>6, FrameIs, Zenon
<1>9. Source \in Seq(Sign)
  BY <1>1, <1>8, Zenon DEF Source, FilesAre
<1>10. AllOrderly(files) => Orderly(Source)
  BY <1>8, Zenon DEF AllOrderly, Source
<1>11. QED
  BY <1>1, <1>4, <1>5, <1>6, <1>7, <1>9, <1>10, Zenon DEF InOrder, Source

\* The call on top goes on as g.
LEMMA GoesKeeps ==
  ASSUME SsiInv, serving = "yes", Level <= MaxLevel, UNCHANGED <<serving, files, page>>,
         NEW g \in FrameSet, Goes(g), Fits(g, files),
         g.file = Top.file, g.before = Top.before, output' \in Seq(Sign),
         AllOrderly(files) =>
           Placed(g, Source) /\ TopSays(files, g, output', Budget(Len(frames)))
  PROVE  SsiInv'
<1> DEFINE n == Len(frames)
           t == Append(Front(frames), g)
<1>1. /\ frames \in Seq(FrameSet) /\ frames # <<>> /\ Top = Last(frames)
      /\ n \in 1 .. MaxLevel + 1
  BY FedIs, Zenon DEF Top
<1>2. /\ t \in Seq(FrameSet) /\ Len(t) = n /\ t[n] = g /\ \A i \in 1 .. n - 1 : t[i] = frames[i]
  BY <1>1, StackIs, ZenonT(30)
<1>3. frames' = t /\ serving' = serving /\ files' = files /\ page' = page
  BY Zenon DEF Goes
<1>4. /\ \A i \in 1 .. n : Fits(frames[i], files)
      /\ AllOrderly(files) => InOrder(files, frames, output, page)
      /\ FilesAre(files) /\ page \in Ssi
  BY Zenon DEF SsiInv
<1>5. AllOrderly(files) => InOrder(files, t, output', page)
  BY <1>1, <1>4, GoesOn DEF Source
<1> HIDE DEF n, t
<1>6. MaxLevel \in Nat
  BY MgSsiAssumption
<1>7. n \in 1 .. MaxLevel + 2 /\ \A i \in 1 .. n : i = n \/ i \in 1 .. n - 1
  BY <1>1, <1>6
<1>8. \A i \in 1 .. n : Fits(t[i], files)
  <2>1. \A i \in 1 .. n - 1 : i \in 1 .. n
    BY <1>1, <1>6
  <2>2. QED
    BY <1>2, <1>4, <1>7, <2>1, Zenon
<1>9. serving' = "yes" /\ serving' # "no" /\ serving' # "done"
  BY <1>3
<1>10. QED
  BY <1>2, <1>3, <1>4, <1>5, <1>7, <1>8, <1>9, Zenon DEF SsiInv

-----------------------------------------------------------------------------
(* The steps.                                                              *)

\* A < : what there is is sent, and a tag begins.
LEMMA OpenTagInv == SsiInv /\ OpenTag => SsiInv'
<1> SUFFICES ASSUME SsiInv, OpenTag PROVE SsiInv'
  OBVIOUS
<1> DEFINE n == Len(frames)
           f == Top
           p == Source
           e == [f EXCEPT !.len = 0, !.tag = TRUE]
           g == Put(e, "<")
           k == f.at
<1>1. /\ serving = "yes" /\ Level <= MaxLevel /\ UNCHANGED <<serving, files, page>>
      /\ k < Len(p) /\ p[k + 1] = "<" /\ output' = output \o Buffered(f) /\ Goes(g)
  BY Zenon DEF OpenTag, Fed, Running, Read
<1>2. /\ f \in FrameSet /\ Fits(f, files) /\ FilesAre(files) /\ p \in Seq(Sign)
      /\ Budget(n) \in 1 .. MaxLevel + 1
      /\ AllOrderly(files) => TopSays(files, f, output, Budget(n))
      /\ f.len < BufSize /\ p = files[f.file]
  BY <1>1, FedIs, Zenon DEF Fits, Source
<1>3. k \in Nat /\ f.len \in Nat
  BY <1>2, FrameIs, Zenon
<1>4. BufSize \in Nat /\ BufSize > 9 /\ "<" \in Sign
  BY MgSsiAssumption, Signs
<1>5. output \in Seq(Sign)
  BY Zenon DEF SsiInv
<1>6. /\ e \in FrameSet /\ e.file = f.file /\ e.at = f.at /\ e.len = 0 /\ e.tag = TRUE
      /\ e.before = f.before
  <2>1. TRUE \in BOOLEAN
    OBVIOUS
  <2> HIDE DEF f
  <2>2. QED
    BY <1>2, <2>1, EmptiedIs
<1>7. Buffered(e) = <<>>
  BY <1>6, NothingBuffered
<1> HIDE DEF e
<1>8. /\ g \in FrameSet /\ g.file = f.file /\ g.tag = TRUE /\ g.before = f.before
      /\ g.at = k + 1 /\ g.len = 1 /\ OneMore(g.mem, e.mem, 0, "<")
      /\ Buffered(g) = Append(<<>>, "<")
  <2>1. e.len < BufSize
    BY <1>4, <1>6
  <2>2. /\ g \in FrameSet /\ g.file = e.file /\ g.tag = e.tag /\ g.before = e.before
        /\ g.at = e.at + 1 /\ g.len = e.len + 1 /\ OneMore(g.mem, e.mem, e.len, "<")
        /\ Buffered(g) = Append(Buffered(e), "<")
    BY <1>4, <1>6, <2>1, PutIs, Zenon
  <2>3. 0 + 1 = 1
    OBVIOUS
  <2>4. QED
    BY <1>6, <1>7, <2>2, <2>3, Zenon
<1> HIDE DEF g, f, p, n
<1>9. g.mem[1] = "<"
  <2>1. 0 + 1 = 1
    OBVIOUS
  <2>2. QED
    BY <1>8, <2>1, Zenon DEF OneMore
<1>10. Buffered(f) \in Seq(Sign)
  <2>1. f.len <= BufSize
    BY <1>2, <1>3, <1>4
  <2>2. QED
    BY <1>2, <2>1, BufferIs, Zenon
<1>11. output' \in Seq(Sign) /\ Len(output) <= Len(output')
  <2>1. output' \in Seq(Sign) /\ Len(output') = Len(output) + Len(Buffered(f))
    BY <1>1, <1>5, <1>10, ConcatProperties, Zenon
  <2>2. Len(output) \in Nat /\ Len(Buffered(f)) \in Nat
    BY <1>5, <1>10, LengthIs
  <2>3. QED
    BY <2>1, <2>2
<1>12. Fits(g, files)
  <2>1. k + 1 <= Len(p) /\ k + 1 # 0
    BY <1>1, <1>2, <1>3, LengthIs
  <2>2. 1 < BufSize /\ 1 \in 1 .. BufSize - 2
    BY <1>4
  <2>3. QED
    BY <1>2, <1>8, <2>1, <2>2, Zenon DEF Fits
<1>13. k \in 0 .. Len(p) - 1
  BY <1>1, <1>2, <1>3, LengthIs
<1>14. Tagged(p, k + 1, 1, g.mem) /\ ~Closes(p, k + 1)
  BY <1>1, <1>2, <1>9, <1>13, TagBegins
<1>15. Placed(g, p)
  BY <1>8, <1>14, Zenon DEF Placed
<1>16. AllOrderly(files) => TopSays(files, g, output', Budget(n))
  <2>1. output' \o Buffered(g) = output \o Append(Buffered(f), p[k + 1])
    <3> DEFINE b == Buffered(f)
               a == output \o b
    <3>1. a \in Seq(Sign) /\ output' = a
      BY <1>1, <1>11, Zenon
    <3>2. <<>> \in Seq(Sign)
      OBVIOUS
    <3> HIDE DEF a
    <3>3. a \o Append(<<>>, "<") = Append(a \o <<>>, "<") /\ a \o <<>> = a
      BY <1>4, <3>1, <3>2, ConcatAppend, ConcatEmptySeq
    <3> HIDE DEF b
    <3>4. output \o Append(b, "<") = Append(output \o b, "<")
      BY <1>4, <1>5, <1>10, ConcatAppend DEF b
    <3>5. QED
      BY <1>1, <1>8, <3>1, <3>3, <3>4, Zenon DEF a, b
  <2>2. QED
    BY <1>1, <1>2, <1>5, <1>8, <1>11, <1>14, <2>1, SaysOn
<1>17. QED
  BY <1>1, <1>8, <1>11, <1>12, <1>15, <1>16, GoesKeeps, Zenon DEF f, n, p

\* A buffer's memory as a sequence.
LEMMA MemoryIs ==
  ASSUME NEW f \in FrameSet
  PROVE  f.mem \in Seq(Sign) /\ Len(f.mem) = BufSize /\ 5 <= Len(f.mem)
<1> DEFINE m == f.mem
<1>1. BufSize \in Nat /\ BufSize > 9 /\ m \in [1 .. BufSize -> Sign]
  BY MgSsiAssumption, FrameIs
<1> HIDE DEF m
<1>2. m \in Seq(Sign) /\ Len(m) = BufSize /\ 5 <= BufSize
  BY <1>1
<1>3. QED
  BY <1>2 DEF m

LEMMA RetaggedIs ==
  ASSUME NEW f \in FrameSet, NEW t \in BOOLEAN, NEW g, g = [f EXCEPT !.tag = t]
  PROVE  /\ g \in FrameSet
         /\ g.file = f.file /\ g.at = f.at /\ g.len = f.len /\ g.tag = t
         /\ g.mem = f.mem /\ g.before = f.before /\ Buffered(g) = Buffered(f)
<1>1. g = [file |-> f.file, at |-> f.at, len |-> f.len, tag |-> t, mem |-> f.mem,
           before |-> f.before]
  BY DEF FrameSet
<1>2. g.mem = f.mem /\ g.len = f.len
  BY <1>1
<1>3. Buffered(g) = Buffered(f)
  BY <1>2, Zenon DEF Buffered
<1>4. QED
  BY <1>1, <1>3 DEF FrameSet

\* A byte of a tag.
LEMMA InTagInv == SsiInv /\ InTag => SsiInv'
<1> SUFFICES ASSUME SsiInv, InTag PROVE SsiInv'
  OBVIOUS
<1> DEFINE n == Len(frames)
           f == Top
           p == Source
           k == f.at
           ch == Read
           full == IsTag(f) /\ f.len = BufSize - 2
<1>1. /\ serving = "yes" /\ Level <= MaxLevel /\ UNCHANGED <<serving, files, page>>
      /\ k < Len(p) /\ ch = p[k + 1] /\ ch # "<" /\ f.tag /\ ~Closing(f, ch)
  BY Zenon DEF InTag, Fed, Running, Read
<1>2. /\ f \in FrameSet /\ Fits(f, files) /\ FilesAre(files) /\ p \in Seq(Sign)
      /\ Budget(n) \in 1 .. MaxLevel + 1
      /\ AllOrderly(files) => Orderly(p) /\ Placed(f, p) /\ TopSays(files, f, output, Budget(n))
      /\ f.len < BufSize /\ p = files[f.file] /\ f.len \in 1 .. BufSize - 2
  BY <1>1, FedIs, Zenon DEF Fits, Source
<1>3. k \in Nat /\ f.len \in Nat
  BY <1>2, FrameIs, Zenon
<1>4. BufSize \in Nat /\ BufSize > 9
  BY MgSsiAssumption
<1>5. output \in Seq(Sign)
  BY Zenon DEF SsiInv
<1>6. k \in 0 .. Len(p) - 1 /\ k + 1 <= Len(p) /\ k + 1 # 0 /\ k + 1 \in 1 .. Len(p)
  BY <1>1, <1>2, <1>3, LengthIs
<1>7. ch \in Sign
  BY <1>1, <1>2, <1>6
<1>8. IsTag(f) <=> Kept(f.len, f.mem)
  <2>1. Len(Opening) = 5
    BY DEF Opening
  <2>2. QED
    BY <1>1, <2>1, Zenon DEF IsTag, Kept, Buffered
<1>9. ~Shown(f.len, f.mem, p[k + 1])
  BY <1>1, Zenon DEF Closing, Shown
<1>10. f.mem \in Seq(Sign) /\ 5 <= Len(f.mem)
  BY <1>2, MemoryIs, Zenon
<1>11. AllOrderly(files) => Tagged(p, k, f.len, f.mem)
  BY <1>1, <1>2, Zenon DEF Placed
<1> HIDE DEF f, p, n, ch
<1>12. ASSUME AllOrderly(files), NEW more, OneMore(more, f.mem, f.len, ch)
       PROVE  /\ ~Closes(p, k + 1) /\ ~full
              /\ IsTag(f) => Tagged(p, k + 1, f.len + 1, more)
              /\ ~IsTag(f) => Untagged(p, k + 1)
  <2> DEFINE l == f.len
             m == f.mem
  <2>1. l \in Nat /\ m \in Seq(Sign) /\ 5 <= Len(m) /\ Tagged(p, k, l, m) /\ Orderly(p)
        /\ ~Shown(l, m, p[k + 1]) /\ OneMore(more, m, l, p[k + 1]) /\ p[k + 1] # "<"
    BY <1>1, <1>2, <1>3, <1>9, <1>10, <1>11, <1>12, Zenon
  <2> HIDE DEF l, m
  <2>2. /\ ~Closes(p, k + 1)
        /\ Kept(l, m) => Tagged(p, k + 1, l + 1, more)
        /\ ~Kept(l, m) => Untagged(p, k + 1)
        /\ Kept(l, m) => l # BufSize - 2
    BY <1>2, <1>6, <2>1, TagGoesOn
  <2>3. QED
    BY <1>8, <2>2, Zenon DEF l, m
<1>13. CASE full
  <2> DEFINE e == [f EXCEPT !.len = 0]
             g == Put(e, ch)
  <2>1. output' = Append(output, "too large") /\ Goes(g)
    BY <1>13, Zenon DEF InTag, f, ch
  <2>2. /\ e \in FrameSet /\ e.file = f.file /\ e.at = f.at /\ e.len = 0 /\ e.tag
        /\ e.before = f.before
    <3>1. /\ e \in FrameSet /\ e.file = f.file /\ e.at = f.at /\ e.len = 0 /\ e.tag = f.tag
          /\ e.before = f.before
      <4>1. f \in FrameSet
        BY <1>2
      <4>2. QED
        BY <4>1, FlushedIs, Zenon
    <3>2. QED
      BY <1>1, <3>1, Zenon
  <2> HIDE DEF e
  <2>3. /\ g \in FrameSet /\ g.file = f.file /\ g.tag /\ g.before = f.before
        /\ g.at = k + 1 /\ g.len = 1
    <3>1. e.len < BufSize
      BY <1>4, <2>2
    <3>2. /\ g \in FrameSet /\ g.file = e.file /\ g.tag = e.tag /\ g.before = e.before
          /\ g.at = e.at + 1 /\ g.len = e.len + 1
      BY <1>7, <2>2, <3>1, PutIs, Zenon
    <3>3. 0 + 1 = 1
      OBVIOUS
    <3>4. QED
      BY <2>2, <3>2, <3>3, Zenon
  <2> HIDE DEF g
  <2>4. Fits(g, files)
    <3>1. 1 < BufSize /\ 1 \in 1 .. BufSize - 2
      BY <1>4
    <3>2. QED
      BY <1>2, <1>6, <2>3, <3>1, Zenon DEF Fits
  <2>5. output' \in Seq(Sign)
    <3>1. "too large" \in Sign
      BY Signs, Zenon
    <3>2. QED
      BY <1>5, <2>1, <3>1, AppendProperties, Zenon
  <2>6. ~AllOrderly(files)
    <3> SUFFICES ASSUME AllOrderly(files) PROVE FALSE
      OBVIOUS
    <3>1. OneMore(Put(f, ch).mem, f.mem, f.len, ch)
      BY <1>2, <1>7, PutIs
    <3>2. QED
      BY <1>12, <1>13, <3>1, Zenon
  <2>7. QED
    BY <1>1, <2>1, <2>3, <2>4, <2>5, <2>6, GoesKeeps, Zenon DEF f
<1>14. CASE ~full
  <2> DEFINE t == IsTag(f)
             e == [f EXCEPT !.tag = t]
             g == Put(e, ch)
  <2>1. output' = output /\ Goes(g)
    BY <1>14, Zenon DEF InTag, f, ch
  <2>2. t \in BOOLEAN
    BY DEF IsTag
  <2> HIDE DEF t
  <2>3. /\ e \in FrameSet /\ e.file = f.file /\ e.at = f.at /\ e.len = f.len /\ e.tag = t
        /\ e.mem = f.mem /\ e.before = f.before /\ Buffered(e) = Buffered(f)
    <3> HIDE DEF f
    <3>1. QED
      BY <1>2, <2>2, RetaggedIs
  <2> HIDE DEF e
  <2>4. /\ g \in FrameSet /\ g.file = f.file /\ g.tag = t /\ g.before = f.before
        /\ g.at = k + 1 /\ g.len = f.len + 1 /\ OneMore(g.mem, f.mem, f.len, ch)
        /\ Buffered(g) = Append(Buffered(f), ch)
    <3>1. e.len < BufSize
      BY <1>2, <2>3, Zenon
    <3>2. /\ g \in FrameSet /\ g.file = e.file /\ g.tag = e.tag /\ g.before = e.before
          /\ g.at = e.at + 1 /\ g.len = e.len + 1 /\ OneMore(g.mem, e.mem, e.len, ch)
          /\ Buffered(g) = Append(Buffered(e), ch)
      BY <1>7, <2>3, <3>1, PutIs, Zenon
    <3>3. QED
      BY <2>3, <3>2, Zenon
  <2> HIDE DEF g
  <2>5. Fits(g, files)
    <3>1. f.len + 1 < BufSize /\ (f.len # BufSize - 2 => f.len + 1 \in 1 .. BufSize - 2)
      BY <1>2, <1>3, <1>4
    <3>2. t => f.len # BufSize - 2
      BY <1>14, Zenon DEF t
    <3>3. QED
      BY <1>2, <1>6, <2>4, <3>1, <3>2, Zenon DEF Fits
  <2>6. ASSUME AllOrderly(files)
        PROVE  Placed(g, p) /\ TopSays(files, g, output', Budget(n))
    <3>1. /\ ~Closes(p, k + 1)
          /\ t => Tagged(p, k + 1, f.len + 1, g.mem)
          /\ ~t => Untagged(p, k + 1)
      BY <1>12, <2>4, <2>6, Zenon DEF t
    <3>2. Placed(g, p)
      BY <2>2, <2>4, <3>1, Zenon DEF Placed
    <3>3. output' \in Seq(Sign) /\ Len(output) <= Len(output')
      <4>1. Len(output) \in Nat
        BY <1>5, LengthIs
      <4>2. QED
        BY <1>5, <2>1, <4>1
    <3>4. output' \o Buffered(g) = output \o Append(Buffered(f), p[k + 1])
      BY <1>1, <2>1, <2>4, Zenon
    <3>5. TopSays(files, g, output', Budget(n))
      BY <1>1, <1>2, <1>5, <2>4, <2>6, <3>1, <3>3, <3>4, SaysOn
    <3>6. QED
      BY <3>2, <3>5
  <2>7. QED
    BY <1>1, <1>5, <2>1, <2>4, <2>5, <2>6, GoesKeeps, Zenon DEF f, p, n
<1>15. QED
  BY <1>13, <1>14

\* A byte of text: it is kept until the buffer is full.
LEMMA InTextInv == SsiInv /\ InText => SsiInv'
<1> SUFFICES ASSUME SsiInv, InText PROVE SsiInv'
  OBVIOUS
<1> DEFINE n == Len(frames)
           f == Top
           p == Source
           k == f.at
           ch == Read
           more == Put(f, ch)
<1>1. /\ serving = "yes" /\ Level <= MaxLevel /\ UNCHANGED <<serving, files, page>>
      /\ k < Len(p) /\ ch = p[k + 1] /\ ch # "<" /\ ~f.tag
  BY Zenon DEF InText, Fed, Running, Read
<1>2. /\ f \in FrameSet /\ Fits(f, files) /\ FilesAre(files) /\ p \in Seq(Sign)
      /\ Budget(n) \in 1 .. MaxLevel + 1
      /\ AllOrderly(files) => Placed(f, p) /\ TopSays(files, f, output, Budget(n))
      /\ f.len < BufSize /\ p = files[f.file]
  BY <1>1, FedIs, Zenon DEF Fits, Source
<1>3. k \in Nat /\ f.len \in Nat
  BY <1>2, FrameIs, Zenon
<1>4. BufSize \in Nat /\ BufSize > 9
  BY MgSsiAssumption
<1>5. output \in Seq(Sign) /\ Len(output) \in Nat
  BY LengthIs, Zenon DEF SsiInv
<1>6. k \in 0 .. Len(p) - 1 /\ k + 1 <= Len(p) /\ k + 1 # 0 /\ k + 1 \in 1 .. Len(p)
  <2>1. Len(p) \in Nat
    BY <1>2, LengthIs
  <2>2. k < Len(p)
    BY <1>1
  <2> HIDE DEF k, p
  <2>3. QED
    BY <1>3, <2>1, <2>2
<1>7. ch \in Sign
  BY <1>1, <1>2, <1>6
<1>8. /\ more \in FrameSet /\ more.file = f.file /\ more.tag = f.tag /\ more.before = f.before
      /\ more.at = k + 1 /\ more.len = f.len + 1
      /\ Buffered(more) = Append(Buffered(f), ch)
  BY <1>2, <1>7, PutIs
<1>9. more.len \in Nat /\ more.len <= BufSize
  BY <1>2, <1>3, <1>4, <1>8
<1>10. Buffered(more) \in Seq(Sign)
  BY <1>8, <1>9, BufferIs, Zenon
<1> DEFINE g == IF more.len = BufSize THEN [more EXCEPT !.len = 0] ELSE more
<1>11. Goes(g)
  BY Zenon DEF InText
<1>12. /\ g \in FrameSet /\ g.file = f.file /\ ~g.tag /\ g.before = f.before /\ g.at = k + 1
       /\ g.len < BufSize
       /\ output' \in Seq(Sign) /\ Len(output) <= Len(output')
       /\ output' \o Buffered(g) = output \o Buffered(more)
  <2>1. CASE more.len = BufSize
    <3> DEFINE e == [more EXCEPT !.len = 0]
    <3>1. g = e /\ output' = output \o Buffered(more)
      BY <2>1, Zenon DEF InText
    <3> HIDE DEF more, f
    <3>2. /\ e \in FrameSet /\ e.file = more.file /\ e.at = more.at /\ e.len = 0
          /\ e.tag = more.tag /\ e.before = more.before
      BY <1>8, FlushedIs, Zenon
    <3> HIDE DEF e, g
    <3>3. Buffered(e) = <<>>
      BY <3>2, NothingBuffered
    <3>4. output' \in Seq(Sign) /\ Len(output') = Len(output) + Len(Buffered(more))
      BY <1>5, <1>10, <3>1, ConcatProperties, Zenon
    <3>5. Len(Buffered(more)) \in Nat
      BY <1>10, LengthIs
    <3>6. Len(output) <= Len(output') /\ 0 < BufSize
      BY <1>4, <1>5, <3>4, <3>5
    <3>7. output' \o <<>> = output'
      BY <3>4, ConcatEmptySeq
    <3>8. QED
      BY <1>1, <1>8, <3>1, <3>2, <3>3, <3>4, <3>6, <3>7, Zenon
  <2>2. CASE more.len # BufSize
    <3>1. g = more /\ output' = output
      BY <2>2, Zenon DEF InText
    <3> HIDE DEF more, f, g
    <3>2. more.len < BufSize
      BY <1>4, <1>9, <2>2
    <3>3. Len(output) <= Len(output')
      BY <1>5, <3>1
    <3>4. QED
      BY <1>1, <1>5, <1>8, <3>1, <3>2, <3>3, Zenon
  <2>3. QED
    BY <2>1, <2>2
<1> HIDE DEF f, p, n, ch, more, g
<1>13. Fits(g, files)
  BY <1>2, <1>6, <1>12, Zenon DEF Fits
<1>14. ASSUME AllOrderly(files)
       PROVE  Placed(g, p) /\ TopSays(files, g, output', Budget(n))
  <2>1. Untagged(p, k)
    BY <1>1, <1>2, <1>14, Zenon DEF Placed
  <2>2. Untagged(p, k + 1) /\ ~Closes(p, k + 1)
    BY <1>1, <1>2, <1>6, <2>1, TextGoesOn, Zenon
  <2>3. Placed(g, p)
    BY <1>12, <2>2, Zenon DEF Placed
  <2>4. output' \o Buffered(g) = output \o Append(Buffered(f), p[k + 1])
    BY <1>1, <1>8, <1>12, Zenon
  <2>5. TopSays(files, g, output', Budget(n))
    BY <1>1, <1>2, <1>5, <1>12, <1>14, <2>2, <2>4, SaysOn
  <2>6. QED
    BY <2>3, <2>5
<1>15. QED
  BY <1>1, <1>11, <1>12, <1>13, <1>14, GoesKeeps, Zenon DEF f, p, n

\* What a call is after a tag's end.
Trimmed(f) == [f.mem EXCEPT ![f.len - 1] = "0"]
Past(f) == [f EXCEPT !.mem = Trimmed(f), !.tag = FALSE, !.len = 0, !.at = @ + 1]
Overwritten(mem, old, i) ==
  mem[i] = "0" /\ \A j \in 1 .. BufSize : j # i => mem[j] = old[j]

LEMMA PastIs ==
  ASSUME NEW f \in FrameSet, f.len \in 2 .. BufSize
  PROVE  /\ Past(f) \in FrameSet
         /\ Past(f).file = f.file /\ Past(f).at = f.at + 1 /\ Past(f).len = 0 /\ ~Past(f).tag
         /\ Past(f).before = f.before
         /\ Overwritten(Trimmed(f), f.mem, f.len - 1)
<1>1. /\ f.file \in Ssi /\ f.at \in Nat /\ f.len \in Nat /\ f.mem \in [1 .. BufSize -> Sign]
      /\ f.before \in Seq(Sign) /\ BufSize \in Nat
  BY FrameIs, MgSsiAssumption, Zenon
<1>2. "0" \in Sign
  BY Signs, Zenon
<1> DEFINE i == f.len - 1
           m == f.mem
           mem == Trimmed(f)
<1>3. i \in 1 .. BufSize
  BY <1>1
<1>4. mem = [m EXCEPT ![i] = "0"] /\ m \in [1 .. BufSize -> Sign]
  BY <1>1 DEF Trimmed
<1> HIDE DEF i, m, mem
<1>5. mem \in [1 .. BufSize -> Sign] /\ Overwritten(mem, m, i)
  BY <1>2, <1>3, <1>4, Zenon DEF Overwritten
<1>6. f.at + 1 \in Nat
  BY <1>1
<1> DEFINE past == f.at + 1
           t == FALSE
           g == Past(f)
<1>7. g = [f EXCEPT !.mem = mem, !.tag = t, !.len = 0, !.at = past]
  BY DEF Past, mem
<1>8. t \in BOOLEAN /\ past \in Nat
  BY <1>6
<1> HIDE DEF past, t, g
<1>9. /\ g \in FrameSet /\ g.file = f.file /\ g.at = past /\ g.len = 0 /\ g.tag = t
      /\ g.before = f.before
  <2>1. g = [file |-> f.file, at |-> past, len |-> 0, tag |-> t, mem |-> mem, before |-> f.before]
    BY <1>7 DEF FrameSet
  <2>2. mem \in [1 .. BufSize -> Sign]
    BY <1>5
  <2>3. QED
    BY <1>8, <2>1, <2>2 DEF FrameSet
<1>10. QED
  BY <1>5, <1>9, Zenon DEF i, m, mem, past, t, g

\* The call f reads the end of a directive, and is g then.
AtEnd(fs, p, f, g) ==
  /\ f.at < Len(p) /\ f.len \in 1 .. BufSize /\ p = fs[f.file] /\ Orderly(p)
  /\ p[f.at + 1] # "<" /\ Tagged(p, f.at, f.len, f.mem)
  /\ Shown(f.len, f.mem, p[f.at + 1])
  /\ g.file = f.file /\ g.before = f.before /\ g.at = f.at + 1

\* What is sent then, with what is included, is what f's bytes and it put out.
Includes(fs, f, g, n, o, name) ==
  o \o Included(fs, name, Expanded(fs)[n - 1]) = f.before \o SaidBy(fs, g, n)

\* A directive that closes is taken back for what it includes: the name the
\* buffer shows is the page's, or neither names a file.
LEMMA SaysIncluded ==
  ASSUME NEW fs, FilesAre(fs), NEW p, NEW f \in FrameSet, NEW g \in FrameSet,
         NEW n \in 1 .. MaxLevel + 1, AtEnd(fs, p, f, g),
         NEW o \in Seq(Sign), TopSays(fs, f, o, n),
         NEW mem, Overwritten(mem, f.mem, f.len - 1)
  PROVE  Untagged(p, f.at + 1) /\ Includes(fs, f, g, n, o, mem[6])
<1> DEFINE k == f.at
           l == f.len
           m == f.mem
           sent == f.before
           said == SaidBy(fs, f, n)
           held == Buffered(f)
           j == Opens(p, k + 1)
           inc == Expanded(fs)[n - 1]
<1>1. k \in Nat /\ l \in Nat /\ f.file \in Ssi /\ sent \in Seq(Sign) /\ Len(sent) \in Nat
  BY FrameIs, Zenon
<1>2. /\ p = fs[f.file] /\ p[k + 1] # "<" /\ Orderly(p) /\ Tagged(p, k, l, m)
      /\ Shown(l, m, p[k + 1]) /\ k < Len(p) /\ l \in 1 .. BufSize
      /\ g.file = f.file /\ g.at = k + 1
  BY Zenon DEF AtEnd
<1>3. p \in Seq(Sign) /\ Len(p) \in Nat
  BY <1>1, <1>2, LengthIs, Zenon DEF FilesAre
<1>4. /\ k \in 0 .. Len(p) - 1 /\ k <= Len(p) /\ k + 1 \in 1 .. Len(p) /\ n # 0
      /\ l <= BufSize
  <2>1. k < Len(p) /\ l \in 1 .. BufSize
    BY <1>2, Zenon
  <2> HIDE DEF k, l
  <2>2. QED
    BY <1>1, <1>3, <2>1 DEF k, l
<1>5. /\ said \in Seq(Sign) /\ inc \in [Ssi -> Seq(Sign)]
      /\ SaidBy(fs, g, n) = SaidNext(fs, p, inc, k + 1, said)
  BY <1>2, <1>4, SaidByIs, Zenon
<1>6. m \in Seq(Sign) /\ Len(m) = BufSize /\ l <= Len(m)
  BY <1>4, MemoryIs, Zenon
<1>7. /\ Closes(p, k + 1) /\ Untagged(p, k + 1) /\ l = (k + 1) - j /\ l >= 7
      /\ m[6] = p[j + 5] /\ (l = 7 => m[6] = "-")
  <2>1. /\ k \in 0 .. Len(p) - 1 /\ p[k + 1] # "<" /\ Orderly(p) /\ Tagged(p, k, l, m)
        /\ Shown(l, m, p[k + 1]) /\ l \in Nat /\ m \in Seq(Sign) /\ l <= Len(m)
    BY <1>1, <1>2, <1>4, <1>6, Zenon
  <2> HIDE DEF k, l, m, j
  <2>2. QED
    BY <1>3, <2>1, TagCloses DEF j
<1>8. held \in Seq(Sign) /\ Len(held) = l
  BY <1>4, BufferIs, Zenon
<1>9. Extends(o, held, sent, said)
  BY Zenon DEF TopSays, Extends
<1> DEFINE back == Without(said, l)
<1>10. back \in Seq(Sign) /\ o = sent \o back
  <2> HIDE DEF sent, said, held
  <2>1. Without(said, Len(held)) \in Seq(Sign) /\ o = sent \o Without(said, Len(held))
    <3>1. sent \in Seq(Sign) /\ held \in Seq(Sign) /\ said \in Seq(Sign)
      BY <1>1, <1>5, <1>8, Zenon
    <3>2. QED
      BY <1>9, <3>1, TakenBack
  <2>2. QED
    BY <1>8, <2>1, Zenon
<1>11. SaidBy(fs, g, n) = back \o Included(fs, p[j + 5], inc)
  <2> HIDE DEF said, inc, j
  <2>1. SaidNext(fs, p, inc, k + 1, said) =
          Without(said, (k + 1) - j) \o Included(fs, p[j + 5], inc)
    BY <1>7, Zenon DEF SaidNext, Without, j
  <2>2. QED
    BY <1>5, <1>7, <2>1, Zenon
<1>12. Included(fs, p[j + 5], inc) = Included(fs, mem[6], inc)
  <2>1. mem[l - 1] = "0" /\ \A i \in 1 .. BufSize : i # l - 1 => mem[i] = m[i]
    BY Zenon DEF Overwritten
  <2> HIDE DEF m, l, j, inc
  <2>2. CASE l = 7
    <3>1. l - 1 = 6
      BY <2>2
    <3>2. mem[6] = "0" /\ p[j + 5] = "-"
      BY <1>7, <2>1, <2>2, <3>1, Zenon
    <3>3. {"0", "-"} \cap (Ssi \cup Plain) = {}
      BY MgSsiAssumption
    <3>4. mem[6] \notin Ssi \cup Plain /\ p[j + 5] \notin Ssi \cup Plain
      BY <3>2, <3>3, Zenon
    <3>5. QED
      BY <3>4, Zenon DEF Included
  <2>3. CASE l # 7
    <3>1. 6 \in 1 .. BufSize /\ 6 # l - 1
      BY <1>1, <1>4, <1>7, <2>3, MgSsiAssumption
    <3>2. mem[6] = p[j + 5]
      BY <1>7, <2>1, <3>1, Zenon
    <3>3. QED
      BY <3>2, Zenon
  <2>4. QED
    BY <2>2, <2>3
<1> DEFINE what == Included(fs, mem[6], inc)
<1>13. what \in Seq(Sign)
  BY <1>5, IncludedIs
<1>14. SaidBy(fs, g, n) = back \o what
  BY <1>11, <1>12, Zenon
<1>15. (sent \o back) \o what = sent \o (back \o what)
  <2>1. sent \in Seq(Sign) /\ back \in Seq(Sign) /\ what \in Seq(Sign)
    BY <1>1, <1>10, <1>13, Zenon
  <2> HIDE DEF sent, back, what
  <2>2. QED
    BY <2>1, ConcatAssociative, SMTT(30)
<1>16. o \o what = sent \o SaidBy(fs, g, n)
  <2> HIDE DEF what, back, sent
  <2>1. QED
    BY <1>10, <1>14, <1>15, Zenon
<1>17. QED
  BY <1>7, <1>16, Zenon DEF Includes

\* A call that has just begun.
LEMMA BegunIs ==
  ASSUME NEW name \in Ssi, NEW old \in Unset, output \in Seq(Sign), NEW fs, FilesAre(fs),
         NEW n \in Nat
  PROVE  /\ Frame(name, old) \in FrameSet /\ Frame(name, old).file = name
         /\ Frame(name, old).before = output
         /\ Fits(Frame(name, old), fs) /\ Placed(Frame(name, old), fs[name])
         /\ TopSays(fs, Frame(name, old), output, n)
<1> DEFINE h == Frame(name, old)
           mem == [k \in 1 .. BufSize |-> old]
           t == FALSE
<1>1. mem \in [1 .. BufSize -> Sign]
  BY Signs, Zenon
<1>2. h = [file |-> name, at |-> 0, len |-> 0, tag |-> t, mem |-> mem, before |-> output]
  BY DEF Frame
<1>3. t \in BOOLEAN
  OBVIOUS
<1>4. fs[name] \in Seq(Sign)
  BY Zenon DEF FilesAre
<1> HIDE DEF h, mem, t
<1>5. /\ h \in FrameSet /\ h.file = name /\ h.at = 0 /\ h.len = 0 /\ h.tag = t
      /\ h.before = output
  BY <1>1, <1>2, <1>3 DEF FrameSet
<1>6. Len(fs[name]) \in Nat /\ Len(output) \in Nat
  BY <1>4, LengthIs
<1>7. 0 <= Len(fs[name]) /\ 0 < BufSize /\ Len(output) <= Len(output)
  BY <1>6, MgSsiAssumption
<1>8. Fits(h, fs)
  BY <1>5, <1>7, Zenon DEF Fits, t
<1>9. 0 \in 0 .. Len(fs[name])
  BY <1>6
<1>10. Opens(fs[name], 0) \in 0 .. 0
  BY <1>4, <1>9, OpensIs, Zenon
<1>11. ~(Opens(fs[name], 0) > 0)
  BY <1>10
<1>12. Placed(h, fs[name])
  BY <1>5, <1>11, Zenon DEF Placed, Untagged, Unclosed, t
<1>13. Buffered(h) = <<>>
  BY <1>5, NothingBuffered, Zenon
<1>14. TopSays(fs, h, output, n)
  BY <1>5, <1>7, <1>13, Zenon DEF TopSays, SaidBy
<1>15. QED
  BY <1>5, <1>8, <1>12, <1>14, Zenon DEF h

\* A tag's end: what it names is sent, or expanded in turn.
LEMMA CloseTagInv == SsiInv /\ CloseTag => SsiInv'
<1> SUFFICES ASSUME SsiInv, CloseTag PROVE SsiInv'
  OBVIOUS
<1> DEFINE n == Len(frames)
           f == Top
           p == Source
           k == f.at
           mem == Trimmed(f)
           g == Past(f)
           name == mem[6]
           inc == Expanded(files)[Budget(n) - 1]
<1>1. /\ serving = "yes" /\ Level <= MaxLevel /\ UNCHANGED <<serving, files, page>>
      /\ k < Len(p) /\ f.tag /\ Shown(f.len, f.mem, p[k + 1])
  BY Zenon DEF CloseTag, Closing, Shown, Fed, Running, Read
<1>2. \/ /\ name \in Ssi /\ output' = output
         /\ \E old \in Unset : frames' = Front(frames) \o <<g, Frame(name, old)>>
      \/ /\ name \notin Ssi /\ Goes(g)
         /\ output' = IF name \in Plain THEN output \o files[name] ELSE output
  <2>1. Len(Opening) + 1 = 6
    BY DEF Opening
  <2>2. QED
    BY <2>1, Zenon DEF CloseTag, Trimmed, Past
<1>3. /\ f \in FrameSet /\ Fits(f, files) /\ FilesAre(files) /\ p \in Seq(Sign)
      /\ frames \in Seq(FrameSet) /\ frames # <<>> /\ n \in 1 .. MaxLevel + 1
      /\ Budget(n) \in 1 .. MaxLevel + 1
      /\ AllOrderly(files) =>
           Orderly(p) /\ Placed(f, p) /\ TopSays(files, f, output, Budget(n))
      /\ p = files[f.file] /\ f.len \in 1 .. BufSize - 2
  BY <1>1, FedIs, Zenon DEF Fits, Source
<1>4. k \in Nat /\ f.len \in Nat
  BY <1>3, FrameIs, Zenon
<1>5. BufSize \in Nat /\ MaxLevel \in Nat
  BY MgSsiAssumption
<1>6. output \in Seq(Sign) /\ Len(output) \in Nat
  BY LengthIs, Zenon DEF SsiInv
<1>7. f.len > 1 /\ p[k + 1] = ">"
  BY <1>1, Zenon DEF Shown
<1> HIDE DEF f, p, n
<1>8. f.len \in 2 .. BufSize /\ f.len \in 1 .. BufSize /\ k + 1 <= Len(p) /\ k + 1 # 0
  <2>1. Len(p) \in Nat
    BY <1>3, LengthIs
  <2>2. k < Len(p)
    BY <1>1
  <2>3. f.len \in 1 .. BufSize - 2
    BY <1>3
  <2>4. QED
    BY <1>4, <1>5, <1>7, <2>1, <2>2, <2>3
<1>9. /\ g \in FrameSet /\ g.file = f.file /\ g.at = k + 1 /\ g.len = 0 /\ ~g.tag
      /\ g.before = f.before /\ Overwritten(mem, f.mem, f.len - 1)
  BY <1>3, <1>8, PastIs, Zenon
<1> HIDE DEF g, mem
<1>10. Buffered(g) = <<>>
  BY <1>9, NothingBuffered, Zenon
<1>11. Fits(g, files)
  <2>1. 0 < BufSize
    BY MgSsiAssumption
  <2>2. QED
    BY <1>3, <1>8, <1>9, <2>1, Zenon DEF Fits
<1>12. ASSUME AllOrderly(files)
       PROVE  /\ Placed(g, p) /\ Len(g.before) <= Len(output)
              /\ output \o Included(files, name, inc) = g.before \o SaidBy(files, g, Budget(n))
  <2>1. ">" # "<"
    OBVIOUS
  <2>2. Tagged(p, k, f.len, f.mem)
    BY <1>1, <1>3, <1>12, Zenon DEF Placed
  <2>3. AtEnd(files, p, f, g)
    BY <1>1, <1>3, <1>7, <1>8, <1>9, <1>12, <2>1, <2>2, Zenon DEF AtEnd
  <2>4. TopSays(files, f, output, Budget(n))
    BY <1>3, <1>12
  <2>5. Untagged(p, k + 1) /\ Includes(files, f, g, Budget(n), output, name)
    BY <1>3, <1>6, <1>9, <2>3, <2>4, SaysIncluded
  <2>6. QED
    BY <1>9, <2>4, <2>5, Zenon DEF Placed, TopSays, Includes
<1>13. CASE name \in Ssi
  <2>1. PICK old \in Unset : frames' = Front(frames) \o <<g, Frame(name, old)>>
    BY <1>2, <1>13, Zenon
  <2>2. output' = output
    BY <1>2, <1>13, Zenon
  <2> DEFINE h == Frame(name, old)
             t == Front(frames) \o <<g, h>>
  <2>3. n \in Nat /\ n + 1 \in Nat /\ Budget(n) - 1 \in Nat /\ Budget(n + 1) = Budget(n) - 1
    BY <1>3, <1>5, SMTT(30) DEF Budget
  <2>4. /\ h \in FrameSet /\ h.file = name /\ h.before = output
        /\ Fits(h, files) /\ Placed(h, files[name])
        /\ TopSays(files, h, output, Budget(n + 1))
    BY <1>3, <1>6, <1>13, <2>3, BegunIs, Zenon
  <2> HIDE DEF h
  <2>5. /\ t \in Seq(FrameSet) /\ Len(t) = n + 1 /\ t[n + 1] = h /\ t[n] = g
        /\ \A i \in 1 .. n - 1 : t[i] = frames[i]
    <3>1. frames \in Seq(FrameSet) /\ frames # <<>> /\ g \in FrameSet /\ h \in FrameSet
      BY <1>3, <1>9, <2>4
    <3>2. QED
      BY <3>1, StackIs DEF n
  <2>6. /\ \A i \in 1 .. n : Fits(frames[i], files)
        /\ AllOrderly(files) => InOrder(files, frames, output, page)
        /\ FilesAre(files) /\ page \in Ssi
    BY <1>1, Zenon DEF SsiInv, n
  <2>7. ASSUME AllOrderly(files) PROVE InOrder(files, t, output, page)
    <3>1. Included(files, name, inc) = inc[name]
      BY <1>13, Zenon DEF Included
    <3>2. Waits(files, g, h, Budget(n))
      BY <1>9, <1>12, <2>4, <2>7, <3>1, Zenon DEF Waits
    <3>3. Placed(g, files[g.file]) /\ Placed(h, files[h.file])
      BY <1>3, <1>9, <1>12, <2>4, <2>7, Zenon
    <3>4. g.file = Last(frames).file /\ g.before = Last(frames).before
      BY <1>9, Zenon DEF f, Top
    <3> DEFINE o == output
    <3>5. InOrder(files, frames, o, page) /\ TopSays(files, h, o, Budget(n + 1))
      BY <2>4, <2>6, <2>7, Zenon
    <3> HIDE DEF o
    <3>6. InOrder(files, t, o, page)
      BY <1>3, <1>9, <2>4, <3>2, <3>3, <3>4, <3>5, CallsOn DEF n
    <3>7. QED
      BY <3>6 DEF o
  <2> HIDE DEF t
  <2>8. /\ n + 1 \in 1 .. MaxLevel + 2
        /\ \A i \in 1 .. n + 1 : i = n + 1 \/ i = n \/ (i \in 1 .. n - 1 /\ i \in 1 .. n)
    BY <1>3, <1>5
  <2>9. \A i \in 1 .. n + 1 : Fits(t[i], files)
    BY <1>11, <2>4, <2>5, <2>6, <2>8, Zenon
  <2>10. frames' = t /\ serving' = serving /\ files' = files /\ page' = page
    BY <1>1, <2>1, Zenon DEF t, h
  <2>11. serving' = "yes" /\ serving' # "no" /\ serving' # "done"
    BY <1>1, <2>10
  <2>12. QED
    BY <1>6, <2>2, <2>5, <2>6, <2>7, <2>8, <2>9, <2>10, <2>11, Zenon DEF SsiInv
<1>14. CASE name \notin Ssi
  <2> DEFINE i == IF name \in Plain THEN files[name] ELSE <<>>
  <2>1. Goes(g)
    BY <1>2, <1>14, Zenon
  <2>2. i \in Seq(Sign)
    <3>1. <<>> \in Seq(Sign)
      OBVIOUS
    <3>2. QED
      BY <1>3, <3>1, Zenon DEF FilesAre
  <2>3. output' = output \o i
    <3>1. output \o <<>> = output
      BY <1>6, ConcatEmptySeq
    <3>2. QED
      BY <1>2, <1>14, <3>1, Zenon
  <2>4. Included(files, name, inc) = i
    BY <1>14, Zenon DEF Included
  <2> HIDE DEF i
  <2>5. output' \in Seq(Sign) /\ Len(output') = Len(output) + Len(i)
    BY <1>6, <2>2, <2>3, ConcatProperties, Zenon
  <2>6. Len(output) <= Len(output')
    <3>1. Len(i) \in Nat
      BY <2>2, LengthIs
    <3>2. QED
      BY <1>6, <2>5, <3>1
  <2>7. ASSUME AllOrderly(files)
        PROVE  Placed(g, p) /\ TopSays(files, g, output', Budget(n))
    <3>1. /\ Placed(g, p) /\ Len(g.before) <= Len(output)
          /\ output \o i = g.before \o SaidBy(files, g, Budget(n))
      BY <1>12, <2>4, <2>7, Zenon
    <3>2. output' \o Buffered(g) = output'
      <4> DEFINE o == output'
      <4>1. o \in Seq(Sign)
        BY <2>5
      <4> HIDE DEF o
      <4>2. o \o <<>> = o
        BY <4>1, ConcatEmptySeq
      <4>3. QED
        BY <1>10, <4>2, Zenon DEF o
    <3>3. Len(g.before) <= Len(output')
      <4>1. Len(g.before) \in Nat /\ Len(output') \in Nat
        BY <1>9, <2>5, FrameIs, LengthIs, Zenon
      <4> DEFINE x == Len(g.before)
                 y == Len(output)
                 z == Len(output')
      <4>2. x \in Nat /\ y \in Nat /\ z \in Nat /\ x <= y /\ y <= z
        BY <1>6, <2>6, <3>1, <4>1
      <4> HIDE DEF x, y, z
      <4>3. x <= z
        BY <4>2
      <4>4. QED
        BY <4>3 DEF x, z
    <3>4. Budget(n) # 0
      BY <1>3, <1>5
    <3>5. QED
      BY <2>3, <3>1, <3>2, <3>3, <3>4, Zenon DEF TopSays
  <2>8. QED
    BY <1>1, <1>9, <1>11, <2>1, <2>5, <2>7, GoesKeeps, Zenon DEF f, p, n
<1>15. QED
  BY <1>13, <1>14

\* The call on top returns to the one below.
LEMMA ReturnKeeps ==
  ASSUME SsiInv, serving = "yes", Len(frames) > 1, UNCHANGED <<files, page>>,
         serving' = "yes", frames' = Front(frames), output' \in Seq(Sign),
         AllOrderly(files) =>
           /\ Len(Top.before) <= Len(output')
           /\ output' = Top.before \o Expanded(files)[Budget(Len(frames))][Top.file]
  PROVE  SsiInv'
<1> DEFINE n == Len(frames)
           t == Front(frames)
           o == output'
<1>1. /\ frames \in Seq(FrameSet) /\ n \in 1 .. MaxLevel + 2
      /\ \A i \in 1 .. n : Fits(frames[i], files)
      /\ AllOrderly(files) => InOrder(files, frames, output, page)
      /\ FilesAre(files) /\ page \in Ssi
  BY Zenon DEF SsiInv
<1>2. MaxLevel \in Nat
  BY MgSsiAssumption
<1>3. n > 1 /\ n <= MaxLevel + 2 /\ frames # <<>> /\ n - 1 \in 1 .. MaxLevel + 2
  <2>1. n > 1
    OBVIOUS
  <2>2. frames # <<>>
    BY <1>1, <2>1
  <2> HIDE DEF n
  <2>3. QED
    BY <1>1, <1>2, <2>1, <2>2
<1>4. t \in Seq(FrameSet) /\ Len(t) = n - 1 /\ \A i \in 1 .. n - 1 : t[i] = frames[i]
  <2>1. frames[n] \in FrameSet
    BY <1>1, <1>3, TopIs
  <2>2. QED
    BY <1>1, <1>3, <2>1, StackIs
<1>5. ASSUME AllOrderly(files) PROVE InOrder(files, t, o, page)
  <2>1. /\ Len(Last(frames).before) <= Len(o)
        /\ o = Last(frames).before \o Expanded(files)[Budget(n)][Last(frames).file]
    BY <1>5, Zenon DEF Top
  <2>2. InOrder(files, frames, output, page) /\ o \in Seq(Sign)
    BY <1>1, <1>5
  <2> HIDE DEF o
  <2>3. QED
    BY <1>1, <1>3, <2>1, <2>2, Returns DEF n
<1>6. \A i \in 1 .. n - 1 : i \in 1 .. n
  BY <1>1
<1> HIDE DEF n, t
<1>7. \A i \in 1 .. n - 1 : Fits(t[i], files)
  BY <1>1, <1>4, <1>6, Zenon
<1>8. frames' = t /\ files' = files /\ page' = page
  BY DEF t
<1>9. serving' # "no" /\ serving' # "done"
  OBVIOUS
<1>10. QED
  BY <1>1, <1>3, <1>4, <1>5, <1>7, <1>8, <1>9, Zenon DEF SsiInv, o

\* A page called too deep puts out that it was.
LEMMA TooDeepInv == SsiInv /\ TooDeep => SsiInv'
<1> SUFFICES ASSUME SsiInv, TooDeep PROVE SsiInv'
  OBVIOUS
<1> DEFINE n == Len(frames)
           f == Top
           o == output
           b == f.before
<1>1. /\ serving = "yes" /\ Level > MaxLevel /\ UNCHANGED <<serving, files, page>>
      /\ output' = Append(o, "too deep") /\ frames' = Front(frames)
  BY Zenon DEF TooDeep
<1>2. /\ frames \in Seq(FrameSet) /\ n \in 1 .. MaxLevel + 2 /\ o \in Seq(Sign)
      /\ \A i \in 1 .. n : Fits(frames[i], files)
      /\ AllOrderly(files) => InOrder(files, frames, o, page)
      /\ FilesAre(files)
  BY <1>1, Zenon DEF SsiInv
<1>3. MaxLevel \in Nat /\ BufSize \in Nat
  BY MgSsiAssumption
<1>4. n - 1 > MaxLevel
  BY <1>1 DEF Level
<1>5. frames # <<>>
  BY <1>2, <1>3
<1>6. f \in FrameSet /\ f = frames[n]
  BY <1>2, <1>5, TopIs DEF Top
<1> HIDE DEF n, f, o
<1>7. n = MaxLevel + 2 /\ n > 1 /\ n \in 1 .. n
  BY <1>2, <1>3, <1>4
<1>8. Budget(n) = 0
  BY <1>3, <1>7 DEF Budget
<1>9. "too deep" \in Sign
  BY Signs, Zenon
<1>10. output' \in Seq(Sign) /\ Len(output') = Len(o) + 1
  <2> DEFINE ch == "too deep"
  <2>1. ch \in Sign
    BY <1>9
  <2> HIDE DEF ch
  <2>2. Append(o, ch) \in Seq(Sign) /\ Len(Append(o, ch)) = Len(o) + 1
    BY <1>2, <2>1, AppendProperties
  <2>3. QED
    BY <1>1, <2>2 DEF ch
<1>11. ASSUME AllOrderly(files)
       PROVE  Len(b) <= Len(output') /\ output' = b \o Expanded(files)[Budget(n)][f.file]
  <2>1. TopSays(files, f, o, 0) /\ Fits(f, files)
    BY <1>2, <1>6, <1>7, <1>8, <1>11, Zenon DEF InOrder, n
  <2>2. f.at = 0 /\ f.len = 0
    BY <2>1 DEF TopSays, Fits
  <2>3. Buffered(f) = <<>>
    BY <1>6, <2>2, NothingBuffered
  <2>4. o \o Buffered(f) = b \o SaidBy(files, f, 0) /\ Len(b) <= Len(o)
    BY <2>1, Zenon DEF TopSays
  <2>5. SaidBy(files, f, 0) = <<>>
    BY <2>2, Zenon DEF SaidBy
  <2>6. b \in Seq(Sign) /\ Len(b) \in Nat /\ f.file \in Ssi
    BY <1>6, FrameIs, Zenon
  <2> HIDE DEF b
  <2>7. o \o <<>> = o /\ b \o <<>> = b
    BY <1>2, <2>6, ConcatEmptySeq
  <2>8. o = b
    BY <2>3, <2>4, <2>5, <2>7, Zenon
  <2>9. Expanded(files)[0][f.file] = <<"too deep">>
    BY <1>2, <2>6, ExpandedIs, Zenon
  <2>10. Append(b, "too deep") = b \o <<"too deep">>
    BY <1>9, <2>6, AppendIsConcat
  <2>11. Len(b) <= Len(output')
    <3>1. Len(output') = Len(b) + 1
      BY <1>10, <2>8, Zenon
    <3>2. QED
      BY <2>6, <3>1
  <2>12. QED
    BY <1>1, <1>8, <2>8, <2>9, <2>10, <2>11, Zenon
<1>12. serving' = "yes"
  BY <1>1
<1>13. QED
  BY <1>1, <1>7, <1>10, <1>11, <1>12, ReturnKeeps, Zenon DEF n, f, b

\* At a page's end what the buffer holds is sent, and the call returns.
LEMMA EndOfFileInv == SsiInv /\ EndOfFile => SsiInv'
<1> SUFFICES ASSUME SsiInv, EndOfFile PROVE SsiInv'
  OBVIOUS
<1> DEFINE n == Len(frames)
           f == Top
           p == Source
           o == output'
           b == f.before
<1>1. /\ serving = "yes" /\ Level <= MaxLevel /\ UNCHANGED <<files, page>> /\ f.at = Len(p)
      /\ o = output \o Buffered(f) /\ frames' = Front(frames)
      /\ serving' = IF Level = 0 THEN "done" ELSE "yes"
  BY Zenon DEF EndOfFile, Running
<1>2. /\ f \in FrameSet /\ Fits(f, files) /\ FilesAre(files) /\ p \in Seq(Sign)
      /\ frames \in Seq(FrameSet) /\ frames # <<>> /\ n \in 1 .. MaxLevel + 1
      /\ Budget(n) \in 1 .. MaxLevel + 1 /\ f = frames[n]
      /\ AllOrderly(files) => TopSays(files, f, output, Budget(n))
      /\ p = files[f.file] /\ f.len < BufSize
  BY <1>1, FedIs, Zenon DEF Fits, Source
<1>3. f.at \in Nat /\ f.len \in Nat /\ f.file \in Ssi /\ b \in Seq(Sign) /\ Len(b) \in Nat
  BY <1>2, FrameIs, Zenon
<1>4. BufSize \in Nat /\ MaxLevel \in Nat
  BY MgSsiAssumption
<1>5. output \in Seq(Sign) /\ Len(output) \in Nat
  BY LengthIs, Zenon DEF SsiInv
<1> HIDE DEF f, p, n, o
<1>6. Buffered(f) \in Seq(Sign)
  <2>1. f.len <= BufSize
    BY <1>2, <1>3, <1>4
  <2>2. QED
    BY <1>2, <2>1, BufferIs, Zenon
<1>7. o \in Seq(Sign) /\ Len(o) = Len(output) + Len(Buffered(f))
  BY <1>1, <1>5, <1>6, ConcatProperties, Zenon
<1>8. ASSUME AllOrderly(files)
      PROVE  Len(b) <= Len(o) /\ o = b \o Expanded(files)[Budget(n)][f.file]
  <2>1. output \o Buffered(f) = b \o SaidBy(files, f, Budget(n)) /\ Len(b) <= Len(output)
    BY <1>2, <1>8, Zenon DEF TopSays
  <2>2. f.at <= Len(files[f.file])
    BY <1>2, Zenon DEF Fits
  <2>3. SaidBy(files, f, Budget(n)) = Expanded(files)[Budget(n)][f.file]
    BY <1>1, <1>2, <2>2, SaidByIs, Zenon
  <2>4. Len(b) <= Len(o)
    <3>1. Len(Buffered(f)) \in Nat
      BY <1>6, LengthIs
    <3> HIDE DEF b
    <3>2. QED
      BY <1>3, <1>5, <1>7, <2>1, <3>1
  <2>5. QED
    BY <1>1, <2>1, <2>3, <2>4, Zenon
<1>9. CASE n > 1
  <2>1. Level # 0
    BY <1>2, <1>4, <1>9 DEF Level, n
  <2>2. serving' = "yes"
    BY <1>1, <2>1
  <2>3. QED
    BY <1>1, <1>7, <1>8, <1>9, <2>2, ReturnKeeps, Zenon DEF n, f, b, o
<1>10. CASE ~(n > 1)
  <2>1. n = 1 /\ Budget(n) = MaxLevel + 1
    BY <1>2, <1>4, <1>10 DEF Budget
  <2>2. Level = 0
    BY <2>1 DEF Level, n
  <2>3. serving' = "done" /\ serving' # "no" /\ serving' # "yes"
    BY <1>1, <2>2
  <2>4. frames' = <<>>
    <3>1. Front(frames) \in Seq(FrameSet) /\ Len(Front(frames)) = n - 1
      BY <1>2, StackIs DEF n
    <3>2. Len(Front(frames)) = 0
      BY <2>1, <3>1
    <3>3. Front(frames) = <<>>
      BY <3>1, <3>2
    <3>4. QED
      BY <1>1, <3>3
  <2>5. files' = files /\ page' = page /\ page \in Ssi
    BY <1>1, Zenon DEF SsiInv
  <2>6. ASSUME AllOrderly(files) PROVE o = Expanded(files)[MaxLevel + 1][page]
    <3>1. f.file = page /\ b = <<>>
      BY <1>1, <1>2, <2>1, <2>6, Zenon DEF SsiInv, InOrder
    <3> DEFINE e == Expanded(files)[MaxLevel + 1][page]
    <3>2. e \in Seq(Sign)
      <4>1. MaxLevel + 1 \in 0 .. MaxLevel + 1
        BY <1>4
      <4>2. Expanded(files) \in [0 .. MaxLevel + 1 -> [Ssi -> Seq(Sign)]]
        BY <1>2, ExpandedIs, Zenon
      <4>3. Expanded(files)[MaxLevel + 1] \in [Ssi -> Seq(Sign)]
        BY <4>1, <4>2, Zenon
      <4>4. QED
        BY <2>5, <4>3, Zenon
    <3>3. o = <<>> \o e
      BY <1>8, <2>1, <2>6, <3>1, Zenon
    <3> HIDE DEF e
    <3>4. <<>> \o e = e
      BY <3>2, ConcatEmptySeq
    <3>5. QED
      BY <3>3, <3>4 DEF e
  <2>7. <<>> \in Seq(FrameSet) /\ Len(<<>>) = 0 /\ \A i \in 1 .. 0 : FALSE
    OBVIOUS
  <2>8. QED
    BY <1>2, <1>7, <2>3, <2>4, <2>5, <2>6, <2>7, Zenon DEF SsiInv, o
<1>11. QED
  BY <1>9, <1>10

\* What pages are made of.
LEMMA ContentsAre ==
  ASSUME NEW s \in Contents
  PROVE  FlattenSeq(s) \in Seq(Sign)
<1>1. Opening \in Seq(Sign)
  <2>1. "<" \in Sign /\ "!" \in Sign /\ "-" \in Sign /\ "#" \in Sign
    BY Signs, Zenon
  <2>2. <<"<", "!", "-", "-", "#">> \in Seq(Sign)
    BY <2>1
  <2>3. QED
    BY <2>2 DEF Opening
<1>2. <<"-", "-", ">">> \in Seq(Sign)
  <2>1. "-" \in Sign /\ ">" \in Sign
    BY Signs, Zenon
  <2>2. QED
    BY <2>1
<1>3. \A c \in Letter \cup {"-", ">", "<"} \cup Ssi \cup Plain : <<c>> \in Seq(Sign)
  <2>1. \A c \in Letter \cup {"-", ">", "<"} \cup Ssi \cup Plain : c \in Sign
    BY Signs, Zenon
  <2>2. QED
    BY <2>1, OneSign, Zenon
<1>4. \A c \in Ssi \cup Plain : Opening \o <<c>> \in Seq(Sign)
  <2>1. SUFFICES ASSUME NEW c \in Ssi \cup Plain PROVE Opening \o <<c>> \in Seq(Sign)
    OBVIOUS
  <2> DEFINE x == Opening
             y == <<c>>
  <2>2. x \in Seq(Sign) /\ y \in Seq(Sign)
    BY <1>1, <1>3, Zenon
  <2> HIDE DEF x, y
  <2>3. x \o y \in Seq(Sign)
    BY <2>2, ConcatProperties
  <2>4. QED
    BY <2>3, Zenon DEF x, y
<1>5. Parts \subseteq Seq(Sign)
  BY <1>1, <1>2, <1>3, <1>4, Zenon DEF Parts
<1>6. PICK n \in 0 .. MaxParts : s \in [1 .. n -> Parts]
  BY Zenon DEF Contents
<1>7. n \in Nat
  BY MgSsiAssumption
<1>8. s \in [1 .. n -> Seq(Sign)]
  BY <1>5, <1>6, Zenon
<1> DEFINE T == Seq(Sign)
<1>9. s \in Seq(T)
  <2> HIDE DEF T
  <2>1. s \in [1 .. n -> T]
    BY <1>8 DEF T
  <2>2. QED
    BY <1>7, <2>1
<1>10. <<>> \in Seq(Sign)
  OBVIOUS
<1>11. QED
  BY <1>9, <1>10, FlattenAppend, Zenon

\* The page is asked for: its call begins, and nothing has been sent.
LEMMA SendPageInv == SsiInv /\ SendPage => SsiInv'
<1> SUFFICES ASSUME SsiInv, SendPage PROVE SsiInv'
  OBVIOUS
<1>1. serving = "no" /\ serving' = "yes" /\ page' \in Ssi /\ output' = output
  BY Zenon DEF SendPage
<1>2. output = <<>> /\ output \in Seq(Sign)
  BY <1>1, Zenon DEF SsiInv
<1>3. FilesAre(files')
  <2>1. PICK parts \in [Ssi -> Contents], other \in [Plain -> Letter] :
          files' = [n \in Ssi \cup Plain |-> IF n \in Ssi THEN FlattenSeq(parts[n])
                                             ELSE <<other[n]>>]
    BY Zenon DEF SendPage
  <2>2. SUFFICES ASSUME NEW name \in Ssi \cup Plain PROVE files'[name] \in Seq(Sign)
    BY DEF FilesAre
  <2>3. CASE name \in Ssi
    <3>1. FlattenSeq(parts[name]) \in Seq(Sign)
      BY <2>3, ContentsAre, Zenon
    <3>2. QED
      BY <2>1, <2>3, <3>1, Zenon
  <2>4. CASE name \notin Ssi
    <3>1. other[name] \in Sign
      BY <2>4, Signs, Zenon
    <3>2. <<other[name]>> \in Seq(Sign)
      BY <3>1, OneSign, Zenon
    <3>3. QED
      BY <2>1, <2>4, <3>2, Zenon
  <2>5. QED
    BY <2>3, <2>4
<1>4. PICK old \in Unset : frames' = <<Frame(page', old)>>
  BY Zenon DEF SendPage
<1> DEFINE h == Frame(page', old)
           fs == files'
           pg == page'
           t == <<h>>
<1>5. MaxLevel \in Nat /\ MaxLevel + 1 \in Nat
  BY MgSsiAssumption
<1>6. /\ h \in FrameSet /\ h.file = pg /\ h.before = <<>>
      /\ Fits(h, fs) /\ Placed(h, fs[pg]) /\ TopSays(fs, h, output, MaxLevel + 1)
  BY <1>1, <1>2, <1>3, <1>5, BegunIs, Zenon
<1> HIDE DEF h
<1>7. t \in Seq(FrameSet) /\ Len(t) = 1 /\ t[1] = h
  BY <1>6
<1>8. Budget(1) = MaxLevel + 1
  BY <1>5 DEF Budget
<1> HIDE DEF t, fs, pg
<1>9. /\ \A i \in 1 .. 1 : i = 1
      /\ \A i \in 1 .. 1 - 1 : FALSE
      /\ 1 \in 1 .. MaxLevel + 2
  BY <1>5
<1>10. InOrder(fs, t, output, pg)
  BY <1>6, <1>7, <1>8, <1>9, Zenon DEF InOrder
<1>11. \A i \in 1 .. 1 : Fits(t[i], fs)
  BY <1>6, <1>7, <1>9, Zenon
<1>12. frames' = t /\ files' = fs /\ page' = pg
  BY <1>4, Zenon DEF t, h, fs, pg
<1>13. serving' # "no" /\ serving' # "done"
  BY <1>1
<1>14. QED
  BY <1>1, <1>2, <1>3, <1>7, <1>9, <1>10, <1>11, <1>12, <1>13, Zenon DEF SsiInv

LEMMA SsiInitInv == SsiInit => SsiInv
<1> SUFFICES ASSUME SsiInit PROVE SsiInv
  OBVIOUS
<1>1. serving = "no" /\ frames = <<>> /\ output = <<>>
  BY DEF SsiInit
<1>2. /\ <<>> \in Seq(Sign) /\ <<>> \in Seq(FrameSet) /\ Len(<<>>) = 0
      /\ \A i \in 1 .. 0 : FALSE
  OBVIOUS
<1>3. serving # "yes" /\ serving # "done"
  BY <1>1
<1>4. QED
  BY <1>1, <1>2, <1>3, Zenon DEF SsiInv

LEMMA SsiNextInv == SsiInv /\ [SsiNext]_ssiVars => SsiInv'
<1> SUFFICES ASSUME SsiInv, [SsiNext]_ssiVars PROVE SsiInv'
  OBVIOUS
<1>1. CASE SendPage
  BY <1>1, SendPageInv
<1>2. CASE TooDeep
  BY <1>2, TooDeepInv
<1>3. CASE CloseTag
  BY <1>3, CloseTagInv
<1>4. CASE OpenTag
  BY <1>4, OpenTagInv
<1>5. CASE InTag
  BY <1>5, InTagInv
<1>6. CASE InText
  BY <1>6, InTextInv
<1>7. CASE EndOfFile
  BY <1>7, EndOfFileInv
<1>8. CASE UNCHANGED ssiVars
  BY <1>8, Zenon DEF ssiVars, SsiInv
<1>9. QED
  BY <1>1, <1>2, <1>3, <1>4, <1>5, <1>6, <1>7, <1>8, Zenon DEF SsiNext

\* mg_send_ssi_file sends an orderly page with its directives carried out and
\* everything else unchanged, never fills its buffer beyond its end and never
\* calls itself more than 11 times, whatever the pages include.
THEOREM PagesExpand == SsiSpec => []PageIsExpanded
<1>1. SsiInv => PageIsExpanded
  <2> SUFFICES ASSUME SsiInv PROVE PageIsExpanded
    OBVIOUS
  <2>1. /\ serving \in {"no", "yes", "done"} /\ frames \in Seq(FrameSet)
        /\ serving = "no" => frames = <<>>
        /\ serving = "done" => frames = <<>>
        /\ serving = "yes" => Len(frames) \in 1 .. MaxLevel + 2
        /\ \A i \in 1 .. Len(frames) : Fits(frames[i], files)
        /\ serving = "done" /\ AllOrderly(files) => output = Expanded(files)[MaxLevel + 1][page]
    BY Zenon DEF SsiInv
  <2>2. MaxLevel \in Nat
    BY MgSsiAssumption
  <2>3. Len(frames) <= MaxLevel + 2
    <3>1. CASE serving = "yes"
      <4>1. Len(frames) \in 1 .. MaxLevel + 2
        BY <2>1, <3>1
      <4>2. QED
        BY <2>2, <4>1
    <3>2. CASE frames = <<>>
      <4>1. Len(<<>>) = 0
        OBVIOUS
      <4>2. 0 <= MaxLevel + 2
        BY <2>2
      <4>3. QED
        BY <3>2, <4>1, <4>2, Zenon
    <3>3. QED
      BY <2>1, <3>1, <3>2, Zenon
  <2>4. DOMAIN frames = 1 .. Len(frames)
    BY <2>1
  <2>5. QED
    BY <2>1, <2>3, <2>4, Zenon DEF PageIsExpanded, Fits, AllOrderly
<1>2. QED
  BY <1>1, SsiInitInv, SsiNextInv, PTL DEF SsiSpec

-----------------------------------------------------------------------------
(* Globs.                                                                  *)

\* What patterns are made of.
Glyph == Letters \cup {"?", "*", "$", "|"}

\* The least and the greatest of some numbers.
LEMMA MinOf ==
  ASSUME NEW T \in SUBSET Nat, T # {}
  PROVE  Min(T) \in T /\ \A k \in T : Min(T) <= k
<1>1. PICK m \in T : \A k \in T : m <= k
  BY Smallest
<1>2. T \in SUBSET Int
  OBVIOUS
<1>3. Min(T) = m
  BY <1>1, <1>2, MinIs
<1>4. QED
  BY <1>1, <1>3
LEMMA MaxOf ==
  ASSUME NEW N \in Nat, NEW T \in SUBSET (0 .. N), T # {}
  PROVE  Max(T) \in T
<1> DEFINE R == {i \in Nat : N - i \in T}
<1>1. R # {}
  <2>1. PICK x \in T : TRUE
    OBVIOUS
  <2>2. N - x \in R
    BY <2>1
  <2>3. QED
    BY <2>2
<1>2. PICK r \in R : \A i \in R : r <= i
  <2> HIDE DEF R
  <2>1. R \in SUBSET Nat
    BY DEF R
  <2>2. QED
    BY <1>1, <2>1, Smallest
<1>3. N - r \in T /\ \A k \in T : N - r >= k
  <2>1. ASSUME NEW k \in T PROVE N - r >= k
    <3>1. N - k \in Nat /\ N - (N - k) = k
      OBVIOUS
    <3>2. N - k \in R
      BY <3>1
    <3>3. QED
      BY <1>2, <3>1, <3>2
  <2>2. QED
    BY <1>2, <2>1
<1>4. T \in SUBSET Int
  OBVIOUS
<1>5. Max(T) = N - r
  BY <1>3, <1>4, MaxIs
<1>6. QED
  BY <1>3, <1>5

\* A star reaches up to a slash, two reach to the end.
LEMMA RunIs ==
  ASSUME NEW s \in Seq(Letters), NEW j \in 0 .. Len(s), NEW d \in BOOLEAN
  PROVE  /\ Run(s, j, d) \in 0 .. Len(s) - j
         /\ d => Run(s, j, d) = Len(s) - j
         /\ ~d => \A i \in j + 1 .. j + Run(s, j, d) : s[i] # "/"
         /\ Run(s, j, d) = Len(s) - j \/ s[j + Run(s, j, d) + 1] = "/"
<1> DEFINE slashes == {k \in j + 1 .. Len(s) : s[k] = "/"}
           L == Len(s)
<1>1. L \in Nat /\ j \in Nat /\ j <= L
  OBVIOUS
<1>2. CASE d \/ slashes = {}
  <2>1. Run(s, j, d) = L - j
    BY <1>2, Zenon DEF Run
  <2>2. ~d => \A i \in j + 1 .. L : s[i] # "/"
    BY <1>2
  <2> HIDE DEF L
  <2>3. QED
    BY <1>1, <2>1, <2>2 DEF L
<1>3. CASE ~d /\ slashes # {}
  <2>1. slashes \in SUBSET Nat
    OBVIOUS
  <2>2. Run(s, j, d) = Min(slashes) - 1 - j
    BY <1>3, Zenon DEF Run
  <2> DEFINE m == Min(slashes)
  <2>3. m \in slashes /\ \A k \in slashes : m <= k
    BY <1>3, <2>1, MinOf, Zenon
  <2> HIDE DEF m
  <2>4. m \in j + 1 .. L /\ s[m] = "/" /\ \A k \in j + 1 .. L : s[k] = "/" => m <= k
    BY <2>3
  <2> HIDE DEF L, slashes
  <2>5. \A i \in j + 1 .. m - 1 : s[i] # "/"
    BY <1>1, <2>4
  <2>6. j + (m - 1 - j) = m - 1 /\ j + (m - 1 - j) + 1 = m /\ m - 1 - j \in 0 .. L - j
    BY <1>1, <2>4
  <2>7. QED
    BY <1>3, <2>2, <2>4, <2>5, <2>6 DEF m, L
<1>4. QED
  BY <1>2, <1>3

\* The rows of ends: where a loop ends, for each place in the text.
Row(s) == [0 .. Len(s) -> -1 .. Len(s)]

\* What is left behind a star is less.
LEMMA LeftBehindIs ==
  ASSUME NEW q \in Seq(Glyph), NEW n \in 1 .. Len(q)
  PROVE  /\ Doubled(q, n) \in BOOLEAN
         /\ LeftBehind(q, n) \in 0 .. n - 1 /\ LeftBehind(q, n) \in 0 .. Len(q)
         /\ Doubled(q, n) => n > 1 /\ NextOf(q, n - 1) = "*" /\ LeftBehind(q, n) = n - 2
         /\ ~Doubled(q, n) => LeftBehind(q, n) = n - 1 /\ (n > 1 => NextOf(q, n - 1) # "*")
<1>1. Len(q) \in Nat /\ Doubled(q, n) \in BOOLEAN /\ (Doubled(q, n) => n > 1)
  BY DEF Doubled
<1>2. LeftBehind(q, n) = IF Doubled(q, n) THEN n - 2 ELSE n - 1
  BY DEF LeftBehind
<1>3. /\ Doubled(q, n) => n > 1 /\ NextOf(q, n - 1) = "*"
      /\ ~Doubled(q, n) => (n > 1 => NextOf(q, n - 1) # "*")
  BY DEF Doubled
<1>4. QED
  BY <1>1, <1>2, <1>3

\* The hits are lengths the star may have, and lie within the text.
LEMMA HitsAre ==
  ASSUME NEW q \in Seq(Glyph), NEW s \in Seq(Letters),
         NEW n \in 1 .. Len(q), NEW j \in 0 .. Len(s), NEW ends
  PROVE  /\ Run(s, j, Doubled(q, n)) \in 0 .. Len(s) - j
         /\ \A l : l \in Hits(q, s, n, j, ends) <=>
                     /\ l \in 0 .. Run(s, j, Doubled(q, n))
                     /\ ends[LeftBehind(q, n)][j + l] > j + l
         /\ \A l \in 0 .. Run(s, j, Doubled(q, n)) : j + l \in 0 .. Len(s)
         /\ Hits(q, s, n, j, ends) # {} =>
              /\ Max(Hits(q, s, n, j, ends)) \in 0 .. Run(s, j, Doubled(q, n))
              /\ LET l == Max(Hits(q, s, n, j, ends)) IN ends[LeftBehind(q, n)][j + l] > j + l
<1> DEFINE m == Run(s, j, Doubled(q, n))
           H == Hits(q, s, n, j, ends)
<1>1. m \in 0 .. Len(s) - j
  BY LeftBehindIs, RunIs
<1>2. \A l : l \in H <=> l \in 0 .. m /\ ends[LeftBehind(q, n)][j + l] > j + l
  BY DEF Hits, Tries
<1>3. Len(s) \in Nat /\ j \in Nat
  OBVIOUS
<1> HIDE DEF m, H
<1>4. \A l \in 0 .. m : j + l \in 0 .. Len(s)
  BY <1>1, <1>3
<1>5. H # {} => Max(H) \in H
  <2>1. m \in Nat /\ H \in SUBSET (0 .. m)
    BY <1>1, <1>2, <1>3
  <2>2. QED
    BY <2>1, MaxOf
<1>6. QED
  BY <1>1, <1>2, <1>4, <1>5 DEF m, H

\* A round ends somewhere, and only depends on where those with fewer
\* characters of the pattern left do.
LEMMA RoundIs ==
  ASSUME NEW q \in Seq(Glyph), NEW s \in Seq(Letters),
         NEW n \in 0 .. Len(q), NEW j \in 0 .. Len(s),
         NEW g \in [0 .. Len(q) -> Row(s)], NEW h \in [0 .. Len(q) -> Row(s)]
  PROVE  /\ Round(q, s, n, j, g) \in -1 .. Len(s)
         /\ (\A i \in 0 .. n - 1 : g[i] = h[i]) =>
              Round(q, s, n, j, g) = Round(q, s, n, j, h)
<1>1. Len(s) \in Nat /\ Len(q) \in Nat
  OBVIOUS
<1>2. CASE n = 0
  BY <1>1, <1>2 DEF Round
<1>3. CASE n # 0
  <2>1. n \in 1 .. Len(q) /\ n - 1 \in 0 .. Len(q) /\ n - 1 \in 0 .. n - 1
    BY <1>1, <1>3
  <2>2. LeftBehind(q, n) \in 0 .. n - 1 /\ LeftBehind(q, n) \in 0 .. Len(q)
    BY <2>1, LeftBehindIs
  <2> DEFINE m == Run(s, j, Doubled(q, n))
             H(f) == Hits(q, s, n, j, f)
             b == LeftBehind(q, n)
             star == j < Len(s) /\ NextOf(q, n) = "*"
             one == j < Len(s) /\ NextOf(q, n) \in {"?", s[j + 1]}
             end == NextOf(q, n) = "$" /\ j = Len(s)
  <2>3. \A f : Round(q, s, n, j, f) =
          IF star THEN IF Nothing(q, b) THEN j + m
                       ELSE IF H(f) = {} THEN -1 ELSE f[b][j + Max(H(f))]
          ELSE IF one THEN f[n - 1][j + 1] ELSE IF end THEN j ELSE -1
    BY <1>3, Zenon DEF Round
  <2>4. /\ j + m \in 0 .. Len(s)
        /\ \A l \in 0 .. m : j + l \in 0 .. Len(s)
        /\ H(g) # {} => Max(H(g)) \in 0 .. m
    <3>1. /\ m \in 0 .. Len(s) - j /\ \A l \in 0 .. m : j + l \in 0 .. Len(s)
          /\ H(g) # {} => Max(H(g)) \in 0 .. m
      BY <2>1, HitsAre
    <3> HIDE DEF m, H
    <3>2. m \in 0 .. m
      BY <1>1, <3>1
    <3>3. QED
      BY <3>1, <3>2
  <2>5. (\A i \in 0 .. n - 1 : g[i] = h[i]) => H(g) = H(h)
    <3>1. ASSUME \A i \in 0 .. n - 1 : g[i] = h[i] PROVE H(g) = H(h)
      <4>1. g[b] = h[b]
        BY <2>2, <3>1
      <4>2. QED
        BY <4>1, Zenon DEF Hits
    <3>2. QED
      BY <3>1
  <2>6. \A i \in 0 .. Len(q) : \A x \in 0 .. Len(s) : g[i][x] \in -1 .. Len(s)
    BY DEF Row
  <2>7. one => j + 1 \in 0 .. Len(s)
    BY <1>1
  <2>8. b \in 0 .. n - 1 /\ b \in 0 .. Len(q)
    BY <2>2
  <2>9. H(g) # {} => j + Max(H(g)) \in 0 .. Len(s)
    BY <2>4
  <2> HIDE DEF m, H, b, star, one, end
  <2>10. Round(q, s, n, j, g) \in -1 .. Len(s)
    <3>1. j \in -1 .. Len(s) /\ -1 \in -1 .. Len(s) /\ (j + m \in -1 .. Len(s))
      BY <1>1, <2>4
    <3>2. H(g) # {} => g[b][j + Max(H(g))] \in -1 .. Len(s)
      BY <2>6, <2>8, <2>9
    <3>3. one => g[n - 1][j + 1] \in -1 .. Len(s)
      BY <2>1, <2>6, <2>7
    <3>4. QED
      BY <2>3, <3>1, <3>2, <3>3, Zenon
  <2>11. ASSUME \A i \in 0 .. n - 1 : g[i] = h[i]
         PROVE  Round(q, s, n, j, g) = Round(q, s, n, j, h)
    <3>1. g[b] = h[b] /\ g[n - 1] = h[n - 1] /\ H(g) = H(h)
      BY <2>1, <2>5, <2>8, <2>11
    <3>2. QED
      BY <2>3, <3>1, Zenon
  <2>12. QED
    BY <2>10, <2>11
<1>4. QED
  BY <1>2, <1>3

\* The loops' ends are defined.
LEMMA LoopEndsAre ==
  ASSUME NEW q \in Seq(Glyph), NEW s \in Seq(Letters)
  PROVE  /\ LoopEnds(q, s) \in [0 .. Len(q) -> Row(s)]
         /\ \A n \in 0 .. Len(q) : \A j \in 0 .. Len(s) :
              LoopEnds(q, s)[n][j] = Round(q, s, n, j, LoopEnds(q, s))
<1> DEFINE N == Len(q)
           S == Row(s)
           M == 0 .. Len(s)
           zeros == [j \in M |-> 0]
           step == [r \in (0 .. N) \X [0 .. N -> S] |->
                      [j \in M |-> Round(q, s, r[1], j, r[2])]]
           F(f) == f = [n \in 0 .. N |-> [j \in M |-> Round(q, s, n, j, f)]]
           c == LoopEnds(q, s)
<1>1. N \in Nat /\ Len(s) \in Nat
  OBVIOUS
<1>2. zeros \in S
  BY <1>1 DEF Row
<1>3. \A n \in 0 .. N : \A f \in [0 .. N -> S] :
        /\ step[<<n, f>>] = [j \in M |-> Round(q, s, n, j, f)]
        /\ step[<<n, f>>] \in S
  <2> SUFFICES ASSUME NEW n \in 0 .. N, NEW f \in [0 .. N -> S]
               PROVE  /\ step[<<n, f>>] = [j \in M |-> Round(q, s, n, j, f)]
                      /\ step[<<n, f>>] \in S
    OBVIOUS
  <2>1. step[<<n, f>>] = [j \in M |-> Round(q, s, n, j, f)]
    OBVIOUS
  <2>2. \A j \in M : Round(q, s, n, j, f) \in -1 .. Len(s)
    BY RoundIs
  <2>3. [j \in M |-> Round(q, s, n, j, f)] \in S
    BY <2>2 DEF Row
  <2>4. QED
    BY <2>1, <2>3, Zenon
<1>4. step \in [(0 .. N) \X [0 .. N -> S] -> S]
  <2>1. step = [r \in (0 .. N) \X [0 .. N -> S] |-> step[r]]
    OBVIOUS
  <2>2. ASSUME NEW r \in (0 .. N) \X [0 .. N -> S] PROVE step[r] \in S
    <3>1. r = <<r[1], r[2]>> /\ r[1] \in 0 .. N /\ r[2] \in [0 .. N -> S]
      OBVIOUS
    <3> HIDE DEF step, S, N
    <3>2. step[<<r[1], r[2]>>] \in S
      BY <1>3, <3>1, Zenon
    <3>3. QED
      BY <3>1, <3>2, Zenon
  <2> HIDE DEF step, S, N
  <2>3. QED
    BY <2>1, <2>2
<1>5. LooksBack(N, S, step)
  <2> SUFFICES ASSUME NEW k \in 0 .. N, NEW g \in [0 .. N -> S], NEW h \in [0 .. N -> S],
                      \A i \in 0 .. k - 1 : g[i] = h[i]
               PROVE  step[<<k, g>>] = step[<<k, h>>]
    BY DEF LooksBack
  <2>1. \A j \in M : Round(q, s, k, j, g) = Round(q, s, k, j, h)
    BY RoundIs
  <2>2. /\ step[<<k, g>>] = [j \in M |-> Round(q, s, k, j, g)]
        /\ step[<<k, h>>] = [j \in M |-> Round(q, s, k, j, h)]
    BY <1>3, Zenon
  <2> HIDE DEF step, S, N, M
  <2>3. [j \in M |-> Round(q, s, k, j, g)] = [j \in M |-> Round(q, s, k, j, h)]
    BY <2>1
  <2>4. QED
    BY <2>2, <2>3
<1>6. PICK f \in [0 .. N -> S] : Course(f, N, step)
  <2> HIDE DEF step, S, N, zeros
  <2>1. QED
    BY <1>1, <1>2, <1>4, <1>5, CourseRecursion
<1>7. F(f)
  <2>1. \A k \in 0 .. N : f[k] = [j \in M |-> Round(q, s, k, j, f)]
    BY <1>3, <1>6, Zenon DEF Course
  <2> HIDE DEF N, M, S
  <2>2. QED
    BY <1>6, <2>1
<1>8. c = CHOOSE x : F(x)
  BY DEF LoopEnds
<1>9. F(c)
  <2> HIDE DEF F, c
  <2>1. QED
    BY <1>7, <1>8
<1> HIDE DEF c
<1> DEFINE T == -1 .. Len(s)
<1>10. /\ DOMAIN c = 0 .. N /\ c = [n \in 0 .. N |-> c[n]]
       /\ \A n \in 0 .. N : /\ DOMAIN c[n] = M
                            /\ c[n] = [j \in M |-> c[n][j]]
                            /\ \A j \in M : c[n][j] = Round(q, s, n, j, c)
  <2> HIDE DEF N, M
  <2>1. DOMAIN c = 0 .. N /\ c = [n \in 0 .. N |-> c[n]]
    BY <1>9
  <2>2. \A n \in 0 .. N : c[n] = [j \in M |-> Round(q, s, n, j, c)]
    BY <1>9
  <2>3. QED
    BY <2>1, <2>2
<1>11. \A n \in 0 .. N : c[n] \in S
  <2> DEFINE Has == {n \in Nat : \A m \in 0 .. n : m <= N => c[m] \in S}
  <2>1. ASSUME NEW n \in Nat, n <= N, \A m \in 0 .. n - 1 : c[m] \in S
        PROVE  c[n] \in S
    <3>1. n \in 0 .. N
      BY <2>1
    <3> DEFINE g == [m \in 0 .. N |-> IF m < n THEN c[m] ELSE f[m]]
    <3>2. g \in [0 .. N -> S]
      <4>1. \A m \in 0 .. N : m < n => m \in 0 .. n - 1
        OBVIOUS
      <4> HIDE DEF S, N
      <4>2. \A m \in 0 .. N : (IF m < n THEN c[m] ELSE f[m]) \in S
        BY <1>6, <2>1, <4>1
      <4>3. QED
        BY <4>2
    <3>3. \A m \in 0 .. n - 1 : g[m] = c[m]
      BY <3>1
    <3>4. ASSUME NEW j \in M PROVE Round(q, s, n, j, c) = Round(q, s, n, j, g)
      <4> HIDE DEF g, S
      <4>1. CASE n = 0
        BY <4>1, Zenon DEF Round
      <4>2. CASE n # 0
        <5>1. n \in 1 .. Len(q)
          BY <2>1, <4>2
        <5>2. LeftBehind(q, n) \in 0 .. n - 1 /\ n - 1 \in 0 .. n - 1
          BY <5>1, LeftBehindIs
        <5>3. g[LeftBehind(q, n)] = c[LeftBehind(q, n)] /\ g[n - 1] = c[n - 1]
          BY <3>3, <5>2
        <5>4. Hits(q, s, n, j, c) = Hits(q, s, n, j, g)
          BY <5>3, Zenon DEF Hits
        <5>5. QED
          BY <4>2, <5>3, <5>4, Zenon DEF Round
      <4>3. QED
        BY <4>1, <4>2
    <3>5. ASSUME NEW j \in M PROVE c[n][j] \in T
      <4>1. c[n][j] = Round(q, s, n, j, g)
        BY <1>10, <3>1, <3>4
      <4>2. Round(q, s, n, j, g) \in T
        <5> HIDE DEF g
        <5>1. QED
          BY <3>1, <3>2, RoundIs
      <4>3. QED
        BY <4>1, <4>2
    <3>6. QED
      <4> HIDE DEF T, M, N
      <4>1. c[n] \in [M -> T]
        BY <1>10, <3>1, <3>5
      <4>2. QED
        BY <4>1 DEF M, T, Row
  <2>2. 0 \in Has
    <3>1. c[0] \in S
      <4>1. \A m \in 0 .. 0 - 1 : c[m] \in S
        OBVIOUS
      <4> HIDE DEF S
      <4>2. QED
        BY <1>1, <2>1, <4>1
    <3> HIDE DEF S
    <3>2. QED
      BY <3>1
  <2>3. ASSUME NEW n \in Nat, n \in Has PROVE n + 1 \in Has
    <3> HIDE DEF S
    <3>1. \A m \in 0 .. (n + 1) - 1 : m \in 0 .. n
      OBVIOUS
    <3>2. n + 1 <= N => c[n + 1] \in S
      <4>1. ASSUME n + 1 <= N PROVE \A m \in 0 .. (n + 1) - 1 : c[m] \in S
        BY <1>1, <2>3, <3>1, <4>1
      <4>2. QED
        BY <2>1, <4>1
    <3>3. \A m \in 0 .. n + 1 : m \in 0 .. n \/ m = n + 1
      OBVIOUS
    <3>4. QED
      BY <2>3, <3>2, <3>3
  <2> HIDE DEF Has
  <2>4. Nat \subseteq Has
    BY <2>2, <2>3, AllNats
  <2>5. ASSUME NEW n \in 0 .. N PROVE c[n] \in S
    <3>1. n \in Nat /\ n <= N /\ n \in 0 .. n
      BY <1>1
    <3>2. n \in Has
      BY <2>4, <3>1
    <3> HIDE DEF S
    <3>3. QED
      BY <3>1, <3>2 DEF Has
  <2>6. QED
    BY <2>5
<1>12. c \in [0 .. N -> S]
  <2> HIDE DEF N, S
  <2>1. QED
    BY <1>10, <1>11
<1>13. QED
  <2> HIDE DEF S
  <2>1. QED
    BY <1>10, <1>12, Zenon DEF c, S

-----------------------------------------------------------------------------
\* What mg_match_prefix_n takes a pattern to mean: a ? may meet a slash.
TakenFor(q, s, k, a, b) ==
  LET behindStar == k > 1 /\ q[k - 1] = "*"
      double == behindStar \/ (k < Len(q) /\ q[k + 1] = "*")
  IN \/ q[k] = "*" /\ a <= b /\ (double \/ \A i \in a + 1 .. b : s[i] # "/")
     \/ q[k] # "*" /\ b = a + 1 /\ q[k] \in {"?", s[b]}
     \/ q[k] = "$" /\ b = a /\ (behindStar \/ b = Len(s))
TakenCuts(q, s) ==
  {c \in [1 .. Len(q) -> 0 .. Len(s)] :
     \A k \in 1 .. Len(q) :
       TakenFor(q, s, k, IF k = 1 THEN 0 ELSE c[k - 1], c[k])}
Taken(q, s) == {IF q = <<>> THEN 0 ELSE c[Len(q)] : c \in TakenCuts(q, s)}
TakenBy(p, s) == UNION {Taken(Alternative(p, b), s) : b \in Begins(p)}

\* The next character of what is left of a pattern may stand for a text.
Stands(q, s, n, a, b) == TakenFor(q, s, Len(q) - n + 1, a, b)
\* The text behind j is cut up by what is left, up to e.
Follows(q, s, n, e, c) ==
  /\ c[Len(q)] = e
  /\ \A k \in Len(q) - n + 1 .. Len(q) : TakenFor(q, s, k, c[k - 1], c[k])
Path(q, s, n, j, e) ==
  \E c \in [0 .. Len(q) -> 0 .. Len(s)] : c[Len(q) - n] = j /\ Follows(q, s, n, e, c)

\* A star stands behind another, or what is left begins behind one.
BehindStar(q, n) == n < Len(q) /\ NextOf(q, n + 1) = "*"

LEMMA StandsIs ==
  ASSUME NEW q \in Seq(Glyph), NEW s \in Seq(Letters), NEW n \in 1 .. Len(q),
         NEW a \in 0 .. Len(s), NEW b \in 0 .. Len(s)
  PROVE  Stands(q, s, n, a, b) <=>
           \/ /\ NextOf(q, n) = "*" /\ a <= b
              /\ BehindStar(q, n) \/ Doubled(q, n) \/ \A i \in a + 1 .. b : s[i] # "/"
           \/ NextOf(q, n) # "*" /\ b = a + 1 /\ NextOf(q, n) \in {"?", s[b]}
           \/ NextOf(q, n) = "$" /\ b = a /\ (BehindStar(q, n) \/ b = Len(s))
<1> DEFINE k == Len(q) - n + 1
<1>1. q[k] = NextOf(q, n)
  BY DEF NextOf
<1>2. (k > 1 /\ q[k - 1] = "*") <=> BehindStar(q, n)
  <2>1. (k > 1 <=> n < Len(q)) /\ k - 1 = Len(q) - (n + 1) + 1
    OBVIOUS
  <2> HIDE DEF k
  <2>2. QED
    BY <2>1 DEF BehindStar, NextOf
<1>3. (k < Len(q) /\ q[k + 1] = "*") <=> Doubled(q, n)
  <2>1. (k < Len(q) <=> n > 1) /\ k + 1 = Len(q) - (n - 1) + 1
    OBVIOUS
  <2> HIDE DEF k
  <2>2. QED
    BY <2>1 DEF Doubled, NextOf
<1> HIDE DEF k
<1>4. QED
  BY <1>1, <1>2, <1>3, Zenon DEF Stands, TakenFor, k

\* Nothing left, nothing more to cut; otherwise a first piece and the rest.
LEMMA PathEnds ==
  ASSUME NEW q \in Seq(Glyph), NEW s \in Seq(Letters), NEW j \in 0 .. Len(s), NEW e
  PROVE  Path(q, s, 0, j, e) <=> e = j
<1> DEFINE c == [k \in 0 .. Len(q) |-> j]
<1>1. Len(q) \in Nat
  OBVIOUS
<1>2. ASSUME Path(q, s, 0, j, e) PROVE e = j
  <2>1. PICK d \in [0 .. Len(q) -> 0 .. Len(s)] : d[Len(q) - 0] = j /\ Follows(q, s, 0, e, d)
    BY <1>2 DEF Path
  <2>2. Len(q) - 0 = Len(q)
    BY <1>1
  <2>3. QED
    BY <2>1, <2>2 DEF Follows
<1>3. ASSUME e = j PROVE Path(q, s, 0, j, e)
  <2>1. c \in [0 .. Len(q) -> 0 .. Len(s)] /\ c[Len(q) - 0] = j /\ c[Len(q)] = e
    BY <1>1, <1>3
  <2>2. Len(q) - 0 + 1 .. Len(q) = {}
    BY <1>1
  <2> HIDE DEF c
  <2>3. Follows(q, s, 0, e, c)
    BY <2>1, <2>2 DEF Follows
  <2>4. QED
    BY <2>1, <2>3 DEF Path
<1>4. QED
  BY <1>2, <1>3

LEMMA PathGoesOn ==
  ASSUME NEW q \in Seq(Glyph), NEW s \in Seq(Letters), NEW n \in 1 .. Len(q),
         NEW j \in 0 .. Len(s), NEW e
  PROVE  Path(q, s, n, j, e) <=>
           \E b \in 0 .. Len(s) : Stands(q, s, n, j, b) /\ Path(q, s, n - 1, b, e)
<1> DEFINE N == Len(q)
           k == N - n + 1
           C == [0 .. N -> 0 .. Len(s)]
<1>1. N \in Nat /\ k \in 1 .. N /\ k - 1 = N - n /\ k = N - (n - 1) /\ k - 1 \in 0 .. N
      /\ N - (n - 1) + 1 = k + 1
  OBVIOUS
<1>2. ASSUME Path(q, s, n, j, e)
      PROVE  \E b \in 0 .. Len(s) : Stands(q, s, n, j, b) /\ Path(q, s, n - 1, b, e)
  <2>1. PICK c \in C : c[N - n] = j /\ Follows(q, s, n, e, c)
    BY <1>2 DEF Path
  <2>2. c[N] = e /\ \A i \in k .. N : TakenFor(q, s, i, c[i - 1], c[i])
    BY <2>1, Zenon DEF Follows
  <2> HIDE DEF k, N
  <2>3. c[k - 1] = j /\ c[k] \in 0 .. Len(s)
    <3>1. k \in 0 .. N /\ c[k - 1] = c[N - n]
      BY <1>1
    <3>2. QED
      BY <2>1, <3>1
  <2> HIDE DEF C
  <2>4. k \in k .. N /\ \A i \in k + 1 .. N : i \in k .. N
    BY <1>1
  <2>5. TakenFor(q, s, k, j, c[k])
    BY <2>2, <2>3, <2>4
  <2>6. Stands(q, s, n, j, c[k])
    BY <2>5 DEF Stands, k, N
  <2>7. \A i \in N - (n - 1) + 1 .. N : TakenFor(q, s, i, c[i - 1], c[i])
    BY <1>1, <2>2, <2>4
  <2>8. Follows(q, s, n - 1, e, c)
    BY <2>2, <2>7, Zenon DEF Follows, N
  <2>9. c[N - (n - 1)] = c[k]
    BY <1>1
  <2>10. Path(q, s, n - 1, c[k], e)
    BY <2>8, <2>9, Zenon DEF Path, N, C
  <2>11. QED
    BY <2>3, <2>6, <2>10
<1>3. ASSUME NEW b \in 0 .. Len(s), Stands(q, s, n, j, b), Path(q, s, n - 1, b, e)
      PROVE  Path(q, s, n, j, e)
  <2>1. PICK c \in C : c[N - (n - 1)] = b /\ Follows(q, s, n - 1, e, c)
    BY <1>3 DEF Path
  <2> DEFINE d == [i \in 0 .. N |-> IF i = k - 1 THEN j ELSE c[i]]
  <2>2. c[N] = e /\ \A i \in k + 1 .. N : TakenFor(q, s, i, c[i - 1], c[i])
    <3>1. \A i \in N - (n - 1) + 1 .. N : TakenFor(q, s, i, c[i - 1], c[i])
      BY <2>1, Zenon DEF Follows
    <3> HIDE DEF k
    <3>2. QED
      BY <1>1, <2>1, <3>1 DEF Follows
  <2>3. c[k] = b
    BY <1>1, <2>1
  <2> HIDE DEF k
  <2>4. d \in C
    BY <1>1
  <2>5. d[k - 1] = j /\ \A i \in k .. N : d[i] = c[i]
    BY <1>1
  <2> HIDE DEF d, N
  <2>6. ASSUME NEW i \in k .. N PROVE TakenFor(q, s, i, d[i - 1], d[i])
    <3>1. CASE i = k
      <4>1. TakenFor(q, s, k, j, b)
        BY <1>3 DEF Stands, k, N
      <4>2. d[i - 1] = j /\ d[i] = b
        BY <2>3, <2>5, <3>1
      <4>3. QED
        BY <3>1, <4>1, <4>2
    <3>2. CASE i # k
      <4>1. i \in k + 1 .. N /\ i - 1 \in k .. N
        BY <1>1, <3>2
      <4>2. d[i - 1] = c[i - 1] /\ d[i] = c[i]
        BY <2>5, <4>1
      <4>3. QED
        BY <2>2, <4>1, <4>2
    <3>3. QED
      BY <3>1, <3>2
  <2>7. d[N] = e
    <3>1. N \in k .. N
      BY <1>1
    <3>2. QED
      BY <2>2, <2>5, <3>1
  <2>8. Follows(q, s, n, e, d)
    BY <2>6, <2>7, Zenon DEF Follows, k, N
  <2>9. d[N - n] = j
    BY <1>1, <2>5
  <2>10. QED
    BY <2>4, <2>8, <2>9, Zenon DEF Path, N, C
<1>4. QED
  BY <1>2, <1>3

\* What a pattern without alternatives describes.
LEMMA TakenIs ==
  ASSUME NEW q \in Seq(Glyph), NEW s \in Seq(Letters), NEW e
  PROVE  e \in Taken(q, s) <=> Path(q, s, Len(q), 0, e)
<1> DEFINE N == Len(q)
           M == 0 .. Len(s)
<1>1. N \in Nat /\ N - N = 0 /\ N - N + 1 = 1 /\ 0 \in M /\ (q = <<>> <=> N = 0)
  OBVIOUS
<1> HIDE DEF N
<1>2. ASSUME e \in Taken(q, s) PROVE Path(q, s, N, 0, e)
  <2>1. PICK c \in TakenCuts(q, s) : e = IF q = <<>> THEN 0 ELSE c[N]
    BY <1>2 DEF Taken, N
  <2>2. /\ c \in [1 .. N -> M]
        /\ \A k \in 1 .. N : TakenFor(q, s, k, IF k = 1 THEN 0 ELSE c[k - 1], c[k])
    BY <2>1 DEF TakenCuts, N
  <2> DEFINE d == [k \in 0 .. N |-> IF k = 0 THEN 0 ELSE c[k]]
  <2>3. d \in [0 .. N -> M]
    <3>1. \A k \in 0 .. N : k = 0 \/ k \in 1 .. N
      BY <1>1
    <3> HIDE DEF M
    <3>2. \A k \in 0 .. N : (IF k = 0 THEN 0 ELSE c[k]) \in M
      BY <1>1, <2>2, <3>1
    <3>3. QED
      BY <3>2
  <2>4. d[0] = 0 /\ \A k \in 1 .. N : d[k] = c[k] /\ d[k - 1] = IF k = 1 THEN 0 ELSE c[k - 1]
    BY <1>1
  <2> HIDE DEF d, M
  <2>5. \A k \in 1 .. N : TakenFor(q, s, k, d[k - 1], d[k])
    BY <2>2, <2>4
  <2>6. d[N] = e
    BY <1>1, <2>1, <2>4
  <2>7. Follows(q, s, N, e, d) /\ d[N - N] = 0
    BY <1>1, <2>4, <2>5, <2>6 DEF Follows, N
  <2>8. QED
    BY <2>3, <2>7, Zenon DEF Path, N, M
<1>3. ASSUME Path(q, s, N, 0, e) PROVE e \in Taken(q, s)
  <2>1. PICK d \in [0 .. N -> M] : d[N - N] = 0 /\ Follows(q, s, N, e, d)
    BY <1>3 DEF Path, N
  <2>2. d[0] = 0 /\ d[N] = e /\ \A k \in 1 .. N : TakenFor(q, s, k, d[k - 1], d[k])
    BY <1>1, <2>1 DEF Follows, N
  <2> DEFINE c == [k \in 1 .. N |-> d[k]]
  <2>3. c \in [1 .. N -> M]
    BY <1>1, <2>1
  <2>4. \A k \in 1 .. N : c[k] = d[k] /\ (IF k = 1 THEN 0 ELSE c[k - 1]) = d[k - 1]
    BY <1>1, <2>2
  <2> HIDE DEF c, M
  <2>5. \A k \in 1 .. N : TakenFor(q, s, k, IF k = 1 THEN 0 ELSE c[k - 1], c[k])
    BY <2>2, <2>4
  <2>6. c \in TakenCuts(q, s)
    BY <2>3, <2>5 DEF TakenCuts, N, M
  <2>7. e = IF q = <<>> THEN 0 ELSE c[N]
    BY <1>1, <2>2, <2>4
  <2>8. QED
    BY <2>6, <2>7, Zenon DEF Taken, N
<1>4. QED
  BY <1>2, <1>3 DEF N

-----------------------------------------------------------------------------
\* What the loop's ends are for, with n characters left: they are ends of
\* paths.
LoopSound(q, s, n) ==
  \A j \in 0 .. Len(s) :
    LET e == LoopEnds(q, s)[n][j]
    IN e # -1 => e \in j .. Len(s) /\ Path(q, s, n, j, e)

\* A $ ends what is an alternative, and no three stars follow each other.
Ended(q) == \A n \in 2 .. Len(q) : NextOf(q, n) # "$"
Untripled(q) ==
  \A n \in 3 .. Len(q) :
    ~(NextOf(q, n) = "*" /\ NextOf(q, n - 1) = "*" /\ NextOf(q, n - 2) = "*")

\* A star, or two, stand for as much as they may.
LEMMA StarPath ==
  ASSUME NEW q \in Seq(Glyph), NEW s \in Seq(Letters), NEW n \in 1 .. Len(q),
         NEW j \in 0 .. Len(s), NextOf(q, n) = "*",
         NEW l \in 0 .. Run(s, j, Doubled(q, n)), NEW e,
         Path(q, s, LeftBehind(q, n), j + l, e)
  PROVE  Path(q, s, n, j, e)
<1> DEFINE m == Run(s, j, Doubled(q, n))
           L == Len(s)
<1>1. /\ m \in 0 .. L - j
      /\ ~Doubled(q, n) => \A i \in j + 1 .. j + m : s[i] # "/"
  BY LeftBehindIs, RunIs
<1>2. L \in Nat /\ j \in 0 .. L /\ l \in 0 .. m
  OBVIOUS
<1> HIDE DEF m, L
<1>3. j + l \in 0 .. L /\ j <= j + l /\ \A i \in j + 1 .. j + l : i \in j + 1 .. j + m
  BY <1>1, <1>2
<1>4. Stands(q, s, n, j, j + l)
  <2>1. Doubled(q, n) \/ \A i \in j + 1 .. j + l : s[i] # "/"
    BY <1>1, <1>3
  <2>2. QED
    BY <1>3, <2>1, StandsIs DEF L
<1>5. CASE ~Doubled(q, n)
  <2>1. LeftBehind(q, n) = n - 1
    BY <1>5, LeftBehindIs
  <2>2. QED
    BY <1>3, <1>4, <2>1, PathGoesOn DEF L
<1>6. CASE Doubled(q, n)
  <2>1. n > 1 /\ NextOf(q, n - 1) = "*" /\ LeftBehind(q, n) = n - 2
    BY <1>6, LeftBehindIs
  <2>2. n - 1 \in 1 .. Len(q) /\ (n - 1) - 1 = n - 2 /\ (n - 1) + 1 = n /\ n - 1 < Len(q)
    BY <2>1
  <2>3. BehindStar(q, n - 1)
    BY <2>2 DEF BehindStar
  <2>4. Stands(q, s, n - 1, j + l, j + l)
    <3>1. j + l <= j + l
      BY <1>2
    <3>2. QED
      BY <1>3, <2>1, <2>2, <2>3, <3>1, StandsIs DEF L
  <2>5. Path(q, s, n - 1, j + l, e)
    <3>1. Path(q, s, (n - 1) - 1, j + l, e)
      BY <2>1, <2>2
    <3>2. QED
      BY <1>3, <2>2, <2>4, <3>1, PathGoesOn DEF L
  <2>6. QED
    BY <1>3, <1>4, <2>5, PathGoesOn DEF L
<1>7. QED
  BY <1>5, <1>6

\* And no more.
LEMMA StarStands ==
  ASSUME NEW q \in Seq(Glyph), NEW s \in Seq(Letters), NEW n \in 1 .. Len(q),
         NEW j \in 0 .. Len(s), NextOf(q, n) = "*", ~BehindStar(q, n), NEW e,
         Path(q, s, n, j, e)
  PROVE  \E l \in 0 .. Run(s, j, Doubled(q, n)) : Path(q, s, LeftBehind(q, n), j + l, e)
<1> DEFINE m == Run(s, j, Doubled(q, n))
           L == Len(s)
<1>1. /\ m \in 0 .. L - j
      /\ Doubled(q, n) => m = L - j
      /\ m = L - j \/ s[j + m + 1] = "/"
  BY LeftBehindIs, RunIs
<1>2. L \in Nat /\ j \in 0 .. L
  OBVIOUS
<1>3. PICK b \in 0 .. L : Stands(q, s, n, j, b) /\ Path(q, s, n - 1, b, e)
  BY PathGoesOn
<1>4. j <= b /\ (Doubled(q, n) \/ \A i \in j + 1 .. b : s[i] # "/")
  BY <1>3, StandsIs
<1> HIDE DEF m, L
<1>5. CASE ~Doubled(q, n)
  <2>1. LeftBehind(q, n) = n - 1
    BY <1>5, LeftBehindIs
  <2>2. b - j \in 0 .. m /\ j + (b - j) = b
    <3>1. ASSUME b - j > m PROVE FALSE
      <4>1. j + m + 1 \in j + 1 .. b /\ m # L - j
        BY <1>1, <1>2, <1>3, <1>4, <3>1
      <4>2. QED
        BY <1>1, <1>4, <1>5, <4>1
    <3>2. QED
      BY <1>1, <1>2, <1>3, <1>4, <3>1
  <2>3. Path(q, s, LeftBehind(q, n), j + (b - j), e)
    BY <1>3, <2>1, <2>2
  <2>4. QED
    BY <2>2, <2>3 DEF m
<1>6. CASE Doubled(q, n)
  <2>1. n > 1 /\ NextOf(q, n - 1) = "*" /\ LeftBehind(q, n) = n - 2
    BY <1>6, LeftBehindIs
  <2>2. n - 1 \in 1 .. Len(q) /\ (n - 1) - 1 = n - 2
    BY <2>1
  <2>3. PICK d \in 0 .. L : Stands(q, s, n - 1, b, d) /\ Path(q, s, (n - 1) - 1, d, e)
    BY <1>3, <2>2, PathGoesOn DEF L
  <2>4. b <= d
    BY <1>3, <2>1, <2>2, <2>3, StandsIs DEF L
  <2>5. d - j \in 0 .. m /\ j + (d - j) = d
    BY <1>1, <1>2, <1>3, <1>4, <1>6, <2>3, <2>4
  <2>6. Path(q, s, LeftBehind(q, n), j + (d - j), e)
    BY <2>1, <2>2, <2>3, <2>5
  <2>7. QED
    BY <2>5, <2>6 DEF m
<1>7. QED
  BY <1>5, <1>6

\* The places of the loop, case by case.
LEMMA LoopIs ==
  ASSUME NEW q \in Seq(Glyph), NEW s \in Seq(Letters), NEW n \in 1 .. Len(q),
         NEW j \in 0 .. Len(s)
  PROVE  LET ends == LoopEnds(q, s)
             e == ends[n][j]
             b == LeftBehind(q, n)
             m == Run(s, j, Doubled(q, n))
         IN /\ e \in -1 .. Len(s)
            /\ j < Len(s) /\ NextOf(q, n) = "*" =>
                 /\ Nothing(q, b) => e = j + m
                 /\ ~Nothing(q, b) =>
                      IF \E l \in 0 .. m : ends[b][j + l] > j + l
                        THEN \E l \in 0 .. m : e = ends[b][j + l] /\ e > j + l
                        ELSE e = -1
            /\ j < Len(s) /\ NextOf(q, n) # "*" /\ NextOf(q, n) \in {"?", s[j + 1]} =>
                 e = ends[n - 1][j + 1]
            /\ j = Len(s) \/ NextOf(q, n) \notin {"*", "?", s[j + 1]} =>
                 e = IF NextOf(q, n) = "$" /\ j = Len(s) THEN j ELSE -1
<1> DEFINE ends == LoopEnds(q, s)
           e == ends[n][j]
           b == LeftBehind(q, n)
           m == Run(s, j, Doubled(q, n))
           H == Hits(q, s, n, j, ends)
           x == NextOf(q, n)
<1>1. n \in 0 .. Len(q) /\ n # 0
  OBVIOUS
<1>2. ends \in [0 .. Len(q) -> Row(s)] /\ e = Round(q, s, n, j, ends)
  BY <1>1, LoopEndsAre
<1>3. e \in -1 .. Len(s)
  BY <1>1, <1>2, RoundIs
<1>4. /\ \A l : l \in H <=> l \in 0 .. m /\ ends[b][j + l] > j + l
      /\ H # {} => Max(H) \in 0 .. m /\ ends[b][j + Max(H)] > j + Max(H)
  BY HitsAre
<1>5. e = IF j < Len(s) /\ x = "*"
            THEN IF Nothing(q, b) THEN j + m
                 ELSE IF H = {} THEN -1 ELSE ends[b][j + Max(H)]
          ELSE IF j < Len(s) /\ x \in {"?", s[j + 1]} THEN ends[n - 1][j + 1]
          ELSE IF x = "$" /\ j = Len(s) THEN j ELSE -1
  BY <1>1, <1>2, Zenon DEF Round
<1>6. j = Len(s) => ~(j < Len(s))
  OBVIOUS
<1> HIDE DEF ends, e, b, m, H, x
<1>7. ASSUME j < Len(s), x = "*", ~Nothing(q, b)
      PROVE  IF \E l \in 0 .. m : ends[b][j + l] > j + l
               THEN \E l \in 0 .. m : e = ends[b][j + l] /\ e > j + l
               ELSE e = -1
  <2>1. e = IF H = {} THEN -1 ELSE ends[b][j + Max(H)]
    BY <1>5, <1>7, Zenon
  <2>2. CASE H = {}
    BY <1>4, <2>1, <2>2, Zenon
  <2>3. CASE H # {}
    <3>1. e = ends[b][j + Max(H)] /\ e > j + Max(H) /\ Max(H) \in 0 .. m
      BY <1>4, <2>1, <2>3, Zenon
    <3>2. QED
      BY <1>4, <3>1, Zenon
  <2>4. QED
    BY <2>2, <2>3
<1>8. j < Len(s) /\ x = "*" /\ Nothing(q, b) => e = j + m
  BY <1>5, Zenon
<1>9. j < Len(s) /\ x # "*" /\ x \in {"?", s[j + 1]} => e = ends[n - 1][j + 1]
  BY <1>5, Zenon
<1>10. j = Len(s) \/ x \notin {"*", "?", s[j + 1]} =>
         e = IF x = "$" /\ j = Len(s) THEN j ELSE -1
  BY <1>5, <1>6, Zenon
<1>11. QED
  BY <1>3, <1>7, <1>8, <1>9, <1>10, Zenon DEF ends, e, b, m, x

\* A turn of the loop that is not at a star.
LEMMA LoopGoesOn ==
  ASSUME NEW q \in Seq(Glyph), NEW s \in Seq(Letters), NEW n \in 1 .. Len(q),
         NEW j \in 0 .. Len(s), j < Len(s), NextOf(q, n) # "*"
  PROVE  /\ LoopEnds(q, s)[n][j] \in -1 .. Len(s)
         /\ NextOf(q, n) \in {"?", s[j + 1]} =>
              LoopEnds(q, s)[n][j] = LoopEnds(q, s)[n - 1][j + 1]
         /\ NextOf(q, n) \notin {"?", s[j + 1]} => LoopEnds(q, s)[n][j] = -1
<1> DEFINE ends == LoopEnds(q, s)
<1>1. ends[n][j] = Round(q, s, n, j, ends) /\ ends[n][j] \in -1 .. Len(s)
  BY LoopEndsAre, SMTT(30)
<1>2. n # 0 /\ j # Len(s)
  OBVIOUS
<1> HIDE DEF ends
<1>3. ends[n][j] = IF NextOf(q, n) \in {"?", s[j + 1]} THEN ends[n - 1][j + 1] ELSE -1
  BY <1>1, <1>2, Zenon DEF Round
<1>4. QED
  BY <1>1, <1>3 DEF ends

\* Behind a star, what says nothing ends where the star does.
LEMMA NothingPath ==
  ASSUME NEW q \in Seq(Glyph), NEW s \in Seq(Letters), NEW n \in 1 .. Len(q),
         NextOf(q, n) = "*", Nothing(q, LeftBehind(q, n)), NEW k \in 0 .. Len(s)
  PROVE  Path(q, s, LeftBehind(q, n), k, k)
<1>1. CASE LeftBehind(q, n) = 0
  BY <1>1, PathEnds
<1>2. CASE LeftBehind(q, n) = 1 /\ NextOf(q, 1) = "$"
  <2>1. 1 \in 1 .. Len(q) /\ 1 - 1 = 0 /\ Len(q) \in Nat
    BY <1>2, LeftBehindIs
  <2>2. BehindStar(q, 1)
    <3>1. n \in 2 .. Len(q) /\ NextOf(q, 2) = "*"
      <4>1. CASE Doubled(q, n)
        <5>1. n > 1 /\ NextOf(q, n - 1) = "*" /\ 1 = n - 2
          BY <1>2, <4>1, LeftBehindIs
        <5>2. n - 1 = 2
          BY <5>1
        <5>3. QED
          BY <5>1, <5>2
      <4>2. CASE ~Doubled(q, n)
        <5>1. 1 = n - 1
          BY <1>2, <4>2, LeftBehindIs
        <5>2. n = 2
          BY <5>1
        <5>3. QED
          BY <5>2
      <4>3. QED
        BY <4>1, <4>2
    <3>2. 1 < Len(q) /\ 1 + 1 = 2
      BY <3>1
    <3>3. QED
      BY <3>1, <3>2 DEF BehindStar
  <2>3. Stands(q, s, 1, k, k)
    BY <1>2, <2>1, <2>2, StandsIs
  <2>4. Path(q, s, 1 - 1, k, k)
    BY <2>1, PathEnds
  <2>5. Path(q, s, 1, k, k)
    BY <2>1, <2>3, <2>4, PathGoesOn
  <2>6. QED
    BY <1>2, <2>5
<1>3. QED
  BY <1>1, <1>2 DEF Nothing

\* Where a loop ends, a path does.
LEMMA LoopSoundAt ==
  ASSUME NEW q \in Seq(Glyph), NEW s \in Seq(Letters), Ended(q), NEW n \in 0 .. Len(q),
         \A i \in 0 .. n - 1 : LoopSound(q, s, i)
  PROVE  LoopSound(q, s, n)
<1> DEFINE ends == LoopEnds(q, s)
           L == Len(s)
<1> SUFFICES ASSUME NEW j \in 0 .. L, ends[n][j] # -1
             PROVE  ends[n][j] \in j .. L /\ Path(q, s, n, j, ends[n][j])
  BY Zenon DEF LoopSound
<1> DEFINE e == ends[n][j]
<1>0. L \in Nat /\ j \in Nat /\ j <= L
  OBVIOUS
<1>1. CASE n = 0
  <2>1. e = Round(q, s, n, j, ends)
    BY LoopEndsAre
  <2>2. e = j
    BY <1>1, <2>1, Zenon DEF Round
  <2>3. QED
    BY <1>0, <1>1, <2>2, PathEnds
<1>2. CASE n # 0
  <2> DEFINE b == LeftBehind(q, n)
             m == Run(s, j, Doubled(q, n))
             x == NextOf(q, n)
  <2>1. n \in 1 .. Len(q) /\ n - 1 \in 0 .. n - 1
    BY <1>2
  <2>2. b \in 0 .. n - 1
    BY <2>1, LeftBehindIs
  <2>3. /\ e \in -1 .. L
        /\ j < L /\ x = "*" =>
             /\ Nothing(q, b) => e = j + m
             /\ ~Nothing(q, b) =>
                  IF \E l \in 0 .. m : ends[b][j + l] > j + l
                    THEN \E l \in 0 .. m : e = ends[b][j + l] /\ e > j + l
                    ELSE e = -1
        /\ j < L /\ x # "*" /\ x \in {"?", s[j + 1]} => e = ends[n - 1][j + 1]
        /\ j = L \/ x \notin {"*", "?", s[j + 1]} => e = IF x = "$" /\ j = L THEN j ELSE -1
    BY <2>1, LoopIs
  <2>4. m \in 0 .. L - j /\ m \in 0 .. m /\ \A l \in 0 .. m : j + l \in j .. L /\ j + l \in 0 .. L
    <3>1. m \in 0 .. L - j
      BY <2>1, HitsAre
    <3> HIDE DEF m, L
    <3>2. QED
      BY <1>0, <3>1
  <2>5. \A l \in 0 .. m : \A i : Path(q, s, b, j + l, i) /\ x = "*" => Path(q, s, n, j, i)
    BY <2>1, StarPath
  <2>6. LoopSound(q, s, b) /\ LoopSound(q, s, n - 1)
    BY <2>1, <2>2
  <2>7. CASE j < L /\ x = "*" /\ Nothing(q, b)
    <3>1. Path(q, s, b, j + m, j + m)
      BY <2>1, <2>4, <2>7, NothingPath
    <3> HIDE DEF m, L, b, x, e
    <3>2. e = j + m /\ Path(q, s, n, j, j + m)
      BY <2>3, <2>4, <2>5, <2>7, <3>1
    <3>3. QED
      BY <2>4, <3>2 DEF e
  <2>8. CASE j < L /\ x = "*" /\ ~Nothing(q, b)
    <3> HIDE DEF m, L, b, x, e
    <3>0. e # -1
      BY DEF e
    <3>1. PICK l \in 0 .. m : e = ends[b][j + l] /\ e > j + l
      BY <2>3, <2>8, <3>0, Zenon
    <3>2. e \in j + l .. L /\ Path(q, s, b, j + l, e)
      BY <2>4, <2>6, <3>0, <3>1, Zenon DEF LoopSound, L
    <3>3. Path(q, s, n, j, e)
      BY <2>5, <2>8, <3>2
    <3>4. e \in j .. L
      BY <1>0, <2>4, <3>2
    <3>5. QED
      BY <3>3, <3>4 DEF e
  <2>9. CASE j < L /\ x # "*" /\ x \in {"?", s[j + 1]}
    <3>1. j + 1 \in 0 .. L /\ \A i \in j + 1 .. L : i \in j .. L
      BY <1>0, <2>9
    <3>2. Stands(q, s, n, j, j + 1)
      BY <2>1, <2>9, <3>1, StandsIs
    <3>3. e = ends[n - 1][j + 1] /\ e # -1
      BY <2>3, <2>9
    <3> HIDE DEF L, b, x, e, m
    <3>4. e \in j + 1 .. L /\ Path(q, s, n - 1, j + 1, e)
      BY <2>6, <3>1, <3>3, Zenon DEF LoopSound, L
    <3>5. Path(q, s, n, j, e)
      BY <2>1, <3>1, <3>2, <3>4, PathGoesOn DEF L
    <3>6. QED
      BY <3>1, <3>4, <3>5 DEF e
  <2>10. CASE j = L \/ x \notin {"*", "?", s[j + 1]}
    <3>1. x = "$" /\ j = L /\ e = j
      BY <2>3, <2>10
    <3>2. n = 1
      BY <2>1, <3>1 DEF Ended
    <3>3. Stands(q, s, n, j, j)
      BY <2>1, <3>1, StandsIs
    <3>4. Path(q, s, n - 1, j, j)
      <4>1. n - 1 = 0
        BY <3>2
      <4>2. QED
        BY <4>1, PathEnds
    <3>5. Path(q, s, n, j, j)
      BY <2>1, <3>3, <3>4, PathGoesOn
    <3>6. QED
      BY <1>0, <3>1, <3>5
  <2>11. QED
    <3>1. j < L \/ j = L
      BY <1>0
    <3>2. QED
      BY <2>7, <2>8, <2>9, <2>10, <3>1, Zenon
<1>3. QED
  BY <1>1, <1>2

LEMMA LoopsSound ==
  ASSUME NEW q \in Seq(Glyph), NEW s \in Seq(Letters), Ended(q)
  PROVE  \A n \in 0 .. Len(q) : LoopSound(q, s, n)
<1> DEFINE Has == {n \in Nat : n <= Len(q) => \A i \in 0 .. n : LoopSound(q, s, i)}
<1>1. Len(q) \in Nat
  OBVIOUS
<1>2. 0 \in Has
  <2>1. \A i \in 0 .. 0 - 1 : LoopSound(q, s, i)
    OBVIOUS
  <2>2. 0 \in 0 .. Len(q)
    BY <1>1
  <2>3. LoopSound(q, s, 0)
    BY <2>1, <2>2, LoopSoundAt
  <2>4. \A i \in 0 .. 0 : i = 0
    OBVIOUS
  <2>5. QED
    BY <2>3, <2>4
<1>3. ASSUME NEW n \in Nat, n \in Has PROVE n + 1 \in Has
  <2> SUFFICES ASSUME n + 1 <= Len(q) PROVE \A i \in 0 .. n + 1 : LoopSound(q, s, i)
    OBVIOUS
  <2>1. n + 1 \in 0 .. Len(q) /\ n <= Len(q) /\ (n + 1) - 1 = n
        /\ \A i \in 0 .. n + 1 : i \in 0 .. n \/ i = n + 1
    BY <1>1
  <2>2. \A i \in 0 .. (n + 1) - 1 : LoopSound(q, s, i)
    BY <1>3, <2>1
  <2>3. LoopSound(q, s, n + 1)
    BY <2>1, <2>2, LoopSoundAt
  <2>4. QED
    BY <2>1, <2>2, <2>3
<1>4. Nat \subseteq Has
  <2> HIDE DEF Has
  <2>1. QED
    BY <1>2, <1>3, AllNats
<1>5. ASSUME NEW n \in 0 .. Len(q) PROVE LoopSound(q, s, n)
  <2>1. n \in Has /\ n \in 0 .. n /\ n <= Len(q)
    BY <1>4
  <2>2. QED
    BY <2>1
<1>6. QED
  BY <1>5

\* Where the loop is begun: not in the middle of two stars, nor at a $ that
\* says nothing.
Fresh(q, n) == n = 0 \/ ~BehindStar(q, n) \/ NextOf(q, n) \notin {"*", "$"}

\* No star is left.
Starless(q, n) == \A i \in 1 .. n : NextOf(q, i) # "*"

\* A path that leaves some of the text is found, or another one; and so is
\* one without a star.
LoopFinds(q, s, n) ==
  Fresh(q, n) =>
    \A j, e \in 0 .. Len(s) :
      Path(q, s, n, j, e) /\ (e < Len(s) \/ Starless(q, n)) =>
        /\ j <= e /\ LoopEnds(q, s)[n][j] # -1
        /\ e > j => LoopEnds(q, s)[n][j] > j

LEMMA LoopFindsAt ==
  ASSUME NEW q \in Seq(Glyph), NEW s \in Seq(Letters), Ended(q), Untripled(q),
         NEW n \in 0 .. Len(q), \A i \in 0 .. n - 1 : LoopFinds(q, s, i)
  PROVE  LoopFinds(q, s, n)
<1> DEFINE ends == LoopEnds(q, s)
           L == Len(s)
<1> SUFFICES ASSUME Fresh(q, n), NEW j \in 0 .. L, NEW e \in 0 .. L, Path(q, s, n, j, e),
                    e < L \/ Starless(q, n)
             PROVE  j <= e /\ ends[n][j] # -1 /\ (e > j => ends[n][j] > j)
  BY Zenon DEF LoopFinds
<1>0. L \in Nat /\ j \in Nat /\ j <= L /\ e \in Nat
  OBVIOUS
<1>1. ASSUME NEW c \in 1 .. Len(q), NEW k \in 0 .. L, k < L, NextOf(q, c) # "*"
      PROVE  /\ ends[c][k] \in -1 .. L
             /\ NextOf(q, c) \in {"?", s[k + 1]} => ends[c][k] = ends[c - 1][k + 1]
             /\ NextOf(q, c) \notin {"?", s[k + 1]} => ends[c][k] = -1
  BY <1>1, LoopGoesOn
<1>2. CASE n = 0
  <2>1. ends[n][j] = Round(q, s, n, j, ends)
    BY LoopEndsAre
  <2>2. ends[n][j] = j /\ e = j
    BY <1>2, <2>1, PathEnds, Zenon DEF Round
  <2>3. QED
    BY <1>0, <2>2
<1>3. CASE n # 0
  <2> DEFINE b == LeftBehind(q, n)
             m == Run(s, j, Doubled(q, n))
             x == NextOf(q, n)
  <2>1. n \in 1 .. Len(q) /\ n - 1 \in 0 .. n - 1
    BY <1>3
  <2>2. b \in 0 .. n - 1 /\ b \in 0 .. Len(q)
    BY <2>1, LeftBehindIs
  <2>3. /\ j < L /\ x = "*" =>
             /\ Nothing(q, b) => ends[n][j] = j + m
             /\ ~Nothing(q, b) =>
                  IF \E l \in 0 .. m : ends[b][j + l] > j + l
                    THEN \E l \in 0 .. m : ends[n][j] = ends[b][j + l] /\ ends[n][j] > j + l
                    ELSE ends[n][j] = -1
        /\ j < L /\ x # "*" /\ x \in {"?", s[j + 1]} => ends[n][j] = ends[n - 1][j + 1]
    <3>1. j < L /\ x = "*" =>
             /\ Nothing(q, b) => ends[n][j] = j + m
             /\ ~Nothing(q, b) =>
                  IF \E l \in 0 .. m : ends[b][j + l] > j + l
                    THEN \E l \in 0 .. m : ends[n][j] = ends[b][j + l] /\ ends[n][j] > j + l
                    ELSE ends[n][j] = -1
      BY <2>1, LoopIs, SMTT(60)
    <3>2. j < L /\ x # "*" /\ x \in {"?", s[j + 1]} => ends[n][j] = ends[n - 1][j + 1]
      BY <2>1, LoopIs, SMTT(60)
    <3>3. QED
      BY <3>1, <3>2
  <2>4. m \in 0 .. L - j /\ (m = L - j \/ s[j + m + 1] = "/")
    BY <2>1, LeftBehindIs, RunIs
  <2>5. ends[n][j] \in -1 .. L
    BY <2>1, LoopIs
  <2>6. LoopFinds(q, s, b) /\ LoopFinds(q, s, n - 1)
    BY <2>1, <2>2
  <2>7. \A i \in 0 .. Len(q) : LoopSound(q, s, i)
    BY LoopsSound
  <2>8. CASE x = "*"
    <3>0. e < L
      BY <2>1, <2>8 DEF Starless
    <3>1. PICK l \in 0 .. m : Path(q, s, b, j + l, e)
      <4>1. ~BehindStar(q, n)
        BY <1>3, <2>8 DEF Fresh
      <4>2. QED
        BY <2>1, <2>8, <4>1, StarStands
    <3>2. j + l \in 0 .. L /\ j <= j + l /\ l \in Nat
      BY <1>0, <2>4
    <3>3. CASE Nothing(q, b)
      <4>1. e = j + l \/ (e = j + l + 1 /\ s[j + l + 1] = "$")
        <5>1. CASE b = 0
          BY <3>1, <3>2, <5>1, PathEnds
        <5>2. CASE b = 1 /\ NextOf(q, 1) = "$"
          <6>1. 1 \in 1 .. Len(q) /\ 1 - 1 = 0
            BY <2>2, <5>2
          <6>2. PICK d \in 0 .. L : Stands(q, s, 1, j + l, d) /\ Path(q, s, 1 - 1, d, e)
            <7>1. Path(q, s, 1, j + l, e)
              BY <3>1, <5>2
            <7>2. QED
              BY <3>2, <6>1, <7>1, PathGoesOn
          <6>3. e = d
            BY <6>1, <6>2, PathEnds
          <6>4. d = j + l \/ (d = j + l + 1 /\ s[d] = "$")
            BY <3>2, <5>2, <6>1, <6>2, StandsIs
          <6>5. QED
            BY <6>3, <6>4
        <5>3. QED
          BY <3>3, <5>1, <5>2 DEF Nothing
      <4>2. j < L /\ j <= e /\ ends[n][j] = j + m
        <5> HIDE DEF m, L, b, x, ends
        <5>1. j <= e
          BY <1>0, <3>2, <4>1
        <5>2. j < L
          BY <1>0, <3>0, <5>1
        <5>3. QED
          BY <2>3, <2>8, <3>3, <5>1, <5>2
      <4>3. e > j => m > 0
        <5>1. ASSUME e > j, m = 0 PROVE FALSE
          <6> HIDE DEF m, L, b, x, ends
          <6>1. l = 0
            BY <3>2, <5>1
          <6>2. s[j + 1] = "$"
            BY <1>0, <4>1, <5>1, <6>1
          <6>3. s[j + 1] = "/"
            BY <1>0, <2>4, <4>2, <5>1
          <6>4. QED
            BY <6>2, <6>3
        <5> HIDE DEF m, L
        <5>2. QED
          BY <1>0, <2>4, <5>1
      <4> HIDE DEF m, L, ends, b, x
      <4>4. QED
        BY <1>0, <2>4, <4>2, <4>3
    <3>4. CASE ~Nothing(q, b)
      <4>1. b \in 1 .. Len(q) /\ NextOf(q, b) # "$" /\ NextOf(q, b) # "*"
        <5>1. b # 0 /\ ~(b = 1 /\ NextOf(q, 1) = "$")
          BY <3>4 DEF Nothing
        <5>2. b \in 1 .. Len(q)
          BY <2>2, <5>1
        <5>3. NextOf(q, b) # "$"
          BY <5>1, <5>2 DEF Ended
        <5>4. NextOf(q, b) # "*"
          <6>1. CASE ~Doubled(q, n)
            <7>1. b = n - 1 /\ (n > 1 => NextOf(q, n - 1) # "*")
              BY <2>1, <6>1, LeftBehindIs
            <7>2. n > 1
              BY <2>1, <5>2, <7>1
            <7>3. QED
              BY <7>1, <7>2
          <6>2. CASE Doubled(q, n)
            <7>1. b = n - 2 /\ NextOf(q, n - 1) = "*"
              BY <2>1, <6>2, LeftBehindIs
            <7>2. n \in 3 .. Len(q)
              BY <2>1, <5>2, <7>1
            <7>3. QED
              BY <2>8, <7>1, <7>2 DEF Untripled
          <6>3. QED
            BY <6>1, <6>2
        <5>5. QED
          BY <5>2, <5>3, <5>4
      <4>2. Fresh(q, b)
        BY <4>1 DEF Fresh
      <4>3. j + l <= e /\ ends[b][j + l] # -1
        BY <2>6, <3>0, <3>1, <3>2, <4>2, Zenon DEF LoopFinds
      <4>4. ends[b][j + l] > j + l
        <5> DEFINE k == j + l
        <5>1. k \in 0 .. L /\ k < L /\ k + 1 \in 0 .. L /\ k # L
          BY <1>0, <3>0, <3>2, <4>3
        <5>2. /\ ends[b][k] \in -1 .. L
              /\ NextOf(q, b) \in {"?", s[k + 1]} => ends[b][k] = ends[b - 1][k + 1]
              /\ NextOf(q, b) \notin {"?", s[k + 1]} => ends[b][k] = -1
          <6>1. b \in 1 .. Len(q) /\ NextOf(q, b) # "*"
            BY <4>1
          <6> HIDE DEF b, k, L, ends
          <6>2. QED
            BY <1>1, <5>1, <6>1, Zenon
        <5>3. ends[b][k] = ends[b - 1][k + 1]
          BY <4>3, <5>2
        <5>4. LoopSound(q, s, b - 1)
          <6>1. b - 1 \in 0 .. Len(q)
            BY <4>1
          <6>2. QED
            BY <2>7, <6>1
        <5>5. ends[b - 1][k + 1] \in k + 1 .. L
          <6>1. ends[b - 1][k + 1] # -1
            BY <4>3, <5>3
          <6>2. QED
            BY <5>1, <5>4, <6>1, Zenon DEF LoopSound
        <5>6. QED
          <6> HIDE DEF L, ends, b, m
          <6>1. k \in Nat
            BY <1>0, <5>1
          <6> HIDE DEF k
          <6>2. ends[b][k] > k
            BY <5>3, <5>5, <6>1
          <6>3. QED
            BY <6>2 DEF k
      <4>5. j < L /\ j <= e
        BY <1>0, <3>0, <3>2, <4>3
      <4>6. \E i \in 0 .. m : ends[n][j] = ends[b][j + i] /\ ends[n][j] > j + i
        <5> HIDE DEF L, ends, b, m, x
        <5>1. QED
          BY <2>3, <2>8, <3>4, <4>4, <4>5, Zenon
      <4>7. QED
        <5> HIDE DEF L, ends, b, m, x
        <5>1. PICK i \in 0 .. m : ends[n][j] > j + i
          BY <4>6
        <5>2. QED
          <6>1. m \in 0 .. L - j
            BY <2>4
          <6>2. i \in Nat
            BY <1>0, <5>1, <6>1
          <6>3. ends[n][j] > j
            BY <1>0, <2>5, <5>1, <6>2
          <6>4. QED
            BY <1>0, <2>5, <4>5, <6>3
    <3>5. QED
      BY <3>3, <3>4
  <2>9. CASE x # "*"
    <3>1. PICK d \in 0 .. L : Stands(q, s, n, j, d) /\ Path(q, s, n - 1, d, e)
      BY <2>1, PathGoesOn
    <3>2. CASE d = j + 1 /\ x \in {"?", s[d]}
      <4>1. j < L /\ j + 1 \in 0 .. L
        BY <1>0, <3>2
      <4>2. Fresh(q, n - 1)
        <5>1. n - 1 = 0 \/ ~BehindStar(q, n - 1)
          <6>1. (n - 1) + 1 = n
            BY <2>1
          <6>2. QED
            BY <2>9, <6>1 DEF BehindStar
        <5>2. QED
          BY <5>1 DEF Fresh
      <4>7. e < L \/ Starless(q, n - 1)
        BY <2>1 DEF Starless
      <4>3. ends[n][j] = ends[n - 1][j + 1]
        BY <2>3, <2>9, <3>2, <4>1
      <4>4. j + 1 <= e /\ ends[n - 1][j + 1] # -1
        BY <2>6, <3>1, <3>2, <4>1, <4>2, <4>7, Zenon DEF LoopFinds
      <4>5. ends[n - 1][j + 1] \in j + 1 .. L
        <5>1. LoopSound(q, s, n - 1)
          <6>1. n - 1 \in 0 .. Len(q)
            BY <2>1
          <6>2. QED
            BY <2>7, <6>1
        <5>2. QED
          BY <4>1, <4>4, <5>1, Zenon DEF LoopSound
      <4>6. QED
        <5> HIDE DEF L, ends, b, m, x
        <5>1. QED
          BY <1>0, <4>3, <4>4, <4>5
    <3>3. CASE x = "$" /\ d = j /\ (BehindStar(q, n) \/ d = L)
      <4>1. d = L
        BY <1>3, <3>3 DEF Fresh
      <4>2. n = 1
        BY <2>1, <3>3 DEF Ended
      <4>3. e = d
        <5>1. n - 1 = 0
          BY <4>2
        <5>2. QED
          BY <3>1, <5>1, PathEnds
      <4>4. ends[n][j] = j
        BY <2>1, <3>3, <4>1, LoopIs
      <4>5. QED
        BY <1>0, <3>3, <4>3, <4>4
    <3>4. QED
      BY <2>1, <2>9, <3>1, <3>2, <3>3, StandsIs
  <2>10. QED
    BY <2>8, <2>9
<1>4. QED
  BY <1>2, <1>3

LEMMA LoopsFind ==
  ASSUME NEW q \in Seq(Glyph), NEW s \in Seq(Letters), Ended(q), Untripled(q)
  PROVE  LoopFinds(q, s, Len(q))
<1> DEFINE Has == {n \in Nat : n <= Len(q) => \A i \in 0 .. n : LoopFinds(q, s, i)}
<1>1. Len(q) \in Nat
  OBVIOUS
<1>2. 0 \in Has
  <2>1. \A i \in 0 .. 0 - 1 : LoopFinds(q, s, i)
    OBVIOUS
  <2>2. 0 \in 0 .. Len(q)
    BY <1>1
  <2>3. LoopFinds(q, s, 0)
    BY <2>1, <2>2, LoopFindsAt
  <2>4. \A i \in 0 .. 0 : i = 0
    OBVIOUS
  <2>5. QED
    BY <2>3, <2>4
<1>3. ASSUME NEW n \in Nat, n \in Has PROVE n + 1 \in Has
  <2> SUFFICES ASSUME n + 1 <= Len(q) PROVE \A i \in 0 .. n + 1 : LoopFinds(q, s, i)
    OBVIOUS
  <2>1. n + 1 \in 0 .. Len(q) /\ n <= Len(q) /\ (n + 1) - 1 = n
        /\ \A i \in 0 .. n + 1 : i \in 0 .. n \/ i = n + 1
    BY <1>1
  <2>2. \A i \in 0 .. (n + 1) - 1 : LoopFinds(q, s, i)
    BY <1>3, <2>1
  <2>3. LoopFinds(q, s, n + 1)
    BY <2>1, <2>2, LoopFindsAt
  <2>4. QED
    BY <2>1, <2>2, <2>3
<1>4. Nat \subseteq Has
  <2> HIDE DEF Has
  <2>1. QED
    BY <1>2, <1>3, AllNats
<1>5. Len(q) \in Has /\ Len(q) \in 0 .. Len(q)
  BY <1>1, <1>4
<1>6. QED
  BY <1>1, <1>5

\* What a call without alternatives returns.
LEMMA MatchOneIs ==
  ASSUME NEW q \in Seq(Glyph), NEW s \in Seq(Letters), Ended(q), Untripled(q)
  PROVE  /\ MatchOne(q, s) \in Nat
         /\ MatchOne(q, s) > 0 => MatchOne(q, s) \in Taken(q, s)
         /\ (\E e \in Taken(q, s) :
               e \in 1 .. Len(s) /\ (e < Len(s) \/ Starless(q, Len(q)))) => MatchOne(q, s) > 0
<1> DEFINE N == Len(q)
           e == LoopEnds(q, s)[N][0]
<1>1. N \in 0 .. N /\ 0 \in 0 .. Len(s) /\ Len(s) \in Nat
  OBVIOUS
<1>2. e \in -1 .. Len(s)
  <2>1. LoopEnds(q, s) \in [0 .. Len(q) -> Row(s)]
    BY LoopEndsAre
  <2>2. QED
    BY <1>1, <2>1 DEF Row
<1>3. MatchOne(q, s) = Max({0, e})
  BY DEF MatchOne
<1>4. MatchOne(q, s) = IF e > 0 THEN e ELSE 0
  <2> HIDE DEF e
  <2>1. {0, e} \in SUBSET Int
    BY <1>2
  <2>2. CASE e > 0
    <3>1. e \in {0, e} /\ \A k \in {0, e} : e >= k
      BY <1>2, <2>2
    <3>2. Max({0, e}) = e
      BY <2>1, <3>1, MaxIs
    <3>3. QED
      BY <1>3, <2>2, <3>2
  <2>3. CASE ~(e > 0)
    <3>1. 0 \in {0, e} /\ \A k \in {0, e} : 0 >= k
      BY <1>2, <2>3
    <3>2. Max({0, e}) = 0
      BY <2>1, <3>1, MaxIs
    <3>3. QED
      BY <1>3, <2>3, <3>2
  <2>4. QED
    BY <2>2, <2>3
<1>5. e > 0 => e \in Taken(q, s)
  <2>1. LoopSound(q, s, N)
    BY <1>1, LoopsSound
  <2>2. e # -1 => Path(q, s, N, 0, e)
    BY <1>1, <2>1, Zenon DEF LoopSound
  <2> HIDE DEF e
  <2>3. QED
    BY <1>2, <2>2, TakenIs
<1>6. ASSUME NEW d \in Taken(q, s), d \in 1 .. Len(s), d < Len(s) \/ Starless(q, N)
      PROVE  e > 0
  <2>1. Path(q, s, N, 0, d)
    BY TakenIs
  <2>2. Fresh(q, N)
    BY <1>1 DEF Fresh, BehindStar
  <2>3. LoopFinds(q, s, N)
    BY LoopsFind
  <2>4. d \in 0 .. Len(s) /\ d > 0
    BY <1>1, <1>6
  <2>5. QED
    BY <1>1, <1>6, <2>1, <2>2, <2>3, <2>4, Zenon DEF LoopFinds
<1> HIDE DEF e
<1>7. QED
  BY <1>1, <1>2, <1>4, <1>5, <1>6

\* An alternative of a sensible pattern.
LEMMA AlternativeIs ==
  ASSUME NEW p \in Seq(Glyph), Sensible(p), NEW b \in Begins(p)
  PROVE  /\ Alternative(p, b) \in Seq(Glyph)
         /\ Ended(Alternative(p, b)) /\ Untripled(Alternative(p, b))
         /\ \A n \in 1 .. Len(Alternative(p, b)) :
              Contains(p, NextOf(Alternative(p, b), n))
         /\ \A ch : Contains(Alternative(p, b), ch) => Contains(p, ch)
<1> DEFINE L == Len(p)
           T == {L + 1} \cup {k \in b + 1 .. L : p[k] = "|"}
           m == Min(T)
           q == Alternative(p, b)
<1>1. L \in Nat /\ b \in 0 .. L
  BY DEF Begins
<1>2. m \in b + 1 .. L + 1 /\ \A k \in b + 1 .. m - 1 : p[k] # "|"
  <2>1. T \in SUBSET Nat /\ T # {}
    BY <1>1
  <2>2. m \in T /\ \A k \in T : m <= k
    <3> HIDE DEF T
    <3>1. QED
      BY <2>1, MinOf
  <2>3. \A k \in T : k \in b + 1 .. L + 1
    BY <1>1
  <2>4. m \in b + 1 .. L + 1
    BY <2>2, <2>3
  <2> HIDE DEF m, L
  <2>5. ASSUME NEW k \in b + 1 .. m - 1, p[k] = "|" PROVE FALSE
    <3>1. k \in b + 1 .. L /\ ~(m <= k)
      BY <1>1, <2>4
    <3>2. k \in T
      BY <2>5, <3>1
    <3>3. QED
      BY <2>2, <3>1, <3>2
  <2>6. QED
    BY <2>4, <2>5
<1>3. q = SubSeq(p, b + 1, m - 1)
  BY DEF Alternative
<1> HIDE DEF m, q
<1>4. \A i \in b + 1 .. m - 1 : i \in 1 .. L
  BY <1>1, <1>2
<1>5. q \in Seq(Glyph) /\ Len(q) = m - 1 - b /\ \A i \in 1 .. Len(q) : q[i] = p[b + i]
  BY <1>1, <1>2, <1>3, <1>4
<1>6. ASSUME NEW n \in 1 .. Len(q)
      PROVE  m - n \in b + 1 .. m - 1 /\ NextOf(q, n) = p[m - n]
  <2>1. m - n \in b + 1 .. m - 1 /\ Len(q) - n + 1 \in 1 .. Len(q) /\ b + (Len(q) - n + 1) = m - n
    BY <1>1, <1>2, <1>5
  <2>2. QED
    BY <1>5, <2>1 DEF NextOf
<1>7. Ended(q)
  <2> SUFFICES ASSUME NEW n \in 2 .. Len(q), NextOf(q, n) = "$" PROVE FALSE
    BY DEF Ended
  <2>1. n \in 1 .. Len(q) /\ n - 1 \in 1 .. Len(q) /\ m - (n - 1) = (m - n) + 1
    BY <1>1, <1>2, <1>5
  <2>2. p[m - n] = "$" /\ m - n \in b + 1 .. m - 1 /\ (m - n) + 1 \in b + 1 .. m - 1
    BY <1>6, <2>1
  <2>3. m - n \in 1 .. L - 1
    BY <1>1, <1>2, <2>2
  <2>4. p[(m - n) + 1] = "|"
    BY <2>2, <2>3 DEF Sensible
  <2>5. QED
    BY <1>2, <2>2, <2>4
<1>8. Untripled(q)
  <2> SUFFICES ASSUME NEW n \in 3 .. Len(q), NextOf(q, n) = "*",
                      NextOf(q, n - 1) = "*", NextOf(q, n - 2) = "*"
               PROVE  FALSE
    BY DEF Untripled
  <2> DEFINE k == m - n
  <2>1. /\ n \in 1 .. Len(q) /\ n - 1 \in 1 .. Len(q) /\ n - 2 \in 1 .. Len(q)
        /\ m - (n - 1) = k + 1 /\ m - (n - 2) = k + 2
    BY <1>1, <1>2, <1>5
  <2>2. /\ p[k] = "*" /\ p[k + 1] = "*" /\ p[k + 2] = "*"
        /\ k \in b + 1 .. m - 1 /\ k + 2 \in b + 1 .. m - 1
    BY <1>6, <2>1
  <2> HIDE DEF k
  <2>3. k \in 1 .. L - 2
    BY <1>1, <1>2, <2>2
  <2>4. QED
    BY <2>2, <2>3 DEF Sensible
<1>9. \A n \in 1 .. Len(q) : Contains(p, NextOf(q, n))
  <2> SUFFICES ASSUME NEW n \in 1 .. Len(q) PROVE Contains(p, NextOf(q, n))
    OBVIOUS
  <2>1. m - n \in 1 .. L /\ NextOf(q, n) = p[m - n]
    BY <1>4, <1>6
  <2>2. QED
    BY <2>1 DEF Contains
<1>10. \A ch : Contains(q, ch) => Contains(p, ch)
  <2> SUFFICES ASSUME NEW ch, NEW i \in 1 .. Len(q), q[i] = ch PROVE Contains(p, ch)
    BY DEF Contains
  <2>1. b + i \in 1 .. L /\ p[b + i] = ch
    BY <1>1, <1>2, <1>4, <1>5
  <2>2. QED
    BY <2>1 DEF Contains
<1>11. QED
  BY <1>5, <1>7, <1>8, <1>9, <1>10 DEF q

\* What mg_match_prefix_n returns.
LEMMA MatchPrefixIs ==
  ASSUME NEW p \in Seq(Glyph), NEW s \in Seq(Letters), Sensible(p)
  PROVE  /\ MatchPrefix(p, s) > 0 => MatchPrefix(p, s) \in TakenBy(p, s)
         /\ (\E e \in TakenBy(p, s) :
               e \in 1 .. Len(s) /\ (e < Len(s) \/ ~Contains(p, "*"))) => MatchPrefix(p, s) > 0
<1> DEFINE M(b) == MatchOne(Alternative(p, b), s)
           H == {b \in Begins(p) : M(b) > 0}
<1>1. ASSUME NEW b \in Begins(p)
      PROVE  /\ M(b) \in Nat
             /\ M(b) > 0 => M(b) \in Taken(Alternative(p, b), s)
             /\ \A e \in Taken(Alternative(p, b), s) :
                  e \in 1 .. Len(s) /\ (e < Len(s) \/ ~Contains(p, "*")) => M(b) > 0
  <2> DEFINE q == Alternative(p, b)
  <2>1. /\ q \in Seq(Glyph) /\ Ended(q) /\ Untripled(q)
        /\ \A n \in 1 .. Len(q) : Contains(p, NextOf(q, n))
    BY AlternativeIs
  <2>2. ~Contains(p, "*") => Starless(q, Len(q))
    BY <2>1 DEF Starless
  <2> HIDE DEF q
  <2>3. /\ MatchOne(q, s) \in Nat
        /\ MatchOne(q, s) > 0 => MatchOne(q, s) \in Taken(q, s)
        /\ \A e \in Taken(q, s) :
             e \in 1 .. Len(s) /\ (e < Len(s) \/ Starless(q, Len(q))) => MatchOne(q, s) > 0
    BY <2>1, MatchOneIs
  <2>4. QED
    BY <2>2, <2>3 DEF q
<1>2. H # {} => Min(H) \in H
  <2>1. H \in SUBSET Nat
    BY DEF Begins
  <2> HIDE DEF H
  <2>2. QED
    BY <2>1, MinOf
<1>3. MatchPrefix(p, s) = IF H = {} THEN 0 ELSE M(Min(H))
  BY Zenon DEF MatchPrefix
<1>4. \A b \in H : b \in Begins(p) /\ M(b) > 0
  OBVIOUS
<1>5. \A b \in Begins(p) : M(b) > 0 => b \in H
  OBVIOUS
<1>6. ~(0 > 0)
  OBVIOUS
<1> HIDE DEF M, H
<1>7. ASSUME MatchPrefix(p, s) > 0 PROVE MatchPrefix(p, s) \in TakenBy(p, s)
  <2>1. H # {}
    BY <1>3, <1>6, <1>7, Zenon
  <2>2. Min(H) \in Begins(p) /\ M(Min(H)) > 0
    BY <1>2, <1>4, <2>1, Zenon
  <2>3. MatchPrefix(p, s) \in Taken(Alternative(p, Min(H)), s)
    BY <1>1, <1>3, <2>1, <2>2, Zenon
  <2>4. QED
    BY <2>2, <2>3, Zenon DEF TakenBy
<1>8. ASSUME NEW e \in TakenBy(p, s), e \in 1 .. Len(s), e < Len(s) \/ ~Contains(p, "*")
      PROVE  MatchPrefix(p, s) > 0
  <2>1. PICK b \in Begins(p) : e \in Taken(Alternative(p, b), s)
    BY Zenon DEF TakenBy
  <2>2. b \in H
    BY <1>1, <1>5, <1>8, <2>1, Zenon
  <2>3. H # {}
    BY <2>2
  <2>4. QED
    BY <1>2, <1>3, <1>4, <2>3, Zenon
<1>9. QED
  BY <1>7, <1>8

\* What a pattern means is what mg_match_prefix_n takes it to mean, unless a
\* ? meets a slash.
LEMMA DescribedIsTaken ==
  ASSUME NEW q \in Seq(Glyph), NEW s \in Seq(Letters)
  PROVE  /\ Described(q, s) \subseteq Taken(q, s)
         /\ ~(Contains(q, "?") /\ Contains(s, "/")) => Taken(q, s) \subseteq Described(q, s)
<1> DEFINE apart == ~(Contains(q, "?") /\ Contains(s, "/"))
<1>1. ASSUME NEW k \in 1 .. Len(q), NEW a \in 0 .. Len(s), NEW b \in 0 .. Len(s)
      PROVE  /\ StandsFor(q, s, k, a, b) => TakenFor(q, s, k, a, b)
             /\ apart /\ TakenFor(q, s, k, a, b) => StandsFor(q, s, k, a, b)
  <2>1. apart /\ b = a + 1 /\ q[k] = "?" => s[b] # "/"
    <3>1. b = a + 1 => b \in 1 .. Len(s)
      OBVIOUS
    <3>2. QED
      BY <3>1 DEF Contains
  <2>2. QED
    BY <2>1, Zenon DEF StandsFor, TakenFor
<1>2. ASSUME NEW c \in [1 .. Len(q) -> 0 .. Len(s)], NEW k \in 1 .. Len(q)
      PROVE  (IF k = 1 THEN 0 ELSE c[k - 1]) \in 0 .. Len(s) /\ c[k] \in 0 .. Len(s)
  <2>1. k = 1 \/ k - 1 \in 1 .. Len(q)
    OBVIOUS
  <2>2. QED
    BY <2>1
<1> HIDE DEF apart
<1>3. Cuts(q, s) \subseteq TakenCuts(q, s)
  BY <1>1, <1>2, Zenon DEF Cuts, TakenCuts
<1>4. apart => TakenCuts(q, s) \subseteq Cuts(q, s)
  BY <1>1, <1>2, Zenon DEF Cuts, TakenCuts
<1>5. QED
  BY <1>3, <1>4 DEF Described, Taken, apart

LEMMA MeantIsTaken ==
  ASSUME NEW p \in Seq(Glyph), NEW s \in Seq(Letters), Sensible(p)
  PROVE  /\ Meant(p, s) \subseteq TakenBy(p, s)
         /\ ~(Contains(p, "?") /\ Contains(s, "/")) => TakenBy(p, s) \subseteq Meant(p, s)
<1>1. ASSUME NEW b \in Begins(p)
      PROVE  /\ Described(Alternative(p, b), s) \subseteq Taken(Alternative(p, b), s)
             /\ ~(Contains(p, "?") /\ Contains(s, "/")) =>
                  Taken(Alternative(p, b), s) \subseteq Described(Alternative(p, b), s)
  <2>1. /\ Alternative(p, b) \in Seq(Glyph)
        /\ Contains(Alternative(p, b), "?") => Contains(p, "?")
    BY AlternativeIs
  <2>2. QED
    BY <2>1, DescribedIsTaken
<1>2. QED
  BY <1>1, Zenon DEF Meant, TakenBy

LEMMA TextsAre ==
  ASSUME NEW S, NEW n \in Nat
  PROVE  Texts(S, n) \subseteq Seq(S)
<1>1. ASSUME NEW k \in 1 .. n, NEW t \in [1 .. k -> S] PROVE t \in Seq(S)
  OBVIOUS
<1>2. <<>> \in Seq(S)
  OBVIOUS
<1>3. QED
  BY <1>1, <1>2 DEF Texts

\* mg_match_prefix_n finds what its pattern means, for patterns and texts of
\* any length and letters, but for a ? that meets a slash and for a star at
\* the end of the text.
THEOREM MatchesAreMeant == GlobSpec => []MatchesWhatIsMeant
<1>1. GlobInit => MatchesWhatIsMeant
  BY DEF GlobInit, MatchesWhatIsMeant
<1>2. MatchesWhatIsMeant /\ [Match]_globVars => MatchesWhatIsMeant'
  <2> SUFFICES ASSUME MatchesWhatIsMeant, [Match]_globVars PROVE MatchesWhatIsMeant'
    OBVIOUS
  <2>1. CASE UNCHANGED globVars
    BY <2>1, Zenon DEF globVars, MatchesWhatIsMeant
  <2>2. CASE Match
    <3>1. /\ pattern' \in Texts(Glyph, MaxPattern) /\ str' \in Texts(Letters, MaxText)
          /\ matched' = MatchPrefix(pattern', str')
      BY <2>2, Zenon DEF Match, Glyph
    <3>3. MaxPattern \in Nat /\ MaxText \in Nat
      BY MgGlobsAssumption
    <3>4. pattern' \in Seq(Glyph) /\ str' \in Seq(Letters)
      BY <3>1, <3>3, TextsAre
    <3>5. ASSUME Sensible(pattern')
          PROVE  /\ matched' > 0 => matched' \in TakenBy(pattern', str')
                 /\ (\E e \in TakenBy(pattern', str') :
                       e \in 1 .. Len(str') /\ (e < Len(str') \/ ~Contains(pattern', "*")))
                      => matched' > 0
                 /\ Meant(pattern', str') \subseteq TakenBy(pattern', str')
                 /\ ~(Contains(pattern', "?") /\ Contains(str', "/")) =>
                      TakenBy(pattern', str') \subseteq Meant(pattern', str')
      BY <3>1, <3>4, <3>5, MatchPrefixIs, MeantIsTaken
    <3>6. QED
      BY <3>5 DEF MatchesWhatIsMeant
  <2>3. QED
    BY <2>1, <2>2
<1>3. QED
  BY <1>1, <1>2, PTL DEF GlobSpec

-----------------------------------------------------------------------------
(* Together.                                                               *)

\* What the algorithms promise, they promise next to each other: a behaviour
\* of MgText is one of each of them, in which the others' steps are stutters.
THEOREM AllKept ==
  Spec => [](/\ BufferHoldsAll /\ LastMatchWins /\ PathIsResolved
             /\ NamesAreSpelled /\ PageIsExpanded /\ MatchesWhatIsMeant)
<1>1. Init => MbufInit /\ AclInit /\ UriInit /\ NamesInit /\ SsiInit /\ GlobInit
  BY DEF Init
<1>2. [Next]_vars => /\ [MbufNext]_mbufVars /\ [AclNext]_aclVars /\ [UriNext]_uriVars
                     /\ [NamesNext]_namesVars /\ [SsiNext]_ssiVars /\ [Match]_globVars
  <2> SUFFICES ASSUME [Next]_vars
               PROVE  /\ [MbufNext]_mbufVars /\ [AclNext]_aclVars /\ [UriNext]_uriVars
                      /\ [NamesNext]_namesVars /\ [SsiNext]_ssiVars /\ [Match]_globVars
    OBVIOUS
  <2>1. CASE UNCHANGED vars
    BY <2>1, Zenon DEF vars
  <2>2. CASE BufferStep
    BY <2>2, Zenon DEF BufferStep
  <2>3. CASE AclStep
    BY <2>3, Zenon DEF AclStep
  <2>4. CASE PathStep
    BY <2>4, Zenon DEF PathStep
  <2>5. CASE NameStep
    BY <2>5, Zenon DEF NameStep
  <2>6. CASE PageStep
    BY <2>6, Zenon DEF PageStep
  <2>7. CASE MatchStep
    BY <2>7, Zenon DEF MatchStep
  <2>8. QED
    BY <2>1, <2>2, <2>3, <2>4, <2>5, <2>6, <2>7 DEF Next
<1>3. Spec => /\ MbufSpec /\ AclSpec /\ UriSpec
              /\ NamesSpec /\ SsiSpec /\ GlobSpec
  BY <1>1, <1>2, PTL DEF Spec, MbufSpec, AclSpec, UriSpec, NamesSpec, SsiSpec, GlobSpec
<1>4. QED
  BY <1>3, BuffersHold, LastEntryDecides, PathsResolve, NamesSpell, PagesExpand,
     MatchesAreMeant, PTL
================================================================================
