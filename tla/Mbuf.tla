---------------------------------- MODULE Mbuf ----------------------------------
(***************************************************************************)
(* The growing buffers everything is read into and sent from (mbuf).       *)
(* A buffer is memory of a size, of which the first len bytes count; what  *)
(* realloc() adds is Garbage until it is written.  Beside it stand the     *)
(* bytes its users believe to be in it, going by what the calls return.    *)
(*                                                                         *)
(* A step is a call of mbuf_insert, mbuf_append (an insert at the end),    *)
(* mbuf_remove or mbuf_trim, or the part of mg_do_recv that makes room,    *)
(* reads into it and trims.  Memory may be short at each of them.          *)
(***************************************************************************)
EXTENDS Integers, Sequences

CONSTANTS
  Byte, Garbage,
  MaxPiece,  \* of the bytes put in by one call
  MaxOps,    \* calls
  MaxRoom,   \* MBUF_SIZE_MAX_HEADROOM
  IoSize     \* MG_TCP_IO_SIZE: asked for at once, unless recv_mbuf_limit is near

ASSUME MbufAssumption ==
  /\ Garbage \notin Byte
  /\ {MaxPiece, MaxOps, MaxRoom, IoSize} \subseteq Nat \ {0}

VARIABLES
  mbuf,   \* [mem, len]
  bytes,  \* what its users take it to hold
  ops     \* calls made

mbufVars == <<mbuf, bytes, ops>>

Cell == Byte \cup {Garbage}
Pieces == UNION {[1 .. n -> Byte] : n \in 1 .. MaxPiece}
\* What realloc() can do: as asked, only without headroom, nothing.
Memory == {"ample", "tight", "none"}

-----------------------------------------------------------------------------
(* Memory.                                                                 *)

\* Bytes written behind the first to.
Copy(mem, to, new) ==
  [k \in DOMAIN mem |-> IF k \in to + 1 .. to + Len(new) THEN new[k - to] ELSE mem[k]]

\* realloc().
Reallocated(mem, size) ==
  [k \in 1 .. size |-> IF k <= Len(mem) THEN mem[k] ELSE Garbage]

\* mbuf_resize, to grow or to give back; giving back everything cannot fail.
Resize(b, size, memory) ==
  IF (memory # "none" \/ size = 0) /\ (size > Len(b.mem) \/ size >= b.len)
    THEN [b EXCEPT !.mem = Reallocated(b.mem, size)] ELSE b

\* mbuf_trim.
Trim(b, memory) == Resize(b, b.len, memory)

\* Faulty variant of Opened: the new bytes come before the old have moved.
OpenedLate(mem, off, len, new) ==
  LET filled == Copy(mem, off, new)
  IN Copy(filled, off + Len(new), SubSeq(filled, off + 1, len))
\* memmove() of what is behind off, then memcpy().
Opened(mem, off, len, new) ==
  Copy(Copy(mem, off + Len(new), SubSeq(mem, off + 1, len)), off, new)

\* How much is allocated for need bytes.
Generous(need) ==
  LET half == need \div 2 IN need + IF half > MaxRoom THEN MaxRoom ELSE half

\* mbuf_insert.
Insert(b, off, new, memory) ==
  LET need == b.len + Len(new)
      size == IF memory = "tight" THEN need ELSE Generous(need)
      room == IF need <= Len(b.mem) THEN b.mem ELSE Reallocated(b.mem, size)
  IN IF need > Len(b.mem) /\ memory = "none" THEN b
     ELSE [mem |-> Opened(room, off, b.len, new), len |-> need]

\* mbuf_remove.
Drop(b, n) ==
  IF n \in 1 .. b.len
    THEN [mem |-> Copy(b.mem, 0, SubSeq(b.mem, n + 1, b.len)), len |-> b.len - n]
    ELSE b

\* mg_do_recv: some of what has come, as much as there is room for, is read
\* behind what is there.
Receive(b, new) == [mem |-> Copy(b.mem, b.len, new), len |-> b.len + Len(new)]

-----------------------------------------------------------------------------
(* The calls.                                                              *)

MbufInit == mbuf = [mem |-> <<>>, len |-> 0] /\ bytes = <<>> /\ ops = 0

Call == ops < MaxOps /\ ops' = ops + 1

\* mbuf_insert returns how much it has put in.
MbufInsert ==
  /\ Call
  /\ \E off \in 0 .. mbuf.len, new \in Pieces, memory \in Memory :
       LET result == Insert(mbuf, off, new, memory)
           returned == result.len - mbuf.len
       IN /\ mbuf' = result
          /\ bytes' = SubSeq(bytes, 1, off) \o SubSeq(new, 1, returned)
                        \o SubSeq(bytes, off + 1, Len(bytes))

\* Those that remove ask for no more than they see.
MbufRemove ==
  /\ Call
  /\ \E n \in 0 .. mbuf.len :
       /\ mbuf' = Drop(mbuf, n)
       /\ bytes' = SubSeq(bytes, n + 1, Len(bytes))

MbufTrim ==
  /\ Call
  /\ \E memory \in Memory : mbuf' = Trim(mbuf, memory)
  /\ UNCHANGED bytes

\* mg_do_recv, once round its loop, until the handler is called.
MbufReceive ==
  /\ Call
  /\ \E io \in 1 .. IoSize, first, second \in Memory, new \in Pieces :
       LET wanted == mbuf.len + io
           room == IF Len(mbuf.mem) < wanted THEN Resize(mbuf, wanted, first) ELSE mbuf
       IN /\ Len(new) <= Len(room.mem) - mbuf.len
          /\ mbuf' = Trim(Receive(room, new), second)
          /\ bytes' = bytes \o new

MbufNext == MbufInsert \/ MbufRemove \/ MbufTrim \/ MbufReceive
MbufSpec == MbufInit /\ [][MbufNext]_mbufVars

-----------------------------------------------------------------------------
\* A buffer holds what was put in and not removed, in order, and nothing that
\* was never written, however its memory moves, grows and is given back, and
\* whichever allocation fails; len never exceeds size.
BufferHoldsAll ==
  /\ mbuf.len <= Len(mbuf.mem)
  /\ SubSeq(mbuf.mem, 1, mbuf.len) = bytes
================================================================================
