------------------------------- MODULE MgNames -------------------------------
(***************************************************************************)
(* Names in DNS messages: written label by label (mg_dns_encode_name_s)    *)
(* and read through pointers (mg_dns_uncompress_name).  A byte is below    *)
(* 4 * Quarter: a count of letters is in the first quarter, the first of a *)
(* pointer's two bytes in the last.  What a message holds but the name is  *)
(* any bytes; what they point to is theirs.                                *)
(*                                                                         *)
(* A step is a call or a round of the loop of either function.             *)
(***************************************************************************)
EXTENDS Integers, Sequences, SequencesExt

CONSTANTS
  Quarter,  \* 64
  Dot,      \* '.'
  Hops,     \* pointers followed: 15
  Sent, Sizes, MaxMsg  \* bytes and sizes of the destination tried

ASSUME MgNamesAssumption ==
  /\ Quarter \in Nat \ {0} /\ Dot \in 0 .. 4 * Quarter - 1
  /\ Sent \subseteq 0 .. 4 * Quarter - 1
  /\ {Hops, MaxMsg} \subseteq Nat /\ Sizes \subseteq Nat

VARIABLES
  phase,   \* where the functions are
  msg,     \* the bytes of the message
  text,    \* the name encoded into it, with a dot behind each label,
  begins,  \* and where it begins (0: nowhere)
  left,    \* of it, still to be encoded
  data,    \* the byte to be read next
  dst,     \* what has been written; at the end, what is returned
  dstLen,  \* the room for it
  hops,    \* pointers followed
  met,     \* how much had been written on coming to the name (-1: not yet)
  rounds

namesVars == <<phase, msg, text, begins, left, data, dst, dstLen, hops, met, rounds>>

Strings(S, n) == {<<>>} \cup UNION {[1 .. k -> S] : k \in 1 .. n}

-----------------------------------------------------------------------------
\* How many letters of a name stand between the first k and a dot or the end.
LabelLen(t, k) ==
  LET dots == {j \in k + 1 .. Len(t) : t[j] = Dot}
  IN IF dots = {} THEN Len(t) - k ELSE Min(dots) - 1 - k

\* Where a pointer leads.
Offset(m, k) == (m[k] - 3 * Quarter) * 4 * Quarter + m[k + 1]

\* Faulty variant of Hopped: pointers are not counted.
HoppedNever(n) == n
Hopped(n) == n + 1

\* As much of a label as there is room for.
Chunk(n, leeway) == IF n > leeway THEN leeway ELSE n

-----------------------------------------------------------------------------
NamesInit ==
  /\ phase = "none" /\ msg = <<>> /\ text = <<>> /\ begins = 0 /\ left = <<>>
  /\ data = 0 /\ dst = <<>> /\ dstLen = 0 /\ hops = 0 /\ met = -1 /\ rounds = 0

reader == <<data, dst, dstLen, hops, met, rounds>>

EncodeName ==
  /\ phase = "none"
  /\ \E before \in Strings(Sent, MaxMsg) :
       \E t \in Strings(Sent \cup {Dot}, MaxMsg - Len(before)) :
         /\ msg' = before /\ begins' = Len(before) + 1 /\ left' = t
         /\ text' = IF t # <<>> /\ Last(t) = Dot THEN t ELSE Append(t, Dot)
  /\ phase' = "encode"
  /\ UNCHANGED reader

EncodeLabel ==
  /\ phase = "encode"
  /\ LET n == LabelLen(left, 0)
         behind == SubSeq(left, n + 2, Len(left))
     IN \/ n >= 2 * Quarter /\ phase' = "failed" /\ UNCHANGED <<msg, left>>
        \/ /\ n < 2 * Quarter
           /\ msg' = msg \o <<n>> \o SubSeq(left, 1, n)
                         \o IF behind = <<>> THEN <<0>> ELSE <<>>
           /\ left' = behind
           /\ phase' = IF behind = <<>> THEN "encoded" ELSE "encode"
  /\ UNCHANGED <<text, begins, reader>>

\* mg_dns_uncompress_name of any name in the message, or behind it.
Uncompress ==
  /\ phase \in {"none", "encoded"}
  /\ \E behind \in Strings(Sent, MaxMsg - Len(msg)) :
       /\ msg' = msg \o behind
       /\ \E p \in 1 .. Len(msg') + 1 :
            /\ data' = p /\ met' = IF p = begins THEN 0 ELSE -1
            /\ phase' = IF p > Len(msg') THEN "done" ELSE "read"
  /\ dstLen' \in Sizes
  /\ UNCHANGED <<text, begins, left, dst, hops, rounds>>

Reading == phase = "read" /\ UNCHANGED <<msg, text, begins, left, dstLen>>

\* Returned: what there is, without the dot at its end, or nothing.
EndOfName ==
  /\ Reading /\ msg[data] = 0
  /\ phase' = "done" /\ dst' = IF dst = <<>> THEN <<>> ELSE Front(dst)
  /\ UNCHANGED <<data, hops, met, rounds>>
Refuse ==
  /\ Reading /\ msg[data] # 0
  /\ \/ data = Len(msg)
     \/ /\ msg[data] >= 3 * Quarter /\ data < Len(msg)
        /\ Offset(msg, data) >= Len(msg) \/ Hopped(hops) > Hops
     \/ msg[data] \in Quarter .. 3 * Quarter - 1
     \/ /\ msg[data] < Quarter
        /\ data + Chunk(msg[data], dstLen - Len(dst)) >= Len(msg)
  /\ phase' = "done" /\ dst' = <<>>
  /\ UNCHANGED <<data, hops, met, rounds>>

\* The next round.
Goto(p) ==
  /\ data' = p /\ phase' = "read" /\ rounds' = rounds + 1
  /\ met' = IF met = -1 /\ p = begins THEN Len(dst') ELSE met

FollowPointer ==
  /\ Reading /\ msg[data] >= 3 * Quarter /\ data < Len(msg)
  /\ Offset(msg, data) < Len(msg) /\ Hopped(hops) <= Hops
  /\ hops' = Hopped(hops) /\ UNCHANGED dst
  /\ Goto(Offset(msg, data) + 1)
CopyLabel ==
  /\ Reading /\ msg[data] \in 1 .. Quarter - 1
  /\ LET n == Chunk(msg[data], dstLen - Len(dst))
         more == dst \o SubSeq(msg, data + 1, data + n)
     IN /\ data + n < Len(msg)
        /\ \/ /\ Len(more) = dstLen /\ dst' = more /\ phase' = "done"
              /\ UNCHANGED <<data, met, rounds>>
           \/ /\ Len(more) # dstLen /\ dst' = Append(more, Dot)
              /\ Goto(data + n + 1)
  /\ UNCHANGED hops

NamesNext == EncodeName \/ EncodeLabel \/ Uncompress
               \/ EndOfName \/ Refuse \/ FollowPointer \/ CopyLabel
NamesSpec == NamesInit /\ [][NamesNext]_namesVars

-----------------------------------------------------------------------------
\* Each label of a name has letters, and no more than a count can say.
Readable(t) ==
  \A k \in 0 .. Len(t) - 1 :
    k = 0 \/ t[k] = Dot => LabelLen(t, k) \in 1 .. Quarter - 1

\* mg_dns_uncompress_name reads and writes only where it may, and goes round
\* its loop a bounded number of times wherever the pointers of a message lead.
\* When it comes to a name as mg_dns_encode_name_s writes it, straight or by
\* whatever pointers and labels, it goes on to spell that name, cut to the
\* room there is.
NamesAreSpelled ==
  /\ phase = "read" => data \in DOMAIN msg
  /\ Len(dst) <= dstLen /\ 2 * rounds <= 2 * Hops + dstLen
  /\ phase = "done" /\ met >= 0 /\ Readable(text) =>
       /\ Len(dst) = IF met + Len(text) - 1 < dstLen THEN met + Len(text) - 1 ELSE dstLen
       /\ \A k \in 1 .. Len(dst) - met : dst[met + k] = text[k]
================================================================================
