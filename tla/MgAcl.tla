--------------------------------- MODULE MgAcl ---------------------------------
(***************************************************************************)
(* Address lists (mg_check_ip_acl): "-0.0.0.0/0,+10.0.0.0/8".  An address  *)
(* is a word of Bits bits, the first of them the most significant; an      *)
(* entry is a sign, a network and the length of a mask, which is -1 if the *)
(* entry does not parse.  A step is the call or a round of its loop.       *)
(***************************************************************************)
EXTENDS Integers, Sequences, FiniteSetsExt

CONSTANTS
  Bits,       \* of an address: 32
  MaxEntries  \* of a list

ASSUME MgAclAssumption == Bits \in Nat \ {0} /\ MaxEntries \in Nat

VARIABLES
  acl,     \* the list
  ip,      \* remote_ip
  at,      \* entries checked; -1 before the call
  allowed  \* "+", "-"; "malformed" is -1, returned at once

aclVars == <<acl, ip, at, allowed>>

Word == [1 .. Bits -> {0, 1}]
Entries == [sign : {"+", "-"}, net : Word, slash : -1 .. Bits]
Lists == UNION {[1 .. n -> Entries] : n \in 0 .. MaxEntries}

-----------------------------------------------------------------------------
(* Words.                                                                  *)

Zero == [i \in 1 .. Bits |-> 0]
Ones == [i \in 1 .. Bits |-> 1]
\* w << n, as C has it for n < Bits.
Shifted(w, n) == [i \in 1 .. Bits |-> IF i + n <= Bits THEN w[i + n] ELSE 0]
And(v, w) == [i \in 1 .. Bits |-> IF v[i] = 1 THEN w[i] ELSE 0]

\* Faulty variant of Mask: without the case of a mask of no bits, for which
\* the processor shifts by nothing.
MaskShifted(slash) == Shifted(Ones, (Bits - slash) % Bits)
\* parse_net.
Mask(slash) == IF slash = 0 THEN Zero ELSE Shifted(Ones, Bits - slash)

-----------------------------------------------------------------------------
AclInit == acl = <<>> /\ ip = Zero /\ at = -1 /\ allowed = "-"

\* Any list denies by default.
CheckIpAcl ==
  /\ at = -1
  /\ \E list \in Lists, addr \in Word :
       /\ acl' = list /\ ip' = addr
       /\ allowed' = IF list = <<>> THEN "+" ELSE "-"
  /\ at' = 0

CheckEntry ==
  /\ at \in 0 .. Len(acl) - 1 /\ allowed # "malformed"
  /\ at' = at + 1
  /\ LET entry == acl[at + 1]
     IN allowed' = IF entry.slash = -1 THEN "malformed"
                   ELSE IF entry.net = And(ip, Mask(entry.slash)) THEN entry.sign
                   ELSE allowed
  /\ UNCHANGED <<acl, ip>>

AclNext == CheckIpAcl \/ CheckEntry
AclSpec == AclInit /\ [][AclNext]_aclVars

-----------------------------------------------------------------------------
\* An entry is for the addresses that begin like its network, and for none if
\* its network has bits behind that.
Covers(entry, addr) ==
  /\ \A i \in 1 .. entry.slash : entry.net[i] = addr[i]
  /\ \A i \in entry.slash + 1 .. Bits : entry.net[i] = 0

\* mg_check_ip_acl lets the last entry decide that covers the address, masks
\* of 0 and of all bits included; where there is none only the empty list
\* allows; and a list it cannot read allows nothing.
LastMatchWins ==
  at >= 0 =>
    LET checked == 1 .. at
        covering == {k \in checked : Covers(acl[k], ip)}
    IN IF \E k \in checked : acl[k].slash = -1 THEN allowed = "malformed"
       ELSE IF covering = {} THEN allowed = (IF acl = <<>> THEN "+" ELSE "-")
       ELSE allowed = acl[Max(covering)].sign
================================================================================
