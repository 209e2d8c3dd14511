----------------------------- MODULE SequenceFacts -----------------------------
(***************************************************************************)
(* What the proofs need in several places: induction, carried out with     *)
(* sets of naturals; functions defined by recursion; and sequences joined  *)
(* one after the other.                                                    *)
(***************************************************************************)
EXTENDS Integers, Sequences, SequencesExt, SequenceTheorems,
        WellFoundedInduction, TLAPS

-----------------------------------------------------------------------------
(* Induction and recursion.                                                *)

\* A set of naturals that is not empty has a least member.
LEMMA Smallest ==
  ASSUME NEW S \in SUBSET Nat, S # {}
  PROVE  \E m \in S : \A k \in S : m <= k
<1>1. PICK m \in S : \A k \in S : <<k, m>> \notin OpToRel(<, Nat)
  BY WFMin, NatLessThanWellFounded, Zenon
<1>2. \A k \in S : ~(k < m)
  BY <1>1, Zenon DEF OpToRel
<1>3. \A k \in S : m <= k
  <2>1. S \subseteq Nat /\ m \in Nat
    OBVIOUS
  <2>2. QED
    BY <1>2, <2>1
<1>4. QED
  BY <1>3

\* Induction, for a set.
LEMMA AllNats ==
  ASSUME NEW S, 0 \in S, \A n \in Nat : n \in S => n + 1 \in S
  PROVE  Nat \subseteq S
<1> SUFFICES ASSUME Nat \ S # {} PROVE FALSE
  OBVIOUS
<1>1. PICK m \in Nat \ S : \A k \in Nat \ S : m <= k
  BY Smallest
<1>2. m - 1 \in Nat /\ m - 1 \notin Nat \ S
  BY <1>1
<1>3. QED
  BY <1>1, <1>2

\* f begins with b and goes on by step.
Recursive(f, n, b, step) ==
  f[0] = b /\ \A k \in 1 .. n : f[k] = step[<<k, f[k - 1]>>]

\* A function can be defined by recursion over the first numbers.
LEMMA Recursion ==
  ASSUME NEW n \in Nat, NEW S, NEW b \in S, NEW step \in [(1 .. n) \X S -> S]
  PROVE  \E f \in [0 .. n -> S] : Recursive(f, n, b, step)
<1> DEFINE Def(f, m) == f[0] = b /\ \A k \in 1 .. m : f[k] = step[<<k, f[k - 1]>>]
           Has == {m \in Nat : m <= n => \E f \in [0 .. m -> S] : Def(f, m)}
<1>1. 0 \in Has
  <2> DEFINE f == [i \in 0 .. 0 |-> b]
  <2>1. f \in [0 .. 0 -> S] /\ Def(f, 0)
    OBVIOUS
  <2> HIDE DEF f, Def
  <2>2. QED
    BY <2>1
<1>2. ASSUME NEW m \in Nat, m \in Has PROVE m + 1 \in Has
  <2> SUFFICES ASSUME m + 1 <= n
               PROVE  \E f \in [0 .. (m + 1) -> S] : Def(f, m + 1)
    <3> HIDE DEF Def
    <3>1. QED
      OBVIOUS
  <2>1. PICK g \in [0 .. m -> S] : Def(g, m)
    <3>1. m <= n
      OBVIOUS
    <3> HIDE DEF Def
    <3>2. QED
      BY <1>2, <3>1
  <2> DEFINE v == step[<<m + 1, g[m]>>]
             f == [i \in 0 .. (m + 1) |-> IF i = m + 1 THEN v ELSE g[i]]
  <2>2. v \in S
    <3>1. g[m] \in S /\ m + 1 \in 1 .. n
      BY <2>1
    <3>2. QED
      BY <3>1
  <2>3. f \in [0 .. (m + 1) -> S] /\ f[m + 1] = v /\ \A i \in 0 .. m : f[i] = g[i]
    <3> HIDE DEF v
    <3>1. QED
      BY <2>2
  <2> HIDE DEF f
  <2>4. ASSUME NEW k \in 1 .. (m + 1) PROVE f[k] = step[<<k, f[k - 1]>>]
    <3>1. CASE k = m + 1
      <4>1. k - 1 = m /\ f[m] = g[m]
        BY <2>3, <3>1
      <4>2. QED
        BY <2>3, <3>1, <4>1
    <3>2. CASE k # m + 1
      <4>1. k \in 1 .. m /\ f[k] = g[k] /\ f[k - 1] = g[k - 1]
        BY <2>3, <3>2
      <4>2. QED
        BY <2>1, <4>1
    <3>3. QED
      BY <3>1, <3>2
  <2>5. f[0] = b
    BY <2>1, <2>3
  <2>6. QED
    BY <2>3, <2>4, <2>5
<1>3. n \in Has
  <2> HIDE DEF Has
  <2>1. Nat \subseteq Has
    BY <1>1, <1>2, AllNats
  <2>2. QED
    BY <2>1
<1>4. QED
  <2> HIDE DEF Def
  <2>1. \E f \in [0 .. n -> S] : Def(f, n)
    BY <1>3
  <2>2. QED
    BY <2>1 DEF Def, Recursive

-----------------------------------------------------------------------------
(* Joining sequences.                                                      *)

\* The sequences of s, one after the other.
Joined(g, s, n) == /\ g[1] = s[1]
                   /\ \A i \in 1 .. (n - 1) : g[i + 1] = g[i] \o s[i + 1]
                   /\ g[n] = FlattenSeq(s)

\* A step that only looks at what comes before.
LooksBack(n, S, step) ==
  \A k \in 0 .. n : \A g, h \in [0 .. n -> S] :
    (\A i \in 0 .. k - 1 : g[i] = h[i]) => step[<<k, g>>] = step[<<k, h>>]
Course(f, n, step) == \A k \in 0 .. n : f[k] = step[<<k, f>>]

\* A function defined by recursion on all that comes before exists.
LEMMA CourseRecursion ==
  ASSUME NEW n \in Nat, NEW S, NEW b \in S, NEW step \in [(0 .. n) \X [0 .. n -> S] -> S],
         LooksBack(n, S, step)
  PROVE  \E f \in [0 .. n -> S] : Course(f, n, step)
<1> DEFINE F == [0 .. n -> S]
           first == [i \in 0 .. n |-> b]
           More(k, g) == [i \in 0 .. n |-> IF i = k THEN step[<<k, g>>] ELSE g[i]]
           next == [r \in (1 .. n + 1) \X F |-> More(r[1] - 1, r[2])]
<1>1. first \in F
  OBVIOUS
<1> HIDE DEF F
<1>2. ASSUME NEW k \in 0 .. n, NEW g \in F
      PROVE  /\ step[<<k, g>>] \in S
             /\ More(k, g) \in F
             /\ More(k, g)[k] = step[<<k, g>>]
             /\ \A i \in 0 .. n : i # k => More(k, g)[i] = g[i]
  <2>1. step[<<k, g>>] \in S
    <3>1. <<k, g>> \in (0 .. n) \X F
      OBVIOUS
    <3>2. QED
      BY <3>1 DEF F
  <2>2. \A i \in 0 .. n : g[i] \in S
    BY DEF F
  <2>3. More(k, g) \in F
    BY <2>1, <2>2 DEF F
  <2>4. QED
    BY <2>1, <2>3
<1> HIDE DEF More
<1>3. next \in [(1 .. n + 1) \X F -> F]
  <2>1. \A r \in (1 .. n + 1) \X F : r[1] - 1 \in 0 .. n /\ r[2] \in F
    OBVIOUS
  <2>2. \A r \in (1 .. n + 1) \X F : More(r[1] - 1, r[2]) \in F
    BY <1>2, <2>1
  <2> HIDE DEF F
  <2>3. QED
    BY <2>2
<1>4. PICK h \in [0 .. n + 1 -> F] : Recursive(h, n + 1, first, next)
  <2>1. n + 1 \in Nat
    OBVIOUS
  <2> HIDE DEF F, first, next
  <2>2. QED
    BY <1>1, <1>3, <2>1, Recursion
<1>5. \A k \in 0 .. n : h[k] \in F /\ h[k + 1] = More(k, h[k])
  <2>1. \A k \in 1 .. n + 1 : h[k] = next[<<k, h[k - 1]>>]
    BY <1>4, Zenon DEF Recursive
  <2>2. ASSUME NEW k \in 0 .. n
        PROVE  h[k] \in F /\ h[k + 1] = More(k, h[k])
    <3>1. k \in 0 .. n + 1 /\ k + 1 \in 1 .. n + 1 /\ (k + 1) - 1 = k
      OBVIOUS
    <3> HIDE DEF F
    <3>2. h[k] \in F
      BY <1>4, <3>1
    <3>3. <<k + 1, h[k]>> \in (1 .. n + 1) \X F
      BY <3>1, <3>2
    <3>4. next[<<k + 1, h[k]>>] = More(k, h[k])
      BY <3>1, <3>3
    <3> HIDE DEF next
    <3>5. h[k + 1] = next[<<k + 1, h[(k + 1) - 1]>>]
      BY <2>1, <3>1
    <3>6. QED
      BY <3>1, <3>2, <3>4, <3>5
  <2> HIDE DEF F, next
  <2>3. QED
    BY <2>2
<1> DEFINE f == [i \in 0 .. n |-> h[i + 1][i]]
           Same == {k \in Nat : k <= n + 1 => \A i \in 0 .. k - 1 : h[k][i] = h[i + 1][i]}
<1> HIDE DEF F, next, first
<1>6. Nat \subseteq Same
  <2>1. 0 \in Same
    OBVIOUS
  <2>2. ASSUME NEW k \in Nat, k \in Same PROVE k + 1 \in Same
    <3> SUFFICES ASSUME k + 1 <= n + 1, NEW i \in 0 .. k PROVE h[k + 1][i] = h[i + 1][i]
      OBVIOUS
    <3>1. CASE i = k
      BY <3>1
    <3>2. CASE i # k
      <4>1. k \in 0 .. n /\ i \in 0 .. n /\ i \in 0 .. k - 1 /\ k <= n + 1
        BY <3>2
      <4>2. h[k] \in F /\ h[k + 1] = More(k, h[k])
        BY <1>5, <4>1
      <4>3. h[k + 1][i] = h[k][i]
        <5>1. \A g \in F : \A x \in 0 .. n : x # k => More(k, g)[x] = g[x]
          BY <1>2, <4>1
        <5>2. QED
          BY <3>2, <4>1, <4>2, <5>1
      <4>4. h[k][i] = h[i + 1][i]
        BY <2>2, <4>1
      <4>5. QED
        BY <4>3, <4>4
    <3>3. QED
      BY <3>1, <3>2
  <2> HIDE DEF Same
  <2>3. QED
    BY <2>1, <2>2, AllNats
<1>7. ASSUME NEW k \in 0 .. n
      PROVE  /\ h[k] \in F /\ h[k + 1][k] = step[<<k, h[k]>>] /\ step[<<k, h[k]>>] \in S
             /\ \A i \in 0 .. k - 1 : h[k][i] = f[i]
  <2>1. k \in Nat /\ k <= n + 1
    OBVIOUS
  <2>2. h[k] \in F /\ h[k + 1] = More(k, h[k])
    BY <1>5
  <2>3. h[k + 1][k] = step[<<k, h[k]>>] /\ step[<<k, h[k]>>] \in S
    <3>1. \A g \in F : step[<<k, g>>] \in S
      BY <1>2
    <3>2. \A g \in F : More(k, g)[k] = step[<<k, g>>]
      BY <1>2
    <3>3. QED
      BY <2>2, <3>1, <3>2
  <2>4. ASSUME NEW i \in 0 .. k - 1 PROVE h[k][i] = f[i]
    <3>1. k \in Same
      BY <1>6, <2>1
    <3>2. i \in 0 .. n
      BY <2>1
    <3>3. QED
      BY <2>1, <3>1, <3>2
  <2>5. QED
    BY <2>2, <2>3, <2>4
<1>8. f \in F
  BY <1>7 DEF F
<1>9. ASSUME NEW k \in 0 .. n PROVE f[k] = step[<<k, f>>]
  <2>1. f[k] = step[<<k, h[k]>>]
    BY <1>7
  <2>2. h[k] \in F /\ \A i \in 0 .. k - 1 : h[k][i] = f[i]
    BY <1>7
  <2> HIDE DEF f
  <2>3. step[<<k, h[k]>>] = step[<<k, f>>]
    BY <1>8, <2>2 DEF F, LooksBack
  <2>4. QED
    BY <2>1, <2>3
<1>10. QED
  <2> HIDE DEF f
  <2>1. QED
    BY <1>8, <1>9 DEF F, Course

\* FlattenSeq joins them.
LEMMA Flattened ==
  ASSUME NEW S, NEW n \in Nat \ {0}, NEW s \in [1 .. n -> Seq(S)]
  PROVE  \E g \in [1 .. n -> Seq(S)] : Joined(g, s, n)
<1> DEFINE Def(g, m) ==
             \A i \in 1 .. m : g[i] = IF i = 1 THEN s[i] ELSE g[i - 1] \o s[i]
           Chains(m) == {g \in [1 .. m -> Seq(S)] : Def(g, m)}
           Has == {m \in Nat : m <= n => Chains(m) # {}}
<1>1. 0 \in Has
  <2> DEFINE e == [i \in 1 .. 0 |-> <<>>]
  <2>1. \A i : i \notin 1 .. 0
    OBVIOUS
  <2>2. e \in [1 .. 0 -> Seq(S)]
    BY <2>1
  <2> HIDE DEF e
  <2>3. e \in Chains(0)
    BY <2>1, <2>2
  <2> HIDE DEF Chains
  <2>4. QED
    BY <2>3
<1>2. ASSUME NEW m \in Nat, m \in Has PROVE m + 1 \in Has
  <2> SUFFICES ASSUME m + 1 <= n PROVE Chains(m + 1) # {}
    <3> HIDE DEF Chains
    <3>1. QED
      OBVIOUS
  <2>1. PICK g \in [1 .. m -> Seq(S)] : Def(g, m)
    <3>1. Chains(m) # {}
      <4> HIDE DEF Chains
      <4>1. QED
        BY <1>2
    <3>2. QED
      BY <3>1
  <2> DEFINE v == IF m = 0 THEN s[1] ELSE g[m] \o s[m + 1]
             h == [i \in 1 .. (m + 1) |-> IF i = m + 1 THEN v ELSE g[i]]
  <2>2. v \in Seq(S)
    <3>1. CASE m = 0
      BY <3>1
    <3>2. CASE m # 0
      <4>1. g[m] \in Seq(S) /\ s[m + 1] \in Seq(S)
        BY <3>2
      <4>2. QED
        BY <3>2, <4>1, ConcatProperties
    <3>3. QED
      BY <3>1, <3>2
  <2>3. h \in [1 .. (m + 1) -> Seq(S)]
    <3> HIDE DEF v
    <3>1. QED
      BY <2>1, <2>2
  <2>4. Def(h, m + 1)
    <3> SUFFICES ASSUME NEW i \in 1 .. (m + 1)
                 PROVE  h[i] = IF i = 1 THEN s[i] ELSE h[i - 1] \o s[i]
      OBVIOUS
    <3>1. CASE i = m + 1
      <4>1. h[i] = v /\ (m # 0 => h[i - 1] = g[m])
        BY <3>1
      <4>2. (i = 1) = (m = 0)
        BY <3>1
      <4> HIDE DEF h
      <4>3. QED
        BY <3>1, <4>1, <4>2
    <3>2. CASE i # m + 1
      <4>1. i \in 1 .. m /\ (i # 1 => i - 1 \in 1 .. m)
        BY <3>2
      <4>2. g[i] = IF i = 1 THEN s[i] ELSE g[i - 1] \o s[i]
        BY <2>1, <4>1
      <4>3. \A k \in 1 .. m : h[k] = g[k]
        <5> HIDE DEF v
        <5>1. QED
          OBVIOUS
      <4> HIDE DEF h
      <4>4. QED
        BY <4>1, <4>2, <4>3
    <3>3. QED
      BY <3>1, <3>2
  <2> HIDE DEF h
  <2>5. QED
    BY <2>3, <2>4
<1>3. n \in Has
  <2> HIDE DEF Has
  <2>1. Nat \subseteq Has
    BY <1>1, <1>2, AllNats
  <2>2. QED
    BY <2>1
<1>4. PICK g \in [1 .. n -> Seq(S)] : Def(g, n)
  <2>1. n \in Nat /\ n <= n
    OBVIOUS
  <2>2. Chains(n) # {}
    <3> HIDE DEF Chains
    <3>1. QED
      BY <1>3, <2>1
  <2>3. QED
    BY <2>2
<1>5. g[1] = s[1] /\ \A i \in 1 .. (n - 1) : g[i + 1] = g[i] \o s[i + 1]
  <2>1. 1 \in 1 .. n
    OBVIOUS
  <2>2. ASSUME NEW i \in 1 .. (n - 1) PROVE g[i + 1] = g[i] \o s[i + 1]
    <3>1. i + 1 \in 1 .. n /\ i + 1 # 1 /\ (i + 1) - 1 = i
      OBVIOUS
    <3>2. QED
      BY <1>4, <3>1
  <2>3. QED
    BY <1>4, <2>1, <2>2
<1>6. g[n] = FlattenSeq(s)
  <2> DEFINE F(f) == f = [i \in 1 .. n |-> IF i = 1 THEN s[i] ELSE f[i - 1] \o s[i]]
             c == CHOOSE f : F(f)
  <2>1. Len(s) = n
    OBVIOUS
  <2>2. F(g)
    BY <1>4
  <2>3. F(c)
    <3> HIDE DEF F
    <3>1. QED
      BY <2>2
  <2>4. FlattenSeq(s) = c[n]
    BY <2>1 DEF FlattenSeq
  <2> DEFINE Same == {m \in Nat : m \in 1 .. n => c[m] = g[m]}
  <2>5. 0 \in Same
    OBVIOUS
  <2>6. ASSUME NEW m \in Nat, m \in Same PROVE m + 1 \in Same
    <3> SUFFICES ASSUME m + 1 \in 1 .. n PROVE c[m + 1] = g[m + 1]
      OBVIOUS
    <3> HIDE DEF c
    <3>0. (m + 1) - 1 = m
      OBVIOUS
    <3>1. c[m + 1] = IF m + 1 = 1 THEN s[m + 1] ELSE c[m] \o s[m + 1]
      BY <2>3, <3>0
    <3>2. g[m + 1] = IF m + 1 = 1 THEN s[m + 1] ELSE g[m] \o s[m + 1]
      BY <1>4, <3>0
    <3>3. m # 0 => c[m] = g[m]
      BY <2>6
    <3>4. QED
      BY <3>1, <3>2, <3>3
  <2>7. n \in Same
    <3> HIDE DEF Same
    <3>1. QED
      BY <2>5, <2>6, AllNats
  <2>8. QED
    BY <2>4, <2>7
<1>7. QED
  BY <1>5, <1>6 DEF Joined

\* What joining one sequence more adds.
LEMMA FlattenAppend ==
  ASSUME NEW S, NEW s \in Seq(Seq(S)), NEW x \in Seq(S)
  PROVE  /\ FlattenSeq(s) \in Seq(S)
         /\ FlattenSeq(Append(s, x)) = FlattenSeq(s) \o x
<1> DEFINE n == Len(s)
           t == Append(s, x)
<1>1. n \in Nat /\ s \in [1 .. n -> Seq(S)]
  OBVIOUS
<1>2. /\ t \in [1 .. (n + 1) -> Seq(S)] /\ t[n + 1] = x
      /\ \A i \in 1 .. n : t[i] = s[i]
  <2> DEFINE T == Seq(S)
  <2>1. /\ t \in Seq(T) /\ Len(t) = n + 1 /\ t[n + 1] = x
        /\ \A i \in 1 .. n : t[i] = s[i]
    BY AppendProperties
  <2> HIDE DEF t, n, T
  <2>2. QED
    BY <1>1, <2>1
<1> HIDE DEF n, t
<1>3. n + 1 \in Nat \ {0}
  BY <1>1
<1>4. PICK h \in [1 .. (n + 1) -> Seq(S)] : Joined(h, t, n + 1)
  BY <1>2, <1>3, Flattened
<1>5. /\ h[1] = t[1] /\ h[n + 1] = FlattenSeq(t)
      /\ \A i \in 1 .. n : h[i + 1] = h[i] \o t[i + 1]
  <2>1. (n + 1) - 1 = n
    BY <1>1
  <2>2. QED
    BY <1>4, <2>1 DEF Joined
<1>6. CASE n = 0
  <2>1. FlattenSeq(s) = <<>>
    BY <1>6 DEF FlattenSeq, n
  <2>2. FlattenSeq(t) = x
    BY <1>2, <1>5, <1>6
  <2>3. QED
    BY <2>1, <2>2, ConcatEmptySeq DEF t
<1>7. CASE n # 0
  <2>1. n \in Nat \ {0}
    BY <1>1, <1>7
  <2>2. PICK g \in [1 .. n -> Seq(S)] : Joined(g, s, n)
    BY <1>1, <2>1, Flattened
  <2>3. /\ g[1] = s[1] /\ g[n] = FlattenSeq(s)
        /\ \A i \in 1 .. (n - 1) : g[i + 1] = g[i] \o s[i + 1]
    BY <2>2 DEF Joined
  <2> DEFINE Same == {m \in Nat : m \in 1 .. n => g[m] = h[m]}
  <2>4. 0 \in Same
    OBVIOUS
  <2>5. ASSUME NEW m \in Nat, m \in Same PROVE m + 1 \in Same
    <3> SUFFICES ASSUME m + 1 \in 1 .. n PROVE g[m + 1] = h[m + 1]
      OBVIOUS
    <3>1. CASE m = 0
      <4>1. 1 \in 1 .. n
        BY <2>1
      <4>2. QED
        BY <1>2, <1>5, <2>3, <3>1, <4>1
    <3>2. CASE m # 0
      <4>1. m \in 1 .. (n - 1) /\ m \in 1 .. n
        BY <2>1, <3>2
      <4>2. g[m] = h[m]
        BY <2>5, <4>1
      <4>3. t[m + 1] = s[m + 1]
        BY <1>2
      <4>4. QED
        BY <1>5, <2>3, <4>1, <4>2, <4>3
    <3>3. QED
      BY <3>1, <3>2
  <2>6. n \in Same
    <3> HIDE DEF Same
    <3>1. QED
      BY <1>1, <2>4, <2>5, AllNats
  <2>7. n \in 1 .. n
    BY <2>1
  <2>8. h[n + 1] = h[n] \o x /\ h[n] = g[n] /\ g[n] \in Seq(S)
    BY <1>2, <1>5, <2>2, <2>6, <2>7
  <2>9. QED
    BY <1>5, <2>3, <2>8 DEF t
<1>8. QED
  BY <1>6, <1>7
================================================================================
