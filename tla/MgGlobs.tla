------------------------------- MODULE MgGlobs -------------------------------
(***************************************************************************)
(* Glob patterns (mg_match_prefix_n): * is any text without a slash, **    *)
(* any text, ? one character, $ the end; | stands between alternatives     *)
(* (and so does the comma).                                                *)
(*                                                                         *)
(* Characters stand for classes of characters: case makes no difference.   *)
(***************************************************************************)
EXTENDS Integers, Sequences, SequencesExt

CONSTANTS
  Letters,             \* what texts are made of
  MaxPattern, MaxText  \* lengths tried

ASSUME MgGlobsAssumption == {MaxPattern, MaxText} \subseteq Nat

VARIABLES
  pattern, str,  \* the arguments of mg_match_prefix_n
  matched        \* what it returns (-1: it has not been called)

globVars == <<pattern, str, matched>>

Texts(S, n) == {<<>>} \cup UNION {[1 .. k -> S] : k \in 1 .. n}

-----------------------------------------------------------------------------
\* The next character of a pattern with n characters left.
NextOf(q, n) == q[Len(q) - n + 1]

\* A star may be followed by another.
Doubled(q, n) == n > 1 /\ NextOf(q, n - 1) = "*"
\* What is left behind it, and whether that says nothing.
LeftBehind(q, n) == IF Doubled(q, n) THEN n - 2 ELSE n - 1
Nothing(q, n) == n = 0 \/ (n = 1 /\ NextOf(q, 1) = "$")

\* How far a star reaches behind the first j characters.
Run(s, j, doubled) ==
  LET slashes == {k \in j + 1 .. Len(s) : s[k] = "/"}
  IN IF doubled \/ slashes = {} THEN Len(s) - j ELSE Min(slashes) - 1 - j

\* Faulty variant of Tries: a star takes all it can, and no less.
TriesMost(most) == {most}
\* The lengths a star may have.
Tries(most) == 0 .. most
\* Those behind which the rest of the pattern matches.
Hits(q, s, n, j, ends) ==
  {l \in Tries(Run(s, j, Doubled(q, n))) : ends[LeftBehind(q, n)][j + l] > j + l}

\* Where the loop ends that has n characters of the pattern left and has read
\* j of the text (-1: in no match), going by where it ends with fewer left.
\* For what is behind a star the function calls itself.
Round(q, s, n, j, ends) ==
  IF n = 0 THEN j
  ELSE IF j < Len(s) /\ NextOf(q, n) = "*"
    THEN IF Nothing(q, LeftBehind(q, n)) THEN j + Run(s, j, Doubled(q, n))
         ELSE LET hits == Hits(q, s, n, j, ends)
              IN IF hits = {} THEN -1 ELSE ends[LeftBehind(q, n)][j + Max(hits)]
  ELSE IF j < Len(s) /\ NextOf(q, n) \in {"?", s[j + 1]} THEN ends[n - 1][j + 1]
  ELSE IF NextOf(q, n) = "$" /\ j = Len(s) THEN j ELSE -1
LoopEnds(q, s) ==
  LET ends[n \in 0 .. Len(q)] == [j \in 0 .. Len(s) |-> Round(q, s, n, j, ends)]
  IN ends

\* The alternatives of a pattern begin at its beginning and behind the bars.
Begins(p) == {0} \cup {b \in 1 .. Len(p) : p[b] = "|"}
Alternative(p, b) ==
  SubSeq(p, b + 1, Min({Len(p) + 1} \cup {k \in b + 1 .. Len(p) : p[k] = "|"}) - 1)

\* What a call without alternatives returns; the first that finds a match
\* decides.
MatchOne(q, s) == Max({0, LoopEnds(q, s)[Len(q)][0]})
MatchPrefix(p, s) ==
  LET hits == {b \in Begins(p) : MatchOne(Alternative(p, b), s) > 0}
  IN IF hits = {} THEN 0 ELSE MatchOne(Alternative(p, Min(hits)), s)

-----------------------------------------------------------------------------
GlobInit == pattern = <<>> /\ str = <<>> /\ matched = -1

Match ==
  /\ matched = -1
  /\ pattern' \in Texts(Letters \cup {"?", "*", "$", "|"}, MaxPattern)
  /\ str' \in Texts(Letters, MaxText)
  /\ matched' = MatchPrefix(pattern', str')

GlobSpec == GlobInit /\ [][Match]_globVars

-----------------------------------------------------------------------------
(* What a pattern means.                                                   *)

\* The k-th character of a pattern may stand for the text between a and b; a
\* ? for one character that is not a slash.  A $ behind a star says nothing.
StandsFor(q, s, k, a, b) ==
  LET behindStar == k > 1 /\ q[k - 1] = "*"
      double == behindStar \/ (k < Len(q) /\ q[k + 1] = "*")
  IN \/ q[k] = "*" /\ a <= b /\ (double \/ \A i \in a + 1 .. b : s[i] # "/")
     \/ q[k] # "*" /\ b = a + 1 /\ (q[k] = s[b] \/ (q[k] = "?" /\ s[b] # "/"))
     \/ q[k] = "$" /\ b = a /\ (behindStar \/ b = Len(s))

\* Where the part of the text ends that each of a pattern's characters
\* stands for.
Cuts(q, s) ==
  {c \in [1 .. Len(q) -> 0 .. Len(s)] :
     \A k \in 1 .. Len(q) :
       StandsFor(q, s, k, IF k = 1 THEN 0 ELSE c[k - 1], c[k])}
\* The lengths of the beginnings of a text that a pattern describes.
Described(q, s) == {IF q = <<>> THEN 0 ELSE c[Len(q)] : c \in Cuts(q, s)}
Meant(p, s) == UNION {Described(Alternative(p, b), s) : b \in Begins(p)}

\* A $ ends an alternative, and two stars are not followed by a third.
Sensible(p) ==
  /\ \A k \in 1 .. Len(p) - 1 : p[k] = "$" => p[k + 1] = "|"
  /\ \A k \in 1 .. Len(p) - 2 : ~(p[k] = "*" /\ p[k + 1] = "*" /\ p[k + 2] = "*")

\* mg_match_prefix_n returns the length of a beginning of the text that one
\* of the alternatives describes, or 0, as long as no ? meets a slash (which
\* it takes, against mongoose.h); and it finds one, by backtracking, where
\* there is one that leaves some of the text, or where the pattern has no
\* star.  (At the end of the text a star no longer matches, although it may
\* stand for nothing: a* does not match a, against mongoose.h.)
MatchesWhatIsMeant ==
  matched # -1 /\ Sensible(pattern) =>
    /\ matched > 0 =>
         matched \in Meant(pattern, str) \/ (Contains(pattern, "?") /\ Contains(str, "/"))
    /\ (\E n \in Meant(pattern, str) :
          n \in 1 .. Len(str) /\ (n < Len(str) \/ ~Contains(pattern, "*"))) => matched > 0
================================================================================
