--------------------------------- MODULE MgUri ---------------------------------
(***************************************************************************)
(* URI paths normalised (mg_normalize_uri_path) as serving a request does: *)
(* in and out are the same memory, which is read at s and written at d.    *)
(* Beside it an ideal reader takes the path component by component, puts   *)
(* each on a stack, and for ".." takes the uppermost off again.            *)
(*                                                                         *)
(* A step is the call, a round of its loop or the return.                  *)
(***************************************************************************)
EXTENDS Integers, Sequences, SequencesExt

CONSTANTS
  Char,    \* the slash and the dot among them
  MaxPath

ASSUME MgUriAssumption == {"/", "."} \subseteq Char /\ MaxPath \in Nat

VARIABLES
  loop,     \* where the function is
  path,     \* the memory
  read,     \* how far it has been read (s)
  written,  \* how far it is written (d)
  out,      \* what is returned
  rest,     \* the ideal reader: what it has still to read,
  stack     \* and the components it holds

uriVars == <<loop, path, read, written, out, rest, stack>>

Paths == UNION {[1 .. n -> Char] : n \in 0 .. MaxPath}

-----------------------------------------------------------------------------
\* parse_uri_component: where the component behind the first n bytes ends,
\* with its slash.
ComponentEnd(p, n) ==
  LET slashes == {k \in n + 1 .. Len(p) : p[k] = "/"}
  IN IF slashes = {} THEN Len(p) ELSE Min(slashes)

\* The same without its slash.
Name(c) == IF c # <<>> /\ Last(c) = "/" THEN Front(c) ELSE c

\* Faulty variant of Backtrack: the slash behind the component stays.
BacktrackSlash(p, n) == Max({0} \cup {k \in 1 .. n : p[k] = "/"})
\* Back to the slash before the last of n bytes, but not over the first.
Backtrack(p, n) ==
  LET e == IF n > 1 /\ p[n] = "/" THEN n - 1 ELSE n
  IN Max({0} \cup {k \in 1 .. e : p[k] = "/"})

\* memmove(d, s, next - s).
Moved(p, to, from, next) ==
  [k \in DOMAIN p |-> IF k \in to + 1 .. to + next - from
                        THEN p[k - to + from] ELSE p[k]]

-----------------------------------------------------------------------------
(* The ideal reader.                                                       *)

\* The first component of what is left, with its slash.
First(r) == SubSeq(r, 1, Min({Len(r)} \cup {k \in DOMAIN r : r[k] = "/"}))

\* What becomes of the components c follows: "/" is never taken off.
Resolve(components, c) ==
  CASE Name(c) = <<".">> -> components
    [] Name(c) = <<".", ".">> ->
         IF Len(components) > 1 THEN Front(components) ELSE components
    [] OTHER -> Append(components, c)

-----------------------------------------------------------------------------
UriInit == /\ loop = "none" /\ path = <<>> /\ read = 0 /\ written = 0
           /\ out = <<>> /\ rest = <<>> /\ stack = <<>>

NormalizeUriPath ==
  /\ loop = "none"
  /\ \E p \in Paths :
       /\ path' = p /\ rest' = p
       /\ loop' = IF p = <<>> \/ p[1] # "/" THEN "refused" ELSE "loop"
  /\ UNCHANGED <<read, written, out, stack>>

Component ==
  /\ loop = "loop" /\ read < Len(path)
  /\ LET next == ComponentEnd(path, read)
         name == Name(SubSeq(path, read + 1, next))
     IN /\ read' = next
        /\ \/ name = <<".">> /\ UNCHANGED <<path, written>>
           \/ /\ name = <<".", ".">>
              /\ written' = Backtrack(path, written) /\ UNCHANGED path
           \/ /\ name \notin {<<".">>, <<".", ".">>}
              /\ path' = Moved(path, written, read, next)
              /\ written' = written + next - read
  /\ stack' = Resolve(stack, First(rest))
  /\ rest' = SubSeq(rest, Len(First(rest)) + 1, Len(rest))
  /\ UNCHANGED <<loop, out>>

Return ==
  /\ loop = "loop" /\ read = Len(path)
  /\ loop' = "done"
  /\ path' = IF written = 0 THEN [path EXCEPT ![1] = "/"] ELSE path
  /\ written' = IF written = 0 THEN 1 ELSE written
  /\ out' = SubSeq(path', 1, written')
  /\ UNCHANGED <<read, rest, stack>>

UriNext == NormalizeUriPath \/ Component \/ Return
UriSpec == UriInit /\ [][UriNext]_uriVars

-----------------------------------------------------------------------------
\* mg_normalize_uri_path, reading and writing the same memory, resolves "."
\* and ".." as one does component by component on a stack: it never writes
\* over what it has yet to read, never goes above the root, and has read all
\* when it returns.
PathIsResolved ==
  /\ loop = "loop" => /\ SubSeq(path, read + 1, Len(path)) = rest
                      /\ SubSeq(path, 1, written) = FlattenSeq(stack)
  /\ loop = "done" => rest = <<>> /\ out = FlattenSeq(stack)
================================================================================
