-------------------------------- MODULE MgSsi --------------------------------
(***************************************************************************)
(* Pages with directives (mg_send_ssi_file): a page is read byte by byte   *)
(* into a buffer that text and tags share.  <!--# opens a directive, -->   *)
(* closes it.  The byte behind the opening stands for "include" and the    *)
(* file it names: a page is expanded in turn (mg_do_ssi_include calls      *)
(* mg_send_ssi_file), any other file is sent as it is; a directive that is *)
(* unknown is passed over in silence.  Behind a tag that was too large the *)
(* code may look at the byte before its buffer, taken to be no dash.       *)
(*                                                                         *)
(* A step is a byte read, or what is left to do at a page's end.           *)
(***************************************************************************)
EXTENDS Integers, Sequences, SequencesExt

CONSTANTS
  Ssi, Plain,  \* the files there are: those that match ssi_pattern, others
  Letter,      \* what else pages are made of
  BufSize,     \* BUFSIZ
  MaxLevel,    \* of includes: 10
  Unset,       \* what may be where a buffer comes to lie on the stack
  MaxParts

ASSUME MgSsiAssumption ==
  /\ BufSize \in Nat /\ BufSize > 9 /\ MaxLevel \in Nat /\ MaxParts \in Nat
  /\ (Ssi \cup Plain) \cap {"<", "-", ">", "0"} = {}

VARIABLES
  serving,  \* "no", "yes", "done"
  files,    \* what is in them
  page,     \* the one asked for
  frames,   \* the calls of mg_send_ssi_file that have not returned
  output    \* what has been sent

ssiVars == <<serving, files, page, frames, output>>

-----------------------------------------------------------------------------
Opening == <<"<", "!", "-", "-", "#">>
Parts == {<<c>> : c \in Letter \cup {"-", ">", "<"} \cup Ssi \cup Plain}
           \cup {Opening, <<"-", "-", ">">>}
           \cup {Opening \o <<c>> : c \in Ssi \cup Plain}
Contents == UNION {[1 .. n -> Parts] : n \in 0 .. MaxParts}

Frame(file, old) ==
  [file |-> file, at |-> 0, len |-> 0, tag |-> FALSE,
   mem |-> [k \in 1 .. BufSize |-> old],
   before |-> output]  \* what had been sent when it was called

Buffered(f) == SubSeq(f.mem, 1, f.len)
\* The next byte goes into the buffer.
Put(f, ch) == [f EXCEPT !.mem[f.len + 1] = ch, !.len = @ + 1, !.at = @ + 1]

\* A tag that turns out not to be one is text again.
IsTag(f) == f.tag /\ ~(f.len = Len(Opening) /\ Buffered(f) # Opening)

\* Faulty variant of Closing: one dash is enough.
ClosingSoon(f, ch) == f.tag /\ ch = ">" /\ f.len > 1 /\ f.mem[f.len] = "-"
Closing(f, ch) ==
  f.tag /\ ch = ">" /\ f.len > 1 /\ f.mem[f.len] = "-" /\ f.mem[f.len - 1] = "-"

-----------------------------------------------------------------------------
SsiInit ==
  serving = "no" /\ files = <<>> /\ page = "" /\ frames = <<>> /\ output = <<>>

SendPage ==
  /\ serving = "no" /\ serving' = "yes"
  /\ \E parts \in [Ssi -> Contents], other \in [Plain -> Letter] :
       files' = [n \in Ssi \cup Plain |-> IF n \in Ssi THEN FlattenSeq(parts[n])
                                          ELSE <<other[n]>>]
  /\ page' \in Ssi
  /\ \E old \in Unset : frames' = <<Frame(page', old)>>
  /\ UNCHANGED output

Level == Len(frames) - 1
TooDeep ==
  /\ serving = "yes" /\ Level > MaxLevel
  /\ output' = Append(output, "too deep") /\ frames' = Front(frames)
  /\ UNCHANGED <<serving, files, page>>

Top == Last(frames)
Source == files[Top.file]
Running == /\ serving = "yes" /\ Level <= MaxLevel
           /\ UNCHANGED <<files, page>>
\* The call on top reads a byte, and goes on as f.
Read == Source[Top.at + 1]
Fed == Running /\ Top.at < Len(Source) /\ UNCHANGED serving
Goes(f) == frames' = Append(Front(frames), f)

CloseTag ==
  /\ Fed /\ Closing(Top, Read)
  /\ LET trimmed == [Top.mem EXCEPT ![Top.len - 1] = "0"]
         name == trimmed[Len(Opening) + 1]
         done == [Top EXCEPT !.mem = trimmed, !.tag = FALSE, !.len = 0, !.at = @ + 1]
     IN \/ /\ name \in Ssi
           /\ \E old \in Unset : frames' = Front(frames) \o <<done, Frame(name, old)>>
           /\ UNCHANGED output
        \/ /\ name \notin Ssi /\ Goes(done)
           /\ output' = IF name \in Plain THEN output \o files[name] ELSE output

OpenTag ==
  /\ Fed /\ Read = "<" /\ output' = output \o Buffered(Top)
  /\ Goes(Put([Top EXCEPT !.len = 0, !.tag = TRUE], "<"))

InTag ==
  /\ Fed /\ Read # "<" /\ Top.tag /\ ~Closing(Top, Read)
  /\ \/ /\ IsTag(Top) /\ Top.len = BufSize - 2
        /\ output' = Append(output, "too large")
        /\ Goes(Put([Top EXCEPT !.len = 0], Read))
     \/ /\ ~(IsTag(Top) /\ Top.len = BufSize - 2)
        /\ Goes(Put([Top EXCEPT !.tag = IsTag(Top)], Read)) /\ UNCHANGED output

InText ==
  /\ Fed /\ Read # "<" /\ ~Top.tag
  /\ LET more == Put(Top, Read)
     IN IF more.len = BufSize
          THEN output' = output \o Buffered(more) /\ Goes([more EXCEPT !.len = 0])
          ELSE Goes(more) /\ UNCHANGED output

EndOfFile ==
  /\ Running /\ Top.at = Len(Source)
  /\ output' = output \o Buffered(Top) /\ frames' = Front(frames)
  /\ serving' = IF Level = 0 THEN "done" ELSE "yes"

SsiNext == SendPage \/ TooDeep \/ CloseTag \/ OpenTag \/ InTag \/ InText \/ EndOfFile
SsiSpec == SsiInit /\ [][SsiNext]_ssiVars

-----------------------------------------------------------------------------
(* What a page means.                                                      *)

\* The last < of the first k bytes (0: none).
Opens(p, k) == Max({0} \cup {i \in 1 .. k : p[i] = "<"})
Ends(p, k) == k > 2 /\ SubSeq(p, k - 2, k) = <<"-", "-", ">">>
IsOpening(p, j) == j + 4 <= Len(p) /\ SubSeq(p, j, j + 4) = Opening
\* The directive that byte k closes, if it does, began with a < and had not
\* been closed.
Unclosed(p, k) == Opens(p, k) > 0 /\ \A i \in Opens(p, k) .. k : ~Ends(p, i)
Closes(p, k) == Ends(p, k) /\ Unclosed(p, k - 1) /\ IsOpening(p, Opens(p, k))

Included(fs, name, included) ==
  IF name \in Ssi THEN included[name] ELSE IF name \in Plain THEN fs[name] ELSE <<>>

\* What the first bytes of a page put out, with what its includes put out:
\* a directive that closes is taken back for what is included.
Said(fs, p, included) ==
  LET said[k \in 0 .. Len(p)] ==
        IF k = 0 THEN <<>>
        ELSE IF Closes(p, k)
          THEN SubSeq(said[k - 1], 1, Len(said[k - 1]) - (k - Opens(p, k)))
                 \o Included(fs, p[Opens(p, k) + 5], included)
          ELSE Append(said[k - 1], p[k])
  IN said
\* What pages put out that may include down to a level.
Expanded(fs) ==
  LET expanded[n \in 0 .. MaxLevel + 1] ==
        [f \in Ssi |-> IF n = 0 THEN <<"too deep">>
                       ELSE Said(fs, fs[f], expanded[n - 1])[Len(fs[f])]]
  IN expanded

\* No --> comes before the code has seen that what begins with a < is no
\* directive, and no directive is longer than the buffer.
Orderly(p) ==
  \A k \in DOMAIN p :
    LET long == k - Opens(p, k) + 1
    IN /\ Opens(p, k) > 0 /\ Ends(p, k) => long > Len(Opening) + 1
       /\ Unclosed(p, k) /\ IsOpening(p, Opens(p, k)) => long < BufSize - 1

-----------------------------------------------------------------------------
\* mg_send_ssi_file never fills its buffer beyond its end, nor calls itself
\* without end, whatever the pages are.  It sends a page with its directives
\* carried out and everything else unchanged, through a buffer that text and
\* tags share, in pages that include each other down to the limit.  (What is
\* closed before it could be told from a directive is taken for one.)
PageIsExpanded ==
  /\ \A i \in DOMAIN frames : frames[i].len < BufSize
  /\ Len(frames) <= MaxLevel + 2
  /\ serving = "done" /\ (\A n \in Ssi : Orderly(files[n])) =>
       output = Expanded(files)[MaxLevel + 1][page]
================================================================================
