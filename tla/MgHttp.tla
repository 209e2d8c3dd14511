-------------------------------- MODULE MgHttp --------------------------------
(***************************************************************************)
(* How mg_http_handler cuts the bytes of one client connection into        *)
(* requests: the stream a client sends arrives in pieces of any size, each *)
(* one an MG_EV_RECV that appends to recv_mbuf, and the handler parses     *)
(* from the head of the buffer, waits for bodies, reassembles chunked      *)
(* ones, dispatches requests, and skips to the next one unless a file or a *)
(* CGI program is being served.  MG_EV_CLOSE dispatches once more.         *)
(*                                                                         *)
(* Bytes are counted in symbols.  A header block is its lines and the      *)
(* empty line that ends it, a chunk is its size line and its data, and a   *)
(* symbol carries the number of the message it belongs to, so that         *)
(* properties can tell whose bytes a request got.  Bodies contain no empty *)
(* line and do not look like chunks.  Handlers do not set                  *)
(* MG_F_DELETE_CHUNK (ev_handler of minimal.cpp does not), and neither     *)
(* multipart streaming (compiled out) nor WebSocket upgrades are modelled. *)
(***************************************************************************)
EXTENDS Integers, Sequences, SequencesExt

CONSTANTS
  Kinds,        \* the kinds of messages the client sends
  MaxMessages,  \* bound on how many
  MaxDispatched,  \* bound on how many are dispatched: one may be again and again
  MaxRequest    \* MG_MAX_HTTP_REQUEST_SIZE

AllKinds ==
  {"get", "post", "open", "negative", "chunked", "bad", "long", "file", "cgi"}

ASSUME MgHttpAssumption ==
  /\ Kinds \subseteq AllKinds /\ Kinds # {}
  /\ MaxMessages \in Nat \ {0} /\ MaxDispatched \in Nat
  /\ MaxRequest \in Nat \ {0}

Head2 == <<"line", "end">>

\* What a message of each kind looks like: a request without a body, answered
\* at once, by a file or by a program; POST with Content-Length, with a negative
\* one, without, or chunked; a malformed request line; headers longer than
\* MaxRequest.
Wire(kind) ==
  CASE kind \in {"get", "file", "cgi", "bad", "negative"} -> Head2
    [] kind = "post" -> Head2 \o <<"body", "body">>
    [] kind = "open" -> Head2 \o <<"body">>
    [] kind = "chunked" ->
         Head2 \o <<"size", "data", "size", "data", "last", "crlf">>
    [] kind = "long" -> [i \in 1 .. MaxRequest |-> "line"] \o <<"end">>

VARIABLES
  script,      \* the kinds of the messages the client sends, in order
  arrived,     \* how many symbols have been received
  io,          \* recv_mbuf
  pd,          \* proto_data: [rcvd, chunks], chunks being chunk.body_len
  busy,        \* what is being served: "none", "file" (fp) or "cgi" (cgi_nc)
  shut,        \* the client has shut its side down
  closing,     \* "no", "flushed" (SEND_AND_CLOSE) or "now" (CLOSE_IMMEDIATELY)
  pc,          \* "idle", "parse" (inside MG_EV_RECV), "closed"
  dispatched   \* history: [id, body, on], the MG_EV_HTTP_REQUESTs so far

vars == <<script, arrived, shut, io, pd, busy, closing, pc, dispatched>>

Symbols(i) == [j \in 1 .. Len(Wire(script[i])) |->
                 [id |-> i, part |-> Wire(script[i])[j]]]
Stream == FlattenSeq([i \in DOMAIN script |-> Symbols(i)])

Init ==
  /\ script \in UNION {[1 .. n -> Kinds] : n \in 1 .. MaxMessages}
  /\ arrived = 0 /\ shut = FALSE
  /\ io = <<>>
  /\ pd = [rcvd |-> 0, chunks |-> 0]
  /\ busy = "none" /\ closing = "no" /\ pc = "idle"
  /\ dispatched = <<>>

-----------------------------------------------------------------------------
(* Parsing.                                                                *)

Ends(b) == {j \in DOMAIN b : b[j].part = "end"}

\* mg_http_get_request_len and mg_parse_http: 0 while the headers are not
\* whole, -1 for a malformed request, their length otherwise.  Headers with
\* remains of an earlier message before them are malformed, or pass for some
\* other method.
Parse(b) ==
  IF Ends(b) = {} THEN {0}
  ELSE LET e == CHOOSE j \in Ends(b) : \A k \in Ends(b) : j <= k
       IN IF script[b[e].id] = "bad" THEN {-1}
          ELSE IF b[1].part = "line" THEN {e}
          ELSE {-1, e}

Endless == -1  \* (size_t) ~0

\* hm->message.len after mg_parse_http, for headers that end at len: without
\* Content-Length, endless for POST, and without body for other methods.
MessageLen(b, len) ==
  LET kind == script[b[len].id]
  IN CASE kind = "post" -> len + 2
       [] kind \in {"open", "chunked"} /\ b[1].part = "line" -> Endless
       [] OTHER -> len
\* A negative Content-Length is added to len in a size_t: message.len may be 0,
\* some of the headers (what is left of an empty line is skipped as white
\* space), or more than any buffer.
MessageLens(b, len) == IF script[b[len].id] = "negative"
                         THEN 0 .. len \cup {Endless} ELSE {MessageLen(b, len)}

\* The chunks that start at position i and are wholly there, none of them
\* behind the last one: mg_http_parse_chunk again and again.
IsChunk(b, i) == /\ i + 1 <= Len(b)
                 /\ <<b[i].part, b[i + 1].part>>
                      \in {<<"size", "data">>, <<"last", "crlf">>}
WholeChunks(b, i) ==
  LET runs == {n \in 0 .. Len(b) :
                 \A j \in 0 .. (n - 1) :
                   /\ IsChunk(b, i + 2 * j)
                   /\ j < n - 1 => b[i + 2 * j].part # "last"}
  IN CHOOSE n \in runs : \A k \in runs : k <= n

\* mg_handle_chunked of the buffer b with headers of length len: chunks
\* behind the part already reassembled collapse to their data; at the last
\* one the message ends, as far as this code is concerned, with the buffer.
Reassembled(b, len, chunks) ==
  LET from == len + chunks + 1
      n == WholeChunks(b, from)
      done == n > 0 /\ b[from + 2 * (n - 1)].part = "last"
      data == [j \in 1 .. (IF done THEN n - 1 ELSE n) |->
                 [id |-> b[from + 2 * (j - 1)].id, part |-> "piece"]]
      rest == SubSeq(b, from + 2 * n, Len(b))
      whole == SubSeq(b, 1, from - 1) \o data \o rest
  IN [buf |-> whole,
      message |-> IF done THEN Len(whole) ELSE MessageLen(b, len),
      chunks |-> chunks + Len(data)]

\* Faulty variant of Drop: the request stays in the buffer.
DropNone(b, n) == b
\* mbuf_remove.
Drop(b, n) == IF n > 0 /\ n <= Len(b) THEN SubSeq(b, n + 1, Len(b)) ELSE b

-----------------------------------------------------------------------------
(* The handler.                                                            *)

\* mg_recv_tcp: some of what the client sends is appended.
Receive ==
  /\ pc = "idle" /\ closing # "now" /\ ~shut
  /\ \E n \in 1 .. (Len(Stream) - arrived) :
       /\ io' = io \o SubSeq(Stream, arrived + 1, arrived + n)
       /\ arrived' = arrived + n
  /\ pc' = "parse"
  /\ UNCHANGED <<script, shut, pd, busy, closing, dispatched>>

\* Malformed, or not a request yet.
ParseFails ==
  /\ pc = "parse"
  /\ \E len \in Parse(io) :
       /\ len <= 0
       /\ closing' = IF len < 0 \/ Len(io) >= MaxRequest THEN "now" ELSE closing
  /\ pc' = "idle"
  /\ UNCHANGED <<script, shut, arrived, io, pd, busy, dispatched>>

\* Faulty variant of Complete: off by one.
CompleteAlmost(message, rcvd) == message # Endless /\ message <= rcvd + 1
\* The condition for having received all of the body.
Complete(message, rcvd) == message # Endless /\ message <= rcvd

\* Faulty variant of Again: what is behind a request waits for more data.
AgainNever(b) == FALSE
\* Another request is looked for behind one that is done.
Again(b) == b # <<>>

\* One round of the loop for a request with whole headers.  It gets new
\* proto_data, which ends whatever the old one was serving; its body is
\* awaited; or it is dispatched with everything behind its headers as body
\* (deliver_chunk sets body.len), and mg_serve_http answers it at once, on a
\* connection kept open or not, or starts to serve a file or a program,
\* which takes all of the buffer.
ParseRequest ==
  /\ pc = "parse" /\ Len(dispatched) < MaxDispatched
  /\ \E len \in Parse(io) :
       /\ len > 0
       /\ LET kind == script[io[len].id]
              fresh == [rcvd |-> Len(io), chunks |-> 0]
              chunked == Reassembled(io, len, fresh.chunks)
              buf == IF kind = "chunked" THEN chunked.buf ELSE io
              next == IF kind = "chunked"
                        THEN [fresh EXCEPT !.chunks = chunked.chunks]
                        ELSE fresh
          IN \E message \in IF kind = "chunked" THEN {chunked.message}
                                                ELSE MessageLens(io, len) :
             IF ~Complete(message, fresh.rcvd)
               THEN /\ io' = buf /\ pd' = next
                    /\ busy' = "none"
                    /\ pc' = "idle"
                    /\ UNCHANGED <<closing, dispatched>>
               ELSE /\ dispatched' = Append(dispatched,
                         [id |-> io[len].id, on |-> "recv",
                          body |-> SubSeq(buf, len + 1, Len(buf))])
                    /\ io' = IF kind = "cgi" THEN <<>> ELSE Drop(buf, message)
                    /\ pd' = [next EXCEPT !.rcvd = @ - message]
                    /\ busy' = IF kind \in {"file", "cgi"} THEN kind ELSE "none"
                    /\ closing' \in IF busy' = "none"
                                      THEN {closing, "flushed"} ELSE {closing}
                    /\ pc' = IF busy' = "none" /\ Again(io')
                               THEN "parse" ELSE "idle"
  /\ UNCHANGED <<script, shut, arrived>>

\* The file ends, on a connection kept open or not, or the program ends.
Served ==
  /\ pc = "idle" /\ busy # "none"
  /\ busy' = "none"
  /\ closing' \in IF busy = "cgi" THEN {"flushed"} ELSE {closing, "flushed"}
  /\ UNCHANGED <<script, shut, arrived, io, pd, pc, dispatched>>

\* The client shuts its side down, after any part of its stream.
ClientShuts ==
  /\ pc = "idle" /\ closing # "now" /\ ~shut
  /\ shut' = TRUE /\ closing' = "flushed"
  /\ UNCHANGED <<script, arrived, io, pd, busy, pc, dispatched>>

\* MG_EV_CLOSE: a request with whole headers at the head of the buffer is
\* dispatched, whatever there is of its body.  A file keeps the output
\* filled, so that a connection closing after its output outlasts it.
Close ==
  /\ pc = "idle"
  /\ closing = "now" \/ (closing = "flushed" /\ busy # "file")
  /\ \E len \in Parse(io) :
       dispatched' = IF len <= 0
                       THEN dispatched
                       ELSE Append(dispatched,
                              [id |-> io[len].id, on |-> "close",
                               body |-> SubSeq(io, len + 1, Len(io))])
  /\ pc' = "closed" /\ io' = <<>> /\ busy' = "none"
  /\ UNCHANGED <<script, shut, arrived, pd, closing>>

Next == \/ Receive \/ ParseFails \/ ParseRequest
        \/ Served \/ ClientShuts \/ Close

\* The thread goes on; the client need not.
Fairness == /\ WF_vars(ParseFails) /\ WF_vars(ParseRequest)
            /\ WF_vars(Served) /\ WF_vars(Close)
SafeSpec == Init /\ [][Next]_vars
Spec == SafeSpec /\ Fairness

-----------------------------------------------------------------------------
(* Properties.                                                             *)

Sent == DOMAIN script
Ids == {dispatched[k].id : k \in DOMAIN dispatched}

\* All of message i is there.
WholeIn(i) == arrived >= Len(FlattenSeq([j \in 1 .. i |-> Symbols(j)]))
\* What the body of message i is, once chunks are reassembled.
Body(kind) == CASE kind = "post" -> <<"body", "body">>
                [] kind = "open" -> <<"body">>
                [] kind = "chunked" -> <<"piece", "piece">>
                [] OTHER -> <<>>
Payload(i) == [j \in DOMAIN Body(script[i]) |->
                 [id |-> i, part |-> Body(script[i])[j]]]

\* Requests are dispatched as soon as they are whole, several of one piece
\* included: none waits for the next piece, while nothing is being served.
PromptDispatch ==
  pc = "idle" =>
    \A i \in Sent :
      (\A j \in 1 .. i : script[j] \in {"get", "post"}) /\ WholeIn(i) => i \in Ids

\* Message i may be dispatched after message h has been: it comes later, or a
\* negative Content-Length has left some of its headers in the buffer.
After(i, h) == h < i \/ (h = i /\ script[i] = "negative")
\* A chunked message or a program got message i as part of its own body.
Swallowed(i) ==
  \E k \in DOMAIN dispatched :
    /\ script[dispatched[k].id] \in {"chunked", "cgi"}
    /\ [id |-> i, part |-> "end"] \in Range(dispatched[k].body)

\* Requests are dispatched in the client's order, none twice but for a negative
\* Content-Length, the one dispatched on MG_EV_CLOSE included; and none is
\* passed over without a trace: each one before was dispatched too, or went to
\* a handler as part of a chunked body or of a program's.
OrderKept ==
  \A k \in DOMAIN dispatched :
    LET i == dispatched[k].id
    IN /\ \A j \in 1 .. (k - 1) : After(i, dispatched[j].id)
       /\ \A h \in 1 .. (i - 1) : h \in Ids \/ Swallowed(h)

\* A request dispatched while the connection lives has all of the body it
\* announces, in order and first in hm->body, chunks reassembled.  (Its own
\* headers must not have been swallowed with a message before it, which
\* chunked ones and programs do, nor joined to what a negative Content-Length
\* left in the buffer.)
WholeByRecv ==
  \A k \in DOMAIN dispatched :
    LET d == dispatched[k]
    IN (/\ d.on = "recv" /\ script[d.id] \in {"post", "chunked"}
        /\ \A j \in 1 .. (d.id - 1) : script[j] \notin {"chunked", "cgi", "negative"})
       => IsPrefix(Payload(d.id), d.body)

\* mongoose.h:4501: "When the last zero chunk is received, Mongoose sends" the
\* message "with full reassembled body", however the body was cut into pieces.
ChunkedIsDispatched ==
  pc = "idle" /\ script[1] = "chunked" /\ WholeIn(1) => 1 \in Ids

\* mongoose.c:6585: "if we are serving a file, we are definitely not done":
\* requests that wait behind a file are taken up when it has been served.
WaitingAreServed ==
  \A i \in 1 .. MaxMessages :
    (i \in Sent /\ WholeIn(i)) ~> (i \in Ids \/ closing # "no")
===============================================================================
