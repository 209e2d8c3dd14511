------------------------------ MODULE MgWebsocket ------------------------------
(***************************************************************************)
(* The WebSocket side of a server connection, from the end of the          *)
(* handshake on: mg_ws_handler and mg_deliver_websocket_data take the      *)
(* bytes of a client, in pieces of any size, apart into frames, inside     *)
(* recv_mbuf: a fragmented message grows at the head of the buffer, its    *)
(* op byte first, while control frames pass behind it.                     *)
(*                                                                         *)
(* A byte is a cell that says which frame it is of, where in it, and       *)
(* whether it is still masked.  Headers have their real lengths; payloads  *)
(* are short in all three length forms, as the code does not ask for the   *)
(* shortest form.  Control frames use the short form.  Frames come in any  *)
(* order, those the protocol forbids included.  A first fragment inside an *)
(* open message, which the code does not refuse, makes it take payloads    *)
(* for headers: what it reads from then on is not followed.  Left out:     *)
(* MG_F_WEBSOCKET_NO_DEFRAG (a user flag minimal.cpp never sets), the      *)
(* client side.                                                            *)
(***************************************************************************)
EXTENDS Integers, Sequences, FiniteSetsExt

CONSTANTS
  Frames,     \* the frames the client may send: <<kind, shape>>
  MaxFrames,  \* bound on how many
  MaxAnswers, \* bound on the answers after which more is received
  Word        \* what lengths are computed modulo: 2^64

Control == {"ping", "pong", "close", "torn"}
Data == {"whole", "first", "middle", "last"}
Sizes == {"empty", "short", "medium", "long"}

ASSUME MgWebsocketAssumption ==
  /\ Frames \subseteq Data \X Sizes \cup Control \X {"short"}
                       \cup {<<"huge", "huge">>}
  /\ Frames # {}
  /\ MaxFrames \in Nat \ {0} /\ MaxAnswers \in Nat
  /\ Word \in Nat /\ Word > 32

\* Bytes of extended length and of mask, and the payload's length.  A huge
\* frame announces what no buffer holds, and nothing follows its header.
Form(shape) ==
  CASE shape = "empty"  -> [ext |-> 0, mask |-> 0, len |-> 0]
    [] shape = "short"  -> [ext |-> 0, mask |-> 4, len |-> 1]
    [] shape = "medium" -> [ext |-> 2, mask |-> 4, len |-> 2]
    [] shape = "long"   -> [ext |-> 8, mask |-> 0, len |-> 1]
    [] shape = "huge"   -> [ext |-> 8, mask |-> 4, len |-> Word - 1]

VARIABLES
  script,     \* the frames the client sends, in order
  wire,       \* their bytes that have not been received yet
  buf,        \* recv_mbuf
  reass,      \* reass_len
  pending,    \* send_mbuf is not empty
  closing,    \* SEND_AND_CLOSE
  astray,     \* reass_len no longer leads to a frame's first byte
  pc,         \* "idle", "deliver" (in the loop of MG_EV_RECV), "closed"
  delivered,  \* history: the frames and messages handlers have seen
  answers     \* history: the Pongs and Closes sent

vars == <<script, wire, buf, reass, pending, closing, astray, pc,
          delivered, answers>>

KindOf(i) == script[i][1]
FormOf(i) == Form(script[i][2])
Header(i) == 2 + FormOf(i).ext + FormOf(i).mask
Payload(i) == IF script[i][2] = "huge" THEN 0 ELSE FormOf(i).len

Cells(i) == [j \in 1 .. Header(i) + Payload(i) |->
               [of |-> i, at |-> j,
                masked |-> FormOf(i).mask > 0 /\ j > Header(i)]]
\* What the client sends behind frame i.
Behind[i \in 0 .. Len(script)] ==
  IF i = Len(script) THEN <<>> ELSE Cells(i + 1) \o Behind[i + 1]

\* The handshake is over; what came with it waits to be looked at.
Init ==
  /\ script \in UNION {[1 .. n -> Frames] : n \in 1 .. MaxFrames}
  /\ wire = Behind[0] /\ buf = <<>> /\ reass = 0
  /\ pending = FALSE /\ closing = FALSE /\ astray = FALSE
  /\ pc = "deliver"
  /\ delivered = <<>> /\ answers = <<>>

-----------------------------------------------------------------------------
(* The head of what is not yet reassembled.                                *)

Rest == SubSeq(buf, reass + 1, Len(buf))
InStep == Rest # <<>> /\ Rest[1].at = 1
Current == Rest[1].of

IsFragment == KindOf(Current) \in {"first", "middle", "last", "torn"}
IsFirst == KindOf(Current) \in {"first", "torn"}
IsControl == KindOf(Current) \in Control

\* The header, as far as it can be read: its length, 0 if it is not there.
HeaderLen ==
  LET form == FormOf(Current)
      n == Len(Rest)
  IN IF n < 2 THEN 0
     ELSE IF form.ext = 0 /\ n >= form.mask THEN 2 + form.mask
     ELSE IF form.ext = 2 /\ n >= 4 + form.mask THEN 4 + form.mask
     ELSE IF n >= 10 + form.mask THEN 10 + form.mask
     ELSE 0
DataLen == IF HeaderLen = 0 THEN 0 ELSE FormOf(Current).len
FrameLen == (HeaderLen + DataLen) % Word

Overflows == FrameLen < HeaderLen \/ FrameLen < DataLen

IsWhole == FrameLen > 0 /\ FrameLen <= Len(Rest)

\* Faulty variant of Unmasked: a payload is left as it came.
UnmaskedNot == Rest
\* The payload of the whole frame at the head is unmasked in place.
Unmasked ==
  [k \in DOMAIN Rest |->
     IF FormOf(Current).mask > 0 /\ k \in (HeaderLen + 1) .. FrameLen
       THEN [Rest[k] EXCEPT !.masked = ~@] ELSE Rest[k]]

\* Faulty variant of NotAllowed: control frames may come in fragments.
NotAllowedData == ~IsFragment /\ ~IsControl /\ reass > 0
\* A control frame in fragments; a frame of another message inside one.
NotAllowed == \/ IsFragment /\ IsControl
              \/ ~IsFragment /\ ~IsControl /\ reass > 0

-----------------------------------------------------------------------------
(* The handler.                                                            *)

\* mg_send_websocket_frame, and mg_ws_close with its flag.
Answer(a) == /\ pending' = TRUE
             /\ answers' = Append(answers, a)
             /\ closing' = (closing \/ a[1] = "close")
NoAnswer == UNCHANGED <<pending, answers, closing>>

\* mg_recv_tcp.
Receive ==
  /\ pc = "idle" /\ Len(answers) <= MaxAnswers
  /\ \E n \in 1 .. Len(wire) :
       /\ buf' = buf \o SubSeq(wire, 1, n)
       /\ wire' = SubSeq(wire, n + 1, Len(wire))
  /\ pc' = "deliver"
  /\ NoAnswer /\ UNCHANGED <<script, reass, astray, delivered>>

\* The handler looks at the head, unless it has lost the frames.
Looks == pc = "deliver" /\ ~astray

\* The first byte tells enough; the frame stays where it is, and is refused
\* again when more comes.
Reject ==
  /\ Looks /\ InStep /\ NotAllowed
  /\ Answer(<<"close", <<>>>>)
  /\ pc' = "idle"
  /\ UNCHANGED <<script, wire, buf, reass, astray, delivered>>

RejectOverflow ==
  /\ Looks /\ InStep /\ ~NotAllowed /\ Overflows
  /\ Answer(<<"close", <<>>>>)
  /\ pc' = "idle"
  /\ UNCHANGED <<script, wire, buf, reass, astray, delivered>>

Wait ==
  /\ Looks
  /\ Rest = <<>> \/ (InStep /\ ~NotAllowed /\ ~Overflows /\ ~IsWhole)
  /\ pc' = "idle"
  /\ NoAnswer /\ UNCHANGED <<script, wire, buf, reass, astray, delivered>>

Whole == Looks /\ InStep /\ ~NotAllowed /\ ~Overflows /\ IsWhole

ReassLen(n) == IF KindOf(Current) = "last" THEN 0 ELSE n

\* A message that is reassembled: op byte and payload.  Where no fragment
\* opened it, a byte of its payload serves as op; where it has no byte at
\* all, its size, one less than nothing, is the greatest there is.
Message(cells) ==
  IF cells = <<>> THEN <<"unsized", <<>>>>
  ELSE <<IF cells[1].at = 1 THEN "first" ELSE "unnamed",
         SubSeq(cells, 2, Len(cells))>>

\* A fragment loses its header, but for the op byte of the first, and joins
\* the reassembled part; the last one completes the message.  The length of
\* the part is counted from 1 again on a first fragment, although the bytes
\* of an open message are still there.
TakeFragment ==
  /\ Whole /\ IsFragment
  /\ LET head == SubSeq(buf, 1, reass) \o (IF IsFirst THEN <<Rest[1]>> ELSE <<>>)
         all == head \o SubSeq(Unmasked, HeaderLen + 1, Len(Rest))
         n == (IF IsFirst THEN 1 ELSE reass) + DataLen
     IN /\ IF KindOf(Current) = "last"
          THEN /\ delivered' = Append(delivered, Message(SubSeq(all, 1, n)))
               /\ buf' = SubSeq(all, n + 1, Len(all))
          ELSE buf' = all /\ UNCHANGED delivered
        /\ reass' = ReassLen(n)
  /\ astray' = (IsFirst /\ reass > 0)
  /\ NoAnswer /\ UNCHANGED <<script, wire, pc>>

\* Bytes of payloads are taken for headers: there may be no whole frame in
\* them, or one to answer, to refuse or to close for.  Neither the buffer
\* nor the histories are kept from here on.
Misread ==
  /\ pc = "deliver" /\ astray
  /\ pc' = "idle"
  /\ \/ UNCHANGED <<pending, closing>>
     \/ pending' = TRUE /\ closing' \in {closing, TRUE}
  /\ UNCHANGED <<script, wire, buf, reass, astray, delivered, answers>>

\* Faulty variant of Cut: the frame is cut from the head of the buffer.
CutHead(n) == SubSeq(buf, n + 1, Len(buf))
\* The second memmove: the frame goes, the reassembled part stays.
Cut(n) == SubSeq(buf, 1, reass) \o SubSeq(Rest, n + 1, Len(Rest))

\* Faulty variant of PongData: the payload as it came.
PongDataAsIs == SubSeq(Rest, HeaderLen + 1, FrameLen)
PongData == SubSeq(Unmasked, HeaderLen + 1, FrameLen)

\* A frame of its own is reacted on, delivered and removed.
TakeFrame ==
  /\ Whole /\ ~IsFragment
  /\ LET kind == KindOf(Current)
     IN /\ CASE kind = "ping" -> Answer(<<"pong", PongData>>)
             [] kind = "close" -> Answer(<<"close", PongData>>)
             [] OTHER -> NoAnswer
        /\ delivered' = Append(delivered,
             <<kind, SubSeq(Unmasked, HeaderLen + 1, FrameLen)>>)
  /\ buf' = Cut(FrameLen)
  /\ UNCHANGED <<script, wire, reass, astray, pc>>

\* Faulty variant of Due: half a frame in the buffer is waited for.
DueDrained == closing /\ ~pending /\ buf = <<>>
\* mg_if_poll's condition for closing.
Due == closing /\ ~pending

\* MG_EV_POLL of a connection that has been idle for long enough.
PingIdle ==
  /\ pc = "idle" /\ ~Due
  /\ pending' = TRUE
  /\ UNCHANGED <<script, wire, buf, reass, closing, astray, pc, delivered,
                 answers>>

\* mg_if_can_send_cb: the client takes the rest of the output.
Flush ==
  /\ pc = "idle" /\ pending
  /\ pending' = FALSE
  /\ UNCHANGED <<script, wire, buf, reass, closing, astray, pc, delivered,
                 answers>>

Close ==
  /\ pc = "idle" /\ Due
  /\ pc' = "closed"
  /\ NoAnswer /\ UNCHANGED <<script, wire, buf, reass, astray, delivered>>

Handler == Reject \/ RejectOverflow \/ Wait \/ TakeFragment \/ TakeFrame
             \/ Misread
Next == Receive \/ Handler \/ PingIdle \/ Flush \/ Close

\* The thread goes on, and a client that stays takes what it is sent.
Fairness == WF_vars(Handler) /\ WF_vars(Flush) /\ WF_vars(Close)
SafeSpec == Init /\ [][Next]_vars
Spec == SafeSpec /\ Fairness

-----------------------------------------------------------------------------
(* Frame by frame: what the frames that are wholly there amount to.        *)

Clear(i) == [j \in 1 .. Payload(i) |->
               [of |-> i, at |-> Header(i) + j, masked |-> FALSE]]
Op(i) == Cells(i)[1]

\* The frames the code refuses: a control frame in fragments, an announced
\* length that overflows, a whole message inside an open one.
Refused(st, i) ==
  \/ KindOf(i) \in {"torn", "huge"}
  \/ KindOf(i) = "whole" /\ st.open # <<>>
\* A first fragment inside an open message.
Nested(st, i) == KindOf(i) = "first" /\ st.open # <<>>

\* One frame more.  open is a message in fragments so far, op byte first;
\* a continuation with no message open makes one without op byte; what is
\* behind a refused or a nested frame no longer counts.
Absorb(st, i) ==
  IF st.over \/ Refused(st, i) \/ Nested(st, i) THEN [st EXCEPT !.over = TRUE]
  ELSE LET one == [st EXCEPT !.upto = i]
           seen == [one EXCEPT !.seen = Append(@, <<KindOf(i), Clear(i)>>)]
       IN CASE KindOf(i) = "first" -> [one EXCEPT !.open = <<Op(i)>> \o Clear(i)]
            [] KindOf(i) = "middle" -> [one EXCEPT !.open = @ \o Clear(i)]
            [] KindOf(i) = "last" ->
                 [one EXCEPT !.open = <<>>,
                             !.seen = Append(@, Message(st.open \o Clear(i)))]
            [] KindOf(i) = "ping" ->
                 [seen EXCEPT !.answers = Append(@, <<"pong", Clear(i)>>)]
            [] KindOf(i) = "close" ->
                 [seen EXCEPT !.asked = TRUE,
                              !.answers = Append(@, <<"close", Clear(i)>>)]
            [] OTHER -> seen

\* What the first i frames amount to.
After[i \in 0 .. Len(script)] ==
  IF i = 0 THEN [open |-> <<>>, seen |-> <<>>, answers |-> <<>>,
                 asked |-> FALSE, over |-> FALSE, upto |-> 0]
           ELSE Absorb(After[i - 1], i)

There(i) == Len(wire) <= Len(Behind[i])
Ideal == After[Max({i \in 0 .. Len(script) : There(i)})]

\* Behind what has been read, some of a refused frame is there.
Torn(st) == /\ st.upto < Len(script)
            /\ Len(wire) < Len(Behind[st.upto])
            /\ Refused(st, st.upto + 1)

\* A nested first fragment is wholly there.
Lost(st) == st.over /\ Nested(st, st.upto + 1)

-----------------------------------------------------------------------------
(* Properties.                                                             *)

\* However the stream is cut into pieces, and unless it is lost, handlers
\* have seen exactly the frames and messages that are wholly there and not
\* refused, in order, each once and at once, with their payloads unmasked;
\* control frames between the fragments of a message come before it and
\* leave it intact.
DeliversWhatIsThere ==
  pc = "idle" => LET st == Ideal IN ~Lost(st) => delivered = st.seen

\* Between two receives the buffer holds the open message, reass_len long,
\* and then, untouched, what has come of the frames not yet taken: moving
\* fragments together neither loses nor doubles a byte behind them.  Only a
\* first fragment inside an open message puts reass_len out of step.
BufferLayout ==
  pc = "idle" =>
    LET st == Ideal
    IN /\ astray = Lost(st)
       /\ ~Lost(st) => /\ reass = Len(st.open)
                       /\ buf \o wire = st.open \o Behind[st.upto]

\* Every Ping and every Close is answered, in order, with the payload it
\* came with, and nothing else is, but for a refused frame behind them: it
\* gets a Close of its own when it is wholly there at the latest, and may
\* get it over and over as more is received.
Refusals(n) == [k \in 1 .. n |-> <<"close", <<>>>>]
PingsAnswered ==
  pc = "idle" =>
    LET st == Ideal
        n == Len(answers) - Len(st.answers)
    IN ~Lost(st) => /\ n >= 0 /\ answers = st.answers \o Refusals(n)
                    /\ n > 0 => Torn(st)
                    /\ st.over => n > 0

\* A refused frame, and a Close, end the connection; nothing else does, in
\* particular no continuation of a message that is not open, and a first
\* fragment inside an open one only by what it makes the server misread.
ClosesForReason ==
  pc = "idle" =>
    LET st == Ideal
    IN /\ st.asked \/ (st.over /\ ~Lost(st)) => closing
       /\ closing => st.asked \/ Torn(st) \/ Lost(st)

\* A connection the server wants to close is closed, idle pings or not.
ClosingCloses == closing ~> pc = "closed"

================================================================================
