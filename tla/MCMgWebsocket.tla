--------------------------- MODULE MCMgWebsocket ---------------------------
(***************************************************************************)
(* MgWebsocket on a small instance: fragments with and without payload,    *)
(* the three forms of length, payloads masked and not.                     *)
(***************************************************************************)
EXTENDS MgWebsocket

FewFrames ==
  {"first"} \X {"empty", "long"}
    \cup {"last"} \X {"empty", "short"}
    \cup {"middle", "whole"} \X {"medium"} \cup {<<"huge", "huge">>}
    \cup {"ping", "close", "torn"} \X {"short"}
=============================================================================
