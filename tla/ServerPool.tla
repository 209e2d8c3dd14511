----------------------------- MODULE ServerPool -----------------------------
(***************************************************************************)
(* What the application of minimal.cpp promises about its web servers,     *)
(* without threads, sockets or flags: a server is started while the        *)
(* application is open, it then either serves or fails, a serving server   *)
(* stops only while the application closes, and the application is closed  *)
(* only when no server is left.  WebServers implements this specification. *)
(***************************************************************************)
CONSTANT Server

VARIABLES phase,    \* the application: "open", "closing" or "closed"
          server    \* what became of every server
poolVars == <<phase, server>>

Phase == {"open", "closing", "closed"}
ServerState == {"off", "starting", "serving", "failed", "stopped"}
Live(s) == server[s] \in {"starting", "serving"}

Init == /\ phase = "open"
        /\ server = [s \in Server |-> "off"]

Become(s, from, to) == /\ server[s] = from
                       /\ server' = [server EXCEPT ![s] = to]
                       /\ UNCHANGED phase

Start(s) == phase = "open" /\ Become(s, "off", "starting")
Serve(s) == Become(s, "starting", "serving")
Fail(s)  == Become(s, "starting", "failed")
Stop(s)  == phase = "closing" /\ Become(s, "serving", "stopped")

Close == /\ phase = "open"
         /\ phase' = "closing"
         /\ UNCHANGED server

Finish == /\ phase = "closing"
          /\ \A s \in Server : ~ Live(s)
          /\ phase' = "closed"
          /\ UNCHANGED server

Next == \/ \E s \in Server : Start(s) \/ Serve(s) \/ Fail(s) \/ Stop(s)
        \/ Close
        \/ Finish

\* Nobody is obliged to start a server or to close the application; what has
\* been started settles, and a closing application closes.
Fairness == /\ \A s \in Server : WF_poolVars(Serve(s) \/ Fail(s))
            /\ \A s \in Server : WF_poolVars(Stop(s))
            /\ WF_poolVars(Finish)

SafeSpec == Init /\ [][Next]_poolVars
Spec == SafeSpec /\ Fairness
=============================================================================
