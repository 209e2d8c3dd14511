------------------------------ MODULE ConnManager ------------------------------
(***************************************************************************)
(* What an event manager promises the program that runs it, whatever       *)
(* happens inside its polls: clients are accepted while it listens; a      *)
(* client is hung up on only after that was asked for, by an error (at     *)
(* once) or by a handler (once it has its answer), or because the manager  *)
(* is being freed; what was asked for happens; and freeing it ends every   *)
(* client first, the listener next, and then returns.                      *)
(***************************************************************************)
CONSTANT Client

VARIABLES
  status,     \* of each client: "none", "open", "ending", "condemned"
  listening,  \* whether the listener is there
  phase       \* "serving", "freeing", "freed"

vars == <<status, listening, phase>>

Open(c) == status[c] # "none"

Init == /\ status = [c \in Client |-> "none"]
        /\ listening = TRUE
        /\ phase = "serving"

Become(c, s) == /\ status' = [status EXCEPT ![c] = s]
                /\ UNCHANGED <<listening, phase>>

Accept(c) == listening /\ ~Open(c) /\ Become(c, "open")
End(c) == status[c] = "open" /\ Become(c, "ending")
Condemn(c) == status[c] \in {"open", "ending"} /\ Become(c, "condemned")
HangUp(c) == /\ Open(c) /\ (status[c] # "open" \/ phase = "freeing")
             /\ Become(c, "none")

Free == /\ phase = "serving"
        /\ phase' = "freeing"
        /\ UNCHANGED <<status, listening>>
StopListening == /\ phase = "freeing" /\ listening
                 /\ \A c \in Client : ~Open(c)
                 /\ listening' = FALSE
                 /\ UNCHANGED <<status, phase>>
Freed == /\ phase = "freeing" /\ ~listening
         /\ phase' = "freed"
         /\ UNCHANGED <<status, listening>>

Next == \/ \E c \in Client : Accept(c) \/ End(c) \/ Condemn(c) \/ HangUp(c)
        \/ Free \/ StopListening \/ Freed

\* Who is to be hung up on is, and a manager that is being freed gets there.
\* Nobody need come, leave, or free the manager.
Fairness == /\ \A c \in Client : WF_vars(HangUp(c))
            /\ WF_vars(StopListening) /\ WF_vars(Freed)

SafeSpec == Init /\ [][Next]_vars
Spec == SafeSpec /\ Fairness
================================================================================
