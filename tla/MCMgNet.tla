------------------------------- MODULE MCMgNet -------------------------------
(***************************************************************************)
(* MgNet on small instances: blocks of memory are interchangeable, the     *)
(* listener's apart.                                                       *)
(***************************************************************************)
EXTENDS MgNet

BlockSymmetry == Permutations(Conn \ {Listener})
=============================================================================
