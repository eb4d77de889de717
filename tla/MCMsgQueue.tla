----------------------------- MODULE MCMsgQueue -----------------------------
(***************************************************************************)
(* MsgQueue for TLC.                                                        *)
(***************************************************************************)
EXTENDS MsgQueue, TLC

Symmetry == Permutations(Procs)
=============================================================================
