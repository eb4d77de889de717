------------------------------ MODULE MCRWLock ------------------------------
(***************************************************************************)
(* RWLock for TLC.                                                          *)
(***************************************************************************)
EXTENDS RWLock, TLC

Symmetry == Permutations(Threads)
=============================================================================
