--------------------------- MODULE MCRWLockCancel ---------------------------
(***************************************************************************)
(* RWLockCancel for TLC.                                                    *)
(***************************************************************************)
EXTENDS RWLockCancel, TLC

Symmetry == Permutations(Threads)
=============================================================================
