------------------------------- MODULE MCProc -------------------------------
(* Proc for TLC.  CPUs are interchangeable; slots are not (scan order).    *)
EXTENDS Proc, TLC

Symmetry == Permutations(CPUs)
=============================================================================
