-------------------------------- MODULE MCBio -------------------------------
(* Bio for TLC.  Processes and blocks are interchangeable; buffers are not   *)
(* (the list has an order).                                                  *)
EXTENDS Bio, TLC

Symmetry == Permutations(Procs) \cup Permutations(Blocks)
=============================================================================
