------------------------------- MODULE MCLog -------------------------------
(* Instances of Log for TLC.  Processes are interchangeable, and so are    *)
(* blocks: both may be permuted in runs that check safety only.            *)
EXTENDS Log, TLC

Symmetry == Permutations(Procs) \cup Permutations(Blocks)
=============================================================================
