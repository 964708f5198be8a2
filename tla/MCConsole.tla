----------------------------- MODULE MCConsole ------------------------------
(* Console for TLC.  The run checks a liveness property too, so it uses no   *)
(* symmetry.                                                                 *)
EXTENDS Console, TLC
=============================================================================
