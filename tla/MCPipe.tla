------------------------------- MODULE MCPipe -------------------------------
(* Pipe for TLC.  Processes of one end are interchangeable, and so are bytes. *)
EXTENDS Pipe, TLC

Symmetry == Permutations(Readers) \cup Permutations(Writers) \cup Permutations(Bytes)
=============================================================================
