------------------------------ MODULE MCKernel ------------------------------
(***************************************************************************)
(* Proc, Spinlock and File for TLC.  They share no variable, so that       *)
(* checking each alone says all there is to say; `part' is the one under   *)
(* way, the others stay as they start.  CPUs are interchangeable; slots of *)
(* the process table are not (scan order).                                 *)
(***************************************************************************)
EXTENDS Proc, Spinlock, File, TLC

VARIABLE part
kernelVars == <<part, vars, slVars, fVars>>

KernelInit ==
  /\ part \in {"proc", "lock", "file"}
  /\ Init /\ SlInit /\ FInit

KernelNext ==
  /\ IF part = "proc" THEN Next ELSE UNCHANGED vars
  /\ IF part = "lock" THEN SlNext ELSE UNCHANGED slVars
  /\ IF part = "file" THEN FNext ELSE UNCHANGED fVars
  /\ UNCHANGED part

KernelSpec == KernelInit /\ [][KernelNext]_kernelVars

Symmetry == Permutations(CPUs)
=============================================================================
