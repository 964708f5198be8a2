----------------------------- MODULE AtomicDisk -----------------------------
(***************************************************************************)
(* What the log layer promises to the file system above it: a disk on     *)
(* which groups of operations become durable all at once.  `current' is   *)
(* what a read returns now, `durable' is what a read would return after a *)
(* crash and a recovery, `active' the set of operations that have begun   *)
(* and not ended.  Nothing becomes durable while an operation is active,  *)
(* so a crash never leaves part of one behind.                            *)
(***************************************************************************)
CONSTANTS Procs, Blocks, Values, InitValue

VARIABLES durable, current, active

vars == <<durable, current, active>>

Init ==
  /\ durable = [b \in Blocks |-> InitValue]
  /\ current = durable
  /\ active = {}

Begin(p) ==
  /\ p \notin active
  /\ active' = active \cup {p}
  /\ UNCHANGED <<durable, current>>

Write(p, b, v) ==
  /\ p \in active
  /\ current' = [current EXCEPT ![b] = v]
  /\ UNCHANGED <<durable, active>>

End(p) ==
  /\ p \in active
  /\ active' = active \ {p}
  /\ UNCHANGED <<durable, current>>

Commit ==
  /\ active = {}
  /\ durable' = current
  /\ UNCHANGED <<current, active>>

Crash ==
  /\ current' = durable
  /\ active' = {}
  /\ UNCHANGED durable

Next ==
  \/ \E p \in Procs : Begin(p) \/ End(p)
  \/ \E p \in Procs, b \in Blocks, v \in Values : Write(p, b, v)
  \/ Commit
  \/ Crash

Spec == Init /\ [][Next]_vars
=============================================================================
