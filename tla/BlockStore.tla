----------------------------- MODULE BlockStore -----------------------------
(***************************************************************************)
(* What the buffer cache promises: every disk block is a register that one *)
(* process at a time may hold; only the holder changes it, and whoever    *)
(* gets it next finds the value it was left with.                          *)
(***************************************************************************)
CONSTANTS Procs, Blocks, Values, InitValue, NoProc

VARIABLES value, holder

Init ==
  /\ value = [k \in Blocks |-> InitValue]
  /\ holder = [k \in Blocks |-> NoProc]

Take(p, k) ==
  /\ holder[k] = NoProc
  /\ holder' = [holder EXCEPT ![k] = p]
  /\ UNCHANGED value

Change(p, k, v) ==
  /\ holder[k] = p
  /\ value' = [value EXCEPT ![k] = v]
  /\ UNCHANGED holder

Leave(p, k) ==
  /\ holder[k] = p
  /\ holder' = [holder EXCEPT ![k] = NoProc]
  /\ UNCHANGED value

Next ==
  \E p \in Procs, k \in Blocks :
    \/ Take(p, k)
    \/ Leave(p, k)
    \/ \E v \in Values : Change(p, k, v)

Spec == Init /\ [][Next]_<<value, holder>>
=============================================================================
