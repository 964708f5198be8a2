-------------------------------- MODULE Fifo --------------------------------
(***************************************************************************)
(* What a pipe promises: a bounded queue of bytes.  `queue' holds what was *)
(* written and not yet read, `out' the byte a reader was given last.       *)
(***************************************************************************)
EXTENDS Naturals, Sequences

CONSTANTS Bytes, NoByte, Size

VARIABLES queue, out

Init == queue = <<>> /\ out = NoByte

Put(v) ==
  /\ Len(queue) < Size
  /\ queue' = Append(queue, v)
  /\ UNCHANGED out

Get ==
  /\ queue # <<>>
  /\ out' = Head(queue)
  /\ queue' = Tail(queue)

Next == Get \/ \E v \in Bytes : Put(v)

Spec == Init /\ [][Next]_<<queue, out>>
=============================================================================
