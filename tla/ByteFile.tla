------------------------------ MODULE ByteFile ------------------------------
(* What files promise: each is a sequence of bytes, and an open file has a  *)
(* position in one.  A write replaces or appends bytes at the position, a   *)
(* read returns the bytes there; both move the position past those bytes.   *)
EXTENDS Naturals, Sequences

CONSTANTS Opened,      \* open file -> file
          ByteSet

FileSet == {Opened[o] : o \in DOMAIN Opened}

VARIABLES content, pos, reply

Init == /\ content = [f \in FileSet |-> <<>>]
        /\ pos = [o \in DOMAIN Opened |-> 0]
        /\ reply = <<>>

Overwrite(s, off, d) == SubSeq(s, 1, off) \o d \o SubSeq(s, off + Len(d) + 1, Len(s))

Write(o) ==
  /\ \E b \in ByteSet :
       LET d == [i \in 1 .. pos'[o] - pos[o] |-> b]
       IN  content' = [content EXCEPT ![Opened[o]] = Overwrite(@, pos[o], d)]
  /\ \A q \in DOMAIN Opened \ {o} : pos'[q] = pos[q]
  /\ reply' = <<>>

Read(o) ==
  /\ reply' = SubSeq(content[Opened[o]], pos[o] + 1, pos'[o])
  /\ pos' = [pos EXCEPT ![o] = @ + Len(reply')]
  /\ UNCHANGED content

Rewind(o) == pos' = [pos EXCEPT ![o] = 0] /\ reply' = <<>> /\ UNCHANGED content

Remove(f) ==
  /\ content' = [content EXCEPT ![f] = <<>>]
  /\ pos' = [o \in DOMAIN Opened |-> IF Opened[o] = f THEN 0 ELSE pos[o]]
  /\ reply' = <<>>

Next == \/ \E o \in DOMAIN Opened : Write(o) \/ Read(o) \/ Rewind(o)
        \/ \E f \in FileSet : Remove(f)
Spec == Init /\ [][Next]_<<content, pos, reply>>
=============================================================================
