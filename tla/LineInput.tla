----------------------------- MODULE LineInput ------------------------------
(***************************************************************************)
(* What the console promises to those who read it: a queue of characters   *)
(* `ready', behind a `line' that may still be edited.  A line is added to  *)
(* the queue when it is ended, or when nothing more fits.                  *)
(***************************************************************************)
EXTENDS Naturals, Sequences

CONSTANTS Chars, Newline, Size

VARIABLES ready, line

Room == Size - Len(ready) - Len(line)

Init == ready = <<>> /\ line = <<>>

Edit(c) ==
  /\ c # Newline /\ Room > 1
  /\ line' = Append(line, c)
  /\ UNCHANGED ready

Enter(c) ==
  /\ Room = 1 \/ (Room > 1 /\ c = Newline)
  /\ ready' = ready \o Append(line, c)
  /\ line' = <<>>

Erase ==
  /\ line # <<>>
  /\ line' = SubSeq(line, 1, Len(line) - 1)
  /\ UNCHANGED ready

EraseLine == line' = <<>> /\ UNCHANGED ready

Read ==
  /\ ready # <<>>
  /\ ready' = Tail(ready)
  /\ UNCHANGED line

Next == (\E c \in Chars : Edit(c) \/ Enter(c)) \/ Erase \/ EraseLine \/ Read

Spec == Init /\ [][Next]_<<ready, line>>
=============================================================================
