------------------------------ MODULE Console -------------------------------
(***************************************************************************)
(* Console input (console.c): the interrupt handler consoleintr() puts     *)
(* characters into the ring `input' and edits the last line; processes in  *)
(* consoleread() take them out.  cons.lock serialises both; a reader       *)
(* that finds nothing sleeps on &input.r.  What is echoed is left out.     *)
(***************************************************************************)
EXTENDS Naturals, Sequences

CONSTANTS
  Readers, Nobody,
  Letters, CR, Newline,   \* keys: what stands for itself, '\r' and '\n'
  INPUT_BUF,
  UINT,         \* the range of a uint index, a multiple of INPUT_BUF (2^32)
  MaxRead       \* bound: the n of consoleread()

ASSUME ConsoleConstants ==
  /\ INPUT_BUF \in Nat \ {0}
  /\ UINT \in Nat /\ UINT > INPUT_BUF /\ UINT % INPUT_BUF = 0
  /\ MaxRead \in Nat \ {0}
  /\ Nobody \notin Readers
  /\ CR # Newline /\ CR \notin Letters /\ Newline \notin Letters

Chars == Letters \cup {Newline}

VARIABLES
  buf, r, w, e,         \* input
  lock,                 \* the reader that holds cons.lock, or Nobody
  pc, left, killed,     \* reader -> where it is, n, killed
  on                    \* FALSE after do_shutdown()

vars == <<buf, r, w, e, lock, pc, left, killed, on>>
input == <<buf, r, w, e>>

Init ==
  /\ buf = [i \in 0 .. INPUT_BUF - 1 |-> Newline]
  /\ r = 0 /\ w = 0 /\ e = 0
  /\ lock = Nobody
  /\ pc = [p \in Readers |-> "idle"]
  /\ left = [p \in Readers |-> 0]
  /\ killed = [p \in Readers |-> FALSE]
  /\ on = TRUE

Inc(n) == (n + 1) % UINT
Dec(n) == (n + UINT - 1) % UINT

\* wakeup(&input.r)
Mut_Wakeup == pc
Wakeup == [p \in Readers |-> IF pc[p] = "asleep" THEN "acquire" ELSE pc[p]]
-----------------------------------------------------------------------------
(* consoleintr(), one character at a time.                                 *)

\* '\r' is read as '\n'.
Translate(c) == IF c = CR THEN Newline ELSE c

\* Room for one more character: input.e-input.r < INPUT_BUF.
Mut_HasRoom == (e + UINT - w) % UINT < INPUT_BUF
HasRoom == (e + UINT - r) % UINT < INPUT_BUF

\* The character ends the line, or is the last that fits.
EndsLine(c) == c = Newline \/ Inc(e) = (r + INPUT_BUF) % UINT

\* The default case.
Key(c) ==
  /\ lock = Nobody /\ HasRoom
  /\ buf' = [buf EXCEPT ![e % INPUT_BUF] = Translate(c)]
  /\ e' = Inc(e)
  /\ \/ /\ EndsLine(Translate(c))
        /\ w' = Inc(e)
        /\ pc' = Wakeup
     \/ /\ ~EndsLine(Translate(c))
        /\ UNCHANGED <<w, pc>>
  /\ UNCHANGED <<r, lock, left, killed, on>>

\* Backspace.
Backspace ==
  /\ lock = Nobody /\ e # w
  /\ e' = Dec(e)
  /\ UNCHANGED <<buf, r, w, lock, pc, left, killed, on>>

\* C('U'): back to input.w, or to the last '\n' after it.
KillLine ==
  LET after == {i \in 0 .. INPUT_BUF : i <= (e + UINT - w) % UINT}
      stop(i) == LET e1 == (e + UINT - i) % UINT
                 IN  e1 = w \/ buf[Dec(e1) % INPUT_BUF] = Newline
      back == CHOOSE i \in after : stop(i) /\ \A j \in after : j < i => ~stop(j)
  IN  /\ lock = Nobody
      /\ e' = (e + UINT - back) % UINT
      /\ UNCHANGED <<buf, r, w, lock, pc, left, killed, on>>

\* C('D') shuts the machine down in this build.
Shutdown ==
  /\ lock = Nobody
  /\ on' = FALSE
  /\ UNCHANGED <<input, lock, pc, left, killed>>
-----------------------------------------------------------------------------
(* consoleread()                                                           *)

Call(p, n) ==
  /\ pc[p] = "idle" /\ ~killed[p]
  /\ pc' = [pc EXCEPT ![p] = "acquire"]
  /\ left' = [left EXCEPT ![p] = n]
  /\ UNCHANGED <<input, lock, killed, on>>

Acquire(p) ==
  /\ pc[p] = "acquire" /\ lock = Nobody
  /\ lock' = p
  /\ pc' = [pc EXCEPT ![p] = "loop"]
  /\ UNCHANGED <<input, left, killed, on>>

\* Nothing to read: return if killed, else on to sleep().
Wait(p) ==
  /\ pc[p] = "loop" /\ left[p] > 0 /\ r = w
  /\ \/ /\ killed[p]
        /\ lock' = Nobody
        /\ pc' = [pc EXCEPT ![p] = "idle"]
     \/ /\ ~killed[p]
        /\ pc' = [pc EXCEPT ![p] = "sleep"]
        /\ UNCHANGED lock
  /\ UNCHANGED <<input, left, killed, on>>

\* sleep(&input.r, &cons.lock): releases the lock and sleeps, as one step
\* for whoever wakes up under ptable.lock.
Sleep(p) ==
  /\ pc[p] = "sleep"
  /\ lock' = Nobody
  /\ pc' = [pc EXCEPT ![p] = "asleep"]
  /\ UNCHANGED <<input, left, killed, on>>

\* One character; the last one if it is '\n'.  The case of C('D') is left out:
\* consoleintr() never puts one into the ring.
ReadChar(p) ==
  /\ pc[p] = "loop" /\ left[p] > 0 /\ r # w
  /\ r' = Inc(r)
  /\ left' = [left EXCEPT ![p] = IF buf[r % INPUT_BUF] = Newline THEN 0 ELSE @ - 1]
  /\ UNCHANGED <<buf, w, e, lock, pc, killed, on>>

ReadDone(p) ==
  /\ pc[p] = "loop" /\ left[p] = 0
  /\ lock' = Nobody
  /\ pc' = [pc EXCEPT ![p] = "idle"]
  /\ UNCHANGED <<input, left, killed, on>>

\* kill() of a process in consoleread(), under ptable.lock only.
Kill(p) ==
  /\ ~killed[p]
  /\ killed' = [killed EXCEPT ![p] = TRUE]
  /\ pc' = [pc EXCEPT ![p] = IF @ = "asleep" THEN "acquire" ELSE @]
  /\ UNCHANGED <<input, lock, left, on>>
-----------------------------------------------------------------------------
Read(p) == Acquire(p) \/ Wait(p) \/ Sleep(p) \/ ReadChar(p) \/ ReadDone(p)

Intr == (\E c \in Letters \cup {CR, Newline} : Key(c)) \/ Backspace \/ KillLine

Next ==
  \/ on /\ (Intr \/ Shutdown)
  \/ on /\ \E p \in Readers : Read(p)
  \/ on /\ \E p \in Readers : Kill(p) \/ \E n \in 1 .. MaxRead : Call(p, n)
  \/ ~on /\ UNCHANGED vars

Spec == Init /\ [][Next]_vars

\* A reader that can run runs, and the spin lock starves nobody.
FairSpec == Spec /\ \A p \in Readers : SF_vars(on /\ Read(p))
-----------------------------------------------------------------------------
\* Nobody sleeps in consoleread() while there is something to read, although the
\* interrupt can come at any point of the way to sleep().
NoLostInput == \A p \in Readers : pc[p] = "asleep" => r = w

Distance(i, j) == (j + UINT - i) % UINT
Slice(i, j) == [k \in 1 .. Distance(i, j) |-> buf[(i + k - 1) % INPUT_BUF]]

Lines == INSTANCE LineInput WITH
           Size <- INPUT_BUF, ready <- Slice(r, w), line <- Slice(w, e)

\* The ring implements LineInput: with indices that wrap around, no character is
\* overwritten before it is read, and editing never reaches back into a line that
\* is ended.
IsLineInput == Lines!Spec

\* A line that is ended is read, if somebody waits for it: nobody sleeps on input.
LineRead ==
  \A p \in Readers : (pc[p] \in {"acquire", "loop", "sleep", "asleep"} /\ r # w)
                     ~> (r = w \/ pc[p] = "idle" \/ ~on)
=============================================================================
