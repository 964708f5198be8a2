-------------------------------- MODULE Pipe --------------------------------
(***************************************************************************)
(* One pipe of pipe.c: processes that hold its read end, processes that   *)
(* hold its write end, and kill() from outside.  p->lock is explicit, for *)
(* killed is read under it and written without it.  The byte counters are *)
(* unsigned integers that wrap.                                            *)
(***************************************************************************)
EXTENDS Naturals, Sequences

CONSTANTS
  Readers, Writers,   \* processes with the read end, with the write end
  Nobody,             \* p->lock is free
  Killable,           \* processes that somebody may kill()
  Bytes, NoByte,
  PIPESIZE,
  UINT,               \* counters are taken modulo UINT (2^32)
  MaxCall             \* bound: bytes asked for in one call

ASSUME PipeConstants ==
  /\ PIPESIZE \in Nat \ {0} /\ UINT \in Nat /\ MaxCall \in Nat
  /\ PIPESIZE < UINT /\ UINT % PIPESIZE = 0
  /\ Readers \cap Writers = {}
  /\ Killable \subseteq Readers \cup Writers
  /\ Nobody \notin Readers \cup Writers
  /\ NoByte \notin Bytes

VARIABLES
  data, nread, nwrite, readopen, writeopen,   \* struct pipe
  lock,       \* who holds p->lock, or Nobody
  freed,      \* the pipe was given to kfree()
  pc,         \* where each process is
  left,       \* bytes of the current call still to be copied
  killed,     \* p->killed of each process
  out         \* the byte that piperead() copied last

vars == <<data, nread, nwrite, readopen, writeopen, lock, freed, pc, left,
          killed, out>>
ring == <<data, nread, nwrite, out>>
ends == <<readopen, writeopen, freed>>

Procs == Readers \cup Writers
PC == {"idle", "acquire", "loop", "sleep", "asleep", "copy", "closed"}

\* pipealloc()
Init ==
  /\ data = [i \in 0 .. PIPESIZE - 1 |-> NoByte]
  /\ nread = 0 /\ nwrite = 0
  /\ readopen = TRUE /\ writeopen = TRUE
  /\ lock = Nobody
  /\ freed = FALSE
  /\ pc = [p \in Procs |-> "idle"]
  /\ left = [p \in Procs |-> 0]
  /\ killed = [p \in Procs |-> FALSE]
  /\ out = NoByte

Empty == nread = nwrite
Full == nwrite = (nread + PIPESIZE) % UINT

\* p->nread++ and p->nwrite++
Mut_Inc(n) == (n + 1) % PIPESIZE
Inc(n) == (n + 1) % UINT

\* Process p goes to `next' and the sleepers among S are made runnable: they
\* will reacquire p->lock at the end of sleep().
Wake(S, p, next) ==
  [q \in Procs |-> IF q = p THEN next
                   ELSE IF q \in S /\ pc[q] = "asleep" THEN "acquire" ELSE pc[q]]
Goto(p, next) == [pc EXCEPT ![p] = next]
-----------------------------------------------------------------------------
\* A process calls pipewrite() or piperead() for n bytes; trap() lets only a
\* process in that is not killed.
Call(p, n) ==
  /\ pc[p] = "idle" /\ ~killed[p]
  /\ left' = [left EXCEPT ![p] = n]
  /\ pc' = Goto(p, "acquire")
  /\ UNCHANGED <<ring, ends, lock, killed>>

\* acquire(&p->lock), at the start or at the end of sleep().
Acquire(p) ==
  /\ pc[p] = "acquire" /\ lock = Nobody
  /\ lock' = p
  /\ pc' = Goto(p, "loop")
  /\ UNCHANGED <<ring, ends, left, killed>>

\* sleep(chan, &p->lock), once it has ptable.lock: no wakeup comes between the
\* release of p->lock and SLEEPING.
Sleep(p) ==
  /\ pc[p] = "sleep"
  /\ pc' = Goto(p, "asleep")
  /\ lock' = Nobody
  /\ UNCHANGED <<ring, ends, left, killed>>

\* One turn of pipewrite()'s for loop.
WriteByte(p, v) ==
  /\ pc[p] = "loop" /\ left[p] > 0 /\ ~Full
  /\ data' = [data EXCEPT ![nwrite % PIPESIZE] = v]
  /\ nwrite' = Inc(nwrite)
  /\ left' = [left EXCEPT ![p] = @ - 1]
  /\ UNCHANGED <<nread, out, ends, lock, pc, killed>>

\* pipewrite() finds the pipe full: it fails, or wakes the readers and sleeps.
WriteFull(p) ==
  /\ pc[p] = "loop" /\ left[p] > 0 /\ Full
  /\ \/ /\ ~readopen \/ killed[p]
        /\ pc' = Goto(p, "idle")
        /\ lock' = Nobody
     \/ /\ readopen /\ ~killed[p]
        /\ pc' = Wake(Readers, p, "sleep")
        /\ UNCHANGED lock
  /\ UNCHANGED <<ring, ends, left, killed>>

\* pipewrite() has written all its bytes.
WriteDone(p) ==
  /\ pc[p] = "loop" /\ left[p] = 0
  /\ pc' = Wake(Readers, p, "idle")
  /\ lock' = Nobody
  /\ UNCHANGED <<ring, ends, left, killed>>

\* The while loop of piperead(): fail, sleep, or go on to copy.
ReadWait(p) ==
  /\ pc[p] = "loop"
  /\ \/ /\ Empty /\ writeopen /\ killed[p]
        /\ pc' = Goto(p, "idle")
        /\ lock' = Nobody
     \/ /\ Empty /\ writeopen /\ ~killed[p]
        /\ pc' = Goto(p, "sleep")
        /\ UNCHANGED lock
     \/ /\ ~(Empty /\ writeopen)
        /\ pc' = Goto(p, "copy")
        /\ UNCHANGED lock
  /\ UNCHANGED <<ring, ends, left, killed>>

\* One turn of piperead()'s for loop.
ReadByte(p) ==
  /\ pc[p] = "copy" /\ left[p] > 0 /\ ~Empty
  /\ out' = data[nread % PIPESIZE]
  /\ nread' = Inc(nread)
  /\ left' = [left EXCEPT ![p] = @ - 1]
  /\ UNCHANGED <<data, nwrite, ends, lock, pc, killed>>

\* piperead() returns what it has.
Mut_ReadDone(p) ==
  /\ pc[p] = "copy" /\ (left[p] = 0 \/ Empty)
  /\ pc' = Goto(p, "idle")
  /\ lock' = Nobody
  /\ UNCHANGED <<ring, ends, left, killed>>
ReadDone(p) ==
  /\ pc[p] = "copy" /\ (left[p] = 0 \/ Empty)
  /\ pc' = Wake(Writers, p, "idle")
  /\ lock' = Nobody
  /\ UNCHANGED <<ring, ends, left, killed>>
-----------------------------------------------------------------------------
\* The processes of p's end, and of the other.
Side(p) == IF p \in Readers THEN Readers ELSE Writers
OtherSide(p) == IF p \in Readers THEN Writers ELSE Readers
Mut_LastOfSide(p) == TRUE
LastOfSide(p) == \A q \in Side(p) \ {p} : pc[q] = "closed"

\* fileclose() by a process that does not hold the last reference.
CloseShared(p) ==
  /\ pc[p] = "idle" /\ ~LastOfSide(p)
  /\ pc' = Goto(p, "closed")
  /\ UNCHANGED <<ring, ends, lock, left, killed>>

\* The last fileclose() of an end: pipeclose().
PipeClose(p) ==
  /\ pc[p] = "idle" /\ LastOfSide(p) /\ lock = Nobody
  /\ readopen' = (readopen /\ p \notin Readers)
  /\ writeopen' = (writeopen /\ p \notin Writers)
  /\ freed' = (~readopen' /\ ~writeopen')
  /\ pc' = Wake(OtherSide(p), p, "closed")
  /\ UNCHANGED <<ring, lock, left, killed>>

Close(p) == CloseShared(p) \/ PipeClose(p)

\* kill() of a process: it takes ptable.lock, not p->lock.
Kill(p) ==
  /\ pc[p] # "closed"
  /\ killed' = [killed EXCEPT ![p] = TRUE]
  /\ pc' = Goto(p, IF pc[p] = "asleep" THEN "acquire" ELSE pc[p])
  /\ UNCHANGED <<ring, ends, lock, left>>

\* The pipe is gone.
Gone == freed /\ UNCHANGED vars
-----------------------------------------------------------------------------
Step(p) ==
  \/ Acquire(p) \/ Sleep(p)
  \/ p \in Writers /\ (WriteFull(p) \/ WriteDone(p) \/ \E v \in Bytes : WriteByte(p, v))
  \/ p \in Readers /\ (ReadWait(p) \/ ReadByte(p) \/ ReadDone(p))

Next ==
  \/ \E p \in Procs, n \in 1 .. MaxCall : Call(p, n)
  \/ \E p \in Procs : Step(p) \/ Close(p)
  \/ \E p \in Killable : Kill(p)
  \/ Gone

Spec == Init /\ [][Next]_vars

\* A process in the kernel goes on, and p->lock is not withheld from one that
\* spins on it for ever; a killed process exits, and closes its end.
Fairness ==
  \A p \in Procs : SF_vars(Step(p)) /\ SF_vars(killed[p] /\ Close(p))

FairSpec == Spec /\ Fairness
-----------------------------------------------------------------------------
\* Every variable has its type; the counters stay below UINT.
TypeOK ==
  /\ data \in [0 .. PIPESIZE - 1 -> Bytes \cup {NoByte}]
  /\ nread \in 0 .. UINT - 1 /\ nwrite \in 0 .. UINT - 1
  /\ readopen \in BOOLEAN /\ writeopen \in BOOLEAN /\ freed \in BOOLEAN
  /\ lock \in Procs \cup {Nobody}
  /\ pc \in [Procs -> PC]
  /\ left \in [Procs -> 0 .. MaxCall]
  /\ killed \in [Procs -> BOOLEAN]
  /\ out \in Bytes \cup {NoByte}

\* Nobody sleeps in a pipe for nothing: with p->lock free, a sleeping reader
\* means an empty pipe that somebody may still write, a sleeping writer a full
\* pipe that somebody may still read; so not both ends sleep.  The exception: a
\* killed writer leaves the bytes it has written without a wakeup, against "we
\* can be guaranteed that we won't miss any wakeup" (proc.c:483).
NoLostWakeup ==
  lock = Nobody =>
    /\ \A p \in Readers : pc[p] = "asleep" =>
         writeopen /\ (Empty \/ \E w \in Writers : killed[w])
    /\ \A p \in Writers : pc[p] = "asleep" => Full /\ readopen

\* p->lock works: a process that looks at the pipe holds it, and nobody looks at
\* a pipe that pipeclose() has freed.
PipeInUse ==
  /\ \A p \in Procs : pc[p] \in {"loop", "sleep", "copy"} <=> lock = p
  /\ freed => \A p \in Procs : pc[p] = "closed"

\* The pipe is intact, with counters in range, and used only under its lock and
\* before it is freed, however reads, writes, closes and kills interleave.
PipeSound == TypeOK /\ PipeInUse

\* What is in the ring, oldest byte first; it is at most PIPESIZE bytes although
\* the counters wrap.
Count == (nwrite + UINT - nread) % UINT
Contents == [i \in 1 .. Count |-> data[(nread + i - 1) % PIPESIZE]]

Queue == INSTANCE Fifo WITH Size <- PIPESIZE, queue <- Contents

\* The pipe implements a bounded queue: no byte is lost, duplicated, reordered
\* or overwritten, whoever reads and writes, and however often the counters wrap.
IsFifo == Queue!Spec

\* A killed process leaves the pipe ("Kill the process with the given pid",
\* proc.c:528; "Wake process from sleep if necessary", proc.c:540), also when
\* nobody reads or writes any more.
KilledLeaves == \A p \in Procs : killed[p] ~> pc[p] = "closed"
=============================================================================
