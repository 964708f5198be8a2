----------------------------- MODULE PartsProofs ----------------------------
(***************************************************************************)
(* Proofs about the small parts of the kernel: a pipe (Pipe), the clock    *)
(* (Ticks), panic() and cprintf() (Panic), the arguments of system calls   *)
(* (Args) and the real-time clock (Cmos).                                  *)
(***************************************************************************)
EXTENDS Pipe, Ticks, Panic, Args, Cmos, Rings, FiniteSetTheorems

-----------------------------------------------------------------------------
(* A pipe, for any processes, any PIPESIZE and any width of the counters   *)
(* that is a multiple of it: it is used under its lock and before it is    *)
(* freed, no wakeup is lost, and it is a bounded queue.                    *)

Inside == {"loop", "sleep", "copy"}

\* p->lock belongs to the one process that looks at the pipe.
LockHeld == \A p \in Procs : pc[p] \in Inside <=> lock = p

\* An end is marked closed only when nobody has it, the pipe freed when both are.
EndsClosed ==
  /\ ~readopen => \A p \in Readers : pc[p] = "closed"
  /\ ~writeopen => \A p \in Writers : pc[p] = "closed"
  /\ freed => ~readopen /\ ~writeopen

\* Who sleeps, or is about to, and what that tells about the pipe also while its lock
\* is held: then the bytes that were put in or taken out since are those of the holder,
\* which is still to call wakeup().
SleepersWait ==
  /\ \A p \in Readers : pc[p] = "asleep" =>
       /\ writeopen
       /\ \/ Empty
          \/ \E w \in Writers : killed[w]
          \/ \E w \in Writers : pc[w] = "loop"
  /\ \A p \in Writers : pc[p] = "asleep" =>
       /\ readopen
       /\ Full \/ \E q \in Readers : pc[q] = "copy"
  /\ \A p \in Readers : pc[p] = "sleep" => Empty /\ writeopen
  /\ \A p \in Writers : pc[p] = "sleep" =>
       /\ Full /\ readopen
       /\ \A q \in Readers : pc[q] # "asleep"

\* Writing keeps the counters at most PIPESIZE apart.
RingBound == Count <= PIPESIZE

PipeInv == TypeOK /\ LockHeld /\ EndsClosed /\ SleepersWait
-----------------------------------------------------------------------------
\* A new pipe has its type.
LEMMA TypeInit == Init => TypeOK
<1> SUFFICES ASSUME Init PROVE TypeOK
  BY Zenon
<1>1. 0 \in 0 .. UINT - 1 /\ 0 \in 0 .. MaxCall
  BY PipeConstants
<1>2. QED
  BY <1>1, Zenon DEF Init, TypeOK, PC, Procs

\* The steps, one by one.
LEMMA NextCases ==
  ASSUME [Next]_vars
  PROVE
    \/ \E p \in Procs, n \in 1 .. MaxCall : Call(p, n)
    \/ \E p \in Procs : Acquire(p)
    \/ \E p \in Procs : Sleep(p)
    \/ \E p \in Writers : WriteFull(p)
    \/ \E p \in Writers : WriteDone(p)
    \/ \E p \in Writers, v \in Bytes : WriteByte(p, v)
    \/ \E p \in Readers : ReadWait(p)
    \/ \E p \in Readers : ReadByte(p)
    \/ \E p \in Readers : ReadDone(p)
    \/ \E p \in Procs : CloseShared(p)
    \/ \E p \in Procs : PipeClose(p)
    \/ \E p \in Procs : Kill(p)
    \/ UNCHANGED vars
BY PipeConstants, Zenon DEF Next, Step, Close, Gone, Procs

\* Types are kept.
LEMMA TypeStep == TypeOK /\ [Next]_vars => TypeOK'
<1> SUFFICES ASSUME TypeOK, [Next]_vars PROVE TypeOK'
  BY Zenon
<1>1. ASSUME NEW p \in Procs, NEW n \in 1 .. MaxCall, Call(p, n) PROVE TypeOK'
  BY <1>1, PipeConstants DEF TypeOK, PC, Procs, ring, ends, Call, Goto
<1>2. ASSUME NEW p \in Procs, Acquire(p) PROVE TypeOK'
  BY <1>2, PipeConstants, Zenon DEF TypeOK, PC, Procs, ring, ends, Acquire, Goto
<1>3. ASSUME NEW p \in Procs, Sleep(p) PROVE TypeOK'
  BY <1>3, PipeConstants, Zenon DEF TypeOK, PC, Procs, ring, ends, Sleep, Goto
<1>4. ASSUME NEW p \in Writers, WriteFull(p) PROVE TypeOK'
  BY <1>4, PipeConstants DEF TypeOK, PC, Procs, ring, ends, WriteFull, Wake, Goto
<1>5. ASSUME NEW p \in Writers, WriteDone(p) PROVE TypeOK'
  BY <1>5, PipeConstants, Zenon DEF TypeOK, PC, Procs, ring, ends, WriteDone, Wake
<1>6. ASSUME NEW p \in Writers, NEW v \in Bytes, WriteByte(p, v) PROVE TypeOK'
  BY <1>6, PipeConstants DEF TypeOK, PC, Procs, ring, ends, WriteByte, Inc
<1>7. ASSUME NEW p \in Readers, ReadWait(p) PROVE TypeOK'
  BY <1>7, PipeConstants, Zenon DEF TypeOK, PC, Procs, ring, ends, ReadWait, Goto
<1>8. ASSUME NEW p \in Readers, ReadByte(p) PROVE TypeOK'
  BY <1>8, PipeConstants DEF TypeOK, PC, Procs, ring, ends, ReadByte, Inc
<1>9. ASSUME NEW p \in Readers, ReadDone(p) PROVE TypeOK'
  BY <1>9, PipeConstants, Zenon DEF TypeOK, PC, Procs, ring, ends, ReadDone, Wake
<1>10. ASSUME NEW p \in Procs, CloseShared(p) PROVE TypeOK'
  BY <1>10, PipeConstants, Zenon DEF TypeOK, PC, Procs, ring, ends, CloseShared, Goto
<1>11. ASSUME NEW p \in Procs, PipeClose(p) PROVE TypeOK'
  BY <1>11, PipeConstants, Zenon DEF TypeOK, PC, Procs, ring, ends, PipeClose, Wake
<1>12. ASSUME NEW p \in Procs, Kill(p) PROVE TypeOK'
  BY <1>12, PipeConstants, Zenon DEF TypeOK, PC, Procs, ring, ends, Kill, Goto
<1>13. CASE UNCHANGED vars
  BY <1>13, PipeConstants, Zenon DEF TypeOK, PC, Procs, vars
<1>14. QED
  BY <1>1, <1>2, <1>3, <1>4, <1>5, <1>6, <1>7, <1>8, <1>9, <1>10, <1>11, <1>12, <1>13, NextCases, Zenon

\* acquire(), sleep() and release() hand the lock on with the way through the code.
LEMMA LockStep == TypeOK /\ LockHeld /\ [Next]_vars => LockHeld'
<1> SUFFICES ASSUME TypeOK /\ LockHeld, [Next]_vars PROVE LockHeld'
  BY Zenon
<1>1. ASSUME NEW p \in Procs, NEW n \in 1 .. MaxCall, Call(p, n) PROVE LockHeld'
  BY <1>1, PipeConstants, Zenon DEF TypeOK, LockHeld, Inside, PC, Procs, ring, ends, Call, Goto
<1>2. ASSUME NEW p \in Procs, Acquire(p) PROVE LockHeld'
  BY <1>2, PipeConstants, Zenon DEF TypeOK, LockHeld, Inside, PC, Procs, ring, ends, Acquire, Goto
<1>3. ASSUME NEW p \in Procs, Sleep(p) PROVE LockHeld'
  BY <1>3, PipeConstants, Zenon DEF TypeOK, LockHeld, Inside, PC, Procs, ring, ends, Sleep, Goto
<1>4. ASSUME NEW p \in Writers, WriteFull(p) PROVE LockHeld'
  BY <1>4, PipeConstants DEF TypeOK, LockHeld, Inside, PC, Procs, ring, ends, WriteFull, Wake, Goto
<1>5. ASSUME NEW p \in Writers, WriteDone(p) PROVE LockHeld'
  BY <1>5, PipeConstants, Zenon DEF TypeOK, LockHeld, Inside, PC, Procs, ring, ends, WriteDone, Wake
<1>6. ASSUME NEW p \in Writers, NEW v \in Bytes, WriteByte(p, v) PROVE LockHeld'
  BY <1>6, PipeConstants, Zenon DEF TypeOK, LockHeld, Inside, PC, Procs, ring, ends, WriteByte, Inc
<1>7. ASSUME NEW p \in Readers, ReadWait(p) PROVE LockHeld'
  BY <1>7, PipeConstants DEF TypeOK, LockHeld, Inside, PC, Procs, ring, ends, ReadWait, Goto
<1>8. ASSUME NEW p \in Readers, ReadByte(p) PROVE LockHeld'
  BY <1>8, PipeConstants, Zenon DEF TypeOK, LockHeld, Inside, PC, Procs, ring, ends, ReadByte, Inc
<1>9. ASSUME NEW p \in Readers, ReadDone(p) PROVE LockHeld'
  BY <1>9, PipeConstants, Zenon DEF TypeOK, LockHeld, Inside, PC, Procs, ring, ends, ReadDone, Wake
<1>10. ASSUME NEW p \in Procs, CloseShared(p) PROVE LockHeld'
  BY <1>10, PipeConstants, Zenon DEF TypeOK, LockHeld, Inside, PC, Procs, ring, ends, CloseShared, Goto
<1>11. ASSUME NEW p \in Procs, PipeClose(p) PROVE LockHeld'
  BY <1>11, PipeConstants, Zenon DEF TypeOK, LockHeld, Inside, PC, Procs, ring, ends, PipeClose, Wake
<1>12. ASSUME NEW p \in Procs, Kill(p) PROVE LockHeld'
  BY <1>12, PipeConstants, Zenon DEF TypeOK, LockHeld, Inside, PC, Procs, ring, ends, Kill, Goto
<1>13. CASE UNCHANGED vars
  BY <1>13, PipeConstants, ZenonT(40) DEF TypeOK, LockHeld, Inside, PC, Procs, vars
<1>14. QED
  BY <1>1, <1>2, <1>3, <1>4, <1>5, <1>6, <1>7, <1>8, <1>9, <1>10, <1>11, <1>12, <1>13, NextCases, Zenon

\* pipeclose() runs for the last descriptor of an end, and nobody comes back.
LEMMA ClosedStep == TypeOK /\ EndsClosed /\ [Next]_vars => EndsClosed'
<1> SUFFICES ASSUME TypeOK /\ EndsClosed, [Next]_vars PROVE EndsClosed'
  BY Zenon
<1>1. ASSUME NEW p \in Procs, NEW n \in 1 .. MaxCall, Call(p, n) PROVE EndsClosed'
  BY <1>1, PipeConstants, Zenon DEF TypeOK, EndsClosed, PC, Procs, ring, ends, Call, Goto
<1>2. ASSUME NEW p \in Procs, Acquire(p) PROVE EndsClosed'
  BY <1>2, PipeConstants, Zenon DEF TypeOK, EndsClosed, PC, Procs, ring, ends, Acquire, Goto
<1>3. ASSUME NEW p \in Procs, Sleep(p) PROVE EndsClosed'
  BY <1>3, PipeConstants, Zenon DEF TypeOK, EndsClosed, PC, Procs, ring, ends, Sleep, Goto
<1>4. ASSUME NEW p \in Writers, WriteFull(p) PROVE EndsClosed'
  BY <1>4, PipeConstants, Zenon DEF TypeOK, EndsClosed, PC, Procs, ring, ends, WriteFull, Wake, Goto
<1>5. ASSUME NEW p \in Writers, WriteDone(p) PROVE EndsClosed'
  BY <1>5, PipeConstants, Zenon DEF TypeOK, EndsClosed, PC, Procs, ring, ends, WriteDone, Wake
<1>6. ASSUME NEW p \in Writers, NEW v \in Bytes, WriteByte(p, v) PROVE EndsClosed'
  BY <1>6, PipeConstants, Zenon DEF TypeOK, EndsClosed, PC, Procs, ring, ends, WriteByte, Inc
<1>7. ASSUME NEW p \in Readers, ReadWait(p) PROVE EndsClosed'
  BY <1>7, PipeConstants, Zenon DEF TypeOK, EndsClosed, PC, Procs, ring, ends, ReadWait, Goto
<1>8. ASSUME NEW p \in Readers, ReadByte(p) PROVE EndsClosed'
  BY <1>8, PipeConstants, Zenon DEF TypeOK, EndsClosed, PC, Procs, ring, ends, ReadByte, Inc
<1>9. ASSUME NEW p \in Readers, ReadDone(p) PROVE EndsClosed'
  BY <1>9, PipeConstants, Zenon DEF TypeOK, EndsClosed, PC, Procs, ring, ends, ReadDone, Wake
<1>10. ASSUME NEW p \in Procs, CloseShared(p) PROVE EndsClosed'
  BY <1>10, PipeConstants, Zenon DEF TypeOK, EndsClosed, PC, Procs, ring, ends, CloseShared, Goto
<1>11. ASSUME NEW p \in Procs, PipeClose(p) PROVE EndsClosed'
  BY <1>11, PipeConstants, Zenon DEF TypeOK, EndsClosed, PC, Procs, ring, ends, PipeClose, Wake, LastOfSide, Side, OtherSide
<1>12. ASSUME NEW p \in Procs, Kill(p) PROVE EndsClosed'
  BY <1>12, PipeConstants, Zenon DEF TypeOK, EndsClosed, PC, Procs, ring, ends, Kill, Goto
<1>13. CASE UNCHANGED vars
  BY <1>13, PipeConstants, Zenon DEF TypeOK, EndsClosed, PC, Procs, vars
<1>14. QED
  BY <1>1, <1>2, <1>3, <1>4, <1>5, <1>6, <1>7, <1>8, <1>9, <1>10, <1>11, <1>12, <1>13, NextCases, Zenon

\* Nobody goes to sleep for nothing, and who changes the pipe calls wakeup() before the lock is
\* released, or leaves as a killed writer.
LEMMA SleepStep == PipeInv /\ [Next]_vars => SleepersWait'
<1> SUFFICES ASSUME PipeInv, [Next]_vars PROVE SleepersWait'
  BY Zenon
<1>1. ASSUME NEW p \in Procs, NEW n \in 1 .. MaxCall, Call(p, n) PROVE SleepersWait'
  BY <1>1, PipeConstants, Zenon DEF PipeInv, TypeOK, LockHeld, EndsClosed, SleepersWait, Inside, Procs, Empty, Full, ring, ends, Call, Goto
<1>2. ASSUME NEW p \in Procs, Acquire(p) PROVE SleepersWait'
  BY <1>2, PipeConstants, Zenon DEF PipeInv, TypeOK, LockHeld, EndsClosed, SleepersWait, Inside, Procs, Empty, Full, ring, ends, Acquire, Goto
<1>3. ASSUME NEW p \in Procs, Sleep(p) PROVE SleepersWait'
  BY <1>3, PipeConstants, Zenon DEF PipeInv, TypeOK, LockHeld, EndsClosed, SleepersWait, Inside, Procs, Empty, Full, ring, ends, Sleep, Goto
<1>4. ASSUME NEW p \in Writers, WriteFull(p) PROVE SleepersWait'
  BY <1>4, PipeConstants, SMTT(60) DEF PipeInv, TypeOK, LockHeld, EndsClosed, SleepersWait, Inside, Procs, Empty, Full, ring, ends, WriteFull, Wake, Goto
<1>5. ASSUME NEW p \in Writers, WriteDone(p) PROVE SleepersWait'
  BY <1>5, PipeConstants, Zenon DEF PipeInv, TypeOK, LockHeld, EndsClosed, SleepersWait, Inside, Procs, Empty, Full, ring, ends, WriteDone, Wake
<1>6. ASSUME NEW p \in Writers, NEW v \in Bytes, WriteByte(p, v) PROVE SleepersWait'
  BY <1>6, PipeConstants, Zenon DEF PipeInv, TypeOK, LockHeld, EndsClosed, SleepersWait, Inside, Procs, Empty, Full, ring, ends, WriteByte, Inc
<1>7. ASSUME NEW p \in Readers, ReadWait(p) PROVE SleepersWait'
  BY <1>7, PipeConstants DEF PipeInv, TypeOK, LockHeld, EndsClosed, SleepersWait, Inside, Procs, Empty, Full, ring, ends, ReadWait, Goto
<1>8. ASSUME NEW p \in Readers, ReadByte(p) PROVE SleepersWait'
  BY <1>8, PipeConstants, Zenon DEF PipeInv, TypeOK, LockHeld, EndsClosed, SleepersWait, Inside, Procs, Empty, Full, ring, ends, ReadByte, Inc
<1>9. ASSUME NEW p \in Readers, ReadDone(p) PROVE SleepersWait'
  BY <1>9, PipeConstants, Zenon DEF PipeInv, TypeOK, LockHeld, EndsClosed, SleepersWait, Inside, Procs, Empty, Full, ring, ends, ReadDone, Wake
<1>10. ASSUME NEW p \in Procs, CloseShared(p) PROVE SleepersWait'
  BY <1>10, PipeConstants, Zenon DEF PipeInv, TypeOK, LockHeld, EndsClosed, SleepersWait, Inside, Procs, Empty, Full, ring, ends, CloseShared, Goto
<1>11. ASSUME NEW p \in Procs, PipeClose(p) PROVE SleepersWait'
  BY <1>11, PipeConstants, Zenon DEF PipeInv, TypeOK, LockHeld, EndsClosed, SleepersWait, Inside, Procs, Empty, Full, ring, ends, PipeClose, Wake, LastOfSide, Side, OtherSide
<1>12. ASSUME NEW p \in Procs, Kill(p) PROVE SleepersWait'
  BY <1>12, PipeConstants, Zenon DEF PipeInv, TypeOK, LockHeld, EndsClosed, SleepersWait, Inside, Procs, Empty, Full, ring, ends, Kill, Goto
<1>13. CASE UNCHANGED vars
  BY <1>13, PipeConstants, Zenon DEF PipeInv, TypeOK, LockHeld, EndsClosed, SleepersWait, Inside, Procs, Empty, Full, ring, ends, vars
<1>14. QED
  BY <1>1, <1>2, <1>3, <1>4, <1>5, <1>6, <1>7, <1>8, <1>9, <1>10, <1>11, <1>12, <1>13, NextCases, Zenon

\* The inductive invariant.
LEMMA PipeInvHolds == Spec => []PipeInv
<1>1. Init => PipeInv
  <2> SUFFICES ASSUME Init PROVE PipeInv
    BY Zenon
  <2>1. TypeOK
    BY TypeInit, Zenon
  <2>2. LockHeld
    BY PipeConstants, Zenon DEF Init, LockHeld, Inside, Procs
  <2>3. EndsClosed /\ SleepersWait
    BY Zenon DEF Init, EndsClosed, SleepersWait, Procs
  <2>4. QED
    BY <2>1, <2>2, <2>3, Zenon DEF PipeInv
<1>2. PipeInv /\ [Next]_vars => PipeInv'
  BY TypeStep, LockStep, ClosedStep, SleepStep, Zenon DEF PipeInv
<1>3. QED
  BY <1>1, <1>2, PTL DEF Spec

\* The pipe is used only under p->lock, by one process at a time, and never after
\* pipeclose() has freed it; its counters stay in range.
THEOREM PipeUsedSafely == Spec => []PipeSound
<1>1. PipeInv => PipeSound
  BY Zenon DEF PipeInv, PipeSound, PipeInUse, LockHeld, Inside, EndsClosed, Procs
<1>2. QED
  BY <1>1, PipeInvHolds, PTL

\* No wakeup of a pipe is lost, but those that a killed writer owes: whoever sleeps with
\* p->lock free waits for something that has not happened.
THEOREM WakeupsKept == Spec => []NoLostWakeup
<1>1. PipeInv => NoLostWakeup
  <2> SUFFICES ASSUME PipeInv, lock = Nobody PROVE NoLostWakeup
    BY Zenon DEF NoLostWakeup
  <2>1. \A p \in Procs : pc[p] \notin Inside
    BY PipeConstants, Zenon DEF PipeInv, LockHeld, Procs
  <2>2. QED
    BY <2>1, Zenon DEF PipeInv, SleepersWait, NoLostWakeup, Inside, Procs
<1>2. QED
  BY <1>1, PipeInvHolds, PTL
-----------------------------------------------------------------------------
(* The ring implements the queue.                                          *)

\* The counters and the places of the pipe form a ring.
LEMMA PipeRing ==
  ASSUME TypeOK
  PROVE  /\ Ring(UINT, PIPESIZE, nread, nwrite)
         /\ Count = Ahead(nread, nwrite, UINT)
         /\ Contents = RingSeq(data, nread, nwrite, UINT, PIPESIZE)
         /\ Count \in Nat /\ Contents \in Seq(Bytes \cup {NoByte}) /\ Len(Contents) = Count
<1>1. Ring(UINT, PIPESIZE, nread, nwrite)
  BY PipeConstants DEF TypeOK, Ring
<1>2. Count = Ahead(nread, nwrite, UINT) /\ Contents = RingSeq(data, nread, nwrite, UINT, PIPESIZE)
  BY Zenon DEF Count, Contents, Ahead, RingSeq
<1>3. Count \in Nat /\ Holds(Contents, Count, data, nread, PIPESIZE, Bytes \cup {NoByte})
  BY <1>1, <1>2, RingIsSeq, Zenon DEF TypeOK
<1>4. QED
  BY <1>1, <1>2, <1>3, Zenon DEF Holds

\* pipewrite() puts its byte behind the others, into a place that none of them has.
LEMMA WriteByteStep ==
  ASSUME TypeOK, RingBound, NEW p \in Writers, NEW v \in Bytes, WriteByte(p, v)
  PROVE  RingBound' /\ Queue!Put(v)
<1>1. /\ nread' = nread /\ nwrite' = (nwrite + 1) % UINT /\ nwrite # (nread + PIPESIZE) % UINT
      /\ data' = [data EXCEPT ![nwrite % PIPESIZE] = v] /\ out' = out
  BY Zenon DEF WriteByte, Inc, Full
<1>2. /\ UINT \in Nat \ {0} /\ PIPESIZE \in 1 .. UINT - 1 /\ PIPESIZE < UINT
      /\ nread \in 0 .. UINT - 1 /\ nwrite \in 0 .. UINT - 1
      /\ data \in [0 .. PIPESIZE - 1 -> Bytes \cup {NoByte}] /\ v \in Bytes \cup {NoByte}
  BY PipeConstants DEF TypeOK
<1>3. Count # PIPESIZE
  BY <1>1, <1>2, AheadFull, PipeRing, Zenon
<1>4. Count \in Nat /\ Count < PIPESIZE
  BY <1>2, <1>3, PipeRing DEF RingBound
<1>5. Count' = Count + 1
  <2>1. Ahead(nread, nwrite, UINT) < UINT - 1
    BY <1>2, <1>4, PipeRing
  <2>2. Ahead(nread, (nwrite + 1) % UINT, UINT) = Count + 1
    BY <1>2, <2>1, AheadGrows, PipeRing, Zenon
  <2>3. QED
    BY <1>1, <2>2, Zenon DEF Count, Ahead
<1>6. Contents' = Append(Contents, v)
  <2>1. IsAfter(v, RingSeq(data, nread, nwrite, UINT, PIPESIZE),
             RingSeq(Stored(data, nwrite, v, PIPESIZE), nread, (nwrite + 1) % UINT, UINT, PIPESIZE))
    <3>1. Ring(UINT, PIPESIZE, nread, nwrite) /\ RingRoom(UINT, PIPESIZE, nread, nwrite)
      BY <1>2, <1>4, PipeRing, Zenon DEF RingRoom
    <3> DEFINE B == Bytes \cup {NoByte}
    <3>2. data \in [0 .. PIPESIZE - 1 -> B] /\ v \in B
      BY <1>2, Zenon
    <3> HIDE DEF B
    <3>3. QED
      BY <3>1, <3>2, RingPut, Zenon
  <2>2. QED
    BY <1>1, <2>1, Zenon DEF Contents, Count, RingSeq, Ahead, Stored, IsAfter
<1>7. QED
  BY <1>1, <1>2, <1>4, <1>5, <1>6, PipeRing DEF RingBound, Queue!Put

\* piperead() takes the oldest byte.
LEMMA ReadByteStep ==
  ASSUME TypeOK, RingBound, NEW p \in Readers, ReadByte(p)
  PROVE  RingBound' /\ Queue!Get
<1>1. /\ nread' = (nread + 1) % UINT /\ nwrite' = nwrite /\ nread # nwrite
      /\ data' = data /\ out' = data[nread % PIPESIZE]
  BY Zenon DEF ReadByte, Inc, Empty
<1>2. /\ UINT \in Nat \ {0} /\ PIPESIZE \in Nat /\ nread \in 0 .. UINT - 1 /\ nwrite \in 0 .. UINT - 1
      /\ data \in [0 .. PIPESIZE - 1 -> Bytes \cup {NoByte}]
  BY PipeConstants DEF TypeOK
<1>3. Count' = Count - 1
  <2>1. Ahead((nread + 1) % UINT, nwrite, UINT) = Count - 1
    BY <1>1, <1>2, AheadShrinks, PipeRing, Zenon
  <2>2. QED
    BY <1>1, <2>1, Zenon DEF Count, Ahead
<1>4. /\ Contents # <<>> /\ Head(Contents) = data[nread % PIPESIZE]
      /\ Contents' = Tail(Contents)
  <2> DEFINE s == RingSeq(data, nread, nwrite, UINT, PIPESIZE)
  <2>1. IsBefore(data[nread % PIPESIZE], RingSeq(data, (nread + 1) % UINT, nwrite, UINT, PIPESIZE), s)
    <3>1. Ring(UINT, PIPESIZE, nread, nwrite)
      BY PipeRing, Zenon
    <3>2. QED
      BY <1>1, <1>2, <3>1, RingGet, Zenon
  <2>2. QED
    BY <1>1, <2>1, Zenon DEF Contents, Count, RingSeq, Ahead, IsBefore
<1>5. QED
  BY <1>1, <1>2, <1>3, <1>4, PipeRing DEF RingBound, Queue!Get

\* Every step keeps the ring within its bound and is a step of the queue, or none.
LEMMA RingStep ==
  TypeOK /\ RingBound /\ [Next]_vars => RingBound' /\ [Queue!Next]_<<Contents, out>>
<1> SUFFICES ASSUME TypeOK, RingBound, [Next]_vars
             PROVE  RingBound' /\ [Queue!Next]_<<Contents, out>>
  BY Zenon
<1>0. ASSUME UNCHANGED ring PROVE RingBound' /\ UNCHANGED <<Contents, out>>
  BY <1>0, Zenon DEF ring, RingBound, Count, Contents
<1>1. ASSUME NEW p \in Procs, NEW n \in 1 .. MaxCall, Call(p, n) PROVE RingBound' /\ [Queue!Next]_<<Contents, out>>
  BY <1>0, <1>1, Zenon DEF Call
<1>2. ASSUME NEW p \in Procs, Acquire(p) PROVE RingBound' /\ [Queue!Next]_<<Contents, out>>
  BY <1>0, <1>2, Zenon DEF Acquire
<1>3. ASSUME NEW p \in Procs, Sleep(p) PROVE RingBound' /\ [Queue!Next]_<<Contents, out>>
  BY <1>0, <1>3, Zenon DEF Sleep
<1>4. ASSUME NEW p \in Writers, WriteFull(p) PROVE RingBound' /\ [Queue!Next]_<<Contents, out>>
  BY <1>0, <1>4, Zenon DEF WriteFull
<1>5. ASSUME NEW p \in Writers, WriteDone(p) PROVE RingBound' /\ [Queue!Next]_<<Contents, out>>
  BY <1>0, <1>5, Zenon DEF WriteDone
<1>6. ASSUME NEW p \in Writers, NEW v \in Bytes, WriteByte(p, v) PROVE RingBound' /\ [Queue!Next]_<<Contents, out>>
  BY <1>6, WriteByteStep, Zenon DEF Queue!Next
<1>7. ASSUME NEW p \in Readers, ReadWait(p) PROVE RingBound' /\ [Queue!Next]_<<Contents, out>>
  BY <1>0, <1>7, Zenon DEF ReadWait
<1>8. ASSUME NEW p \in Readers, ReadByte(p) PROVE RingBound' /\ [Queue!Next]_<<Contents, out>>
  BY <1>8, ReadByteStep, Zenon DEF Queue!Next
<1>9. ASSUME NEW p \in Readers, ReadDone(p) PROVE RingBound' /\ [Queue!Next]_<<Contents, out>>
  BY <1>0, <1>9, Zenon DEF ReadDone
<1>10. ASSUME NEW p \in Procs, CloseShared(p) PROVE RingBound' /\ [Queue!Next]_<<Contents, out>>
  BY <1>0, <1>10, Zenon DEF CloseShared
<1>11. ASSUME NEW p \in Procs, PipeClose(p) PROVE RingBound' /\ [Queue!Next]_<<Contents, out>>
  BY <1>0, <1>11, Zenon DEF PipeClose
<1>12. ASSUME NEW p \in Procs, Kill(p) PROVE RingBound' /\ [Queue!Next]_<<Contents, out>>
  BY <1>0, <1>12, Zenon DEF Kill
<1>13. CASE UNCHANGED vars
  BY <1>0, <1>13, Zenon DEF vars, ring
<1>14. QED
  BY <1>1, <1>2, <1>3, <1>4, <1>5, <1>6, <1>7, <1>8, <1>9, <1>10, <1>11, <1>12, <1>13, NextCases, ZenonT(40)

\* The pipe implements the bounded queue of Fifo: bytes come out in the order in which they
\* went in, each once, for any counter width that is a multiple of PIPESIZE.
THEOREM PipeIsFifo == Spec => IsFifo
<1>1. Init => RingBound /\ Queue!Init
  <2> SUFFICES ASSUME Init PROVE RingBound /\ Queue!Init
    BY Zenon
  <2>1. Count = 0
    BY PipeConstants, AheadIs, TypeInit, PipeRing DEF Init
  <2>2. Contents = <<>>
    BY <2>1, TypeInit, PipeRing
  <2>3. QED
    BY <2>1, <2>2, PipeConstants DEF RingBound, Queue!Init, Init
<1>2. TypeOK /\ RingBound /\ [Next]_vars => TypeOK' /\ RingBound' /\ [Queue!Next]_<<Contents, out>>
  BY TypeStep, RingStep, Zenon
<1>3. QED
  BY <1>1, <1>2, TypeInit, PTL DEF Spec, IsFifo, Queue!Spec
-----------------------------------------------------------------------------
(* The clock.                                                              *)

\* The count before the last tick.
LastTicks == (ticks + WORD - 1) % WORD

\* The interrupts of CPU c since it yielded are the ticks since the last that SCHED_INTERVAL
\* divides: up to this one if c has taken its interrupt of this tick, up to the last if not.
SliceInv ==
  /\ ticks \in 0 .. WORD - 1
  /\ slice \in [TickCPUs -> Nat]
  /\ took \subseteq TickCPUs
  /\ \A c \in TickCPUs :
       slice[c] = (IF c \in took THEN ticks ELSE LastTicks) % SCHED_INTERVAL

\* The tick before the next one is this one.
LEMMA LastOfNext ==
  ASSUME NEW n \in Nat \ {0}, NEW t \in 0 .. n - 1
  PROVE  /\ (t + 1) % n \in 0 .. n - 1 /\ (((t + 1) % n) + n - 1) % n = t
         /\ t # 0 => (t + n - 1) % n = t - 1
<1>1. (t + 1) % n = IF t + 1 = n THEN 0 ELSE t + 1
  BY IncWraps, Zenon
<1>2. CASE t + 1 = n
  <2>1. n - 1 \in 0 .. n - 1 /\ ((t + 1) % n) + n - 1 = n - 1
    BY <1>1, <1>2
  <2>2. (n - 1) % n = n - 1
    BY <2>1, ModSmall, Zenon
  <2>3. t # 0 => (t + n - 1) % n = t - 1
    <3> SUFFICES ASSUME t # 0 PROVE (t + n - 1) % n = t - 1
      BY Zenon
    <3> DEFINE x == t + n - 1
    <3>1. x \in n .. 2 * n - 1 /\ x - n = t - 1
      OBVIOUS
    <3> HIDE DEF x
    <3>2. QED
      BY <3>1, ModWrap, Zenon DEF x
  <2>4. QED
    BY SMTT(30), <1>1, <1>2, <2>1, <2>2, <2>3
<1>3. CASE t + 1 # n
  <2>1. (t + 1) % n = t + 1 /\ t + 1 + n - 1 = t + n /\ t + n \in n .. 2 * n - 1
    BY <1>1, <1>3
  <2>2. (t + n) % n = t
    BY <2>1, ModWrap
  <2>3. t # 0 => (t + n - 1) % n = t - 1
    <3> SUFFICES ASSUME t # 0 PROVE (t + n - 1) % n = t - 1
      OBVIOUS
    <3> DEFINE x == t + n - 1
    <3>1. x \in n .. 2 * n - 1 /\ x - n = t - 1
      OBVIOUS
    <3> HIDE DEF x
    <3>2. QED
      BY <3>1, ModWrap DEF x
  <2>4. QED
    BY <1>3, <2>1, <2>2, <2>3
<1>4. QED
  BY <1>2, <1>3, Zenon

\* A count that the interval does not divide is one further in the interval than the last.
LEMMA NextInSlice ==
  ASSUME NEW n \in Nat \ {0}, NEW t \in Nat \ {0}, t % n # 0
  PROVE  ((t - 1) % n) + 1 = t % n
<1> DEFINE q == t \div n
           m == t % n
<1>1. q \in Nat /\ m \in 0 .. n - 1 /\ t = n * q + m
  BY DivMod, Zenon
<1> HIDE DEF q, m
<1>2. m # 0
  BY DEF m
<1>3. m - 1 \in 0 .. n - 1 /\ t - 1 = n * q + (m - 1)
  BY <1>1, <1>2
<1>4. (n * q + (m - 1)) % n = m - 1
  BY <1>1, <1>3, ModUnique, Zenon
<1>5. ((t - 1) % n) + 1 = m
  BY <1>1, <1>3, <1>4
<1>6. QED
  BY <1>5, Zenon DEF m

\* The invariant is kept.
LEMMA SliceStep == SliceInv /\ [TickNext]_tickVars => SliceInv'
<1> SUFFICES ASSUME SliceInv, [TickNext]_tickVars PROVE SliceInv'
  OBVIOUS
<1>0. WORD \in Nat \ {0} /\ SCHED_INTERVAL \in Nat \ {0} /\ ticks \in 0 .. WORD - 1
  BY TickConstants, Zenon DEF SliceInv
<1>1. CASE Tick
  <2>1. /\ ticks' = (ticks + 1) % WORD /\ took = TickCPUs /\ took' = {} /\ slice' = slice
    BY <1>1, Zenon DEF Tick
  <2>2. ticks' \in 0 .. WORD - 1 /\ LastTicks' = ticks
    BY <1>0, <2>1, LastOfNext, Zenon DEF LastTicks
  <2>3. QED
    BY <2>1, <2>2, Zenon DEF SliceInv
<1>2. ASSUME NEW c \in TickCPUs, TimerIntr(c) PROVE SliceInv'
  <2>1. /\ c \notin took /\ took' = took \cup {c} /\ ticks' = ticks
        /\ slice' = [slice EXCEPT ![c] = IF Yields(c) THEN 0 ELSE @ + 1]
    BY <1>2 DEF TimerIntr
  <2>2. slice[c] = LastTicks % SCHED_INTERVAL
    BY <2>1 DEF SliceInv
  <2>3. slice'[c] = ticks % SCHED_INTERVAL
    <3>1. CASE Yields(c)
      BY <2>1, <3>1, Zenon DEF Yields, SliceInv
    <3>2. CASE ~Yields(c)
      <4>1. ticks % SCHED_INTERVAL # 0
        BY <3>2, Zenon DEF Yields
      <4>2. ticks # 0
        <5>1. 0 \in 0 .. SCHED_INTERVAL - 1
          BY <1>0
        <5>2. 0 % SCHED_INTERVAL = 0
          BY <1>0, <5>1, ModSmall, Zenon
        <5>3. QED
          BY <4>1, <5>2, Zenon
      <4>3. LastTicks = ticks - 1
        BY <1>0, <4>2, LastOfNext, Zenon DEF LastTicks
      <4>4. ((ticks - 1) % SCHED_INTERVAL) + 1 = ticks % SCHED_INTERVAL
        <5>1. ticks \in Nat \ {0}
          BY <1>0, <4>2
        <5>2. QED
          BY <1>0, <4>1, <5>1, NextInSlice, Zenon
      <4>5. QED
        BY <2>1, <2>2, <3>2, <4>3, <4>4, Zenon DEF SliceInv
    <3>3. QED
      BY <3>1, <3>2
  <2>4. slice' \in [TickCPUs -> Nat] /\ took' \subseteq TickCPUs
    BY <2>1 DEF SliceInv
  <2>5. ASSUME NEW d \in TickCPUs
        PROVE  slice'[d] = (IF d \in took' THEN ticks' ELSE LastTicks') % SCHED_INTERVAL
    <3>1. CASE d = c
      BY <2>1, <2>3, <3>1, Zenon
    <3>2. CASE d # c
      BY <2>1, <3>2, Zenon DEF SliceInv, LastTicks
    <3>3. QED
      BY <3>1, <3>2
  <2>6. QED
    BY <1>0, <2>1, <2>4, <2>5 DEF SliceInv
<1>3. CASE UNCHANGED <<ticks, took, slice>>
  BY <1>3, Zenon DEF SliceInv, LastTicks
<1>4. CASE WakeSleepers
  BY <1>3, <1>4, Zenon DEF WakeSleepers
<1>5. ASSUME NEW p \in Sleepers, NapStep(p) \/ KillNap(p) \/ \E n \in Naps : SysSleep(p, n)
      PROVE  SliceInv'
  BY <1>3, <1>5, Zenon DEF NapStep, NapTest, NapSleep, NapReturn, KillNap, SysSleep
<1>6. QED
  BY <1>1, <1>2, <1>3, <1>4, <1>5 DEF TickNext, tickVars

\* No process keeps a CPU for more than SCHED_INTERVAL of its timer interrupts, for any number
\* of CPUs and any interval, also when ticks wraps around at a count it does not divide.
THEOREM SliceAlwaysBounded == TickSpec => []SliceBounded
<1>1. TickInit => SliceInv
  <2> SUFFICES ASSUME TickInit PROVE SliceInv
    OBVIOUS
  <2>1. 0 \in 0 .. SCHED_INTERVAL - 1 /\ 0 \in 0 .. WORD - 1
    BY TickConstants
  <2>2. 0 % SCHED_INTERVAL = 0
    BY <2>1, TickConstants, ModSmall, Zenon
  <2>3. QED
    BY <2>1, <2>2, Zenon DEF TickInit, SliceInv
<1>2. SliceInv => SliceBounded
  <2> SUFFICES ASSUME SliceInv, NEW c \in TickCPUs PROVE slice[c] <= SCHED_INTERVAL
    BY DEF SliceBounded
  <2>1. LastTicks \in Nat /\ ticks \in Nat
    BY TickConstants DEF SliceInv, LastTicks
  <2>2. PICK t \in Nat : slice[c] = t % SCHED_INTERVAL
    BY <2>1, Zenon DEF SliceInv
  <2>3. QED
    BY <2>2, TickConstants, DivMod
<1>3. QED
  BY <1>1, <1>2, SliceStep, PTL DEF TickSpec

\* ticks - ticks0 grows by at most one with a tick.
LEMMA AheadTick ==
  ASSUME NEW u \in Nat \ {0}, NEW a \in 0 .. u - 1, NEW b \in 0 .. u - 1
  PROVE  Ahead(a, (b + 1) % u, u) <= Ahead(a, b, u) + 1
<1> DEFINE c == (b + 1) % u
           d == Ahead(a, b, u)
<1>1. c = IF b + 1 = u THEN 0 ELSE b + 1
  BY IncWraps, Zenon
<1>2. d = IF b >= a THEN b - a ELSE b + u - a
  BY AheadIs, Zenon
<1> HIDE DEF c, d
<1>3. c \in 0 .. u - 1
  BY <1>1
<1>4. Ahead(a, c, u) = IF c >= a THEN c - a ELSE c + u - a
  BY <1>3, AheadIs, Zenon
<1>5. Ahead(a, c, u) <= d + 1
  BY <1>1, <1>2, <1>4
<1>6. QED
  BY <1>5, Zenon DEF c, d

Nap == [pc : {"idle", "test", "sleep", "asleep", "done", "failed"}, t0 : 0 .. WORD - 1, n : Nat,
        killed : BOOLEAN, elapsed : Nat, waited : Nat]

\* What sys_sleep() computes from ticks is never more than the time that has passed, up to the
\* n ticks that it waits for.
TimeRight(s, t) == s.elapsed >= s.n \/ s.elapsed >= Ahead(s.t0, t, WORD)

NapInv ==
  /\ ticks \in 0 .. WORD - 1
  /\ nap \in [Sleepers -> Nap]
  /\ \A p \in Sleepers : nap[p].pc \in {"test", "sleep", "asleep"} => TimeRight(nap[p], ticks)
  /\ NeverEarly

\* The invariant is kept.
LEMMA NapInvStep == NapInv /\ [TickNext]_tickVars => NapInv'
<1> SUFFICES ASSUME NapInv, [TickNext]_tickVars PROVE NapInv'
  OBVIOUS
<1>0. WORD \in Nat \ {0} /\ 0 \in 0 .. WORD - 1 /\ ticks \in 0 .. WORD - 1
  BY TickConstants DEF NapInv
<1>1. CASE Tick
  <2>1. ticks' = (ticks + 1) % WORD /\ ticks' \in 0 .. WORD - 1
    <3>1. ticks + 1 \in Nat
      BY <1>0
    <3>2. (ticks + 1) % WORD \in 0 .. WORD - 1
      BY <1>0, <3>1, DivMod, Zenon
    <3>3. QED
      BY <1>1, <3>2, Zenon DEF Tick
  <2>2. ASSUME NEW p \in Sleepers
        PROVE  /\ nap'[p] \in Nap
               /\ nap'[p].pc \in {"test", "sleep", "asleep"} => TimeRight(nap'[p], ticks')
               /\ nap'[p].pc = "done" => nap'[p].elapsed >= nap'[p].n
    <3> DEFINE s == nap[p]
               t == nap'[p]
    <3>1. CASE s.pc = "idle"
      BY <1>1, <3>1, Zenon DEF Tick, NapInv
    <3>2. CASE s.pc # "idle"
      <4>1. t = [s EXCEPT !.elapsed = IF @ < s.n THEN @ + 1 ELSE @, !.waited = IF Waiting(p) THEN @ + 1 ELSE 0]
        BY <1>1, <3>2, Zenon DEF Tick
      <4>2. s \in Nap
        BY Zenon DEF NapInv
      <4>3. Ahead(s.t0, ticks', WORD) <= Ahead(s.t0, ticks, WORD) + 1
        BY <1>0, <2>1, <4>2, AheadTick, Zenon DEF Nap
      <4>4. Ahead(s.t0, ticks, WORD) \in Int /\ Ahead(s.t0, ticks', WORD) \in Int
        BY <1>0, <2>1, <4>2, AheadIs DEF Nap
      <4>5. /\ s.pc \in {"test", "sleep", "asleep"} => TimeRight(s, ticks)
            /\ s.pc = "done" => s.elapsed >= s.n
        BY Zenon DEF NapInv, NeverEarly
      <4> HIDE DEF s, t
      <4>6. /\ t \in Nap /\ t.pc = s.pc /\ t.t0 = s.t0 /\ t.n = s.n
            /\ t.elapsed = IF s.elapsed < s.n THEN s.elapsed + 1 ELSE s.elapsed
        <5> DEFINE x == IF s.elapsed < s.n THEN s.elapsed + 1 ELSE s.elapsed
                   y == IF Waiting(p) THEN s.waited + 1 ELSE 0
        <5>1. x \in Nat /\ y \in Nat
          BY <4>2 DEF Nap
        <5>2. t = [s EXCEPT !.elapsed = x, !.waited = y]
          BY <4>1, Zenon
        <5> HIDE DEF x, y
        <5>3. t \in Nap /\ t.pc = s.pc /\ t.t0 = s.t0 /\ t.n = s.n /\ t.elapsed = x
          BY <4>2, <5>1, <5>2, Zenon DEF Nap
        <5>4. QED
          BY <5>3, Zenon DEF x
      <4>7. /\ t.pc \in {"test", "sleep", "asleep"} => TimeRight(t, ticks')
            /\ t.pc = "done" => t.elapsed >= t.n
        BY <4>2, <4>3, <4>4, <4>5, <4>6 DEF TimeRight, Nap
      <4>8. QED
        BY <4>6, <4>7, Zenon DEF t
    <3>3. QED
      BY <3>1, <3>2, Zenon
  <2>3. nap' = [p \in Sleepers |-> nap'[p]]
    BY <1>1, Zenon DEF Tick
  <2>4. QED
    BY <2>1, <2>2, <2>3, Zenon DEF NapInv, NeverEarly
<1>2. CASE WakeSleepers
  <2>1. ASSUME NEW p \in Sleepers
        PROVE  /\ nap'[p] \in Nap
               /\ nap'[p].pc \in {"test", "sleep", "asleep"} => TimeRight(nap'[p], ticks')
               /\ nap'[p].pc = "done" => nap'[p].elapsed >= nap'[p].n
    BY <1>2, Zenon DEF WakeSleepers, Woken, NapInv, Nap, NeverEarly, TimeRight
  <2>2. nap' = [p \in Sleepers |-> nap'[p]] /\ ticks' = ticks
    BY <1>2, Zenon DEF WakeSleepers
  <2>3. QED
    BY <2>1, <2>2, Zenon DEF NapInv, NeverEarly
<1>3. ASSUME NEW p \in Sleepers, NEW t \in Nap, ticks' = ticks, nap' = [nap EXCEPT ![p] = t],
             /\ t.pc \in {"test", "sleep", "asleep"} => TimeRight(t, ticks)
             /\ t.pc = "done" => t.elapsed >= t.n
      PROVE  NapInv'
  <2>1. nap' \in [Sleepers -> Nap] /\ ticks' \in 0 .. WORD - 1
    BY <1>3, Zenon DEF NapInv
  <2>2. ASSUME NEW q \in Sleepers
        PROVE  /\ nap'[q].pc \in {"test", "sleep", "asleep"} => TimeRight(nap'[q], ticks')
               /\ nap'[q].pc = "done" => nap'[q].elapsed >= nap'[q].n
    BY <1>3, Zenon DEF NapInv, NeverEarly
  <2>3. QED
    BY <2>1, <2>2, Zenon DEF NapInv, NeverEarly
<1>4. ASSUME NEW p \in Sleepers, NEW n \in Naps, SysSleep(p, n) PROVE NapInv'
  <2> DEFINE t == [Awake EXCEPT !.pc = "test", !.t0 = ticks, !.n = n]
  <2>1. t \in Nap /\ t.t0 = ticks /\ t.elapsed = 0 /\ t.pc = "test"
    BY <1>0, TickConstants, Zenon DEF Awake, Nap
  <2>2. Ahead(ticks, ticks, WORD) = 0
    BY <1>0, AheadIs
  <2>3. ticks' = ticks /\ nap' = [nap EXCEPT ![p] = t]
    BY <1>4, Zenon DEF SysSleep
  <2> HIDE DEF t
  <2>4. TimeRight(t, ticks)
    BY <2>1, <2>2 DEF TimeRight
  <2>5. QED
    BY <1>3, <2>1, <2>3, <2>4, Zenon
<1>5. ASSUME NEW p \in Sleepers, NapTest(p) PROVE NapInv'
  <2> DEFINE t == [nap[p] EXCEPT !.pc = IF ~Early(p) THEN "done" ELSE IF nap[p].killed THEN "failed" ELSE "sleep"]
  <2>1. ticks' = ticks /\ nap' = [nap EXCEPT ![p] = t]
    BY <1>5, Zenon DEF NapTest, NapInv
  <2>2. nap[p] \in Nap /\ TimeRight(nap[p], ticks)
    BY <1>5, Zenon DEF NapTest, NapInv
  <2>3. Ahead(nap[p].t0, ticks, WORD) \in Int
    <3>1. nap[p].t0 \in 0 .. WORD - 1
      BY <2>2, Zenon DEF Nap
    <3>2. Ahead(nap[p].t0, ticks, WORD) \in 0 .. WORD - 1
      BY <1>0, <3>1, AheadIs, Zenon
    <3>3. QED
      BY <3>2
  <2>4. ~Early(p) => nap[p].elapsed >= nap[p].n
    BY <2>2, <2>3 DEF Early, TimeRight, Ahead, Nap
  <2>5. /\ t \in Nap /\ t.elapsed = nap[p].elapsed /\ t.n = nap[p].n /\ t.t0 = nap[p].t0
        /\ t.pc = IF ~Early(p) THEN "done" ELSE IF nap[p].killed THEN "failed" ELSE "sleep"
    BY <2>2, Zenon DEF Nap
  <2> HIDE DEF t
  <2>6. /\ t.pc \in {"test", "sleep", "asleep"} => TimeRight(t, ticks)
        /\ t.pc = "done" => t.elapsed >= t.n
    BY <2>2, <2>4, <2>5, Zenon DEF TimeRight
  <2>7. QED
    BY <1>3, <2>1, <2>5, <2>6, Zenon
<1>6. ASSUME NEW p \in Sleepers, NapSleep(p) PROVE NapInv'
  <2> DEFINE t == [nap[p] EXCEPT !.pc = "asleep", !.waited = 0]
  <2>1. ticks' = ticks /\ nap' = [nap EXCEPT ![p] = t]
    BY <1>6, Zenon DEF NapSleep, NapInv
  <2>2. t \in Nap /\ t.pc = "asleep" /\ TimeRight(t, ticks)
    BY <1>6, Zenon DEF NapSleep, NapInv, Nap, TimeRight
  <2> HIDE DEF t
  <2>3. QED
    BY <1>3, <2>1, <2>2, Zenon
<1>7. ASSUME NEW p \in Sleepers, NapReturn(p) PROVE NapInv'
  <2> DEFINE t == [Awake EXCEPT !.killed = nap[p].killed]
  <2>1. ticks' = ticks /\ nap' = [nap EXCEPT ![p] = t]
    BY <1>7, Zenon DEF NapReturn, NapInv
  <2>2. t \in Nap /\ t.pc = "idle"
    BY <1>0, Zenon DEF NapInv, Nap, Awake
  <2> HIDE DEF t
  <2>3. QED
    BY <1>3, <2>1, <2>2, Zenon
<1>8. ASSUME NEW p \in Sleepers, KillNap(p) PROVE NapInv'
  <2> DEFINE t == [Woken(nap[p]) EXCEPT !.killed = TRUE]
  <2>1. ticks' = ticks /\ nap' = [nap EXCEPT ![p] = t]
    BY <1>8, Zenon DEF KillNap, NapInv
  <2>2. /\ t \in Nap
        /\ t.pc \in {"test", "sleep", "asleep"} => TimeRight(t, ticks)
        /\ t.pc = "done" => t.elapsed >= t.n
    BY Zenon DEF NapInv, Nap, Woken, TimeRight, NeverEarly
  <2> HIDE DEF t
  <2>3. QED
    BY <1>3, <2>1, <2>2, Zenon
<1>9. CASE UNCHANGED <<ticks, nap>>
  BY <1>9, Zenon DEF NapInv, NeverEarly
<1>10. ASSUME NEW c \in TickCPUs, TimerIntr(c) PROVE NapInv'
  BY <1>9, <1>10, Zenon DEF TimerIntr
<1>11. QED
  BY <1>1, <1>2, <1>4, <1>5, <1>6, <1>7, <1>8, <1>9, <1>10, Zenon DEF TickNext, tickVars, NapStep

\* sleep(n) never returns success before n ticks have passed, for any width of the counter and
\* any n, and wherever a tick or a kill falls.
THEOREM SleepsLongEnough == TickSpec => []NeverEarly
<1>1. TickInit => NapInv
  BY TickConstants DEF TickInit, NapInv, Nap, Awake, NeverEarly
<1>2. NapInv => NeverEarly
  BY Zenon DEF NapInv
<1>3. QED
  BY <1>1, <1>2, NapInvStep, PTL DEF TickSpec
-----------------------------------------------------------------------------
(* panic() and cprintf().                                                  *)

\* Until a processor panics, cons.lock belongs to the one that prints.  After panicked is set
\* nobody begins another character.
PanicInv ==
  /\ ppc \in [PCpus -> {"idle", "acquire", "check", "put", "frozen"}]
  /\ ploc \in [PCpus -> BOOLEAN]
  /\ conslock \in PCpus \cup {NoHolder}
  /\ late \in [PCpus -> Nat]
  /\ locking \in BOOLEAN /\ panicked \in BOOLEAN
  /\ panicking \subseteq PCpus
  /\ panicking = {} => /\ locking /\ ~panicked
                       /\ \A c \in PCpus : conslock = c <=> ppc[c] \in {"check", "put"}
                       /\ \A c \in PCpus : ppc[c] \in {"acquire", "check", "put"} => ploc[c]
  /\ \A c \in PCpus : late[c] = 0 \/ (late[c] = 1 /\ panicked /\ ppc[c] # "put")

\* The invariant is kept.
LEMMA PanicStepInv == PanicInv /\ [PanicNext]_panicVars => PanicInv'
<1> SUFFICES ASSUME PanicInv, [PanicNext]_panicVars PROVE PanicInv'
  BY Zenon
<1> USE PanicConstants DEF PanicInv
<1>1. ASSUME NEW c \in PCpus, Cprintf(c) PROVE PanicInv'
  BY <1>1, Zenon DEF Cprintf
<1>2. ASSUME NEW c \in PCpus, AcquireCons(c) PROVE PanicInv'
  BY <1>2, Zenon DEF AcquireCons
<1>3. ASSUME NEW c \in PCpus, CheckPanicked(c) PROVE PanicInv'
  BY <1>3, Zenon DEF CheckPanicked, Checked
<1>4. ASSUME NEW c \in PCpus, Putc(c) PROVE PanicInv'
  BY <1>4 DEF Putc
<1>5. ASSUME NEW c \in PCpus, CprintfDone(c) PROVE PanicInv'
  BY <1>5 DEF CprintfDone, Unlocked
<1>6. ASSUME NEW c \in PCpus, PanicCall(c) PROVE PanicInv'
  BY <1>6, Zenon DEF PanicCall, PanicStart
<1>7. CASE UNCHANGED panicVars
  BY <1>7, Zenon DEF panicVars
<1>8. QED
  BY <1>1, <1>2, <1>3, <1>4, <1>5, <1>6, <1>7, Zenon DEF PanicNext, PanicStep

\* Messages of different processors never mix before a panic, and after its report every other
\* processor prints at most the character it had begun, however many they are.
THEOREM PanicSilences == PanicSpec => [](MessagesWhole /\ OthersFreeze)
<1>1. PanicInit => PanicInv
  <2> SUFFICES ASSUME PanicInit PROVE PanicInv
    BY Zenon
  <2>1. ppc \in [PCpus -> {"idle", "acquire", "check", "put", "frozen"}]
    BY Zenon DEF PanicInit
  <2>2. ploc \in [PCpus -> BOOLEAN]
    BY Zenon DEF PanicInit
  <2>3. /\ locking \in BOOLEAN /\ panicked \in BOOLEAN /\ locking /\ ~panicked
    BY Zenon DEF PanicInit
  <2>4. /\ late \in [PCpus -> Nat] /\ panicking = {} /\ conslock = NoHolder
        /\ \A c \in PCpus : late[c] = 0 /\ ppc[c] = "idle"
    BY Zenon DEF PanicInit
  <2>5. QED
    BY <2>1, <2>2, <2>3, <2>4, PanicConstants, Zenon DEF PanicInv
<1>2. PanicInv => MessagesWhole /\ OthersFreeze
  <2> SUFFICES ASSUME PanicInv PROVE MessagesWhole /\ OthersFreeze
    BY Zenon
  <2>1. OthersFreeze
    BY DEF PanicInv, OthersFreeze
  <2>2. MessagesWhole
    <3> SUFFICES ASSUME panicking = {} PROVE MessagesWhole
      BY Zenon DEF MessagesWhole
    <3> DEFINE Printing == {c \in PCpus : ppc[c] \in {"check", "put"}}
    <3>1. Printing \subseteq {conslock}
      BY Zenon DEF PanicInv
    <3>2. Cardinality(Printing) <= 1
      <4>1. IsFiniteSet({conslock}) /\ Cardinality({conslock}) = 1
        BY FS_Singleton, Zenon
      <4>2. Cardinality(Printing) <= Cardinality({conslock})
        BY <3>1, <4>1, FS_Subset, Zenon
      <4>3. QED
        BY <4>1, <4>2, Zenon
    <3>3. (conslock # NoHolder) <=> \E c \in PCpus : ppc[c] \in {"check", "put"}
      BY PanicConstants, Zenon DEF PanicInv
    <3>4. QED
      BY <3>2, <3>3, Zenon DEF MessagesWhole
  <2>3. QED
    BY <2>1, <2>2, Zenon
<1>3. QED
  BY <1>1, <1>2, PanicStepInv, PTL DEF PanicSpec
-----------------------------------------------------------------------------
(* Arguments of system calls.                                              *)

ArgsInv ==
  /\ asz \in 0 .. WORDS \div 2 /\ esp \in Word /\ arg \in Word \X Word /\ argc \in Nat
  /\ apc = "user" => touched = {}
  /\ ArgsInside

\* The address space is twice that of a process.
LEMMA TwoHalves == /\ WORDS \div 2 \in Nat /\ WORDS = 2 * (WORDS \div 2)
                   /\ INT \in Nat /\ INT <= WORDS \div 2
                   /\ ObjSize \in Nat /\ ObjSize < WORDS \div 2
<1>1. WORDS \in Nat /\ 2 \in Nat \ {0}
  BY ArgsConstants
<1>2. WORDS \div 2 \in Nat /\ WORDS = 2 * (WORDS \div 2) + (WORDS % 2)
  BY <1>1, DivMod, Zenon
<1>3. QED
  BY <1>2, ArgsConstants

\* A sum of two words is a word.
LEMMA PlusWord ==
  ASSUME NEW a \in Nat, NEW b \in Nat
  PROVE  Plus(a, b) \in Word
<1>1. a + b \in Nat /\ WORDS \in Nat \ {0}
  BY ArgsConstants
<1>2. QED
  BY <1>1, DivMod, Zenon DEF Plus, Word

\* n bytes from a on lie inside the process, if the sum that is tested says so: with a below
\* KERNBASE and n not above it, no sum wraps around.
LEMMA RangeInside ==
  ASSUME NEW h \in Nat, WORDS = 2 * h, NEW z \in 0 .. h, NEW a \in Word, NEW n \in 0 .. h,
         a < z, Plus(a, n) <= z
  PROVE  \A x \in ByteRange(a, n) : x < z
<1>1. ASSUME NEW k \in 0 .. n PROVE Plus(a, k) = a + k
  <2>1. a + k \in 0 .. WORDS - 1 /\ WORDS \in Nat \ {0}
    BY DEF Word
  <2>2. (a + k) % WORDS = a + k
    BY <2>1, ModSmall, Zenon
  <2>3. QED
    BY <2>2, Zenon DEF Plus
<1>2. a + n <= z
  BY <1>1
<1>3. ASSUME NEW k \in 0 .. n - 1 PROVE Plus(a, k) < z
  BY <1>1, <1>2 DEF Word
<1>4. QED
  BY <1>3, Zenon DEF ByteRange

\* fetchint() reads inside the process.
LEMMA FetchInside ==
  ASSUME asz \in 0 .. WORDS \div 2, NEW a \in Word, FetchInt(a)
  PROVE  \A x \in ByteRange(a, INT) : x < asz
<1> DEFINE h == WORDS \div 2
<1>1. /\ h \in Nat /\ WORDS = 2 * h /\ INT \in 0 .. h /\ asz \in 0 .. h
      /\ a < asz /\ Plus(a, INT) <= asz
  BY TwoHalves DEF FetchInt
<1> HIDE DEF h
<1>2. QED
  BY <1>1, RangeInside, Zenon

\* argptr() lends bytes inside the process.
LEMMA LentInside ==
  ASSUME asz \in 0 .. WORDS \div 2, NEW a \in Word, NEW n \in Int, n < WORDS \div 2, InSpace(a, n)
  PROVE  \A x \in ByteRange(a, n) : x < asz
<1> DEFINE h == WORDS \div 2
<1>1. h \in Nat /\ WORDS = 2 * h /\ n \in 0 .. h /\ n \in 0 .. WORDS - 1 /\ asz \in 0 .. h /\ WORDS \in Nat \ {0}
  BY TwoHalves, ArgsConstants DEF InSpace
<1>2. n % WORDS = n
  BY <1>1, ModSmall, Zenon
<1>3. a < asz /\ Plus(a, n) <= asz
  BY <1>2, Zenon DEF InSpace
<1> HIDE DEF h
<1>4. QED
  BY <1>1, <1>3, RangeInside, Zenon

\* The signed value of a word is below the half.
LEMMA SignedSmall ==
  ASSUME NEW n \in Word
  PROVE  Signed(n) \in Int /\ Signed(n) < WORDS \div 2
BY TwoHalves DEF Signed, Word

\* The invariant is kept.
LEMMA ArgsStep == ArgsInv /\ [ArgsNext]_argVars => ArgsInv'
<1> SUFFICES ASSUME ArgsInv, [ArgsNext]_argVars PROVE ArgsInv'
  BY Zenon
<1>0. /\ asz \in 0 .. WORDS \div 2 /\ esp \in Word /\ arg[1] \in Word /\ arg[2] \in Word /\ argc \in Nat
      /\ esp \in Nat /\ INT \in Nat /\ arg[2] \in Nat /\ 0 \in Word
      /\ TouchesOnlyProcess /\ SlotsInside
  BY ArgsConstants, TwoHalves DEF ArgsInv, ArgsInside, Word
<1>1. \A k \in 0 .. 2 : ArgAddr(k) \in Word
  BY <1>0, PlusWord DEF ArgAddr
<1>2. Plus(arg[2], INT * argc) \in Word
  BY <1>0, PlusWord
<1>3. ASSUME UNCHANGED <<asz, esp, arg>>, argc' \in Nat, apc' # "user",
             \A a \in touched' \ touched : a < asz,
             \A x \in slots' \ slots : x[2] >= 0 /\ x[2] < Bound[x[1]]
      PROVE  ArgsInv'
  BY <1>0, <1>3, Zenon DEF ArgsInv, ArgsInside, TouchesOnlyProcess, SlotsInside, Word
<1>4. CASE Fails
  BY <1>0, <1>3, <1>4, Zenon DEF Fails
<1>5. CASE TrapIn
  BY <1>5, ArgsConstants DEF TrapIn, ArgsInv, ArgsInside, TouchesOnlyProcess, SlotsInside, Word
<1>6. CASE TrapOut
  BY <1>0, <1>6, TwoHalves DEF TrapOut, ArgsInv, ArgsInside, TouchesOnlyProcess, SlotsInside
<1>7. CASE Dispatch
  <2>1. PICK num \in Word : IF NumOk(Signed(num)) THEN apc' = "call" /\ slots' = {<<"syscalls", Signed(num)>>}
                            ELSE apc' = "done" /\ UNCHANGED slots
    BY <1>7, Zenon DEF Dispatch
  <2>2. UNCHANGED <<asz, esp, arg, touched, argc>> /\ apc' # "user"
    BY <1>7, <2>1, Zenon DEF Dispatch
  <2>3. \A x \in slots' \ slots : x[2] >= 0 /\ x[2] < Bound[x[1]]
    <3>1. CASE NumOk(Signed(num))
      BY <2>1, <3>1, SignedSmall, ArgsConstants DEF NumOk, Bound
    <3>2. CASE ~NumOk(Signed(num))
      BY <2>1, <3>2, Zenon
    <3>3. QED
      BY <3>1, <3>2, Zenon
  <2>4. QED
    BY <1>0, <1>3, <2>2, <2>3, Zenon
<1>8. CASE Transfer
  <2>1. PICK n \in Word :
          IF ArgInt(0) /\ FdOk(Signed(arg[1])) /\ ArgInt(2) /\ ArgInt(1) /\ InSpace(arg[2], Signed(n))
          THEN /\ slots' = slots \cup {<<"ofile", Signed(arg[1])>>}
               /\ Lends(ArgBytes(0) \cup ArgBytes(1) \cup ArgBytes(2) \cup ByteRange(arg[2], Signed(n)))
          ELSE Fails
    BY <1>8, Zenon DEF Transfer
  <2>2. CASE ArgInt(0) /\ FdOk(Signed(arg[1])) /\ ArgInt(2) /\ ArgInt(1) /\ InSpace(arg[2], Signed(n))
    <3>1. ASSUME NEW k \in 0 .. 2 PROVE \A x \in ArgBytes(k) : x < asz
      <4>1. FetchInt(ArgAddr(k))
        BY <2>2 DEF ArgInt
      <4>2. QED
        BY <1>0, <1>1, <4>1, FetchInside, Zenon DEF ArgBytes
    <3>2. \A x \in ByteRange(arg[2], Signed(n)) : x < asz
      <4> DEFINE m == Signed(n)
      <4>1. m \in Int /\ m < WORDS \div 2 /\ InSpace(arg[2], m)
        BY <2>2, SignedSmall, Zenon
      <4> HIDE DEF m
      <4>2. \A x \in ByteRange(arg[2], m) : x < asz
        BY <1>0, <4>1, LentInside, Zenon
      <4>3. QED
        BY <4>2, Zenon DEF m
    <3>3. \A a \in touched' \ touched : a < asz
      <4>1. \A x \in touched' \ touched : \/ x \in ArgBytes(0) \/ x \in ArgBytes(1) \/ x \in ArgBytes(2)
                                         \/ x \in ByteRange(arg[2], Signed(n))
        BY <2>1, <2>2, Zenon DEF Lends
      <4>2. QED
        BY <3>1, <3>2, <4>1
    <3>4. \A x \in slots' \ slots : x[2] >= 0 /\ x[2] < Bound[x[1]]
      BY SMTT(30), <1>0, <2>1, <2>2, SignedSmall, ArgsConstants DEF FdOk, Bound
    <3>5. QED
      BY <1>0, <1>3, <2>1, <2>2, <3>3, <3>4, Zenon DEF Lends
  <2>3. QED
    BY <1>4, <2>1, <2>2, Zenon
<1>9. CASE Object
  <2>1. CASE ArgInt(0) /\ InSpace(arg[1], ObjSize)
    <3>1. Lends(ArgBytes(0) \cup ByteRange(arg[1], ObjSize)) /\ UNCHANGED slots
      BY <1>9, <2>1, Zenon DEF Object
    <3>2. \A x \in ArgBytes(0) : x < asz
      <4>1. FetchInt(ArgAddr(0)) /\ ArgAddr(0) \in Word
        BY <1>1, <2>1 DEF ArgInt
      <4>2. QED
        BY <1>0, <4>1, FetchInside, Zenon DEF ArgBytes
    <3>3. \A x \in ByteRange(arg[1], ObjSize) : x < asz
      <4>1. ObjSize \in Int /\ ObjSize < WORDS \div 2 /\ arg[1] \in Word /\ InSpace(arg[1], ObjSize)
        BY <1>0, <2>1, TwoHalves
      <4>2. QED
        BY <1>0, <4>1, LentInside, Zenon
    <3>4. QED
      BY <1>0, <1>3, <3>1, <3>2, <3>3, Zenon DEF Lends
  <2>2. QED
    BY <1>4, <1>9, <2>1, Zenon DEF Object
<1>10. ASSUME NEW next \in {"done", "argv"}, Path(next) PROVE ArgsInv'
  <2>1. PICK nul \in Word :
          IF ArgInt(0) /\ FetchStr(arg[1], nul) /\ (next = "argv" => ArgInt(1))
          THEN /\ touched' = touched \cup ArgBytes(0) \cup (arg[1] .. nul) \cup (IF next = "argv" THEN ArgBytes(1) ELSE {})
               /\ apc' = next /\ UNCHANGED <<asz, esp, arg, argc, slots>>
          ELSE Fails
    BY <1>10, Zenon DEF Path
  <2>2. CASE ArgInt(0) /\ FetchStr(arg[1], nul) /\ (next = "argv" => ArgInt(1))
    <3>1. \A x \in ArgBytes(0) : x < asz
      <4>1. FetchInt(ArgAddr(0)) /\ ArgAddr(0) \in Word
        BY <1>1, <2>2 DEF ArgInt
      <4>2. QED
        BY <1>0, <4>1, FetchInside, Zenon DEF ArgBytes
    <3>0. next = "argv" => \A x \in ArgBytes(1) : x < asz
      <4> SUFFICES ASSUME next = "argv" PROVE \A x \in ArgBytes(1) : x < asz
        BY Zenon
      <4>1. FetchInt(ArgAddr(1)) /\ ArgAddr(1) \in Word
        BY SMTT(30), <1>1, <2>2 DEF ArgInt
      <4>2. QED
        BY <1>0, <4>1, FetchInside, Zenon DEF ArgBytes
    <3>2. \A x \in arg[1] .. nul : x < asz
      BY <1>0, <2>2 DEF FetchStr, Word
    <3>3. QED
      BY <1>0, <1>3, <2>1, <2>2, <3>0, <3>1, <3>2, Zenon
  <2>3. QED
    BY <1>4, <2>1, <2>2, Zenon
<1>11. CASE ExecArg
  <2> DEFINE a == Plus(arg[2], INT * argc)
  <2>1. CASE ~(argc >= MAXARG \/ ~FetchInt(a))
    <3>1. PICK uarg \in {0, arg[1]}, nul \in Word :
            IF uarg = 0 THEN Lends(ByteRange(a, INT)) /\ slots' = slots \cup {<<"argv", argc>>}
            ELSE IF ~FetchStr(uarg, nul) THEN Fails
            ELSE /\ argc' = argc + 1 /\ slots' = slots \cup {<<"argv", argc>>}
                 /\ touched' = touched \cup ByteRange(a, INT) \cup (uarg .. nul)
                 /\ UNCHANGED <<asz, esp, arg, apc>>
      BY <1>11, <2>1, Zenon DEF ExecArg
    <3>2. \A x \in ByteRange(a, INT) : x < asz
      BY <1>0, <1>2, <2>1, FetchInside, Zenon
    <3>3. argc < MAXARG /\ apc = "argv"
      BY SMTT(30), <1>0, <1>11, <2>1, ArgsConstants DEF ExecArg
    <3>4. slots' = slots \cup {<<"argv", argc>>} => \A x \in slots' \ slots : x[2] >= 0 /\ x[2] < Bound[x[1]]
      BY <1>0, <3>3 DEF Bound
    <3>5. CASE uarg = 0
      BY <1>0, <1>3, <3>1, <3>2, <3>4, <3>5, ZenonT(40) DEF Lends
    <3>6. CASE uarg # 0 /\ FetchStr(uarg, nul)
      <4>1. \A x \in uarg .. nul : x < asz
        BY <1>0, <3>6 DEF FetchStr, Word
      <4>2. QED
        BY SMTT(30), <1>0, <1>3, <3>1, <3>2, <3>3, <3>4, <3>6, <4>1
    <3>7. QED
      BY <1>4, <3>1, <3>5, <3>6, Zenon
  <2>2. QED
    BY <1>4, <1>11, <2>1, Zenon DEF ExecArg
<1>12. CASE UNCHANGED argVars
  BY <1>12, Zenon DEF argVars, ArgsInv, ArgsInside, TouchesOnlyProcess, SlotsInside
<1>13. QED
  BY <1>5, <1>6, <1>7, <1>8, <1>9, <1>10, <1>11, <1>12, Zenon DEF ArgsNext

\* No system call makes the kernel touch an address outside the process, or an element outside
\* an array, for any word size, stack pointer and arguments: KERNBASE, half of the address
\* space, is what keeps the sums of the tests from wrapping around.
THEOREM ArgumentsStayInside == ArgsSpec => []ArgsInside
<1>1. ArgsInit => ArgsInv
  BY TwoHalves, ArgsConstants DEF ArgsInit, ArgsInv, ArgsInside, TouchesOnlyProcess, SlotsInside, Word
<1>2. ArgsInv => ArgsInside
  BY Zenon DEF ArgsInv
<1>3. QED
  BY <1>1, <1>2, ArgsStep, PTL DEF ArgsSpec
-----------------------------------------------------------------------------
(* The real time clock.                                                    *)

Code(b, n) == IF b THEN Bcd(n) ELSE n
RegisterAt(b, time, i) == Code(b, IF i = 1 THEN time % LOW ELSE time \div LOW)
Shows(t, b, time) == \A i \in 1 .. Len(t) : t[i] = RegisterAt(b, time, i)
RegValue == Int \cup Noise

\* How much cmostime() has read, at each of its lines.
CopyLengths ==
  /\ t1 \in Seq(RegValue) /\ t2 \in Seq(RegValue)
  /\ cpc \in {"idle", "t1", "uip", "t2", "cmp"}
  /\ (cpc = "idle" /\ date = <<>>) => t1 = <<>> /\ t2 = <<>>
  /\ cpc # "idle" => date = <<>>
  /\ cpc = "t1" => Len(t1) \in {0, 1} /\ t2 = <<>>
  /\ cpc = "uip" => Len(t1) = 2 /\ t2 = <<>>
  /\ cpc = "t2" => Len(t1) = 2 /\ Len(t2) \in {0, 1}
  /\ cpc = "cmp" => Len(t1) = 2 /\ Len(t2) = 2
\* Until the test of UIP the first copy is one time, unless an update has begun.  After it the
\* first copy is one time, or the update is over and the second copy is.
CopiesWhole ==
  /\ (cpc \in {"t1", "uip"} /\ updates = 0) => Shows(t1, bcdMode, clock)
  /\ cpc \in {"t2", "cmp"} => \/ \E s \in seen : Shows(t1, bcdMode, s)
                              \/ updates = 1 /\ ~uip /\ Shows(t2, bcdMode, clock)
ClockSeen ==
  /\ clock \in Nat /\ seen \subseteq Nat /\ (cpc # "idle" => clock \in seen)
  /\ updates \in {0, 1} /\ (uip => updates = 1)
  /\ uip \in BOOLEAN /\ bcdMode \in BOOLEAN
CmosInv == CopyLengths /\ CopiesWhole /\ ClockSeen /\ DateWhole

\* CONV() undoes the coding.
LEMMA ConvCode ==
  ASSUME NEW n \in Nat
  PROVE  Conv(Code(bcdMode, n)) = n
<1> DEFINE q == n \div 10
           r == n % 10
<1>0. 10 \in Nat \ {0}
  OBVIOUS
<1>1. q \in Nat /\ r \in 0 .. 9 /\ n = 10 * q + r
  BY <1>0, DivMod
<1> DEFINE x == q * 16 + r
<1>2. x \in Nat /\ 16 \in Nat \ {0} /\ r \in 0 .. 16 - 1 /\ x = 16 * q + r
  BY <1>1
<1>3. Bcd(n) = x
  BY Zenon DEF Bcd
<1> HIDE DEF q, r
<1>4. x % 16 = r
  BY <1>1, <1>2, ModUnique, Zenon
<1> HIDE DEF x
<1>5. x \div 16 \in Nat /\ x = 16 * (x \div 16) + (x % 16)
  BY <1>2, DivMod, Zenon
<1>6. x \div 16 = q
  BY SMTT(30), <1>1, <1>2, <1>4, <1>5
<1>7. (x \div 16) * 10 + (x % 16) = n
  BY SMTT(30), <1>1, <1>4, <1>6
<1>8. QED
  BY <1>3, <1>7, Zenon DEF Conv, Code

\* The registers of a time.
LEMMA TimeParts ==
  ASSUME NEW time \in Nat
  PROVE  time % LOW \in Nat /\ time \div LOW \in Nat
<1>1. LOW \in Nat \ {0}
  BY CmosConstants, Zenon
<1>2. time \div LOW \in Nat /\ time % LOW \in 0 .. LOW - 1
  BY <1>1, DivMod, Zenon
<1>3. QED
  BY <1>1, <1>2

\* What the clock shows is a number.
LEMMA RegisterInt ==
  ASSUME NEW b \in BOOLEAN, NEW time \in Nat, NEW i \in {1, 2}
  PROVE  RegisterAt(b, time, i) \in RegValue
<1>1. time % LOW \in Nat /\ time \div LOW \in Nat
  BY TimeParts, Zenon
<1>2. ASSUME NEW n \in Nat PROVE Code(b, n) \in Int
  <2>1. n \div 10 \in Nat /\ n % 10 \in Nat
    BY DivMod
  <2>2. QED
    BY <2>1 DEF Code, Bcd
<1>3. QED
  BY <1>1, <1>2, Zenon DEF RegisterAt, RegValue

\* One register more.
LEMMA ShowsMore ==
  ASSUME NEW t \in Seq(RegValue), NEW b, NEW time, Shows(t, b, time)
  PROVE  Shows(Append(t, RegisterAt(b, time, Len(t) + 1)), b, time)
BY DEF Shows

\* Register() reads what the clock shows.
LEMMA RegisterIs == \A i : Register(i) = RegisterAt(bcdMode, clock, i)
BY Zenon DEF Register, RegisterAt, Coded, Code

\* The value fill_rtcdate() reads.
LEMMA FillReads ==
  ASSUME ClockSeen, NEW i \in {1, 2}, NEW v \in Readable(i)
  PROVE  v \in RegValue /\ (~uip => v = RegisterAt(bcdMode, clock, i))
<1>1. RegisterAt(bcdMode, clock, i) \in RegValue
  BY RegisterInt, Zenon DEF ClockSeen
<1>2. QED
  BY <1>1, RegisterIs, Zenon DEF Readable, RegValue

\* A whole copy converts to the time it shows.
LEMMA WholeCopy ==
  ASSUME NEW t \in Seq(RegValue), Len(t) = 2, NEW time \in Nat, Shows(t, bcdMode, time)
  PROVE  <<Conv(t[1]), Conv(t[2])>> = <<time % LOW, time \div LOW>>
<1>1. time % LOW \in Nat /\ time \div LOW \in Nat
  BY TimeParts, Zenon
<1>2. t[1] = Code(bcdMode, time % LOW) /\ t[2] = Code(bcdMode, time \div LOW)
  BY DEF Shows, RegisterAt
<1>3. QED
  BY <1>1, <1>2, ConvCode, Zenon

\* The invariant is kept: by the clock,
LEMMA CmosClock ==
  ASSUME CmosInv, BeginUpdate \/ EndUpdate
  PROVE  CmosInv'
<1>1. CASE BeginUpdate
  BY <1>1 DEF BeginUpdate, CmosInv, CopyLengths, CopiesWhole, ClockSeen, DateWhole
<1>2. CASE EndUpdate
  <2>1. clock' \in Nat
    <3>1. clock + 1 \in Nat /\ LOW * HIGH \in Nat \ {0}
      BY CmosConstants DEF CmosInv, ClockSeen
    <3>2. (clock + 1) % (LOW * HIGH) \in 0 .. LOW * HIGH - 1
      BY <3>1, DivMod, Zenon
    <3>3. QED
      BY SMTT(30), <1>2, <3>1, <3>2 DEF EndUpdate
  <2>2. CopyLengths'
    BY <1>2, Zenon DEF EndUpdate, CmosInv, CopyLengths
  <2>3. CopiesWhole'
    <3>1. updates = 1 /\ uip /\ UNCHANGED <<cpc, updates, t1, bcdMode>> /\ seen \subseteq seen'
      BY <1>2, Zenon DEF EndUpdate, CmosInv, ClockSeen
    <3>2. cpc \in {"t2", "cmp"} => \E s \in seen' : Shows(t1, bcdMode, s)
      BY <3>1, Zenon DEF CmosInv, CopiesWhole
    <3>3. QED
      BY <3>1, <3>2 DEF CopiesWhole
  <2>6. ClockSeen'
    BY <1>2, <2>1, Zenon DEF EndUpdate, CmosInv, ClockSeen
  <2>4. DateWhole'
    BY <1>2, Zenon DEF EndUpdate, CmosInv, DateWhole
  <2>5. QED
    BY <2>2, <2>3, <2>4, <2>6, Zenon DEF CmosInv
<1>3. QED
  BY <1>1, <1>2, Zenon

\* by the begin of a call,
LEMMA CmosBegin ==
  ASSUME CmosInv, ReadRtc
  PROVE  CmosInv'
<1>1. t1' = <<>> /\ t2' = <<>> /\ cpc' = "t1" /\ date' = <<>> /\ seen' = {clock'}
  BY Zenon DEF ReadRtc, CmosInv, CopyLengths
<1>2. CopyLengths' /\ CopiesWhole' /\ DateWhole'
  BY <1>1 DEF CopyLengths, CopiesWhole, DateWhole, Shows
<1>3. ClockSeen'
  <2>1. clock' \in Nat
    BY CmosConstants DEF ReadRtc
  <2>2. QED
    BY <1>1, <2>1, Zenon DEF ReadRtc, ClockSeen
<1>4. QED
  BY <1>2, <1>3, Zenon DEF CmosInv

\* by a new attempt,
LEMMA CmosAgain ==
  ASSUME CmosInv, Again, cpc # "idle"
  PROVE  CmosInv'
<1>1. t1' = <<>> /\ t2' = <<>> /\ cpc' = "t1" /\ date' = <<>> /\ seen' = {clock'} /\ clock' = clock
  BY Zenon DEF Again, CmosInv, CopyLengths
<1>2. CopyLengths' /\ CopiesWhole' /\ DateWhole'
  BY <1>1 DEF CopyLengths, CopiesWhole, DateWhole, Shows
<1>3. ClockSeen'
  BY <1>1, Zenon DEF Again, CmosInv, ClockSeen
<1>4. QED
  BY <1>2, <1>3, Zenon DEF CmosInv

\* by a register read,
LEMMA CmosFill ==
  ASSUME CmosInv, FillT1 \/ FillT2
  PROVE  CmosInv'
<1>1. CASE FillT1
  <2>1. cpc = "t1" /\ Len(t1) \in {0, 1} /\ t2 = <<>> /\ date = <<>> /\ t1 \in Seq(RegValue)
    BY <1>1, Zenon DEF FillT1, Fill, CmosInv, CopyLengths
  <2>2. PICK v \in Readable(Len(t1) + 1) : t1' = Append(t1, v)
    BY <1>1, Zenon DEF FillT1, Fill
  <2>0. Len(t1) + 1 \in {1, 2}
    <3>1. \A k \in {0, 1} : k + 1 \in {1, 2}
      OBVIOUS
    <3>2. QED
      BY <2>1, <3>1, Zenon
  <2>9. ClockSeen
    BY Zenon DEF CmosInv
  <2>3. v \in RegValue /\ (~uip => v = RegisterAt(bcdMode, clock, Len(t1) + 1))
    BY <2>0, <2>2, <2>9, FillReads, Zenon
  <2>4. UNCHANGED <<clock, uip, updates, seen, bcdMode, date, t2>> /\ cpc' = IF Len(t1) = 1 THEN "uip" ELSE "t1"
    BY <1>1, Zenon DEF FillT1, Fill
  <2>5. CopyLengths'
    BY SMTT(30), <2>1, <2>2, <2>3, <2>4 DEF CopyLengths
  <2>6. updates = 0 => Shows(t1', bcdMode, clock)
    BY SMTT(30), <2>1, <2>2, <2>3, ShowsMore DEF CmosInv, CopiesWhole, ClockSeen
  <2>7. CopiesWhole' /\ ClockSeen' /\ DateWhole'
    BY <2>1, <2>4, <2>6, ZenonT(40) DEF CmosInv, CopiesWhole, ClockSeen, DateWhole
  <2>8. QED
    BY <2>5, <2>7, Zenon DEF CmosInv
<1>2. CASE FillT2
  <2>1. cpc = "t2" /\ Len(t1) = 2 /\ Len(t2) \in {0, 1} /\ date = <<>> /\ t1 \in Seq(RegValue) /\ t2 \in Seq(RegValue)
    BY <1>2, Zenon DEF FillT2, Fill, CmosInv, CopyLengths
  <2>2. PICK v \in Readable(Len(t2) + 1) : t2' = Append(t2, v)
    BY <1>2, Zenon DEF FillT2, Fill
  <2>0. Len(t2) + 1 \in {1, 2}
    <3>1. \A k \in {0, 1} : k + 1 \in {1, 2}
      OBVIOUS
    <3>2. QED
      BY <2>1, <3>1, ZenonT(40)
  <2>9. ClockSeen
    BY Zenon DEF CmosInv
  <2>3. v \in RegValue /\ (~uip => v = RegisterAt(bcdMode, clock, Len(t2) + 1))
    BY <2>0, <2>2, <2>9, FillReads, Zenon
  <2>4. UNCHANGED <<clock, uip, updates, seen, bcdMode, date, t1>> /\ cpc' = IF Len(t2) = 1 THEN "cmp" ELSE "t2"
    BY <1>2, Zenon DEF FillT2, Fill
  <2>5. CopyLengths'
    BY SMTT(30), <2>1, <2>2, <2>3, <2>4 DEF CopyLengths
  <2>6. ~uip /\ Shows(t2, bcdMode, clock) => Shows(t2', bcdMode, clock)
    BY <2>1, <2>2, <2>3, ShowsMore, Zenon
  <2>7. CopiesWhole' /\ ClockSeen' /\ DateWhole'
    BY <2>1, <2>4, <2>6, Zenon DEF CmosInv, CopiesWhole, ClockSeen, DateWhole
  <2>8. QED
    BY <2>5, <2>7, Zenon DEF CmosInv
<1>3. QED
  BY <1>1, <1>2, Zenon

\* by the test of UIP, which catches an update that is not over,
LEMMA CmosTest ==
  ASSUME CmosInv, TestUip
  PROVE  CmosInv'
<1>1. CASE uip /\ Again
  BY <1>1, CmosAgain, Zenon DEF TestUip
<1>2. CASE ~uip /\ cpc' = "t2" /\ UNCHANGED <<clock, uip, t1, t2, updates, seen, bcdMode, date>>
  <2>1. cpc = "uip" /\ Len(t1) = 2 /\ t2 = <<>> /\ date = <<>> /\ clock \in seen /\ updates \in {0, 1}
    BY Zenon DEF TestUip, CmosInv, CopyLengths, ClockSeen
  <2>2. CopyLengths'
    BY <1>2, <2>1, Zenon DEF CmosInv, CopyLengths
  <2>3. Shows(t2, bcdMode, clock)
    BY <2>1 DEF Shows
  <2>4. CopiesWhole' /\ ClockSeen' /\ DateWhole'
    BY <1>2, <2>1, <2>3, Zenon DEF CmosInv, CopiesWhole, ClockSeen, DateWhole
  <2>5. QED
    BY <2>2, <2>4, Zenon DEF CmosInv
<1>3. QED
  BY <1>1, <1>2, Zenon DEF TestUip

\* and by the comparison of the copies.
LEMMA CmosCompare ==
  ASSUME CmosInv, Compare
  PROVE  CmosInv'
<1>1. CASE t1 # t2 /\ Again
  BY <1>1, CmosAgain, Zenon DEF Compare
<1>2. CASE /\ t1 = t2 /\ date' = <<Conv(t1[1]), Conv(t1[2])>> /\ cpc' = "idle"
           /\ UNCHANGED <<clock, uip, t1, t2, updates, seen, bcdMode>>
  <2>1. cpc = "cmp" /\ Len(t1) = 2 /\ t1 \in Seq(RegValue) /\ clock \in seen /\ seen \subseteq Nat
    BY Zenon DEF Compare, CmosInv, CopyLengths, ClockSeen
  <2>2. PICK s \in seen : Shows(t1, bcdMode, s)
    BY <1>2, <2>1, Zenon DEF CmosInv, CopiesWhole
  <2>3. date' = <<s % LOW, s \div LOW>>
    BY <1>2, <2>1, <2>2, WholeCopy, Zenon
  <2>4. DateWhole'
    BY <1>2, <2>3, Zenon DEF DateWhole
  <2>5. date' # <<>>
    BY <1>2, Zenon
  <2>6. CopyLengths' /\ CopiesWhole' /\ ClockSeen'
    BY <1>2, <2>1, <2>5, Zenon DEF CmosInv, CopyLengths, CopiesWhole, ClockSeen
  <2>7. QED
    BY <2>4, <2>6, Zenon DEF CmosInv
<1>3. QED
  BY <1>1, <1>2, Zenon DEF Compare

\* The date cmostime() returns is one the clock showed during the call, for any range of the
\* registers and anything a register shows during an update.
THEOREM DatesAreWhole == CmosSpec => []DateWhole
<1>1. CmosInit => CmosInv
  <2> SUFFICES ASSUME CmosInit PROVE CmosInv
    BY Zenon
  <2>1. CopyLengths
    BY DEF CmosInit, CopyLengths
  <2>2. CopiesWhole /\ ClockSeen /\ DateWhole
    BY Zenon DEF CmosInit, CopiesWhole, ClockSeen, DateWhole
  <2>3. QED
    BY <2>1, <2>2, ZenonT(40) DEF CmosInv
<1>2. CmosInv /\ [CmosNext]_cmosVars => CmosInv'
  <2>1. CmosInv /\ UNCHANGED cmosVars => CmosInv'
    BY DEF cmosVars, CmosInv, CopyLengths, CopiesWhole, ClockSeen, DateWhole
  <2>2. QED
    BY <2>1, CmosClock, CmosBegin, CmosFill, CmosTest, CmosCompare, ZenonT(40) DEF CmosNext
<1>3. CmosInv => DateWhole
  BY Zenon DEF CmosInv
<1>4. QED
  BY <1>1, <1>2, <1>3, PTL DEF CmosSpec
=============================================================================
