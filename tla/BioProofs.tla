----------------------------- MODULE BioProofs ------------------------------
(***************************************************************************)
(* Proofs about Bio, for any number of processes, buffers and blocks: the  *)
(* cache stays sound and implements BlockStore, and bget() finds a buffer  *)
(* if there are enough of them.                                            *)
(***************************************************************************)
EXTENDS Bio, FiniteSetTheorems, SequenceTheorems, TLAPS

\* A process between bget() and brelse() has a buffer, for a block.
Using ==
  \A p \in Procs : /\ pc[p] = "idle" <=> buf[p] = NoBuf
                   /\ buf[p] # NoBuf => want[p] \in Blocks

\* B_VALID and B_DIRTY say what they should: who returns from iderw() has the data, a
\* changed buffer has all of it, and an unchanged one has what the disk has.
FlagsRight ==
  /\ \A p \in Procs : pc[p] = "iowoken" => valid[buf[p]] /\ ~dirty[buf[p]]
  /\ \A p \in Procs : pc[p] = "hold" => valid[buf[p]]
  /\ \A b \in Bufs : dirty[b] => valid[b]
  /\ \A b \in Bufs : valid[b] => blockno[b] \in Blocks /\ (~dirty[b] => data[b] = disk[blockno[b]])

\* The list has every buffer.
Listed == \A b \in Bufs : \E i \in 1 .. Len(lru) : lru[i] = b

\* The dirty buffers that nobody is writing: those the log has pinned.
Pinned == {b \in Bufs : dirty[b] /\ \A p \in Procs : buf[p] = b => pc[p] \notin {"iderw", "iowait"}}

BioInv ==
  /\ TypeOK /\ OneBuffer /\ LockOwned /\ QueueWaits
  /\ Using /\ FlagsRight /\ Listed

PinnedFew == Cardinality(Pinned) <= MaxPinned
-----------------------------------------------------------------------------
(* Lists and counts.                                                       *)

\* The list that binit() makes has every buffer.
LEMMA AllListed == Init => lru \in Seq(Bufs) /\ Listed
<1> SUFFICES ASSUME Init PROVE lru \in Seq(Bufs) /\ Listed
  OBVIOUS
<1> DEFINE n == Cardinality(Bufs)
<1>1. n \in Nat /\ ExistsBijection(1 .. n, Bufs)
  BY FS_CardinalityType, BioConstants, Zenon
<1>2. lru \in Bijection(1 .. n, Bufs)
  BY <1>1, Zenon DEF Init, ExistsBijection
<1>3. lru \in [1 .. n -> Bufs] /\ \A b \in Bufs : \E i \in 1 .. n : lru[i] = b
  BY <1>2, Zenon DEF Bijection, Injection, Surjection
<1>4. lru \in Seq(Bufs) /\ Len(lru) = n
  BY <1>1, <1>3
<1>5. QED
  BY <1>3, <1>4, Zenon DEF Listed

\* Moving a buffer to the front of the list drops none.
LEMMA FrontListed ==
  ASSUME NEW b \in Bufs, lru \in Seq(Bufs), Listed
  PROVE  /\ MoveToFront(b) \in Seq(Bufs)
         /\ \A a \in Bufs : \E i \in 1 .. Len(MoveToFront(b)) : MoveToFront(b)[i] = a
<1> DEFINE k == CHOOSE i \in DOMAIN lru : lru[i] = b
           s == SubSeq(lru, 1, k - 1)
           t == SubSeq(lru, k + 1, Len(lru))
           m == <<b>> \o (s \o t)
<1>1. k \in 1 .. Len(lru) /\ lru[k] = b
  BY SMTT(30) DEF Listed
<1>2. MoveToFront(b) = m
  BY DEF MoveToFront
<1> HIDE DEF k
<1>3. /\ s \in Seq(Bufs) /\ Len(s) = k - 1 /\ \A i \in 1 .. k - 1 : s[i] = lru[i]
  BY <1>1
<1>4. /\ t \in Seq(Bufs) /\ Len(t) = Len(lru) - k /\ \A i \in 1 .. Len(lru) - k : t[i] = lru[k + i]
  BY <1>1
<1> HIDE DEF s, t
<1>5. /\ s \o t \in Seq(Bufs) /\ Len(s \o t) = Len(lru) - 1
      /\ \A i \in 1 .. k - 1 : (s \o t)[i] = lru[i]
      /\ \A i \in k .. Len(lru) - 1 : (s \o t)[i] = lru[i + 1]
  <2>1. /\ s \o t \in Seq(Bufs) /\ Len(s \o t) = Len(s) + Len(t)
        /\ \A i \in 1 .. Len(s) + Len(t) : (s \o t)[i] = IF i <= Len(s) THEN s[i] ELSE t[i - Len(s)]
    BY <1>3, <1>4, ConcatProperties, ZenonT(40)
  <2>2. ASSUME NEW i \in k .. Len(lru) - 1 PROVE (s \o t)[i] = lru[i + 1]
    <3>1. /\ i \in 1 .. Len(s) + Len(t) /\ ~(i <= Len(s)) /\ i - Len(s) \in 1 .. Len(lru) - k
          /\ k + (i - Len(s)) = i + 1
      BY SMTT(30), <1>1, <1>3, <1>4
    <3>2. QED
      BY <1>4, <2>1, <3>1, ZenonT(40)
  <2>3. QED
    BY SMTT(30), <1>1, <1>3, <1>4, <2>1, <2>2
<1> DEFINE u == s \o t
<1> HIDE DEF u
<1>6. /\ u \in Seq(Bufs) /\ Len(u) = Len(lru) - 1
      /\ \A i \in 1 .. k - 1 : u[i] = lru[i]
      /\ \A i \in k .. Len(lru) - 1 : u[i] = lru[i + 1]
  BY <1>5, Zenon DEF u
<1>7. /\ m \in Seq(Bufs) /\ Len(m) = Len(lru) /\ m[1] = b
      /\ \A i \in 1 .. Len(lru) - 1 : m[i + 1] = u[i]
  <2>1. m = <<b>> \o u
    BY DEF u
  <2> HIDE DEF m
  <2>2. QED
    BY SMTT(30), <1>1, <1>6, <2>1
<1> HIDE DEF m
<1>8. ASSUME NEW a \in Bufs PROVE \E i \in 1 .. Len(m) : m[i] = a
  <2>1. PICK i \in 1 .. Len(lru) : lru[i] = a
    BY DEF Listed
  <2>2. CASE i = k
    BY SMTT(30), <1>1, <1>7, <2>1, <2>2
  <2>3. CASE i < k
    <3>1. i + 1 \in 1 .. Len(m) /\ m[i + 1] = u[i] /\ u[i] = lru[i]
      BY SMTT(30), <1>1, <1>6, <1>7, <2>3
    <3>2. QED
      BY SMTT(30), <2>1, <3>1
  <2>4. CASE i > k
    <3>1. i \in 1 .. Len(m) /\ i - 1 \in 1 .. Len(lru) - 1 /\ i - 1 \in k .. Len(lru) - 1 /\ (i - 1) + 1 = i
      BY SMTT(30), <1>1, <1>7, <2>4
    <3>2. m[i] = u[i - 1] /\ u[i - 1] = lru[i]
      BY <1>6, <1>7, <3>1, Zenon
    <3>3. QED
      BY <2>1, <3>1, <3>2, Zenon
  <2>5. QED
    BY SMTT(30), <1>1, <2>2, <2>3, <2>4
<1>9. QED
  BY <1>2, <1>7, <1>8, Zenon

\* bget()'s search from the end of the list finds a buffer it may take, if there is one.
LEMMA VictimUnused ==
  ASSUME lru \in Seq(Bufs), Listed, Unused # {}
  PROVE  Victim \in Unused
<1> DEFINE at == {i \in DOMAIN lru : lru[i] \in Unused}
           back == {Len(lru) - i : i \in at}
<1>1. Len(lru) \in Nat /\ DOMAIN lru = 1 .. Len(lru) /\ Unused \subseteq Bufs
  BY DEF Unused
<1>2. PICK j \in at : TRUE
  BY <1>1 DEF Listed
<1>3. back # {} /\ back \subseteq Nat
  BY SMTT(30), <1>1, <1>2
<1>4. PICK x \in back : \A y \in back : ~(<<y, x>> \in OpToRel(<, Nat))
  <2> HIDE DEF back
  <2>1. QED
    BY <1>3, NatLessThanWellFounded, WFMin, Zenon
<1>5. PICK i \in at : x = Len(lru) - i
  BY Zenon
<1>6. ASSUME NEW l \in at PROVE l <= i
  <2>1. Len(lru) - l \in back /\ Len(lru) - l \in Nat /\ x \in Nat
    BY <1>1, <1>3, Zenon
  <2>2. ~(Len(lru) - l < x)
    BY <1>4, <2>1, Zenon DEF OpToRel
  <2>3. QED
    BY SMTT(30), <1>1, <1>5, <2>1, <2>2
<1>7. lru[CHOOSE l \in at : \A h \in at : h <= l] \in Unused
  BY <1>6
<1>8. QED
  BY <1>7 DEF Victim

\* b->refcnt++ counts the new user.
LEMMA CountGet ==
  ASSUME TypeOK, NEW p \in Procs, NEW b \in Bufs, buf[p] = NoBuf,
         \A a \in Bufs : refcnt[a] = Cardinality(Users(a)),
         buf' = [buf EXCEPT ![p] = b], refcnt' = [refcnt EXCEPT ![b] = refcnt[b] + 1]
  PROVE  \A a \in Bufs : refcnt'[a] = Cardinality(Users(a)')
<1> SUFFICES ASSUME NEW a \in Bufs PROVE refcnt'[a] = Cardinality(Users(a)')
  OBVIOUS
<1>1. IsFiniteSet(Users(a)) /\ p \notin Users(a)
  BY SMTT(30), BioConstants, FS_Subset DEF Users
<1>2. CASE a = b
  <2>1. Users(a)' = Users(a) \cup {p}
    BY <1>2, Zenon DEF Users, TypeOK
  <2>2. Cardinality(Users(a) \cup {p}) = Cardinality(Users(a)) + 1
    BY <1>1, FS_AddElement, Zenon
  <2>3. QED
    BY SMTT(30), <1>2, <2>1, <2>2 DEF TypeOK
<1>3. CASE a # b
  <2>1. Users(a)' = Users(a)
    BY SMTT(30), <1>3, BioConstants DEF Users, TypeOK
  <2>2. QED
    BY SMTT(30), <1>3, <2>1 DEF TypeOK
<1>4. QED
  BY SMTT(30), <1>2, <1>3

\* b->refcnt-- counts the user that leaves.
LEMMA CountPut ==
  ASSUME TypeOK, NEW p \in Procs, NEW b \in Bufs, buf[p] = b,
         \A a \in Bufs : refcnt[a] = Cardinality(Users(a)),
         buf' = [buf EXCEPT ![p] = NoBuf], refcnt' = [refcnt EXCEPT ![b] = refcnt[b] - 1]
  PROVE  /\ refcnt' \in [Bufs -> Nat]
         /\ \A a \in Bufs : refcnt'[a] = Cardinality(Users(a)')
<1>1. IsFiniteSet(Users(b)) /\ p \in Users(b)
  BY SMTT(30), BioConstants, FS_Subset DEF Users
<1>2. Users(b)' = Users(b) \ {p}
  BY BioConstants, Zenon DEF Users, TypeOK
<1>3. Cardinality(Users(b) \ {p}) = Cardinality(Users(b)) - 1 /\ IsFiniteSet(Users(b) \ {p})
  BY <1>1, FS_RemoveElement, Zenon
<1>4. refcnt[b] - 1 = Cardinality(Users(b)') /\ Cardinality(Users(b)') \in Nat
  BY <1>2, <1>3, FS_CardinalityType, Zenon
<1>5. \A a \in Bufs \ {b} : Users(a)' = Users(a)
  BY SMTT(30), BioConstants DEF Users, TypeOK
<1>6. QED
  BY SMTT(30), <1>4, <1>5 DEF TypeOK

\* What does not touch the counts keeps them.
LEMMA OneBufferKept ==
  ASSUME OneBuffer, blockno' = blockno, refcnt' = refcnt, buf' = buf, want' = want
  PROVE  OneBuffer'
<1>1. \A b \in Bufs : Users(b)' = Users(b)
  BY DEF Users
<1>2. QED
  BY <1>1 DEF OneBuffer

\* The queue is right as long as it and those who wait for it stay the same.
LEMMA QueueKept ==
  ASSUME QueueWaits, idequeue' = idequeue,
         \A q \in Procs : pc'[q] = "iowait" <=> pc[q] = "iowait",
         \A q \in Procs : pc[q] = "iowait" => buf'[q] = buf[q]
  PROVE  QueueWaits'
<1>1. \A b \in Bufs : (\E p \in Procs : buf'[p] = b /\ pc'[p] = "iowait")
                     <=> \E p \in Procs : buf[p] = b /\ pc[p] = "iowait"
  OBVIOUS
<1>2. QED
  BY <1>1 DEF QueueWaits

-----------------------------------------------------------------------------
(* The steps: each keeps the invariant.                                    *)

\* bget() finds the block in buffer b.
LEMMA HitStep ==
  ASSUME BioInv, NEW p \in Procs, NEW k \in Blocks, NEW b \in Bufs, pc[p] = "idle", blockno[b] = k,
         want' = [want EXCEPT ![p] = k], refcnt' = [refcnt EXCEPT ![b] = refcnt[b] + 1],
         buf' = [buf EXCEPT ![p] = b], pc' = [pc EXCEPT ![p] = "acquiresleep"],
         UNCHANGED <<blockno, valid, dirty, data, locked, lru, idequeue, disk, panicked>>
  PROVE  BioInv'
<1>1. buf[p] = NoBuf /\ b # NoBuf /\ p # NoProc
  BY BioConstants, Zenon DEF BioInv, Using
<1>2. \A a \in Bufs : refcnt'[a] = Cardinality(Users(a)')
  BY <1>1, CountGet, ZenonT(40) DEF BioInv, OneBuffer
<1>3. TypeOK'
  BY SMTT(30), <1>1, <1>2 DEF BioInv, TypeOK, PC
<1>4. OneBuffer'
  BY SMTT(30), <1>1, <1>2 DEF BioInv, OneBuffer, TypeOK
<1>5. LockOwned'
  BY SMTT(30), <1>1, <1>2 DEF BioInv, LockOwned, Owner, TypeOK, Using
<1>6. QueueWaits'
  <2>1. /\ idequeue' = idequeue /\ \A q \in Procs : pc'[q] = "iowait" <=> pc[q] = "iowait"
        /\ \A q \in Procs : pc[q] = "iowait" => buf'[q] = buf[q]
    BY <1>1, <1>2, Zenon DEF BioInv, TypeOK
  <2>2. QED
    BY <2>1, QueueKept, Zenon DEF BioInv
<1>7. Using'
  BY <1>1, <1>2, Zenon DEF BioInv, Using, TypeOK
<1>8. FlagsRight'
  BY <1>1, <1>2, ZenonT(40) DEF BioInv, FlagsRight, TypeOK
<1>9. Listed'
  BY <1>1, <1>2, Zenon DEF BioInv, Listed, TypeOK
<1>10. QED
  BY <1>3, <1>4, <1>5, <1>6, <1>7, <1>8, <1>9, ZenonT(40) DEF BioInv

\* bget() takes the unused buffer b.
LEMMA MissStep ==
  ASSUME BioInv, NEW p \in Procs, NEW k \in Blocks, NEW b \in Unused, pc[p] = "idle", Cached(k) = {},
         want' = [want EXCEPT ![p] = k], blockno' = [blockno EXCEPT ![b] = k],
         valid' = [valid EXCEPT ![b] = FALSE], dirty' = [dirty EXCEPT ![b] = FALSE],
         refcnt' = [refcnt EXCEPT ![b] = 1], buf' = [buf EXCEPT ![p] = b],
         pc' = [pc EXCEPT ![p] = "acquiresleep"],
         UNCHANGED <<data, locked, lru, idequeue, disk, panicked>>
  PROVE  BioInv'
<1>1. buf[p] = NoBuf /\ b # NoBuf /\ p # NoProc /\ b \in Bufs /\ refcnt[b] = 0
  BY BioConstants, Zenon DEF BioInv, Using, Unused
<1>2. \A a \in Bufs : refcnt'[a] = Cardinality(Users(a)')
  <2>1. refcnt' = [refcnt EXCEPT ![b] = refcnt[b] + 1]
    BY SMTT(30), <1>1
  <2>2. QED
    BY <1>1, <2>1, CountGet, ZenonT(40) DEF BioInv, OneBuffer
<1>3. \A q \in Procs : buf[q] # b
  <2>1. IsFiniteSet(Users(b)) /\ Cardinality(Users(b)) = 0
    BY SMTT(30), <1>1, BioConstants, FS_Subset DEF Users, BioInv, OneBuffer
  <2>2. Users(b) = {}
    BY <2>1, FS_EmptySet, Zenon
  <2>3. QED
    BY SMTT(30), <2>2 DEF Users
<1>4. \A a \in Bufs : blockno[a] # k
  BY Zenon DEF Cached
<1>5. TypeOK'
  BY <1>1, <1>2, <1>3, <1>4, ZenonT(40) DEF BioInv, TypeOK, PC
<1>6. OneBuffer'
  BY SMTT(30), <1>1, <1>2, <1>3, <1>4, BioConstants DEF BioInv, OneBuffer, TypeOK, Using
<1>7. LockOwned'
  BY SMTT(30), <1>1, <1>2, <1>3, <1>4 DEF BioInv, LockOwned, Owner, TypeOK, Using
<1>8. QueueWaits'
  <2>1. /\ idequeue' = idequeue /\ \A q \in Procs : pc'[q] = "iowait" <=> pc[q] = "iowait"
        /\ \A q \in Procs : pc[q] = "iowait" => buf'[q] = buf[q]
    BY <1>1, <1>2, <1>3, <1>4, ZenonT(40) DEF BioInv, TypeOK
  <2>2. QED
    BY <2>1, QueueKept, Zenon DEF BioInv
<1>9. Using'
  BY <1>1, <1>2, <1>3, <1>4, ZenonT(40) DEF BioInv, Using, TypeOK
<1>10. FlagsRight'
  BY SMTT(30), <1>1, <1>2, <1>3, <1>4 DEF BioInv, FlagsRight, TypeOK
<1>11. Listed'
  BY <1>1, <1>2, <1>3, <1>4, ZenonT(40) DEF BioInv, Listed, TypeOK
<1>12. QED
  BY <1>5, <1>6, <1>7, <1>8, <1>9, <1>10, <1>11, Zenon DEF BioInv

\* bget().
LEMMA BgetStep ==
  ASSUME BioInv, NEW p \in Procs, NEW k \in Blocks, Bget(p, k)
  PROVE  BioInv'
<1>1. /\ pc[p] = "idle" /\ want' = [want EXCEPT ![p] = k] /\ UNCHANGED <<data, locked, lru, idequeue, disk>>
  BY DEF Bget
<1>2. CASE Cached(k) # {} /\ \E b \in Cached(k) : /\ refcnt' = [refcnt EXCEPT ![b] = Get(b)]
                                                 /\ buf' = [buf EXCEPT ![p] = b]
                                                 /\ pc' = Goto(p, "acquiresleep")
                                                 /\ UNCHANGED <<blockno, flags, panicked>>
  <2>1. PICK b \in Bufs : /\ blockno[b] = k /\ refcnt' = [refcnt EXCEPT ![b] = refcnt[b] + 1]
                          /\ buf' = [buf EXCEPT ![p] = b]
                          /\ pc' = [pc EXCEPT ![p] = "acquiresleep"]
                          /\ UNCHANGED <<blockno, valid, dirty, panicked>>
    BY <1>2, Zenon DEF Cached, Get, Goto, flags
  <2>2. UNCHANGED <<blockno, valid, dirty, data, locked, lru, idequeue, disk, panicked>>
    BY SMTT(30), <1>1, <2>1
  <2>3. QED
    BY <1>1, <2>1, <2>2, HitStep, ZenonT(40)
<1>3. CASE /\ Cached(k) = {} /\ Unused # {}
           /\ blockno' = [blockno EXCEPT ![Victim] = k]
           /\ valid' = [valid EXCEPT ![Victim] = FALSE]
           /\ dirty' = [dirty EXCEPT ![Victim] = FALSE]
           /\ refcnt' = [refcnt EXCEPT ![Victim] = 1]
           /\ buf' = [buf EXCEPT ![p] = Victim]
           /\ pc' = Goto(p, "acquiresleep")
           /\ UNCHANGED panicked
  <2>1. PICK b \in Unused : b = Victim
    BY SMTT(30), <1>3, VictimUnused DEF BioInv, TypeOK
  <2>2. /\ pc' = [pc EXCEPT ![p] = "acquiresleep"]
        /\ UNCHANGED <<data, locked, lru, idequeue, disk, panicked>>
    BY SMTT(30), <1>1, <1>3 DEF Goto
  <2>3. QED
    BY <1>1, <1>3, <2>1, <2>2, MissStep, ZenonT(40)
<1>4. CASE panicked' = TRUE /\ UNCHANGED <<blockno, flags, refcnt, buf, pc>>
  <2>1. buf[p] = NoBuf
    BY <1>1, Zenon DEF BioInv, Using
  <2>2. UNCHANGED <<blockno, valid, dirty, refcnt, buf, pc, data, locked, lru, idequeue, disk>>
    BY <1>1, <1>4, Zenon DEF flags
  <2>3. TypeOK' /\ Using'
    BY <1>1, <1>4, <2>1, <2>2, ZenonT(40) DEF BioInv, TypeOK, Using
  <2>6. OneBuffer'
    <3>1. \A b \in Bufs : Users(b)' = Users(b)
      BY <2>2, Zenon DEF Users
    <3>2. \A q \in Procs : buf[q] # NoBuf => want'[q] = want[q]
      BY <1>1, <2>1, ZenonT(40) DEF BioInv, TypeOK
    <3>3. QED
      BY <2>2, <3>1, <3>2, Zenon DEF BioInv, OneBuffer
  <2>4. LockOwned' /\ QueueWaits' /\ FlagsRight' /\ Listed'
    BY <2>2 DEF BioInv, LockOwned, QueueWaits, FlagsRight, Listed
  <2>5. QED
    BY SMTT(30), <2>3, <2>4, <2>6 DEF BioInv
<1>5. QED
  BY <1>2, <1>3, <1>4, ZenonT(40) DEF Bget

\* acquiresleep().
LEMMA AcquireSleepStep ==
  ASSUME BioInv, NEW p \in Procs, AcquireSleep(p)
  PROVE  BioInv'
<1> PICK b \in Bufs : b = buf[p]
  BY Zenon DEF AcquireSleep, BioInv, TypeOK, Using
<1>1. /\ b = buf[p] /\ pc[p] = "acquiresleep" /\ UNCHANGED <<blockno, valid, dirty, refcnt, data, lru, idequeue, disk, buf, want, panicked>>
  BY Zenon DEF AcquireSleep, cached, flags
<1>2. \/ locked[b] = NoProc /\ locked' = [locked EXCEPT ![b] = p] /\ pc' = [pc EXCEPT ![p] = "locked"]
      \/ locked[b] # NoProc /\ pc' = [pc EXCEPT ![p] = "asleep"] /\ locked' = locked
  BY Zenon DEF AcquireSleep, CanLock, Goto
<1>3. (\A q \in Procs : q # NoProc) /\ b # NoBuf
  BY BioConstants, Zenon
<1>4. TypeOK'
  <2>1. locked' \in [Bufs -> Procs \cup {NoProc}] /\ pc' \in [Procs -> PC]
    <3>1. CASE locked[b] = NoProc /\ locked' = [locked EXCEPT ![b] = p] /\ pc' = [pc EXCEPT ![p] = "locked"]
      BY <3>1, Zenon DEF BioInv, TypeOK, PC
    <3>2. CASE locked[b] # NoProc /\ pc' = [pc EXCEPT ![p] = "asleep"] /\ locked' = locked
      BY <3>2, Zenon DEF BioInv, TypeOK, PC
    <3>3. QED
      BY <1>2, <3>1, <3>2, Zenon
  <2>2. QED
    BY <1>1, <2>1, Zenon DEF BioInv, TypeOK
<1>5. OneBuffer'
  BY <1>1, <1>2, <1>3, OneBufferKept, ZenonT(40) DEF BioInv
<1>6. LockOwned'
  <2>1. CASE locked[b] = NoProc /\ locked' = [locked EXCEPT ![b] = p] /\ pc' = [pc EXCEPT ![p] = "locked"]
    BY SMTT(30), <1>1, <1>3, <2>1 DEF BioInv, LockOwned, Owner, TypeOK
  <2>2. CASE locked[b] # NoProc /\ pc' = [pc EXCEPT ![p] = "asleep"] /\ locked' = locked
    BY SMTT(30), <1>1, <1>3, <2>2 DEF BioInv, LockOwned, Owner, TypeOK
  <2>3. QED
    BY <1>2, <2>1, <2>2, ZenonT(40)
<1>7. QueueWaits'
  <2>1. /\ idequeue' = idequeue /\ \A q \in Procs : pc'[q] = "iowait" <=> pc[q] = "iowait"
        /\ \A q \in Procs : pc[q] = "iowait" => buf'[q] = buf[q]
    BY <1>1, <1>2, <1>3, Zenon DEF BioInv, TypeOK
  <2>2. QED
    BY <2>1, QueueKept, Zenon DEF BioInv
<1>8. Using'
  BY <1>1, <1>2, <1>3, ZenonT(40) DEF BioInv, Using, TypeOK
<1>9. FlagsRight'
  BY SMTT(30), <1>1, <1>2, <1>3 DEF BioInv, FlagsRight, TypeOK
<1>10. Listed'
  BY <1>1, <1>2, <1>3, ZenonT(40) DEF BioInv, Listed, TypeOK
<1>11. QED
  BY <1>4, <1>5, <1>6, <1>7, <1>8, <1>9, <1>10, ZenonT(40) DEF BioInv

\* bread() after bget().
LEMMA BreadStep ==
  ASSUME BioInv, NEW p \in Procs, Bread(p)
  PROVE  BioInv'
<1> PICK b \in Bufs : b = buf[p]
  BY Zenon DEF Bread, BioInv, TypeOK, Using
<1>1. /\ b = buf[p] /\ pc[p] = "locked" /\ UNCHANGED <<blockno, valid, dirty, refcnt, data, locked, lru, idequeue, disk, buf, want, panicked>>
  BY Zenon DEF Bread, cached, flags
<1>2. pc' = [pc EXCEPT ![p] = IF valid[b] THEN "hold" ELSE "iderw"]
  BY Zenon DEF Bread, Goto
<1>3. (\A q \in Procs : q # NoProc) /\ b # NoBuf
  BY BioConstants
<1>4. TypeOK'
  BY <1>1, <1>2, <1>3, ZenonT(40) DEF BioInv, TypeOK, PC
<1>5. OneBuffer'
  BY <1>1, <1>2, <1>3, OneBufferKept, ZenonT(40) DEF BioInv
<1>6. LockOwned'
  BY SMTT(30), <1>1, <1>2, <1>3 DEF BioInv, LockOwned, Owner, TypeOK
<1>7. QueueWaits'
  <2>1. /\ idequeue' = idequeue /\ \A q \in Procs : pc'[q] = "iowait" <=> pc[q] = "iowait"
        /\ \A q \in Procs : pc[q] = "iowait" => buf'[q] = buf[q]
    BY <1>1, <1>2, <1>3, ZenonT(40) DEF BioInv, TypeOK
  <2>2. QED
    BY SMTT(30), <2>1, QueueKept DEF BioInv
<1>8. Using'
  BY <1>1, <1>2, <1>3, ZenonT(40) DEF BioInv, Using, TypeOK
<1>9. FlagsRight'
  BY SMTT(30), <1>1, <1>2, <1>3 DEF BioInv, FlagsRight, TypeOK
<1>10. Listed'
  BY <1>1, <1>2, <1>3, ZenonT(40) DEF BioInv, Listed, TypeOK
<1>11. QED
  BY SMTT(30), <1>4, <1>5, <1>6, <1>7, <1>8, <1>9, <1>10 DEF BioInv

\* iderw() queues its request.
LEMMA IderwStep ==
  ASSUME BioInv, NEW p \in Procs, Iderw(p)
  PROVE  BioInv'
<1> PICK b \in Bufs : b = buf[p]
  BY Zenon DEF Iderw, BioInv, TypeOK, Using
<1>1. /\ b = buf[p] /\ pc[p] = "iderw" /\ idequeue' = Append(idequeue, b)
      /\ pc' = [pc EXCEPT ![p] = "iowait"] /\ UNCHANGED <<blockno, valid, dirty, refcnt, data, locked, lru, disk, buf, want, panicked>>
  BY ZenonT(40) DEF Iderw, Goto, cached, flags
<1>2. \A q \in Procs : buf[q] = b /\ pc[q] \in Owner => q = p
  BY SMTT(30), <1>1 DEF BioInv, LockOwned, Owner
<1>3. (\A q \in Procs : q # NoProc) /\ b # NoBuf
  BY BioConstants
<1>4. TypeOK'
  BY SMTT(30), <1>1, <1>2, <1>3 DEF BioInv, TypeOK, PC
<1>5. OneBuffer'
  BY <1>1, <1>2, <1>3, OneBufferKept, ZenonT(40) DEF BioInv
<1>6. LockOwned'
  BY SMTT(30), <1>1, <1>2, <1>3 DEF BioInv, LockOwned, Owner, TypeOK
<1>7. QueueWaits'
  <2> DEFINE u == Append(idequeue, b)
  <2>1. /\ u \in Seq(Bufs) /\ Len(u) = Len(idequeue) + 1 /\ u[Len(u)] = b
        /\ \A i \in 1 .. Len(idequeue) : u[i] = idequeue[i]
        /\ Len(idequeue) \in Nat /\ DOMAIN u = 1 .. Len(u) /\ DOMAIN idequeue = 1 .. Len(idequeue)
    BY DEF BioInv, TypeOK
  <2>2. \A i \in 1 .. Len(idequeue) : idequeue[i] # b
    BY <1>1, <1>2, <1>3, ZenonT(40) DEF BioInv, QueueWaits, Owner
  <2> HIDE DEF u
  <2>3. IsInjective(u)
    BY SMTT(30), <2>1, <2>2 DEF BioInv, QueueWaits, IsInjective
  <2>4. ASSUME NEW a \in Bufs
        PROVE  (\E i \in 1 .. Len(u) : u[i] = a) <=> \E q \in Procs : buf'[q] = a /\ pc'[q] = "iowait"
    <3>1. CASE a = b
      <4>1. Len(u) \in 1 .. Len(u) /\ u[Len(u)] = a
        BY SMTT(30), <2>1, <3>1
      <4>2. buf'[p] = a /\ pc'[p] = "iowait"
        BY <1>1, <1>2, <1>3, <3>1, ZenonT(40) DEF BioInv, TypeOK
      <4>3. QED
        BY <4>1, <4>2, Zenon
    <3>2. CASE a # b
      <4>1. (\E i \in 1 .. Len(u) : u[i] = a) <=> \E i \in 1 .. Len(idequeue) : idequeue[i] = a
        BY SMTT(30), <2>1, <3>2
      <4>2. (\E q \in Procs : buf'[q] = a /\ pc'[q] = "iowait") <=> \E q \in Procs : buf[q] = a /\ pc[q] = "iowait"
        BY <1>1, <1>2, <1>3, <3>2, ZenonT(40) DEF BioInv, TypeOK
      <4>3. QED
        BY <4>1, <4>2, ZenonT(40) DEF BioInv, QueueWaits
    <3>3. QED
      BY <3>1, <3>2, Zenon
  <2>5. idequeue' = u
    BY <1>1, Zenon DEF u
  <2>6. QED
    BY <2>3, <2>4, <2>5, ZenonT(40) DEF QueueWaits
<1>8. Using'
  BY <1>1, <1>2, <1>3, ZenonT(40) DEF BioInv, Using, TypeOK
<1>9. FlagsRight'
  BY SMTT(30), <1>1, <1>2, <1>3 DEF BioInv, FlagsRight, TypeOK
<1>10. Listed'
  BY <1>1, <1>2, <1>3, Zenon DEF BioInv, Listed, TypeOK
<1>11. QED
  BY <1>4, <1>5, <1>6, <1>7, <1>8, <1>9, <1>10 DEF BioInv

\* ideintr() ends the request for buffer b.
LEMMA DoneStep ==
  ASSUME BioInv, NEW b \in Bufs, idequeue # <<>>, b = Head(idequeue), idequeue' = Tail(idequeue),
         valid' = [valid EXCEPT ![b] = TRUE], dirty' = [dirty EXCEPT ![b] = FALSE],
         pc' = [q \in Procs |-> IF pc[q] = "iowait" /\ buf[q] = b THEN "iowoken" ELSE pc[q]],
         \/ dirty[b] /\ disk' = [disk EXCEPT ![blockno[b]] = data[b]] /\ data' = data
         \/ ~dirty[b] /\ data' = [data EXCEPT ![b] = disk[blockno[b]]] /\ disk' = disk,
         UNCHANGED <<blockno, refcnt, locked, lru, buf, want, panicked>>
  PROVE  BioInv'
<1>1. idequeue[1] = b /\ 1 \in 1 .. Len(idequeue)
  BY DEF BioInv, TypeOK
<1>2. blockno[b] \in Blocks
  <2>1. PICK p \in Procs : buf[p] = b /\ pc[p] = "iowait"
    BY <1>1, ZenonT(40) DEF BioInv, QueueWaits
  <2>2. QED
    BY <2>1, Zenon DEF BioInv, Using, OneBuffer
<1>3. \A q \in Procs : buf[q] = b => pc'[q] # "iowait" /\ pc[q] # "hold" /\ pc[q] # "iowoken"
  <2>1. PICK p \in Procs : buf[p] = b /\ pc[p] = "iowait"
    BY SMTT(30), <1>1 DEF BioInv, QueueWaits
  <2>2. QED
    BY SMTT(30), <2>1 DEF BioInv, LockOwned, Owner
<1>4. TypeOK'
  <2>1. disk' \in [Blocks -> Values] /\ data' \in [Bufs -> Values]
    BY <1>2, ZenonT(40) DEF BioInv, TypeOK
  <2>2. pc' \in [Procs -> PC]
    BY SMTT(30) DEF BioInv, TypeOK, PC
  <2>3. idequeue' \in Seq(Bufs)
    BY DEF BioInv, TypeOK
  <2>4. QED
    BY <2>1, <2>2, <2>3, Zenon DEF BioInv, TypeOK
<1>5. OneBuffer'
  BY <1>1, <1>2, <1>3, OneBufferKept, ZenonT(40) DEF BioInv
<1>6. LockOwned'
  BY SMTT(30), <1>1, <1>2, <1>3 DEF BioInv, LockOwned, Owner, TypeOK
<1>7. QueueWaits'
  <2>1. /\ idequeue' \in Seq(Bufs) /\ Len(idequeue') = Len(idequeue) - 1
        /\ \A i \in 1 .. Len(idequeue') : idequeue'[i] = idequeue[i + 1]
        /\ Len(idequeue) \in Nat /\ DOMAIN idequeue' = 1 .. Len(idequeue') /\ DOMAIN idequeue = 1 .. Len(idequeue)
    BY SMTT(30), <1>1, HeadTailProperties DEF BioInv, TypeOK
  <2>2. IsInjective(idequeue')
    <3> SUFFICES ASSUME NEW i \in 1 .. Len(idequeue'), NEW j \in 1 .. Len(idequeue'), idequeue'[i] = idequeue'[j] PROVE i = j
      BY <2>1, ZenonT(40) DEF IsInjective
    <3>1. i + 1 \in 1 .. Len(idequeue) /\ j + 1 \in 1 .. Len(idequeue) /\ idequeue[i + 1] = idequeue[j + 1]
      BY SMTT(30), <2>1
    <3>2. i + 1 = j + 1
      BY <2>1, <3>1, ZenonT(40) DEF BioInv, QueueWaits, IsInjective
    <3>3. QED
      BY SMTT(30), <2>1, <3>2
  <2>3. ASSUME NEW i \in 1 .. Len(idequeue') PROVE idequeue'[i] # b
    <3>1. i + 1 \in 1 .. Len(idequeue) /\ i + 1 # 1 /\ idequeue'[i] = idequeue[i + 1]
      BY SMTT(30), <2>1
    <3>2. QED
      BY SMTT(30), <1>1, <2>1, <3>1 DEF BioInv, QueueWaits, IsInjective
  <2>4. ASSUME NEW a \in Bufs
        PROVE  (\E i \in 1 .. Len(idequeue') : idequeue'[i] = a) <=> \E q \in Procs : buf'[q] = a /\ pc'[q] = "iowait"
    <3>1. CASE a = b
      BY SMTT(30), <1>3, <2>3, <3>1
    <3>2. CASE a # b
      <4>1. ASSUME NEW i \in 1 .. Len(idequeue), idequeue[i] = a PROVE \E j \in 1 .. Len(idequeue') : idequeue'[j] = a
        <5>1. i - 1 \in 1 .. Len(idequeue') /\ (i - 1) + 1 = i
          BY SMTT(30), <1>1, <2>1, <3>2, <4>1
        <5>2. QED
          BY <2>1, <4>1, <5>1, ZenonT(40)
      <4>2. ASSUME NEW j \in 1 .. Len(idequeue'), idequeue'[j] = a PROVE \E i \in 1 .. Len(idequeue) : idequeue[i] = a
        BY SMTT(30), <2>1, <4>2
      <4>3. (\E q \in Procs : buf'[q] = a /\ pc'[q] = "iowait") <=> \E q \in Procs : buf[q] = a /\ pc[q] = "iowait"
        BY <3>2, Zenon
      <4>4. QED
        BY <4>1, <4>2, <4>3, ZenonT(40) DEF BioInv, QueueWaits
    <3>3. QED
      BY SMTT(30), <3>1, <3>2
  <2>5. QED
    BY <2>2, <2>4, ZenonT(40) DEF QueueWaits
<1>8. Using'
  BY <1>1, <1>2, <1>3, ZenonT(40) DEF BioInv, Using, TypeOK
<1>9. FlagsRight'
  <2>1. ASSUME NEW a \in Bufs, valid'[a]
        PROVE  blockno'[a] \in Blocks /\ (~dirty'[a] => data'[a] = disk'[blockno'[a]])
    <3>1. CASE a = b
      BY SMTT(30), <1>2, <3>1 DEF BioInv, TypeOK
    <3>2. CASE a # b
      <4>1. /\ valid[a] /\ dirty'[a] = dirty[a] /\ data'[a] = data[a]
            /\ blockno[a] \in Blocks /\ (~dirty[a] => data[a] = disk[blockno[a]])
        BY SMTT(30), <2>1, <3>2 DEF BioInv, TypeOK, FlagsRight
      <4>2. blockno[a] # blockno[b]
        BY <1>2, <3>2, <4>1, BioConstants, ZenonT(40) DEF BioInv, OneBuffer
      <4>3. disk'[blockno[a]] = disk[blockno[a]]
        BY <4>1, <4>2, ZenonT(40) DEF BioInv, TypeOK
      <4>4. QED
        BY <4>1, <4>3, ZenonT(40)
    <3>3. QED
      BY <3>1, <3>2, ZenonT(40)
  <2>2. \A a \in Bufs : dirty'[a] => valid'[a]
    BY ZenonT(40) DEF BioInv, TypeOK, FlagsRight
  <2>3. ASSUME NEW q \in Procs
        PROVE  /\ pc'[q] = "iowoken" => valid'[buf'[q]] /\ ~dirty'[buf'[q]]
               /\ pc'[q] = "hold" => valid'[buf'[q]]
    <3>1. CASE buf[q] = b
      BY SMTT(30), <3>1 DEF BioInv, TypeOK
    <3>2. CASE buf[q] # b
      BY <3>2, ZenonT(40) DEF BioInv, TypeOK, FlagsRight, Using
    <3>3. QED
      BY <3>1, <3>2, Zenon
  <2>4. QED
    BY <2>1, <2>2, <2>3, ZenonT(40) DEF FlagsRight
<1>10. Listed'
  BY <1>1, <1>2, <1>3, ZenonT(40) DEF BioInv, Listed, TypeOK
<1>11. QED
  BY <1>4, <1>5, <1>6, <1>7, <1>8, <1>9, <1>10, ZenonT(40) DEF BioInv

\* The interrupt of the disk.
LEMMA IdeintrStep ==
  ASSUME BioInv, Ideintr
  PROVE  BioInv'
<1> PICK b \in Bufs : b = Head(idequeue)
  BY SMTT(30) DEF BioInv, TypeOK, Ideintr
<1>1. /\ idequeue # <<>> /\ idequeue' = Tail(idequeue)
      /\ valid' = [valid EXCEPT ![b] = TRUE] /\ dirty' = [dirty EXCEPT ![b] = FALSE]
      /\ UNCHANGED <<blockno, refcnt, locked, lru, buf, want, panicked>>
  BY SMTT(30) DEF Ideintr, Dequeue, cached
<1>2. pc' = [q \in Procs |-> IF pc[q] = "iowait" /\ buf[q] = b THEN "iowoken" ELSE pc[q]]
  BY BioConstants DEF Ideintr, Wakeup
<1>3. \/ dirty[b] /\ disk' = [disk EXCEPT ![blockno[b]] = data[b]] /\ data' = data
      \/ ~dirty[b] /\ data' = [data EXCEPT ![b] = disk[blockno[b]]] /\ disk' = disk
  BY ZenonT(40) DEF Ideintr
<1>4. QED
  BY <1>1, <1>2, <1>3, DoneStep, ZenonT(40)

\* iderw() goes on after its sleep().
LEMMA IoWokenStep ==
  ASSUME BioInv, NEW p \in Procs, IoWoken(p)
  PROVE  BioInv'
<1> PICK b \in Bufs : b = buf[p]
  BY Zenon DEF IoWoken, BioInv, TypeOK, Using
<1>1. /\ b = buf[p] /\ pc[p] = "iowoken" /\ UNCHANGED <<blockno, valid, dirty, refcnt, data, locked, lru, idequeue, disk, buf, want, panicked>>
  BY Zenon DEF IoWoken, cached, flags
<1>2. valid[b] /\ pc' = [pc EXCEPT ![p] = "hold"]
  BY <1>1, ZenonT(40) DEF IoWoken, Goto, BioInv, FlagsRight
<1>3. (\A q \in Procs : q # NoProc) /\ b # NoBuf
  BY BioConstants
<1>4. TypeOK'
  BY SMTT(30), <1>1, <1>2, <1>3 DEF BioInv, TypeOK, PC
<1>5. OneBuffer'
  BY SMTT(30), <1>1, <1>2, <1>3, OneBufferKept DEF BioInv
<1>6. LockOwned'
  BY SMTT(30), <1>1, <1>2, <1>3 DEF BioInv, LockOwned, Owner, TypeOK
<1>7. QueueWaits'
  <2>1. /\ idequeue' = idequeue /\ \A q \in Procs : pc'[q] = "iowait" <=> pc[q] = "iowait"
        /\ \A q \in Procs : pc[q] = "iowait" => buf'[q] = buf[q]
    BY <1>1, <1>2, <1>3, ZenonT(40) DEF BioInv, TypeOK
  <2>2. QED
    BY <2>1, QueueKept DEF BioInv
<1>8. Using'
  BY <1>1, <1>2, <1>3, ZenonT(40) DEF BioInv, Using, TypeOK
<1>9. FlagsRight'
  BY <1>1, <1>2, <1>3, ZenonT(40) DEF BioInv, FlagsRight, TypeOK
<1>10. Listed'
  BY <1>1, <1>2, <1>3, Zenon DEF BioInv, Listed, TypeOK
<1>11. QED
  BY <1>4, <1>5, <1>6, <1>7, <1>8, <1>9, <1>10 DEF BioInv

\* log_write().
LEMMA LogWriteStep ==
  ASSUME BioInv, NEW p \in Procs, NEW v \in Values, LogWrite(p, v)
  PROVE  BioInv'
<1> PICK b \in Bufs : b = buf[p]
  BY Zenon DEF LogWrite, BioInv, TypeOK, Using
<1>1. /\ b = buf[p] /\ pc[p] = "hold" /\ data' = [data EXCEPT ![b] = v]
      /\ dirty' = [dirty EXCEPT ![b] = TRUE] /\ UNCHANGED <<blockno, valid, refcnt, locked, lru, idequeue, disk, pc, buf, want, panicked>>
  BY ZenonT(40) DEF LogWrite, cached
<1>2. \A q \in Procs : buf[q] = b /\ pc[q] \in Owner => q = p
  BY SMTT(30), <1>1 DEF BioInv, LockOwned, Owner
<1>3. (\A q \in Procs : q # NoProc) /\ b # NoBuf
  BY BioConstants, Zenon
<1>4. TypeOK'
  BY <1>1, <1>2, <1>3, ZenonT(40) DEF BioInv, TypeOK, PC
<1>5. OneBuffer'
  BY <1>1, <1>2, <1>3, OneBufferKept, ZenonT(40) DEF BioInv
<1>6. LockOwned'
  BY <1>1, <1>2, <1>3, ZenonT(40) DEF BioInv, LockOwned, Owner, TypeOK
<1>7. QueueWaits'
  <2>1. /\ idequeue' = idequeue /\ \A q \in Procs : pc'[q] = "iowait" <=> pc[q] = "iowait"
        /\ \A q \in Procs : pc[q] = "iowait" => buf'[q] = buf[q]
    BY <1>1, <1>2, <1>3, ZenonT(40) DEF BioInv, TypeOK
  <2>2. QED
    BY <2>1, QueueKept, Zenon DEF BioInv
<1>8. Using'
  BY <1>1, <1>2, <1>3, ZenonT(40) DEF BioInv, Using, TypeOK
<1>9. FlagsRight'
  BY SMTT(30), <1>1, <1>2, <1>3 DEF BioInv, FlagsRight, TypeOK, Owner
<1>10. Listed'
  BY <1>1, <1>2, <1>3, ZenonT(40) DEF BioInv, Listed, TypeOK
<1>11. QED
  BY <1>4, <1>5, <1>6, <1>7, <1>8, <1>9, <1>10, ZenonT(40) DEF BioInv

\* bwrite().
LEMMA BwriteStep ==
  ASSUME BioInv, NEW p \in Procs, NEW v \in Values, Bwrite(p, v)
  PROVE  BioInv'
<1> PICK b \in Bufs : b = buf[p]
  BY Zenon DEF Bwrite, BioInv, TypeOK, Using
<1>1. /\ b = buf[p] /\ pc[p] = "hold" /\ data' = [data EXCEPT ![b] = v]
      /\ dirty' = [dirty EXCEPT ![b] = TRUE] /\ pc' = [pc EXCEPT ![p] = "iderw"]
      /\ UNCHANGED <<blockno, valid, refcnt, locked, lru, idequeue, disk, buf, want, panicked>>
  BY ZenonT(40) DEF Bwrite, Goto, cached
<1>2. \A q \in Procs : buf[q] = b /\ pc[q] \in Owner => q = p
  BY SMTT(30), <1>1 DEF BioInv, LockOwned, Owner
<1>3. (\A q \in Procs : q # NoProc) /\ b # NoBuf
  BY SMTT(30), BioConstants
<1>4. TypeOK'
  BY <1>1, <1>2, <1>3, ZenonT(40) DEF BioInv, TypeOK, PC
<1>5. OneBuffer'
  BY <1>1, <1>2, <1>3, OneBufferKept, ZenonT(40) DEF BioInv
<1>6. LockOwned'
  BY SMTT(30), <1>1, <1>2, <1>3 DEF BioInv, LockOwned, Owner, TypeOK
<1>7. QueueWaits'
  <2>1. /\ idequeue' = idequeue /\ \A q \in Procs : pc'[q] = "iowait" <=> pc[q] = "iowait"
        /\ \A q \in Procs : pc[q] = "iowait" => buf'[q] = buf[q]
    BY <1>1, <1>2, <1>3, ZenonT(40) DEF BioInv, TypeOK
  <2>2. QED
    BY SMTT(30), <2>1, QueueKept DEF BioInv
<1>8. Using'
  BY <1>1, <1>2, <1>3, ZenonT(40) DEF BioInv, Using, TypeOK
<1>9. FlagsRight'
  BY SMTT(30), <1>1, <1>2, <1>3 DEF BioInv, FlagsRight, TypeOK, Owner
<1>10. Listed'
  BY <1>1, <1>2, <1>3, ZenonT(40) DEF BioInv, Listed, TypeOK
<1>11. QED
  BY SMTT(30), <1>4, <1>5, <1>6, <1>7, <1>8, <1>9, <1>10 DEF BioInv

\* releasesleep().
LEMMA ReleaseSleepStep ==
  ASSUME BioInv, NEW p \in Procs, ReleaseSleep(p)
  PROVE  BioInv'
<1> PICK b \in Bufs : b = buf[p]
  BY Zenon DEF ReleaseSleep, BioInv, TypeOK, Using
<1>1. /\ b = buf[p] /\ pc[p] = "hold" /\ locked' = [locked EXCEPT ![b] = NoProc]
      /\ UNCHANGED <<blockno, valid, dirty, refcnt, data, lru, idequeue, disk, buf, want, panicked>>
  BY Zenon DEF ReleaseSleep, cached, flags
<1>2. pc' = [q \in Procs |-> IF q = p THEN "unref"
                             ELSE IF pc[q] = "asleep" /\ buf[q] = b THEN "acquiresleep" ELSE pc[q]]
  BY ZenonT(40) DEF ReleaseSleep, Wakeup
<1>3. \A q \in Procs : buf[q] = b /\ pc[q] \in Owner => q = p
  BY SMTT(30), <1>1 DEF BioInv, LockOwned, Owner
<1>4. (\A q \in Procs : q # NoProc) /\ b # NoBuf
  BY BioConstants
<1>5. TypeOK'
  BY <1>1, <1>2, <1>3, <1>4, ZenonT(40) DEF BioInv, TypeOK, PC
<1>6. OneBuffer'
  BY <1>1, <1>2, <1>3, <1>4, OneBufferKept, ZenonT(40) DEF BioInv
<1>7. LockOwned'
  BY SMTT(30), <1>1, <1>2, <1>3, <1>4 DEF BioInv, LockOwned, Owner, TypeOK
<1>8. QueueWaits'
  <2>1. /\ idequeue' = idequeue /\ \A q \in Procs : pc'[q] = "iowait" <=> pc[q] = "iowait"
        /\ \A q \in Procs : pc[q] = "iowait" => buf'[q] = buf[q]
    BY <1>1, <1>2, <1>3, <1>4, ZenonT(40) DEF BioInv, TypeOK
  <2>2. QED
    BY <2>1, QueueKept DEF BioInv
<1>9. Using'
  BY <1>1, <1>2, <1>3, <1>4, ZenonT(40) DEF BioInv, Using, TypeOK
<1>10. FlagsRight'
  BY <1>1, <1>2, <1>3, <1>4, ZenonT(40) DEF BioInv, FlagsRight, TypeOK
<1>11. Listed'
  BY <1>1, <1>2, <1>3, <1>4, ZenonT(40) DEF BioInv, Listed, TypeOK
<1>12. QED
  BY <1>5, <1>6, <1>7, <1>8, <1>9, <1>10, <1>11 DEF BioInv

\* The rest of brelse().
LEMMA BrelseStep ==
  ASSUME BioInv, NEW p \in Procs, Brelse(p)
  PROVE  BioInv'
<1> PICK b \in Bufs : b = buf[p]
  BY Zenon DEF Brelse, BioInv, TypeOK, Using
<1>1. /\ b = buf[p] /\ pc[p] = "unref" /\ pc' = [pc EXCEPT ![p] = "idle"]
      /\ refcnt' = [refcnt EXCEPT ![b] = refcnt[b] - 1] /\ buf' = [buf EXCEPT ![p] = NoBuf]
      /\ want' = [want EXCEPT ![p] = NoBlock]
      /\ UNCHANGED <<blockno, valid, dirty, data, locked, idequeue, disk, panicked>>
  BY Zenon DEF Brelse, Put, Goto, flags
<1>2. refcnt' \in [Bufs -> Nat] /\ \A a \in Bufs : refcnt'[a] = Cardinality(Users(a)')
  BY <1>1, CountPut, ZenonT(40) DEF BioInv, OneBuffer
<1>3. lru' \in Seq(Bufs) /\ Listed'
  BY FrontListed, ZenonT(40) DEF Brelse, BioInv, TypeOK, Listed
<1>4. (\A q \in Procs : q # NoProc) /\ b # NoBuf
  BY BioConstants
<1>5. TypeOK'
  BY SMTT(30), <1>1, <1>2, <1>3, <1>4 DEF BioInv, TypeOK, PC
<1>6. OneBuffer'
  BY <1>1, <1>2, <1>3, <1>4, ZenonT(40) DEF BioInv, OneBuffer, TypeOK, Using
<1>7. LockOwned'
  BY SMTT(30), <1>1, <1>2, <1>3, <1>4 DEF BioInv, LockOwned, Owner, TypeOK
<1>8. QueueWaits'
  <2>1. /\ idequeue' = idequeue /\ \A q \in Procs : pc'[q] = "iowait" <=> pc[q] = "iowait"
        /\ \A q \in Procs : pc[q] = "iowait" => buf'[q] = buf[q]
    BY <1>1, <1>2, <1>3, <1>4, ZenonT(40) DEF BioInv, TypeOK
  <2>2. QED
    BY <2>1, QueueKept DEF BioInv
<1>9. Using'
  BY <1>1, <1>2, <1>3, <1>4, ZenonT(40) DEF BioInv, Using, TypeOK
<1>10. FlagsRight'
  BY SMTT(30), <1>1, <1>2, <1>3, <1>4 DEF BioInv, FlagsRight, TypeOK
<1>11. Listed'
  BY <1>3, Zenon
<1>12. QED
  BY <1>5, <1>6, <1>7, <1>8, <1>9, <1>10, <1>11 DEF BioInv

-----------------------------------------------------------------------------
\* binit() leaves a sound cache, and every step keeps it so.
LEMMA BioInvInit == Init => BioInv
<1> SUFFICES ASSUME Init PROVE BioInv
  OBVIOUS
<1>1. lru \in Seq(Bufs) /\ Listed
  BY AllListed, Zenon
<1>2. \A b \in Bufs : Users(b) = {}
  BY BioConstants, Zenon DEF Init, Users
<1>3. OneBuffer
  BY <1>2, FS_EmptySet, ZenonT(40) DEF Init, OneBuffer
<1>4. TypeOK
  <2>1. /\ blockno \in [Bufs -> Blocks \cup {NoBlock}] /\ valid \in [Bufs -> BOOLEAN]
        /\ dirty \in [Bufs -> BOOLEAN] /\ refcnt \in [Bufs -> Nat] /\ data \in [Bufs -> Values]
        /\ locked \in [Bufs -> Procs \cup {NoProc}] /\ disk \in [Blocks -> Values]
    BY SMTT(30), BioConstants DEF Init
  <2>2. /\ pc \in [Procs -> PC] /\ buf \in [Procs -> Bufs \cup {NoBuf}]
        /\ want \in [Procs -> Blocks \cup {NoBlock}]
    BY Zenon DEF Init, PC
  <2>3. idequeue \in Seq(Bufs)
    BY DEF Init
  <2>4. panicked \in BOOLEAN
    BY Zenon DEF Init
  <2>5. QED
    BY SMTT(30), <1>1, <2>1, <2>2, <2>3, <2>4 DEF TypeOK
<1>5. LockOwned /\ QueueWaits
  BY SMTT(30), BioConstants DEF Init, LockOwned, QueueWaits, Owner, IsInjective
<1>6. Using /\ FlagsRight
  BY SMTT(30) DEF Init, Using, FlagsRight
<1>7. QED
  BY <1>1, <1>3, <1>4, <1>5, <1>6, ZenonT(40) DEF BioInv

\* The steps, by name.
LEMMA NextCases ==
  ASSUME [Next]_vars
  PROVE  \/ \E p \in Procs, k \in Blocks : Bget(p, k)
         \/ \E p \in Procs : AcquireSleep(p) \/ Bread(p) \/ Iderw(p) \/ IoWoken(p) \/ ReleaseSleep(p) \/ Brelse(p)
         \/ \E p \in Procs, v \in Values : LogWrite(p, v) \/ Bwrite(p, v)
         \/ Ideintr
         \/ UNCHANGED vars
BY DEF Next, Step

\* No step of any process and no interrupt breaks the invariant.
LEMMA BioInvStep == BioInv /\ [Next]_vars => BioInv'
<1> SUFFICES ASSUME BioInv, [Next]_vars PROVE BioInv'
  BY ZenonT(40)
<1>1. CASE UNCHANGED vars
  <2>1. OneBuffer'
    BY SMTT(30), <1>1, OneBufferKept DEF BioInv, vars
  <2>2. QED
    BY SMTT(30), <1>1, <2>1 DEF BioInv, vars, TypeOK, LockOwned, QueueWaits, Using, FlagsRight, Listed
<1>2. QED
  BY <1>1, NextCases, BgetStep, AcquireSleepStep, BreadStep, IderwStep, IoWokenStep, ReleaseSleepStep,
     BrelseStep, LogWriteStep, BwriteStep, IdeintrStep, ZenonT(40)

\* The inductive invariant holds of every behaviour.
LEMMA BioInvHolds == Spec => []BioInv
<1>1. QED
  BY BioInvInit, BioInvStep, PTL DEF Spec
-----------------------------------------------------------------------------
(* The bound on pinned buffers, and bget()'s panic.                        *)

\* A step that pins nothing keeps the bound.
LEMMA FewerPinned ==
  ASSUME PinnedFew, Pinned' \subseteq Pinned
  PROVE  PinnedFew'
<1>1. IsFiniteSet(Pinned)
  BY SMTT(30), BioConstants, FS_Subset DEF Pinned
<1>2. /\ IsFiniteSet(Pinned') /\ Cardinality(Pinned') <= Cardinality(Pinned)
  BY <1>1, FS_Subset, Zenon
<1>3. Cardinality(Pinned) \in Nat /\ Cardinality(Pinned') \in Nat
  BY <1>1, <1>2, FS_CardinalityType, Zenon
<1>4. QED
  BY SMTT(30), <1>2, <1>3, BioConstants DEF PinnedFew

\* log_write() pins a buffer only within the bound, and nothing else pins one: what bwrite()
\* makes dirty is written before its owner goes on.
LEMMA PinnedStep ==
  ASSUME BioInv, PinnedFew, [Next]_vars
  PROVE  PinnedFew'
<1>1. ASSUME NEW p \in Procs, NEW k \in Blocks, Bget(p, k) PROVE Pinned' \subseteq Pinned
  <2> SUFFICES ASSUME NEW a \in Pinned' PROVE a \in Pinned
    BY Zenon
  <2>1. buf[p] = NoBuf /\ pc[p] = "idle" /\ a \in Bufs /\ a # NoBuf
    BY <1>1, BioConstants, Zenon DEF BioInv, Using, Bget, Pinned
  <2>2. dirty'[a] => dirty[a]
    BY <1>1, <2>1, ZenonT(40) DEF Bget, BioInv, TypeOK, flags
  <2>3. \A q \in Procs \ {p} : buf'[q] = buf[q] /\ pc'[q] = pc[q]
    BY SMTT(30), <1>1 DEF Bget, BioInv, TypeOK, Goto
  <2>4. QED
    BY <2>1, <2>2, <2>3, Zenon DEF Pinned
<1>2. ASSUME NEW p \in Procs, Brelse(p) PROVE Pinned' \subseteq Pinned
  <2>1. /\ dirty' = dirty /\ pc[p] = "unref"
        /\ \A q \in Procs \ {p} : buf'[q] = buf[q] /\ pc'[q] = pc[q]
    BY SMTT(30), <1>2 DEF Brelse, BioInv, TypeOK, Goto, flags
  <2>2. QED
    BY <2>1, ZenonT(40) DEF Pinned
<1>3. ASSUME NEW p \in Procs, AcquireSleep(p) \/ Bread(p) \/ Iderw(p) PROVE Pinned' \subseteq Pinned
  BY SMTT(30), <1>3 DEF AcquireSleep, Bread, Iderw, Pinned, BioInv, TypeOK, Goto, flags
<1>4. ASSUME NEW p \in Procs, IoWoken(p) \/ ReleaseSleep(p) PROVE Pinned' \subseteq Pinned
  BY SMTT(30), <1>4 DEF IoWoken, ReleaseSleep, Wakeup, Pinned, BioInv, TypeOK, Goto, flags
<1>5. ASSUME Ideintr PROVE Pinned' \subseteq Pinned
  <2> PICK b \in Bufs : b = Head(idequeue)
    BY SMTT(30), <1>5 DEF BioInv, TypeOK, Ideintr
  <2>1. dirty' = [dirty EXCEPT ![b] = FALSE] /\ buf' = buf
    BY <1>5, Zenon DEF Ideintr
  <2>2. \A q \in Procs : buf[q] # b => pc'[q] = pc[q]
    BY <1>5, BioConstants, ZenonT(40) DEF Ideintr, Wakeup
  <2>3. QED
    BY <2>1, <2>2, ZenonT(40) DEF Pinned, BioInv, TypeOK
<1>6. ASSUME NEW p \in Procs, NEW v \in Values, Bwrite(p, v) PROVE Pinned' \subseteq Pinned
  BY <1>6, Zenon DEF Bwrite, Pinned, BioInv, TypeOK, Goto, Using
<1>7. ASSUME NEW p \in Procs, NEW v \in Values, LogWrite(p, v) PROVE PinnedFew'
  <2> DEFINE d == {b \in Bufs : dirty[b]}
  <2> PICK b \in Bufs : b = buf[p]
    BY <1>7, Zenon DEF LogWrite, BioInv, TypeOK, Using
  <2>1. /\ pc[p] = "hold" /\ dirty' = [dirty EXCEPT ![b] = TRUE] /\ buf' = buf /\ pc' = pc
        /\ dirty[b] \/ Cardinality(d) < MaxPinned
    BY <1>7, Zenon DEF LogWrite
  <2>2. CASE dirty[b]
    <3>1. Pinned' \subseteq Pinned
      BY <2>1, <2>2, ZenonT(40) DEF Pinned, BioInv, TypeOK
    <3>2. QED
      BY <3>1, FewerPinned, ZenonT(40)
  <2>3. CASE Cardinality(d) < MaxPinned
    <3>1. IsFiniteSet(d) /\ Cardinality(d) \in Nat
      BY BioConstants, FS_Subset, FS_CardinalityType, ZenonT(40)
    <3>2. Pinned' \subseteq d \cup {b}
      BY <2>1, ZenonT(40) DEF Pinned, BioInv, TypeOK
    <3> HIDE DEF d
    <3>3. IsFiniteSet(d \cup {b}) /\ Cardinality(d \cup {b}) <= Cardinality(d) + 1
      BY SMTT(30), <3>1, FS_AddElement
    <3>4. IsFiniteSet(Pinned') /\ Cardinality(Pinned') <= Cardinality(d \cup {b})
      BY <3>2, <3>3, FS_Subset
    <3>5. Cardinality(Pinned') \in Nat /\ Cardinality(d \cup {b}) \in Nat
      BY <3>3, <3>4, FS_CardinalityType, Zenon
    <3>6. QED
      BY SMTT(30), <2>3, <3>1, <3>3, <3>4, <3>5, BioConstants DEF PinnedFew
  <2>4. QED
    BY <2>1, <2>2, <2>3, ZenonT(40)
<1>8. CASE UNCHANGED vars
  BY <1>8, FewerPinned, ZenonT(40) DEF vars, Pinned
<1>9. QED
  BY <1>1, <1>2, <1>3, <1>4, <1>5, <1>6, <1>7, <1>8, FewerPinned, NextCases, ZenonT(40)

\* At first nothing is pinned.
LEMMA PinnedInit == Init => PinnedFew
<1> SUFFICES ASSUME Init PROVE PinnedFew
  OBVIOUS
<1>1. Pinned = {}
  BY ZenonT(40) DEF Init, Pinned
<1>2. QED
  BY SMTT(30), <1>1, FS_EmptySet, BioConstants DEF PinnedFew

\* bcache has a buffer for each process besides those that the log pins.
EnoughBuffers == Cardinality(Bufs) >= Cardinality(Procs) + MaxPinned

\* A process that calls bget() holds no buffer, so if every buffer is in use or pinned there
\* are too few of them.
LEMMA BufferLeft ==
  ASSUME BioInv, PinnedFew, EnoughBuffers, NEW p \in Procs, pc[p] = "idle"
  PROVE  Unused # {}
<1> SUFFICES ASSUME Unused = {} PROVE FALSE
  BY Zenon
<1> DEFINE users == {q \in Procs : buf[q] # NoBuf}
           used == {b \in Bufs : \E q \in Procs : buf[q] = b}
           f == [q \in users |-> buf[q]]
<1>1. users \subseteq Procs \ {p}
  BY Zenon DEF BioInv, Using
<1>2. IsFiniteSet(Procs \ {p}) /\ Cardinality(Procs \ {p}) = Cardinality(Procs) - 1
  BY BioConstants, FS_RemoveElement, ZenonT(40)
<1>3. IsFiniteSet(users) /\ Cardinality(users) <= Cardinality(Procs) - 1
  BY SMTT(30), <1>1, <1>2, FS_Subset
<1>4. f \in Surjection(users, used)
  <2>1. f \in [users -> used] /\ \A b \in used : \E q \in users : f[q] = b
    BY BioConstants, ZenonT(40) DEF BioInv, TypeOK
  <2>2. QED
    BY <2>1, Zenon DEF Surjection
<1> HIDE DEF f
<1>5. IsFiniteSet(used) /\ Cardinality(used) <= Cardinality(users)
  BY SMTT(30), <1>3, <1>4, FS_Surjection
<1>6. Bufs \subseteq used \cup Pinned
  <2> SUFFICES ASSUME NEW b \in Bufs, b \notin used PROVE b \in Pinned
    BY Zenon
  <2>1. Users(b) = {}
    BY Zenon DEF Users
  <2>2. refcnt[b] = 0
    BY <2>1, FS_EmptySet, ZenonT(40) DEF BioInv, OneBuffer
  <2>3. dirty[b]
    BY <2>2, Zenon DEF Unused
  <2>4. QED
    BY SMTT(30), <2>3 DEF Pinned
<1> HIDE DEF used, users
<1>7. IsFiniteSet(Pinned)
  BY BioConstants, FS_Subset, Zenon DEF Pinned
<1>8. /\ IsFiniteSet(used \cup Pinned) /\ IsFiniteSet(used \cap Pinned)
      /\ Cardinality(used \cup Pinned) = Cardinality(used) + Cardinality(Pinned) - Cardinality(used \cap Pinned)
  BY <1>5, <1>7, FS_Union, FS_Intersection, ZenonT(40)
<1>9. Cardinality(Bufs) <= Cardinality(used \cup Pinned)
  BY SMTT(30), <1>6, <1>8, FS_Subset
<1>10. /\ Cardinality(Bufs) \in Nat /\ Cardinality(Procs) \in Nat /\ Cardinality(users) \in Nat
       /\ Cardinality(used) \in Nat /\ Cardinality(Pinned) \in Nat /\ Cardinality(used \cap Pinned) \in Nat
  BY SMTT(30), <1>3, <1>5, <1>7, <1>8, BioConstants, FS_CardinalityType
<1>11. QED
  BY SMTT(30), <1>3, <1>5, <1>8, <1>9, <1>10, BioConstants DEF PinnedFew, EnoughBuffers

\* Only bget() panics, and it does not.
LEMMA NoPanicStep ==
  ASSUME BioInv, PinnedFew, EnoughBuffers, NoBufferPanic, [Next]_vars
  PROVE  NoBufferPanic'
<1>1. ASSUME NEW p \in Procs, NEW k \in Blocks, Bget(p, k) PROVE panicked' = panicked
  <2>1. Unused # {}
    BY <1>1, BufferLeft, ZenonT(40) DEF Bget
  <2>2. QED
    BY <1>1, <2>1, ZenonT(40) DEF Bget
<1>2. QED
  BY <1>1, NextCases, ZenonT(40) DEF NoBufferPanic, vars, AcquireSleep, Bread, Iderw, IoWoken, ReleaseSleep, Brelse,
                         LogWrite, Bwrite, Ideintr

\* However few the buffers are, a block is in one of them, its lock has one owner, and each
\* request to the disk gets one answer (bio.c, sleeplock.c, ide.c).
THEOREM CacheHandsOut == Spec => [](TypeOK /\ OneBuffer /\ LockOwned /\ QueueWaits)
<1>1. BioInv => TypeOK /\ OneBuffer /\ LockOwned /\ QueueWaits
  BY DEF BioInv
<1>2. QED
  BY <1>1, BioInvHolds, PTL

\* With a buffer for each process besides those that log.c pins, the cache is sound, and
\* panic("bget: no buffers") is out of reach.
THEOREM CacheAlwaysSound == EnoughBuffers => (Spec => []CacheSound)
<1> SUFFICES ASSUME EnoughBuffers PROVE Spec => []CacheSound
  BY Zenon
<1> DEFINE I == BioInv /\ PinnedFew /\ NoBufferPanic
<1>1. Init => I
  BY BioInvInit, PinnedInit, Zenon DEF Init, NoBufferPanic
<1>2. I /\ [Next]_vars => I'
  BY BioInvStep, PinnedStep, NoPanicStep, Zenon
<1>3. I => CacheSound
  BY ZenonT(40) DEF BioInv, CacheSound
<1>4. QED
  BY <1>1, <1>2, <1>3, PTL DEF Spec
-----------------------------------------------------------------------------
(* The refinement.                                                         *)

\* Process q is between acquiresleep() and releasesleep() for block k.
Owns(q, k) == want[q] = k /\ pc[q] \in Owner

\* What Holder and Value are, without choices.
HolderOK ==
  /\ Holder = [k \in Blocks |-> Holder[k]]
  /\ \A k \in Blocks : Holder[k] \in Procs \cup {NoProc}
  /\ \A k \in Blocks, q \in Procs : Holder[k] = q <=> Owns(q, k)

ValueOK ==
  /\ Value = [k \in Blocks |-> Value[k]]
  /\ \A k \in Blocks, b \in Bufs : blockno[b] = k /\ valid[b] => Value[k] = data[b]
  /\ \A k \in Blocks : (\A b \in Bufs : ~(blockno[b] = k /\ valid[b])) => Value[k] = disk[k]

\* At most one process owns a block.
LEMMA OneOwner ==
  ASSUME BioInv, NEW k \in Blocks, NEW p \in Procs, NEW q \in Procs, Owns(p, k), Owns(q, k)
  PROVE  p = q
<1>1. /\ buf[p] \in Bufs /\ blockno[buf[p]] = k /\ pc[p] \in Owner
      /\ buf[q] \in Bufs /\ blockno[buf[q]] = k /\ pc[q] \in Owner
  BY Zenon DEF BioInv, TypeOK, Using, OneBuffer, Owns, Owner
<1>2. buf[p] = buf[q]
  BY <1>1, BioConstants, Zenon DEF BioInv, OneBuffer
<1>3. QED
  BY SMTT(30), <1>1, <1>2 DEF BioInv, LockOwned

\* The holder of a block is the one process that owns it.
LEMMA HolderFact == BioInv => HolderOK
<1> SUFFICES ASSUME BioInv PROVE HolderOK
  OBVIOUS
<1>1. Holder = [k \in Blocks |-> Holder[k]]
  BY Zenon DEF Holder
<1>2. ASSUME NEW k \in Blocks
      PROVE  Holder[k] \in Procs \cup {NoProc} /\ \A q \in Procs : Holder[k] = q <=> Owns(q, k)
  <2>1. Holder[k] = IF \E p \in Procs : Owns(p, k) THEN CHOOSE p \in Procs : Owns(p, k) ELSE NoProc
    BY Zenon DEF Holder, Owns
  <2>2. CASE \E p \in Procs : Owns(p, k)
    <3>1. Holder[k] \in Procs /\ Owns(Holder[k], k)
      BY <2>1, <2>2, Zenon
    <3>2. QED
      BY <3>1, OneOwner, Zenon
  <2>3. CASE ~ \E p \in Procs : Owns(p, k)
    BY <2>1, <2>3, BioConstants, ZenonT(40)
  <2>4. QED
    BY <2>2, <2>3, Zenon
<1>3. QED
  BY <1>1, <1>2, Zenon DEF HolderOK

\* The value of a block is in its buffer, or on the disk.
LEMMA ValueFact == BioInv => ValueOK
<1> SUFFICES ASSUME BioInv PROVE ValueOK
  OBVIOUS
<1>1. Value = [k \in Blocks |-> Value[k]]
  BY DEF Value
<1>2. ASSUME NEW k \in Blocks, NEW b \in Bufs, blockno[b] = k, valid[b] PROVE Value[k] = data[b]
  <2>1. \A a \in Bufs : blockno[a] = k => a = b
    BY SMTT(30), <1>2, BioConstants DEF BioInv, OneBuffer
  <2>2. (CHOOSE a \in Bufs : blockno[a] = k) = b
    BY SMTT(30), <1>2, <2>1
  <2>3. QED
    BY <1>2, <2>2, ZenonT(40) DEF Value
<1>3. ASSUME NEW k \in Blocks, \A b \in Bufs : ~(blockno[b] = k /\ valid[b]) PROVE Value[k] = disk[k]
  BY <1>3, Zenon DEF Value
<1>4. QED
  BY <1>1, <1>2, <1>3, ZenonT(40) DEF ValueOK

\* Both hold after a step as well.
LEMMA FactsNext == BioInv /\ [Next]_vars => BioInv' /\ HolderOK' /\ ValueOK'
<1>1. (BioInv => HolderOK /\ ValueOK)'
  BY HolderFact, ValueFact, PTL
<1>2. QED
  BY <1>1, BioInvStep, ZenonT(40)

\* As long as the same processes own the same blocks, they have the same holders.
LEMMA HolderSame ==
  ASSUME HolderOK, HolderOK', \A k \in Blocks, q \in Procs : Owns(q, k)' <=> Owns(q, k)
  PROVE  Holder' = Holder
<1>1. ASSUME NEW k \in Blocks PROVE Holder'[k] = Holder[k]
  <2>1. \A q \in Procs : Holder'[k] = q <=> Holder[k] = q
    BY Zenon DEF HolderOK
  <2>2. QED
    BY <2>1, BioConstants, ZenonT(40) DEF HolderOK
<1>2. QED
  BY SMTT(30), <1>1 DEF HolderOK

\* What touches no buffer and no block keeps all values.
LEMMA ValueSame ==
  ASSUME ValueOK, ValueOK', blockno' = blockno, valid' = valid, data' = data, disk' = disk
  PROVE  Value' = Value
<1>1. ASSUME NEW k \in Blocks PROVE Value'[k] = Value[k]
  <2>1. CASE \E b \in Bufs : blockno[b] = k /\ valid[b]
    BY SMTT(30), <2>1 DEF ValueOK
  <2>2. CASE \A b \in Bufs : ~(blockno[b] = k /\ valid[b])
    BY <2>2, Zenon DEF ValueOK
  <2>3. QED
    BY <2>1, <2>2, ZenonT(40)
<1>2. QED
  BY <1>1, Zenon DEF ValueOK

\* bget() keeps all values: the buffer that it recycles holds what the disk has.
LEMMA BgetKeeps ==
  ASSUME BioInv, BioInv', HolderOK, HolderOK', ValueOK, ValueOK', NEW p \in Procs, NEW k \in Blocks, Bget(p, k)
  PROVE  Holder' = Holder /\ Value' = Value
<1>1. Holder' = Holder
  <2>1. ASSUME NEW j \in Blocks, NEW q \in Procs PROVE Owns(q, j)' <=> Owns(q, j)
    BY DEF Owns, Bget, Goto, Owner, BioInv, TypeOK
  <2>2. QED
    BY <2>1, HolderSame, ZenonT(40)
<1>2. CASE UNCHANGED <<blockno, flags>>
  BY <1>1, <1>2, ValueSame, ZenonT(40) DEF Bget, flags
<1>3. CASE /\ Cached(k) = {} /\ Unused # {}
           /\ blockno' = [blockno EXCEPT ![Victim] = k] /\ valid' = [valid EXCEPT ![Victim] = FALSE]
  <2>1. PICK b \in Unused : b = Victim
    BY <1>3, VictimUnused, ZenonT(40) DEF BioInv, TypeOK
  <2>2. /\ b \in Bufs /\ ~dirty[b] /\ data' = data /\ disk' = disk
        /\ blockno' = [blockno EXCEPT ![b] = k] /\ valid' = [valid EXCEPT ![b] = FALSE]
    BY <1>3, <2>1, ZenonT(40) DEF Unused, Bget
  <2>3. ASSUME NEW j \in Blocks PROVE Value'[j] = Value[j]
    <3>1. CASE \E a \in Bufs \ {b} : blockno[a] = j /\ valid[a]
      <4>1. PICK a \in Bufs \ {b} : blockno[a] = j /\ valid[a]
        BY <3>1, Zenon
      <4>2. blockno'[a] = j /\ valid'[a]
        BY <2>2, <4>1, ZenonT(40) DEF BioInv, TypeOK
      <4>3. QED
        BY SMTT(30), <2>2, <4>1, <4>2 DEF ValueOK
    <3>2. CASE ~ \E a \in Bufs \ {b} : blockno[a] = j /\ valid[a]
      <4>1. Value'[j] = disk[j]
        <5>1. \A a \in Bufs : ~(blockno'[a] = j /\ valid'[a])
          BY <2>2, <3>2, ZenonT(40) DEF BioInv, TypeOK
        <5>2. QED
          BY <2>2, <5>1, ZenonT(40) DEF ValueOK
      <4>2. CASE blockno[b] = j /\ valid[b]
        BY SMTT(30), <2>2, <4>1, <4>2 DEF ValueOK, BioInv, FlagsRight
      <4>3. CASE ~(blockno[b] = j /\ valid[b])
        BY <3>2, <4>1, <4>3, ZenonT(40) DEF ValueOK
      <4>4. QED
        BY <4>2, <4>3, ZenonT(40)
    <3>3. QED
      BY <3>1, <3>2, ZenonT(40)
  <2>4. QED
    BY <1>1, <2>3, ZenonT(40) DEF ValueOK
<1>4. QED
  BY <1>2, <1>3, ZenonT(40) DEF Bget

\* The interrupt of the disk keeps all values.
LEMMA IdeintrKeeps ==
  ASSUME BioInv, BioInv', HolderOK, HolderOK', ValueOK, ValueOK', Ideintr
  PROVE  Holder' = Holder /\ Value' = Value
<1> PICK b \in Bufs : b = Head(idequeue)
  BY SMTT(30) DEF BioInv, TypeOK, Ideintr
<1>1. /\ blockno' = blockno /\ want' = want /\ buf' = buf
      /\ valid' = [valid EXCEPT ![b] = TRUE]
      /\ pc' = [q \in Procs |-> IF pc[q] = "iowait" /\ buf[q] = b THEN "iowoken" ELSE pc[q]]
  BY BioConstants, Zenon DEF Ideintr, Wakeup, cached
<1>2. \/ dirty[b] /\ disk' = [disk EXCEPT ![blockno[b]] = data[b]] /\ data' = data
      \/ ~dirty[b] /\ data' = [data EXCEPT ![b] = disk[blockno[b]]] /\ disk' = disk
  BY Zenon DEF Ideintr
<1>3. Holder' = Holder
  <2>1. ASSUME NEW j \in Blocks, NEW q \in Procs PROVE Owns(q, j)' <=> Owns(q, j)
    BY <1>1, Zenon DEF Owns, Owner
  <2>2. QED
    BY <2>1, HolderSame, ZenonT(40)
<1>4. ASSUME NEW j \in Blocks PROVE Value'[j] = Value[j]
  <2>1. CASE blockno[b] = j
    <3>1. valid'[b] /\ Value'[j] = data'[b]
      BY SMTT(30), <1>1, <2>1 DEF ValueOK, BioInv, TypeOK
    <3>2. CASE dirty[b] /\ data' = data
      <4>1. valid[b]
        BY <3>2, Zenon DEF BioInv, FlagsRight
      <4>2. QED
        BY SMTT(30), <2>1, <3>1, <3>2, <4>1 DEF ValueOK
    <3>3. CASE ~dirty[b] /\ data' = [data EXCEPT ![b] = disk[blockno[b]]]
      <4>1. Value'[j] = disk[j]
        BY <2>1, <3>1, <3>3, ZenonT(40) DEF BioInv, TypeOK
      <4>2. CASE valid[b]
        BY SMTT(30), <2>1, <3>3, <4>1, <4>2 DEF ValueOK, BioInv, FlagsRight
      <4>3. CASE ~valid[b]
        <5>1. \A a \in Bufs : blockno[a] = j => a = b
          BY <2>1, BioConstants, ZenonT(40) DEF BioInv, OneBuffer
        <5>2. QED
          BY <4>1, <4>3, <5>1, ZenonT(40) DEF ValueOK
      <4>4. QED
        BY <4>2, <4>3, ZenonT(40)
    <3>4. QED
      BY <1>2, <3>2, <3>3, ZenonT(40)
  <2>2. CASE blockno[b] # j
    <3>1. disk'[j] = disk[j] /\ \A a \in Bufs \ {b} : data'[a] = data[a] /\ valid'[a] = valid[a]
      <4>1. CASE dirty[b] /\ disk' = [disk EXCEPT ![blockno[b]] = data[b]] /\ data' = data
        BY <1>1, <2>2, <4>1, ZenonT(40) DEF BioInv, TypeOK
      <4>2. CASE ~dirty[b] /\ data' = [data EXCEPT ![b] = disk[blockno[b]]] /\ disk' = disk
        BY <1>1, <4>2, ZenonT(40) DEF BioInv, TypeOK
      <4>3. QED
        BY <1>2, <4>1, <4>2, ZenonT(40)
    <3>2. CASE \E a \in Bufs : blockno[a] = j /\ valid[a]
      <4>1. PICK a \in Bufs : blockno[a] = j /\ valid[a]
        BY <3>2, Zenon
      <4>2. a # b /\ blockno'[a] = j /\ valid'[a] /\ data'[a] = data[a]
        BY <1>1, <2>2, <3>1, <4>1, ZenonT(40)
      <4>3. QED
        BY <4>1, <4>2, ZenonT(40) DEF ValueOK
    <3>3. CASE \A a \in Bufs : ~(blockno[a] = j /\ valid[a])
      <4>1. \A a \in Bufs : ~(blockno'[a] = j /\ valid'[a])
        BY <1>1, <2>2, <3>1, <3>3, ZenonT(40)
      <4>2. QED
        BY <3>1, <3>3, <4>1, ZenonT(40) DEF ValueOK
    <3>4. QED
      BY <3>2, <3>3, Zenon
  <2>3. QED
    BY <2>1, <2>2, ZenonT(40)
<1>5. QED
  BY <1>3, <1>4, ZenonT(40) DEF ValueOK

\* acquiresleep() that gets the lock of the buffer takes the block.
LEMMA AcquireTakes ==
  ASSUME BioInv, BioInv', HolderOK, HolderOK', ValueOK, ValueOK', NEW p \in Procs, AcquireSleep(p)
  PROVE  \/ \E k \in Blocks : Store!Take(p, k)
         \/ Holder' = Holder /\ Value' = Value
<1> PICK b \in Bufs, k \in Blocks : b = buf[p] /\ k = want[p] /\ k = blockno[b]
  BY DEF AcquireSleep, BioInv, TypeOK, Using, OneBuffer
<1>1. Value' = Value
  BY ValueSame, Zenon DEF AcquireSleep, flags, cached
<1>2. want' = want /\ pc[p] = "acquiresleep" /\ ~Owns(p, k) /\ \A j \in Blocks : ~Owns(p, j)
  BY Zenon DEF AcquireSleep, Owns, Owner
<1>3. CASE CanLock(p) /\ pc' = Goto(p, "locked")
  <2>1. \A q \in Procs : ~Owns(q, k)
    <3> SUFFICES ASSUME NEW q \in Procs, Owns(q, k) PROVE FALSE
      BY ZenonT(40)
    <3>1. buf[q] \in Bufs /\ blockno[buf[q]] = k /\ pc[q] \in Owner
      BY SMTT(30) DEF BioInv, TypeOK, Using, OneBuffer, Owns, Owner
    <3>2. buf[q] = b
      <4>1. k # NoBlock
        BY BioConstants, Zenon
      <4>2. \A a, c \in Bufs : blockno[a] = blockno[c] /\ blockno[a] # NoBlock => a = c
        BY Zenon DEF BioInv, OneBuffer
      <4>3. QED
        BY <3>1, <4>1, <4>2, Zenon
    <3>3. locked[b] = q
      BY <3>1, <3>2, ZenonT(40) DEF BioInv, LockOwned
    <3>4. QED
      BY <1>3, <3>3, BioConstants, ZenonT(40) DEF CanLock
  <2>2. Holder[k] = NoProc
    BY <2>1, Zenon DEF HolderOK
  <2>3. Holder'[k] = p
    <3>1. Owns(p, k)'
      BY <1>2, <1>3, ZenonT(40) DEF Owns, Owner, Goto, BioInv, TypeOK
    <3>2. QED
      BY <3>1, Zenon DEF HolderOK
  <2>4. ASSUME NEW j \in Blocks \ {k} PROVE Holder'[j] = Holder[j]
    <3>1. \A q \in Procs : Owns(q, j)' <=> Owns(q, j)
      BY <1>2, <1>3, ZenonT(40) DEF Owns, Goto, BioInv, TypeOK, Owner
    <3>2. \A q \in Procs : Holder'[j] = q <=> Holder[j] = q
      BY <3>1, ZenonT(40) DEF HolderOK
    <3>3. QED
      BY <3>2, BioConstants, ZenonT(40) DEF HolderOK
  <2>5. Holder' = [Holder EXCEPT ![k] = p]
    BY SMTT(30), <2>3, <2>4 DEF HolderOK
  <2>6. QED
    BY <1>1, <2>2, <2>5, ZenonT(40) DEF Store!Take
<1>4. CASE pc' = Goto(p, "asleep")
  <2>1. \A j \in Blocks, q \in Procs : Owns(q, j)' <=> Owns(q, j)
    BY <1>2, <1>4, ZenonT(40) DEF Owns, Owner, Goto, BioInv, TypeOK
  <2>2. QED
    BY <1>1, <2>1, HolderSame, ZenonT(40)
<1>5. QED
  BY <1>3, <1>4, ZenonT(40) DEF AcquireSleep

\* Between bread() and brelse() the holder changes its block.
LEMMA WriteChanges ==
  ASSUME BioInv, BioInv', HolderOK, HolderOK', ValueOK, ValueOK', NEW p \in Procs, NEW v \in Values,
         LogWrite(p, v) \/ Bwrite(p, v)
  PROVE  \E k \in Blocks : Store!Change(p, k, v)
<1> PICK b \in Bufs, k \in Blocks : b = buf[p] /\ k = want[p] /\ k = blockno[b]
  BY DEF LogWrite, Bwrite, BioInv, TypeOK, Using, OneBuffer
<1>1. /\ pc[p] = "hold" /\ data' = [data EXCEPT ![b] = v] /\ valid[b]
      /\ blockno' = blockno /\ valid' = valid /\ disk' = disk /\ want' = want
  BY Zenon DEF LogWrite, Bwrite, cached, BioInv, FlagsRight
<1>2. Holder' = Holder
  <2>1. \A j \in Blocks, q \in Procs : Owns(q, j)' <=> Owns(q, j)
    BY SMTT(30), <1>1 DEF LogWrite, Bwrite, Owns, Owner, Goto, BioInv, TypeOK
  <2>2. QED
    BY <2>1, HolderSame, ZenonT(40)
<1>3. Holder[k] = p
  BY ZenonT(40), <1>1 DEF HolderOK, Owns, Owner
<1>4. Value'[k] = v
  BY <1>1 DEF ValueOK, BioInv, TypeOK
<1>5. ASSUME NEW j \in Blocks \ {k} PROVE Value'[j] = Value[j]
  <2>1. CASE \E a \in Bufs : blockno[a] = j /\ valid[a]
    <3>1. PICK a \in Bufs : blockno[a] = j /\ valid[a]
      BY <2>1, Zenon
    <3>2. a # b /\ data'[a] = data[a] /\ blockno'[a] = j /\ valid'[a]
      BY <1>1, <3>1, Zenon DEF BioInv, TypeOK
    <3>3. QED
      BY <3>1, <3>2 DEF ValueOK
  <2>2. CASE \A a \in Bufs : ~(blockno[a] = j /\ valid[a])
    BY <1>1, <2>2, ZenonT(40) DEF ValueOK
  <2>3. QED
    BY <2>1, <2>2, Zenon
<1>6. Value' = [Value EXCEPT ![k] = v]
  BY <1>4, <1>5, Zenon DEF ValueOK
<1>7. QED
  BY <1>2, <1>3, <1>6, ZenonT(40) DEF Store!Change

\* releasesleep() leaves the block.
LEMMA ReleaseLeaves ==
  ASSUME BioInv, BioInv', HolderOK, HolderOK', ValueOK, ValueOK', NEW p \in Procs, ReleaseSleep(p)
  PROVE  \E k \in Blocks : Store!Leave(p, k)
<1> PICK b \in Bufs, k \in Blocks : b = buf[p] /\ k = want[p] /\ k = blockno[b]
  BY DEF ReleaseSleep, BioInv, TypeOK, Using, OneBuffer
<1>1. /\ pc[p] = "hold" /\ want' = want /\ pc' \in [Procs -> PC] /\ pc'[p] = "unref"
      /\ \A q \in Procs \ {p} : pc'[q] \in Owner <=> pc[q] \in Owner
  BY Zenon DEF ReleaseSleep, Wakeup, Owner, BioInv, TypeOK
<1>2. Value' = Value
  BY ValueSame, Zenon DEF ReleaseSleep, cached, flags
<1>3. Holder[k] = p
  <2>1. Owns(p, k)
    BY <1>1, ZenonT(40) DEF Owns, Owner
  <2>2. QED
    BY <2>1, Zenon DEF HolderOK
<1>4. ASSUME NEW j \in Blocks \ {k} PROVE Holder'[j] = Holder[j]
  <2>1. \A q \in Procs : Owns(q, j)' <=> Owns(q, j)
    BY <1>1, ZenonT(40) DEF Owns, Owner
  <2>2. \A q \in Procs : Holder'[j] = q <=> Holder[j] = q
    BY <2>1, Zenon DEF HolderOK
  <2>3. QED
    BY <2>2, BioConstants, Zenon DEF HolderOK
<1>5. Holder'[k] = NoProc
  <2>1. ASSUME NEW q \in Procs, Owns(q, k)' PROVE FALSE
    <3>1. q # p
      BY <1>1, <2>1, ZenonT(40) DEF Owns, Owner
    <3>2. Owns(q, k) /\ Owns(p, k)
      BY <1>1, <2>1, <3>1, ZenonT(40) DEF Owns, Owner
    <3>3. QED
      BY <3>1, <3>2, OneOwner, ZenonT(40)
  <2>2. QED
    BY <2>1, Zenon DEF HolderOK
<1>6. Holder' = [Holder EXCEPT ![k] = NoProc]
  BY SMTT(30), <1>4, <1>5 DEF HolderOK
<1>7. QED
  BY <1>2, <1>3, <1>6, ZenonT(40) DEF Store!Leave

\* The other steps change no holder and no value.
LEMMA OthersKeep ==
  ASSUME BioInv, BioInv', HolderOK, HolderOK', ValueOK, ValueOK', NEW p \in Procs,
         Bread(p) \/ Iderw(p) \/ IoWoken(p) \/ Brelse(p)
  PROVE  Holder' = Holder /\ Value' = Value
<1>1. \A k \in Blocks, q \in Procs : Owns(q, k)' <=> Owns(q, k)
  BY SMTT(30), BioConstants DEF Bread, Iderw, IoWoken, Brelse, Owns, Owner, Goto, BioInv, TypeOK
<1>2. /\ blockno' = blockno /\ valid' = valid /\ data' = data /\ disk' = disk
  BY Zenon DEF Bread, Iderw, IoWoken, Brelse, cached, flags
<1>3. QED
  BY <1>1, <1>2, HolderSame, ValueSame, ZenonT(40)

\* Every step of the cache is a step of BlockStore, or none.
LEMMA RefineStep == BioInv /\ [Next]_vars => [Store!Next]_<<Value, Holder>>
<1> SUFFICES ASSUME BioInv, [Next]_vars PROVE [Store!Next]_<<Value, Holder>>
  BY Zenon
<1>1. HolderOK /\ ValueOK /\ BioInv' /\ HolderOK' /\ ValueOK'
  BY HolderFact, ValueFact, FactsNext, ZenonT(40)
<1>2. CASE UNCHANGED vars
  <2>1. \A k \in Blocks, q \in Procs : Owns(q, k)' <=> Owns(q, k)
    BY <1>2, ZenonT(40) DEF vars, Owns
  <2>2. QED
    BY <1>1, <1>2, <2>1, HolderSame, ValueSame, ZenonT(40) DEF vars
<1>3. ASSUME NEW p \in Procs, AcquireSleep(p) PROVE [Store!Next]_<<Value, Holder>>
  BY <1>1, <1>3, AcquireTakes, ZenonT(40) DEF Store!Next
<1>4. ASSUME NEW p \in Procs, ReleaseSleep(p) PROVE [Store!Next]_<<Value, Holder>>
  BY <1>1, <1>4, ReleaseLeaves, ZenonT(40) DEF Store!Next
<1>5. ASSUME NEW p \in Procs, NEW v \in Values, LogWrite(p, v) \/ Bwrite(p, v)
      PROVE  [Store!Next]_<<Value, Holder>>
  BY <1>1, <1>5, WriteChanges, ZenonT(40) DEF Store!Next
<1>6. QED
  BY <1>1, <1>2, <1>3, <1>4, <1>5, NextCases, BgetKeeps, IdeintrKeeps, OthersKeep, ZenonT(40)

\* At first every block has the value that mkfs left and no holder.
LEMMA RefineInit == Init => Store!Init
<1> SUFFICES ASSUME Init PROVE Store!Init
  BY Zenon
<1>1. Value = [k \in Blocks |-> InitValue]
  BY Zenon DEF Init, Value
<1>2. Holder = [k \in Blocks |-> NoProc]
  BY Zenon DEF Init, Holder, Owner
<1>3. QED
  BY <1>1, <1>2, ZenonT(40) DEF Store!Init

\* The buffer cache implements BlockStore, for any number of processes, buffers and blocks:
\* recycling, write-back and sharing change no block behind its holder and lose no change.
THEOREM CacheIsBlockStore == Spec => IsBlockStore
<1>1. QED
  BY BioInvHolds, RefineInit, RefineStep, PTL DEF Spec, IsBlockStore, Store!Spec
=============================================================================
