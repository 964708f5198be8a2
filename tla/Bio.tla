-------------------------------- MODULE Bio ---------------------------------
(***************************************************************************)
(* The buffer cache (bio.c) with the sleep locks of its buffers            *)
(* (sleeplock.c) over the disk driver and its interrupt (ide.c).           *)
(*                                                                         *)
(* One action is one critical section under bcache.lock, lk->lk or         *)
(* idelock, or the interrupt handler.  A process uses one buffer at a time *)
(* as the file system does: bread, any number of changes with log_write()  *)
(* or bwrite(), brelse.                                                    *)
(***************************************************************************)
EXTENDS Naturals, Sequences, FiniteSets, Functions

CONSTANTS
  Procs, Blocks, Values,
  InitValue,    \* what mkfs leaves in every block
  Bufs,         \* bcache.buf, NBUF of them
  NoBlock, NoProc, NoBuf,
  MaxPinned     \* bound: buffers that log.c keeps dirty at a time (log.size - 1)

ASSUME BioConstants ==
  /\ InitValue \in Values
  /\ NoBlock \notin Blocks /\ NoProc \notin Procs /\ NoBuf \notin Bufs
  /\ MaxPinned \in Nat
  /\ IsFiniteSet(Bufs) /\ IsFiniteSet(Procs)

VARIABLES
  blockno, valid, dirty, refcnt, data,   \* struct buf
  locked,       \* buf -> the process that holds b->lock, or NoProc
  lru,          \* the list from bcache.head.next (most recent) on
  idequeue,     \* the first is the active request
  disk,         \* block -> value
  pc, buf, want,   \* process -> where it is, its buffer, the block it asked for
  panicked

vars == <<blockno, valid, dirty, refcnt, data, locked, lru, idequeue, disk,
          pc, buf, want, panicked>>
flags == <<valid, dirty>>
cached == <<blockno, refcnt, lru>>

PC == {"idle", "acquiresleep", "asleep", "locked", "iderw", "iowait", "iowoken",
       "hold", "unref"}

\* binit()
Init ==
  /\ blockno = [b \in Bufs |-> NoBlock]
  /\ valid = [b \in Bufs |-> FALSE]
  /\ dirty = [b \in Bufs |-> FALSE]
  /\ refcnt = [b \in Bufs |-> 0]
  /\ data = [b \in Bufs |-> InitValue]
  /\ locked = [b \in Bufs |-> NoProc]
  /\ lru = CHOOSE list \in Bijection(1 .. Cardinality(Bufs), Bufs) : TRUE
  /\ idequeue = <<>>
  /\ disk = [k \in Blocks |-> InitValue]
  /\ pc = [p \in Procs |-> "idle"]
  /\ buf = [p \in Procs |-> NoBuf]
  /\ want = [p \in Procs |-> NoBlock]
  /\ panicked = FALSE

Goto(p, next) == [pc EXCEPT ![p] = next]

\* wakeup(b) of those in `from', while p goes to `next'.
Wakeup(b, from, to, p, next) ==
  [q \in Procs |-> IF q = p THEN next
                   ELSE IF pc[q] = from /\ buf[q] = b THEN to ELSE pc[q]]
-----------------------------------------------------------------------------
\* The buffers bget() may recycle.
Mut_Unused == {b \in Bufs : refcnt[b] = 0}
Unused == {b \in Bufs : refcnt[b] = 0 /\ ~dirty[b]}

\* The one it takes: the least recently used, so the last of the list.
Victim ==
  LET at == {i \in DOMAIN lru : lru[i] \in Unused}
  IN  lru[CHOOSE i \in at : \A j \in at : j <= i]

\* The buffer in which bget() finds the block.
Cached(k) == {b \in Bufs : blockno[b] = k}

\* b->refcnt++ and b->refcnt--
Get(b) == refcnt[b] + 1
Put(b) == refcnt[b] - 1

\* bget() under bcache.lock.
Bget(p, k) ==
  LET hit == Cached(k)
  IN  /\ pc[p] = "idle"
      /\ want' = [want EXCEPT ![p] = k]
      /\ \/ /\ hit # {}
            /\ \E b \in hit :
                 /\ refcnt' = [refcnt EXCEPT ![b] = Get(b)]
                 /\ buf' = [buf EXCEPT ![p] = b]
            /\ pc' = Goto(p, "acquiresleep")
            /\ UNCHANGED <<blockno, flags, panicked>>
         \/ /\ hit = {} /\ Unused # {}
            /\ blockno' = [blockno EXCEPT ![Victim] = k]
            /\ valid' = [valid EXCEPT ![Victim] = FALSE]
            /\ dirty' = [dirty EXCEPT ![Victim] = FALSE]
            /\ refcnt' = [refcnt EXCEPT ![Victim] = 1]
            /\ buf' = [buf EXCEPT ![p] = Victim]
            /\ pc' = Goto(p, "acquiresleep")
            /\ UNCHANGED panicked
         \/ /\ hit = {} /\ Unused = {}
            /\ panicked' = TRUE
            /\ UNCHANGED <<blockno, flags, refcnt, buf, pc>>
      /\ UNCHANGED <<data, locked, lru, idequeue, disk>>

\* One round of acquiresleep(&b->lock): take the lock or sleep.
CanLock(p) == locked[buf[p]] = NoProc
AcquireSleep(p) ==
  /\ pc[p] = "acquiresleep"
  /\ \/ /\ CanLock(p)
        /\ locked' = [locked EXCEPT ![buf[p]] = p]
        /\ pc' = Goto(p, "locked")
     \/ /\ ~CanLock(p)
        /\ pc' = Goto(p, "asleep")
        /\ UNCHANGED locked
  /\ UNCHANGED <<cached, flags, data, idequeue, disk, buf, want, panicked>>

\* bread() after bget(): read the block unless the buffer is valid.
Bread(p) ==
  /\ pc[p] = "locked"
  /\ pc' = Goto(p, IF valid[buf[p]] THEN "hold" ELSE "iderw")
  /\ UNCHANGED <<cached, flags, data, locked, idequeue, disk, buf, want, panicked>>

\* iderw() appends the request and sleeps until it is done.
Iderw(p) ==
  /\ pc[p] = "iderw"
  /\ idequeue' = Append(idequeue, buf[p])
  /\ pc' = Goto(p, "iowait")
  /\ UNCHANGED <<cached, flags, data, locked, disk, buf, want, panicked>>

\* The requests that the end of one leaves.
Dequeue == Tail(idequeue)

\* The disk has done the active request, without an error, and ideintr() runs.
Ideintr ==
  LET b == Head(idequeue)
  IN  /\ idequeue # <<>>
      /\ \/ /\ dirty[b]
            /\ disk' = [disk EXCEPT ![blockno[b]] = data[b]]
            /\ UNCHANGED data
         \/ /\ ~dirty[b]
            /\ data' = [data EXCEPT ![b] = disk[blockno[b]]]
            /\ UNCHANGED disk
      /\ valid' = [valid EXCEPT ![b] = TRUE]
      /\ dirty' = [dirty EXCEPT ![b] = FALSE]
      /\ pc' = Wakeup(b, "iowait", "iowoken", NoProc, "idle")
      /\ idequeue' = Dequeue
      /\ UNCHANGED <<cached, locked, buf, want, panicked>>

\* The while loop of iderw() after its sleep().
IoWoken(p) ==
  /\ pc[p] = "iowoken"
  /\ pc' = Goto(p, IF valid[buf[p]] /\ ~dirty[buf[p]] THEN "hold" ELSE "iowait")
  /\ UNCHANGED <<cached, flags, data, locked, idequeue, disk, buf, want, panicked>>
-----------------------------------------------------------------------------
(* Between bread() and brelse().                                           *)

\* A change that log_write() pins in the cache with B_DIRTY.
LogWrite(p, v) ==
  /\ pc[p] = "hold"
  /\ dirty[buf[p]] \/ Cardinality({b \in Bufs : dirty[b]}) < MaxPinned
  /\ data' = [data EXCEPT ![buf[p]] = v]
  /\ dirty' = [dirty EXCEPT ![buf[p]] = TRUE]
  /\ UNCHANGED <<cached, valid, locked, idequeue, disk, pc, buf, want, panicked>>

\* bwrite(), of changed or of pinned data.
Bwrite(p, v) ==
  /\ pc[p] = "hold"
  /\ data' = [data EXCEPT ![buf[p]] = v]
  /\ dirty' = [dirty EXCEPT ![buf[p]] = TRUE]
  /\ pc' = Goto(p, "iderw")
  /\ UNCHANGED <<cached, valid, locked, idequeue, disk, buf, want, panicked>>

\* brelse(): releasesleep(&b->lock)...
Mut_ReleaseSleep(p) ==
  /\ pc[p] = "hold"
  /\ locked' = [locked EXCEPT ![buf[p]] = NoProc]
  /\ pc' = Goto(p, "unref")
  /\ UNCHANGED <<cached, flags, data, idequeue, disk, buf, want, panicked>>
ReleaseSleep(p) ==
  /\ pc[p] = "hold"
  /\ locked' = [locked EXCEPT ![buf[p]] = NoProc]
  /\ pc' = Wakeup(buf[p], "asleep", "acquiresleep", p, "unref")
  /\ UNCHANGED <<cached, flags, data, idequeue, disk, buf, want, panicked>>

\* Buffer b is unlinked and put behind bcache.head.
MoveToFront(b) ==
  LET at == CHOOSE i \in DOMAIN lru : lru[i] = b
  IN  <<b>> \o (SubSeq(lru, 1, at - 1) \o SubSeq(lru, at + 1, Len(lru)))

\* ... then b->refcnt-- under bcache.lock, and to the front of the list.
Brelse(p) ==
  /\ pc[p] = "unref"
  /\ refcnt' = [refcnt EXCEPT ![buf[p]] = Put(buf[p])]
  /\ lru' = IF Put(buf[p]) = 0 THEN MoveToFront(buf[p]) ELSE lru
  /\ buf' = [buf EXCEPT ![p] = NoBuf]
  /\ want' = [want EXCEPT ![p] = NoBlock]
  /\ pc' = Goto(p, "idle")
  /\ UNCHANGED <<blockno, flags, data, locked, idequeue, disk, panicked>>
-----------------------------------------------------------------------------
Step(p) ==
  \/ AcquireSleep(p) \/ Bread(p) \/ Iderw(p) \/ IoWoken(p)
  \/ ReleaseSleep(p) \/ Brelse(p)

Next ==
  \/ ~panicked /\ \E p \in Procs, k \in Blocks : Bget(p, k)
  \/ ~panicked /\ \E p \in Procs : Step(p)
  \/ ~panicked /\ \E p \in Procs, v \in Values : LogWrite(p, v) \/ Bwrite(p, v)
  \/ ~panicked /\ Ideintr

Spec == Init /\ [][Next]_vars
-----------------------------------------------------------------------------
\* Every variable has its type.
TypeOK ==
  /\ blockno \in [Bufs -> Blocks \cup {NoBlock}]
  /\ valid \in [Bufs -> BOOLEAN] /\ dirty \in [Bufs -> BOOLEAN]
  /\ refcnt \in [Bufs -> Nat]
  /\ data \in [Bufs -> Values]
  /\ locked \in [Bufs -> Procs \cup {NoProc}]
  /\ lru \in Seq(Bufs) /\ idequeue \in Seq(Bufs)
  /\ disk \in [Blocks -> Values]
  /\ pc \in [Procs -> PC]
  /\ buf \in [Procs -> Bufs \cup {NoBuf}]
  /\ want \in [Procs -> Blocks \cup {NoBlock}]
  /\ panicked \in BOOLEAN

Users(b) == {p \in Procs : buf[p] = b}
Owner == {"locked", "iderw", "iowait", "iowoken", "hold"}

\* A block is in at most one buffer; a buffer that somebody uses or waits for
\* keeps its block and counts its users, so bget() never takes it away.
OneBuffer ==
  /\ \A a, b \in Bufs : blockno[a] = blockno[b] /\ blockno[a] # NoBlock => a = b
  /\ \A b \in Bufs : refcnt[b] = Cardinality(Users(b))
  /\ \A p \in Procs : buf[p] # NoBuf => blockno[buf[p]] = want[p]

\* The lock of a buffer belongs to one process, the only one between
\* acquiresleep() and releasesleep(), and a sleeper has a holder that will wake
\* it: none of them sleeps on a free lock.
LockOwned ==
  /\ \A p \in Procs, b \in Bufs :
       locked[b] = p <=> buf[p] = b /\ pc[p] \in Owner
  /\ \A p \in Procs : pc[p] = "asleep" => locked[buf[p]] # NoProc

\* idequeue holds exactly the buffers whose lock holder sleeps in iderw(), each
\* once: no request is lost or answered twice.
QueueWaits ==
  /\ IsInjective(idequeue)
  /\ \A b \in Bufs :
       (\E i \in 1 .. Len(idequeue) : idequeue[i] = b)
         <=> \E p \in Procs : buf[p] = b /\ pc[p] = "iowait"

\* panic("bget: no buffers") is out of reach when the cache has a buffer for each
\* process besides those the log may pin.
NoBufferPanic == ~panicked

\* Nobody gets stuck or in another's way in the cache: one buffer for a block, one
\* owner of its lock, one answer to each request, and always a buffer for bget().
CacheSound == TypeOK /\ OneBuffer /\ LockOwned /\ QueueWaits /\ NoBufferPanic

\* The value of a block: in its buffer if that holds data, else on the disk.
Value ==
  [k \in Blocks |->
     IF \E b \in Bufs : blockno[b] = k /\ valid[b]
     THEN data[CHOOSE b \in Bufs : blockno[b] = k]
     ELSE disk[k]]
Holder ==
  [k \in Blocks |->
     IF \E p \in Procs : want[p] = k /\ pc[p] \in Owner
     THEN CHOOSE p \in Procs : want[p] = k /\ pc[p] \in Owner
     ELSE NoProc]

Store == INSTANCE BlockStore WITH value <- Value, holder <- Holder

\* The buffer cache implements BlockStore: recycling, write-back, and sharing
\* change no block behind its holder, and lose no change ("B_VALID: the buffer
\* data has been read from the disk", bio.c).
IsBlockStore == Store!Spec
=============================================================================
