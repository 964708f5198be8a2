-------------------------------- MODULE Log --------------------------------
(***************************************************************************)
(* The write-ahead log of log.c: group commit, installation, and recovery *)
(* after a crash at any point, over a buffer cache whose clean buffers    *)
(* bget() may recycle at any time.                                        *)
(*                                                                         *)
(* One action is one critical section under log.lock, or one disk write:  *)
(* those are the points between which other processes run or the machine  *)
(* stops.  A sector write is atomic (the disk's promise, as log.c relies  *)
(* on for its header).  Buffer data is an opaque value; a modification    *)
(* replaces it.  The header is the sequence of the first n block numbers: *)
(* entries beyond n are never read.                                        *)
(***************************************************************************)
EXTENDS Naturals, Sequences, FiniteSets

CONSTANTS
  Procs,        \* processes that make file-system calls
  Blocks,       \* home blocks (inode, bitmap and data blocks)
  Values,       \* contents of a block
  InitValue,    \* what mkfs leaves in every block
  NoData,       \* "not in the buffer cache"
  NoBlock,      \* "holds no buffer"
  MAXOPBLOCKS,  \* param.h: max # of blocks any FS op writes
  LOGSIZE,      \* param.h: entries of logheader.block
  NLOG,         \* sb.nlog, kept in log.size: header block plus data blocks
  OpBlocks      \* distinct blocks one operation really writes, at most

ASSUME LogConstants ==
  /\ MAXOPBLOCKS \in Nat \ {0} /\ LOGSIZE \in Nat /\ NLOG \in Nat
  /\ OpBlocks \in Nat
  /\ MAXOPBLOCKS <= LOGSIZE
  /\ OpBlocks <= MAXOPBLOCKS
  /\ NLOG = LOGSIZE                          \* mkfs.c: int nlog = LOGSIZE
  /\ InitValue \in Values
  /\ NoData \notin Values
  /\ NoBlock \notin Blocks
  /\ IsFiniteSet(Procs)

VARIABLES
  home,         \* disk: the home location of each block
  logblk,       \* disk: data blocks of the log, logblk[i] at log.start + i
  head,         \* disk: header block, a sequence of block numbers
  lh,           \* memory: log.lh
  outstanding,  \* memory: log.outstanding
  committing,   \* memory: log.committing
  cache,        \* memory: data of a cached buffer, or NoData
  dirty,        \* memory: blocks whose buffer has B_DIRTY
  pc,           \* where each process is in log.c
  hold,         \* the block whose buffer a process has locked and modified
  written,      \* the blocks an operation has modified so far
  tail,         \* local of write_log() and install_trans()
  panicked      \* some call reached panic()

disk == <<home, logblk, head>>
vars == <<home, logblk, head, lh, outstanding, committing, cache, dirty,
          pc, hold, written, tail, panicked>>

DataBlocks == 1 .. NLOG - 1

Logged == {lh[i] : i \in 1 .. Len(lh)}

InOp == {"op", "modified", "log_write"}
Recovering == {"read_head", "recover"}
Committing == {"write_log", "install_trans", "commit_done"}
PC == {"off", "idle", "begin_op", "sleep"} \cup InOp \cup Recovering \cup Committing

\* Processes between begin_op() and end_op().
Active == {p \in Procs : pc[p] \in InOp}
-----------------------------------------------------------------------------
(* Boot: one process, the first to run forkret(), calls initlog(); the    *)
(* others do not exist before it returns.                                  *)

BootPC(first) == [p \in Procs |-> IF p = first THEN "read_head" ELSE "off"]

Init ==
  /\ home = [b \in Blocks |-> InitValue]
  /\ logblk = [i \in DataBlocks |-> InitValue]
  /\ head = <<>>
  /\ lh = <<>>
  /\ outstanding = 0
  /\ committing = FALSE
  /\ cache = [b \in Blocks |-> NoData]
  /\ dirty = {}
  /\ \E first \in Procs : pc = BootPC(first)
  /\ hold = [p \in Procs |-> NoBlock]
  /\ written = [p \in Procs |-> {}]
  /\ tail = 0
  /\ panicked = FALSE

\* The machine stops, at any point, and boots again: memory is lost.
Crash ==
  /\ lh' = <<>>
  /\ outstanding' = 0
  /\ committing' = FALSE
  /\ cache' = [b \in Blocks |-> NoData]
  /\ dirty' = {}
  /\ \E first \in Procs : pc' = BootPC(first)
  /\ hold' = [p \in Procs |-> NoBlock]
  /\ written' = [p \in Procs |-> {}]
  /\ tail' = 0
  /\ panicked' = FALSE
  /\ UNCHANGED disk

\* read_head()
ReadHead(p) ==
  /\ pc[p] = "read_head"
  /\ lh' = head
  /\ tail' = 0
  /\ pc' = [pc EXCEPT ![p] = "recover"]
  /\ UNCHANGED <<disk, outstanding, committing, cache, dirty, hold, written,
                 panicked>>

\* One iteration of install_trans(), for commit() and for recovery: the
\* bwrite() of the home block also clears B_DIRTY.
InstallTrans(p) ==
  /\ pc[p] \in {"recover", "install_trans"}
  /\ tail < Len(lh)
  /\ home' = [home EXCEPT ![lh[tail + 1]] = logblk[tail + 1]]
  /\ cache' = [cache EXCEPT ![lh[tail + 1]] = logblk[tail + 1]]
  /\ dirty' = dirty \ {lh[tail + 1]}
  /\ tail' = tail + 1
  /\ UNCHANGED <<logblk, head, lh, outstanding, committing, pc, hold, written,
                 panicked>>

InstallDone == tail = Len(lh)

\* The end of recover_from_log(): clear the log, then let init run and fork.
RecoverDone(p) ==
  /\ pc[p] = "recover"
  /\ InstallDone
  /\ lh' = <<>>
  /\ head' = <<>>
  /\ pc' = [q \in Procs |-> "idle"]
  /\ UNCHANGED <<home, logblk, outstanding, committing, cache, dirty, hold,
                 written, tail, panicked>>
-----------------------------------------------------------------------------
(* Operations.                                                             *)

\* this op might exhaust log space
Mut_NoSpace == Len(lh) + outstanding * MAXOPBLOCKS > LOGSIZE
NoSpace == Len(lh) + (outstanding + 1) * MAXOPBLOCKS > LOGSIZE

\* The conditions under which begin_op() sleeps.
Mut_MustWait == NoSpace
MustWait == committing \/ NoSpace

BeginOp(p) ==
  /\ pc[p] \in {"idle", "begin_op"}
  /\ \/ /\ MustWait
        /\ pc' = [pc EXCEPT ![p] = "sleep"]
        /\ UNCHANGED outstanding
     \/ /\ ~MustWait
        /\ pc' = [pc EXCEPT ![p] = "op"]
        /\ outstanding' = outstanding + 1
  /\ UNCHANGED <<disk, lh, committing, cache, dirty, hold, written, tail,
                 panicked>>

\* The file system inside an operation: bread() a block and modify its data.
\* The buffer stays locked until log_write() and brelse() are done.
Modify(p, b, v) ==
  /\ pc[p] = "op"
  /\ \A q \in Procs : hold[q] # b
  /\ b \in written[p] \/ Cardinality(written[p]) < OpBlocks
  /\ cache' = [cache EXCEPT ![b] = v]
  /\ hold' = [hold EXCEPT ![p] = b]
  /\ written' = [written EXCEPT ![p] = @ \cup {b}]
  /\ pc' = [pc EXCEPT ![p] = "modified"]
  /\ UNCHANGED <<disk, lh, outstanding, committing, dirty, tail, panicked>>

\* log_write(), before it takes log.lock: both panics.
LogWriteCheck(p) ==
  /\ pc[p] = "modified"
  /\ panicked' = (Len(lh) >= LOGSIZE \/ Len(lh) >= NLOG - 1 \/ outstanding < 1)
  /\ pc' = [pc EXCEPT ![p] = "log_write"]
  /\ UNCHANGED <<disk, lh, outstanding, committing, cache, dirty, hold,
                 written, tail>>

\* The loop over log.lh.block: a block already there is absorbed.
Absorb(b) == IF b \in Logged THEN lh ELSE Append(lh, b)

\* log_write() under log.lock, then brelse().
LogWrite(p) ==
  /\ pc[p] = "log_write"
  /\ lh' = Absorb(hold[p])
  /\ dirty' = dirty \cup {hold[p]}
  /\ hold' = [hold EXCEPT ![p] = NoBlock]
  /\ pc' = [pc EXCEPT ![p] = "op"]
  /\ UNCHANGED <<disk, outstanding, committing, cache, written, tail, panicked>>

\* wakeup(&log), with process p going to `next'.
Mut_WakeupLog(p, next) == [pc EXCEPT ![p] = next]
WakeupLog(p, next) ==
  [q \in Procs |-> IF q = p THEN next
                   ELSE IF pc[q] = "sleep" THEN "begin_op" ELSE pc[q]]

\* log.outstanding -= 1: it counts operations, not the blocks they reserve.
Ended == outstanding - 1

\* end_op() up to the release of log.lock.
EndOp(p) ==
  /\ pc[p] = "op"
  /\ outstanding' = Ended
  /\ panicked' = committing
  /\ written' = [written EXCEPT ![p] = {}]
  /\ \/ /\ outstanding = 1
        /\ committing' = TRUE
        /\ tail' = 0
        /\ pc' = [pc EXCEPT ![p] = IF lh = <<>> THEN "commit_done" ELSE "write_log"]
     \/ /\ outstanding # 1
        /\ pc' = WakeupLog(p, "idle")
        /\ UNCHANGED <<committing, tail>>
  /\ UNCHANGED <<disk, lh, cache, dirty, hold>>
-----------------------------------------------------------------------------
(* commit()                                                                *)

\* What bread() returns.
BufData(b) == IF cache[b] # NoData THEN cache[b] ELSE home[b]

\* One iteration of write_log().
WriteLog(p) ==
  /\ pc[p] = "write_log"
  /\ tail < Len(lh)
  /\ logblk' = [logblk EXCEPT ![tail + 1] = BufData(lh[tail + 1])]
  /\ cache' = [cache EXCEPT ![lh[tail + 1]] = BufData(lh[tail + 1])]
  /\ tail' = tail + 1
  /\ UNCHANGED <<home, head, lh, outstanding, committing, dirty, pc, hold,
                 written, panicked>>

\* The first write_head(): the real commit.
WriteHead(p) ==
  /\ pc[p] = "write_log"
  /\ tail = Len(lh)
  /\ head' = lh
  /\ tail' = 0
  /\ pc' = [pc EXCEPT ![p] = "install_trans"]
  /\ UNCHANGED <<home, logblk, lh, outstanding, committing, cache, dirty, hold,
                 written, panicked>>

\* log.lh.n = 0 and the second write_head(): erase the transaction.
ClearHead(p) ==
  /\ pc[p] = "install_trans"
  /\ InstallDone
  /\ lh' = <<>>
  /\ head' = <<>>
  /\ pc' = [pc EXCEPT ![p] = "commit_done"]
  /\ UNCHANGED <<home, logblk, outstanding, committing, cache, dirty, hold,
                 written, tail, panicked>>

\* The end of end_op().

CommitDone(p) ==
  /\ pc[p] = "commit_done"
  /\ committing' = FALSE
  /\ pc' = WakeupLog(p, "idle")
  /\ UNCHANGED <<disk, lh, outstanding, cache, dirty, hold, written, tail,
                 panicked>>
-----------------------------------------------------------------------------
(* The buffer cache under the log, and readers outside any operation.      *)

\* bget() gives the buffer of block b to another block.
Mut_Recyclable(b) == \A p \in Procs : hold[p] # b
Recyclable(b) == b \notin dirty /\ \A p \in Procs : hold[p] # b

Recycle(b) ==
  /\ cache[b] # NoData
  /\ Recyclable(b)
  /\ cache' = [cache EXCEPT ![b] = NoData]
  /\ dirty' = dirty \ {b}
  /\ UNCHANGED <<disk, lh, outstanding, committing, pc, hold, written, tail,
                 panicked>>

\* bread() by a process that only reads (fileread() starts no operation).
Bread(b) ==
  /\ cache[b] = NoData
  /\ \A p \in Procs : pc[p] \notin Recovering
  /\ cache' = [cache EXCEPT ![b] = home[b]]
  /\ UNCHANGED <<disk, lh, outstanding, committing, dirty, pc, hold, written,
                 tail, panicked>>
-----------------------------------------------------------------------------
Op(p) ==
  \/ BeginOp(p)
  \/ \E b \in Blocks, v \in Values : Modify(p, b, v)
  \/ LogWriteCheck(p)
  \/ LogWrite(p)
  \/ EndOp(p)

CommitStep(p) ==
  \/ WriteLog(p)
  \/ WriteHead(p)
  \/ InstallTrans(p)
  \/ ClearHead(p)
  \/ CommitDone(p)

RecoverStep(p) == ReadHead(p) \/ RecoverDone(p)

Next ==
  \/ ~panicked /\ \E p \in Procs : Op(p) \/ CommitStep(p) \/ RecoverStep(p)
  \/ ~panicked /\ \E b \in Blocks : Recycle(b) \/ Bread(b)
  \/ Crash

Spec == Init /\ [][Next]_vars

(* Fairness.  The kernel runs every process that can run, so a process    *)
(* inside log.c keeps going; each FS call makes finitely many log_write()s *)
(* and then calls end_op() (strong fairness: EndOp is enabled between two  *)
(* modifications).  Nothing makes an idle process start an operation.      *)
Fairness ==
  \A p \in Procs :
    /\ WF_vars(~panicked /\ (LogWriteCheck(p) \/ LogWrite(p)))
    /\ WF_vars(~panicked /\ (CommitStep(p) \/ RecoverStep(p)))
    /\ WF_vars(~panicked /\ pc[p] = "begin_op" /\ BeginOp(p))
    /\ SF_vars(~panicked /\ EndOp(p))

FairSpec == Spec /\ Fairness
-----------------------------------------------------------------------------
\* Every variable has its type; in particular log.outstanding never goes
\* below zero.
TypeOK ==
  /\ home \in [Blocks -> Values]
  /\ logblk \in [DataBlocks -> Values]
  /\ head \in Seq(Blocks)
  /\ lh \in Seq(Blocks)
  /\ outstanding \in Nat
  /\ committing \in BOOLEAN
  /\ cache \in [Blocks -> Values \cup {NoData}]
  /\ dirty \in SUBSET Blocks
  /\ pc \in [Procs -> PC]
  /\ hold \in [Procs -> Blocks \cup {NoBlock}]
  /\ written \in [Procs -> SUBSET Blocks]
  /\ tail \in Nat
  /\ panicked \in BOOLEAN

\* No FS call that keeps to its reservation reaches a panic of log.c ("too
\* big a transaction", "log_write outside of trans", "log.committing"), and
\* the blocks of a transaction fit in the on-disk log: begin_op() reserves
\* enough, although log_write() tests the size before it takes log.lock.
NoPanic == ~panicked /\ Len(lh) <= NLOG - 1

\* Whoever sleeps in begin_op() has somebody to wake it: an operation that
\* has not ended or a commit under way.  Otherwise the wakeup(&log) of
\* end_op() came too early and the sleeper stays.
SleeperHasWaker ==
  (\E p \in Procs : pc[p] = "sleep") => (committing \/ Active # {})

\* Only one process is in commit(), no operation is between begin_op() and
\* end_op() then, and log.outstanding counts the operations that are.
CommitAlone ==
  /\ outstanding = Cardinality(Active)
  /\ committing <=> \E p \in Procs : pc[p] \in Committing
  /\ \A p, q \in Procs :
       pc[p] \in Committing /\ p # q => pc[q] \notin Committing \cup InOp

\* What the disk says after recovery: the home blocks, overlaid by the
\* committed transaction that the header names.
Recovered ==
  [b \in Blocks |->
     IF \E i \in 1 .. Len(head) : head[i] = b
     THEN logblk[CHOOSE i \in 1 .. Len(head) : head[i] = b]
     ELSE home[b]]

\* What a read of block b returns to a running process.
View ==
  IF \E p \in Procs : pc[p] \in Recovering
  THEN Recovered
  ELSE [b \in Blocks |-> BufData(b)]

Disk == INSTANCE AtomicDisk
          WITH durable <- Recovered, current <- View, active <- Active

\* Crash atomicity: log.c implements AtomicDisk.  A crash at any point, also
\* in the middle of commit() or of recovery itself, loses whole groups of
\* operations and never a part of one; no cached block is lost to bget().
Atomicity == Disk!Spec

\* A process asleep in begin_op() is woken, whatever the others do.
SleeperWoken == \A p \in Procs : pc[p] = "sleep" ~> pc[p] # "sleep"
=============================================================================
