----------------------------- MODULE LogProofs -----------------------------
(***************************************************************************)
(* Proofs about Log, in three layers, each an inductive invariant:         *)
(*   ControlInv  who is where in log.c (any constants);                    *)
(*   SpaceInv    the reservation of begin_op() is enough;                  *)
(*   DataInv     what the cache, the log and the home blocks hold at each  *)
(*               phase of commit and recovery.  It gives the refinement of *)
(*               AtomicDisk: whatever the crashes, groups of operations    *)
(*               become durable all at once.                               *)
(***************************************************************************)
EXTENDS Log, FiniteSetTheorems, TLAPS

ControlType ==
  /\ head \in Seq(Blocks)
  /\ lh \in Seq(Blocks)
  /\ outstanding \in Nat
  /\ committing \in BOOLEAN
  /\ pc \in [Procs -> PC]
  /\ hold \in [Procs -> Blocks \cup {NoBlock}]
  /\ tail \in Nat
  /\ panicked \in BOOLEAN

\* The process that recovers is alone.
RecoverAlone ==
  \A p, q \in Procs : pc[p] \in Recovering /\ q # p => pc[q] = "off"

OffWhileRecovering ==
  (\E q \in Procs : pc[q] = "off") => (\E p \in Procs : pc[p] \in Recovering)

\* A block is logged in memory only for an operation, a commit or a recovery.
LoggedForSomeone ==
  lh # <<>> => \/ Active # {}
               \/ \E p \in Procs : pc[p] \in {"write_log", "install_trans", "recover"}

HoldWhileWriting ==
  \A p \in Procs : hold[p] \in Blocks <=> pc[p] \in {"modified", "log_write"}

HoldAlone ==
  \A p, q \in Procs : hold[p] \in Blocks /\ hold[p] = hold[q] => p = q

ControlInv ==
  /\ ControlType
  /\ CommitAlone
  /\ RecoverAlone
  /\ OffWhileRecovering
  /\ LoggedForSomeone
  /\ HoldWhileWriting
  /\ HoldAlone
  /\ SleeperHasWaker

\* The hypothesis under which the reservation is enough: an operation leaves
\* at least one block of its reservation unused.
Slack == OpBlocks < MAXOPBLOCKS /\ MAXOPBLOCKS < LOGSIZE

\* The part of the reservation still open: one token for each block that an
\* active operation may still add to the log.
Pending(p) == hold[p] \in Blocks /\ hold[p] \notin Logged
Tokens ==
  {t \in Procs \X (1 .. MAXOPBLOCKS) :
     /\ t[1] \in Active
     /\ \/ t[2] > Cardinality(written[t[1]])
        \/ t[2] = Cardinality(written[t[1]]) /\ Pending(t[1])}

\* Operations whose blocks are all in the log, but for the one being written.
WrittenLogged ==
  \A p \in Procs :
    /\ written[p] \subseteq Logged \cup {hold[p]}
    /\ IsFiniteSet(written[p]) /\ Cardinality(written[p]) <= OpBlocks
    /\ p \notin Active => written[p] = {}
    /\ hold[p] \in Blocks => hold[p] \in written[p]

SpaceInv ==
  /\ written \in [Procs -> SUBSET Blocks]
  /\ WrittenLogged
  /\ outstanding >= 2 => Len(lh) + Cardinality(Tokens) <= LOGSIZE
  /\ outstanding < 2 => Len(lh) + Cardinality(Tokens) < LOGSIZE
  /\ Len(head) < LOGSIZE
  /\ ~panicked
-----------------------------------------------------------------------------
(* Layer 1: control.                                                       *)

\* The set of active processes is finite, so that log.outstanding, which
\* counts it, is zero only when it is empty.
LEMMA ActiveFinite ==
  /\ IsFiniteSet(Active)
  /\ Cardinality(Active) \in Nat
  /\ Cardinality(Active) = 0 <=> Active = {}
<1>1. IsFiniteSet(Active)
  BY LogConstants, FS_Subset, Zenon DEF Active
<1> QED  BY <1>1, FS_CardinalityType, FS_EmptySet, Zenon

\* ControlInv holds when the machine boots.
LEMMA ControlInit == Init => ControlInv
<1> SUFFICES ASSUME Init PROVE ControlInv
  BY Zenon
<1>1. PICK first \in Procs : pc = BootPC(first)
  BY Zenon DEF Init
<1>2. Active = {}
  BY <1>1, Zenon DEF BootPC, Active, InOp
<1>3. ControlType
  <2>1. (pc \in [Procs -> PC])
    BY <1>1, Zenon DEF BootPC, PC, Recovering
  <2>2. (hold \in [Procs -> Blocks \cup {NoBlock}])
    BY Zenon DEF Init
  <2>3. (committing \in BOOLEAN /\ panicked \in BOOLEAN)
    BY Zenon DEF Init
  <2> QED  BY <2>1, <2>2, <2>3 DEF Init, ControlType
<1>4. CommitAlone
  BY <1>1, <1>2, FS_EmptySet, Zenon DEF Init, CommitAlone, BootPC, Committing
<1> QED
  BY <1>1, <1>2, <1>3, <1>4, LogConstants, Zenon
  DEF Init, ControlInv, RecoverAlone, OffWhileRecovering, LoggedForSomeone,
      HoldWhileWriting, HoldAlone, SleeperHasWaker, BootPC, Recovering

\* ControlInv survives a crash at any point.
LEMMA ControlCrash == ControlInv /\ Crash => ControlInv'
<1> SUFFICES ASSUME ControlInv, Crash PROVE ControlInv'
  BY Zenon
<1>1. PICK first \in Procs : pc' = BootPC(first)
  BY Zenon DEF Crash
<1>2. Active' = {}
  BY <1>1, Zenon DEF BootPC, Active, InOp
<1>3. ControlType'
  <2>1. (pc \in [Procs -> PC])'
    BY <1>1, Zenon DEF BootPC, PC, Recovering
  <2>2. (hold \in [Procs -> Blocks \cup {NoBlock}])'
    BY Zenon DEF Crash
  <2>3. (committing \in BOOLEAN /\ panicked \in BOOLEAN)'
    BY Zenon DEF Crash
  <2> QED  BY <2>1, <2>2, <2>3 DEF Crash, ControlInv, disk, ControlType
<1>4. CommitAlone'
  BY <1>1, <1>2, FS_EmptySet, Zenon DEF Crash, CommitAlone, BootPC, Committing
<1> QED
  BY <1>1, <1>2, <1>3, <1>4, LogConstants, Zenon
  DEF Crash, ControlInv, RecoverAlone, OffWhileRecovering, LoggedForSomeone,
      HoldWhileWriting, HoldAlone, SleeperHasWaker, BootPC, Recovering

\* Steps that only move data (disk writes of log blocks and home blocks, the
\* buffer cache) leave the control state alone.
LEMMA ControlData ==
  ASSUME ControlInv, tail' \in Nat,
         UNCHANGED <<head, lh, outstanding, committing, pc, hold, panicked>>
  PROVE  ControlInv'
<1>1. Active' = Active
  BY Zenon DEF Active
<1> QED
  BY <1>1, Zenon
  DEF ControlInv, ControlType, CommitAlone, RecoverAlone, OffWhileRecovering, LoggedForSomeone,
      HoldWhileWriting, HoldAlone, SleeperHasWaker

\* begin_op() keeps ControlInv; a process goes to sleep only behind an active
\* operation or a commit.
LEMMA ControlBeginOp ==
  ASSUME ControlInv, NEW p \in Procs, BeginOp(p)
  PROVE  ControlInv'
<1> USE DEF ControlInv
<1>1. ControlType'
  BY LogConstants DEF BeginOp, MustWait, ControlType, disk, PC, InOp
<1>2. pc[p] \in {"idle", "begin_op"} /\ p \notin Active
  BY Zenon DEF BeginOp, MustWait, Active, InOp
<1>3. CASE pc' = [pc EXCEPT ![p] = "sleep"] /\ outstanding' = outstanding /\ (committing \/ NoSpace)
  <2>1. Active' = Active
    BY <1>2, <1>3, Zenon DEF Active, InOp, ControlType
  <2>2. CommitAlone'
    BY <1>2, <1>3, <2>1, Zenon DEF BeginOp, MustWait, CommitAlone, Committing, InOp, ControlType
  <2>3. committing \/ Active # {}
    <3>1. CASE Active = {} /\ ~committing
      <4>1. lh = <<>> /\ outstanding = 0
        BY <1>2, <3>1, ActiveFinite, Zenon
        DEF LoggedForSomeone, CommitAlone, RecoverAlone, Committing, Recovering, ControlType
      <4>2. ~NoSpace
        BY <4>1, LogConstants DEF NoSpace
      <4> QED  BY <4>2, <1>3, <3>1, Zenon
    <3> QED  BY <3>1, Zenon
  <2> QED
    BY <1>1, <1>2, <1>3, <2>1, <2>2, <2>3, Zenon
    DEF BeginOp, MustWait, ControlType, RecoverAlone, OffWhileRecovering, LoggedForSomeone,
      HoldWhileWriting, HoldAlone, SleeperHasWaker, Recovering
<1>4. CASE pc' = [pc EXCEPT ![p] = "op"] /\ outstanding' = outstanding + 1 /\ ~committing
  <2>1. Active' = Active \cup {p}
    BY <1>2, <1>4, Zenon DEF Active, InOp, ControlType
  <2>2. Cardinality(Active') = Cardinality(Active) + 1
    BY <1>2, <2>1, ActiveFinite, FS_AddElement, Zenon
  <2>3. CommitAlone'
    BY <1>2, <1>4, <2>2, Zenon DEF BeginOp, MustWait, CommitAlone, Committing, InOp, ControlType
  <2> QED
    BY <1>1, <1>2, <1>4, <2>1, <2>3, Zenon
    DEF BeginOp, MustWait, ControlType, RecoverAlone, OffWhileRecovering, LoggedForSomeone,
      HoldWhileWriting, HoldAlone, SleeperHasWaker, Recovering
<1> QED  BY <1>3, <1>4, Zenon DEF BeginOp, MustWait

\* A modification locks the buffer it changes.
LEMMA ControlModify ==
  ASSUME ControlInv, NEW p \in Procs, NEW b \in Blocks, NEW v \in Values, Modify(p, b, v)
  PROVE  ControlInv'
<1> USE DEF ControlInv
<1>1. ControlType'
  BY LogConstants, Zenon DEF Modify, ControlType, disk, PC, InOp, Committing, Recovering
<1>2. Active' = Active
  BY Zenon DEF Modify, Active, InOp, ControlType
<1>3. CommitAlone'
  BY <1>2, Zenon DEF Modify, CommitAlone, Committing, InOp, ControlType
<1> QED
  BY <1>1, <1>2, <1>3, LogConstants
  DEF Modify, ControlType, RecoverAlone, OffWhileRecovering, LoggedForSomeone,
      HoldWhileWriting, HoldAlone, SleeperHasWaker, Recovering, InOp, Active, Committing

\* The unlocked tests of log_write() keep ControlInv.
LEMMA ControlLogWriteCheck ==
  ASSUME ControlInv, NEW p \in Procs, LogWriteCheck(p)
  PROVE  ControlInv'
<1> USE DEF ControlInv
<1>1. ControlType'
  BY LogConstants, Zenon DEF LogWriteCheck, ControlType, disk, PC, InOp, Committing, Recovering
<1>2. Active' = Active
  BY Zenon DEF LogWriteCheck, Active, InOp, ControlType
<1>3. CommitAlone'
  BY <1>2, Zenon DEF LogWriteCheck, CommitAlone, Committing, InOp, ControlType
<1> QED
  BY <1>1, <1>2, <1>3, LogConstants
  DEF LogWriteCheck, ControlType, RecoverAlone, OffWhileRecovering, LoggedForSomeone,
      HoldWhileWriting, HoldAlone, SleeperHasWaker, Recovering, InOp, Active, Committing

\* log_write() keeps ControlInv and unlocks the buffer.
LEMMA ControlLogWrite ==
  ASSUME ControlInv, NEW p \in Procs, LogWrite(p)
  PROVE  ControlInv'
<1> USE DEF ControlInv
<1>1. ControlType'
  <2>1. hold[p] \in Blocks
    BY Zenon DEF LogWrite, HoldWhileWriting
  <2>2. lh' \in Seq(Blocks)
    BY <2>1 DEF LogWrite, Absorb, ControlType
  <2> QED
    BY <2>2, Zenon DEF LogWrite, ControlType, disk, PC, InOp
<1>2. Active' = Active
  BY Zenon DEF LogWrite, Active, InOp, ControlType
<1>3. CommitAlone'
  BY <1>2, Zenon DEF LogWrite, CommitAlone, Committing, InOp, ControlType
<1> QED
  BY <1>1, <1>2, <1>3, LogConstants
  DEF LogWrite, ControlType, RecoverAlone, OffWhileRecovering, LoggedForSomeone,
      HoldWhileWriting, HoldAlone, SleeperHasWaker, Recovering, InOp, Active, Committing, Absorb, Logged

\* The commit point keeps ControlInv.
LEMMA ControlWriteHead ==
  ASSUME ControlInv, NEW p \in Procs, WriteHead(p)
  PROVE  ControlInv'
<1> USE DEF ControlInv
<1>1. ControlType'
  BY LogConstants, Zenon DEF WriteHead, ControlType, disk, PC, InOp, Committing, Recovering
<1>2. Active' = Active
  BY Zenon DEF WriteHead, Active, InOp, ControlType
<1>3. CommitAlone'
  BY <1>2, Zenon DEF WriteHead, CommitAlone, Committing, InOp, ControlType
<1> QED
  BY <1>1, <1>2, <1>3, LogConstants
  DEF WriteHead, ControlType, RecoverAlone, OffWhileRecovering, LoggedForSomeone,
      HoldWhileWriting, HoldAlone, SleeperHasWaker, Recovering, InOp, Active, Committing

\* Erasing the transaction keeps ControlInv.
LEMMA ControlClearHead ==
  ASSUME ControlInv, NEW p \in Procs, ClearHead(p)
  PROVE  ControlInv'
<1> USE DEF ControlInv
<1>1. ControlType'
  BY LogConstants DEF ClearHead, ControlType, disk, PC, InOp, Committing, Recovering
<1>2. Active' = Active
  BY Zenon DEF ClearHead, Active, InOp, ControlType
<1>3. CommitAlone'
  BY <1>2, Zenon DEF ClearHead, CommitAlone, Committing, InOp, ControlType
<1> QED
  BY <1>1, <1>2, <1>3, LogConstants
  DEF ClearHead, ControlType, RecoverAlone, OffWhileRecovering, LoggedForSomeone,
      HoldWhileWriting, HoldAlone, SleeperHasWaker, Recovering, InOp, Active, Committing

\* read_head() keeps ControlInv.
LEMMA ControlReadHead ==
  ASSUME ControlInv, NEW p \in Procs, ReadHead(p)
  PROVE  ControlInv'
<1> USE DEF ControlInv
<1>1. ControlType'
  BY LogConstants, Zenon DEF ReadHead, ControlType, disk, PC, InOp, Committing, Recovering
<1>2. Active' = Active
  BY Zenon DEF ReadHead, Active, InOp, ControlType
<1>3. CommitAlone'
  BY <1>2, Zenon DEF ReadHead, CommitAlone, Committing, InOp, ControlType
<1> QED
  BY <1>1, <1>2, <1>3, LogConstants
  DEF ReadHead, ControlType, RecoverAlone, OffWhileRecovering, LoggedForSomeone,
      HoldWhileWriting, HoldAlone, SleeperHasWaker, Recovering, InOp, Active, Committing

\* wakeup(&log) leaves nobody asleep and moves nobody else.
LEMMA WakeupEffect ==
  ASSUME pc \in [Procs -> PC], NEW p \in Procs, pc' = WakeupLog(p, "idle")
  PROVE  /\ pc' \in [Procs -> PC]
         /\ pc'[p] = "idle"
         /\ \A q \in Procs : pc'[q] # "sleep"
         /\ \A q \in Procs \ {p} :
              pc'[q] = pc[q] \/ (pc[q] = "sleep" /\ pc'[q] = "begin_op")
<1>1. \A q \in Procs :
        pc'[q] = IF q = p THEN "idle"
                 ELSE IF pc[q] = "sleep" THEN "begin_op" ELSE pc[q]
  BY Zenon DEF WakeupLog
<1>2. pc' \in [Procs -> PC]
  <2>1. "idle" \in PC /\ "begin_op" \in PC
    BY Zenon DEF PC
  <2> QED  BY <2>1, Zenon DEF WakeupLog
<1> QED  BY <1>1, <1>2, Zenon

\* end_op() keeps ControlInv: the last operation out becomes the only
\* committer, and never finds a commit under way.
LEMMA ControlEndOp ==
  ASSUME ControlInv, NEW p \in Procs, EndOp(p)
  PROVE  ControlInv' /\ ~panicked'
<1> USE DEF ControlInv
<1>1. pc[p] = "op" /\ p \in Active
  BY Zenon DEF EndOp, Ended, Active, InOp
<1>2. ~committing /\ \A q \in Procs : pc[q] \notin Committing \cup Recovering \cup {"off"}
  BY <1>1, Zenon DEF CommitAlone, RecoverAlone, OffWhileRecovering, Committing, Recovering, InOp, ControlType
<1>3. /\ IsFiniteSet(Active \ {p}) /\ Cardinality(Active \ {p}) = outstanding - 1
      /\ outstanding \in Nat /\ outstanding # 0 /\ outstanding - 1 \in Nat
  BY <1>1, ActiveFinite, FS_RemoveElement DEF CommitAlone
<1>4. hold[p] \notin Blocks
  BY <1>1, Zenon DEF HoldWhileWriting
<1>5. CASE outstanding = 1
  <2>1. pc' \in [Procs -> PC] /\ pc'[p] \in {"commit_done", "write_log"}
        /\ (lh # <<>> => pc'[p] = "write_log")
        /\ \A q \in Procs \ {p} : pc'[q] = pc[q]
    BY <1>5, Zenon DEF EndOp, Ended, ControlType, PC, Committing
  <2>2. Active = {p}
    <3>1. Active \ {p} = {}
      BY <1>3, <1>5, FS_EmptySet
    <3> QED  BY <1>1, <3>1, Zenon
  <2>3. Active' = {}
    BY <2>1, <2>2, Zenon DEF Active, InOp
  <2>4. outstanding' = 0 /\ committing' /\ committing' \in BOOLEAN /\ tail' = 0 /\ panicked' = FALSE
    BY <1>2, <1>5 DEF EndOp, Ended
  <2>5. ControlType'
    BY <2>1, <2>4 DEF EndOp, Ended, ControlType, disk
  <2>6. CommitAlone'
    BY <1>2, <2>1, <2>2, <2>3, <2>4, FS_EmptySet, Zenon DEF CommitAlone, Committing, Active
  <2> QED
    BY <1>1, <1>2, <1>4, <2>1, <2>3, <2>4, <2>5, <2>6
    DEF EndOp, Ended, ControlType, RecoverAlone, OffWhileRecovering, LoggedForSomeone,
      HoldWhileWriting, HoldAlone, SleeperHasWaker, Recovering
<1>6. CASE outstanding # 1
  <2>1. pc' = WakeupLog(p, "idle") /\ panicked' = FALSE /\ committing' = committing
        /\ tail' = tail /\ outstanding' = outstanding - 1 /\ UNCHANGED <<head, lh, hold>>
    BY <1>2, <1>6 DEF EndOp, Ended, disk
  <2>2. /\ pc' \in [Procs -> PC] /\ pc'[p] = "idle"
        /\ \A q \in Procs : pc'[q] # "sleep"
        /\ \A q \in Procs \ {p} : pc'[q] = pc[q] \/ (pc[q] = "sleep" /\ pc'[q] = "begin_op")
    BY <2>1, WakeupEffect, Zenon DEF ControlType
  <2>3. Active' = Active \ {p} /\ Active' # {}
    <3>1. Active' = Active \ {p}
      BY <2>2, Zenon DEF Active, InOp
    <3> QED  BY <3>1, <1>3, <1>6, FS_EmptySet
  <2>4. ControlType'
    <3>1. outstanding' \in Nat /\ committing' \in BOOLEAN /\ panicked' \in BOOLEAN
      BY <1>3, <2>1, Zenon DEF ControlType
    <3> QED  BY <2>1, <2>2, <3>1, Zenon DEF ControlType
  <2>5. CommitAlone'
    BY <1>2, <1>3, <2>1, <2>2, <2>3, Zenon DEF CommitAlone, Committing, InOp
  <2> QED
    BY <1>1, <1>2, <1>4, <2>1, <2>2, <2>3, <2>4, <2>5, SMTT(30)
    DEF ControlType, RecoverAlone, OffWhileRecovering, LoggedForSomeone,
      HoldWhileWriting, HoldAlone, SleeperHasWaker, Recovering
<1> QED  BY <1>5, <1>6, Zenon

\* The end of a commit keeps ControlInv and leaves nobody asleep.
LEMMA ControlCommitDone ==
  ASSUME ControlInv, NEW p \in Procs, CommitDone(p)
  PROVE  ControlInv'
<1> USE DEF ControlInv
<1>1. /\ pc' \in [Procs -> PC] /\ pc'[p] = "idle" /\ pc[p] = "commit_done"
      /\ \A q \in Procs : pc'[q] # "sleep"
      /\ \A q \in Procs \ {p} : pc'[q] = pc[q] \/ (pc[q] = "sleep" /\ pc'[q] = "begin_op")
  BY WakeupEffect, Zenon DEF CommitDone, ControlType
<1>2. \A q \in Procs \ {p} : pc[q] \notin Committing \cup InOp \cup Recovering \cup {"off"}
  BY <1>1, Zenon DEF CommitAlone, RecoverAlone, OffWhileRecovering, Committing, Recovering
<1>3. Active = {} /\ Active' = {}
  BY <1>1, <1>2, Zenon DEF Active, InOp
<1>4. ControlType'
  BY <1>1, Zenon DEF CommitDone, ControlType, disk
<1>5. CommitAlone'
  BY <1>1, <1>2, <1>3, Zenon DEF CommitDone, CommitAlone, Committing
<1>6. lh' = <<>>
  BY <1>1, <1>2, <1>3, Zenon DEF CommitDone, LoggedForSomeone, Committing, Recovering
<1> QED
  BY <1>1, <1>2, <1>3, <1>4, <1>5, <1>6
  DEF CommitDone, RecoverAlone, OffWhileRecovering, LoggedForSomeone,
      HoldWhileWriting, HoldAlone, SleeperHasWaker, Recovering, ControlType

\* The end of recovery keeps ControlInv: nobody was in the log before it.
LEMMA ControlRecoverDone ==
  ASSUME ControlInv, NEW p \in Procs, RecoverDone(p)
  PROVE  ControlInv'
<1> USE DEF ControlInv
<1>1. pc[p] = "recover" /\ pc' = [q \in Procs |-> "idle"] /\ lh' = <<>> /\ head' = <<>>
  BY Zenon DEF RecoverDone
<1>2. \A q \in Procs \ {p} : pc[q] = "off"
  BY <1>1, Zenon DEF RecoverAlone, Recovering
<1>3. Active = {} /\ Active' = {}
  BY <1>1, <1>2, Zenon DEF Active, InOp
<1>4. ControlType'
  BY <1>1 DEF RecoverDone, ControlType, PC
<1>5. CommitAlone'
  BY <1>1, <1>2, <1>3, Zenon DEF RecoverDone, CommitAlone, Committing
<1> QED
  BY <1>1, <1>2, <1>3, <1>4, <1>5, Zenon
  DEF RecoverDone, RecoverAlone, OffWhileRecovering, LoggedForSomeone,
      HoldWhileWriting, HoldAlone, SleeperHasWaker, Recovering, ControlType

\* Every step keeps ControlInv.
LEMMA ControlStep == ControlInv /\ [Next]_vars => ControlInv'
<1> SUFFICES ASSUME ControlInv, [Next]_vars PROVE ControlInv'
  BY Zenon
<1>1. ASSUME NEW p \in Procs, Op(p) PROVE ControlInv'
  BY <1>1, ControlBeginOp, ControlModify, ControlLogWriteCheck, ControlLogWrite,
     ControlEndOp, Zenon DEF Op
<1>2. ASSUME NEW p \in Procs, CommitStep(p) PROVE ControlInv'
  <2>1. CASE WriteLog(p)
    BY <2>1, ControlData DEF WriteLog, ControlInv, ControlType
  <2>2. CASE InstallTrans(p)
    BY <2>2, ControlData DEF InstallTrans, ControlInv, ControlType
  <2> QED
    BY <1>2, <2>1, <2>2, ControlWriteHead, ControlClearHead, ControlCommitDone, Zenon
    DEF CommitStep
<1>3. ASSUME NEW p \in Procs, RecoverStep(p) PROVE ControlInv'
  BY <1>3, ControlReadHead, ControlRecoverDone, Zenon DEF RecoverStep
<1>4. ASSUME NEW b \in Blocks, Recycle(b) \/ Bread(b) PROVE ControlInv'
  BY <1>4, ControlData, Zenon DEF Recycle, Bread, disk, ControlInv, ControlType
<1>5. CASE Crash
  BY <1>5, ControlCrash, Zenon
<1>6. CASE UNCHANGED vars
  BY <1>6, ControlData, Zenon DEF vars, ControlInv, ControlType
<1> QED  BY <1>1, <1>2, <1>3, <1>4, <1>5, <1>6, Zenon DEF Next

\* For any number of processes and any sizes: only one process commits, alone,
\* log.outstanding counts the operations, and whoever sleeps in begin_op()
\* has an operation or a commit ahead that will wake it.
THEOREM ControlSafe == Spec => [](CommitAlone /\ SleeperHasWaker)
<1>1. ControlInv => CommitAlone /\ SleeperHasWaker
  BY Zenon DEF ControlInv
<1> QED  BY <1>1, ControlInit, ControlStep, PTL DEF Spec
-----------------------------------------------------------------------------
(* Layer 2: the reservation.                                               *)

\* At most MAXOPBLOCKS tokens for each of a finite set of operations.
LEMMA TokensOf ==
  ASSUME NEW A, IsFiniteSet(A), NEW T, T \subseteq A \X (1 .. MAXOPBLOCKS)
  PROVE  /\ IsFiniteSet(T) /\ Cardinality(T) \in Nat
         /\ Cardinality(T) <= Cardinality(A) * MAXOPBLOCKS
<1>1. IsFiniteSet(1 .. MAXOPBLOCKS) /\ Cardinality(1 .. MAXOPBLOCKS) = MAXOPBLOCKS
  BY FS_Interval, LogConstants
<1>2. /\ IsFiniteSet(A \X (1 .. MAXOPBLOCKS))
      /\ Cardinality(A \X (1 .. MAXOPBLOCKS)) = Cardinality(A) * MAXOPBLOCKS
  BY <1>1, FS_Product, Zenon
<1>3. IsFiniteSet(T) /\ Cardinality(T) <= Cardinality(A \X (1 .. MAXOPBLOCKS))
  BY <1>2, FS_Subset, Zenon
<1> QED  BY <1>2, <1>3, FS_CardinalityType, Zenon

\* The tokens of the active operations are at most what begin_op() reserved.
LEMMA TokensBound ==
  ASSUME ControlInv
  PROVE  /\ IsFiniteSet(Tokens) /\ Cardinality(Tokens) \in Nat
         /\ Cardinality(Tokens) <= outstanding * MAXOPBLOCKS
<1>1. Tokens \subseteq Active \X (1 .. MAXOPBLOCKS)
  BY Zenon DEF Tokens, Active
<1> QED  BY <1>1, TokensOf, ActiveFinite, Zenon DEF ControlInv, CommitAlone

\* An active operation keeps its last token to the end.
LEMMA LastToken ==
  ASSUME Slack, WrittenLogged, NEW p \in Active
  PROVE  <<p, MAXOPBLOCKS>> \in Tokens
<1>1. Cardinality(written[p]) \in Nat /\ Cardinality(written[p]) <= OpBlocks
  BY FS_CardinalityType, Zenon DEF WrittenLogged, Active
<1>2. MAXOPBLOCKS > Cardinality(written[p]) /\ MAXOPBLOCKS \in 1 .. MAXOPBLOCKS
  BY <1>1, LogConstants DEF Slack
<1> QED  BY <1>2, Zenon DEF Tokens, Active

\* While an operation is active the log has room for its next block, and for
\* the test of log_write().
LEMMA RoomWhileActive ==
  ASSUME Slack, ControlInv, SpaceInv, NEW p \in Active
  PROVE  Len(lh) + 1 < LOGSIZE
<1>0. Len(lh) \in Nat /\ outstanding \in Nat
  BY DEF ControlInv, ControlType
<1>1. <<p, MAXOPBLOCKS>> \in Tokens
  BY LastToken, Zenon DEF SpaceInv
<1>2. IsFiniteSet(Tokens) /\ Cardinality(Tokens) \in Nat
  BY TokensBound, Zenon
<1>3. Cardinality(Tokens) # 0
  BY <1>1, <1>2, FS_EmptySet, Zenon
<1>4. CASE outstanding < 2
  BY <1>0, <1>2, <1>3, <1>4, LogConstants DEF SpaceInv
<1>5. CASE outstanding >= 2
  <2>1. PICK q \in Active : q # p
    <3>1. Cardinality(Active) # 1
      BY <1>5 DEF ControlInv, CommitAlone
    <3>2. Active # {p}
      BY <3>1, FS_Singleton, Zenon
    <3> QED  BY <3>2, Zenon
  <2>2. <<q, MAXOPBLOCKS>> \in Tokens \ {<<p, MAXOPBLOCKS>>}
    BY <2>1, LastToken, Zenon DEF SpaceInv
  <2>3. IsFiniteSet(Tokens \ {<<p, MAXOPBLOCKS>>})
        /\ Cardinality(Tokens \ {<<p, MAXOPBLOCKS>>}) = Cardinality(Tokens) - 1
    BY <1>1, <1>2, FS_RemoveElement, Zenon
  <2>4. Cardinality(Tokens) - 1 # 0
    BY <2>2, <2>3, FS_EmptySet, Zenon
  <2> QED  BY <1>0, <1>2, <1>3, <1>5, <2>4, LogConstants DEF SpaceInv
<1> QED  BY <1>0, <1>4, <1>5

\* With nobody active there are no tokens.
LEMMA NoTokens ==
  ASSUME Active = {}
  PROVE  Tokens = {} /\ Cardinality(Tokens) = 0
BY FS_EmptySet, Zenon DEF Tokens

\* SpaceInv holds when the machine boots, the first time and after a crash.
LEMMA SpaceInit ==
  ASSUME Slack, Init
  PROVE  SpaceInv
<1>1. Active = {}
  BY Zenon DEF Init, BootPC, Active, InOp
<1>2. IsFiniteSet({}) /\ Cardinality({}) = 0
  BY FS_EmptySet, Zenon
<1>3. WrittenLogged
  BY <1>1, <1>2, LogConstants DEF Init, WrittenLogged
<1>4. written \in [Procs -> SUBSET Blocks]
  BY Zenon DEF Init
<1> QED  BY <1>1, <1>3, <1>4, NoTokens, LogConstants DEF Init, SpaceInv, Slack

\* SpaceInv survives a crash: the machine boots with no operation active.
LEMMA SpaceCrash ==
  ASSUME Slack, SpaceInv, ControlInv, Crash
  PROVE  SpaceInv'
<1>1. Active' = {}
  BY Zenon DEF Crash, BootPC, Active, InOp
<1>2. IsFiniteSet({}) /\ Cardinality({}) = 0
  BY FS_EmptySet, Zenon
<1>3. WrittenLogged'
  BY <1>1, <1>2, LogConstants DEF Crash, WrittenLogged
<1>4. written' \in [Procs -> SUBSET Blocks]
  BY Zenon DEF Crash
<1>5. Tokens' = {}
  BY <1>1, Zenon DEF Tokens
<1> QED  BY <1>2, <1>3, <1>4, <1>5, LogConstants DEF Crash, SpaceInv, Slack, disk

\* Steps that touch neither the operations nor the log keep SpaceInv.
LEMMA SpaceSame ==
  ASSUME SpaceInv, Active' = Active, ~panicked',
         UNCHANGED <<lh, head, outstanding, hold, written>>
  PROVE  SpaceInv'
<1>1. Logged' = Logged
  BY Zenon DEF Logged
<1>2. Tokens' = Tokens
  BY <1>1, Zenon DEF Tokens, Pending
<1> QED  BY <1>1, <1>2, Zenon DEF SpaceInv, WrittenLogged

\* Steps of commit() and of recovery keep SpaceInv: nobody is active.
LEMMA SpaceQuiet ==
  ASSUME SpaceInv, ControlInv', Active = {}, Active' = {}, ~panicked',
         UNCHANGED written, Len(lh') < LOGSIZE, Len(head') < LOGSIZE
  PROVE  SpaceInv'
<1>1. outstanding' = 0
  BY FS_EmptySet, Zenon DEF ControlInv, CommitAlone
<1>2. Tokens' = {} /\ Cardinality(Tokens') = 0
  BY FS_EmptySet, Zenon DEF Tokens
<1>3. \A p \in Procs : written'[p] = {} /\ hold'[p] \notin Blocks
  BY Zenon DEF SpaceInv, WrittenLogged, ControlInv, HoldWhileWriting, Active, InOp
<1>4. WrittenLogged'
  BY <1>3, Zenon DEF SpaceInv, WrittenLogged
<1>5. Len(lh') \in Nat
  BY DEF ControlInv, ControlType
<1> QED  BY <1>1, <1>2, <1>4, <1>5, LogConstants DEF SpaceInv

\* begin_op() reserves MAXOPBLOCKS blocks for the operation.
LEMMA SpaceBeginOp ==
  ASSUME Slack, ControlInv, SpaceInv, ControlInv', NEW p \in Procs, BeginOp(p)
  PROVE  SpaceInv'
<1>1. CASE pc' = [pc EXCEPT ![p] = "sleep"] /\ outstanding' = outstanding
  <2>1. Active' = Active
    BY <1>1, Zenon DEF BeginOp, MustWait, Active, InOp, ControlInv, ControlType
  <2>2. UNCHANGED <<lh, head, outstanding, hold, written, panicked>>
    BY <1>1, Zenon DEF BeginOp, disk
  <2>3. ~panicked
    BY Zenon DEF SpaceInv
  <2> QED  BY <2>1, <2>2, <2>3, SpaceSame, Zenon
<1>2. CASE pc' = [pc EXCEPT ![p] = "op"] /\ outstanding' = outstanding + 1
           /\ ~NoSpace /\ ~committing
  <2>1. /\ Cardinality(Tokens') \in Nat
        /\ Cardinality(Tokens') <= outstanding' * MAXOPBLOCKS
    <3>1. Tokens' \subseteq Active' \X (1 .. MAXOPBLOCKS)
      BY Zenon DEF Tokens, Active
    <3>2. IsFiniteSet(Active') /\ Cardinality(Active') = outstanding'
      BY LogConstants, FS_Subset, Zenon DEF ControlInv, CommitAlone, Active
    <3> QED  BY <3>1, <3>2, TokensOf, Zenon
  <2>2. Active' = Active \cup {p} /\ p \notin Active
    BY <1>2, Zenon DEF BeginOp, MustWait, Active, InOp, ControlInv, ControlType
  <2>3. WrittenLogged'
    BY <2>2 DEF BeginOp, MustWait, SpaceInv, WrittenLogged, Logged
  <2>4. Len(lh) + (outstanding + 1) * MAXOPBLOCKS <= LOGSIZE
    BY <1>2, LogConstants DEF NoSpace, ControlInv, ControlType
  <2>5. CASE outstanding = 0
    <3>1. lh = <<>>
      BY <1>2, <2>2, <2>5, ActiveFinite, Zenon
      DEF BeginOp, MustWait, ControlInv, CommitAlone, LoggedForSomeone, RecoverAlone,
          Committing, Recovering, ControlType
    <3> QED
      BY <1>2, <2>1, <2>3, <2>5, <3>1, LogConstants
      DEF BeginOp, MustWait, SpaceInv, disk, Slack
  <2>6. CASE outstanding # 0
    <3>1. outstanding' \in Nat /\ outstanding' >= 2 /\ Len(lh) \in Nat
      BY <1>2, <2>6 DEF ControlInv, ControlType
    <3>2. Len(lh) + Cardinality(Tokens') <= LOGSIZE
      BY <1>2, <2>1, <2>4, <3>1, LogConstants, SMTT(30) DEF ControlInv, ControlType
    <3> QED  BY <2>3, <3>1, <3>2 DEF BeginOp, MustWait, SpaceInv, disk
  <2> QED  BY <2>5, <2>6, Zenon
<1> QED  BY <1>1, <1>2, Zenon DEF BeginOp, MustWait

\* A modification trades a token for the pending block.
LEMMA SpaceModify ==
  ASSUME Slack, ControlInv, SpaceInv, ControlInv',
         NEW p \in Procs, NEW b \in Blocks, NEW v \in Values, Modify(p, b, v)
  PROVE  SpaceInv'
<1>1. Active' = Active /\ p \in Active /\ Logged' = Logged /\ hold[p] = NoBlock
  BY LogConstants, SMTT(30)
  DEF Modify, Active, InOp, ControlInv, ControlType, Logged, HoldWhileWriting
<1>2. /\ written'[p] = written[p] \cup {b} /\ hold'[p] = b
      /\ \A q \in Procs \ {p} : written'[q] = written[q] /\ hold'[q] = hold[q]
  BY Zenon DEF Modify, SpaceInv, ControlInv, ControlType
<1>3. IsFiniteSet(written[p]) /\ Cardinality(written[p]) \in Nat
      /\ Cardinality(written[p]) <= OpBlocks /\ written[p] \subseteq Logged
  BY <1>1, FS_CardinalityType, LogConstants, Zenon DEF SpaceInv, WrittenLogged
<1>4. /\ IsFiniteSet(written'[p]) /\ Cardinality(written'[p]) \in Nat
      /\ Cardinality(written'[p]) <= OpBlocks
      /\ b \in written[p] => Cardinality(written'[p]) = Cardinality(written[p])
      /\ b \notin written[p] => Cardinality(written'[p]) = Cardinality(written[p]) + 1
  <2>1. /\ IsFiniteSet(written[p] \cup {b})
        /\ Cardinality(written[p] \cup {b})
             = IF b \in written[p] THEN Cardinality(written[p])
                                   ELSE Cardinality(written[p]) + 1
    BY <1>3, FS_AddElement, Zenon
  <2>2. b \in written[p] \/ Cardinality(written[p]) < OpBlocks
    BY Zenon DEF Modify
  <2>3. Cardinality(written[p] \cup {b}) \in Nat /\ Cardinality(written[p] \cup {b}) <= OpBlocks
    BY <1>3, <2>1, <2>2, LogConstants, SMTT(30)
  <2> QED  BY <1>2, <2>1, <2>3, Zenon
<1>5. WrittenLogged'
  BY <1>1, <1>2, <1>3, <1>4, Zenon DEF SpaceInv, WrittenLogged
<1>6. Tokens' \subseteq Tokens
  <2>1. b \in written[p] => ~Pending(p)'
    BY <1>1, <1>2, <1>3, Zenon DEF Pending
  <2>2. \A q \in Procs \ {p} : Pending(q)' = Pending(q)
    BY <1>1, <1>2, Zenon DEF Pending
  <2>3. ASSUME NEW t \in Tokens', t[1] = p PROVE t \in Tokens
    BY <1>1, <1>3, <1>4, <2>1, <2>3, SMTT(30) DEF Tokens
  <2>4. ASSUME NEW t \in Tokens', t[1] # p PROVE t \in Tokens
    BY <1>1, <1>2, <2>2, <2>4, Zenon DEF Tokens
  <2> QED  BY <2>3, <2>4, Zenon
<1>7. Cardinality(Tokens') \in Nat /\ Cardinality(Tokens') <= Cardinality(Tokens)
      /\ Cardinality(Tokens) \in Nat
  BY <1>6, TokensBound, FS_Subset, FS_CardinalityType, Zenon
<1>8. written' \in [Procs -> SUBSET Blocks]
  BY Zenon DEF Modify, SpaceInv
<1>9. Len(lh) \in Nat /\ outstanding \in Nat
  BY DEF ControlInv, ControlType
<1> QED
  BY SMTT(30), <1>5, <1>7, <1>8, <1>9, LogConstants DEF Modify, SpaceInv, disk

\* The tests of log_write() find room.
LEMMA SpaceLogWriteCheck ==
  ASSUME Slack, ControlInv, SpaceInv, NEW p \in Procs, LogWriteCheck(p)
  PROVE  SpaceInv'
<1>1. p \in Active /\ Active' = Active
  BY Zenon DEF LogWriteCheck, Active, InOp, ControlInv, ControlType
<1>2. Len(lh) + 1 < LOGSIZE /\ Len(lh) \in Nat
  BY <1>1, RoomWhileActive DEF ControlInv, ControlType
<1>3. outstanding \in Nat /\ outstanding # 0
  BY <1>1, ActiveFinite, Zenon DEF ControlInv, CommitAlone
<1>4. ~panicked'
  <2>1. ~(Len(lh) >= LOGSIZE \/ Len(lh) >= NLOG - 1 \/ outstanding < 1)
    BY <1>2, <1>3, LogConstants
  <2> QED  BY <2>1, Zenon DEF LogWriteCheck
<1> QED  BY <1>1, <1>4, SpaceSame, Zenon DEF LogWriteCheck, disk

\* A block that enters the log uses up the pending token of its operation.
LEMMA SpaceLogWrite ==
  ASSUME Slack, ControlInv, SpaceInv, NEW p \in Procs, LogWrite(p)
  PROVE  SpaceInv'
<1> DEFINE b == hold[p]
           k == Cardinality(written[p])
<1>1. p \in Active /\ Active' = Active /\ b \in Blocks /\ lh \in Seq(Blocks)
  BY Zenon DEF LogWrite, Active, InOp, ControlInv, ControlType, HoldWhileWriting
<1>2. hold' = [hold EXCEPT ![p] = NoBlock] /\ written' = written
  BY Zenon DEF LogWrite
<1>3. Logged' = Logged \cup {b}
  BY <1>1 DEF LogWrite, Absorb, Logged
<1>4. WrittenLogged'
  BY <1>1, <1>2, <1>3, LogConstants, Zenon DEF SpaceInv, WrittenLogged, ControlInv, ControlType
<1>5. ~Pending(p)' /\ \A q \in Procs \ {p} : Pending(q)' => Pending(q)
  BY <1>1, <1>2, <1>3, LogConstants, Zenon DEF Pending, ControlInv, ControlType
<1>6. Tokens' \subseteq Tokens /\ <<p, k>> \notin Tokens'
  <2>1. k \in Nat
    BY FS_CardinalityType, Zenon DEF SpaceInv, WrittenLogged
  <2> QED  BY <1>1, <1>2, <1>5, <2>1 DEF Tokens
<1>7. IsFiniteSet(Tokens) /\ Cardinality(Tokens) \in Nat
  BY TokensBound, Zenon
<1>8. CASE b \in Logged
  <2>1. lh' = lh
    BY <1>8, Zenon DEF LogWrite, Absorb
  <2>2. Cardinality(Tokens') \in Nat /\ Cardinality(Tokens') <= Cardinality(Tokens)
    BY <1>6, <1>7, FS_Subset, FS_CardinalityType, Zenon
  <2> QED
    BY <1>1, <1>4, <1>7, <2>1, <2>2, LogConstants
    DEF LogWrite, SpaceInv, disk, ControlInv, ControlType
<1>9. CASE b \notin Logged
  <2>1. Len(lh') = Len(lh) + 1
    BY <1>1, <1>9 DEF LogWrite, Absorb
  <2>2. <<p, k>> \in Tokens
    <3>1. b \in written[p] /\ IsFiniteSet(written[p]) /\ k <= OpBlocks
      BY <1>1, Zenon DEF SpaceInv, WrittenLogged
    <3>2. k \in 1 .. MAXOPBLOCKS
      BY <3>1, FS_EmptySet, FS_CardinalityType, LogConstants
    <3> QED  BY <1>1, <1>9, <3>2, Zenon DEF Tokens, Pending
  <2>3. Cardinality(Tokens \ {<<p, k>>}) = Cardinality(Tokens) - 1
        /\ IsFiniteSet(Tokens \ {<<p, k>>})
    BY <1>7, <2>2, FS_RemoveElement, Zenon
  <2>4. Tokens' \subseteq Tokens \ {<<p, k>>}
    BY <1>6, Zenon
  <2>5. Cardinality(Tokens') \in Nat /\ Cardinality(Tokens') <= Cardinality(Tokens) - 1
    BY <2>3, <2>4, FS_Subset, FS_CardinalityType, SMTT(30)
  <2>6. Len(lh') + Cardinality(Tokens') <= Len(lh) + Cardinality(Tokens)
        /\ Len(lh') \in Nat /\ Len(lh) \in Nat
    BY <1>1, <1>7, <2>1, <2>5
  <2> QED
    BY <1>1, <1>4, <1>7, <2>5, <2>6, LogConstants
    DEF LogWrite, SpaceInv, disk, ControlInv, ControlType
<1> QED  BY <1>8, <1>9, Zenon

\* An operation gives back at least one token when it ends.
LEMMA SpaceEndOp ==
  ASSUME Slack, ControlInv, SpaceInv, NEW p \in Procs, EndOp(p)
  PROVE  SpaceInv'
<1>1. p \in Active /\ lh' = lh /\ head' = head /\ hold' = hold /\ Logged' = Logged
  BY Zenon DEF EndOp, Ended, Active, InOp, disk, Logged
<1>2. Active' = Active \ {p}
  <2>1. CASE outstanding = 1
    BY <2>1, Zenon DEF EndOp, Ended, Active, InOp, ControlInv, ControlType
  <2>2. CASE outstanding # 1
    BY <2>2, WakeupEffect, Zenon DEF EndOp, Ended, Active, InOp, ControlInv, ControlType
  <2> QED  BY <2>1, <2>2, Zenon
<1>3. /\ written' \in [Procs -> SUBSET Blocks] /\ written'[p] = {}
      /\ \A q \in Procs \ {p} : written'[q] = written[q]
  BY Zenon DEF EndOp, Ended, SpaceInv
<1>4. hold[p] \notin Blocks
  BY Zenon DEF EndOp, Ended, ControlInv, HoldWhileWriting
<1>5. WrittenLogged'
  <2>1. IsFiniteSet({}) /\ Cardinality({}) = 0
    BY FS_EmptySet, Zenon
  <2>2. OpBlocks \in Nat /\ 0 <= OpBlocks
    BY LogConstants
  <2> QED  BY <1>1, <1>2, <1>3, <1>4, <2>1, <2>2, Zenon DEF SpaceInv, WrittenLogged
<1>6. Tokens' \subseteq Tokens \ {<<p, MAXOPBLOCKS>>}
  <2>1. \A q \in Procs : Pending(q)' = Pending(q)
    BY <1>1, Zenon DEF Pending
  <2>2. ASSUME NEW t \in Tokens' PROVE t \in Tokens /\ t[1] # p
    <3>1. t \in Procs \X (1 .. MAXOPBLOCKS) /\ t[1] \in Active' /\ t[1] \in Procs
      BY <2>2, Zenon DEF Tokens
    <3>2. t[1] # p /\ t[1] \in Active /\ written'[t[1]] = written[t[1]]
      BY <1>2, <1>3, <3>1, Zenon
    <3> QED  BY <2>1, <2>2, <3>1, <3>2, Zenon DEF Tokens
  <2> QED  BY <2>2
<1>7. /\ IsFiniteSet(Tokens) /\ Cardinality(Tokens) \in Nat
      /\ <<p, MAXOPBLOCKS>> \in Tokens
  BY <1>1, TokensBound, LastToken, Zenon DEF SpaceInv
<1>8. /\ IsFiniteSet(Tokens \ {<<p, MAXOPBLOCKS>>})
      /\ Cardinality(Tokens \ {<<p, MAXOPBLOCKS>>}) = Cardinality(Tokens) - 1
  BY <1>7, FS_RemoveElement, Zenon
<1>9. Cardinality(Tokens') \in Nat /\ Cardinality(Tokens') < Cardinality(Tokens)
  BY <1>6, <1>7, <1>8, FS_Subset, FS_CardinalityType
<1>10. ~panicked'
  BY ControlEndOp, Zenon
<1>11. Len(lh) \in Nat /\ outstanding \in Nat /\ outstanding' = outstanding - 1
  BY DEF EndOp, Ended, ControlInv, ControlType
<1> QED
  BY SMTT(30), <1>1, <1>3, <1>5, <1>7, <1>9, <1>10, <1>11, LogConstants DEF SpaceInv

\* Every step keeps SpaceInv.
LEMMA SpaceStep ==
  ASSUME Slack, ControlInv, SpaceInv, ControlInv', [Next]_vars
  PROVE  SpaceInv'
<1>1. ASSUME NEW p \in Procs, Op(p) PROVE SpaceInv'
  BY <1>1, SpaceBeginOp, SpaceModify, SpaceLogWriteCheck, SpaceLogWrite, SpaceEndOp, Zenon
  DEF Op
<1>2. ASSUME NEW p \in Procs, CommitStep(p) \/ RecoverStep(p) PROVE SpaceInv'
  <2>1. Active = {} /\ Active' = {}
    <3>1. pc[p] \in Committing \cup Recovering
      BY <1>2, Zenon DEF CommitStep, RecoverStep, WriteLog, WriteHead, InstallTrans,
                  ClearHead, CommitDone, ReadHead, RecoverDone, Committing, Recovering
    <3>2. Active = {}
      BY <3>1, Zenon DEF ControlInv, CommitAlone, RecoverAlone, Active, Committing,
                  Recovering, InOp
    <3>3. Active' \subseteq Active
      <4>1. CASE CommitDone(p)
        BY <4>1, WakeupEffect, Zenon DEF CommitDone, Active, InOp, ControlInv, ControlType
      <4>2. CASE ~CommitDone(p)
        BY <1>2, <4>2, Zenon DEF CommitStep, RecoverStep, WriteLog, WriteHead, InstallTrans,
             ClearHead, ReadHead, RecoverDone, Active, InOp, ControlInv, ControlType
      <4> QED  BY <4>1, <4>2, Zenon
    <3> QED  BY <3>2, <3>3, Zenon
  <2>2. Len(lh) < LOGSIZE /\ Len(head) < LOGSIZE
    <3>1. outstanding = 0 /\ Cardinality(Tokens) = 0 /\ Len(lh) \in Nat
      BY <2>1, NoTokens, FS_EmptySet DEF ControlInv, CommitAlone, ControlType
    <3> QED  BY <3>1 DEF SpaceInv
  <2>3. Len(lh') < LOGSIZE /\ Len(head') < LOGSIZE /\ written' = written /\ ~panicked'
    <3>1. /\ lh' \in {lh, head, <<>>} /\ head' \in {lh, head, <<>>}
          /\ written' = written /\ panicked' = panicked
      BY <1>2, Zenon
      DEF CommitStep, RecoverStep, WriteLog, WriteHead, InstallTrans, ClearHead,
          CommitDone, ReadHead, RecoverDone, disk
    <3>2. 0 < LOGSIZE /\ Len(<<>>) = 0
      BY LogConstants DEF Slack
    <3>3. ~panicked
      BY Zenon DEF SpaceInv
    <3> QED  BY <2>2, <3>1, <3>2, <3>3, Zenon
  <2> QED  BY <2>1, <2>3, SpaceQuiet, Zenon
<1>3. ASSUME NEW b \in Blocks, Recycle(b) \/ Bread(b) PROVE SpaceInv'
  <2>1. Active' = Active
    BY <1>3, Zenon DEF Recycle, Bread, Active
  <2>2. UNCHANGED <<lh, head, outstanding, hold, written, panicked>>
    BY <1>3, Zenon DEF Recycle, Bread, disk
  <2>3. ~panicked
    BY Zenon DEF SpaceInv
  <2> QED  BY <2>1, <2>2, <2>3, SpaceSame, Zenon
<1>4. CASE Crash
  BY <1>4, SpaceCrash, Zenon
<1>5. CASE UNCHANGED vars
  <2>1. Active' = Active
    BY <1>5, Zenon DEF vars, Active
  <2>2. UNCHANGED <<lh, head, outstanding, hold, written, panicked>>
    BY <1>5, Zenon DEF vars
  <2>3. ~panicked
    BY Zenon DEF SpaceInv
  <2> QED  BY <2>1, <2>2, <2>3, SpaceSame, Zenon
<1> QED  BY <1>1, <1>2, <1>3, <1>4, <1>5, Zenon DEF Next

\* SpaceInv bounds the log.
LEMMA SpaceImpliesNoPanic ==
  ASSUME Slack, ControlInv, SpaceInv
  PROVE  NoPanic
<1>1. Cardinality(Tokens) \in Nat /\ Len(lh) \in Nat /\ outstanding \in Nat
  BY TokensBound DEF ControlInv, ControlType
<1>2. CASE outstanding < 2
  BY <1>1, <1>2, LogConstants DEF SpaceInv, NoPanic
<1>3. CASE outstanding >= 2
  <2>1. PICK p \in Active : TRUE
    BY <1>3, FS_EmptySet DEF ControlInv, CommitAlone
  <2> QED  BY <1>1, <1>3, <2>1, LogConstants, RoomWhileActive DEF SpaceInv, NoPanic
<1> QED  BY <1>1, <1>2, <1>3

\* If every operation leaves at least one block of its MAXOPBLOCKS unused, no
\* call of log.c panics and a transaction fits in the on-disk log, although
\* log_write() tests the size before it takes log.lock.
THEOREM NoPanicSafe ==
  ASSUME Slack
  PROVE  Spec => []NoPanic
<1>1. Init => ControlInv /\ SpaceInv
  BY ControlInit, SpaceInit, Zenon
<1>2. ControlInv /\ SpaceInv /\ [Next]_vars => (ControlInv /\ SpaceInv)'
  BY ControlStep, SpaceStep, Zenon
<1>3. ControlInv /\ SpaceInv => NoPanic
  BY SpaceImpliesNoPanic, Zenon
<1> QED  BY <1>1, <1>2, <1>3, PTL DEF Spec
-----------------------------------------------------------------------------
(* The data.                                                               *)

\* Some process is in phase s of log.c.
At(s) == \E p \in Procs : pc[p] = s

\* The header names the logged blocks from the commit point to the erasure.
HeadInv ==
  /\ ~At("read_head") /\ ~At("recover") /\ ~At("install_trans") => head = <<>>
  /\ At("recover") \/ At("install_trans") => head = lh

Distinct(s) == \A i, j \in 1 .. Len(s) : s[i] = s[j] => i = j

\* A clean unlocked buffer agrees with its home block.
CleanIsHome ==
  \A b \in Blocks :
    b \notin dirty /\ (\A p \in Procs : hold[p] # b)
      => cache[b] = NoData \/ cache[b] = home[b]

\* B_DIRTY marks logged blocks, and keeps them in the cache.
DirtyLogged == \A b \in dirty : b \in Logged /\ cache[b] # NoData
HeldCached == \A p \in Procs : hold[p] \in Blocks => cache[hold[p]] # NoData

\* Before its installation a logged block is dirty.
UninstalledDirty ==
  \A i \in 1 .. Len(lh) :
    lh[i] \in dirty \/ At("recover") \/ (At("install_trans") /\ i <= tail)

\* write_log() has copied the first `tail' blocks to the log.
CopiedInv ==
  At("write_log") =>
    /\ tail <= Len(lh)
    /\ \A i \in 1 .. Len(lh) : i <= tail => logblk[i] = cache[lh[i]]

\* install_trans() has copied the first `tail' blocks home.
InstalledInv ==
  /\ At("install_trans") =>
       \A i \in 1 .. Len(lh) : logblk[i] = BufData(lh[i])
  /\ At("install_trans") \/ At("recover") =>
       /\ tail <= Len(lh)
       /\ \A i \in 1 .. Len(lh) :
            i <= tail => home[lh[i]] = logblk[i] /\ lh[i] \notin dirty
  /\ At("read_head") \/ At("recover") => dirty = {}

DataType ==
  /\ home \in [Blocks -> Values]
  /\ logblk \in [DataBlocks -> Values]
  /\ cache \in [Blocks -> Values \cup {NoData}]
  /\ dirty \in SUBSET Blocks

DataInv ==
  /\ DataType
  /\ HeadInv
  /\ Distinct(lh) /\ Distinct(head)
  /\ CleanIsHome
  /\ DirtyLogged
  /\ HeldCached
  /\ UninstalledDirty
  /\ CopiedInv
  /\ InstalledInv
-----------------------------------------------------------------------------
\* DataInv holds when the machine boots.
LEMMA DataInit == Init => DataInv
<1> SUFFICES ASSUME Init PROVE DataInv
  BY Zenon
<1>1. PICK first \in Procs : pc = BootPC(first)
  BY Zenon DEF Init
<1>2. ~At("recover") /\ ~At("install_trans") /\ ~At("write_log") /\ At("read_head")
  BY <1>1, Zenon DEF At, BootPC
<1>3. DataType
  BY LogConstants, Zenon DEF Init, DataType
<1> QED
  BY <1>2, <1>3, LogConstants
  DEF Init, DataInv, HeadInv, Distinct, CleanIsHome, DirtyLogged, HeldCached,
      UninstalledDirty, CopiedInv, InstalledInv

\* A crash keeps the disk, and DataInv.
LEMMA DataCrash ==
  ASSUME DataInv, ControlInv, Crash
  PROVE  DataInv'
<1>1. PICK first \in Procs : pc' = BootPC(first)
  BY Zenon DEF Crash
<1>2. (~At("recover") /\ ~At("install_trans") /\ ~At("write_log") /\ At("read_head"))'
  BY <1>1, Zenon DEF At, BootPC
<1>3. DataType'
  BY LogConstants, Zenon DEF Crash, DataInv, DataType, disk
<1> QED
  BY <1>2, <1>3, LogConstants
  DEF Crash, disk, DataInv, HeadInv, Distinct, CleanIsHome, DirtyLogged, HeldCached,
      UninstalledDirty, CopiedInv, InstalledInv

\* Steps that only move processes through phases that hold no data.
LEMMA DataControl ==
  ASSUME DataInv, UNCHANGED <<home, logblk, head, lh, cache, dirty, hold>>,
         At("read_head")' <=> At("read_head"), At("recover")' <=> At("recover"),
         At("install_trans")' <=> At("install_trans"),
         tail' = tail \/ (~At("recover") /\ ~At("install_trans") /\ tail' = 0),
         At("write_log")' => tail' = 0 \/ (At("write_log") /\ tail' = tail),
         lh \in Seq(Blocks), tail \in Nat
  PROVE  DataInv'
BY DEF DataInv, DataType, HeadInv, Distinct, CleanIsHome, DirtyLogged, HeldCached,
       UninstalledDirty, CopiedInv, InstalledInv, Logged, BufData

\* What the phases exclude, from ControlInv.
LEMMA Phases ==
  ASSUME ControlInv
  PROVE  /\ At("recover") \/ At("read_head") =>
              \A p \in Procs : pc[p] \in Recovering \cup {"off"}
         /\ At("write_log") \/ At("install_trans") =>
              \A p \in Procs : pc[p] \notin InOp \cup Recovering
         /\ ~(At("write_log") /\ At("install_trans"))
         /\ ~(At("recover") /\ At("read_head"))
         /\ At("recover") \/ At("read_head") \/ At("write_log") \/ At("install_trans")
              => Active = {} /\ \A p \in Procs : hold[p] \notin Blocks
BY Zenon DEF ControlInv, ControlType, CommitAlone, RecoverAlone, HoldWhileWriting, At,
       Committing, Recovering, InOp, Active

\* begin_op(), the tests of log_write(), end_op() and the end of a commit.
LEMMA DataPhaseSteps ==
  ASSUME ControlInv, DataInv, NEW p \in Procs,
         BeginOp(p) \/ LogWriteCheck(p) \/ EndOp(p) \/ CommitDone(p)
  PROVE  DataInv'
<1>0. lh \in Seq(Blocks) /\ tail \in Nat /\ pc \in [Procs -> PC]
  BY Zenon DEF ControlInv, ControlType
<1>1. CASE BeginOp(p) \/ LogWriteCheck(p)
  <2>1. /\ pc[p] \notin {"read_head", "recover", "install_trans", "write_log"}
        /\ pc'[p] \notin {"read_head", "recover", "install_trans", "write_log"}
        /\ \A q \in Procs \ {p} : pc'[q] = pc[q]
    BY <1>0, <1>1, Zenon DEF BeginOp, MustWait, LogWriteCheck
  <2> QED  BY <1>0, <1>1, <2>1, DataControl, Zenon DEF BeginOp, MustWait, LogWriteCheck, disk, At
<1>2. CASE CommitDone(p)
  <2>1. /\ pc[p] = "commit_done" /\ pc'[p] = "idle"
        /\ \A q \in Procs \ {p} : pc'[q] = pc[q] \/ (pc[q] = "sleep" /\ pc'[q] = "begin_op")
    BY <1>0, <1>2, WakeupEffect, Zenon DEF CommitDone
  <2> QED  BY <1>0, <1>2, <2>1, DataControl, Zenon DEF CommitDone, disk, At
<1>3. CASE EndOp(p) /\ outstanding # 1
  <2>1. /\ pc[p] = "op" /\ pc'[p] = "idle"
        /\ \A q \in Procs \ {p} : pc'[q] = pc[q] \/ (pc[q] = "sleep" /\ pc'[q] = "begin_op")
    BY <1>0, <1>3, WakeupEffect, Zenon DEF EndOp, Ended
  <2> QED  BY <1>0, <1>3, <2>1, DataControl, Zenon DEF EndOp, Ended, disk, At
<1>4. CASE EndOp(p) /\ outstanding = 1
  <2>1. /\ pc[p] = "op" /\ pc'[p] \in {"commit_done", "write_log"}
        /\ \A q \in Procs \ {p} : pc'[q] = pc[q]
    BY <1>0, <1>4, Zenon DEF EndOp, Ended
  <2>2. ~At("recover") /\ ~At("install_trans")
    BY <2>1, Phases, Zenon DEF InOp, Recovering
  <2> QED  BY <1>0, <1>4, <2>1, <2>2, DataControl, Zenon DEF EndOp, Ended, disk, At
<1> QED  BY <1>1, <1>2, <1>3, <1>4, Zenon

\* A modification changes a locked buffer only.
LEMMA DataModify ==
  ASSUME ControlInv, DataInv, NEW p \in Procs, NEW b \in Blocks, NEW v \in Values,
         Modify(p, b, v)
  PROVE  DataInv'
<1>1. /\ pc[p] = "op" /\ hold' = [hold EXCEPT ![p] = b] /\ cache' = [cache EXCEPT ![b] = v]
      /\ hold \in [Procs -> Blocks \cup {NoBlock}] /\ lh \in Seq(Blocks) /\ tail \in Nat
      /\ hold[p] \notin Blocks
  BY Zenon DEF Modify, ControlInv, ControlType, HoldWhileWriting
<1>2. ~At("read_head") /\ ~At("recover") /\ ~At("install_trans") /\ ~At("write_log")
  BY <1>1, Phases, Zenon DEF InOp, Recovering
<1>3. ~At("read_head")' /\ ~At("recover")' /\ ~At("install_trans")' /\ ~At("write_log")'
  BY <1>2, Zenon DEF Modify, At, ControlInv, ControlType
<1>4. DataType'
  BY Zenon DEF Modify, DataInv, DataType, disk
<1>5. CleanIsHome'
  <2> SUFFICES ASSUME NEW c \in Blocks, c \notin dirty', \A q \in Procs : hold'[q] # c
               PROVE  cache'[c] = NoData \/ cache'[c] = home'[c]
    BY Zenon DEF CleanIsHome
  <2>1. c # b
    BY <1>1, Zenon
  <2>2. \A q \in Procs : hold[q] # c
    BY <1>1, Zenon
  <2> QED  BY <1>1, <2>1, <2>2, Zenon DEF Modify, disk, DataInv, DataType, CleanIsHome
<1>6. DirtyLogged' /\ HeldCached'
  BY SMTT(30), <1>1, LogConstants DEF Modify, DataInv, DataType, DirtyLogged, HeldCached, Logged
<1> QED
  BY <1>1, <1>2, <1>3, <1>4, <1>5, <1>6
  DEF Modify, disk, DataInv, HeadInv, Distinct, UninstalledDirty, CopiedInv, InstalledInv

\* log_write() enters the block once, and pins it.
LEMMA DataLogWrite ==
  ASSUME ControlInv, DataInv, NEW p \in Procs, LogWrite(p)
  PROVE  DataInv'
<1> DEFINE b == hold[p]
<1>1. /\ pc[p] = "log_write" /\ b \in Blocks /\ lh \in Seq(Blocks) /\ tail \in Nat
      /\ hold \in [Procs -> Blocks \cup {NoBlock}]
      /\ hold' = [hold EXCEPT ![p] = NoBlock] /\ dirty' = dirty \cup {b}
      /\ UNCHANGED <<home, logblk, head, cache, tail>>
  BY Zenon DEF LogWrite, ControlInv, ControlType, HoldWhileWriting, disk
<1>2. ~At("read_head") /\ ~At("recover") /\ ~At("install_trans") /\ ~At("write_log")
  BY <1>1, Phases, Zenon DEF InOp, Recovering
<1>3. ~At("read_head")' /\ ~At("recover")' /\ ~At("install_trans")' /\ ~At("write_log")'
  BY <1>2, Zenon DEF LogWrite, At, ControlInv, ControlType
<1>4. /\ Logged' = Logged \cup {b}
      /\ lh' \in Seq(Blocks)
      /\ \A i \in 1 .. Len(lh') : lh'[i] = b \/ (i \in 1 .. Len(lh) /\ lh'[i] = lh[i])
  BY SMTT(30), <1>1 DEF LogWrite, Absorb, Logged
<1>5. Distinct(lh')
  BY <1>1 DEF LogWrite, Absorb, Logged, Distinct, DataInv
<1>6. UninstalledDirty'
  BY <1>1, <1>2, <1>4, Zenon DEF DataInv, UninstalledDirty
<1>7. CleanIsHome'
  BY <1>1, Zenon DEF DataInv, CleanIsHome
<1>8. DirtyLogged' /\ HeldCached'
  BY <1>1, <1>4, LogConstants, Zenon DEF DataInv, DirtyLogged, HeldCached
<1>9. DataType'
  BY <1>1, Zenon DEF DataInv, DataType
<1> QED
  BY <1>1, <1>2, <1>3, <1>5, <1>6, <1>7, <1>8, <1>9
  DEF DataInv, HeadInv, Distinct, CopiedInv, InstalledInv

\* write_log() copies one cached block into the log, below the header.
LEMMA DataWriteLog ==
  ASSUME ControlInv, SpaceInv, NoPanic, DataInv, NEW p \in Procs, WriteLog(p)
  PROVE  DataInv'
<1> DEFINE i0 == tail + 1
<1>1. /\ pc[p] = "write_log" /\ i0 \in 1 .. Len(lh) /\ lh \in Seq(Blocks) /\ tail \in Nat
      /\ lh[i0] \in Blocks /\ i0 \in DataBlocks
      /\ UNCHANGED <<home, head, lh, dirty, hold, pc>> /\ tail' = i0
  BY LogConstants DEF WriteLog, ControlInv, ControlType, NoPanic, DataBlocks
<1>2. At("write_log") /\ ~At("read_head") /\ ~At("recover") /\ ~At("install_trans")
  BY <1>1, Phases, Zenon DEF At
<1>3. At("write_log")' /\ ~At("read_head")' /\ ~At("recover")' /\ ~At("install_trans")'
  BY <1>1, <1>2, Zenon DEF At
<1>4. lh[i0] \in dirty /\ cache[lh[i0]] # NoData
  BY <1>1, <1>2, Zenon DEF DataInv, UninstalledDirty, DirtyLogged
<1>5. BufData(lh[i0]) = cache[lh[i0]] /\ cache[lh[i0]] \in Values
  BY <1>1, <1>4, Zenon DEF BufData, DataInv, DataType
<1>6. cache' = cache /\ logblk' = [logblk EXCEPT ![i0] = cache[lh[i0]]]
  BY <1>1, <1>5, Zenon DEF WriteLog, DataInv, DataType
<1>7. DataType'
  BY <1>1, <1>5, <1>6, Zenon DEF DataInv, DataType
<1>8. CopiedInv'
  <2>1. \A i \in 1 .. Len(lh) : i <= i0 => logblk'[i] = cache[lh[i]]
    BY <1>1, <1>2, <1>6, LogConstants DEF DataInv, DataType, CopiedInv, DataBlocks, NoPanic
  <2> QED  BY SMTT(30), <1>1, <1>6, <2>1 DEF CopiedInv
<1>9. HeadInv' /\ Distinct(lh)' /\ Distinct(head)'
  BY <1>1, <1>2, <1>3 DEF DataInv, HeadInv, Distinct
<1>10. CleanIsHome' /\ DirtyLogged' /\ HeldCached'
  BY <1>1, <1>6 DEF DataInv, CleanIsHome, DirtyLogged, HeldCached, Logged
<1>11. UninstalledDirty' /\ InstalledInv'
  BY <1>1, <1>2, <1>3, Zenon DEF DataInv, UninstalledDirty, InstalledInv
<1> QED  BY <1>7, <1>8, <1>9, <1>10, <1>11, Zenon DEF DataInv

\* The commit point: the header names blocks that the log all holds.
LEMMA DataWriteHead ==
  ASSUME ControlInv, DataInv, NEW p \in Procs, WriteHead(p)
  PROVE  DataInv'
<1>1. /\ pc[p] = "write_log" /\ lh \in Seq(Blocks) /\ tail = Len(lh)
      /\ pc' = [pc EXCEPT ![p] = "install_trans"] /\ pc \in [Procs -> PC]
      /\ head' = lh /\ tail' = 0
      /\ UNCHANGED <<home, logblk, lh, cache, dirty, hold>>
  BY Zenon DEF WriteHead, ControlInv, ControlType
<1>2. /\ At("write_log") /\ ~At("read_head") /\ ~At("recover") /\ ~At("install_trans")
      /\ \A q \in Procs \ {p} : pc[q] # "write_log"
  BY <1>1, Phases, Zenon DEF At, ControlInv, CommitAlone, Committing
<1>3. ~At("write_log")' /\ ~At("read_head")' /\ ~At("recover")' /\ At("install_trans")'
  BY <1>1, <1>2, Zenon DEF At
<1>4. \A i \in 1 .. Len(lh) : lh[i] \in dirty /\ cache[lh[i]] # NoData
  BY <1>1, <1>2, Zenon DEF DataInv, UninstalledDirty, DirtyLogged
<1>5. \A i \in 1 .. Len(lh) : logblk[i] = BufData(lh[i])
  BY SMTT(30), <1>1, <1>2, <1>4 DEF BufData, DataInv, CopiedInv
<1>6. InstalledInv'
  BY <1>1, <1>3, <1>5 DEF InstalledInv, BufData
<1> QED
  BY <1>1, <1>3, <1>4, <1>6
  DEF DataInv, DataType, HeadInv, Distinct, CleanIsHome, DirtyLogged, HeldCached,
      UninstalledDirty, CopiedInv, Logged

\* install_trans() copies one committed block home.
LEMMA DataInstallTrans ==
  ASSUME ControlInv, SpaceInv, NoPanic, DataInv, NEW p \in Procs, InstallTrans(p)
  PROVE  DataInv'
<1> DEFINE i0 == tail + 1
           c == lh[i0]
<1>1. /\ pc[p] \in {"recover", "install_trans"}
      /\ i0 \in 1 .. Len(lh) /\ lh \in Seq(Blocks) /\ tail \in Nat
      /\ c \in Blocks /\ i0 \in DataBlocks
      /\ home' = [home EXCEPT ![c] = logblk[i0]] /\ cache' = [cache EXCEPT ![c] = logblk[i0]]
      /\ dirty' = dirty \ {c} /\ tail' = i0
      /\ UNCHANGED <<logblk, head, lh, hold, pc>>
  BY LogConstants DEF InstallTrans, ControlInv, ControlType, NoPanic, DataBlocks
<1>2. /\ ~At("write_log") /\ ~At("read_head") /\ (At("recover") \/ At("install_trans"))
      /\ \A q \in Procs : hold[q] \notin Blocks
  BY <1>1, Phases, Zenon DEF At
<1>3. /\ At("write_log")' <=> At("write_log")
      /\ At("read_head")' <=> At("read_head")
      /\ At("recover")' <=> At("recover")
      /\ At("install_trans")' <=> At("install_trans")
  BY <1>1, Zenon DEF At
<1>4. /\ home \in [Blocks -> Values] /\ cache \in [Blocks -> Values \cup {NoData}]
      /\ logblk[i0] \in Values /\ logblk[i0] # NoData
  BY <1>1, LogConstants DEF DataInv, DataType
<1>5. \A i \in 1 .. Len(lh) : lh[i] \in Blocks /\ (lh[i] = c <=> i = i0)
  BY <1>1 DEF DataInv, Distinct
<1>6. DataType'
  BY <1>1, <1>4, Zenon DEF DataInv, DataType
<1>7. CleanIsHome'
  BY <1>1, <1>4, Zenon DEF DataInv, CleanIsHome
<1>8. DirtyLogged' /\ HeldCached'
  BY SMTT(30), <1>1, <1>2, <1>4 DEF DataInv, DataType, DirtyLogged, HeldCached, Logged
<1>9. UninstalledDirty'
  BY SMTT(30), <1>1, <1>2, <1>3, <1>5 DEF DataInv, UninstalledDirty, At
<1>10. InstalledInv'
  <2>1. \A i \in 1 .. Len(lh) : i <= i0 => home'[lh[i]] = logblk[i] /\ lh[i] \notin dirty'
    BY <1>1, <1>2, <1>4, <1>5 DEF DataInv, InstalledInv
  <2>2. At("install_trans") => \A i \in 1 .. Len(lh) : logblk[i] = BufData(lh[i])'
    BY <1>1, <1>4, <1>5, Zenon DEF DataInv, InstalledInv, BufData
  <2>3. At("read_head")' \/ At("recover")' => dirty' = {}
    BY <1>1, <1>3, Zenon DEF DataInv, InstalledInv
  <2> QED  BY SMTT(30), <1>1, <1>3, <2>1, <2>2, <2>3 DEF InstalledInv
<1> QED
  BY <1>1, <1>2, <1>3, <1>6, <1>7, <1>8, <1>9, <1>10, Zenon
  DEF DataInv, HeadInv, Distinct, CopiedInv

\* Erasing an installed transaction, at the end of a commit or of recovery.
LEMMA DataErase ==
  ASSUME ControlInv, ControlInv', DataInv, NEW p \in Procs,
         ClearHead(p) \/ RecoverDone(p)
  PROVE  DataInv'
<1>1. /\ pc[p] \in {"recover", "install_trans"} /\ lh \in Seq(Blocks) /\ tail = Len(lh)
      /\ lh' = <<>> /\ head' = <<>>
      /\ UNCHANGED <<home, logblk, cache, dirty, hold>> /\ pc \in [Procs -> PC]
  BY Zenon DEF ClearHead, RecoverDone, InstallDone, ControlInv, ControlType
<1>2. ~At("write_log")' /\ ~At("read_head")' /\ ~At("recover")' /\ ~At("install_trans")'
  <2>1. CASE ClearHead(p)
    <3>1. pc[p] = "install_trans" /\ pc' = [pc EXCEPT ![p] = "commit_done"]
      BY <2>1, Zenon DEF ClearHead
    <3>2. \A q \in Procs \ {p} : pc[q] \notin {"write_log", "read_head", "recover", "install_trans"}
      BY <3>1, Phases, Zenon DEF ControlInv, CommitAlone, Committing, Recovering, At
    <3> QED  BY <1>1, <3>1, <3>2, Zenon DEF At
  <2>2. CASE RecoverDone(p)
    BY <2>2, Zenon DEF RecoverDone, At
  <2> QED  BY <2>1, <2>2, Zenon
<1>3. dirty = {}
  <2>1. \A i \in 1 .. Len(lh) : lh[i] \notin dirty
    BY SMTT(30), <1>1 DEF DataInv, InstalledInv, At
  <2> QED  BY <2>1 DEF DataInv, DataType, DirtyLogged, Logged
<1> QED
  BY <1>1, <1>2, <1>3
  DEF DataInv, DataType, HeadInv, Distinct, CleanIsHome, DirtyLogged, HeldCached,
      UninstalledDirty, CopiedInv, InstalledInv

\* read_head() makes the header the transaction to install.
LEMMA DataReadHead ==
  ASSUME ControlInv, DataInv, NEW p \in Procs, ReadHead(p)
  PROVE  DataInv'
<1>1. /\ pc[p] = "read_head" /\ head \in Seq(Blocks) /\ pc \in [Procs -> PC]
      /\ pc' = [pc EXCEPT ![p] = "recover"] /\ lh' = head /\ tail' = 0
      /\ UNCHANGED <<home, logblk, head, cache, dirty, hold>>
  BY Zenon DEF ReadHead, ControlInv, ControlType, disk
<1>2. ~At("write_log")' /\ ~At("read_head")' /\ At("recover")' /\ ~At("install_trans")'
  BY <1>1, Zenon DEF At, ControlInv, RecoverAlone, Recovering
<1>3. dirty = {} /\ Len(head) \in Nat
  <2>1. dirty = {}
    BY <1>1, Zenon DEF DataInv, InstalledInv, At
  <2>2. Len(head) \in Nat
    BY <1>1
  <2> QED  BY <2>1, <2>2, Zenon
<1> QED
  BY <1>1, <1>2, <1>3
  DEF DataInv, DataType, HeadInv, Distinct, CleanIsHome, DirtyLogged, HeldCached,
      UninstalledDirty, CopiedInv, InstalledInv

\* bget() recycles and bread() fills clean buffers only.
LEMMA DataCache ==
  ASSUME ControlInv, DataInv, NEW b \in Blocks, Recycle(b) \/ Bread(b)
  PROVE  DataInv' /\ \A c \in Blocks : BufData(c)' = BufData(c)
<1>1. UNCHANGED <<home, logblk, head, lh, hold, pc, tail>> /\ lh \in Seq(Blocks)
  BY Zenon DEF Recycle, Bread, disk, ControlInv, ControlType
<1>2. \A s : At(s)' = At(s)
  BY <1>1, Zenon DEF At
<1>3. dirty' = dirty /\ b \notin dirty /\ (\A p \in Procs : hold[p] # b)
  <2>1. CASE Recycle(b)
    BY <2>1, Zenon DEF Recycle, Recyclable, DataInv, DataType
  <2>2. CASE Bread(b)
    BY <2>2, Zenon DEF Bread, DataInv, DataType, DirtyLogged, HeldCached
  <2> QED  BY <2>1, <2>2, Zenon
<1>4. PICK d \in Values \cup {NoData} :
        cache' = [cache EXCEPT ![b] = d] /\ (d = NoData \/ d = home[b])
  BY Zenon DEF Recycle, Bread, DataInv, DataType
<1>5. cache[b] = NoData \/ cache[b] = home[b]
  BY <1>3, Zenon DEF DataInv, CleanIsHome
<1>6. /\ cache \in [Blocks -> Values \cup {NoData}]
      /\ home \in [Blocks -> Values] /\ \A c \in Blocks : home[c] # NoData
  BY LogConstants DEF DataInv, DataType
<1>7. \A c \in Blocks : BufData(c)' = BufData(c)
  BY <1>1, <1>4, <1>5, <1>6, Zenon DEF BufData
<1>8. \A c \in Blocks : c # b => cache'[c] = cache[c]
  BY <1>4, <1>6, Zenon
<1>9. CopiedInv'
  <2>1. At("write_log") => \A i \in 1 .. Len(lh) : lh[i] # b /\ lh[i] \in Blocks
    <3>1. At("write_log") => ~At("recover") /\ ~At("install_trans")
      BY Phases, Zenon DEF At, Recovering
    <3>2. UninstalledDirty
      BY Zenon DEF DataInv
    <3>3. \A i \in 1 .. Len(lh) : lh[i] \in Blocks
      BY <1>1
    <3> QED  BY <1>3, <3>1, <3>2, <3>3, Zenon DEF UninstalledDirty
  <2> QED  BY <1>1, <1>2, <1>8, <2>1, Zenon DEF DataInv, CopiedInv
<1>10. InstalledInv'
  <2>1. \A i \in 1 .. Len(lh) : lh[i] \in Blocks
    BY <1>1
  <2> QED  BY <1>1, <1>2, <1>3, <1>7, <2>1, Zenon DEF DataInv, InstalledInv
<1>11. CleanIsHome' /\ DirtyLogged' /\ HeldCached'
  <2>0. CleanIsHome /\ DirtyLogged /\ HeldCached /\ dirty \subseteq Blocks
    BY Zenon DEF DataInv, DataType
  <2>1. cache'[b] = NoData \/ cache'[b] = home[b]
    BY <1>4, <1>6, Zenon
  <2>2. CleanIsHome'
    BY <1>1, <1>3, <1>8, <2>0, <2>1, Zenon DEF CleanIsHome
  <2>3. DirtyLogged'
    BY <1>1, <1>3, <1>8, <2>0, Zenon DEF DirtyLogged, Logged
  <2>4. HeldCached'
    BY <1>1, <1>3, <1>8, <2>0, Zenon DEF HeldCached
  <2> QED  BY <2>2, <2>3, <2>4, Zenon
<1>12. DataType'
  BY <1>1, <1>3, <1>4, Zenon DEF DataInv, DataType
<1> QED
  BY SMTT(30), <1>1, <1>2, <1>3, <1>7, <1>9, <1>10, <1>11, <1>12
  DEF DataInv, HeadInv, Distinct, UninstalledDirty

\* Every step keeps DataInv.
LEMMA DataStep ==
  ASSUME ControlInv, ControlInv', SpaceInv, NoPanic, DataInv, [Next]_vars
  PROVE  DataInv'
<1>1. ASSUME NEW p \in Procs, Op(p) PROVE DataInv'
  BY <1>1, DataPhaseSteps, DataModify, DataLogWrite, Zenon DEF Op
<1>2. ASSUME NEW p \in Procs, CommitStep(p) PROVE DataInv'
  BY <1>2, DataWriteLog, DataWriteHead, DataInstallTrans, DataErase, DataPhaseSteps, Zenon
  DEF CommitStep
<1>3. ASSUME NEW p \in Procs, RecoverStep(p) PROVE DataInv'
  BY <1>3, DataReadHead, DataErase, Zenon DEF RecoverStep
<1>4. CASE UNCHANGED vars
  BY <1>4, DataControl, Zenon DEF vars, At, ControlInv, ControlType
<1> QED  BY <1>1, <1>2, <1>3, <1>4, DataCache, DataCrash, Zenon DEF Next
-----------------------------------------------------------------------------
(* The refinement.                                                         *)

\* What Recovered is, without its CHOOSE.
LEMMA RecoveredIs ==
  ASSUME head \in Seq(Blocks), Distinct(head)
  PROVE  /\ \A i \in 1 .. Len(head) : Recovered[head[i]] = logblk[i]
         /\ \A b \in Blocks : (\A i \in 1 .. Len(head) : head[i] # b)
                                => Recovered[b] = home[b]
<1>1. ASSUME NEW i \in 1 .. Len(head) PROVE Recovered[head[i]] = logblk[i]
  <2>1. (CHOOSE j \in 1 .. Len(head) : head[j] = head[i]) = i
    BY Zenon DEF Distinct
  <2>2. head[i] \in Blocks
    OBVIOUS
  <2> QED  BY <2>1, <2>2, Zenon DEF Recovered
<1> QED  BY <1>1, Zenon DEF Recovered

\* Recovered is a function on Blocks, so that it is fixed by its values.
LEMMA RecoveredSame ==
  ASSUME head \in Seq(Blocks), Distinct(head), head' = head,
         \A i \in 1 .. Len(head) : logblk'[i] = logblk[i],
         \A b \in Blocks : (\A i \in 1 .. Len(head) : head[i] # b) => home'[b] = home[b]
  PROVE  Recovered' = Recovered
<1>1. ASSUME NEW b \in Blocks PROVE Recovered'[b] = Recovered[b]
  <2>1. CASE \E i \in 1 .. Len(head) : head[i] = b
    <3>1. PICK i \in 1 .. Len(head) : head[i] = b
      BY <2>1, Zenon
    <3>2. (CHOOSE j \in 1 .. Len(head) : head[j] = b) = i
      BY <3>1, Zenon DEF Distinct
    <3> QED  BY <3>1, <3>2, Zenon DEF Recovered
  <2>2. CASE ~\E i \in 1 .. Len(head) : head[i] = b
    BY <2>2, Zenon DEF Recovered
  <2> QED  BY <2>1, <2>2, Zenon
<1> QED  BY <1>1, Zenon DEF Recovered

\* With an empty header, recovery changes nothing.
LEMMA RecoveredEmpty ==
  ASSUME head = <<>>, home \in [Blocks -> Values]
  PROVE  Recovered = home
BY DEF Recovered

\* The view of running processes.
LEMMA ViewRunning ==
  ASSUME \A p \in Procs : pc[p] \notin Recovering
  PROVE  View = [b \in Blocks |-> BufData(b)]
BY Zenon DEF View

\* The machine boots in an initial state of AtomicDisk.
LEMMA RefineInit == Init => Disk!Init
<1> SUFFICES ASSUME Init PROVE Disk!Init
  BY Zenon
<1>1. Recovered = [b \in Blocks |-> InitValue]
  BY DEF Init, Recovered
<1>2. View = Recovered
  BY Zenon DEF Init, View, BootPC, Recovering
<1>3. Active = {}
  BY Zenon DEF Init, Active, BootPC, InOp
<1> QED  BY <1>1, <1>2, <1>3, Zenon DEF Disk!Init

\* A crash loses what is not durable.
LEMMA RefineCrash ==
  ASSUME DataInv, ControlInv, Crash
  PROVE  Disk!Crash
<1>1. Recovered' = Recovered
  BY Zenon DEF Crash, disk, Recovered
<1>2. View' = Recovered'
  BY Zenon DEF Crash, View, BootPC, Recovering
<1>3. Active' = {}
  BY Zenon DEF Crash, Active, BootPC, InOp
<1> QED  BY <1>1, <1>2, <1>3, Zenon DEF Disk!Crash

\* A step that leaves the disk, the cache and the set of recovering processes
\* alone leaves both views alone.
LEMMA ViewSame ==
  ASSUME UNCHANGED <<disk, cache>>,
         (\E p \in Procs : pc'[p] \in Recovering) <=> (\E p \in Procs : pc[p] \in Recovering)
  PROVE  Recovered' = Recovered /\ View' = View
<1>1. Recovered' = Recovered
  BY Zenon DEF Recovered, disk
<1> QED  BY <1>1, Zenon DEF View, BufData, disk

\* Operations.
LEMMA RefineOp ==
  ASSUME ControlInv, DataInv, NEW p \in Procs, Op(p)
  PROVE  Disk!Next \/ UNCHANGED Disk!vars
<1>0. pc \in [Procs -> PC]
  BY Zenon DEF ControlInv, ControlType
<1>1. CASE BeginOp(p)
  <2>1. Recovered' = Recovered /\ View' = View
    BY <1>0, <1>1, ViewSame, Zenon DEF BeginOp, MustWait, Recovering
  <2>2. \/ Active' = Active
        \/ p \notin Active /\ Active' = Active \cup {p}
    BY <1>0, <1>1, Zenon DEF BeginOp, MustWait, Active, InOp
  <2> QED  BY <2>1, <2>2, Zenon DEF Disk!Next, Disk!Begin, Disk!vars
<1>2. ASSUME NEW b \in Blocks, NEW v \in Values, Modify(p, b, v)
      PROVE  Disk!Next
  <2>1. pc[p] = "op" /\ pc' = [pc EXCEPT ![p] = "modified"] /\ Active' = Active /\ p \in Active
    BY <1>0, <1>2, Zenon DEF Modify, Active, InOp
  <2>2. \A q \in Procs : pc[q] \notin Recovering /\ pc'[q] \notin Recovering
    BY <1>0, <2>1, Zenon DEF ControlInv, RecoverAlone, Recovering
  <2>3. Recovered' = Recovered
    BY <1>2, Zenon DEF Modify, disk, Recovered
  <2>4. v # NoData /\ cache' = [cache EXCEPT ![b] = v] /\ home' = home
        /\ cache \in [Blocks -> Values \cup {NoData}]
    BY <1>2, LogConstants, Zenon DEF Modify, disk, DataInv, DataType
  <2>5. View' = [View EXCEPT ![b] = v]
    BY <2>2, <2>4, Zenon DEF View, BufData
  <2> QED  BY <2>1, <2>3, <2>5, Zenon DEF Disk!Next, Disk!Write
<1>3. CASE LogWriteCheck(p) \/ LogWrite(p)
  <2>1. Recovered' = Recovered /\ View' = View
    BY <1>0, <1>3, ViewSame, Zenon DEF LogWriteCheck, LogWrite, Recovering
  <2>2. Active' = Active
    BY <1>0, <1>3, Zenon DEF LogWriteCheck, LogWrite, Active, InOp
  <2> QED  BY <2>1, <2>2, Zenon DEF Disk!vars
<1>4. CASE EndOp(p)
  <2>1. /\ pc[p] = "op" /\ pc'[p] \notin InOp \cup Recovering
        /\ \A q \in Procs \ {p} : pc'[q] = pc[q] \/ (pc[q] = "sleep" /\ pc'[q] = "begin_op")
    <3>1. CASE outstanding = 1
      BY <1>0, <1>4, <3>1, Zenon DEF EndOp, Ended, InOp, Recovering
    <3>2. CASE outstanding # 1
      BY <1>0, <1>4, <3>2, WakeupEffect, Zenon DEF EndOp, Ended, InOp, Recovering
    <3> QED  BY <3>1, <3>2, Zenon
  <2>2. Active' = Active \ {p} /\ p \in Active
    BY <2>1, Zenon DEF Active, InOp
  <2>3. (\E q \in Procs : pc'[q] \in Recovering) <=> (\E q \in Procs : pc[q] \in Recovering)
    BY <2>1, Zenon DEF Recovering
  <2>4. Recovered' = Recovered /\ View' = View
    BY <1>4, <2>3, ViewSame, Zenon DEF EndOp, Ended
  <2> QED  BY <2>2, <2>4, Zenon DEF Disk!Next, Disk!End
<1> QED  BY <1>1, <1>2, <1>3, <1>4, Zenon DEF Op

\* A step of commit() is invisible, but for the header write: there the view
\* of the running processes becomes durable.
LEMMA RefineCommit ==
  ASSUME ControlInv, SpaceInv, NoPanic, DataInv, NEW p \in Procs,
         CommitStep(p), pc[p] \in Committing
  PROVE  Disk!Next \/ UNCHANGED Disk!vars
<1>0. /\ pc \in [Procs -> PC] /\ lh \in Seq(Blocks) /\ head \in Seq(Blocks) /\ tail \in Nat
      /\ DataType /\ Distinct(head) /\ Distinct(lh)
  BY Zenon DEF ControlInv, ControlType, DataInv
<1>1. /\ Active = {} /\ \A q \in Procs : pc[q] \notin Recovering
      /\ \A q \in Procs \ {p} : pc[q] \notin Committing
  BY Zenon DEF ControlInv, CommitAlone, RecoverAlone, Active, Committing, Recovering, InOp
<1>2. View = [b \in Blocks |-> BufData(b)]
  BY <1>1, ViewRunning, Zenon
<1>3. CASE WriteLog(p)
  <2>1. pc[p] = "write_log" /\ head = <<>> /\ pc' = pc /\ home' = home /\ head' = head
    BY <1>1, <1>3, Zenon DEF WriteLog, DataInv, HeadInv, At, Committing, Recovering
  <2>2. ASSUME NEW b \in Blocks PROVE BufData(b)' = BufData(b)
    <3>1. CASE b = lh[tail + 1]
      <4>1. cache'[b] = BufData(b)
        BY <1>0, <1>3, <3>1, Zenon DEF WriteLog, DataType
      <4>2. home'[b] = home[b] /\ (cache[b] = NoData => BufData(b) = home[b])
        BY <2>1, Zenon DEF BufData
      <4> QED  BY <4>1, <4>2, Zenon DEF BufData
    <3>2. CASE b # lh[tail + 1]
      <4>1. cache'[b] = cache[b]
        BY <1>0, <1>3, <3>2, Zenon DEF WriteLog, DataType
      <4> QED  BY <2>1, <4>1, Zenon DEF BufData
    <3> QED  BY <3>1, <3>2, Zenon
  <2>3. Recovered' = Recovered
    <3>1. Len(head) = 0
      BY <2>1, Zenon
    <3>2. 1 .. 0 = {}
      OBVIOUS
    <3>3. \A i \in 1 .. Len(head) : logblk'[i] = logblk[i]
      BY <3>1, <3>2, Zenon
    <3> QED  BY <1>0, <2>1, <3>3, RecoveredSame, Zenon
  <2> QED  BY <1>2, <2>1, <2>2, <2>3, Zenon DEF Disk!vars, View, Active
<1>4. CASE InstallTrans(p)
  <2>1. /\ pc[p] = "install_trans" /\ head = lh /\ tail + 1 \in 1 .. Len(lh)
        /\ UNCHANGED <<pc, head, logblk, lh>> /\ lh[tail + 1] \in Blocks
        /\ tail + 1 \in DataBlocks
    BY <1>0, <1>4, LogConstants
    DEF InstallTrans, DataInv, HeadInv, At, Committing, NoPanic, DataBlocks
  <2>2. logblk[tail + 1] = BufData(lh[tail + 1]) /\ logblk[tail + 1] # NoData
    <3>1. At("install_trans")
      BY <2>1, Zenon DEF At
    <3>2. logblk[tail + 1] \in Values
      BY <1>0, <2>1, Zenon DEF DataType
    <3> QED  BY <2>1, <3>1, <3>2, LogConstants, Zenon DEF DataInv, InstalledInv
  <2>3. \A b \in Blocks : BufData(b)' = BufData(b)
    BY <1>0, <1>4, <2>1, <2>2, Zenon DEF InstallTrans, BufData, DataType
  <2>4. \A b \in Blocks : (\A i \in 1 .. Len(head) : head[i] # b) => home'[b] = home[b]
    BY <1>0, <1>4, <2>1, Zenon DEF InstallTrans, DataType
  <2>5. Recovered' = Recovered
    BY <1>0, <2>1, <2>4, RecoveredSame, Zenon
  <2> QED  BY <1>2, <2>1, <2>3, <2>5, Zenon DEF Disk!vars, View, Active
<1>5. CASE ClearHead(p)
  <2>1. /\ pc[p] = "install_trans" /\ pc' = [pc EXCEPT ![p] = "commit_done"]
        /\ tail = Len(lh) /\ head = lh /\ head' = <<>> /\ UNCHANGED <<home, cache>>
    BY <1>5, Zenon DEF ClearHead, InstallDone, DataInv, HeadInv, At
  <2>2. \A i \in 1 .. Len(head) : home[head[i]] = logblk[i]
    <3>1. \A i \in 1 .. Len(lh) : i <= tail => home[lh[i]] = logblk[i]
      BY <1>0, <2>1, Zenon DEF DataInv, InstalledInv, At
    <3>2. \A i \in 1 .. tail : i <= tail
      BY <2>1
    <3> QED  BY <2>1, <3>1, <3>2, Zenon
  <2>3. Recovered = home
    BY <1>0, <2>2, RecoveredIs DEF Recovered, DataType
  <2>4. Recovered' = home
    BY <1>0, <2>1 DEF Recovered, DataType
  <2>5. Active' = Active /\ \A q \in Procs : pc'[q] \notin Recovering
    BY <1>0, <1>1, <2>1, Zenon DEF Active, InOp, Recovering
  <2>6. View' = View
    BY <1>2, <2>1, <2>5, Zenon DEF View, BufData
  <2> QED  BY <2>3, <2>4, <2>5, <2>6, Zenon DEF Disk!vars
<1>6. CASE CommitDone(p)
  <2>1. /\ pc[p] = "commit_done" /\ pc'[p] = "idle"
        /\ \A q \in Procs \ {p} : pc'[q] = pc[q] \/ (pc[q] = "sleep" /\ pc'[q] = "begin_op")
    BY <1>0, <1>6, WakeupEffect, Zenon DEF CommitDone
  <2>2. Active' = Active
    BY <2>1, Zenon DEF Active, InOp
  <2>3. (\E q \in Procs : pc'[q] \in Recovering) <=> (\E q \in Procs : pc[q] \in Recovering)
    BY <2>1, Zenon DEF Recovering
  <2> QED  BY <1>6, <2>2, <2>3, ViewSame, Zenon DEF CommitDone, Disk!vars
<1>7. CASE WriteHead(p)
  <2>1. /\ pc[p] = "write_log" /\ pc' = [pc EXCEPT ![p] = "install_trans"]
        /\ tail = Len(lh) /\ head' = lh /\ UNCHANGED <<home, cache, logblk>>
    BY <1>7, Zenon DEF WriteHead
  <2>2. Active' = Active /\ \A q \in Procs : pc'[q] \notin Recovering
    BY <1>0, <1>1, <2>1, Zenon DEF Active, InOp, Recovering
  <2>3. View' = View
    BY <1>2, <2>1, <2>2, Zenon DEF View, BufData
  <2>4. \A i \in 1 .. Len(lh) : logblk[i] = BufData(lh[i])
    <3>1. \A i \in 1 .. Len(lh) : cache[lh[i]] # NoData
      BY <1>1, <2>1, Zenon DEF DataInv, UninstalledDirty, DirtyLogged, At, Committing, Recovering
    <3>2. At("write_log")
      BY <2>1, Zenon DEF At
    <3>3. ASSUME NEW i \in 1 .. Len(lh) PROVE logblk[i] = cache[lh[i]]
      BY <1>0, <2>1, <3>2 DEF DataInv, CopiedInv
    <3> QED  BY <3>1, <3>3, Zenon DEF BufData
  <2>5. \A b \in Blocks : (\A i \in 1 .. Len(lh) : lh[i] # b) => home[b] = BufData(b)
    <3>1. \A q \in Procs : hold[q] \notin Blocks
      BY <2>1, Phases, Zenon DEF At
    <3> QED  BY <3>1, Zenon DEF DataInv, CleanIsHome, DirtyLogged, Logged, BufData
  <2>6. ASSUME NEW b \in Blocks PROVE Recovered'[b] = BufData(b)
    <3>1. CASE \E i \in 1 .. Len(lh) : lh[i] = b
      <4>1. PICK i \in 1 .. Len(lh) : lh[i] = b
        BY <3>1, Zenon
      <4>2. (CHOOSE j \in 1 .. Len(lh) : lh[j] = b) = i
        BY <1>0, <4>1, Zenon DEF Distinct
      <4> QED  BY <2>1, <2>4, <4>1, <4>2, Zenon DEF Recovered
    <3>2. CASE ~\E i \in 1 .. Len(lh) : lh[i] = b
      BY <2>1, <2>5, <3>2, Zenon DEF Recovered
    <3> QED  BY <3>1, <3>2, Zenon
  <2>7. Recovered' = View
    BY <1>2, <2>6, Zenon DEF Recovered
  <2> QED  BY <1>1, <2>2, <2>3, <2>7, Zenon DEF Disk!Next, Disk!Commit
<1> QED  BY <1>3, <1>4, <1>5, <1>6, <1>7, Zenon DEF CommitStep

\* Recovery is invisible.
LEMMA RefineRecover ==
  ASSUME ControlInv, DataInv, NEW p \in Procs, pc[p] \in Recovering,
         RecoverStep(p) \/ InstallTrans(p)
  PROVE  UNCHANGED Disk!vars
<1>0. /\ pc \in [Procs -> PC] /\ lh \in Seq(Blocks) /\ head \in Seq(Blocks) /\ tail \in Nat
      /\ DataType /\ Distinct(head)
  BY Zenon DEF ControlInv, ControlType, DataInv
<1>1. /\ View = Recovered
      /\ \A q \in Procs \ {p} : pc[q] = "off"
  BY Zenon DEF View, ControlInv, RecoverAlone
<1>2. CASE ReadHead(p)
  <2>1. pc' = [pc EXCEPT ![p] = "recover"] /\ Recovered' = Recovered
    BY <1>2, Zenon DEF ReadHead, disk, Recovered
  <2>2. View' = Recovered' /\ Active' = Active
    BY <1>0, <1>1, <2>1, Zenon DEF View, Active, InOp, Recovering
  <2> QED  BY <1>1, <2>1, <2>2, Zenon DEF Disk!vars
<1>3. CASE InstallTrans(p)
  <2>1. /\ head = lh /\ tail + 1 \in 1 .. Len(lh) /\ UNCHANGED <<pc, head, logblk>>
        /\ lh[tail + 1] \in Blocks
    BY <1>0, <1>3 DEF InstallTrans, DataInv, HeadInv, At, Recovering
  <2>2. \A b \in Blocks : (\A i \in 1 .. Len(head) : head[i] # b) => home'[b] = home[b]
    BY <1>0, <1>3, <2>1, Zenon DEF InstallTrans, DataType
  <2>3. Recovered' = Recovered
    BY <1>0, <2>1, <2>2, RecoveredSame, Zenon
  <2> QED  BY <1>1, <2>1, <2>3, Zenon DEF Disk!vars, View, Active
<1>4. CASE RecoverDone(p)
  <2>1. /\ pc[p] = "recover" /\ pc' = [q \in Procs |-> "idle"] /\ tail = Len(lh) /\ head = lh
        /\ head' = <<>> /\ UNCHANGED <<home, cache, hold>>
    BY <1>4, Zenon DEF RecoverDone, InstallDone, DataInv, HeadInv, At
  <2>2. \A i \in 1 .. Len(head) : home[head[i]] = logblk[i]
    <3>1. At("recover")
      BY <2>1, Zenon DEF At
    <3>2. \A i \in 1 .. Len(lh) : i <= tail => home[lh[i]] = logblk[i]
      BY <3>1, Zenon DEF DataInv, InstalledInv
    <3> QED  BY <1>0, <2>1, <3>2
  <2>3. Recovered = home
    BY <1>0, <2>2, RecoveredIs DEF Recovered, DataType
  <2>4. Recovered' = home
    BY <1>0, <2>1 DEF Recovered, DataType
  <2>5. \A b \in Blocks : BufData(b) = home[b]
    <3>1. dirty = {} /\ \A q \in Procs : hold[q] \notin Blocks
      BY <2>1, Phases, Zenon DEF DataInv, InstalledInv, At
    <3> QED  BY <3>1, Zenon DEF DataInv, CleanIsHome, BufData
  <2>6. View' = home
    BY <1>0, <2>1, <2>5, Zenon DEF View, BufData, Recovering, DataType
  <2>7. Active' = Active
    BY <1>1, <2>1, Zenon DEF Active, InOp
  <2> QED  BY <1>1, <2>3, <2>4, <2>6, <2>7, Zenon DEF Disk!vars
<1> QED  BY <1>2, <1>3, <1>4, Zenon DEF RecoverStep

\* Recycling and filling buffers is invisible.
LEMMA RefineCache ==
  ASSUME ControlInv, DataInv, NEW b \in Blocks, Recycle(b) \/ Bread(b)
  PROVE  UNCHANGED Disk!vars
<1>1. UNCHANGED <<home, logblk, head, pc>>
  BY Zenon DEF Recycle, Bread, disk
<1>2. \A c \in Blocks : BufData(c)' = BufData(c)
  BY DataCache, Zenon
<1>3. Recovered' = Recovered /\ Active' = Active
  BY <1>1, Zenon DEF Recovered, Active
<1> QED  BY <1>1, <1>2, <1>3, Zenon DEF Disk!vars, View

\* The invariant of the three layers.
LogInv == ControlInv /\ SpaceInv /\ DataInv

\* Every step keeps the three layers of the invariant together.
LEMMA LogInvStep ==
  ASSUME Slack, LogInv, [Next]_vars
  PROVE  LogInv'
<1>1. ControlInv'
  BY ControlStep, Zenon DEF LogInv
<1>2. SpaceInv'
  BY <1>1, SpaceStep, Zenon DEF LogInv
<1>3. DataInv'
  BY <1>1, DataStep, SpaceImpliesNoPanic, Zenon DEF LogInv
<1> QED  BY <1>1, <1>2, <1>3, Zenon DEF LogInv

\* Every step of log.c is a step of AtomicDisk or leaves it alone.
LEMMA RefineStep ==
  ASSUME Slack, LogInv, [Next]_vars
  PROVE  [Disk!Next]_Disk!vars
<1>1. NoPanic
  BY SpaceImpliesNoPanic, Zenon DEF LogInv
<1>2. ASSUME NEW p \in Procs, Op(p) PROVE [Disk!Next]_Disk!vars
  BY <1>2, RefineOp, Zenon DEF LogInv
<1>3. ASSUME NEW p \in Procs, CommitStep(p) \/ RecoverStep(p)
      PROVE  [Disk!Next]_Disk!vars
  <2>1. CASE pc[p] \in Committing
    <3>1. ~RecoverStep(p)
      BY <2>1, Zenon DEF RecoverStep, ReadHead, RecoverDone, Committing
    <3> QED  BY <1>1, <1>3, <2>1, <3>1, RefineCommit, Zenon DEF LogInv
  <2>2. CASE pc[p] \notin Committing
    <3>1. pc[p] \in Recovering /\ (RecoverStep(p) \/ InstallTrans(p))
      BY <1>3, <2>2, Zenon DEF CommitStep, RecoverStep, WriteLog, WriteHead, InstallTrans,
           ClearHead, CommitDone, ReadHead, RecoverDone, Committing, Recovering
    <3> QED  BY <3>1, RefineRecover, Zenon DEF LogInv
  <2> QED  BY <2>1, <2>2, Zenon
<1>4. ASSUME NEW b \in Blocks, Recycle(b) \/ Bread(b) PROVE [Disk!Next]_Disk!vars
  BY <1>4, RefineCache, Zenon DEF LogInv
<1>5. CASE Crash
  BY <1>5, RefineCrash, Zenon DEF LogInv, Disk!Next
<1>6. CASE UNCHANGED vars
  <2>1. UNCHANGED <<disk, cache, pc>>
    BY <1>6, Zenon DEF vars, disk
  <2>2. Active' = Active
    BY <2>1, Zenon DEF Active
  <2> QED  BY <2>1, <2>2, ViewSame, Zenon DEF Disk!vars
<1> QED  BY <1>2, <1>3, <1>4, <1>5, <1>6, Zenon DEF Next

\* The types of all variables.
THEOREM TypeSafe ==
  ASSUME Slack
  PROVE  Spec => []TypeOK
<1>1. Init => LogInv
  BY ControlInit, SpaceInit, DataInit, Zenon DEF LogInv
<1>2. LogInv => TypeOK
  BY Zenon DEF LogInv, ControlInv, ControlType, SpaceInv, DataInv, DataType, TypeOK
<1> QED  BY <1>1, <1>2, LogInvStep, PTL DEF Spec

\* Crash atomicity for any number of processes, blocks and values: log.c
\* implements AtomicDisk if operations leave a block of their reservation
\* unused.
THEOREM Refinement ==
  ASSUME Slack
  PROVE  Spec => Atomicity
<1>1. Init => LogInv
  BY ControlInit, SpaceInit, DataInit, Zenon DEF LogInv
<1> QED
  BY <1>1, RefineInit, LogInvStep, RefineStep, PTL DEF Spec, Atomicity, Disk!Spec
=============================================================================
