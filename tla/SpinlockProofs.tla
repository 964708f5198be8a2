--------------------------- MODULE SpinlockProofs ---------------------------
(***************************************************************************)
(* The inductive invariant of Spinlock, for any number of CPUs, threads    *)
(* and nested interrupts, the proof that every action preserves it, and    *)
(* what it shows about spin locks.                                         *)
(*                                                                         *)
(* LockInv says, for the frame that a CPU runs,                            *)
(* what its place in acquire(), release() and sched() tells about the      *)
(* CPU's ncli, the locks and intena; what lies under it has been           *)
(* interrupted and holds nothing, and contexts that do not run are at      *)
(* swtch() with ptable.lock left to the one that they switched to.         *)
(***************************************************************************)
EXTENDS Spinlock, FiniteSetTheorems, TLAPS

RunPC == {"loop", "run", "spin", "mark", "in", "unlock", "pop"}
Frames == [pc : RunPC \cup {"switched", "away"}, l : Locks, held : SUBSET Locks, fork : BOOLEAN]

SlTypeOK ==
  /\ slock \in [Locks -> [locked : BOOLEAN, cpu : SCPUs \cup {NoCpu}]]
  /\ scpu \in [SCPUs -> [ifl : BOOLEAN, ncli : Nat, intena : BOOLEAN, on : Contexts]]
  /\ frames \in [Contexts -> Seq(Frames)]
  /\ \A x \in Contexts : Len(frames[x]) >= 1
  /\ intenaOf \in [Threads -> SUBSET BOOLEAN]
  /\ spanic \in BOOLEAN

\* How many locks are in h, and the ncli of a CPU that runs frame f.
Depth(h) == (IF "lk" \in h THEN 1 ELSE 0) + (IF "ptable" \in h THEN 1 ELSE 0)
Ncli(f) == Depth(f.held) + (IF f.pc \in {"spin", "pop"} THEN 1 ELSE 0)

\* What the place of the running frame f says about itself and its CPU's u.
PlaceOK(f, u) ==
  /\ f.pc \in RunPC
  /\ u.ncli = Ncli(f)
  /\ f.pc \in {"loop", "run"} => f.held = {}
  /\ f.pc \notin {"loop", "run"} => ~u.ifl
  /\ f.pc \in {"mark", "in", "unlock"} => f.held # {}
  /\ f.pc \in {"mark", "unlock"} => f.l \in f.held
  /\ f.pc = "spin" => f.l \notin f.held

\* The locks of frame f, run by CPU c, with the two moments in which cpu lags.
LocksOK(f, c) ==
  /\ \A l \in f.held : /\ slock[l].locked
                       /\ slock[l].cpu = c \/ (f.pc \in {"mark", "unlock"} /\ f.l = l)
  /\ f.pc = "unlock" => slock[f.l].cpu = NoCpu

\* The scheduler itself takes ptable.lock only.
SchedulerOK(f) == f.held \subseteq {"ptable"} /\ (f.pc = "spin" => f.l = "ptable")

\* What intena and ifl are, n frames deep; the scheduler's own intena is stale.
InterruptsOK(f, u, n, c) ==
  /\ f.pc = "loop" => u.on = c /\ n = 1
  /\ f.pc = "run" /\ ~f.fork => (u.ifl <=> n = 1)
  /\ f.pc \notin {"loop", "run"} /\ ~f.fork /\ (u.on # c \/ n > 1) => (u.intena <=> n = 1)

Running(t) == \E c \in SCPUs : scpu[c].on = t
CpuOK(c) ==
  LET f == Top(c)
      n == Len(frames[scpu[c].on])
  IN  /\ PlaceOK(f, scpu[c])
      /\ LocksOK(f, c)
      /\ scpu[c].on = c /\ n = 1 => SchedulerOK(f)
      /\ InterruptsOK(f, scpu[c], n, c)

\* Who runs where, and how the others left.
Switched(f) == f.pc = "switched" /\ f.held = {"ptable"}
OnlyAway(fs) == Len(fs) = 1 /\ fs[1].pc = "away" /\ fs[1].held = {"ptable"}
PlacesOK ==
  /\ \A c \in SCPUs : scpu[c].on \in Threads \cup {c}
  /\ \A c, d \in SCPUs : scpu[c].on = scpu[d].on => c = d
  /\ \A t \in Threads : ~Running(t) => Switched(frames[t][1])
  /\ \A c \in SCPUs : scpu[c].on # c => OnlyAway(frames[c])
Saved(n) == {n = 1}
SavedOK ==
  \A t \in Threads : frames[t][1].pc = "switched" /\ ~frames[t][1].fork =>
    intenaOf[t] = Saved(Len(frames[t]))

\* An interrupted frame holds nothing; only a new thread's is interrupted twice.
Interrupted(x, s) ==
  \A i \in 2 .. Len(s) : /\ s[i].held = {} /\ s[i].pc \in {"loop", "run"}
                         /\ s[i].fork \/ i = Len(s)
                         /\ s[i].pc = "loop" => x \in SCPUs /\ i = Len(s)
BelowOK(x) == Interrupted(x, frames[x])

OwnersOK == \A l \in Locks, c \in SCPUs : slock[l].cpu = c => l \in Top(c).held
Apart == \A c, d \in SCPUs, l \in Locks : l \in Top(c).held /\ l \in Top(d).held => c = d

LockInv ==
  /\ SlTypeOK
  /\ \A c \in SCPUs : CpuOK(c)
  /\ PlacesOK
  /\ SavedOK
  /\ \A x \in Contexts : BelowOK(x)
  /\ OwnersOK
  /\ Apart
  /\ ~spanic
-----------------------------------------------------------------------------
(* The frames of a context.                                                *)

\* The top frame of a nonempty sequence is replaced, as SetTop does.
LEMMA NewTop ==
  ASSUME NEW F, NEW s \in Seq(F), Len(s) >= 1, NEW f \in F
  PROVE  LET r == [s EXCEPT ![1] = f]
         IN  /\ r \in Seq(F) /\ Len(r) = Len(s) /\ r[1] = f
             /\ \A i \in 2 .. Len(s) : r[i] = s[i]
  OBVIOUS

\* An interrupt puts a frame on top.
LEMMA OneMore ==
  ASSUME NEW F, NEW s \in Seq(F), NEW f \in F
  PROVE  LET r == <<f>> \o s
         IN  /\ r \in Seq(F) /\ Len(r) = Len(s) + 1 /\ r[1] = f
             /\ \A i \in 2 .. Len(r) : r[i] = s[i - 1]
  OBVIOUS

\* iret drops it.
LEMMA OneLess ==
  ASSUME NEW F, NEW s \in Seq(F), Len(s) >= 2
  PROVE  LET r == Tail(s)
         IN  /\ r \in Seq(F) /\ Len(r) = Len(s) - 1
             /\ \A i \in 1 .. Len(r) : r[i] = s[i + 1]
  OBVIOUS
-----------------------------------------------------------------------------
Cpus == [ifl : BOOLEAN, ncli : Nat, intena : BOOLEAN, on : Contexts]

\* The invariant holds when the kernel starts.
LEMMA InitInv == SlInit => LockInv
<1> SUFFICES ASSUME SlInit PROVE LockInv
  OBVIOUS
<1>1. /\ \A x \in SCPUs : frames[x] = <<Frame("loop")>>
      /\ \A t \in Threads : frames[t] = <<Forkret, Frame("run")>>
  BY ContextsApart DEF SlInit, Contexts
<1>2. /\ Frame("loop") \in Frames /\ Frame("run") \in Frames /\ Forkret \in Frames
      /\ Frame("loop").pc = "loop" /\ Frame("loop").held = {}
      /\ Frame("run").pc = "run" /\ Frame("run").held = {}
      /\ Forkret.pc = "switched" /\ Forkret.held = {"ptable"} /\ Forkret.fork
  BY Zenon DEF Frame, Forkret, Frames, RunPC, Locks
<1>3. /\ \A x \in SCPUs : frames[x] \in Seq(Frames) /\ Len(frames[x]) = 1 /\ frames[x][1] = Frame("loop")
      /\ \A t \in Threads : /\ frames[t] \in Seq(Frames) /\ Len(frames[t]) = 2
                            /\ frames[t][1] = Forkret /\ frames[t][2] = Frame("run")
  <2>1. ASSUME NEW f \in Frames
        PROVE  <<f>> \in Seq(Frames) /\ Len(<<f>>) = 1 /\ <<f>>[1] = f
    OBVIOUS
  <2>2. ASSUME NEW f \in Frames, NEW g \in Frames
        PROVE  <<f, g>> \in Seq(Frames) /\ Len(<<f, g>>) = 2 /\ <<f, g>>[1] = f /\ <<f, g>>[2] = g
    OBVIOUS
  <2>3. ASSUME NEW x \in SCPUs
        PROVE  frames[x] \in Seq(Frames) /\ Len(frames[x]) = 1 /\ frames[x][1] = Frame("loop")
    <3>1. frames[x] = <<Frame("loop")>>
      BY <1>1
    <3> QED
      BY <3>1, <2>1, <1>2, Zenon
  <2>4. ASSUME NEW t \in Threads
        PROVE  /\ frames[t] \in Seq(Frames) /\ Len(frames[t]) = 2
               /\ frames[t][1] = Forkret /\ frames[t][2] = Frame("run")
    <3>1. frames[t] = <<Forkret, Frame("run")>>
      BY <1>1
    <3> DEFINE p == <<Forkret, Frame("run")>>
    <3>2. p \in Seq(Frames) /\ Len(p) = 2 /\ p[1] = Forkret /\ p[2] = Frame("run")
      BY <2>2, <1>2, Zenon
    <3> HIDE DEF p
    <3> QED
      BY <3>1, <3>2 DEF p
  <2> QED
    BY <2>3, <2>4, Zenon
<1>4. \A c \in SCPUs : /\ scpu[c].ncli = 0 /\ scpu[c].on = c /\ ~scpu[c].ifl
                       /\ Top(c) = Frame("loop") /\ Len(frames[scpu[c].on]) = 1
  BY <1>3 DEF Top, SlInit
<1>5. SlTypeOK
  <2>1. /\ frames \in [Contexts -> Seq(Frames)]
        /\ \A x \in Contexts : Len(frames[x]) >= 1
    BY <1>3 DEF Contexts, SlInit
  <2>2. scpu \in [SCPUs -> Cpus] /\ intenaOf \in [Threads -> SUBSET BOOLEAN] /\ spanic \in BOOLEAN
    BY Zenon DEF SlInit, Cpus, Contexts
  <2>3. slock \in [Locks -> [locked : BOOLEAN, cpu : SCPUs \cup {NoCpu}]]
    BY Zenon DEF SlInit
  <2> QED
    BY <2>1, <2>2, <2>3, Zenon DEF SlTypeOK, Cpus
<1>6. \A c \in SCPUs : CpuOK(c)
  BY <1>2, <1>4 DEF CpuOK, PlaceOK, RunPC, Ncli, Depth, LocksOK, SchedulerOK, InterruptsOK
<1>7. PlacesOK
  BY <1>2, <1>3, <1>4 DEF PlacesOK, Switched
<1>8. SavedOK
  BY <1>2, <1>3, Zenon DEF SavedOK
<1>9. \A x \in Contexts : BelowOK(x)
  <2>1. ASSUME NEW x \in SCPUs PROVE BelowOK(x)
    <3>1. Len(frames[x]) = 1
      BY <1>3, Zenon
    <3> QED
      BY <3>1 DEF BelowOK, Interrupted
  <2>2. ASSUME NEW t \in Threads PROVE BelowOK(t)
    <3>1. Len(frames[t]) = 2 /\ frames[t][2] = Frame("run")
      BY <1>3, Zenon
    <3> QED
      BY <1>2, <3>1 DEF BelowOK, Interrupted
  <2> QED
    BY <2>1, <2>2, Zenon DEF Contexts
<1>10. OwnersOK /\ Apart
  <2>1. \A l \in Locks : slock[l].cpu \notin SCPUs
    BY ContextsApart, Zenon DEF SlInit
  <2> QED
    BY <1>2, <1>4, <2>1, Zenon DEF OwnersOK, Apart
<1> QED
  BY <1>5, <1>6, <1>7, <1>8, <1>9, <1>10, Zenon DEF LockInv, SlInit

\* CPU c changes the frame that it runs to f and its own state to u, and locks
\* that no other CPU holds: what has to be shown of f and u alone.
LEMMA TopStep ==
  ASSUME LockInv,
         NEW c \in SCPUs, NEW f \in Frames, NEW u \in Cpus,
         u.on = scpu[c].on,
         SetTop(c, f), scpu' = [scpu EXCEPT ![c] = u], intenaOf' = intenaOf, spanic' = FALSE,
         slock' \in [Locks -> [locked : BOOLEAN, cpu : SCPUs \cup {NoCpu}]],
         PlaceOK(f, u),
         LocksOK(f, c)',
         u.on = c /\ Len(frames[u.on]) = 1 => SchedulerOK(f),
         InterruptsOK(f, u, Len(frames[u.on]), c),
         \A d \in SCPUs \ {c} : \A l \in Top(d).held : slock'[l] = slock[l] /\ l \notin f.held,
         \A l \in Locks : slock'[l].cpu = c => l \in f.held,
         \A l \in Locks : slock'[l].cpu \in {c, NoCpu, slock[l].cpu}
  PROVE  LockInv'
<1> DEFINE x == scpu[c].on
<1>0. x \in Contexts /\ ContextsApart!1
  BY ContextsApart, Zenon DEF LockInv, SlTypeOK
<1>1. /\ frames' \in [Contexts -> Seq(Frames)]
      /\ \A y \in Contexts : Len(frames'[y]) = Len(frames[y])
      /\ \A y \in Contexts \ {x} : frames'[y] = frames[y]
      /\ frames'[x][1] = f
      /\ \A y \in Contexts : \A i \in 2 .. Len(frames[y]) : frames'[y][i] = frames[y][i]
  <2>1. frames[x] \in Seq(Frames) /\ Len(frames[x]) >= 1 /\ frames \in [Contexts -> Seq(Frames)]
    BY <1>0, Zenon DEF LockInv, SlTypeOK
  <2>2. frames' = [frames EXCEPT ![x] = [frames[x] EXCEPT ![1] = f]]
    BY Zenon DEF SetTop
  <2> HIDE DEF x
  <2> QED
    BY <2>1, <2>2, <1>0, NewTop
<1>2. \A d \in SCPUs : scpu'[d].on = scpu[d].on
  BY Zenon DEF LockInv, SlTypeOK
<1>3. \A d \in SCPUs \ {c} : Top(d)' = Top(d) /\ scpu'[d] = scpu[d] /\ scpu[d].on # x
  BY <1>1, <1>2 DEF LockInv, SlTypeOK, PlacesOK, Top
<1>4. Top(c)' = f /\ scpu'[c] = u
  BY <1>1, <1>2 DEF LockInv, SlTypeOK, Top
<1>5. SlTypeOK'
  <2>1. scpu' \in [SCPUs -> Cpus] /\ intenaOf' \in [Threads -> SUBSET BOOLEAN]
    BY Zenon DEF LockInv, SlTypeOK, Cpus
  <2> QED
    BY <1>1, <2>1, Zenon DEF LockInv, SlTypeOK, Cpus
<1>6. \A d \in SCPUs : CpuOK(d)'
  <2>1. CpuOK(c)'
    BY <1>0, <1>1, <1>2, <1>4 DEF CpuOK, LocksOK
  <2>2. ASSUME NEW d \in SCPUs \ {c} PROVE CpuOK(d)'
    <3>1. CpuOK(d) /\ scpu[d].on \in Contexts
      BY Zenon DEF LockInv, SlTypeOK
    <3>2. Len(frames'[scpu[d].on]) = Len(frames[scpu[d].on])
      BY <3>1, <1>1, Zenon
    <3>3. LocksOK(Top(d), d)'
      BY <3>1, <1>3 DEF LocksOK, CpuOK, PlaceOK
    <3> QED
      BY <3>1, <3>2, <3>3, <1>3, Zenon DEF CpuOK
  <2> QED
    BY <2>1, <2>2, Zenon
<1>7. PlacesOK'
  <2>1. \A t \in Threads : Running(t)' = Running(t)
    BY <1>2, Zenon DEF Running
  <2>2. ASSUME NEW t \in Threads, ~Running(t)' PROVE Switched(frames[t][1])'
    BY SMTT(30), <2>1, <2>2, <1>1 DEF LockInv, PlacesOK, Running, Contexts
  <2>3. ASSUME NEW d \in SCPUs, (scpu[d].on # d)' PROVE OnlyAway(frames[d])'
    BY <2>3, <1>0, <1>1, <1>2 DEF LockInv, PlacesOK, Contexts
  <2> QED
    BY <2>2, <2>3, <1>2 DEF LockInv, PlacesOK
<1>8. SavedOK'
  BY <1>0, <1>1, Zenon DEF LockInv, SavedOK, Contexts, PlaceOK, RunPC
<1>9. \A y \in Contexts : BelowOK(y)'
  BY <1>1 DEF LockInv, BelowOK, Interrupted
<1>10. OwnersOK'
  BY <1>3, <1>4, ContextsApart DEF LockInv, OwnersOK
<1>11. Apart'
  BY <1>3, <1>4 DEF LockInv, Apart
<1> QED
  BY <1>5, <1>6, <1>7, <1>8, <1>9, <1>10, <1>11, Zenon DEF LockInv

\* The types of what CPU c runs, and the invariant at c.
LEMMA AtCpu ==
  ASSUME LockInv, NEW c \in SCPUs
  PROVE  /\ Top(c) \in Frames /\ scpu[c] \in Cpus /\ CpuOK(c)
         /\ Len(frames[scpu[c].on]) \in Nat /\ Len(frames[scpu[c].on]) >= 1
         /\ scpu[c].on \in Threads \cup {c}
         /\ slock \in [Locks -> [locked : BOOLEAN, cpu : SCPUs \cup {NoCpu}]]
<1>1. scpu[c] \in Cpus /\ scpu[c].on \in Contexts /\ scpu[c].on \in Threads \cup {c}
  BY DEF LockInv, SlTypeOK, Cpus, PlacesOK
<1>2. frames[scpu[c].on] \in Seq(Frames) /\ Len(frames[scpu[c].on]) >= 1
  BY <1>1, Zenon DEF LockInv, SlTypeOK
<1> QED
  BY <1>1, <1>2 DEF LockInv, SlTypeOK, Top

\* The ncli of each set of locks.
LEMMA Depths ==
  /\ Depth({}) = 0 /\ Depth({"lk"}) = 1 /\ Depth({"ptable"}) = 1
  /\ \A h \in SUBSET Locks : Depth(h) \in Nat /\ (h # {} => Depth(h) >= 1)
  /\ \A h \in SUBSET Locks, l \in Locks : /\ l \notin h => Depth(h \cup {l}) = Depth(h) + 1
                                          /\ l \in h => Depth(h \ {l}) = Depth(h) - 1
<1>1. Depth({}) = 0 /\ Depth({"lk"}) = 1 /\ Depth({"ptable"}) = 1
  BY DEF Depth
<1>2. ASSUME NEW h \in SUBSET Locks PROVE Depth(h) \in Nat
  BY DEF Depth
<1>3. ASSUME NEW h \in SUBSET Locks, h # {} PROVE Depth(h) >= 1
  <2>1. "lk" \in h \/ "ptable" \in h
    BY <1>3, Zenon DEF Locks
  <2> QED
    BY <2>1 DEF Depth
<1>4. ASSUME NEW h \in SUBSET Locks, NEW l \in Locks, l \notin h PROVE Depth(h \cup {l}) = Depth(h) + 1
  BY <1>4 DEF Depth, Locks
<1>5. ASSUME NEW h \in SUBSET Locks, NEW l \in Locks, l \in h PROVE Depth(h \ {l}) = Depth(h) - 1
  BY <1>5 DEF Depth, Locks
<1> QED
  BY <1>1, <1>2, <1>3, <1>4, <1>5, Zenon

\* What pushcli() leaves.
LEMMA Pushes ==
  ASSUME NEW v \in Cpus
  PROVE  /\ Pushed(v) \in Cpus /\ Pushed(v).on = v.on
         /\ Pushed(v).ifl = FALSE /\ Pushed(v).ncli = v.ncli + 1
         /\ v.ncli = 0 => Pushed(v).intena = v.ifl
         /\ v.ncli # 0 => Pushed(v).intena = v.intena
<1>1. (IF v.ncli = 0 THEN v.ifl ELSE v.intena) \in BOOLEAN /\ v.ncli + 1 \in Nat
  BY DEF Cpus
<1>2. Pushed(v) \in Cpus
  BY <1>1, Zenon DEF Pushed, Cpus
<1>3. Pushed(v).on = v.on /\ Pushed(v).ncli = v.ncli + 1
  BY DEF Pushed, Cpus
<1>4. Pushed(v).ifl = FALSE
  BY DEF Pushed, Cpus
<1>5. ASSUME v.ncli = 0 PROVE Pushed(v).intena = v.ifl
  BY <1>5 DEF Pushed, Cpus
<1>6. ASSUME v.ncli # 0 PROVE Pushed(v).intena = v.intena
  BY <1>6 DEF Pushed, Cpus
<1> QED
  BY <1>2, <1>3, <1>4, <1>5, <1>6, Zenon

\* acquire() up to the spin: interrupts go off, and the first pushcli() saves them.
LEMMA AcquireStep ==
  ASSUME LockInv, NEW c \in SCPUs, NEW l \in Locks, Acquire(c, l)
  PROVE  LockInv'
<1> SUFFICES ASSUME NEW g, g = Top(c), NEW v, v = scpu[c], NEW n, n = Len(frames[scpu[c].on]),
                    NEW f, f = [g EXCEPT !.pc = "spin", !.l = l], NEW u, u = Pushed(v)
             PROVE  LockInv'
  BY Zenon
<1>1. /\ g \in Frames /\ v \in Cpus /\ n \in Nat /\ n >= 1
      /\ PlaceOK(g, v) /\ LocksOK(g, c) /\ InterruptsOK(g, v, n, c)
      /\ v.on = c /\ n = 1 => SchedulerOK(g)
  BY AtCpu DEF CpuOK
<1>2. /\ f \in Frames /\ f.pc = "spin" /\ f.l = l /\ f.held = g.held /\ f.fork = g.fork
  BY <1>1, Zenon DEF Frames, RunPC
<1>3. /\ u \in Cpus /\ u.on = v.on /\ u.ifl = FALSE /\ u.ncli = v.ncli + 1
      /\ v.ncli = 0 => u.intena = v.ifl
      /\ v.ncli # 0 => u.intena = v.intena
  BY <1>1, Pushes, Zenon
<1>4. \/ g.pc = "run" /\ g.held = {} /\ v.ncli = 0 /\ (v.on = c /\ n = 1 => l = "ptable")
      \/ g.pc = "in" /\ g.held = {"lk"} /\ v.ncli = 1 /\ l = "ptable"
  <2>1. v.ncli = Depth(g.held) + (IF g.pc \in {"spin", "pop"} THEN 1 ELSE 0)
    BY <1>1 DEF PlaceOK, Ncli
  <2>2. CASE g.pc = "run" /\ (v.on \in SCPUs /\ ~InIrq(c) => l = "ptable")
    <3>1. g.held = {}
      BY <1>1, <2>2, Zenon DEF PlaceOK
    <3>2. v.ncli = 0
      BY <2>1, <2>2, <3>1, Depths
    <3>3. n = 1 => ~InIrq(c)
      BY DEF InIrq
    <3> QED
      BY <2>2, <3>1, <3>2, <3>3, Zenon
  <2>3. CASE g.pc = "in" /\ g.held = {"lk"} /\ l = "ptable"
    BY <2>1, <2>3, Depths
  <2> QED
    BY <2>2, <2>3, Zenon DEF Acquire, MayAcquire
<1>5. spanic' = FALSE
  BY <1>4, Zenon DEF Acquire, PanicIf, Holding, LockInv, OwnersOK
<1>6. PlaceOK(f, u)
  <2>1. u.ncli = Ncli(f)
    BY <1>2, <1>3, <1>4, Depths, ZenonT(30) DEF Ncli
  <2> QED
    BY <1>2, <1>3, <1>4, <2>1, Zenon DEF PlaceOK, RunPC
<1>7. InterruptsOK(f, u, n, c)
  BY <1>1, <1>2, <1>3, <1>4 DEF InterruptsOK
<1>8. v.on = c /\ n = 1 => SchedulerOK(f)
  BY <1>1, <1>2, <1>4 DEF SchedulerOK
<1>9. slock' = slock /\ intenaOf' = intenaOf /\ SetTop(c, f) /\ scpu' = [scpu EXCEPT ![c] = u]
  BY DEF Acquire
<1>10. LocksOK(f, c)'
  BY <1>1, <1>2, <1>4, <1>9, Zenon DEF LocksOK
<1>11. \A d \in SCPUs \ {c} : \A k \in Top(d).held : slock'[k] = slock[k] /\ k \notin f.held
  BY <1>2, <1>9, AtCpu, Zenon DEF LockInv, Apart, Frames
<1>12. \A k \in Locks : slock'[k].cpu = c => k \in f.held
  BY <1>2, <1>9, Zenon DEF LockInv, OwnersOK
<1>13. slock' \in [Locks -> [locked : BOOLEAN, cpu : SCPUs \cup {NoCpu}]]
  BY <1>9, AtCpu
<1>14. \A k \in Locks : slock'[k].cpu \in {c, NoCpu, slock[k].cpu}
  BY <1>9, Zenon
<1>15. /\ u.on = scpu[c].on
       /\ InterruptsOK(f, u, Len(frames[u.on]), c)
       /\ u.on = c /\ Len(frames[u.on]) = 1 => SchedulerOK(f)
  BY <1>3, <1>7, <1>8, Zenon
<1> QED
  BY <1>2, <1>3, <1>5, <1>6, <1>9, <1>10, <1>11, <1>12, <1>13, <1>14, <1>15, TopStep, Zenon

\* lk->locked stays a flag.
LEMMA LockedType ==
  ASSUME NEW s \in [Locks -> [locked : BOOLEAN, cpu : SCPUs \cup {NoCpu}]],
         NEW l \in Locks, NEW b \in BOOLEAN
  PROVE  [s EXCEPT ![l].locked = b] \in [Locks -> [locked : BOOLEAN, cpu : SCPUs \cup {NoCpu}]]
  OBVIOUS

\* The xchg takes a lock that no CPU holds.
LEMMA SpinStep ==
  ASSUME LockInv, NEW c \in SCPUs, Spin(c)
  PROVE  LockInv'
<1> SUFFICES ASSUME NEW g, g = Top(c), NEW v, v = scpu[c], NEW n, n = Len(frames[scpu[c].on]),
                    NEW f, f = [g EXCEPT !.pc = "mark", !.held = @ \cup {g.l}]
             PROVE  LockInv'
  BY Zenon
<1>1. /\ g \in Frames /\ v \in Cpus /\ n \in Nat /\ n >= 1
      /\ PlaceOK(g, v) /\ LocksOK(g, c) /\ InterruptsOK(g, v, n, c)
      /\ v.on = c /\ n = 1 => SchedulerOK(g)
  BY AtCpu DEF CpuOK
<1>2. /\ f \in Frames /\ f.pc = "mark" /\ f.l = g.l /\ f.held = g.held \cup {g.l} /\ f.fork = g.fork
  BY <1>1, Zenon DEF Frames, RunPC, Locks
<1>3. /\ SetTop(c, f) /\ intenaOf' = intenaOf /\ spanic' = FALSE
      /\ scpu' = [scpu EXCEPT ![c] = v] /\ v.on = scpu[c].on
  BY <1>1, Zenon DEF Spin, At, LockInv, SlTypeOK
<1>4. g.pc = "spin" /\ g.l \in Locks /\ g.held \in SUBSET Locks /\ g.l \notin g.held
  BY <1>1, Zenon DEF Spin, At, PlaceOK, Frames
<1>5. /\ slock' = [slock EXCEPT ![g.l].locked = TRUE] /\ ~slock[g.l].locked
      /\ \A k \in Locks : /\ slock'[k].cpu = slock[k].cpu
                          /\ k = g.l => slock'[k].locked = TRUE
                          /\ k # g.l => slock'[k] = slock[k]
  BY <1>4, AtCpu DEF Spin, Xchg
<1>6. PlaceOK(f, v)
  <2>1. v.ncli = Ncli(f)
    <3>1. Depth(g.held) \in Nat /\ Depth(f.held) = Depth(g.held) + 1
      BY <1>2, <1>4, Depths, SMTT(20)
    <3>2. v.ncli = Depth(g.held) + 1
      BY <1>1, <1>4 DEF PlaceOK, Ncli
    <3>3. Ncli(f) = Depth(f.held) + 0
      BY <1>2 DEF Ncli
    <3> QED
      BY <3>1, <3>2, <3>3
  <2> QED
    BY <1>1, <1>2, <1>4, <2>1, Zenon DEF PlaceOK, RunPC
<1>7. InterruptsOK(f, v, n, c)
  BY <1>1, <1>2, <1>4, Zenon DEF InterruptsOK
<1>8. v.on = c /\ n = 1 => SchedulerOK(f)
  BY <1>1, <1>2, <1>4, Zenon DEF SchedulerOK
<1>9. LocksOK(f, c)'
  BY <1>1, <1>2, <1>4, <1>5 DEF LocksOK
<1>10. \A d \in SCPUs \ {c} : \A k \in Top(d).held : slock'[k] = slock[k] /\ k \notin f.held
  <2> SUFFICES ASSUME NEW d \in SCPUs \ {c}, NEW k \in Top(d).held
               PROVE  slock'[k] = slock[k] /\ k \notin f.held
    BY Zenon
  <2>1. k \in Locks /\ slock[k].locked
    BY AtCpu, Zenon DEF CpuOK, LocksOK, Frames
  <2>2. k \notin g.held
    BY <2>1, Zenon DEF LockInv, Apart
  <2> QED
    BY <2>1, <2>2, <1>2, <1>5, Zenon
<1>11. \A k \in Locks : slock'[k].cpu = c => k \in f.held
  BY <1>2, <1>5 DEF LockInv, OwnersOK
<1>12. slock' \in [Locks -> [locked : BOOLEAN, cpu : SCPUs \cup {NoCpu}]]
  BY <1>4, <1>5, AtCpu, LockedType, Zenon
<1>13. \A k \in Locks : slock'[k].cpu \in {c, NoCpu, slock[k].cpu}
  BY <1>5, Zenon
<1>14. /\ f \in Frames /\ v \in Cpus
       /\ InterruptsOK(f, v, Len(frames[v.on]), c)
       /\ v.on = c /\ Len(frames[v.on]) = 1 => SchedulerOK(f)
  BY <1>1, <1>2, <1>7, <1>8, Zenon
<1> QED
  BY <1>3, <1>6, <1>9, <1>10, <1>11, <1>12, <1>13, <1>14, TopStep, ZenonT(30)

\* lk->cpu is set by the CPU that has just taken the lock.
LEMMA MarkStep ==
  ASSUME LockInv, NEW c \in SCPUs, Mark(c)
  PROVE  LockInv'
<1> SUFFICES ASSUME NEW g, g = Top(c), NEW v, v = scpu[c], NEW n, n = Len(frames[scpu[c].on]),
                    NEW f, f = [g EXCEPT !.pc = "in", !.l = "lk"]
             PROVE  LockInv'
  BY Zenon
<1>1. /\ g \in Frames /\ v \in Cpus /\ n \in Nat /\ n >= 1
      /\ PlaceOK(g, v) /\ LocksOK(g, c) /\ InterruptsOK(g, v, n, c)
      /\ v.on = c /\ n = 1 => SchedulerOK(g)
  BY AtCpu DEF CpuOK
<1>2. /\ f \in Frames /\ f.pc = "in" /\ f.held = g.held /\ f.fork = g.fork
  BY <1>1, Zenon DEF Frames, RunPC, Locks
<1>3. /\ SetTop(c, f) /\ intenaOf' = intenaOf /\ spanic' = FALSE
      /\ scpu' = [scpu EXCEPT ![c] = v] /\ v.on = scpu[c].on
  BY <1>1, Zenon DEF Mark, At, LockInv, SlTypeOK
<1>4. g.pc = "mark" /\ g.l \in Locks /\ g.l \in g.held /\ g.held \in SUBSET Locks
  BY <1>1, Zenon DEF Mark, At, PlaceOK, Frames
<1>5. /\ slock' = [slock EXCEPT ![g.l].cpu = c]
      /\ \A k \in Locks : /\ slock'[k].locked = slock[k].locked
                          /\ k = g.l => slock'[k].cpu = c
                          /\ k # g.l => slock'[k] = slock[k]
  BY <1>4, AtCpu DEF Mark
<1>6. PlaceOK(f, v)
  <2>1. v.ncli = Ncli(f)
    BY <1>1, <1>2, <1>4, Zenon DEF PlaceOK, Ncli
  <2> QED
    BY <1>1, <1>2, <1>4, <2>1, Zenon DEF PlaceOK, RunPC
<1>7. InterruptsOK(f, v, n, c)
  BY <1>1, <1>2, <1>4, Zenon DEF InterruptsOK
<1>8. v.on = c /\ n = 1 => SchedulerOK(f)
  BY <1>1, <1>2, <1>4, Zenon DEF SchedulerOK
<1>9. LocksOK(f, c)'
  BY <1>1, <1>2, <1>4, <1>5 DEF LocksOK
<1>10. \A d \in SCPUs \ {c} : \A k \in Top(d).held : slock'[k] = slock[k] /\ k \notin f.held
  <2> SUFFICES ASSUME NEW d \in SCPUs \ {c}, NEW k \in Top(d).held
               PROVE  slock'[k] = slock[k] /\ k \notin f.held
    OBVIOUS
  <2>1. k \in Locks
    BY AtCpu DEF Frames
  <2>2. k \notin g.held
    BY <2>1, Zenon DEF LockInv, Apart
  <2> QED
    BY <2>1, <2>2, <1>2, <1>4, <1>5, Zenon
<1>11. \A k \in Locks : slock'[k].cpu = c => k \in f.held
  BY <1>2, <1>4, <1>5 DEF LockInv, OwnersOK
<1>12. slock' \in [Locks -> [locked : BOOLEAN, cpu : SCPUs \cup {NoCpu}]]
  BY <1>4, <1>5, AtCpu, LockedType
<1>13. \A k \in Locks : slock'[k].cpu \in {c, NoCpu, slock[k].cpu}
  BY <1>5, Zenon
<1>14. /\ f \in Frames /\ v \in Cpus
       /\ InterruptsOK(f, v, Len(frames[v.on]), c)
       /\ v.on = c /\ Len(frames[v.on]) = 1 => SchedulerOK(f)
  BY <1>1, <1>2, <1>7, <1>8, Zenon
<1> QED
  BY <1>3, <1>6, <1>9, <1>10, <1>11, <1>12, <1>13, <1>14, TopStep, Zenon

\* release() gives up lk->cpu first; the CPU that holds the lock is the one that does.
LEMMA ReleaseStep ==
  ASSUME LockInv, NEW c \in SCPUs, NEW l \in Locks, Release(c, l)
  PROVE  LockInv'
<1> SUFFICES ASSUME NEW g, g = Top(c), NEW v, v = scpu[c], NEW n, n = Len(frames[scpu[c].on]),
                    NEW f, f = [g EXCEPT !.pc = "unlock", !.l = l]
             PROVE  LockInv'
  BY Zenon
<1>1. /\ g \in Frames /\ v \in Cpus /\ n \in Nat /\ n >= 1
      /\ PlaceOK(g, v) /\ LocksOK(g, c) /\ InterruptsOK(g, v, n, c)
      /\ v.on = c /\ n = 1 => SchedulerOK(g)
  BY AtCpu DEF CpuOK
<1>2. /\ f \in Frames /\ f.pc = "unlock" /\ f.l = l /\ f.held = g.held /\ f.fork = g.fork
  BY <1>1, Zenon DEF Frames, RunPC, Locks
<1>3. /\ SetTop(c, f) /\ intenaOf' = intenaOf /\ spanic' = FALSE
      /\ scpu' = [scpu EXCEPT ![c] = v] /\ v.on = scpu[c].on
  BY <1>1, Zenon DEF Release, At, LockInv, SlTypeOK, PanicIf, Holding, LocksOK
<1>4. g.pc = "in" /\ l \in g.held /\ g.held \in SUBSET Locks
  BY <1>1, Zenon DEF Release, At, Frames
<1>5. /\ slock' = [slock EXCEPT ![l].cpu = NoCpu]
      /\ \A k \in Locks : /\ slock'[k].locked = slock[k].locked
                          /\ k = l => slock'[k].cpu = NoCpu
                          /\ k # l => slock'[k] = slock[k]
  BY <1>4, AtCpu DEF Release
<1>6. PlaceOK(f, v)
  <2>1. v.ncli = Ncli(f)
    BY <1>1, <1>2, <1>4, Zenon DEF PlaceOK, Ncli
  <2> QED
    BY <1>1, <1>2, <1>4, <2>1, Zenon DEF PlaceOK, RunPC
<1>7. InterruptsOK(f, v, n, c)
  BY <1>1, <1>2, <1>4, Zenon DEF InterruptsOK
<1>8. v.on = c /\ n = 1 => SchedulerOK(f)
  BY <1>1, <1>2, <1>4, Zenon DEF SchedulerOK
<1>9. LocksOK(f, c)'
  BY <1>1, <1>2, <1>4, <1>5 DEF LocksOK
<1>10. \A d \in SCPUs \ {c} : \A k \in Top(d).held : slock'[k] = slock[k] /\ k \notin f.held
  <2> SUFFICES ASSUME NEW d \in SCPUs \ {c}, NEW k \in Top(d).held
               PROVE  slock'[k] = slock[k] /\ k \notin f.held
    OBVIOUS
  <2>1. k \in Locks
    BY AtCpu, Zenon DEF Frames
  <2>2. k \notin g.held
    BY <2>1, Zenon DEF LockInv, Apart
  <2> QED
    BY <2>1, <2>2, <1>2, <1>4, <1>5, Zenon
<1>11. \A k \in Locks : slock'[k].cpu = c => k \in f.held
  BY <1>2, <1>4, <1>5 DEF LockInv, OwnersOK
<1>12. slock' \in [Locks -> [locked : BOOLEAN, cpu : SCPUs \cup {NoCpu}]]
  BY <1>4, <1>5, AtCpu, LockedType
<1>13. \A k \in Locks : slock'[k].cpu \in {c, NoCpu, slock[k].cpu}
  BY <1>5, Zenon
<1>14. /\ f \in Frames /\ v \in Cpus
       /\ InterruptsOK(f, v, Len(frames[v.on]), c)
       /\ v.on = c /\ Len(frames[v.on]) = 1 => SchedulerOK(f)
  BY <1>1, <1>2, <1>7, <1>8, Zenon
<1> QED
  BY <1>3, <1>6, <1>9, <1>10, <1>11, <1>12, <1>13, <1>14, TopStep, Zenon

\* ... then lk->locked, when no cpu is on record.
LEMMA UnlockStep ==
  ASSUME LockInv, NEW c \in SCPUs, Unlock(c)
  PROVE  LockInv'
<1> SUFFICES ASSUME NEW g, g = Top(c), NEW v, v = scpu[c], NEW n, n = Len(frames[scpu[c].on]),
                    NEW f, f = [g EXCEPT !.pc = "pop", !.held = @ \ {g.l}]
             PROVE  LockInv'
  BY Zenon
<1>1. /\ g \in Frames /\ v \in Cpus /\ n \in Nat /\ n >= 1
      /\ PlaceOK(g, v) /\ LocksOK(g, c) /\ InterruptsOK(g, v, n, c)
      /\ v.on = c /\ n = 1 => SchedulerOK(g)
  BY AtCpu DEF CpuOK
<1>2. /\ f \in Frames /\ f.pc = "pop" /\ f.l = g.l /\ f.held = g.held \ {g.l} /\ f.fork = g.fork
  BY <1>1, Zenon DEF Frames, RunPC, Locks
<1>3. /\ SetTop(c, f) /\ intenaOf' = intenaOf /\ spanic' = FALSE
      /\ scpu' = [scpu EXCEPT ![c] = v] /\ v.on = scpu[c].on
  BY <1>1, Zenon DEF Unlock, At, LockInv, SlTypeOK
<1>4. /\ g.pc = "unlock" /\ g.l \in Locks /\ g.l \in g.held /\ g.held \in SUBSET Locks
      /\ slock[g.l].cpu = NoCpu
  BY <1>1, Zenon DEF Unlock, At, PlaceOK, LocksOK, Frames
<1>5. /\ slock' = [slock EXCEPT ![g.l].locked = FALSE]
      /\ \A k \in Locks : /\ slock'[k].cpu = slock[k].cpu
                          /\ k # g.l => slock'[k] = slock[k]
  BY <1>4, AtCpu DEF Unlock
<1>6. PlaceOK(f, v)
  <2>1. v.ncli = Ncli(f)
    <3>0. f.held = g.held \ {g.l} /\ g.held \in SUBSET Locks /\ g.l \in Locks /\ g.l \in g.held
      BY <1>2, <1>4, Zenon
    <3>1. Depth(g.held) \in Nat /\ Depth(f.held) = Depth(g.held) - 1
      BY <3>0, Depths, SMTT(20)
    <3>2. v.ncli = Depth(g.held) + 0
      BY <1>1, <1>4 DEF PlaceOK, Ncli
    <3>3. Ncli(f) = Depth(f.held) + 1
      BY <1>2 DEF Ncli
    <3> QED
      BY <3>1, <3>2, <3>3
  <2> QED
    BY <1>1, <1>2, <1>4, <2>1, Zenon DEF PlaceOK, RunPC
<1>7. InterruptsOK(f, v, n, c)
  BY <1>1, <1>2, <1>4, Zenon DEF InterruptsOK
<1>8. v.on = c /\ n = 1 => SchedulerOK(f)
  BY <1>1, <1>2, <1>4, Zenon DEF SchedulerOK
<1>9. LocksOK(f, c)'
  BY <1>1, <1>2, <1>4, <1>5 DEF LocksOK
<1>10. \A d \in SCPUs \ {c} : \A k \in Top(d).held : slock'[k] = slock[k] /\ k \notin f.held
  <2> SUFFICES ASSUME NEW d \in SCPUs \ {c}, NEW k \in Top(d).held
               PROVE  slock'[k] = slock[k] /\ k \notin f.held
    OBVIOUS
  <2>1. k \in Locks
    BY AtCpu DEF Frames
  <2>2. k \notin g.held
    BY <2>1, Zenon DEF LockInv, Apart
  <2> QED
    BY <2>1, <2>2, <1>2, <1>4, <1>5, Zenon
<1>11. \A k \in Locks : slock'[k].cpu = c => k \in f.held
  BY <1>2, <1>4, <1>5, ContextsApart, Zenon DEF LockInv, OwnersOK
<1>12. slock' \in [Locks -> [locked : BOOLEAN, cpu : SCPUs \cup {NoCpu}]]
  BY <1>4, <1>5, AtCpu, LockedType, Zenon
<1>13. \A k \in Locks : slock'[k].cpu \in {c, NoCpu, slock[k].cpu}
  BY <1>5, Zenon
<1>14. /\ f \in Frames /\ v \in Cpus
       /\ InterruptsOK(f, v, Len(frames[v.on]), c)
       /\ v.on = c /\ Len(frames[v.on]) = 1 => SchedulerOK(f)
  BY <1>1, <1>2, <1>7, <1>8, Zenon
<1> QED
  BY <1>3, <1>6, <1>9, <1>10, <1>11, <1>12, <1>13, <1>14, TopStep, ZenonT(30)

\* A context has one frame, or it is in an interrupt.
LEMMA OneOrMore == ASSUME NEW n \in Nat, n >= 1 PROVE n > 1 <=> n # 1
  OBVIOUS

\* What popcli() leaves.
LEMMA Pops ==
  ASSUME NEW v \in Cpus, v.ncli >= 1
  PROVE  /\ Popped(v) \in Cpus /\ Popped(v).on = v.on
         /\ Popped(v).ncli = v.ncli - 1 /\ Popped(v).intena = v.intena
         /\ v.ncli = 1 => Popped(v).ifl = v.intena
         /\ v.ncli # 1 => Popped(v).ifl = v.ifl
<1>1. (IF v.ncli = 1 THEN v.intena ELSE v.ifl) \in BOOLEAN /\ v.ncli - 1 \in Nat
  BY DEF Cpus
<1>2. Popped(v) \in Cpus
  BY <1>1, Zenon DEF Popped, Cpus
<1>3. Popped(v).on = v.on /\ Popped(v).ncli = v.ncli - 1
  BY DEF Popped, Cpus
<1>4. Popped(v).intena = v.intena
  BY DEF Popped, Cpus
<1>5. ASSUME v.ncli = 1 PROVE Popped(v).ifl = v.intena
  BY <1>5 DEF Popped, Cpus
<1>6. ASSUME v.ncli # 1 PROVE Popped(v).ifl = v.ifl
  BY <1>6 DEF Popped, Cpus
<1> QED
  BY <1>2, <1>3, <1>4, <1>5, <1>6, Zenon

\* popcli(): the last lock released gives the interrupts back.
LEMMA PopStep ==
  ASSUME LockInv, NEW c \in SCPUs, Pop(c)
  PROVE  LockInv'
<1> SUFFICES ASSUME NEW g, g = Top(c), NEW v, v = scpu[c], NEW n, n = Len(frames[scpu[c].on]),
                    NEW q, q = IF g.held = {} THEN Outside(c) ELSE "in",
                    NEW f, f = [g EXCEPT !.pc = q, !.l = "lk"], NEW u, u = Popped(v)
             PROVE  LockInv'
  BY Zenon
<1>1. /\ g \in Frames /\ v \in Cpus /\ n \in Nat /\ n >= 1
      /\ PlaceOK(g, v) /\ LocksOK(g, c) /\ InterruptsOK(g, v, n, c)
      /\ v.on = c /\ n = 1 => SchedulerOK(g)
  BY AtCpu, Zenon DEF CpuOK
<1>2. q \in {"loop", "run", "in"} /\ (q = "in" <=> g.held # {}) /\ (q = "loop" <=> g.held = {} /\ v.on = c /\ n = 1)
  <2>1. InIrq(c) <=> n # 1
    <3>1. n > 1 <=> n # 1
      BY <1>1, OneOrMore, Zenon
    <3> QED
      BY <3>1 DEF InIrq
  <2> QED
    BY <2>1, Zenon DEF Outside
<1>3. f \in Frames /\ f.pc = q /\ f.held = g.held /\ f.fork = g.fork
  BY <1>1, <1>2, Zenon DEF Frames, RunPC, Locks
<1>4. /\ g.pc = "pop" /\ g.held \in SUBSET Locks /\ Depth(g.held) \in Nat
      /\ g.held = {} <=> Depth(g.held) = 0
      /\ v.ncli = Depth(g.held) + 1 /\ v.ifl = FALSE
  <2>1. g.pc = "pop" /\ g.held \in SUBSET Locks
    BY <1>1, Zenon DEF Pop, At, Frames
  <2>2. v.ncli = Depth(g.held) + 1 /\ v.ifl = FALSE
    BY <1>1, <2>1, Zenon DEF PlaceOK, Ncli, Cpus
  <2>3. Depth(g.held) \in Nat /\ (g.held # {} => Depth(g.held) >= 1)
    BY <2>1, Depths, Zenon
  <2>4. g.held = {} => Depth(g.held) = 0
    BY Depths
  <2> QED
    BY <2>1, <2>2, <2>3, <2>4
<1>5. /\ u \in Cpus /\ u.on = v.on /\ u.ncli = Depth(g.held) /\ u.intena = v.intena
      /\ g.held = {} => u.ifl = v.intena
      /\ g.held # {} => u.ifl = FALSE
  <2>1. v.ncli >= 1 /\ v.ncli - 1 = Depth(g.held) /\ (v.ncli = 1 <=> g.held = {})
    BY <1>4
  <2>2. /\ u \in Cpus /\ u.on = v.on /\ u.ncli = v.ncli - 1 /\ u.intena = v.intena
        /\ v.ncli = 1 => u.ifl = v.intena
        /\ v.ncli # 1 => u.ifl = v.ifl
    BY <1>1, <2>1, Pops, Zenon
  <2> QED
    BY <2>1, <2>2, <1>4, Zenon
<1>6. /\ slock' = slock /\ intenaOf' = intenaOf /\ SetTop(c, f) /\ spanic' = FALSE
      /\ scpu' = [scpu EXCEPT ![c] = u]
  <2>1. v.ncli # 0 /\ v.ifl = FALSE
    BY <1>4
  <2> QED
    BY <2>1, Zenon DEF Pop, PanicIf
<1>7. PlaceOK(f, u)
  <2>1. u.ncli = Ncli(f)
    BY <1>2, <1>3, <1>4, <1>5 DEF Ncli
  <2> QED
    BY <1>2, <1>3, <1>5, <2>1, Zenon DEF PlaceOK, RunPC
<1>8. InterruptsOK(f, u, n, c)
  <2>1. ~g.fork /\ (v.on # c \/ n > 1) => (v.intena <=> n = 1)
    BY <1>1, <1>4 DEF InterruptsOK
  <2>2. f.pc = "run" => f.held = {} /\ (v.on # c \/ n > 1)
    BY <1>1, <1>2, <1>3, OneOrMore, Zenon
  <2>3. f.pc = "loop" => u.on = c /\ n = 1
    BY <1>2, <1>3, <1>5, Zenon
  <2>4. f.pc = "run" /\ ~f.fork => (u.ifl <=> n = 1)
    BY <2>1, <2>2, <1>3, <1>5, Zenon
  <2>5. f.pc \notin {"loop", "run"} /\ ~f.fork /\ (u.on # c \/ n > 1) => (u.intena <=> n = 1)
    BY <2>1, <1>3, <1>5, Zenon
  <2> QED
    BY <2>3, <2>4, <2>5, Zenon DEF InterruptsOK
<1>9. v.on = c /\ n = 1 => SchedulerOK(f)
  BY <1>1, <1>2, <1>3, Zenon DEF SchedulerOK
<1>10. LocksOK(f, c)'
  BY <1>1, <1>2, <1>3, <1>4, <1>6, Zenon DEF LocksOK
<1>11. \A d \in SCPUs \ {c} : \A k \in Top(d).held : slock'[k] = slock[k] /\ k \notin f.held
  BY <1>3, <1>6, AtCpu, Zenon DEF LockInv, Apart, Frames
<1>12. \A k \in Locks : slock'[k].cpu = c => k \in f.held
  BY <1>3, <1>6, Zenon DEF LockInv, OwnersOK
<1>13. slock' \in [Locks -> [locked : BOOLEAN, cpu : SCPUs \cup {NoCpu}]]
  BY <1>6, AtCpu, Zenon
<1>14. \A k \in Locks : slock'[k].cpu \in {c, NoCpu, slock[k].cpu}
  BY <1>6, Zenon
<1>15. /\ f \in Frames /\ u \in Cpus /\ u.on = scpu[c].on
       /\ InterruptsOK(f, u, Len(frames[u.on]), c)
       /\ u.on = c /\ Len(frames[u.on]) = 1 => SchedulerOK(f)
  BY <1>3, <1>5, <1>8, <1>9, Zenon
<1> QED
  BY <1>6, <1>7, <1>10, <1>11, <1>12, <1>13, <1>14, <1>15, TopStep, Zenon

\* Interrupts turned on or off, and nothing else.
IfOn(v) == [v EXCEPT !.ifl = TRUE]
IfOff(v) == [v EXCEPT !.ifl = FALSE]
\* sti changes the interrupt flag only.
LEMMA IfOns ==
  ASSUME NEW v \in Cpus
  PROVE  /\ IfOn(v) \in Cpus /\ IfOn(v).ifl = TRUE /\ IfOn(v).intena = v.intena
         /\ IfOn(v).on = v.on /\ IfOn(v).ncli = v.ncli
<1>1. IfOn(v) \in Cpus /\ IfOn(v).on = v.on /\ IfOn(v).ncli = v.ncli
  BY Zenon DEF IfOn, Cpus
<1>2. IfOn(v).ifl = TRUE
  BY DEF IfOn, Cpus
<1>3. IfOn(v).intena = v.intena
  BY DEF IfOn, Cpus
<1> QED
  BY <1>1, <1>2, <1>3, Zenon
\* cli changes the interrupt flag only.
LEMMA IfOffs ==
  ASSUME NEW v \in Cpus
  PROVE  /\ IfOff(v) \in Cpus /\ IfOff(v).ifl = FALSE /\ IfOff(v).intena = v.intena
         /\ IfOff(v).on = v.on /\ IfOff(v).ncli = v.ncli
<1>1. IfOff(v) \in Cpus /\ IfOff(v).on = v.on /\ IfOff(v).ncli = v.ncli
  BY Zenon DEF IfOff, Cpus
<1>2. IfOff(v).ifl = FALSE
  BY DEF IfOff, Cpus
<1>3. IfOff(v).intena = v.intena
  BY DEF IfOff, Cpus
<1> QED
  BY <1>1, <1>2, <1>3, Zenon

\* The scheduler's sti(), at the top of its loop.
LEMMA StiStep ==
  ASSUME LockInv, NEW c \in SCPUs, Sti(c)
  PROVE  LockInv'
<1> SUFFICES ASSUME NEW g, g = Top(c), NEW v, v = scpu[c], NEW n, n = Len(frames[scpu[c].on]),
                    NEW f, f = [g EXCEPT !.pc = "run"], NEW u, u = IfOn(v)
             PROVE  LockInv'
  BY Zenon
<1>1. /\ g \in Frames /\ v \in Cpus /\ n \in Nat /\ n >= 1
      /\ PlaceOK(g, v) /\ LocksOK(g, c) /\ InterruptsOK(g, v, n, c)
  BY AtCpu, Zenon DEF CpuOK
<1>2. f \in Frames /\ f.pc = "run" /\ f.held = g.held /\ f.fork = g.fork
  BY <1>1 DEF Frames, RunPC
<1>3. u \in Cpus /\ u.on = v.on /\ u.ncli = v.ncli /\ u.ifl = TRUE
  BY <1>1, IfOns, Zenon
<1>4. g.pc = "loop" /\ g.held = {} /\ v.on = c /\ n = 1
  BY <1>1, Zenon DEF Sti, At, PlaceOK, InterruptsOK
<1>5. /\ slock' = slock /\ intenaOf' = intenaOf /\ SetTop(c, f) /\ spanic' = FALSE
      /\ scpu' = [scpu EXCEPT ![c] = u]
  BY DEF Sti, At, LockInv, IfOn
<1>6. PlaceOK(f, u)
  <2>1. u.ncli = Ncli(f)
    BY <1>1, <1>2, <1>3, <1>4, Depths, Zenon DEF PlaceOK, Ncli
  <2> QED
    BY <1>2, <1>3, <1>4, <2>1, Zenon DEF PlaceOK, RunPC
<1>7. InterruptsOK(f, u, n, c)
  BY <1>2, <1>3, <1>4, Zenon DEF InterruptsOK
<1>8. SchedulerOK(f)
  BY <1>2, <1>4 DEF SchedulerOK
<1>9. LocksOK(f, c)'
  BY <1>2, <1>4, Zenon DEF LocksOK
<1>10. \A d \in SCPUs \ {c} : \A k \in Top(d).held : slock'[k] = slock[k] /\ k \notin f.held
  BY <1>2, <1>4, <1>5, Zenon
<1>11. \A k \in Locks : slock'[k].cpu = c => k \in f.held
  BY <1>2, <1>5, Zenon DEF LockInv, OwnersOK
<1>12. slock' \in [Locks -> [locked : BOOLEAN, cpu : SCPUs \cup {NoCpu}]]
  BY <1>5, AtCpu, Zenon
<1>13. \A k \in Locks : slock'[k].cpu \in {c, NoCpu, slock[k].cpu}
  BY <1>5, Zenon
<1>14. /\ f \in Frames /\ u \in Cpus /\ u.on = scpu[c].on
       /\ InterruptsOK(f, u, Len(frames[u.on]), c)
       /\ u.on = c /\ Len(frames[u.on]) = 1 => SchedulerOK(f)
  BY <1>2, <1>3, <1>7, <1>8, Zenon
<1> QED
  BY <1>5, <1>6, <1>9, <1>10, <1>11, <1>12, <1>13, <1>14, TopStep, Zenon

\* An interrupt comes to a frame that holds nothing, or returns to one: the frames
\* of the context become s.
LEMMA NestStep ==
  ASSUME LockInv, NEW c \in SCPUs, NEW x, x = scpu[c].on,
         NEW s \in Seq(Frames), Len(s) >= 1, NEW u \in Cpus,
         frames' = [frames EXCEPT ![x] = s], scpu' = [scpu EXCEPT ![c] = u],
         UNCHANGED <<slock, intenaOf, spanic>>,
         u.on = x, u.ncli = 0,
         Top(c).held = {}, s[1].held = {}, s[1].pc \in {"loop", "run"},
         InterruptsOK(s[1], u, Len(s), c), Interrupted(x, s)
  PROVE  LockInv'
<1>1. x \in Contexts /\ x \in Threads \cup {c} /\ frames \in [Contexts -> Seq(Frames)]
  BY DEF LockInv, SlTypeOK, PlacesOK
<1>2. frames'[x] = s /\ \A y \in Contexts \ {x} : frames'[y] = frames[y]
  BY <1>1, Zenon
<1>3. \A d \in SCPUs : scpu'[d].on = scpu[d].on
  BY Zenon DEF LockInv, SlTypeOK
<1>4. \A d \in SCPUs \ {c} : Top(d)' = Top(d) /\ scpu'[d] = scpu[d] /\ scpu[d].on \in Contexts \ {x}
  BY <1>2, <1>3 DEF LockInv, SlTypeOK, PlacesOK, Top
<1>5. Top(c)' = s[1] /\ scpu'[c] = u
  BY <1>2, <1>3, Zenon DEF LockInv, SlTypeOK, Top
<1>6. SlTypeOK'
  <2>1. scpu' \in [SCPUs -> Cpus]
    BY Zenon DEF LockInv, SlTypeOK, Cpus
  <2>2. frames' \in [Contexts -> Seq(Frames)] /\ \A y \in Contexts : Len(frames'[y]) >= 1
    BY <1>1, <1>2, Zenon DEF LockInv, SlTypeOK
  <2> QED
    BY <2>1, <2>2, Zenon DEF LockInv, SlTypeOK, Cpus
<1>7. \A d \in SCPUs : CpuOK(d)'
  <2>1. CpuOK(c)'
    <3>1. PlaceOK(s[1], u)
      BY Depths DEF PlaceOK, RunPC, Ncli
    <3>2. LocksOK(Top(c), c)'
      BY <1>5, Zenon DEF LocksOK
    <3>3. SchedulerOK(s[1])
      BY Zenon DEF SchedulerOK
    <3> QED
      BY <3>1, <3>2, <3>3, <1>2, <1>5, Zenon DEF CpuOK
  <2>2. ASSUME NEW d \in SCPUs \ {c} PROVE CpuOK(d)'
    <3>1. CpuOK(d) /\ frames'[scpu[d].on] = frames[scpu[d].on]
      BY <1>2, <1>4, Zenon DEF LockInv
    <3>2. LocksOK(Top(d), d)'
      BY <3>1, <1>4 DEF LocksOK, CpuOK
    <3> QED
      BY <3>1, <3>2, <1>4, Zenon DEF CpuOK
  <2> QED
    BY <2>1, <2>2, Zenon
<1>8. PlacesOK'
  <2>1. ASSUME NEW t \in Threads, ~Running(t)' PROVE Switched(frames[t][1])'
    <3>1. ~Running(t) /\ t # x
      BY <2>1, <1>3, Zenon DEF Running
    <3> QED
      BY <3>1, <1>2, Zenon DEF LockInv, PlacesOK, Contexts
  <2>2. ASSUME NEW d \in SCPUs, (scpu[d].on # d)' PROVE OnlyAway(frames[d])'
    <3>1. d # x /\ scpu[d].on # d
      BY <2>2, <1>1, <1>3, ContextsApart, Zenon
    <3> QED
      BY <3>1, <1>2, Zenon DEF LockInv, PlacesOK, Contexts
  <2> QED
    BY <2>1, <2>2, <1>3, SMTT(20) DEF LockInv, PlacesOK
<1>9. SavedOK'
  BY <1>2, Zenon DEF LockInv, SavedOK, Contexts
<1>10. \A y \in Contexts : BelowOK(y)'
  BY <1>2, Zenon DEF LockInv, BelowOK
<1>11. OwnersOK' /\ Apart'
  BY <1>4, <1>5 DEF LockInv, OwnersOK, Apart
<1> QED
  BY <1>6, <1>7, <1>8, <1>9, <1>10, <1>11, Zenon DEF LockInv

\* An interrupt: interrupts were on, so the CPU holds no lock, and a frame that is
\* interrupted once more is a new thread's, which does not turn them off.
LEMMA InterruptStep ==
  ASSUME LockInv, NEW c \in SCPUs, Interrupt(c)
  PROVE  LockInv'
<1>0. SUFFICES ASSUME NEW x, x = scpu[c].on, NEW v, v = scpu[c], NEW u, u = IfOff(v),
                      NEW o, o = frames[x], NEW s, s = <<Frame("run")>> \o o
               PROVE  LockInv'
  BY Zenon
<1>1. /\ Top(c) \in Frames /\ v \in Cpus /\ o \in Seq(Frames) /\ Len(o) >= 1 /\ Top(c) = o[1]
      /\ PlaceOK(o[1], v) /\ InterruptsOK(o[1], v, Len(o), c) /\ Interrupted(x, o) /\ x \in Threads \cup {c}
  BY <1>0, AtCpu, Zenon DEF LockInv, SlTypeOK, CpuOK, Top, BelowOK
<1>2. /\ frames' = [frames EXCEPT ![x] = s] /\ scpu' = [scpu EXCEPT ![c] = u]
      /\ UNCHANGED <<slock, intenaOf, spanic>> /\ v.ifl = TRUE /\ x = scpu[c].on
  <2>1. v.ifl = TRUE
    BY <1>0, <1>1, Zenon DEF Interrupt, Cpus
  <2> QED
    BY <1>0, <2>1, SMTT(20) DEF Interrupt, IfOff
<1>3. u \in Cpus /\ u.on = x /\ u.ncli = v.ncli /\ u.ifl = FALSE
  BY <1>0, <1>1, IfOffs, Zenon
<1>4. /\ Frame("run") \in Frames /\ Frame("run").pc = "run" /\ Frame("run").held = {}
  BY Zenon DEF Frame, Frames, RunPC, Locks
<1>5. s \in Seq(Frames) /\ Len(s) = Len(o) + 1 /\ s[1] = Frame("run") /\ \A i \in 2 .. Len(s) : s[i] = o[i - 1]
  <2>1. o \in Seq(Frames) /\ s = <<Frame("run")>> \o o
    BY <1>0, <1>1, ZenonT(30)
  <2> QED
    BY <2>1, <1>4, OneMore
<1>6. o[1].pc \in {"loop", "run"} /\ o[1].held = {} /\ v.ncli = 0
  <2>1. o[1].pc \in {"loop", "run"} /\ o[1].held = {}
    BY <1>1, <1>2, Zenon DEF PlaceOK
  <2> QED
    BY <1>1, <2>1, Depths DEF PlaceOK, Ncli
<1>7. /\ o[1].pc = "loop" => x = c /\ Len(o) = 1
      /\ o[1].fork \/ Len(o) = 1
  BY <1>0, <1>1, <1>2, <1>6, Zenon DEF InterruptsOK
<1>8. Interrupted(x, s)
  <2> SUFFICES ASSUME NEW i \in 2 .. Len(s)
               PROVE  /\ s[i].held = {} /\ s[i].pc \in {"loop", "run"}
                      /\ s[i].fork \/ i = Len(s)
                      /\ s[i].pc = "loop" => x \in SCPUs /\ i = Len(s)
    BY Zenon DEF Interrupted
  <2>1. CASE i = 2
    <3>1. s[i] = o[1] /\ (Len(o) = 1 => i = Len(s))
      BY <2>1, <1>5
    <3> QED
      BY <3>1, <1>6, <1>7, Zenon
  <2>2. CASE i > 2
    <3>1. i - 1 \in 2 .. Len(o) /\ s[i] = o[i - 1] /\ (i - 1 = Len(o) => i = Len(s))
      BY <2>2, <1>1, <1>5
    <3> QED
      BY <3>1, <1>1, Zenon DEF Interrupted
  <2> QED
    BY <2>1, <2>2
<1>9. InterruptsOK(s[1], u, Len(s), c)
  BY <1>1, <1>3, <1>4, <1>5 DEF InterruptsOK
<1>10. Len(s) >= 1 /\ u.ncli = 0 /\ Top(c).held = {} /\ s[1].held = {} /\ s[1].pc \in {"loop", "run"}
  BY <1>1, <1>3, <1>4, <1>5, <1>6
<1> QED
  BY <1>2, <1>3, <1>5, <1>8, <1>9, <1>10, NestStep, Zenon

\* iret: back to a frame that was interrupted with its interrupts on.
LEMMA IretStep ==
  ASSUME LockInv, NEW c \in SCPUs, Iret(c)
  PROVE  LockInv'
<1>0. SUFFICES ASSUME NEW x, x = scpu[c].on, NEW v, v = scpu[c], NEW u, u = IfOn(v),
                      NEW o, o = frames[x], NEW s, s = Tail(o)
               PROVE  LockInv'
  BY Zenon
<1>1. /\ Top(c) \in Frames /\ v \in Cpus /\ o \in Seq(Frames) /\ Top(c) = o[1]
      /\ PlaceOK(o[1], v) /\ Interrupted(x, o) /\ x \in Threads \cup {c}
  BY <1>0, AtCpu, Zenon DEF LockInv, SlTypeOK, CpuOK, Top, BelowOK
<1>2. /\ frames' = [frames EXCEPT ![x] = s] /\ scpu' = [scpu EXCEPT ![c] = u]
      /\ UNCHANGED <<slock, intenaOf, spanic>> /\ x = scpu[c].on
      /\ Len(o) >= 2 /\ o[1].pc = "run"
  <2>1. Len(o) >= 2 /\ o[1].pc = "run"
    BY <1>0, <1>1 DEF Iret, InIrq, At
  <2> QED
    BY <1>0, <2>1, Zenon DEF Iret, IfOn
<1>3. u \in Cpus /\ u.on = x /\ u.ncli = v.ncli /\ u.ifl = TRUE
  BY <1>0, <1>1, IfOns, ZenonT(30)
<1>4. s \in Seq(Frames) /\ Len(s) = Len(o) - 1 /\ \A i \in 1 .. Len(s) : s[i] = o[i + 1]
  BY <1>0, <1>1, <1>2, OneLess, Zenon
<1>5. \A i \in 1 .. Len(s) : /\ s[i].held = {} /\ s[i].pc \in {"loop", "run"}
                             /\ s[i].fork \/ i = Len(s)
                             /\ s[i].pc = "loop" => x \in SCPUs /\ i = Len(s)
  <2> SUFFICES ASSUME NEW i \in 1 .. Len(s)
               PROVE  /\ s[i].held = {} /\ s[i].pc \in {"loop", "run"}
                      /\ s[i].fork \/ i = Len(s)
                      /\ s[i].pc = "loop" => x \in SCPUs /\ i = Len(s)
    BY Zenon
  <2>1. i + 1 \in 2 .. Len(o) /\ s[i] = o[i + 1] /\ (i + 1 = Len(o) => i = Len(s))
    BY <1>1, <1>4
  <2> QED
    BY <2>1, <1>1, Zenon DEF Interrupted
<1>6. Len(s) \in Nat /\ Len(s) >= 1 /\ 1 \in 1 .. Len(s) /\ 2 .. Len(s) \subseteq 1 .. Len(s)
  BY SMTT(30), <1>1, <1>2, <1>4
<1>7. o[1].held = {} /\ u.ncli = 0
  <2>1. o[1].held = {}
    BY <1>1, <1>2, Zenon DEF PlaceOK
  <2> QED
    BY <1>1, <1>2, <1>3, <2>1, Depths DEF PlaceOK, Ncli
<1>8. InterruptsOK(s[1], u, Len(s), c)
  <2>1. /\ s[1].pc \in {"loop", "run"} /\ (s[1].fork \/ Len(s) = 1)
        /\ s[1].pc = "loop" => x = c /\ Len(s) = 1
    BY <1>1, <1>5, <1>6, ContextsApart, Zenon
  <2> QED
    BY <2>1, <1>3, Zenon DEF InterruptsOK
<1>9. /\ Top(c).held = {} /\ s[1].held = {} /\ s[1].pc \in {"loop", "run"}
  BY <1>1, <1>5, <1>6, <1>7, Zenon
<1>10. Interrupted(x, s)
  BY <1>5, <1>6, Zenon DEF Interrupted
<1> QED
  BY <1>2, <1>3, <1>4, <1>6, <1>7, <1>8, <1>9, <1>10, NestStep, Zenon

\* The frames after the tops of thread t and of the scheduler of c have changed.
NewTops(c, t, fc, ft) ==
  /\ frames' \in [Contexts -> Seq(Frames)]
  /\ frames'[t][1] = ft /\ frames'[c][1] = fc
  /\ \A y \in Contexts : Len(frames'[y]) = Len(frames[y])
  /\ \A y \in Contexts \ {t, c} : frames'[y] = frames[y]
  /\ \A y \in Contexts : \A i \in 2 .. Len(frames[y]) : frames'[y][i] = frames[y][i]
\* swtch() changes the tops of two contexts and nothing below them.
LEMMA TwoTops ==
  ASSUME LockInv, NEW c \in SCPUs, NEW t \in Threads, NEW fc \in Frames, NEW ft \in Frames,
         frames' = [frames EXCEPT ![t] = [frames[t] EXCEPT ![1] = ft],
                                  ![c] = [frames[c] EXCEPT ![1] = fc]]
  PROVE  NewTops(c, t, fc, ft)
<1>0. t # c /\ t \in Contexts /\ c \in Contexts
  BY ContextsApart DEF Contexts
<1>1. /\ frames \in [Contexts -> Seq(Frames)]
      /\ frames[t] \in Seq(Frames) /\ Len(frames[t]) >= 1
      /\ frames[c] \in Seq(Frames) /\ Len(frames[c]) >= 1
  BY <1>0 DEF LockInv, SlTypeOK
<1>2. PICK rt : rt = [frames[t] EXCEPT ![1] = ft]
  BY Zenon
<1>3. PICK rc : rc = [frames[c] EXCEPT ![1] = fc]
  BY Zenon
<1>4. /\ rt \in Seq(Frames) /\ Len(rt) = Len(frames[t]) /\ rt[1] = ft
      /\ \A i \in 2 .. Len(frames[t]) : rt[i] = frames[t][i]
  BY <1>1, <1>2, NewTop
<1>5. /\ rc \in Seq(Frames) /\ Len(rc) = Len(frames[c]) /\ rc[1] = fc
      /\ \A i \in 2 .. Len(frames[c]) : rc[i] = frames[c][i]
  BY <1>1, <1>3, NewTop
<1>6. /\ frames' \in [Contexts -> Seq(Frames)] /\ frames'[t] = rt /\ frames'[c] = rc
      /\ \A y \in Contexts \ {t, c} : frames'[y] = frames[y]
  <2>1. frames' = [frames EXCEPT ![t] = rt, ![c] = rc]
    BY <1>2, <1>3
  <2> QED
    BY <2>1, <1>0, <1>1, <1>4, <1>5, ZenonT(30)
<1> QED
  BY <1>4, <1>5, <1>6, ZenonT(30) DEF NewTops

\* What sched() saves, or restores, is the intena of t alone.
NewSaved(t) ==
  /\ intenaOf' \in [Threads -> SUBSET BOOLEAN]
  /\ \A q \in Threads \ {t} : intenaOf'[q] = intenaOf[q]

\* What intena is in a context of n frames that has been resumed.
Restored(u, n) == u.intena <=> n = 1

\* Before swtch(), CPU c holds ptable.lock, and t runs nowhere else; after it, the
\* one of c and t that runs holds it, with the right intena.
BeforeSwitch(c, t) ==
  /\ \A d \in SCPUs \ {c} : scpu[d].on # t
  /\ scpu[c].on \in {c, t} /\ Len(frames[c]) = 1 /\ Top(c).held = {"ptable"}
  /\ slock["ptable"].locked /\ slock["ptable"].cpu = c
AfterSwitch(c, t, fc, ft, u) ==
  /\ u.on \in {c, t} /\ u.ncli = 1 /\ u.ifl = FALSE
  /\ fc.held = {"ptable"} /\ ft.held = {"ptable"}
  /\ u.on = t => /\ ft.pc = "in" /\ fc.pc = "away"
                 /\ ~ft.fork => Restored(u, Len(frames[t]))
  /\ u.on = c => /\ fc.pc = "in" /\ ft.pc = "switched"
                 /\ ~ft.fork => intenaOf'[t] = Saved(Len(frames[t]))

\* swtch() in either direction: CPU c and thread t exchange the CPU, and the one
\* that goes on takes over ptable.lock.
LEMMA SwitchStep ==
  ASSUME LockInv, NEW c \in SCPUs, NEW t \in Threads, NEW fc \in Frames, NEW ft \in Frames,
         NEW u \in Cpus, NewTops(c, t, fc, ft), NewSaved(t),
         scpu' = [scpu EXCEPT ![c] = u], slock' = slock, spanic' = FALSE,
         BeforeSwitch(c, t), AfterSwitch(c, t, fc, ft, u)
  PROVE  LockInv'
<1>0. t # c /\ t \in Contexts /\ c \in Contexts /\ SCPUs \cap Threads = {}
  BY ContextsApart DEF Contexts
<1>1. /\ \A d \in SCPUs \ {c} : scpu'[d] = scpu[d] /\ scpu[d].on \in Contexts \ {t, c}
      /\ scpu'[c] = u
  <2>1. scpu'[c] = u /\ \A d \in SCPUs \ {c} : scpu'[d] = scpu[d]
    BY Zenon DEF LockInv, SlTypeOK
  <2>2. ASSUME NEW d \in SCPUs \ {c} PROVE scpu[d].on \in Contexts \ {t, c}
    <3>1. scpu[d].on \in Threads \cup {d} /\ scpu[d].on # t
      BY Zenon DEF LockInv, PlacesOK, BeforeSwitch
    <3> QED
      BY <3>1, <1>0, Zenon DEF Contexts
  <2> QED
    BY <2>1, <2>2
<1>2. \A d \in SCPUs \ {c} : frames'[scpu[d].on] = frames[scpu[d].on] /\ Top(d)' = Top(d)
  <2>1. \A y \in Contexts \ {t, c} : frames'[y] = frames[y]
    BY Zenon DEF NewTops
  <2> QED
    BY <2>1, <1>1, Zenon DEF Top
<1>3. u.on = t \/ (u.on = c /\ u.on # t)
  BY <1>0, Zenon DEF AfterSwitch
<1>4. /\ u.on = t => Top(c)' = ft
      /\ u.on = c => Top(c)' = fc
      /\ Top(c)'.pc = "in" /\ Top(c)'.held = {"ptable"}
  <2>1. Top(c)' = frames'[u.on][1]
    BY <1>1, Zenon DEF Top
  <2>2. frames'[t][1] = ft /\ frames'[c][1] = fc
    BY Zenon DEF NewTops
  <2> QED
    BY <2>1, <2>2, <1>3, Zenon DEF AfterSwitch
<1>5. SlTypeOK'
  <2>1. scpu' \in [SCPUs -> Cpus] /\ slock' \in [Locks -> [locked : BOOLEAN, cpu : SCPUs \cup {NoCpu}]]
    BY Zenon DEF LockInv, SlTypeOK, Cpus
  <2>2. frames' \in [Contexts -> Seq(Frames)] /\ \A y \in Contexts : Len(frames'[y]) >= 1
    BY Zenon DEF LockInv, SlTypeOK, NewTops
  <2>3. intenaOf' \in [Threads -> SUBSET BOOLEAN]
    BY DEF NewSaved
  <2>4. spanic' \in BOOLEAN
    BY Zenon
  <2> QED
    BY <2>1, <2>2, <2>3, <2>4, Zenon DEF SlTypeOK, Cpus
<1>6. \A d \in SCPUs : CpuOK(d)'
  <2>1. CpuOK(c)'
    <3>1. PlaceOK(Top(c), scpu[c])'
      <4>1. Ncli(Top(c))' = 1
        BY <1>4 DEF Ncli, Depth
      <4>2. u.ncli = 1 /\ u.ifl = FALSE
        BY Zenon DEF AfterSwitch
      <4> QED
        BY <4>1, <4>2, <1>1, <1>4, Zenon DEF PlaceOK, RunPC
    <3>2. LocksOK(Top(c), c)'
      <4>1. slock'["ptable"].locked /\ slock'["ptable"].cpu = c
        BY Zenon DEF BeforeSwitch
      <4> QED
        BY <4>1, <1>4, Zenon DEF LocksOK
    <3>3. SchedulerOK(Top(c))'
      BY <1>4, Zenon DEF SchedulerOK
    <3>4. InterruptsOK(Top(c), scpu[c], Len(frames[scpu[c].on]), c)'
      <4>1. CASE u.on = t
        <5>1. ft.pc = "in" /\ (~ft.fork => Restored(u, Len(frames[t])))
          BY <4>1, Zenon DEF AfterSwitch
        <5>2. InterruptsOK(ft, u, Len(frames[t]), c)
          BY <5>1, Zenon DEF InterruptsOK, Restored
        <5>3. Top(c)' = ft /\ scpu'[c] = u /\ Len(frames'[u.on]) = Len(frames[t])
          BY <4>1, <1>0, <1>1, <1>4, Zenon DEF NewTops
        <5> QED
          BY <5>2, <5>3, Zenon
      <4>2. CASE u.on = c
        <5>1. fc.pc = "in"
          BY <4>2, Zenon DEF AfterSwitch
        <5>2. InterruptsOK(fc, u, 1, c)
          BY <4>2, <5>1 DEF InterruptsOK
        <5>3. Top(c)' = fc /\ scpu'[c] = u /\ Len(frames'[u.on]) = 1
          BY <4>2, <1>0, <1>1, <1>4 DEF NewTops, BeforeSwitch
        <5> QED
          BY <5>2, <5>3, Zenon
      <4> QED
        BY <4>1, <4>2, <1>3, Zenon
    <3> QED
      BY <3>1, <3>2, <3>3, <3>4, Zenon DEF CpuOK
  <2>2. ASSUME NEW d \in SCPUs \ {c} PROVE CpuOK(d)'
    <3>1. CpuOK(d) /\ frames'[scpu[d].on] = frames[scpu[d].on] /\ scpu'[d] = scpu[d] /\ Top(d)' = Top(d)
      BY <1>1, <1>2, ZenonT(30) DEF LockInv
    <3>2. LocksOK(Top(d), d)'
      BY <3>1, SMTT(20) DEF LocksOK, CpuOK
    <3> QED
      BY <3>1, <3>2, Zenon DEF CpuOK
  <2> QED
    BY <2>1, <2>2, Zenon
<1>7. PlacesOK'
  <2>0. \A y \in Contexts \ {t, c} : frames'[y] = frames[y]
    BY DEF NewTops
  <2>1. ASSUME NEW q \in Threads, ~Running(q)' PROVE Switched(frames[q][1])'
    <3>1. CASE q = t
      <4>1. u.on # t
        BY <2>1, <3>1, <1>1, Zenon DEF Running
      <4>2. ft.pc = "switched" /\ ft.held = {"ptable"} /\ frames'[t][1] = ft
        BY <4>1, <1>3, Zenon DEF AfterSwitch, NewTops
      <4> QED
        BY <3>1, <4>2, Zenon DEF Switched
    <3>2. CASE q # t
      <4>1. q \in Contexts \ {t, c}
        BY <3>2, <1>0, Zenon DEF Contexts
      <4>2. ~Running(q)
        <5>1. \A d \in SCPUs \ {c} : scpu[d].on # q
          BY <2>1, <1>1, Zenon DEF Running
        <5>2. scpu[c].on # q
          BY <4>1, SMTT(20) DEF BeforeSwitch
        <5> QED
          BY <5>1, <5>2, Zenon DEF Running
      <4>3. Switched(frames[q][1]) /\ frames'[q] = frames[q]
        BY <4>1, <4>2, <2>0, Zenon DEF LockInv, PlacesOK
      <4> QED
        BY <4>3, Zenon
    <3> QED
      BY <3>1, <3>2, Zenon
  <2>2. ASSUME NEW d \in SCPUs, (scpu[d].on # d)' PROVE OnlyAway(frames[d])'
    <3>1. CASE d = c
      <4>1. u.on = t
        BY <2>2, <3>1, <1>1, <1>3, Zenon
      <4>2. fc.pc = "away" /\ fc.held = {"ptable"} /\ frames'[c][1] = fc /\ Len(frames'[c]) = 1
        BY <4>1, <1>0, Zenon DEF AfterSwitch, BeforeSwitch, NewTops
      <4> QED
        BY <3>1, <4>2, Zenon DEF OnlyAway
    <3>2. CASE d # c
      <4>1. scpu[d].on # d
        BY <2>2, <3>2, <1>1, Zenon
      <4>2. d \in Contexts \ {t, c}
        BY <3>2, <1>0, Zenon DEF Contexts
      <4>3. OnlyAway(frames[d]) /\ frames'[d] = frames[d]
        BY <4>1, <4>2, <2>0, SMTT(20) DEF LockInv, PlacesOK
      <4> QED
        BY <4>3, Zenon
    <3> QED
      BY <3>1, <3>2, Zenon
  <2>3. \A d \in SCPUs : scpu'[d].on \in Threads \cup {d}
    <3>1. scpu'[c].on \in Threads \cup {c}
      BY <1>1, <1>3, Zenon
    <3> QED
      BY <3>1, <1>1, Zenon DEF LockInv, PlacesOK
  <2>4. \A d, e \in SCPUs : scpu'[d].on = scpu'[e].on => d = e
    <3>1. scpu'[c].on \in {t, c}
      BY <1>1, <1>3, SMTT(20)
    <3> QED
      BY <3>1, <1>1 DEF LockInv, PlacesOK
  <2> QED
    BY <2>1, <2>2, <2>3, <2>4, Zenon DEF PlacesOK
<1>8. SavedOK'
  <2>1. ASSUME NEW q \in Threads, frames'[q][1].pc = "switched", ~frames'[q][1].fork
        PROVE  intenaOf'[q] = Saved(Len(frames'[q]))
    <3>1. CASE q = t
      <4>1. frames'[t][1] = ft /\ Len(frames'[t]) = Len(frames[t])
        BY <1>0, SMTT(20) DEF NewTops
      <4>2. ~ft.fork /\ u.on = c
        BY <2>1, <3>1, <4>1, <1>3, Zenon DEF AfterSwitch
      <4> QED
        BY <3>1, <4>1, <4>2, Zenon DEF AfterSwitch
    <3>2. CASE q # t
      <4>1. q \in Contexts \ {t, c}
        BY <3>2, <1>0 DEF Contexts
      <4>2. frames'[q] = frames[q] /\ intenaOf'[q] = intenaOf[q]
        BY <3>2, <4>1, Zenon DEF NewTops, NewSaved
      <4> QED
        BY <2>1, <4>2, Zenon DEF LockInv, SavedOK
    <3> QED
      BY <3>1, <3>2, Zenon
  <2> QED
    BY <2>1, Zenon DEF SavedOK
<1>9. \A y \in Contexts : BelowOK(y)'
  <2>1. ASSUME NEW y \in Contexts PROVE BelowOK(y)'
    <3>1. /\ Len(frames'[y]) = Len(frames[y]) /\ BelowOK(y)
          /\ \A i \in 2 .. Len(frames[y]) : frames'[y][i] = frames[y][i]
      BY SMTT(20) DEF NewTops, LockInv
    <3> QED
      BY <3>1, SMTT(20) DEF BelowOK, Interrupted
  <2> QED
    BY <2>1, Zenon
<1>10. OwnersOK' /\ Apart'
  <2>1. \A d \in SCPUs : Top(d)'.held = Top(d).held
    BY <1>2, <1>4, Zenon DEF BeforeSwitch
  <2> QED
    BY <2>1, Zenon DEF LockInv, OwnersOK, Apart
<1> QED
  BY <1>5, <1>6, <1>7, <1>8, <1>9, <1>10 DEF LockInv

\* sched(): none of its checks fails, and the scheduler was left by this thread's swtch().
LEMMA EnterSchedStep ==
  ASSUME LockInv, NEW c \in SCPUs, EnterSched(c)
  PROVE  LockInv'
<1>0. SUFFICES ASSUME NEW t, t = scpu[c].on, NEW v, v = scpu[c], NEW u, u = [v EXCEPT !.on = c],
                      NEW ft, ft = [frames[t][1] EXCEPT !.pc = "switched"],
                      NEW fc, fc = [frames[c][1] EXCEPT !.pc = "in"]
               PROVE  LockInv'
  BY Zenon
<1>1. /\ t \in Threads /\ t # c /\ frames[t][1] = Top(c) /\ scpu[c].on = t
      /\ Top(c).pc = "in" /\ Top(c).held = {"ptable"}
  BY <1>0, ContextsApart, Zenon DEF EnterSched, At, Top
<1>2. /\ Top(c) \in Frames /\ v \in Cpus /\ Len(frames[t]) \in Nat
      /\ PlaceOK(Top(c), v) /\ LocksOK(Top(c), c) /\ InterruptsOK(Top(c), v, Len(frames[t]), c)
  BY <1>0, <1>1, AtCpu, Zenon DEF CpuOK
<1>3. v.on = t /\ v.ncli = 1 /\ v.ifl = FALSE /\ slock["ptable"].locked /\ slock["ptable"].cpu = c
  <2>1. v.ncli = 1
    BY <1>1, <1>2, SMTT(20) DEF PlaceOK, Ncli, Depth
  <2>2. v.ifl = FALSE
    BY <1>1, <1>2, Zenon DEF PlaceOK, Cpus
  <2>3. slock["ptable"].locked /\ slock["ptable"].cpu = c
    BY <1>1, <1>2, Zenon DEF LocksOK
  <2> QED
    BY <2>1, <2>2, <2>3, <1>0, Zenon
<1>4. spanic' = FALSE
  BY <1>0, <1>3, Zenon DEF EnterSched, PanicIf, SchedPanics, Holding
<1>5. OnlyAway(frames[c]) /\ frames[c] \in Seq(Frames)
  BY <1>1, Zenon DEF LockInv, SlTypeOK, PlacesOK, Contexts
<1>6. /\ fc \in Frames /\ fc.pc = "in" /\ fc.held = {"ptable"} /\ Len(frames[c]) = 1
  <2>1. frames[c][1] \in Frames /\ frames[c][1].held = {"ptable"} /\ Len(frames[c]) = 1
    BY <1>5 DEF OnlyAway
  <2> QED
    BY <2>1, <1>0, Zenon DEF Frames, RunPC
<1>7. /\ ft \in Frames /\ ft.pc = "switched" /\ ft.held = {"ptable"} /\ ft.fork = Top(c).fork
  BY <1>0, <1>1, <1>2, Zenon DEF Frames, RunPC
<1>8. u \in Cpus /\ u.on = c /\ u.ncli = 1 /\ u.ifl = FALSE
  BY <1>0, <1>2, <1>3, Zenon DEF Cpus, Contexts
<1>9. NewTops(c, t, fc, ft)
  <2>1. frames' = [frames EXCEPT ![t] = [frames[t] EXCEPT ![1] = ft],
                                 ![c] = [frames[c] EXCEPT ![1] = fc]]
    <3>1. t \in Contexts /\ c \in Contexts /\ frames \in [Contexts -> Seq(Frames)]
      BY <1>1, Zenon DEF Contexts, LockInv, SlTypeOK
    <3> QED
      BY <3>1, <1>0, <1>1, Zenon DEF EnterSched
  <2> QED
    BY <2>1, <1>1, <1>6, <1>7, TwoTops, Zenon
<1>10. NewSaved(t)
  BY <1>0, <1>1, <1>2, Zenon DEF EnterSched, LockInv, SlTypeOK, Cpus, NewSaved
<1>11. ~ft.fork => intenaOf'[t] = Saved(Len(frames[t]))
  <2>1. ~ft.fork => (v.intena <=> Len(frames[t]) = 1)
    BY <1>1, <1>2, <1>3, <1>7, Zenon DEF InterruptsOK
  <2>2. intenaOf'[t] = {v.intena} /\ v.intena \in BOOLEAN
    BY <1>0, <1>1, <1>2, Zenon DEF EnterSched, LockInv, SlTypeOK, Cpus
  <2> QED
    BY <2>1, <2>2, Zenon DEF Saved
<1>12. \A d \in SCPUs \ {c} : scpu[d].on # t
  BY <1>1, SMTT(20) DEF LockInv, PlacesOK
<1>13. scpu' = [scpu EXCEPT ![c] = u] /\ slock' = slock
  BY <1>0, Zenon DEF EnterSched
<1> QED
  <2>1. BeforeSwitch(c, t)
    BY <1>1, <1>3, <1>6, <1>12, Zenon DEF BeforeSwitch
  <2>2. AfterSwitch(c, t, fc, ft, u)
    BY <1>1, <1>6, <1>7, <1>8, <1>11, Zenon DEF AfterSwitch
  <2> QED
    BY <2>1, <2>2, <1>1, <1>4, <1>6, <1>7, <1>8, <1>9, <1>10, <1>13, SwitchStep, Zenon

\* The scheduler's swtch(): a thread that does not run gets its own intena back.
LEMMA SwtchStep ==
  ASSUME LockInv, NEW c \in SCPUs, NEW t \in Threads, Swtch(c, t)
  PROVE  LockInv'
<1>0. SUFFICES ASSUME NEW v, v = scpu[c], NEW u, u = [v EXCEPT !.on = t, !.intena = Resumed(c, t)],
                      NEW ft, ft = [frames[t][1] EXCEPT !.pc = "in"],
                      NEW fc, fc = [frames[c][1] EXCEPT !.pc = "away"]
               PROVE  LockInv'
  BY Zenon
<1>1. /\ t # c /\ frames[c][1] = Top(c) /\ scpu[c].on = c /\ Top(c).pc = "in"
      /\ frames[t][1].pc = "switched" /\ frames[t] \in Seq(Frames) /\ Len(frames[t]) >= 1
  BY ContextsApart, Zenon DEF Swtch, At, Top, LockInv, SlTypeOK, Contexts
<1>2. /\ Top(c) \in Frames /\ v \in Cpus /\ Len(frames[c]) \in Nat /\ Len(frames[c]) >= 1
      /\ PlaceOK(Top(c), v) /\ LocksOK(Top(c), c)
      /\ Len(frames[c]) = 1 => SchedulerOK(Top(c))
  BY <1>0, <1>1, AtCpu, Zenon DEF CpuOK
<1>3. Len(frames[c]) = 1
  BY <1>1, <1>2, OneOrMore, Zenon DEF Swtch, InIrq
<1>4. Top(c).held = {"ptable"}
  BY <1>1, <1>2, <1>3, Zenon DEF PlaceOK, SchedulerOK
<1>5. v.ncli = 1 /\ v.ifl = FALSE /\ slock["ptable"].locked /\ slock["ptable"].cpu = c
  <2>1. v.ncli = 1
    BY <1>1, <1>2, <1>4 DEF PlaceOK, Ncli, Depth
  <2>2. v.ifl = FALSE
    BY <1>1, <1>2, Zenon DEF PlaceOK, Cpus
  <2>3. slock["ptable"].locked /\ slock["ptable"].cpu = c
    BY <1>1, <1>2, <1>4, Zenon DEF LocksOK
  <2> QED
    BY <2>1, <2>2, <2>3, Zenon
<1>6. \A d \in SCPUs : scpu[d].on # t
  <2>1. ASSUME NEW d \in SCPUs, scpu[d].on = t PROVE FALSE
    <3>1. PlaceOK(frames[t][1], scpu[d])
      BY <2>1, AtCpu, Zenon DEF CpuOK, Top
    <3> QED
      BY <3>1, <1>1, SMTT(20) DEF PlaceOK, RunPC
  <2> QED
    BY <2>1, Zenon
<1>7. frames[t][1] \in Frames /\ frames[t][1].held = {"ptable"}
  <2>1. frames[t][1] \in Frames
    BY <1>1
  <2>2. Switched(frames[t][1])
    BY <1>6, Zenon DEF LockInv, PlacesOK, Running
  <2> QED
    BY <2>1, <2>2, Zenon DEF Switched
<1>8. ft \in Frames /\ ft.pc = "in" /\ ft.held = {"ptable"} /\ ft.fork = frames[t][1].fork
  BY <1>0, <1>7, Zenon DEF Frames, RunPC
<1>9. fc \in Frames /\ fc.pc = "away" /\ fc.held = {"ptable"}
  BY <1>0, <1>1, <1>2, <1>4, Zenon DEF Frames, RunPC
<1>10. Resumed(c, t) \in BOOLEAN
  <2>1. scpu[c].intena \in BOOLEAN
    BY <1>0, <1>2, Zenon DEF Cpus
  <2>2. CASE intenaOf[t] = {}
    BY <2>1, <2>2, Zenon DEF Resumed
  <2>3. CASE intenaOf[t] # {}
    BY <2>3, Zenon DEF Resumed, LockInv, SlTypeOK
  <2> QED
    BY <2>2, <2>3, Zenon
<1>11. /\ u \in Cpus /\ u.on = t /\ u.ncli = 1 /\ u.ifl = FALSE /\ u.intena = Resumed(c, t)
  <2>1. u \in Cpus /\ u.on = t /\ u.ncli = v.ncli
    BY <1>0, <1>2, <1>10, Zenon DEF Cpus, Contexts
  <2>2. u.ifl = v.ifl
    BY <1>0, <1>2, Zenon DEF Cpus
  <2>3. u.intena = Resumed(c, t)
    BY <1>0, <1>2, Zenon DEF Cpus
  <2> QED
    BY <2>1, <2>2, <2>3, <1>5, Zenon
<1>12. ~ft.fork => (u.intena <=> Len(frames[t]) = 1)
  <2> SUFFICES ASSUME ~ft.fork PROVE u.intena <=> Len(frames[t]) = 1
    BY Zenon
  <2>1. intenaOf[t] = {Len(frames[t]) = 1}
    BY <1>1, <1>8, Zenon DEF LockInv, SavedOK, Saved
  <2> QED
    BY <2>1, <1>11, Zenon DEF Resumed
<1>13. NewTops(c, t, fc, ft)
  <2>1. frames' = [frames EXCEPT ![t] = [frames[t] EXCEPT ![1] = ft],
                                 ![c] = [frames[c] EXCEPT ![1] = fc]]
    <3>1. t \in Contexts /\ c \in Contexts /\ frames \in [Contexts -> Seq(Frames)]
      BY Zenon DEF Contexts, LockInv, SlTypeOK
    <3> QED
      BY <3>1, <1>0, <1>1, Zenon DEF Swtch
  <2> QED
    BY <2>1, <1>8, <1>9, TwoTops, Zenon
<1>14. NewSaved(t)
  BY Zenon DEF Swtch, LockInv, SlTypeOK, NewSaved
<1>15. scpu' = [scpu EXCEPT ![c] = u] /\ slock' = slock /\ spanic' = FALSE
  <2>1. scpu' = [scpu EXCEPT ![c].on = t, ![c].intena = Resumed(c, t)] /\ scpu \in [SCPUs -> Cpus]
    BY DEF Swtch, LockInv, SlTypeOK, Cpus
  <2>2. scpu' = [scpu EXCEPT ![c] = u]
    BY <2>1, <1>0, Zenon
  <2>3. slock' = slock /\ spanic' = FALSE
    BY DEF Swtch, LockInv
  <2> QED
    BY <2>2, <2>3, Zenon
<1>16. /\ u \in Cpus /\ u.ncli = 1 /\ u.ifl = FALSE /\ u.on = t /\ u.on \in {c, t} /\ u.on # c
       /\ scpu[c].on \in {c, t} /\ \A d \in SCPUs \ {c} : scpu[d].on # t
  BY <1>1, <1>6, <1>11, Zenon
<1>17. ~ft.fork => Restored(u, Len(frames[t]))
  BY <1>12, Zenon DEF Restored
<1> QED
  <2>1. BeforeSwitch(c, t)
    BY <1>3, <1>4, <1>5, <1>16, Zenon DEF BeforeSwitch
  <2>2. AfterSwitch(c, t, fc, ft, u)
    BY <1>8, <1>9, <1>16, <1>17, Zenon DEF AfterSwitch
  <2> QED
    BY <2>1, <2>2, <1>8, <1>9, <1>13, <1>14, <1>15, <1>16, SwitchStep, Zenon
-----------------------------------------------------------------------------
\* Every step of a CPU keeps the invariant.
LEMMA NextInv == LockInv /\ [SlNext]_slVars => LockInv'
<1> SUFFICES ASSUME LockInv, [SlNext]_slVars PROVE LockInv'
  BY Zenon
<1>1. CASE UNCHANGED slVars
  <2>1. slock' = slock /\ scpu' = scpu /\ frames' = frames /\ intenaOf' = intenaOf /\ spanic' = spanic
    BY <1>1, Zenon DEF slVars
  <2>2. SlTypeOK' /\ ~spanic'
    BY <2>1 DEF LockInv, SlTypeOK
  <2>3. \A c \in SCPUs : CpuOK(c)'
    BY <2>1, Zenon DEF LockInv, CpuOK, LocksOK, Top
  <2>4. PlacesOK' /\ SavedOK'
    BY <2>1, Zenon DEF LockInv, PlacesOK, Running, SavedOK
  <2>5. \A x \in Contexts : BelowOK(x)'
    BY <2>1, Zenon DEF LockInv, BelowOK
  <2>6. OwnersOK' /\ Apart'
    BY <2>1, Zenon DEF LockInv, OwnersOK, Apart, Top
  <2> QED
    BY <2>2, <2>3, <2>4, <2>5, <2>6, Zenon DEF LockInv
<1>2. ASSUME NEW c \in SCPUs, NEW l \in Locks, Acquire(c, l) PROVE LockInv'
  BY <1>2, AcquireStep, Zenon
<1>3. ASSUME NEW c \in SCPUs, NEW l \in Locks, Release(c, l) PROVE LockInv'
  BY <1>3, ReleaseStep, Zenon
<1>4. ASSUME NEW c \in SCPUs, Spin(c) PROVE LockInv'
  BY <1>4, SpinStep, Zenon
<1>5. ASSUME NEW c \in SCPUs, Mark(c) PROVE LockInv'
  BY <1>5, MarkStep, Zenon
<1>6. ASSUME NEW c \in SCPUs, Unlock(c) PROVE LockInv'
  BY <1>6, UnlockStep
<1>7. ASSUME NEW c \in SCPUs, Pop(c) PROVE LockInv'
  BY <1>7, PopStep
<1>8. ASSUME NEW c \in SCPUs, EnterSched(c) PROVE LockInv'
  BY <1>8, EnterSchedStep
<1>9. ASSUME NEW c \in SCPUs, Sti(c) PROVE LockInv'
  BY <1>9, StiStep
<1>10. ASSUME NEW c \in SCPUs, NEW t \in Threads, Swtch(c, t) PROVE LockInv'
  BY <1>10, SwtchStep, Zenon
<1>11. ASSUME NEW c \in SCPUs, Interrupt(c) PROVE LockInv'
  BY <1>11, InterruptStep
<1>12. ASSUME NEW c \in SCPUs, Iret(c) PROVE LockInv'
  BY <1>12, IretStep
<1> QED
  BY <1>1, <1>2, <1>3, <1>4, <1>5, <1>6, <1>7, <1>8, <1>9, <1>10, <1>11, <1>12, Zenon DEF SlNext

\* The inductive invariant holds in every reachable state of the locks, the CPUs
\* and the contexts that hand ptable.lock to each other.
THEOREM LockInvHolds == SlSpec => []LockInv
  BY InitInv, NextInv, PTL DEF SlSpec
-----------------------------------------------------------------------------
(* What the invariant shows.                                               *)


\* A frame that holds a lock and has not been switched away from is the one that
\* some CPU runs.
LEMMA HolderRuns ==
  ASSUME LockInv, NEW l \in Locks, NEW x \in Holders(l)
  PROVE  \E c \in SCPUs : scpu[c].on = x /\ l \in Top(c).held
<1>1. PICK i \in 1 .. Len(frames[x]) : l \in frames[x][i].held /\ frames[x][i].pc \notin {"switched", "away"}
  BY Zenon DEF Holders
<1>2. x \in Contexts /\ Len(frames[x]) \in Nat /\ BelowOK(x)
  BY DEF Holders, LockInv, SlTypeOK
<1>3. i = 1
  BY <1>1, <1>2 DEF BelowOK, Interrupted
<1>4. CASE x \in Threads
  <2>1. Running(x)
    BY <1>1, <1>3, <1>4, Zenon DEF LockInv, PlacesOK, Switched
  <2> QED
    BY <2>1, <1>1, <1>3, Zenon DEF Running, Top
<1>5. CASE x \in SCPUs
  <2>1. scpu[x].on = x
    BY <1>1, <1>3, <1>5, Zenon DEF LockInv, PlacesOK, OnlyAway
  <2> QED
    BY <2>1, <1>1, <1>3, <1>5, Zenon DEF Top
<1> QED
  BY <1>2, <1>4, <1>5, Zenon DEF Contexts

\* Mutual exclusion of spin locks: acquire()'s xchg, release() and the switches of
\* sched() and scheduler(), which pass ptable.lock on, never give a lock two holders.
THEOREM MutualExclusion == SlSpec => []LockExclusive
<1>1. ASSUME LockInv PROVE LockExclusive
  <2> SUFFICES ASSUME NEW l \in Locks PROVE Cardinality(Holders(l)) <= 1
    BY Zenon DEF LockExclusive
  <2>1. \A x, y \in Holders(l) : x = y
    BY <1>1, HolderRuns DEF LockInv, Apart
  <2>2. CASE Holders(l) = {}
    BY <2>2, FS_EmptySet
  <2>3. CASE Holders(l) # {}
    <3>1. PICK x : x \in Holders(l)
      BY <2>3, Zenon
    <3>2. Holders(l) = {x}
      BY <2>1, <3>1, Zenon
    <3> QED
      BY <3>2, FS_Singleton
  <2> QED
    BY <2>2, <2>3, Zenon
<1> QED
  BY <1>1, LockInvHolds, PTL

\* pushcli() before the spin: no CPU waits for a lock that its interrupted code holds;
\* and the panics of acquire(), release(), popcli() and sched() are never reached.
THEOREM LockStopFree == SlSpec => []NoLockStop
<1>1. ASSUME LockInv PROVE NoLockStop
  <2>1. \A c \in SCPUs : BelowOK(scpu[c].on)
    BY <1>1, Zenon DEF LockInv, SlTypeOK
  <2>2. NoSelfSpin
    BY <2>1, Zenon DEF NoSelfSpin, BelowOK, Interrupted
  <2>3. NoLockPanic
    BY <1>1 DEF LockInv, NoLockPanic
  <2> QED
    BY <2>2, <2>3, Zenon DEF NoLockStop
<1> QED
  BY <1>1, LockInvHolds, PTL

\* ncli and intena give back the interrupt flag that was there before the first
\* pushcli(), although sched() and scheduler() move contexts between CPUs.
THEOREM InterruptFlagRestored == SlSpec => []InterruptsRestored
<1>1. ASSUME LockInv PROVE InterruptsRestored
  <2> SUFFICES ASSUME NEW c \in SCPUs, Top(c).pc = "run", ~Top(c).fork
               PROVE  scpu[c].ifl <=> ~InIrq(c)
    BY Zenon DEF InterruptsRestored
  <2>1. scpu[c].ifl <=> Len(frames[scpu[c].on]) = 1
    BY <1>1, AtCpu, Zenon DEF CpuOK, InterruptsOK
  <2>2. Len(frames[scpu[c].on]) > 1 <=> Len(frames[scpu[c].on]) # 1
    BY <1>1, AtCpu, OneOrMore, Zenon
  <2> QED
    BY <2>1, <2>2, Zenon DEF InIrq
<1> QED
  BY <1>1, LockInvHolds, PTL
=============================================================================
