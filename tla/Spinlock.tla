------------------------------ MODULE Spinlock ------------------------------
(***************************************************************************)
(* Spin locks and interrupts: spinlock.c, with the places of proc.c and    *)
(* trap.c that hand a held ptable.lock from one context to another.        *)
(*                                                                         *)
(* A context is a kernel thread or the scheduler of a CPU; an interrupt    *)
(* runs as a further frame of the context that it interrupts, and a timer  *)
(* interrupt may give up the CPU from there.  What the contexts do with    *)
(* their locks is what the kernel's code does: one lock of their own       *)
(* (lk), ptable.lock alone or inside lk, and sched() under ptable.lock.    *)
(***************************************************************************)
EXTENDS Naturals, Sequences, FiniteSets

CONSTANTS SCPUs, Threads, NoCpu, MaxFrames   \* bound on nested interrupts

\* A CPU is no thread, and the 0 of lk->cpu no CPU.
ASSUME ContextsApart == SCPUs \cap Threads = {} /\ NoCpu \notin SCPUs

Locks == {"lk", "ptable"}
Contexts == Threads \cup SCPUs      \* a CPU stands for its scheduler

VARIABLES
  slock,     \* lock -> [locked, cpu]
  scpu,      \* CPU -> [ifl, ncli, intena, on], on: the context that runs
  frames,    \* context -> its frames, innermost first: [pc, l, held, fork]
  intenaOf,  \* thread -> {intena}: what its sched() saved, until it is restored
  spanic

slVars == <<slock, scpu, frames, intenaOf, spanic>>

Frame(pc) == [pc |-> pc, l |-> "lk", held |-> {}, fork |-> FALSE]
\* A new thread: forkret(), which trapret follows, as in an interrupt.
Forkret == [Frame("switched") EXCEPT !.held = {"ptable"}, !.fork = TRUE]
SlInit ==
  /\ slock = [l \in Locks |-> [locked |-> FALSE, cpu |-> NoCpu]]
  /\ scpu = [c \in SCPUs |-> [ifl |-> FALSE, ncli |-> 0, intena |-> FALSE, on |-> c]]
  /\ frames = [x \in Contexts |->
       IF x \in SCPUs THEN <<Frame("loop")>> ELSE <<Forkret, Frame("run")>>]
  /\ intenaOf = [t \in Threads |-> {}]
  /\ spanic = FALSE
-----------------------------------------------------------------------------
Top(c) == frames[scpu[c].on][1]
At(c, pc) == ~spanic /\ Top(c).pc = pc
InIrq(c) == Len(frames[scpu[c].on]) > 1
SetTop(c, f) == frames' = [frames EXCEPT ![scpu[c].on][1] = f]
Holding(c, l) == slock[l].locked /\ slock[l].cpu = c
PanicIf(b) == spanic' = b

\* pushcli() and popcli().
Mut_Pushed(u) == [u EXCEPT !.intena = IF u.ncli = 0 THEN u.ifl ELSE @, !.ncli = @ + 1]
Pushed(u) == [u EXCEPT !.intena = IF u.ncli = 0 THEN u.ifl ELSE @, !.ncli = @ + 1, !.ifl = FALSE]
Popped(u) == [u EXCEPT !.ncli = @ - 1, !.ifl = IF u.ncli = 1 THEN u.intena ELSE @]

\* acquire(l): pushcli() and the test for a lock that this CPU holds, ...
MayAcquire(c, l) == \/ Top(c).pc = "run" /\ (scpu[c].on \in SCPUs /\ ~InIrq(c) => l = "ptable")
                    \/ Top(c).pc = "in" /\ Top(c).held = {"lk"} /\ l = "ptable"
Acquire(c, l) ==
  /\ ~spanic /\ MayAcquire(c, l)
  /\ scpu' = [scpu EXCEPT ![c] = Pushed(@)]
  /\ SetTop(c, [Top(c) EXCEPT !.pc = "spin", !.l = l])
  /\ PanicIf(Holding(c, l))
  /\ UNCHANGED <<slock, intenaOf>>

\* ... xchg ...
Mut_Xchg(l) == TRUE
Xchg(l) == ~slock[l].locked
Spin(c) ==
  /\ At(c, "spin") /\ Xchg(Top(c).l)
  /\ slock' = [slock EXCEPT ![Top(c).l].locked = TRUE]
  /\ SetTop(c, [Top(c) EXCEPT !.pc = "mark", !.held = @ \cup {Top(c).l}])
  /\ UNCHANGED <<scpu, intenaOf, spanic>>

\* ... and lk->cpu.
Mark(c) ==
  /\ At(c, "mark")
  /\ slock' = [slock EXCEPT ![Top(c).l].cpu = c]
  /\ SetTop(c, [Top(c) EXCEPT !.pc = "in", !.l = "lk"])
  /\ UNCHANGED <<scpu, intenaOf, spanic>>

\* release(l): lk->cpu, then lk->locked, then popcli().
Release(c, l) ==
  /\ At(c, "in") /\ l \in Top(c).held
  /\ slock' = [slock EXCEPT ![l].cpu = NoCpu]
  /\ SetTop(c, [Top(c) EXCEPT !.pc = "unlock", !.l = l])
  /\ PanicIf(~Holding(c, l))
  /\ UNCHANGED <<scpu, intenaOf>>
Unlock(c) ==
  /\ At(c, "unlock")
  /\ slock' = [slock EXCEPT ![Top(c).l].locked = FALSE]
  /\ SetTop(c, [Top(c) EXCEPT !.pc = "pop", !.held = @ \ {Top(c).l}])
  /\ UNCHANGED <<scpu, intenaOf, spanic>>
Outside(c) == IF scpu[c].on = c /\ ~InIrq(c) THEN "loop" ELSE "run"
Pop(c) ==
  /\ At(c, "pop")
  /\ PanicIf(scpu[c].ifl \/ scpu[c].ncli = 0)
  /\ scpu' = [scpu EXCEPT ![c] = IF scpu[c].ncli = 0 THEN @ ELSE Popped(@)]
  /\ SetTop(c, [Top(c) EXCEPT !.pc = IF Top(c).held = {} THEN Outside(c) ELSE "in", !.l = "lk"])
  /\ UNCHANGED <<slock, intenaOf>>
-----------------------------------------------------------------------------
\* sched(), of a thread that holds ptable.lock only: its panics, and the switch to
\* this CPU's scheduler, which continues under the lock.
SchedPanics(c) == ~Holding(c, "ptable") \/ scpu[c].ncli # 1 \/ scpu[c].ifl
EnterSched(c) ==
  LET t == scpu[c].on
  IN  /\ At(c, "in") /\ t \in Threads /\ Top(c).held = {"ptable"}
      /\ PanicIf(SchedPanics(c))
      /\ intenaOf' = [intenaOf EXCEPT ![t] = {scpu[c].intena}]
      /\ frames' = [frames EXCEPT ![t][1].pc = "switched", ![c][1].pc = "in"]
      /\ scpu' = [scpu EXCEPT ![c].on = c]
      /\ UNCHANGED slock

\* scheduler(): sti() at the top of its loop; under the lock, swtch() to a thread,
\* which goes on in sched() with its own intena, or in forkret().
Sti(c) ==
  /\ At(c, "loop")
  /\ scpu' = [scpu EXCEPT ![c].ifl = TRUE]
  /\ SetTop(c, [Top(c) EXCEPT !.pc = "run"])
  /\ UNCHANGED <<slock, intenaOf, spanic>>
Mut_Resumed(c, t) == scpu[c].intena
Resumed(c, t) == IF intenaOf[t] = {} THEN scpu[c].intena ELSE CHOOSE b \in intenaOf[t] : TRUE
Swtch(c, t) ==
  /\ At(c, "in") /\ scpu[c].on = c /\ ~InIrq(c)
  /\ frames[t][1].pc = "switched"
  /\ frames' = [frames EXCEPT ![c][1].pc = "away", ![t][1].pc = "in"]
  /\ scpu' = [scpu EXCEPT ![c].on = t, ![c].intena = Resumed(c, t)]
  /\ intenaOf' = [intenaOf EXCEPT ![t] = {}]
  /\ UNCHANGED <<slock, spanic>>

\* An interrupt: its gate turns interrupts off, iret turns them on again.
Interrupt(c) ==
  /\ ~spanic /\ scpu[c].ifl /\ Len(frames[scpu[c].on]) < MaxFrames
  /\ frames' = [frames EXCEPT ![scpu[c].on] = <<Frame("run")>> \o @]
  /\ scpu' = [scpu EXCEPT ![c].ifl = FALSE]
  /\ UNCHANGED <<slock, intenaOf, spanic>>
Iret(c) ==
  /\ At(c, "run") /\ InIrq(c)
  /\ frames' = [frames EXCEPT ![scpu[c].on] = Tail(@)]
  /\ scpu' = [scpu EXCEPT ![c].ifl = TRUE]
  /\ UNCHANGED <<slock, intenaOf, spanic>>

SlNext == \E c \in SCPUs :
  \/ \E l \in Locks : Acquire(c, l) \/ Release(c, l)
  \/ Spin(c) \/ Mark(c) \/ Unlock(c) \/ Pop(c)
  \/ EnterSched(c) \/ Sti(c) \/ \E t \in Threads : Swtch(c, t)
  \/ Interrupt(c) \/ Iret(c)
SlSpec == SlInit /\ [][SlNext]_slVars
-----------------------------------------------------------------------------
\* A lock is held in one place, wherever its holder has moved to.
Holders(l) == {x \in Contexts : \E i \in 1 .. Len(frames[x]) :
                 l \in frames[x][i].held /\ frames[x][i].pc \notin {"switched", "away"}}
LockExclusive == \A l \in Locks : Cardinality(Holders(l)) <= 1

\* No CPU spins for a lock that its own interrupted code holds ("disable interrupts
\* to avoid deadlock", spinlock.c:27).
NoSelfSpin == \A c \in SCPUs : LET fs == frames[scpu[c].on]
  IN  fs[1].pc = "spin" => \A i \in 2 .. Len(fs) : fs[1].l \notin fs[i].held

\* None of the checks in acquire(), release(), popcli() and sched() fails.
NoLockPanic == ~spanic

\* No CPU stops in spinlock.c, by a panic or by waiting for itself.
NoLockStop == NoSelfSpin /\ NoLockPanic

\* Outside of all locks a thread runs with interrupts on and an interrupt handler
\* with interrupts off, also after sched() has moved it to another CPU.  (forkret()
\* runs with whatever the last thread on its CPU left in intena.)
InterruptsRestored == \A c \in SCPUs :
  Top(c).pc = "run" /\ ~Top(c).fork => (scpu[c].ifl <=> ~InIrq(c))
=============================================================================
