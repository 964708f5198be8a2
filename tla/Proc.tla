-------------------------------- MODULE Proc --------------------------------
(***************************************************************************)
(* The process table of proc.c: scheduler, fork, exit, wait, kill, sleep   *)
(* and wakeup, on several CPUs, with the ptable.lock handed through        *)
(* swtch() from a process to the scheduler and back.                       *)
(*                                                                         *)
(* One action is one critical section under ptable.lock, or one of the    *)
(* unlocked writes of fork() and allocproc().  `lock' is the CPU that      *)
(* holds ptable.lock between actions: that happens only around swtch().    *)
(* A process is a slot of ptable.proc; 0 is the null pointer.              *)
(***************************************************************************)
EXTENDS Naturals, FiniteSets

CONSTANTS
  NPROC,      \* slots of ptable.proc
  CPUs,       \* processors
  Chans,      \* sleep channels other than a process (locks, buffers, ticks...)
  KillArgs,   \* arguments of kill()
  MaxPid      \* bound: fork() is not called once nextpid has passed it

ASSUME ProcConstants ==
  /\ NPROC \in Nat \ {0} /\ MaxPid \in Nat
  /\ KillArgs \subseteq Nat
  /\ 0 \notin CPUs
  /\ \A ch \in Chans : ch \notin 0 .. NPROC

VARIABLES
  state, pid, parent, killed, chan,   \* struct proc
  nextpid,
  lock,       \* the CPU holding ptable.lock across a swtch(), or 0
  curr,       \* cpu -> c->proc
  scan,       \* cpu -> where scheduler()'s loop over the table goes on
  pc,         \* slot -> what the process is doing
  resume,     \* slot -> the call of sched() it comes back from, or "none"
  child,      \* slot -> np of fork()
  asked,      \* history: the pids kill() was called with
  initExiting \* panic("init exiting")

vars == <<state, pid, parent, killed, chan, nextpid, lock, curr, scan, pc,
          resume, child, asked, initExiting>>
table == <<state, pid, parent, killed, chan, nextpid>>
cpu == <<lock, curr, scan>>

Slots == 1 .. NPROC
States == {"UNUSED", "EMBRYO", "SLEEPING", "RUNNABLE", "RUNNING", "ZOMBIE"}
PC == {"user", "fork", "fork_copy", "fork_run", "wait", "kill", "block", "exit"}
initproc == 1

First(S) == CHOOSE s \in S : \A t \in S : s <= t

\* userinit(): slot 1 holds init, ready to enter forkret().
Init ==
  /\ state = [s \in Slots |-> IF s = initproc THEN "RUNNABLE" ELSE "UNUSED"]
  /\ pid = [s \in Slots |-> IF s = initproc THEN 1 ELSE 0]
  /\ parent = [s \in Slots |-> 0]
  /\ killed = [s \in Slots |-> FALSE]
  /\ chan = [s \in Slots |-> 0]
  /\ nextpid = 2
  /\ lock = 0
  /\ curr = [c \in CPUs |-> 0]
  /\ scan = [c \in CPUs |-> 1]
  /\ pc = [s \in Slots |-> "user"]
  /\ resume = [s \in Slots |-> IF s = initproc THEN "forkret" ELSE "none"]
  /\ child = [s \in Slots |-> 0]
  /\ asked = {}
  /\ initExiting = FALSE
-----------------------------------------------------------------------------
(* The scheduler and the switch.                                           *)

\* scheduler() up to the swtch() into the next RUNNABLE process of its pass,
\* or to the end of the pass.  It starts a pass by acquiring ptable.lock and
\* continues one with the lock that came back through swtch().
Dispatch(c) ==
  LET from == IF lock = c THEN scan[c] ELSE 1
      ready == {s \in from .. NPROC : state[s] = "RUNNABLE"}
  IN  /\ curr[c] = 0
      /\ lock \in {0, c}
      /\ \/ /\ ready # {}
            /\ state' = [state EXCEPT ![First(ready)] = "RUNNING"]
            /\ curr' = [curr EXCEPT ![c] = First(ready)]
            /\ lock' = c
         \/ /\ ready = {} /\ lock = c
            /\ lock' = 0
            /\ UNCHANGED <<state, curr>>
      /\ scan' = [scan EXCEPT ![c] = 1]
      /\ UNCHANGED <<pid, parent, killed, chan, nextpid, pc, resume, child,
                     asked, initExiting>>

\* The lock that a process entering sched() passes to the scheduler of its CPU.
Mut_SchedLock(c) == 0
SchedLock(c) == c

\* Process s, on CPU c, calls sched() from `site' holding ptable.lock, with the
\* states of the table at `st'.  It is on its kernel stack until SwitchBack.
Sched(c, s, st, site) ==
  /\ state' = st
  /\ resume' = [resume EXCEPT ![s] = site]
  /\ lock' = SchedLock(c)

\* Where the loop over the table goes on after process s.
Mut_SameScan(s) == s
NextScan(s) == s + 1

\* The swtch() of sched() has reached the scheduler: c->proc = 0.
SwitchBack(c) ==
  /\ curr[c] # 0
  /\ state[curr[c]] # "RUNNING"
  /\ curr' = [curr EXCEPT ![c] = 0]
  /\ scan' = [scan EXCEPT ![c] = NextScan(curr[c])]
  /\ UNCHANGED <<table, lock, pc, resume, child, asked, initExiting>>

\* Process s runs on CPU c and has nothing of sched() left to do.
Running(c, s) ==
  /\ curr[c] = s
  /\ state[s] = "RUNNING"
  /\ resume[s] = "none"

\* What follows the swtch(): forkret(), yield() and the end of sleep() release
\* ptable.lock, the latter after p->chan = 0.  wait() goes on: see Wait.
Return(c) ==
  LET s == curr[c]
  IN  /\ s # 0 /\ lock = c /\ state[s] = "RUNNING"
      /\ resume[s] \in {"forkret", "yield", "sleep"}
      /\ chan' = [chan EXCEPT ![s] = IF resume[s] = "sleep" THEN 0 ELSE @]
      /\ resume' = [resume EXCEPT ![s] = "none"]
      /\ lock' = 0
      /\ UNCHANGED <<state, pid, parent, killed, nextpid, curr, scan, pc, child,
                     asked, initExiting>>

\* The timer interrupt makes a process yield(), in user or in kernel mode;
\* trap() sends a killed process to exit() first, if it was in user mode.
Yield(c) ==
  LET s == curr[c]
  IN  /\ s # 0 /\ Running(c, s) /\ lock = 0
      /\ ~(pc[s] = "user" /\ killed[s])
      /\ Sched(c, s, [state EXCEPT ![s] = "RUNNABLE"], "yield")
      /\ UNCHANGED <<pid, parent, killed, chan, nextpid, curr, scan, pc, child,
                     asked, initExiting>>
-----------------------------------------------------------------------------
(* System calls.                                                           *)

\* trap() enters a system call unless the process is killed; init never
\* calls exit().
Syscall(c) ==
  LET s == curr[c]
  IN  /\ s # 0 /\ Running(c, s) /\ pc[s] = "user"
      /\ \/ /\ ~killed[s]
            /\ \E call \in {"fork", "wait", "kill", "block"} :
                 /\ call = "fork" => nextpid <= MaxPid
                 /\ call = "kill" => KillArgs # {}
                 /\ call = "block" => Chans # {}
                 /\ pc' = [pc EXCEPT ![s] = call]
         \/ /\ killed[s] \/ s # initproc
            /\ pc' = [pc EXCEPT ![s] = "exit"]
      /\ UNCHANGED <<table, cpu, resume, child, asked, initExiting>>

Done(s) == pc' = [pc EXCEPT ![s] = "user"]

\* p->pid = nextpid++
NextPid == nextpid + 1

\* allocproc() under ptable.lock: fork() fails at once if no slot is free.
AllocProc(c) ==
  LET s == curr[c]
      free == {t \in Slots : state[t] = "UNUSED"}
      np == First(free)
  IN  /\ s # 0 /\ Running(c, s) /\ pc[s] = "fork" /\ lock = 0
      /\ \/ /\ free = {}
            /\ Done(s)
            /\ UNCHANGED <<state, pid, nextpid, child>>
         \/ /\ free # {}
            /\ state' = [state EXCEPT ![np] = "EMBRYO"]
            /\ pid' = [pid EXCEPT ![np] = nextpid]
            /\ nextpid' = NextPid
            /\ child' = [child EXCEPT ![s] = np]
            /\ pc' = [pc EXCEPT ![s] = "fork_copy"]
      /\ UNCHANGED <<parent, killed, chan, cpu, resume, asked, initExiting>>

\* kalloc() or copyuvm() failed: the slot is freed without ptable.lock, and
\* keeps its pid.
ForkFail(c) ==
  LET s == curr[c]
  IN  /\ s # 0 /\ Running(c, s) /\ pc[s] = "fork_copy"
      /\ state' = [state EXCEPT ![child[s]] = "UNUSED"]
      /\ child' = [child EXCEPT ![s] = 0]
      /\ Done(s)
      /\ UNCHANGED <<pid, parent, killed, chan, nextpid, cpu, resume, asked,
                     initExiting>>

\* The memory is copied: np->parent = curproc, without ptable.lock.
ForkCopy(c) ==
  LET s == curr[c]
  IN  /\ s # 0 /\ Running(c, s) /\ pc[s] = "fork_copy"
      /\ parent' = [parent EXCEPT ![child[s]] = s]
      /\ pc' = [pc EXCEPT ![s] = "fork_run"]
      /\ UNCHANGED <<state, pid, killed, chan, nextpid, cpu, resume, child, asked,
                     initExiting>>

\* fork() makes the child RUNNABLE; it will start in forkret().
ForkRun(c) ==
  LET s == curr[c]
  IN  /\ s # 0 /\ Running(c, s) /\ pc[s] = "fork_run" /\ lock = 0
      /\ state' = [state EXCEPT ![child[s]] = "RUNNABLE"]
      /\ resume' = [resume EXCEPT ![child[s]] = "forkret"]
      /\ child' = [child EXCEPT ![s] = 0]
      /\ pc' = [pc EXCEPT ![s] = "user", ![child[s]] = "user"]
      /\ UNCHANGED <<pid, parent, killed, chan, nextpid, cpu, asked, initExiting>>

\* wakeup1(): the states after everyone sleeping on ch was made RUNNABLE.
Wakeup1(st, ch) ==
  [s \in Slots |-> IF st[s] = "SLEEPING" /\ chan[s] = ch THEN "RUNNABLE" ELSE st[s]]

\* The children that exit() passes to init.
Mut_Abandoned(s) == {t \in Slots : parent[t] = s /\ state[t] # "ZOMBIE"}
Abandoned(s) == {t \in Slots : parent[t] = s}

\* The wakeups of exit(): the parent, and init if it inherits a zombie.
Mut_ExitSilent(s) == state
ExitWakes(s) ==
  IF \E t \in Abandoned(s) : state[t] = "ZOMBIE"
  THEN Wakeup1(Wakeup1(state, parent[s]), initproc)
  ELSE Wakeup1(state, parent[s])

\* exit(), its file system part left out; init panics.
Exit(c) ==
  LET s == curr[c]
  IN  /\ s # 0 /\ Running(c, s) /\ pc[s] = "exit" /\ lock = 0
      /\ \/ /\ s = initproc
            /\ initExiting' = TRUE
            /\ UNCHANGED <<state, parent, resume, lock>>
         \/ /\ s # initproc
            /\ parent' = [t \in Slots |-> IF t \in Abandoned(s) THEN initproc ELSE parent[t]]
            /\ Sched(c, s, [ExitWakes(s) EXCEPT ![s] = "ZOMBIE"], "none")
            /\ UNCHANGED initExiting
      /\ UNCHANGED <<pid, killed, chan, nextpid, curr, scan, pc, child, asked>>

Children(s) == {t \in Slots : parent[t] = s}
Zombies(s) == {t \in Children(s) : state[t] = "ZOMBIE"}

\* wait() gives up: No point waiting if we don't have any children.
Mut_WaitFails(s) == Children(s) = {}
WaitFails(s) == Children(s) = {} \/ killed[s]

\* One round of wait()'s loop, at its start or after its sleep(): reap the
\* first zombie child, fail, or sleep on the process itself.
Wait(c) ==
  LET s == curr[c]
      z == First(Zombies(s))
  IN  /\ s # 0 /\ pc[s] = "wait"
      /\ \/ Running(c, s) /\ lock = 0
         \/ state[s] = "RUNNING" /\ resume[s] = "wait" /\ lock = c
      /\ \/ /\ Zombies(s) # {}
            /\ state' = [state EXCEPT ![z] = "UNUSED"]
            /\ pid' = [pid EXCEPT ![z] = 0]
            /\ parent' = [parent EXCEPT ![z] = 0]
            /\ killed' = [killed EXCEPT ![z] = FALSE]
            /\ chan' = [chan EXCEPT ![s] = 0]
            /\ resume' = [resume EXCEPT ![s] = "none"]
            /\ lock' = 0
            /\ Done(s)
         \/ /\ Zombies(s) = {} /\ WaitFails(s)
            /\ chan' = [chan EXCEPT ![s] = 0]
            /\ resume' = [resume EXCEPT ![s] = "none"]
            /\ lock' = 0
            /\ Done(s)
            /\ UNCHANGED <<state, pid, parent, killed>>
         \/ /\ Zombies(s) = {} /\ ~WaitFails(s)
            /\ chan' = [chan EXCEPT ![s] = s]
            /\ Sched(c, s, [state EXCEPT ![s] = "SLEEPING"], "wait")
            /\ UNCHANGED <<pid, parent, killed, pc>>
      /\ UNCHANGED <<nextpid, curr, scan, child, asked, initExiting>>

\* The states after kill() has found its target.
KillWakes(t) == [state EXCEPT ![t] = IF @ = "SLEEPING" THEN "RUNNABLE" ELSE @]

\* kill(p): the first slot with that pid, whatever its state.
Kill(c, p) ==
  LET s == curr[c]
      found == {t \in Slots : pid[t] = p}
  IN  /\ s # 0 /\ Running(c, s) /\ pc[s] = "kill" /\ lock = 0
      /\ \/ /\ found = {}
            /\ UNCHANGED <<state, killed>>
         \/ /\ found # {}
            /\ killed' = [killed EXCEPT ![First(found)] = TRUE]
            /\ state' = KillWakes(First(found))
      /\ asked' = asked \cup {p}
      /\ Done(s)
      /\ UNCHANGED <<pid, parent, chan, nextpid, cpu, resume, child, initExiting>>

\* sleep(ch, lk) of any other kernel code, lk released under ptable.lock.
Sleep(c, ch) ==
  LET s == curr[c]
  IN  /\ s # 0 /\ Running(c, s) /\ pc[s] = "block" /\ lock = 0
      /\ chan' = [chan EXCEPT ![s] = ch]
      /\ Sched(c, s, [state EXCEPT ![s] = "SLEEPING"], "sleep")
      /\ Done(s)
      /\ UNCHANGED <<pid, parent, killed, nextpid, curr, scan, child, asked,
                     initExiting>>

\* wakeup(ch), by a process or by an interrupt handler on any CPU.
Wakeup(ch) ==
  /\ lock = 0
  /\ state' = Wakeup1(state, ch)
  /\ UNCHANGED <<pid, parent, killed, chan, nextpid, cpu, pc, resume, child,
                 asked, initExiting>>

\* panic() never returns.
Halt == initExiting /\ UNCHANGED vars
-----------------------------------------------------------------------------
\* The steps of a process in the kernel, once it is back from sched().
KernelStep(c) ==
  \/ AllocProc(c) \/ ForkFail(c) \/ ForkCopy(c) \/ ForkRun(c)
  \/ Exit(c) \/ Wait(c)
  \/ \E p \in KillArgs : Kill(c, p)
  \/ \E ch \in Chans : Sleep(c, ch)

Next ==
  \/ ~initExiting /\ \E c \in CPUs : Dispatch(c) \/ SwitchBack(c) \/ Return(c) \/ Yield(c)
  \/ ~initExiting /\ \E c \in CPUs : Syscall(c) \/ KernelStep(c)
  \/ ~initExiting /\ \E ch \in Chans : Wakeup(ch)
  \/ Halt

Spec == Init /\ [][Next]_vars

\* The steps that the runs assume fair, and what gives them.  The timer interrupts
\* every CPU again and again, and a CPU that spins on ptable.lock gets it in the
\* end: hence strong fairness.  A timer interrupt that does not just return ends in
\* exit() or yield().  A process is not preempted before every instruction, so one
\* in the kernel goes on.  init.c calls wait() again and again.
SchedulerStep(c) == ~initExiting /\ (Dispatch(c) \/ SwitchBack(c) \/ Return(c))
TimerTrap(c) ==
  ~initExiting /\ (Yield(c) \/ (curr[c] # 0 /\ killed[curr[c]] /\ Syscall(c)))
GoesOn(s) == ~initExiting /\ \E c \in CPUs : curr[c] = s /\ KernelStep(c)
InitWaits ==
  ~initExiting /\ \E c \in CPUs : curr[c] = initproc /\ Syscall(c) /\ pc'[initproc] = "wait"
-----------------------------------------------------------------------------
(* Properties.                                                             *)

\* Every variable has its type.
TypeOK ==
  /\ state \in [Slots -> States]
  /\ pid \in [Slots -> Nat]
  /\ parent \in [Slots -> {0} \cup Slots]
  /\ killed \in [Slots -> BOOLEAN]
  /\ chan \in [Slots -> {0} \cup Slots \cup Chans]
  /\ nextpid \in Nat
  /\ lock \in {0} \cup CPUs
  /\ curr \in [CPUs -> {0} \cup Slots]
  /\ scan \in [CPUs -> Nat \ {0}]
  /\ pc \in [Slots -> PC]
  /\ resume \in [Slots -> {"none", "forkret", "yield", "sleep", "wait"}]
  /\ child \in [Slots -> {0} \cup Slots]
  /\ asked \subseteq Nat
  /\ initExiting \in BOOLEAN

\* The kernel stack of a process is in use on at most one CPU, and never while
\* the process may be picked by another scheduler, woken, reaped or reused: a
\* process on a CPU is RUNNING unless that CPU still holds ptable.lock.  And a
\* RUNNING process is on a CPU: the hand-over of the lock loses none.
StackSafe ==
  /\ \A c \in CPUs : curr[c] # 0 =>
       /\ state[curr[c]] = "RUNNING" \/ lock = c
       /\ state[curr[c]] \notin {"UNUSED", "EMBRYO"}
       /\ \A d \in CPUs : curr[d] = curr[c] => d = c
  /\ \A s \in Slots : state[s] = "RUNNING" => \E c \in CPUs : curr[c] = s

\* Every process but init has a parent that is alive, so that its exit status
\* is collected: exit() passes all its children to init.
ParentAlive ==
  \A s \in Slots \ {initproc} :
    state[s] \notin {"UNUSED", "EMBRYO"} =>
      /\ parent[s] # 0
      /\ state[parent[s]] \notin {"UNUSED", "EMBRYO", "ZOMBIE"}

\* No wakeup of wait() is lost: a process asleep in wait() has a child, none of
\* its children is a zombie, and it is not killed.
WaitNotLost ==
  \A s \in Slots : state[s] = "SLEEPING" /\ resume[s] = "wait" =>
    /\ Children(s) # {}
    /\ Zombies(s) = {}
    /\ ~killed[s]

\* A pid names one slot, so kill() marks the process it is asked to, although a
\* failed fork() leaves its pid in a free slot and kill() searches those too.
UniquePids ==
  /\ \A s \in Slots : state[s] # "UNUSED" => pid[s] # 0
  /\ \A s, t \in Slots : pid[s] = pid[t] /\ pid[s] # 0 => s = t

\* Whoever a scheduler may pick has a place to go on from, which a process that
\* has exited has not: kill() revives no zombie.
CanGoOn == \A s \in Slots : state[s] = "RUNNABLE" => resume[s] # "none"

\* The process table is sound between any two steps of any CPUs: a tree of live
\* processes below init, with distinct pids, each RUNNABLE one able to run.
TableSound == TypeOK /\ ParentAlive /\ UniquePids /\ CanGoOn

\* A process is only killed by a kill() of its pid ("Kill the process with the
\* given pid", proc.c:528; "If non-zero, have been killed", proc.h:49).
KilledOnPurpose ==
  \A s \in Slots : state[s] # "UNUSED" /\ killed[s] => pid[s] \in asked

\* The scheduler starves nobody: a RUNNABLE process gets a CPU.
RunnableRuns ==
  \A s \in Slots : state[s] = "RUNNABLE" ~> state[s] # "RUNNABLE" \/ initExiting

\* A zombie child of init, its own or inherited, is reaped.
OrphanReaped ==
  \A s \in Slots : state[s] = "ZOMBIE" /\ parent[s] = initproc ~>
    state[s] = "UNUSED" \/ initExiting
=============================================================================
