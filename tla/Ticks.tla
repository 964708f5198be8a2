-------------------------------- MODULE Ticks --------------------------------
(***************************************************************************)
(* The clock: timer interrupts in trap.c, sys_sleep() in sysproc.c.        *)
(*                                                                         *)
(* CPU 0 counts ticks without a lock and wakes the sleepers; sys_sleep()   *)
(* tests the count and goes to sleep without one either, so a tick may     *)
(* fall between its test and sleep()'s acquire of ptable.lock.  Every CPU  *)
(* yields when it takes its timer interrupt at a multiple of               *)
(* SCHED_INTERVAL.                                                         *)
(***************************************************************************)
EXTENDS Naturals

CONSTANTS
  TickCPUs, Cpu0, Sleepers,
  WORD,             \* ticks is a counter modulo 2^32
  SCHED_INTERVAL,
  Naps,             \* arguments of sleep()
  MaxDelay          \* ticks for which a runnable process may wait for a CPU

ASSUME TickConstants ==
  /\ WORD \in Nat \ {0} /\ SCHED_INTERVAL \in Nat \ {0}
  /\ Naps \subseteq Nat

VARIABLES
  ticks,
  wakePending,      \* CPU 0 has counted and not yet called wakeup(&ticks)
  took,             \* CPUs that took their timer interrupt since the last tick
  slice,            \* CPU -> its timer interrupts since it last yielded
  nap               \* process -> [pc, t0, n, killed, elapsed, waited]

tickVars == <<ticks, wakePending, took, slice, nap>>

Awake == [pc |-> "idle", t0 |-> 0, n |-> 0, killed |-> FALSE, elapsed |-> 0, waited |-> 0]
TickInit ==
  /\ ticks = 0
  /\ wakePending = FALSE
  /\ took = TickCPUs
  /\ slice = [c \in TickCPUs |-> 0]
  /\ nap = [p \in Sleepers |-> Awake]

\* trap(): the running process yields.
Mut_Yields(c) == ticks % SCHED_INTERVAL = 0 /\ c = Cpu0
Yields(c) == ticks % SCHED_INTERVAL = 0
Waiting(p) == nap[p].pc \in {"test", "sleep"}

\* The timer of CPU 0.  Assumed: timers have one rate, so that every CPU takes one
\* interrupt between two ticks, and a process that can run does so within MaxDelay
\* ticks.  `elapsed' is the time since the call, up to n; the code has no such counter.
Tick ==
  /\ took = TickCPUs /\ ~wakePending
  /\ \A p \in Sleepers : Waiting(p) => nap[p].waited < MaxDelay
  /\ ticks' = (ticks + 1) % WORD
  /\ wakePending' = TRUE
  /\ took' = {}
  /\ nap' = [p \in Sleepers |->
       IF nap[p].pc = "idle" THEN nap[p]
       ELSE [nap[p] EXCEPT !.elapsed = IF @ < nap[p].n THEN @ + 1 ELSE @,
                           !.waited = IF Waiting(p) THEN @ + 1 ELSE 0]]
  /\ UNCHANGED slice

\* wakeup(&ticks), before CPU 0 can be interrupted again.
Mut_Woken(s) == s
Woken(s) == IF s.pc = "asleep" THEN [s EXCEPT !.pc = "test", !.waited = 0] ELSE s
WakeSleepers ==
  /\ wakePending
  /\ wakePending' = FALSE
  /\ nap' = [p \in Sleepers |-> Woken(nap[p])]
  /\ UNCHANGED <<ticks, took, slice>>

\* The rest of trap() on CPU c, on CPU 0 after the count.
TimerIntr(c) ==
  /\ c \notin took /\ (c = Cpu0 => ~wakePending)
  /\ took' = took \cup {c}
  /\ slice' = [slice EXCEPT ![c] = IF Yields(c) THEN 0 ELSE @ + 1]
  /\ UNCHANGED <<ticks, wakePending, nap>>

SysSleep(p, n) ==
  /\ nap[p].pc = "idle"
  /\ nap' = [nap EXCEPT ![p] = [Awake EXCEPT !.pc = "test", !.t0 = ticks, !.n = n]]
  /\ UNCHANGED <<ticks, wakePending, took, slice>>

\* The loop of sys_sleep(): ticks - ticks0 < n, in unsigned arithmetic.
Early(p) == (ticks + WORD - nap[p].t0) % WORD < nap[p].n
NapTest(p) ==
  /\ nap[p].pc = "test"
  /\ nap' = [nap EXCEPT ![p].pc =
       IF ~Early(p) THEN "done" ELSE IF nap[p].killed THEN "failed" ELSE "sleep"]
  /\ UNCHANGED <<ticks, wakePending, took, slice>>

\* sleep(&ticks, 0), from the acquire of ptable.lock on.
NapSleep(p) ==
  /\ nap[p].pc = "sleep"
  /\ nap' = [nap EXCEPT ![p].pc = "asleep", ![p].waited = 0]
  /\ UNCHANGED <<ticks, wakePending, took, slice>>

NapReturn(p) ==
  /\ nap[p].pc \in {"done", "failed"}
  /\ nap' = [nap EXCEPT ![p] = [Awake EXCEPT !.killed = nap[p].killed]]
  /\ UNCHANGED <<ticks, wakePending, took, slice>>

\* kill(): sets the mark and wakes a sleeping process.
KillNap(p) ==
  /\ ~nap[p].killed /\ nap[p].pc # "idle"
  /\ nap' = [nap EXCEPT ![p] = [Woken(@) EXCEPT !.killed = TRUE]]
  /\ UNCHANGED <<ticks, wakePending, took, slice>>

NapStep(p) == NapTest(p) \/ NapSleep(p) \/ NapReturn(p)
TickNext == \/ Tick \/ WakeSleepers
            \/ \E c \in TickCPUs : TimerIntr(c)
            \/ \E p \in Sleepers : NapStep(p) \/ KillNap(p) \/ \E n \in Naps : SysSleep(p, n)
TickSpec == TickInit /\ [][TickNext]_tickVars
-----------------------------------------------------------------------------
\* sleep(n) does not return success before n ticks have passed, also when the
\* counter wraps around meanwhile.
NeverEarly == \A p \in Sleepers : nap[p].pc = "done" => nap[p].elapsed >= nap[p].n

\* sleep(n) returns, and never early: a tick that falls between the test and the
\* sleep, which no lock covers, costs one more tick, no more.
SleepReturns ==
  /\ []NeverEarly
  /\ \A p \in Sleepers : nap[p].pc = "test" ~> nap[p].pc = "idle"

\* No process keeps a CPU for more than SCHED_INTERVAL of that CPU's timer
\* interrupts, though CPUs other than 0 read a count they do not control.
SliceBounded == \A c \in TickCPUs : slice[c] <= SCHED_INTERVAL
=============================================================================
