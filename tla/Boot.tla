--------------------------------- MODULE Boot ---------------------------------
(***************************************************************************)
(* Booting: mpinit() of mp.c, which reads the table of the machine's       *)
(* processors, and main() of main.c, which starts them one by one through  *)
(* the words below 0x7000 that entryother.S reads.  Processors are named   *)
(* by their local APIC ids; a stack is a page of kalloc(), which takes no  *)
(* lock until kinit2() sets use_lock.                                      *)
(***************************************************************************)
EXTENDS Naturals, Sequences, FiniteSets

CONSTANTS Apics, Bsp,   \* the processors that exist, and the one that boots
          NCPU,
          Tables        \* MP tables: sequences of entries [type, apic]

\* A table has one entry for a processor.
ASSUME BootConstants ==
  /\ NCPU \in Nat /\ Bsp \in Apics
  /\ \A t \in Tables :
       /\ t \in Seq([type : {"proc", "ioapic", "bus", "unknown"}, apic : Apics])
       /\ \A i, j \in 1 .. Len(t) :
            t[i].type = "proc" /\ t[j].type = "proc" /\ t[i].apic = t[j].apic => i = j

VARIABLES mptable, cpus, bpc, ci,                       \* main() and what it calls
          slot, started, nextPage, useLock, runnable,   \* shared by the processors
          apst, stackOf                                 \* where each processor is
bspVars == <<mptable, cpus, bpc, ci>>
apVars == <<apst, stackOf>>
bootVars == <<bspVars, slot, started, nextPage, useLock, runnable, apVars>>

BootInit == /\ mptable = <<>> /\ cpus = <<>> /\ bpc = "table" /\ ci = 1
            /\ slot = 0 /\ started = {} /\ nextPage = 1 /\ useLock = FALSE /\ runnable = FALSE
            /\ apst = [c \in Apics |-> "halted"] /\ stackOf = [c \in Apics |-> 0]

\* mpsearch(), mpconfig(): the BIOS has a table, or main() panics.
FindTable == /\ bpc = "table"
             /\ \/ mptable' \in Tables /\ bpc' = "mpinit"
                \/ bpc' = "panic" /\ UNCHANGED mptable
             /\ UNCHANGED <<cpus, ci, slot, started, nextPage, useLock, runnable, apVars>>

\* mpinit(): an entry of the table.  The break of an unknown one leaves the switch, not the
\* loop, and the entry is never passed.
Known == {"proc", "ioapic", "bus"}
WithCpu(e) == IF e.type = "proc" /\ Len(cpus) < NCPU THEN Append(cpus, e.apic) ELSE cpus
MpEntry == /\ bpc = "mpinit" /\ mptable # <<>> /\ Head(mptable).type \in Known
           /\ cpus' = WithCpu(Head(mptable)) /\ mptable' = Tail(mptable)
           /\ UNCHANGED <<bpc, ci, slot, started, nextPage, useLock, runnable, apVars>>
MpDone == /\ bpc = "mpinit" /\ mptable = <<>> /\ bpc' = "next"
          /\ UNCHANGED <<mptable, cpus, ci, slot, started, nextPage, useLock, runnable, apVars>>

\* startothers(): the loop over cpus, which skips c == mycpu() and ends in kinit2().
NextCpu == /\ bpc = "next"
           /\ \/ ci <= Len(cpus) /\ cpus[ci] = Bsp /\ ci' = ci + 1 /\ UNCHANGED bpc
              \/ ci > Len(cpus) /\ bpc' = "kinit2" /\ UNCHANGED ci
           /\ UNCHANGED <<mptable, cpus, slot, started, nextPage, useLock, runnable, apVars>>
\* startothers(): stack = kalloc(), its address in the word at code-4.
StackForAp == /\ bpc = "next" /\ ci <= Len(cpus) /\ cpus[ci] # Bsp
              /\ slot' = nextPage /\ nextPage' = nextPage + 1 /\ bpc' = "ipi"
              /\ UNCHANGED <<mptable, cpus, ci, started, useLock, runnable, apVars>>
\* lapicstartap(): INIT and STARTUP; the second STARTUP finds the processor running.
StartAp == /\ bpc = "ipi" /\ bpc' = "wait"
           /\ apst' = [apst EXCEPT ![cpus[ci]] = "start"]
           /\ UNCHANGED <<mptable, cpus, ci, slot, started, nextPage, useLock, runnable, stackOf>>
\* startothers(): while(c->started == 0)
ApIsUp == cpus[ci] \in started
WaitForAp == /\ bpc = "wait" /\ ApIsUp
             /\ ci' = ci + 1 /\ bpc' = "next"
             /\ UNCHANGED <<mptable, cpus, slot, started, nextPage, useLock, runnable, apVars>>

\* main(): kinit2() sets use_lock, userinit() makes the first process, mpmain().
Kinit2 == /\ bpc = "kinit2" /\ bpc' = "userinit" /\ useLock' = TRUE
          /\ UNCHANGED <<mptable, cpus, ci, slot, started, nextPage, runnable, apVars>>
UserInit == /\ bpc = "userinit" /\ bpc' = "mpmain" /\ runnable' = TRUE
            /\ UNCHANGED <<mptable, cpus, ci, slot, started, nextPage, useLock, apVars>>
MpMain == /\ bpc = "mpmain" /\ bpc' = "scheduler"
          /\ apst' = [apst EXCEPT ![Bsp] = "scheduler"] /\ started' = started \cup {Bsp}
          /\ UNCHANGED <<mptable, cpus, ci, slot, nextPage, useLock, runnable, stackOf>>

\* entryother.S: movl (start-4), %esp; then mpenter() and mpmain(), which sets started.
ApStack(c) == /\ apst[c] = "start" /\ apst' = [apst EXCEPT ![c] = "mpmain"]
              /\ stackOf' = [stackOf EXCEPT ![c] = slot]
              /\ UNCHANGED <<bspVars, slot, started, nextPage, useLock, runnable>>
Mut_ApStarted(c) == /\ apst[c] = "mpmain" /\ apst' = [apst EXCEPT ![c] = "scheduler"]
                    /\ UNCHANGED <<bspVars, slot, started, nextPage, useLock, runnable, stackOf>>
ApStarted(c) == /\ apst[c] = "mpmain" /\ apst' = [apst EXCEPT ![c] = "scheduler"]
                /\ started' = started \cup {c}
                /\ UNCHANGED <<bspVars, slot, nextPage, useLock, runnable, stackOf>>

BspStep == FindTable \/ MpEntry \/ MpDone \/ NextCpu \/ StackForAp \/ StartAp \/ WaitForAp \/ Kinit2 \/ UserInit \/ MpMain
BootNext == BspStep \/ \E c \in Apics : ApStack(c) \/ ApStarted(c)
BootSpec == BootInit /\ [][BootNext]_bootVars
-----------------------------------------------------------------------------
\* No two processors ever run on one stack, though all of them read its address from the same
\* word, and cpus never outgrows its array.
OwnStacks == /\ \A c, d \in Apics : c # d /\ stackOf[c] # 0 => stackOf[c] # stackOf[d]
             /\ Len(cpus) <= NCPU

\* kalloc() takes its lock whenever two processors may be in it: main() calls it while it
\* boots, a processor in the scheduler as soon as there is a process to run.
MayKalloc(c) == (c = Bsp /\ bpc \in {"next", "userinit"}) \/ (apst[c] = "scheduler" /\ runnable)
LockedWhenShared == Cardinality({c \in Apics : MayKalloc(c)}) > 1 => useLock

\* Booting ends with every processor of cpus in the scheduler, if there is a table and it has
\* no entry of an unknown type; on the way they share neither a stack nor an unlocked list.
Booted == bpc = "scheduler" /\ \A i \in 1 .. Len(cpus) : apst[cpus[i]] = "scheduler"
Stuck == bpc = "panic" \/ (bpc = "mpinit" /\ mptable # <<>> /\ Head(mptable).type \notin Known)
BootEnds ==
  /\ [](OwnStacks /\ LockedWhenShared)
  /\ (bpc # "table") ~> (Booted \/ Stuck)
=============================================================================
