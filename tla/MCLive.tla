------------------------------- MODULE MCLive -------------------------------
(***************************************************************************)
(* Proc, Ticks, ShRun, Boot and Panic for TLC: what must eventually happen *)
(* in the kernel, besides the log and the console.  They share no variable,*)
(* so that checking each alone says all there is to say; `part' is the one *)
(* under way, the others stay as they start.                               *)
(***************************************************************************)
EXTENDS Proc, Ticks, ShRun, Boot, Panic

CONSTANTS a, b            \* programs

VARIABLE part
liveVars == <<part, vars, tickVars, jobVars, bootVars, panicVars>>

\* Lines for the shell: a | b < f | a;  a & b;  and an empty one.
Program(x) == [type |-> "EXEC", argv |-> <<x>>]
Pair(t, l, r) == [type |-> t, left |-> l, right |-> r]
Input(c) == [type |-> "REDIR", cmd |-> c, fd |-> 0]
Typed == {Pair("PIPE", Program(a), Pair("PIPE", Input(Program(b)), Program(a))),
          Pair("LIST", [type |-> "BACK", cmd |-> Program(a)], Program(b)),
          [type |-> "EXEC", argv |-> <<>>]}

\* Tables of the BIOS: CPU 0 boots; more CPUs than NCPU; an entry of unknown type.
Cpu(i) == [type |-> "proc", apic |-> i]
Other(t) == [type |-> t, apic |-> 0]
Bios == {<<Cpu(0), Cpu(2), Cpu(1), Other("ioapic")>>,
         <<Other("bus"), Cpu(2), Cpu(0), Cpu(3), Cpu(1)>>,
         <<Cpu(0), Other("unknown"), Cpu(1)>>}

LiveInit ==
  /\ part \in {"proc", "ticks", "shell", "boot", "panic"}
  /\ Init /\ TickInit /\ JobInit /\ BootInit /\ PanicInit

LiveNext ==
  \/ part = "proc" /\ Next /\ UNCHANGED <<part, tickVars, jobVars, bootVars, panicVars>>
  \/ part = "ticks" /\ TickNext /\ UNCHANGED <<part, vars, jobVars, bootVars, panicVars>>
  \/ part = "shell" /\ JobNext /\ UNCHANGED <<part, vars, tickVars, bootVars, panicVars>>
  \/ part = "boot" /\ BootNext /\ UNCHANGED <<part, vars, tickVars, jobVars, panicVars>>
  \/ part = "panic" /\ PanicNext /\ UNCHANGED <<part, vars, tickVars, jobVars, bootVars>>

\* Fairness, of the part that is under way: the timers go off and a process that can
\* run does (proc.c, see Proc); a command in progress goes on; so does
\* a processor that boots or prints.  Nobody has to make a call or to type a line.
LiveFair ==
  /\ \A c \in CPUs : SF_vars(part = "proc" /\ SchedulerStep(c)) /\ SF_vars(part = "proc" /\ TimerTrap(c))
  /\ \A s \in Slots : SF_vars(part = "proc" /\ GoesOn(s))
  /\ SF_vars(part = "proc" /\ InitWaits)
  /\ WF_tickVars(part = "ticks" /\ Tick) /\ WF_tickVars(part = "ticks" /\ WakeSleepers)
  /\ \A c \in TickCPUs : WF_tickVars(part = "ticks" /\ TimerIntr(c))
  /\ \A p \in Sleepers : WF_tickVars(part = "ticks" /\ NapStep(p))
  /\ \A s \in JobTable : WF_jobVars(part = "shell" /\ JobStep(s))
  /\ WF_jobVars(part = "shell" /\ ReapJob)
  /\ WF_bootVars(part = "boot" /\ BspStep)
  /\ \A c \in Apics : WF_bootVars(part = "boot" /\ ApStack(c)) /\ WF_bootVars(part = "boot" /\ ApStarted(c))
  /\ \A c \in PCpus : WF_panicVars(part = "panic" /\ PanicStep(c))

LiveSpec == LiveInit /\ [][LiveNext]_liveVars /\ LiveFair
-----------------------------------------------------------------------------
\* The scheduler of proc.c starves nobody, from the first process on.
ProcessesRun == part = "proc" => RunnableRuns
=============================================================================
