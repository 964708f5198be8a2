-------------------------------- MODULE ShRun --------------------------------
(***************************************************************************)
(* How sh.c runs commands: runcmd(), the main loop, and init.c above it.   *)
(* Each process is the list of system calls it has still to make (todo),   *)
(* its descriptors and the two descriptors pipe(p) gave it.  Commands are  *)
(* the trees of the parser; a program is left to read its input to the end *)
(* or to stop before.  fork, pipe and dup succeed: what fork1() and        *)
(* panic() do otherwise is not modelled.                                   *)
(***************************************************************************)
EXTENDS Naturals, Sequences, FiniteSets, FiniteSetsExt

CONSTANTS JobTable,        \* process numbers, 1 is init
          NFDS,         \* descriptors of a process
          Lines,        \* the commands users type
          JobSlots      \* a line is typed while that many slots are free

VARIABLE job
jobVars == job

Tty == <<"tty", 0>>
Redirected == <<"file", 0>>
NoEnd == <<"none", 0>>
Unused == [todo |-> <<>>, parent |-> 0, fds |-> [f \in 0 .. NFDS - 1 |-> NoEnd], p |-> <<0, 0>>, child |-> 0, bg |-> FALSE]
Free == {s \in JobTable : job[s] = Unused}
Alive(s) == s \notin Free /\ job[s].todo # <<>>
DeadJobs(s) == {c \in JobTable \ Free : job[c].parent = s /\ job[c].todo = <<>>}

\* The system calls of runcmd() for each type of command.  P0 and P1 stand for p[0], p[1].
P0 == 100
P1 == 101
Op(name) == [op |-> name]
Shut(fd) == [op |-> "close", fd |-> fd]
Dupe(fd) == [op |-> "dup", fd |-> fd]
Run(cmd) == [op |-> "run", cmd |-> cmd]
Fork1(todo, bg) == [op |-> "fork", todo |-> todo, bg |-> bg]

PipeChild(std, keep, cmd) == <<Shut(std), Dupe(keep), Shut(P0), Shut(P1), Run(cmd)>>
Mut_PipeScript(cmd) ==
  <<Op("pipe"), Fork1(PipeChild(1, P1, cmd.left), FALSE), Fork1(PipeChild(0, P0, cmd.right), FALSE),
    Op("wait"), Op("wait"), Shut(P0), Shut(P1), Op("exit")>>
PipeScript(cmd) ==
  <<Op("pipe"), Fork1(PipeChild(1, P1, cmd.left), FALSE), Fork1(PipeChild(0, P0, cmd.right), FALSE),
    Shut(P0), Shut(P1), Op("wait"), Op("wait"), Op("exit")>>
ListScript(cmd) == <<Fork1(<<Run(cmd.left)>>, FALSE), Op("wait"), Run(cmd.right)>>
RedirScript(cmd) == <<Shut(cmd.fd), Op("open"), Run(cmd.cmd)>>
Script(cmd) ==
  CASE cmd.type = "EXEC" -> IF cmd.argv = <<>> THEN <<Op("exit")>> ELSE <<Op("program")>>
    [] cmd.type = "REDIR" -> RedirScript(cmd)
    [] cmd.type = "LIST" -> ListScript(cmd)
    [] cmd.type = "PIPE" -> PipeScript(cmd)
    [] cmd.type = "BACK" -> <<Fork1(<<Run(cmd.cmd)>>, TRUE), Op("exit")>>

\* main(): a line is run by a child and waited for.
LineScript(cmd) == <<Fork1(<<Run(cmd)>>, FALSE), Op("wait"), Op("prompt")>>
\* init.c: main() starts a shell and reaps children until the shell is among them.
InitScript == <<Fork1(<<Op("prompt")>>, FALSE), Op("reap")>>

JobInit == job = [s \in JobTable |-> IF s = 1
                                     THEN [Unused EXCEPT !.todo = InitScript, !.fds = [f \in DOMAIN @ |-> IF f <= 2 THEN Tty ELSE NoEnd]]
                                     ELSE Unused]
-----------------------------------------------------------------------------
At(s, name) == Alive(s) /\ Head(job[s].todo).op = name
Arg(s) == Head(job[s].todo)
Rest(s) == Tail(job[s].todo)
LowestOf(fds) == Min({f \in DOMAIN fds : fds[f] = NoEnd})
Fd(s, x) == CASE x = P0 -> job[s].p[1] [] x = P1 -> job[s].p[2] [] OTHER -> x

CloseFd(s) == /\ At(s, "close")
              /\ job' = [job EXCEPT ![s].todo = Rest(s), ![s].fds[Fd(s, Arg(s).fd)] = NoEnd]
DupFd(s) == /\ At(s, "dup")
            /\ job' = [job EXCEPT ![s].todo = Rest(s), ![s].fds[LowestOf(job[s].fds)] = job[s].fds[Fd(s, Arg(s).fd)]]
\* open() gives the lowest descriptor or fails; then the process exits.
OpenFd(s) == /\ At(s, "open")
             /\ \/ job' = [job EXCEPT ![s].todo = Rest(s), ![s].fds[LowestOf(job[s].fds)] = Redirected]
                \/ job' = [job EXCEPT ![s].todo = <<Op("exit")>>]
\* A pipe is named by the first number no descriptor uses.
PipesInUse == {job[s].fds[f][2] : s \in JobTable, f \in 0 .. NFDS - 1}
MakePipe(s) ==
  /\ At(s, "pipe")
  /\ LET k == Min((1 .. Cardinality(JobTable)) \ PipesInUse)
         r == LowestOf(job[s].fds)
         w == LowestOf([job[s].fds EXCEPT ![r] = Tty])
     IN  job' = [job EXCEPT ![s].todo = Rest(s), ![s].p = <<r, w>>,
                            ![s].fds = [@ EXCEPT ![r] = <<"r", k>>, ![w] = <<"w", k>>]]
ForkJob(s) ==
  /\ At(s, "fork")
  /\ LET c == Min(Free)
     IN  job' = [job EXCEPT ![s].todo = Rest(s), ![s].child = c,
                            ![c] = [job[s] EXCEPT !.todo = Arg(s).todo, !.parent = s, !.bg = @ \/ Arg(s).bg, !.child = 0]]
RunCmd(s) == /\ At(s, "run")
             /\ job' = [job EXCEPT ![s].todo = Script(Arg(s).cmd), ![s].p = <<0, 0>>, ![s].child = 0]
\* exit(): descriptors closed, children given to init.
Exits(s) == [c \in JobTable |-> IF c = s THEN [Unused EXCEPT !.parent = job[s].parent, !.bg = job[s].bg]
                             ELSE IF job[c].parent = s THEN [job[c] EXCEPT !.parent = 1]
                             ELSE job[c]]
ExitJob(s) == At(s, "exit") /\ job' = Exits(s)
\* A program ends at the end of its input (a pipe no one can write any more), or before it.
InputEnded(s) == LET in == job[s].fds[0]
                 IN  in[1] = "r" => \A q \in JobTable : <<"w", in[2]>> \notin {job[q].fds[f] : f \in 0 .. NFDS - 1}
ProgramEnds(s) == At(s, "program") /\ InputEnded(s) /\ job' = Exits(s)
ProgramQuits(s) == At(s, "program") /\ ~InputEnded(s) /\ job' = Exits(s)
\* wait() reaps any one zombie; every wait() here follows a fork1(), so there is a child.
WaitJob(s) ==
  /\ At(s, "wait")
  /\ \E z \in DeadJobs(s) : job' = [job EXCEPT ![s].todo = Rest(s), ![s].child = 0, ![z] = Unused]
ReapTodo(z) == IF z = job[1].child THEN InitScript ELSE job[1].todo
ReapJob == /\ At(1, "reap")
           /\ \E z \in DeadJobs(1) : job' = [job EXCEPT ![1].todo = ReapTodo(z), ![z] = Unused]
\* main(): the next line, cd (which forks nothing) and exit.
Prompt(s) == /\ At(s, "prompt")
             /\ \/ Cardinality(Free) >= JobSlots /\ \E cmd \in Lines : job' = [job EXCEPT ![s].todo = LineScript(cmd)]
                \/ job' = [job EXCEPT ![s].todo = <<Op("exit")>>]

JobStep(s) == \/ CloseFd(s) \/ DupFd(s) \/ OpenFd(s) \/ MakePipe(s) \/ ForkJob(s) \/ RunCmd(s)
              \/ ExitJob(s) \/ ProgramEnds(s) \/ WaitJob(s)
JobNext == (\E s \in JobTable : JobStep(s) \/ ProgramQuits(s) \/ Prompt(s)) \/ ReapJob
JobSpec == JobInit /\ [][JobNext]_jobVars
-----------------------------------------------------------------------------
\* The shell prompts only when everything the line started in the foreground is gone.
ForegroundDone == \A s \in JobTable : At(s, "prompt") =>
  \A c \in JobTable \ (Free \cup {1, s}) : job[c].bg

\* A program starts with standard input, output and error open and no end of a pipe besides:
\* a stray write end would keep some reader waiting for ever.
CleanDescriptors == \A s \in JobTable : At(s, "program") =>
  \A f \in 0 .. NFDS - 1 : (job[s].fds[f] # NoEnd) <=> f \in {0, 1, 2}

\* init starts a shell only when the last one is gone.
OneShell == Cardinality({s \in JobTable \ {1} : Alive(s) /\ \E i \in 1 .. Len(job[s].todo) : job[s].todo[i].op = "prompt"}) <= 1

\* Whatever has been started, the prompt comes back, from one shell and not before the
\* foreground is done, and no program gets in its way with a pipe left open.
AlwaysPrompts ==
  /\ [](ForegroundDone /\ CleanDescriptors /\ OneShell)
  /\ (Free # JobTable \ {1}) ~> \E s \in JobTable : At(s, "prompt")
=============================================================================
