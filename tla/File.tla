-------------------------------- MODULE File --------------------------------
(***************************************************************************)
(* Open files: the table of struct files in file.c, the descriptors of     *)
(* processes and the calls of sysfile.c, pipe.c and proc.c that move them. *)
(*                                                                         *)
(* fileclose() drops the reference under ftable.lock and releases the      *)
(* inode or the pipe end after it has released that lock; sys_open() and   *)
(* sys_pipe() take several resources one after the other and give back     *)
(* what they have when the next one is not to be had.                      *)
(***************************************************************************)
EXTENDS Naturals, FiniteSets

CONSTANTS FProcs, NFILE, NOFILE, FInodes, Pipes, MaxRefs \* bound: descriptors of a file

ASSUME FileConstants ==
  /\ IsFiniteSet(FProcs) /\ FProcs # {}
  /\ NFILE \in Nat /\ NOFILE \in Nat
  /\ "none" \notin FInodes

FileNos == 1 .. NFILE
Fds == 0 .. NOFILE - 1
FirstProc == CHOOSE p \in FProcs : TRUE

\* A process has pointers to struct files in ofile[], and in two local variables while a
\* call is under way: f of sys_open() and sys_close(), rf and wf of sys_pipe().
Rf == NOFILE
Wf == NOFILE + 1
Pointers == FProcs \X (0 .. NOFILE + 1)

VARIABLES
  fref, fobj,  \* struct file: ref; type, with the inode or the end of a pipe
  ofile,       \* pointer -> file (0: none)
  live,        \* processes that exist
  iref,        \* inode -> references from here
  openEnds,    \* pipe -> its open ends ({}: the page is free)
  fpc,         \* process -> where it is in its system call
  ip, fd,      \* process -> ip and fd of sys_open()
  ff           \* process -> the copy from which fileclose() releases the object

callVars == <<fpc, ip, fd, ff>>
fVars == <<fref, fobj, ofile, live, iref, openEnds, callVars>>

\* What a struct file stands for: FD_NONE, FD_INODE, FD_PIPE.
NoObject == [type |-> "none"]
Inode(i) == [type |-> "inode", ip |-> i]
End(k, w) == [type |-> "pipe", pipe |-> k, writable |-> w]

FInit ==
  /\ fref = [f \in FileNos |-> 0] /\ fobj = [f \in FileNos |-> NoObject]
  /\ ofile = [h \in Pointers |-> 0]
  /\ live = {FirstProc}
  /\ iref = [i \in FInodes |-> 0]
  /\ openEnds = [k \in Pipes |-> {}]
  /\ fpc = [p \in FProcs |-> "idle"] /\ ip = [p \in FProcs |-> "none"]
  /\ fd = [p \in FProcs |-> 0] /\ ff = [p \in FProcs |-> NoObject]
-----------------------------------------------------------------------------
AtCall(p, s) == p \in live /\ fpc[p] = s /\ ff[p] = NoObject
Ready(p) == AtCall(p, "idle")
CallTo(p, s) == fpc' = [fpc EXCEPT ![p] = s]

\* filealloc() and fdalloc() take the first free slot.
Lowest(n, S) == n \in S /\ \A m \in S : n <= m
FreeFiles == {f \in FileNos : fref[f] = 0}
FreeFds(p) == {d \in Fds : ofile[<<p, d>>] = 0}

\* filealloc() returns f, 0 if the table is full.
FileAlloc(f) ==
  \/ f = 0 /\ FreeFiles = {} /\ UNCHANGED fref
  \/ Lowest(f, FreeFiles) /\ fref' = [fref EXCEPT ![f] = 1]

\* The file that pointer h is to goes to pointer k.
Moved(of, h, k) == [of EXCEPT ![h] = 0, ![k] = of[h]]
-----------------------------------------------------------------------------
\* The pointers a call closes on its way out, and exit() closes.
ToClose(p) == CASE fpc[p] = "close" -> {s \in {Rf, Wf} : ofile[<<p, s>>] # 0}
                [] fpc[p] = "exit"  -> {s \in Fds : ofile[<<p, s>>] # 0}
                [] OTHER            -> {}

\* fileclose() up to the release of ftable.lock, of the first of them.  It would panic on
\* a file that nobody has open.  The pointers that stay behind in the struct file mean
\* nothing under type FD_NONE, and are dropped.
Mut_Emptied(f) == fobj
Emptied(f) == [fobj EXCEPT ![f] = NoObject]
FileClose(p) ==
  /\ p \in live /\ ff[p] = NoObject
  /\ \E s \in 0 .. NOFILE + 1 :
       /\ Lowest(s, ToClose(p))
       /\ ofile' = [ofile EXCEPT ![<<p, s>>] = 0]
       /\ LET f == ofile[<<p, s>>]
          IN  /\ fref[f] >= 1
              /\ fref' = [fref EXCEPT ![f] = @ - 1]
              /\ \/ fref[f] > 1 /\ UNCHANGED <<fobj, ff>>
                 \/ fref[f] = 1 /\ fobj' = Emptied(f) /\ ff' = [ff EXCEPT ![p] = fobj[f]]
  /\ UNCHANGED <<live, iref, openEnds, fpc, ip, fd>>

\* pipeclose(): the open ends that are left.
EndSide(w) == IF w THEN "w" ELSE "r"
PipeCloseEnd(k, w) == openEnds[k] \ {EndSide(w)}

\* The rest of fileclose(): iput() or pipeclose().
PutObject(p) ==
  /\ \/ \E i \in FInodes : /\ ff[p] = Inode(i)
                           /\ iref' = [iref EXCEPT ![i] = @ - 1]
                           /\ UNCHANGED openEnds
     \/ \E k \in Pipes, w \in BOOLEAN : /\ ff[p] = End(k, w)
                                        /\ openEnds' = [openEnds EXCEPT ![k] = PipeCloseEnd(k, w)]
                                        /\ UNCHANGED iref
  /\ ff' = [ff EXCEPT ![p] = NoObject]
  /\ UNCHANGED <<fref, fobj, ofile, live, fpc, ip, fd>>

\* The end of a call that has closed its files; sys_open() puts its inode after that.
CallDone(p) ==
  /\ AtCall(p, "close") /\ ToClose(p) = {}
  /\ \/ ip[p] = "none" /\ UNCHANGED iref
     \/ ip[p] # "none" /\ iref' = [iref EXCEPT ![ip[p]] = @ - 1]
  /\ ip' = [ip EXCEPT ![p] = "none"]
  /\ CallTo(p, "idle")
  /\ UNCHANGED <<fref, fobj, ofile, live, openEnds, fd, ff>>
-----------------------------------------------------------------------------
\* sys_open(): namei() or create() returns a referenced inode ...
OpenInode(p, i) ==
  /\ Ready(p)
  /\ iref' = [iref EXCEPT ![i] = @ + 1]
  /\ ip' = [ip EXCEPT ![p] = i]
  /\ CallTo(p, "open")
  /\ UNCHANGED <<fref, fobj, ofile, live, openEnds, fd, ff>>

\* ... then a struct file and a descriptor, or everything is given back ...
OpenAlloc(p) ==
  /\ AtCall(p, "open")
  /\ \E f \in 0 .. NFILE :
       /\ FileAlloc(f)
       /\ \/ \E d \in Fds : /\ f # 0 /\ Lowest(d, FreeFds(p))
                            /\ ofile' = [ofile EXCEPT ![<<p, d>>] = f]
                            /\ fd' = [fd EXCEPT ![p] = d]
                            /\ CallTo(p, "fill")
          \/ /\ f = 0 \/ FreeFds(p) = {}
             /\ ofile' = [ofile EXCEPT ![<<p, Rf>>] = f]
             /\ CallTo(p, "close")
             /\ UNCHANGED fd
  /\ UNCHANGED <<fobj, live, iref, openEnds, ip, ff>>

\* ... and the file takes over the reference.
OpenFill(p) ==
  /\ AtCall(p, "fill")
  /\ fobj' = [fobj EXCEPT ![ofile[<<p, fd[p]>>]] = Inode(ip[p])]
  /\ ip' = [ip EXCEPT ![p] = "none"]
  /\ CallTo(p, "idle")
  /\ UNCHANGED <<fref, ofile, live, iref, openEnds, fd, ff>>
-----------------------------------------------------------------------------
\* sys_pipe(), pipealloc(): two struct files, ...
PipeFirst(p) ==
  /\ Ready(p)
  /\ \E f \in 0 .. NFILE : /\ FileAlloc(f)
                           /\ ofile' = [ofile EXCEPT ![<<p, Rf>>] = f]
                           /\ CallTo(p, IF f = 0 THEN "idle" ELSE "pipe")
  /\ UNCHANGED <<fobj, live, iref, openEnds, ip, fd, ff>>

PipeSecond(p) ==
  /\ AtCall(p, "pipe")
  /\ \E f \in 0 .. NFILE : /\ FileAlloc(f)
                           /\ ofile' = [ofile EXCEPT ![<<p, Wf>>] = f]
                           /\ CallTo(p, IF f = 0 THEN "close" ELSE "page")
  /\ UNCHANGED <<fobj, live, iref, openEnds, ip, fd, ff>>

\* ... a page, which kalloc() may not have, ...
PipePage(p) ==
  /\ AtCall(p, "page")
  /\ \/ /\ \A k \in Pipes : openEnds[k] # {}
        /\ CallTo(p, "close")
        /\ UNCHANGED <<fobj, openEnds>>
     \/ \E k \in Pipes :
          /\ openEnds[k] = {}
          /\ openEnds' = [openEnds EXCEPT ![k] = {"r", "w"}]
          /\ fobj' = [fobj EXCEPT ![ofile[<<p, Rf>>]] = End(k, FALSE), ![ofile[<<p, Wf>>]] = End(k, TRUE)]
          /\ CallTo(p, "fds")
  /\ UNCHANGED <<fref, ofile, live, iref, ip, fd, ff>>

\* ... and two descriptors; the first is given back if there is no second.
PipeFds(p) ==
  /\ AtCall(p, "fds")
  /\ \/ \E d, e \in Fds :
          /\ Lowest(d, FreeFds(p)) /\ Lowest(e, FreeFds(p) \ {d})
          /\ ofile' = Moved(Moved(ofile, <<p, Rf>>, <<p, d>>), <<p, Wf>>, <<p, e>>)
          /\ CallTo(p, "idle")
     \/ /\ \A d, e \in FreeFds(p) : d = e
        /\ CallTo(p, "close")
        /\ UNCHANGED ofile
  /\ UNCHANGED <<fref, fobj, live, iref, openEnds, ip, fd, ff>>
-----------------------------------------------------------------------------
\* sys_dup(): argfd(), fdalloc(), filedup().
Dup(p, d) ==
  /\ Ready(p) /\ ofile[<<p, d>>] # 0
  /\ fref[ofile[<<p, d>>]] \in 1 .. MaxRefs - 1
  /\ \E e \in Fds : Lowest(e, FreeFds(p)) /\ ofile' = [ofile EXCEPT ![<<p, e>>] = ofile[<<p, d>>]]
  /\ fref' = [fref EXCEPT ![ofile[<<p, d>>]] = @ + 1]
  /\ UNCHANGED <<fobj, live, iref, openEnds, callVars>>

\* sys_close(): the descriptor is free before the file is closed.
SysClose(p, d) ==
  /\ Ready(p) /\ ofile[<<p, d>>] # 0
  /\ ofile' = Moved(ofile, <<p, d>>, <<p, Rf>>)
  /\ CallTo(p, "close")
  /\ UNCHANGED <<fref, fobj, live, iref, openEnds, ip, fd, ff>>

\* fork(): the child gets every descriptor, each with filedup().
Copies(p, f) == Cardinality({d \in Fds : ofile[<<p, d>>] = f})
ForkFiles(p, q) ==
  /\ Ready(p) /\ q \notin live
  /\ \A d \in Fds : ofile[<<p, d>>] # 0 => fref[ofile[<<p, d>>]] >= 1
  /\ \A f \in FileNos : fref[f] + Copies(p, f) <= MaxRefs
  /\ live' = live \cup {q}
  /\ ofile' = [h \in Pointers |-> IF h[1] = q /\ h[2] \in Fds THEN ofile[<<p, h[2]>>] ELSE ofile[h]]
  /\ fref' = [f \in FileNos |-> fref[f] + Copies(p, f)]
  /\ UNCHANGED <<fobj, iref, openEnds, callVars>>

\* exit() closes the descriptors in order; nobody else sees them any more.
ExitFiles(p) ==
  /\ Ready(p) /\ p # FirstProc
  /\ CallTo(p, "exit")
  /\ UNCHANGED <<fref, fobj, ofile, live, iref, openEnds, ip, fd, ff>>
Exited(p) ==
  /\ AtCall(p, "exit") /\ ToClose(p) = {}
  /\ live' = live \ {p}
  /\ CallTo(p, "idle")
  /\ UNCHANGED <<fref, fobj, ofile, iref, openEnds, ip, fd, ff>>

\* The steps of a call that has begun, and the calls.
Continue(p) == \/ FileClose(p) \/ PutObject(p) \/ CallDone(p) \/ OpenAlloc(p) \/ OpenFill(p)
               \/ PipeSecond(p) \/ PipePage(p) \/ PipeFds(p) \/ Exited(p)
Begin(p) == \/ \E i \in FInodes : OpenInode(p, i)
            \/ PipeFirst(p)
            \/ \E d \in Fds : Dup(p, d) \/ SysClose(p, d)
            \/ \E q \in FProcs : ForkFiles(p, q)
            \/ ExitFiles(p)
FNext == \E p \in FProcs : Continue(p) \/ Begin(p)
FSpec == FInit /\ [][FNext]_fVars
-----------------------------------------------------------------------------
CountOf(g, v) == Cardinality({x \in DOMAIN g : g[x] = v})

\* A struct file counts its descriptors, through every call that fails half way.
FileRefs == \A f \in FileNos : fref[f] = CountOf(ofile, f)

\* Every open file holds one reference to its inode, and each is put exactly once:
\* a struct file that was never filled in releases nothing (type FD_NONE).
OpenFiles(o) == {f \in FileNos : fref[f] > 0 /\ fobj[f] = o}
InodeRefs == \A i \in FInodes :
  iref[i] = Cardinality(OpenFiles(Inode(i))) + CountOf(ip, i) + CountOf(ff, Inode(i))

\* An end of a pipe is open while one struct file stands for it, and the page is
\* not freed, and given to another pipe, before both are closed.
PipeEnds == \A k \in Pipes, w \in BOOLEAN :
  Cardinality(OpenFiles(End(k, w))) + CountOf(ff, End(k, w)) = IF EndSide(w) \in openEnds[k] THEN 1 ELSE 0

\* References are counted right on both levels, descriptors to struct files and
\* struct files to inodes and pipes, whatever fails half way and whoever closes last.
RefsCounted == FileRefs /\ InodeRefs /\ PipeEnds
=============================================================================
