-------------------------------- MODULE Tree --------------------------------
(***************************************************************************)
(* Inodes and directories: the inode cache and the path walk of fs.c with  *)
(* the system calls of sysfile.c that name files.                          *)
(*                                                                         *)
(* A cache entry is known by its inode number: iget() finds the entry of   *)
(* an inode or makes one, and NINODE is not reached.  An action is what a  *)
(* process does from the moment it gets an inode's lock to the next lock it*)
(* needs or to the next critical section under icache.lock.  What is left  *)
(* to be unlocked and put on the way out of a call is the sequence `todo'. *)
(* Calls run in transactions (module Log), so crashes do not show here.    *)
(***************************************************************************)
EXTENDS Naturals, Sequences, FiniteSets

CONSTANTS
  FsProcs, NoProc,
  NInodes,       \* bound: inodes on the disk (sb.ninodes)
  Names,         \* names besides "." and ".."
  FsCalls        \* process -> the calls it makes, [op, path, new], see Call

Inums == 1 .. NInodes
Root == 1
Dots == {".", ".."}
NameSpace == Names \cup Dots
Types == {"free", "file", "dir", "dev"}

VARIABLES
  dinode,        \* disk: inum -> [type, nlink]
  ents,          \* disk: inum -> (name -> inum, 0 if there is no such entry)
  inode,         \* cache: inum -> [type, nlink], meaningful if valid
  valid, ref,    \* cache
  ilocked,       \* inum -> who holds ip->lock, or NoProc
  cwd, opened,   \* process -> its current directory, the inode of its open file or 0
  th,            \* process -> where it is in which call
  fspanic,       \* a panic of fs.c or sysfile.c
  useRemoved     \* history: a removed directory got an entry, or outlived its parent

treeVars == <<dinode, ents, inode, valid, ref, ilocked, cwd, opened, th,
              fspanic, useRemoved>>
disk == <<dinode, ents>>
cache == <<inode, valid, ref, ilocked>>
held == <<cwd, opened>>
flaws == <<fspanic, useRemoved>>

NoEnts == [n \in NameSpace |-> 0]
FreeInode == [type |-> "free", nlink |-> 0]
NoThread == [pc |-> "idle", op |-> "none", at |-> 0, path |-> <<>>, new |-> <<>>,
             ip |-> 0, todo |-> <<>>]

\* The disk as mkfs leaves it, all processes in the root directory.
TreeInit ==
  /\ dinode = [i \in Inums |-> IF i = Root THEN [type |-> "dir", nlink |-> 1] ELSE FreeInode]
  /\ ents = [i \in Inums |-> IF i = Root THEN [NoEnts EXCEPT !["."] = Root, ![".."] = Root]
                             ELSE NoEnts]
  /\ inode = [i \in Inums |-> FreeInode]
  /\ valid = [i \in Inums |-> FALSE]
  /\ ref = [i \in Inums |-> IF i = Root THEN Cardinality(FsProcs) ELSE 0]
  /\ ilocked = [i \in Inums |-> NoProc]
  /\ cwd = [p \in FsProcs |-> Root]
  /\ opened = [p \in FsProcs |-> 0]
  /\ th = [p \in FsProcs |-> NoThread]
  /\ fspanic = FALSE
  /\ useRemoved = FALSE
-----------------------------------------------------------------------------
\* What ilock() has in the entry once it holds the lock.
Loaded(i) == IF valid[i] THEN inode[i] ELSE dinode[i]
\* ilock() can go on; it panics if the inode has no type.
CanLock(i) == ilocked[i] = NoProc
NoType(i) == Loaded(i).type = "free"

\* iget() or idup() of i, with `v' the flags valid so far.
GotRef(i) == [ref EXCEPT ![i] = @ + 1]
GotValid(v, i) == [v EXCEPT ![i] = @ /\ ref[i] > 0]

\* The entry i is read in by ilock(); more or fewer links; iupdate() to x.
Load(i) == inode' = [inode EXCEPT ![i] = Loaded(i)]
Linked(x, n) == [x EXCEPT !.nlink = @ + n]
Unlinked(x, n) == [x EXCEPT !.nlink = @ - n]
Iupdate(i, x) == inode' = [inode EXCEPT ![i] = x] /\ dinode' = [dinode EXCEPT ![i] = x]

\* The inode of a name in directory dp, and the entries with n for i in dp.
Dirlookup(dp, n) == ents[dp][n]
Dirlink(es, dp, n, i) == [es EXCEPT ![dp][n] = i]

AtPc(p, pc) == th[p].pc = pc /\ th[p].todo = <<>> /\ ~fspanic
Return(p, todo) == th' = [th EXCEPT ![p] = [NoThread EXCEPT !.todo = todo]]

Iput(i) == <<<<"iput", i>>>>
Iunlock(i) == <<<<"iunlock", i>>>>
Iunlockput(i) == Iunlock(i) \o Iput(i)
-----------------------------------------------------------------------------
\* The head of what process p still has to do.
Doing(p, step) == ~fspanic /\ th[p].todo # <<>> /\ Head(th[p].todo)[1] = step
Target(p) == Head(th[p].todo)[2]
Then(p, step) == th' = [th EXCEPT ![p].todo[1][1] = step]
Done(p) == th' = [th EXCEPT ![p].todo = Tail(@)]

\* iput(): nobody else has a reference.
OnlyRef(i) == ref[i] = 1

\* iput() up to the test of ref under icache.lock.
IputTest(p) ==
  LET i == Target(p)
  IN  /\ Doing(p, "iput") /\ CanLock(i)
      /\ IF valid[i] /\ inode[i].nlink = 0 /\ OnlyRef(i)
         THEN ilocked' = [ilocked EXCEPT ![i] = p] /\ Then(p, "free")
         ELSE UNCHANGED ilocked /\ Then(p, "deref")
      /\ UNCHANGED <<disk, inode, valid, ref, held, flaws>>

\* itrunc() and the inode's type set to 0 on the disk.
IputFree(p) ==
  LET i == Target(p)
  IN  /\ Doing(p, "free")
      /\ dinode' = [dinode EXCEPT ![i] = FreeInode]
      /\ ents' = [ents EXCEPT ![i] = NoEnts]
      /\ inode' = [inode EXCEPT ![i] = FreeInode]
      /\ useRemoved' = (useRemoved \/ \E d \in Inums \ {i} : ents[d][".."] = i)
      /\ Then(p, "invalid")
      /\ UNCHANGED <<valid, ref, ilocked, held, fspanic>>

\* ip->valid = 0 and releasesleep().
Mut_Invalidated(i) == valid
Invalidated(i) == [valid EXCEPT ![i] = FALSE]
IputInvalid(p) ==
  LET i == Target(p)
  IN  /\ Doing(p, "invalid")
      /\ valid' = Invalidated(i)
      /\ ilocked' = [ilocked EXCEPT ![i] = NoProc]
      /\ Then(p, "deref")
      /\ UNCHANGED <<disk, inode, ref, held, flaws>>

IputDeref(p) ==
  /\ Doing(p, "deref")
  /\ ref' = [ref EXCEPT ![Target(p)] = @ - 1]
  /\ Done(p)
  /\ UNCHANGED <<disk, inode, valid, ilocked, held, flaws>>

IunlockStep(p) ==
  /\ Doing(p, "iunlock")
  /\ ilocked' = [ilocked EXCEPT ![Target(p)] = NoProc]
  /\ Done(p)
  /\ UNCHANGED <<disk, inode, valid, ref, held, flaws>>
-----------------------------------------------------------------------------
\* namex() starts at the root for "/", at cwd otherwise.
Absolute(path) == path # <<>> /\ Head(path) = "/"
Start(p, path) == IF Absolute(path) THEN Root ELSE cwd[p]
Elements(path) == IF Absolute(path) THEN Tail(path) ELSE path

\* A system call c of process p.
Call(p, c) ==
  LET s == Start(p, c.path)
  IN  /\ AtPc(p, "idle")
      /\ c.op \in {"open", "create"} => opened[p] = 0
      /\ c.op \in {"create", "mkdir", "mknod"} =>
           \E i \in Inums : dinode[i].type = "free"     \* bound: ialloc() finds one
      /\ ref' = GotRef(s) /\ valid' = GotValid(valid, s)
      /\ th' = [th EXCEPT ![p] = [NoThread EXCEPT !.pc = "namex", !.op = c.op, !.at = s,
                                    !.path = Elements(c.path), !.new = c.new]]
      /\ UNCHANGED <<disk, inode, ilocked, held, flaws>>

ToParent(p) == th[p].op \in {"create", "mkdir", "mknod", "unlink", "linkto"}

\* Where a call goes on if its path leads nowhere.
Failed(p, todo) ==
  IF th[p].op = "linkto"
  THEN th' = [th EXCEPT ![p] = [@ EXCEPT !.pc = "bad", !.at = 0, !.todo = todo]]
  ELSE Return(p, todo)

\* namex(): one element of the path.
Namex(p) ==
  LET t == th[p]
      next == Dirlookup(t.at, Head(t.path))
  IN  /\ AtPc(p, "namex") /\ t.path # <<>>
      /\ CanLock(t.at) /\ ~NoType(t.at)
      /\ Load(t.at)
      /\ \/ /\ Loaded(t.at).type # "dir" \/ (next = 0 /\ ~(ToParent(p) /\ Len(t.path) = 1))
            /\ Failed(p, Iput(t.at))
            /\ valid' = [valid EXCEPT ![t.at] = TRUE]
            /\ UNCHANGED ref
         \/ /\ Loaded(t.at).type = "dir" /\ ToParent(p) /\ Len(t.path) = 1
            /\ th' = [th EXCEPT ![p].pc = "parent"]
            /\ valid' = [valid EXCEPT ![t.at] = TRUE]
            /\ UNCHANGED ref
         \/ /\ Loaded(t.at).type = "dir" /\ next # 0 /\ ~(ToParent(p) /\ Len(t.path) = 1)
            /\ ref' = GotRef(next)
            /\ valid' = GotValid([valid EXCEPT ![t.at] = TRUE], next)
            /\ th' = [th EXCEPT ![p] = [@ EXCEPT !.at = next, !.path = Tail(@), !.todo = Iput(t.at)]]
      /\ UNCHANGED <<disk, ilocked, held, flaws>>

\* namex() of a path without elements for which the parent is wanted.
NamexNoParent(p) ==
  /\ AtPc(p, "namex") /\ th[p].path = <<>> /\ ToParent(p)
  /\ Failed(p, Iput(th[p].at))
  /\ UNCHANGED <<disk, cache, held, flaws>>

\* The inode that process p locks next with ilock(), 0 if none.
IlockNext(p) ==
  IF th[p].todo # <<>> \/ th[p].pc \in {"idle", "drop"} THEN 0
  ELSE IF th[p].pc \in {"namex", "parent"} THEN th[p].at ELSE th[p].ip

\* ilock() of an inode that is free on the disk.
IlockPanic(p) ==
  /\ ~fspanic /\ IlockNext(p) # 0 /\ ~(th[p].pc = "namex" /\ th[p].path = <<>> /\ ToParent(p))
  /\ CanLock(IlockNext(p)) /\ NoType(IlockNext(p))
  /\ fspanic' = TRUE
  /\ UNCHANGED <<disk, cache, held, th, useRemoved>>

\* p is at `pc' of one of the calls `ops' and gets the lock it waits for there.
Ilock(p, pc, ops) ==
  /\ AtPc(p, pc) /\ th[p].op \in ops
  /\ pc = "namex" => th[p].path = <<>>
  /\ CanLock(IlockNext(p)) /\ ~NoType(IlockNext(p))
-----------------------------------------------------------------------------
\* What sys_open() does with the locked inode i: a file and a descriptor for it,
\* or neither (filealloc() or fdalloc() fails, or a directory is not opened
\* read-only); `todo' comes before.
OpenFile(p, i, todo) ==
  \/ opened' = [opened EXCEPT ![p] = i] /\ Return(p, todo)
  \/ UNCHANGED opened /\ Return(p, todo \o Iput(i))

SysOpen(p) ==
  LET i == th[p].at
  IN  /\ Ilock(p, "namex", {"open"})
      /\ Load(i) /\ valid' = [valid EXCEPT ![i] = TRUE]
      /\ OpenFile(p, i, <<>>)
      /\ UNCHANGED <<disk, ref, ilocked, cwd, flaws>>

SysChdir(p) ==
  LET i == th[p].at
  IN  /\ Ilock(p, "namex", {"chdir"})
      /\ Load(i) /\ valid' = [valid EXCEPT ![i] = TRUE]
      /\ IF Loaded(i).type = "dir"
         THEN cwd' = [cwd EXCEPT ![p] = i] /\ Return(p, Iput(cwd[p]))
         ELSE UNCHANGED cwd /\ Return(p, Iput(i))
      /\ UNCHANGED <<disk, ref, ilocked, opened, flaws>>

\* sys_close() of the last descriptor, in fileclose().
Close(p) ==
  /\ AtPc(p, "idle") /\ opened[p] # 0
  /\ opened' = [opened EXCEPT ![p] = 0]
  /\ Return(p, Iput(opened[p]))
  /\ UNCHANGED <<disk, cache, cwd, flaws>>
-----------------------------------------------------------------------------
Creating == {"create", "mkdir", "mknod"}
NewType(op) == CASE op = "create" -> "file" [] op = "mkdir" -> "dir" [] op = "mknod" -> "dev"

\* The first inode that ialloc() finds free.
Ialloc == CHOOSE i \in Inums : /\ dinode[i].type = "free"
                               /\ \A j \in 1 .. i - 1 : dinode[j].type # "free"

\* create() up to the lock of the inode that the name stands for, or of a new one.
CreateParent(p) ==
  LET t == th[p]
      dp == t.at
      x == Dirlookup(dp, Head(t.path))
      found == [valid EXCEPT ![dp] = TRUE]
  IN  /\ Ilock(p, "parent", Creating)
      /\ Load(dp)
      /\ \/ /\ x # 0
            /\ ref' = GotRef(x) /\ valid' = GotValid(found, x)
            /\ th' = [th EXCEPT ![p] = [@ EXCEPT !.pc = "existing", !.ip = x, !.at = 0, !.todo = Iput(dp)]]
            /\ UNCHANGED <<dinode, ilocked>>
         \/ /\ x = 0 /\ \E i \in Inums : dinode[i].type = "free"
            /\ dinode' = [dinode EXCEPT ![Ialloc] = [type |-> NewType(t.op), nlink |-> 0]]
            /\ ref' = GotRef(Ialloc) /\ valid' = GotValid(found, Ialloc)
            /\ ilocked' = [ilocked EXCEPT ![dp] = p]
            /\ th' = [th EXCEPT ![p] = [@ EXCEPT !.pc = "new", !.ip = Ialloc]]
      /\ UNCHANGED <<ents, held, flaws>>

\* The name existed: it is opened if it is a file.
CreateExisting(p) ==
  LET t == th[p]
  IN  /\ Ilock(p, "existing", Creating)
      /\ Load(t.ip) /\ valid' = [valid EXCEPT ![t.ip] = TRUE]
      /\ IF t.op = "create" /\ Loaded(t.ip).type = "file"
         THEN OpenFile(p, t.ip, <<>>)
         ELSE UNCHANGED opened /\ Return(p, Iput(t.ip))
      /\ UNCHANGED <<disk, ref, ilocked, cwd, flaws>>

\* "." and ".." of a new directory, and its parent's link count.
DotEnts(i, dp) == [NoEnts EXCEPT !["."] = i, ![".."] = dp]
DotLinks(op) == IF op = "mkdir" THEN 1 ELSE 0

\* The new inode is filled in and named; it stays locked while dp is put.
CreateNew(p) ==
  LET t == th[p]
      new == [Loaded(t.ip) EXCEPT !.nlink = 1]
      parent == Linked(inode[t.at], DotLinks(t.op))
  IN  /\ Ilock(p, "new", Creating)
      /\ valid' = [valid EXCEPT ![t.ip] = TRUE]
      /\ inode' = [inode EXCEPT ![t.ip] = new, ![t.at] = parent]
      /\ dinode' = [dinode EXCEPT ![t.ip] = new, ![t.at] = parent]
      /\ ents' = Dirlink([ents EXCEPT ![t.ip] = IF t.op = "mkdir" THEN DotEnts(t.ip, t.at) ELSE @],
                         t.at, Head(t.path), t.ip)
      /\ ilocked' = [ilocked EXCEPT ![t.at] = NoProc, ![t.ip] = p]
      /\ useRemoved' = (useRemoved \/ parent.nlink = DotLinks(t.op))
      /\ IF t.op = "create" THEN OpenFile(p, t.ip, Iput(t.at) \o Iunlock(t.ip))
         ELSE UNCHANGED opened /\ Return(p, Iput(t.at) \o Iunlockput(t.ip))
      /\ UNCHANGED <<ref, cwd, fspanic>>
-----------------------------------------------------------------------------
\* sys_unlink() refuses these names.
Mut_Refused(n) == n = "."
Refused(n) == n \in Dots

UnlinkParent(p) ==
  LET t == th[p]
      dp == t.at
      x == Dirlookup(dp, Head(t.path))
  IN  /\ Ilock(p, "parent", {"unlink"})
      /\ Load(dp)
      /\ IF Refused(Head(t.path)) \/ x = 0
         THEN /\ Return(p, Iput(dp))
              /\ valid' = [valid EXCEPT ![dp] = TRUE]
              /\ UNCHANGED <<ref, ilocked>>
         ELSE /\ ref' = GotRef(x)
              /\ valid' = GotValid([valid EXCEPT ![dp] = TRUE], x)
              /\ ilocked' = [ilocked EXCEPT ![dp] = p]
              /\ th' = [th EXCEPT ![p] = [@ EXCEPT !.pc = "child", !.ip = x]]
      /\ UNCHANGED <<disk, held, flaws>>

\* isdirempty()
NotEmpty(i) == Loaded(i).type = "dir" /\ \E n \in Names : ents[i][n] # 0

\* The child is locked too: refuse it, or clear the entry.  (Without a link it is
\* a panic, after which nothing runs.)
LostDots(x) == IF x.type = "dir" THEN 1 ELSE 0
Mut_GiveUp(ip, dp) == Iunlockput(dp)
GiveUp(ip, dp) == Iput(ip) \o Iunlockput(dp)
UnlinkChild(p) ==
  LET t == th[p]
      parent == Unlinked(inode[t.at], LostDots(Loaded(t.ip)))
  IN  /\ Ilock(p, "child", {"unlink"})
      /\ valid' = [valid EXCEPT ![t.ip] = TRUE]
      /\ fspanic' = (Loaded(t.ip).nlink = 0)
      /\ \/ /\ NotEmpty(t.ip)
            /\ Load(t.ip)
            /\ Return(p, GiveUp(t.ip, t.at))
            /\ UNCHANGED <<disk, ilocked>>
         \/ /\ ~NotEmpty(t.ip)
            /\ ents' = [ents EXCEPT ![t.at][Head(t.path)] = 0]
            /\ inode' = [inode EXCEPT ![t.ip] = Loaded(t.ip), ![t.at] = parent]
            /\ dinode' = [dinode EXCEPT ![t.at] = parent]
            /\ ilocked' = [ilocked EXCEPT ![t.at] = NoProc, ![t.ip] = p]
            /\ th' = [th EXCEPT ![p] = [@ EXCEPT !.pc = "drop", !.at = 0, !.todo = Iput(t.at)]]
      /\ UNCHANGED <<ref, held, useRemoved>>

\* The child, still locked, loses its link; dp has been put.
UnlinkDrop(p) ==
  LET i == th[p].ip
      x == Unlinked(inode[i], 1)
  IN  /\ AtPc(p, "drop")
      /\ Iupdate(i, x)
      /\ ilocked' = [ilocked EXCEPT ![i] = NoProc]
      /\ Return(p, Iput(i))
      /\ UNCHANGED <<ents, valid, ref, held, flaws>>
-----------------------------------------------------------------------------
\* sys_link(): the old name is found; count the link, look for the new parent.
LinkFound(p) ==
  LET t == th[p]
      i == t.at
      x == Linked(Loaded(i), 1)
      s == Start(p, t.new)
  IN  /\ Ilock(p, "namex", {"link"})
      /\ \/ /\ Loaded(i).type = "dir"
            /\ Load(i) /\ valid' = [valid EXCEPT ![i] = TRUE]
            /\ Return(p, Iput(i))
            /\ UNCHANGED <<dinode, ref>>
         \/ /\ Loaded(i).type # "dir"
            /\ Iupdate(i, x)
            /\ ref' = GotRef(s) /\ valid' = GotValid([valid EXCEPT ![i] = TRUE], s)
            /\ th' = [th EXCEPT ![p] = [@ EXCEPT !.op = "linkto", !.ip = i, !.at = s,
                                                 !.path = Elements(t.new)]]
      /\ UNCHANGED <<ents, ilocked, held, flaws>>

\* dirlink() in the new parent; if the name is there, its inode is put while
\* the parent is locked.
LinkParent(p) ==
  LET t == th[p]
      dp == t.at
      x == Dirlookup(dp, Head(t.path))
  IN  /\ Ilock(p, "parent", {"linkto"})
      /\ Load(dp)
      /\ \/ /\ x # 0
            /\ ref' = GotRef(x)
            /\ valid' = GotValid([valid EXCEPT ![dp] = TRUE], x)
            /\ ilocked' = [ilocked EXCEPT ![dp] = p]
            /\ th' = [th EXCEPT ![p] = [@ EXCEPT !.pc = "bad", !.at = 0,
                                                 !.todo = Iput(x) \o Iunlockput(dp)]]
            /\ UNCHANGED <<ents, useRemoved>>
         \/ /\ x = 0
            /\ ents' = Dirlink(ents, dp, Head(t.path), t.ip)
            /\ valid' = [valid EXCEPT ![dp] = TRUE]
            /\ useRemoved' = (useRemoved \/ Loaded(dp).nlink = 0)
            /\ Return(p, Iput(dp) \o Iput(t.ip))
            /\ UNCHANGED <<ref, ilocked>>
      /\ UNCHANGED <<dinode, held, fspanic>>

\* The label bad of sys_link().
LinkBad(p) ==
  LET i == th[p].ip
      x == Unlinked(Loaded(i), 1)
  IN  /\ Ilock(p, "bad", {"linkto"})
      /\ Iupdate(i, x)
      /\ valid' = [valid EXCEPT ![i] = TRUE]
      /\ Return(p, Iput(i))
      /\ UNCHANGED <<ents, ref, ilocked, held, flaws>>
-----------------------------------------------------------------------------
TreeStep(p) ==
  \/ \E c \in FsCalls[p] : Call(p, c)
  \/ Namex(p) \/ NamexNoParent(p) \/ IlockPanic(p)
  \/ SysOpen(p) \/ SysChdir(p) \/ Close(p)
  \/ CreateParent(p) \/ CreateExisting(p) \/ CreateNew(p)
  \/ UnlinkParent(p) \/ UnlinkChild(p) \/ UnlinkDrop(p)
  \/ LinkFound(p) \/ LinkParent(p) \/ LinkBad(p)
  \/ IputTest(p) \/ IputFree(p) \/ IputInvalid(p) \/ IputDeref(p) \/ IunlockStep(p)
TreeNext == \E p \in FsProcs : TreeStep(p)
TreeSpec == TreeInit /\ [][TreeNext]_treeVars
-----------------------------------------------------------------------------
Allocated(i) == dinode[i].type # "free"

TreeTypeOK ==
  /\ dinode \in [Inums -> [type : Types, nlink : Nat]]
  /\ inode \in [Inums -> [type : Types, nlink : Nat]]
  /\ ents \in [Inums -> [NameSpace -> 0 .. NInodes]]
  /\ valid \in [Inums -> BOOLEAN] /\ ref \in [Inums -> Nat]
  /\ ilocked \in [Inums -> FsProcs \cup {NoProc}]
  /\ cwd \in [FsProcs -> Inums] /\ opened \in [FsProcs -> 0 .. NInodes]

\* The references that process p holds to inode i.
Holds(p, i) ==
  Cardinality({n \in 1 .. 4 : <<cwd[p], opened[p], th[p].at, th[p].ip>>[n] = i})
    + Cardinality({k \in DOMAIN th[p].todo : th[p].todo[k][1] # "iunlock" /\ th[p].todo[k][2] = i})

SumOver(S, f(_)) == LET sum[T \in SUBSET S] ==
                          IF T = {} THEN 0 ELSE LET x == CHOOSE x \in T : TRUE IN f(x) + sum[T \ {x}]
                    IN  sum[S]

\* "ip->ref tracks the number of in-memory pointers to the entry" (fs.c:122): every
\* path through every call, the failing ones too, gives each reference back once.
RefsBalance == \A i \in Inums : ref[i] = SumOver(FsProcs, LAMBDA p : Holds(p, i))

\* The names of i in directories, and the directories with a name whose ".." is i.
NamesOf(i) == {e \in Inums \X Names : ents[e[1]][e[2]] = i}
Subdirs(i) == {d \in Inums \ {Root} : ents[d][".."] = i /\ NamesOf(d) # {}}
\* Links counted ahead of the name, or not yet uncounted.
InTransit(i) == {p \in FsProcs : th[p].ip = i /\ (th[p].op = "linkto" \/ th[p].pc = "drop")}

\* nlink counts the names of an inode, and for a directory its subdirectories,
\* whatever calls are under way (as long as nothing is created in a directory that
\* has been removed: what is in there is lost with it).
LinksCounted ==
  ~useRemoved =>
    \A i \in Inums : Allocated(i) /\ (\A p \in FsProcs : th[p].pc = "new" => th[p].ip # i) =>
      dinode[i].nlink = Cardinality(NamesOf(i)) + Cardinality(Subdirs(i))
                          + Cardinality(InTransit(i)) + (IF i = Root THEN 1 ELSE 0)

\* An inode that has a name, is open or is a current directory is allocated: iput()
\* frees none too early, although it gives icache.lock back after it has read ref.
\* (Of the calls in MCTree; link("..", "/b") in a removed directory can break it.)
InUseAllocated ==
  \A i \in Inums :
    (NamesOf(i) # {} \/ \E p \in FsProcs : cwd[p] = i \/ opened[p] = i) => Allocated(i)

\* "iput() frees if the reference and link counts have fallen to zero" (fs.c:119):
\* no inode stays allocated without a link and without a reference.
FreedWhenUnused == \A i \in Inums : Allocated(i) => dinode[i].nlink > 0 \/ ref[i] > 0

\* "the information in an inode cache entry is only correct when ip->valid is 1"
\* (fs.c:129): whenever nobody has it locked, a valid entry is what the disk has.
CacheCoherent ==
  \A i \in Inums : ref[i] > 0 /\ valid[i] /\ ilocked[i] = NoProc => inode[i] = dinode[i]

\* fs.c meets a free inode or a link count of 0 only through ".." of a directory
\* that was removed while somebody used it, or below such a directory.  (Of the calls
\* in MCTree; useRemoved does not see a walk that has found the parent, as in a/a/..)
PanicOnlyRemoved == fspanic => useRemoved

\* Process p sleeps in acquiresleep() for the lock that q holds.
IputNext(p) == IF Doing(p, "iput") THEN Target(p) ELSE 0
WaitsFor(p, q) == \E i \in {IlockNext(p), IputNext(p)} \ {0} : ilocked[i] = q
InCycle(p) == \/ WaitsFor(p, p)
              \/ \E q \in FsProcs : WaitsFor(p, q) /\ \E r \in FsProcs : WaitsFor(q, r) /\ WaitsFor(r, p)
              \/ \E q \in FsProcs : WaitsFor(p, q) /\ WaitsFor(q, p)

\* Calls lock inodes from the root downwards: processes that wait in ilock() alone
\* never wait for one another.  (A cycle has somebody in iput().)
IlockOrdered ==
  ~ \E p, q \in FsProcs : /\ IlockNext(p) # 0 /\ ilocked[IlockNext(p)] = q
                          /\ IlockNext(q) # 0 /\ ilocked[IlockNext(q)] = p

\* No call waits for itself or in a circle (usertests.c:855: "another concurrent
\* link/unlink/create test, to look for deadlocks"; fs.c:150: "helps avoid deadlock").
NoDeadlock == \A p \in FsProcs : ~InCycle(p)

\* Both counts of an inode are right at every step of every call: ref those in
\* memory, nlink those on the disk.
CountsRight == RefsBalance /\ LinksCounted

\* What is in use is there, and cached as it is on the disk, although entries are
\* recycled and inodes freed and allocated again meanwhile.
InodesSound == TreeTypeOK /\ InUseAllocated /\ CacheCoherent

\* What stops a call of fs.c is none of the usual calls: a panic needs a directory
\* that was removed in use, a circle of waiting processes needs iput().
StopsOnlyOdd == PanicOnlyRemoved /\ IlockOrdered
=============================================================================
