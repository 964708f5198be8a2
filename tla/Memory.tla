------------------------------- MODULE Memory -------------------------------
(***************************************************************************)
(* Physical pages and user address spaces: kalloc.c, vm.c, exec(), and the *)
(* parts of fork(), growproc(), exit() and wait() that allocate and free.  *)
(*                                                                         *)
(* The operators take a record s through a call in the order of the code:  *)
(* the free pages, the page table being built and whether it still goes    *)
(* well.  A call is one action.  Processes meet only in kalloc() and       *)
(* kfree(), under kmem.lock; what others allocate meanwhile can make       *)
(* kalloc() fail early, so a call is given some of the free pages.         *)
(* Pages are not shared, so that it is enough to count them: a page freed  *)
(* twice or lost makes the sum wrong.                                      *)
(***************************************************************************)
EXTENDS Integers, SequencesExt

CONSTANTS
  MProcs, NPAGES,
  PGSIZE, NPTENTRIES, KERNBASE, UINT,   \* address arithmetic is modulo UINT
  Deltas,      \* arguments of sbrk()
  Programs,    \* images: sequences of [vaddr, memsz, filesz, short]
  ArgSizes     \* bytes that exec() pushes on the new stack

UserPages == 0 .. (KERNBASE \div PGSIZE) - 1
KernTable == KERNBASE \div (PGSIZE * NPTENTRIES)   \* the kernel's part
Initial == CHOOSE p \in MProcs : TRUE

PGROUNDUP(sz) == ((sz + PGSIZE - 1) \div PGSIZE) * PGSIZE

VARIABLES
  free,        \* length of kmem.freelist
  mproc,       \* process -> [state, vm, sz], with a kernel stack unless unused
  leaks,       \* history: pages that copyuvm() dropped
  emptied,     \* history: processes that growproc() left without pages
  mpanic

mVars == <<free, mproc, leaks, emptied, mpanic>>
-----------------------------------------------------------------------------
NoVm == [dir |-> FALSE, tabs |-> {}, pte |-> {}, user |-> {}]
NoProcess == [state |-> "unused", vm |-> NoVm, sz |-> 0]
Begun(budget, pgdir) ==
  [free |-> free, budget |-> budget, vm |-> pgdir, stack |-> FALSE, ok |-> TRUE,
   sz |-> 0, leak |-> 0, panic |-> FALSE]
Fail(s) == [s EXCEPT !.ok = FALSE]
Panic(s) == [s EXCEPT !.ok = FALSE, !.panic = TRUE]

\* kalloc() and kfree() of n pages.
Kalloc(s) == IF ~s.ok \/ s.budget = 0 THEN Fail(s)
             ELSE [s EXCEPT !.free = @ - 1, !.budget = @ - 1]
Kfree(s, n) == [s EXCEPT !.free = @ + n]

\* walkpgdir(alloc = 1) and mappages() of one page.
WithTable(s, t) == IF s.ok THEN [s EXCEPT !.vm.tabs = @ \cup {t}] ELSE s
WalkPgdir(s, t) == IF ~s.ok \/ t \in s.vm.tabs THEN s ELSE WithTable(Kalloc(s), t)
Mapped(s, v, u) ==
  IF ~s.ok THEN s
  ELSE IF v \in s.vm.pte THEN Panic(s)
  ELSE [s EXCEPT !.vm.pte = @ \cup {v}, !.vm.user = IF u THEN @ \cup {v} ELSE @]
MapPage(s, v, u) == Mapped(WalkPgdir(s, v \div NPTENTRIES), v, u)

\* deallocuvm(): the pages from PGROUNDUP(newsz) up to oldsz.
From(newsz) == PGROUNDUP(newsz) \div PGSIZE
Unmapped(pte, vs) == pte \ vs
Unmap(s, vs) ==
  [Kfree(s, Cardinality(s.vm.pte \cap vs)) EXCEPT !.vm.pte = Unmapped(@, vs), !.vm.user = @ \ vs]
Dealloc(s, oldsz, newsz) ==
  IF newsz >= oldsz THEN [s EXCEPT !.sz = oldsz]
  ELSE [Unmap(s, {v \in UserPages : From(newsz) <= v /\ v * PGSIZE < oldsz}) EXCEPT !.sz = newsz]

\* freevm(): user pages, page tables and directory.
DirPage(pgdir) == IF pgdir.dir THEN 1 ELSE 0
FreeVm(s) ==
  [Kfree(Dealloc(s, KERNBASE, 0), Cardinality(s.vm.tabs) + DirPage(s.vm)) EXCEPT !.vm = NoVm]
OrFree(s) == IF s.ok \/ s.panic THEN s ELSE FreeVm(s)

\* setupkvm(): the directory and the table of the kernel's part.
WithDir(s) == IF s.ok THEN [s EXCEPT !.vm.dir = TRUE] ELSE s
SetupKvm(s) == OrFree(WalkPgdir(WithDir(Kalloc(s)), KernTable))

\* allocuvm(): one page after the other, and all of them undone on failure.
Undone(s, newsz, oldsz, n) == Fail(Kfree(Dealloc(s, newsz, oldsz), n))
OrUndone(s, newsz, oldsz, n) == IF s.ok \/ s.panic THEN s ELSE Undone(s, newsz, oldsz, n)
AllocPage(s, a, oldsz, newsz) ==
  IF ~s.ok THEN Undone(s, newsz, oldsz, 0)
  ELSE OrUndone(MapPage(s, a \div PGSIZE, TRUE), newsz, oldsz, 1)
RECURSIVE AllocPages(_, _, _, _)
AllocPages(s, a, oldsz, newsz) ==
  IF ~s.ok \/ a >= newsz THEN [s EXCEPT !.sz = newsz]
  ELSE AllocPages(AllocPage(Kalloc(s), a, oldsz, newsz), a + PGSIZE, oldsz, newsz)
Alloc(s, oldsz, newsz) ==
  IF newsz >= KERNBASE THEN Fail(s)
  ELSE IF newsz < oldsz THEN [s EXCEPT !.sz = oldsz]
  ELSE AllocPages(s, PGROUNDUP(oldsz), oldsz, newsz)

\* copyuvm(): when mappages() fails, mem is neither mapped nor freed.
OrLeaked(s) == IF s.ok \/ s.panic THEN s ELSE [s EXCEPT !.leak = 1]
CopyPage(s, v, u) == IF s.ok THEN OrLeaked(MapPage(s, v, u)) ELSE s
RECURSIVE CopyPages(_, _, _, _)
CopyPages(s, from, i, sz) ==
  IF ~s.ok \/ i >= sz THEN s
  ELSE IF i \div PGSIZE \notin from.pte THEN Panic(s)
  ELSE CopyPages(CopyPage(Kalloc(s), i \div PGSIZE, i \div PGSIZE \in from.user), from, i + PGSIZE, sz)
CopyUvm(s, from, sz) == OrFree(CopyPages(SetupKvm(s), from, 0, sz))
-----------------------------------------------------------------------------
\* userinit(): the first process has one page.
Kstack(s) == IF s.ok THEN [s EXCEPT !.stack = TRUE] ELSE s
FirstVm == [dir |-> TRUE, tabs |-> {0, KernTable}, pte |-> {0}, user |-> {0}]
MInit ==
  /\ free = NPAGES - 5
  /\ mproc = [p \in MProcs |-> IF p = Initial THEN [state |-> "live", vm |-> FirstVm, sz |-> PGSIZE]
                               ELSE NoProcess]
  /\ leaks = 0 /\ emptied = {} /\ mpanic = FALSE

Live(p) == mproc[p].state = "live" /\ ~mpanic
Lent == 0 .. free   \* free pages that a call gets to see
\* What a call leaves behind besides the process itself.
After(s) ==
  \/ s.panic /\ mpanic' = TRUE /\ UNCHANGED <<free, leaks>>
  \/ /\ ~s.panic
     /\ free' = s.free
     /\ leaks' = leaks + s.leak
     /\ UNCHANGED mpanic

\* fork(): kernel stack, then the copy; the stack is freed if the copy fails.
Mut_NoCopy(s) == s
NoCopy(s) == Kfree(s, IF s.stack THEN 1 ELSE 0)
ForkVm(p, q) ==
  \E b \in Lent :
    LET c == CopyUvm(Kstack(Kalloc(Begun(b, NoVm))), mproc[p].vm, mproc[p].sz)
    IN  /\ Live(p) /\ mproc[q].state = "unused"
        /\ \/ ~c.ok /\ After(NoCopy(c)) /\ UNCHANGED <<mproc, emptied>>
           \/ /\ c.ok /\ After(c)
              /\ mproc' = [mproc EXCEPT ![q] =
                   [state |-> "live", vm |-> c.vm, sz |-> mproc[p].sz]]
              /\ UNCHANGED emptied

\* growproc(): allocuvm() and deallocuvm() return 0 for an error, and deallocuvm()
\* also when the new size is 0.
GrowProc(p, n) ==
  \E b \in Lent :
    LET s == Begun(b, mproc[p].vm)
        to == (mproc[p].sz + n) % UINT
        r == IF n > 0 THEN Alloc(s, mproc[p].sz, to) ELSE Dealloc(s, mproc[p].sz, to)
    IN  /\ Live(p) /\ n # 0
        /\ mproc' = [mproc EXCEPT ![p].vm = r.vm,
                                  ![p].sz = IF r.ok /\ r.sz # 0 THEN r.sz ELSE @]
        /\ emptied' = IF n < 0 /\ to = 0 THEN emptied \cup {p} ELSE emptied
        /\ After(r)
SysSbrk(p) == \E n \in Deltas : GrowProc(p, n)

\* exec(): the loop over the program headers.
BadHeader(ph) == ph.memsz < ph.filesz \/ (ph.vaddr + ph.memsz) % UINT < ph.vaddr
\* loaduvm(): every page is there; readi() may come back short.
Loaduvm(s, ph) ==
  IF \E v \in UserPages \ s.vm.pte : ph.vaddr <= v * PGSIZE /\ v * PGSIZE < ph.vaddr + ph.filesz
  THEN Panic(s)
  ELSE IF ph.short THEN Fail(s) ELSE s
CheckedSegment(s, ph) ==
  IF ~s.ok THEN s
  ELSE IF s.sz = 0 \/ ph.vaddr % PGSIZE # 0 THEN Fail(s) ELSE Loaduvm(s, ph)
LoadSegment(s, ph) ==
  IF ~s.ok \/ BadHeader(ph) THEN Fail(s)
  ELSE CheckedSegment(Alloc(s, s.sz, ph.vaddr + ph.memsz), ph)
\* The stack and its guard page.
ClearPteU(s) == [s EXCEPT !.vm.user = @ \ {(s.sz - 2 * PGSIZE) \div PGSIZE}]
WithStack(s) == IF s.ok THEN ClearPteU(Alloc(s, PGROUNDUP(s.sz), PGROUNDUP(s.sz) + 2 * PGSIZE)) ELSE s
\* copyout() of the arguments: every page is present and the user's.
PushArgs(s, n) ==
  IF \A x \in s.sz - n .. s.sz - 1 : x >= 0 /\ x \div PGSIZE \in s.vm.user THEN s ELSE Fail(s)
NewImage(b, segs, args) ==
  OrFree(PushArgs(WithStack(FoldLeft(LoadSegment, SetupKvm(Begun(b, NoVm)), segs)), args))
Exec(p, segs, args) ==
  \E b \in Lent :
    LET s == NewImage(b, segs, args)
        o == FreeVm([s EXCEPT !.vm = mproc[p].vm])
    IN  /\ Live(p)
        /\ \/ ~s.ok /\ After(s) /\ UNCHANGED <<mproc, emptied>>
           \/ /\ s.ok /\ After(o)
              /\ mproc' = [mproc EXCEPT ![p].vm = s.vm, ![p].sz = s.sz]
              /\ emptied' = emptied \ {p}

\* exit() keeps the pages and clears sz; wait() of another process frees them.
ExitVm(p) ==
  /\ Live(p) /\ p # Initial
  /\ mproc' = [mproc EXCEPT ![p].state = "zombie", ![p].sz = 0]
  /\ emptied' = emptied \ {p}
  /\ UNCHANGED <<free, leaks, mpanic>>
WaitVm(p, q) ==
  /\ Live(p) /\ mproc[q].state = "zombie"
  /\ mproc' = [mproc EXCEPT ![q] = NoProcess]
  /\ After(FreeVm(Kfree(Begun(0, mproc[q].vm), 1)))
  /\ UNCHANGED emptied

MNext ==
  \E p \in MProcs :
    \/ \E q \in MProcs : ForkVm(p, q) \/ WaitVm(p, q)
    \/ SysSbrk(p)
    \/ \E segs \in Programs, args \in ArgSizes : Exec(p, segs, args)
    \/ ExitVm(p)
MSpec == MInit /\ [][MNext]_mVars
-----------------------------------------------------------------------------
\* Pages of process p: kernel stack, directory, page tables, user pages.
PagesOf(p) == IF mproc[p].state = "unused" THEN 0
              ELSE 1 + DirPage(mproc[p].vm) + Cardinality(mproc[p].vm.tabs) + Cardinality(mproc[p].vm.pte)

\* Every page is free or in use: no path of fork(), exec(), sbrk() or wait(), failing
\* at any of its allocations, frees a page twice or loses one.  The exception is
\* copyuvm() (vm.c:335) when mappages() finds no page for a page table.
PagesKept == NPAGES = free + leaks + MapThenSumSet(PagesOf, MProcs)

\* A process has exactly the pages below its size, however sbrk() and exec() round,
\* fail or wrap around, unless it has shrunk itself to nothing (growproc() then
\* reports an error, with the pages gone and the size as before).
SzMapped == \A p \in MProcs : mproc[p].state = "live" /\ p \notin emptied =>
  mproc[p].vm.pte = 0 .. (PGROUNDUP(mproc[p].sz) \div PGSIZE) - 1

\* The kernel panics in copyuvm(), loaduvm() or mappages() only for such a process.
VmPanics == mpanic => emptied # {}

\* No page is lost or shared, no process has other pages than its size says and the
\* kernel does not panic over one, though each allocation may fail, up to the two
\* exceptions above.
MemorySound == PagesKept /\ SzMapped /\ VmPanics
=============================================================================
