------------------------------- MODULE Umalloc -------------------------------
(***************************************************************************)
(* malloc() and free() of umalloc.c.  Addresses count units of             *)
(* sizeof(Header); &base is 0 and the heap begins at 2, above it.  The     *)
(* headers of free blocks form the circular list ring, those of allocated  *)
(* blocks are in lent; headers inside a block are rubbish and not kept.    *)
(***************************************************************************)
EXTENDS Integers, FiniteSets, Functions, TLC

CONSTANTS HEADER,       \* sizeof(Header), in bytes
          MINCORE,      \* the least morecore() asks for, in units
          MAXBRK,       \* sbrk() fails past it
          Requests      \* nbytes of malloc()

VARIABLES ring,         \* free headers: address -> [ptr, size]
          freep, lent, brk,
          denied,       \* units of the last call, if it returned 0
          others        \* units the program took with sbrk() itself
umVars == <<ring, freep, lent, brk, denied, others>>

Base == 0
HeapStart == 2

Heap(r, f) == [ring |-> r, freep |-> f]
Without(r, p) == Restrict(r, DOMAIN r \ {p})
Linked2(r, p, q) == [r EXCEPT ![p].ptr = q]

\* free(): where in the list bp belongs.
RECURSIVE Place(_, _, _)
Place(r, bp, p) ==
  IF bp > p /\ bp < r[p].ptr THEN p
  ELSE IF p >= r[p].ptr /\ (bp > p \/ bp < r[p].ptr) THEN p
  ELSE Place(r, bp, r[p].ptr)

\* free(): bp and its size joined with the block above it, the block below it, or neither.
JoinedUp(r, p, bp, size) ==
  IF bp + size = r[p].ptr
  THEN (bp :> [ptr |-> r[r[p].ptr].ptr, size |-> size + r[r[p].ptr].size]) @@ Without(r, r[p].ptr)
  ELSE (bp :> [ptr |-> r[p].ptr, size |-> size]) @@ r
Mut_JoinedDown(r, p, bp) == Linked2(r, p, bp)
JoinedDown(r, p, bp) ==
  IF p + r[p].size = bp
  THEN [Without(r, bp) EXCEPT ![p] = [ptr |-> r[bp].ptr, size |-> @.size + r[bp].size]]
  ELSE Linked2(r, p, bp)
FreeAt(r, p, bp, size) == Heap(JoinedDown(JoinedUp(r, p, bp, size), p, bp), p)
Freed(h, bp, size) == FreeAt(h.ring, Place(h.ring, bp, h.freep), bp, size)

\* malloc(): the units of a request, and the block cut off the end of p.
NUnits(nbytes) == (nbytes + HEADER - 1) \div HEADER + 1
Cut(r, prevp, p, n) ==
  IF r[p].size = n THEN Linked2(Without(r, p), prevp, r[p].ptr)
  ELSE [r EXCEPT ![p].size = @ - n]

Granted(h, prevp, p, n, b) == [ring |-> Cut(h.ring, prevp, p, n), freep |-> prevp, brk |-> b, bp |-> p + h.ring[p].size - n]
Refusal(h, b) == [ring |-> h.ring, freep |-> h.freep, brk |-> b, bp |-> Base]

\* morecore()
Core(n) == IF n < MINCORE THEN MINCORE ELSE n
\* malloc(): the search, once around the list and then with more core.
Around(h, p) == p = h.freep
RECURSIVE Search(_, _, _, _, _)
Search(h, prevp, p, n, b) ==
  IF h.ring[p].size >= n THEN Granted(h, prevp, p, n, b)
  ELSE IF ~Around(h, p) THEN Search(h, p, h.ring[p].ptr, n, b)
  ELSE IF b + Core(n) > MAXBRK THEN Refusal(h, b)
  ELSE LET g == Freed(h, b, Core(n)) IN Search(g, g.freep, g.ring[g.freep].ptr, n, b + Core(n))

\* freep is 0 until the first call of malloc(): base alone, linked to itself.
UmInit == /\ ring = (Base :> [ptr |-> Base, size |-> 0]) /\ freep = Base
          /\ lent = <<>> /\ brk = HeapStart /\ denied = 0 /\ others = {}

Malloc(nbytes) ==
  LET n == NUnits(nbytes)
      m == Search(Heap(ring, freep), freep, ring[freep].ptr, n, brk)
  IN  /\ ring' = m.ring /\ freep' = m.freep /\ brk' = m.brk
      /\ lent' = IF m.bp = Base THEN lent ELSE (m.bp :> n) @@ lent
      /\ denied' = IF m.bp = Base THEN n ELSE 0
      /\ UNCHANGED others

FreeBlock ==
  \E bp \in DOMAIN lent :
    LET h == Freed(Heap(ring, freep), bp, lent[bp])
    IN  /\ ring' = h.ring /\ freep' = h.freep
        /\ lent' = Without(lent, bp) /\ denied' = 0
        /\ UNCHANGED <<brk, others>>

\* The program may move the break itself: the next core is not next to the last.
Sbrk == /\ brk < MAXBRK /\ others = {}
        /\ brk' = brk + 1 /\ others' = {brk} /\ denied' = 0
        /\ UNCHANGED <<ring, freep, lent>>

UmNext == (\E n \in Requests : Malloc(n)) \/ FreeBlock \/ Sbrk
UmSpec == UmInit /\ [][UmNext]_umVars
-----------------------------------------------------------------------------
UnitsOf(bp, size) == bp .. bp + size - 1
Owners(u) == {bp \in DOMAIN ring : u \in UnitsOf(bp, ring[bp].size)} \cup {bp \in DOMAIN lent : u \in UnitsOf(bp, lent[bp])}

\* Every unit the allocator got from sbrk() is in exactly one block, free or lent out, and no
\* block reaches into anything else.
HeapTiled == /\ \A u \in HeapStart .. MAXBRK + MINCORE :
                  Cardinality(Owners(u)) = IF u < brk /\ u \notin others THEN 1 ELSE 0
             /\ DOMAIN ring \cap DOMAIN lent = {}

\* The list visits all free blocks in the order of their addresses and closes, and no two of
\* them touch: free() finds the place of every block and joins it with both neighbours.
RingSound ==
  /\ freep \in DOMAIN ring /\ Base \in DOMAIN ring
  /\ \A p \in DOMAIN ring :
       LET above == {q \in DOMAIN ring : q > p}
       IN  /\ ring[p].ptr = IF above = {} THEN Base ELSE CHOOSE q \in above : \A a \in above : q <= a
           /\ p + ring[p].size \notin DOMAIN ring \ {Base, p}

\* malloc() gives up only when no free block is large enough, though it stops its search where
\* the previous call left freep.
FailsOnlyFull == denied # 0 => \A p \in DOMAIN ring : ring[p].size < denied

\* The heap is a partition whose free blocks are all on the list and all found by malloc(),
\* whatever was lent and given back in between.
HeapSound == HeapTiled /\ RingSound /\ FailsOnlyFull
=============================================================================
