----------------------------- MODULE FileProofs -----------------------------
(***************************************************************************)
(* The reference counts of the file table are right, whatever the number   *)
(* of processes, files, descriptors, inodes and pipes.                     *)
(***************************************************************************)
EXTENDS File, Integers, FiniteSetTheorems, TLAPS

Objects == {NoObject} \cup {Inode(i) : i \in FInodes}
           \cup {End(k, FALSE) : k \in Pipes} \cup {End(k, TRUE) : k \in Pipes}
CallPCs == {"idle", "open", "fill", "pipe", "page", "fds", "close", "exit"}

FType ==
  /\ fref \in [FileNos -> Nat] /\ fobj \in [FileNos -> Objects]
  /\ ofile \in [Pointers -> 0 .. NFILE]
  /\ live \subseteq FProcs
  /\ iref \in [FInodes -> Nat]
  /\ openEnds \in [Pipes -> SUBSET {"r", "w"}]
  /\ fpc \in [FProcs -> CallPCs]
  /\ ip \in [FProcs -> FInodes \cup {"none"}]
  /\ fd \in [FProcs -> Nat]
  /\ ff \in [FProcs -> Objects]

\* What a process holds at each point of a call: the inode of sys_open() until the file has it,
\* the local pointers while they are in use, and nothing when it does not exist.
CallHolds(p) ==
  /\ p \notin live => fpc[p] = "idle" /\ ff[p] = NoObject /\ \A d \in Fds : ofile[<<p, d>>] = 0
  /\ fpc[p] \in {"open", "fill"} => ip[p] \in FInodes
  /\ fpc[p] \notin {"open", "fill", "close"} => ip[p] = "none"
  /\ fpc[p] \in {"idle", "open", "fill", "exit"} => ofile[<<p, Rf>>] = 0 /\ ofile[<<p, Wf>>] = 0
  /\ fpc[p] = "pipe" => ofile[<<p, Wf>>] = 0
  /\ fpc[p] = "fill" => fd[p] \in Fds
CallsHold == \A p \in FProcs : CallHolds(p)

\* A free struct file has type FD_NONE.
FreeEmpty == \A f \in FileNos : fref[f] = 0 => fobj[f] = NoObject

\* A file that filealloc() gave to a call, and that is not filled in yet, has one pointer to it.
Fresh(p, s) ==
  /\ ofile[<<p, s>>] # 0 /\ fobj[ofile[<<p, s>>]] = NoObject
  /\ \A h \in Pointers : ofile[h] = ofile[<<p, s>>] => h = <<p, s>>
CallFresh(p) ==
  /\ fpc[p] = "fill" => Fresh(p, fd[p])
  /\ fpc[p] \in {"pipe", "page"} => Fresh(p, Rf)
  /\ fpc[p] = "page" => Fresh(p, Wf)
FreshFiles == \A p \in FProcs : CallFresh(p)

\* The counts, without the condition that free files have no object.
InodeCount == \A i \in FInodes :
  iref[i] = CountOf(fobj, Inode(i)) + CountOf(ip, i) + CountOf(ff, Inode(i))
EndCount == \A k \in Pipes, w \in BOOLEAN :
  CountOf(fobj, End(k, w)) + CountOf(ff, End(k, w)) = IF EndSide(w) \in openEnds[k] THEN 1 ELSE 0

FInv == FType /\ CallsHold /\ FreeEmpty /\ FreshFiles /\ FileRefs /\ InodeCount /\ EndCount
-----------------------------------------------------------------------------
(* Counting.                                                               *)

Same(a, b) == IF a = b THEN 1 ELSE 0
Assigned(h, g, x, w) == h = [g EXCEPT ![x] = w]

\* One assignment to g[x] takes one from the count of the old value and adds one to the count
\* of the new one.
LEMMA CountUpdate ==
  ASSUME NEW g, IsFiniteSet(DOMAIN g), NEW x \in DOMAIN g, NEW w, NEW h, Assigned(h, g, x, w), NEW v
  PROVE  /\ CountOf(g, v) \in Nat /\ CountOf(h, v) \in Nat
         /\ CountOf(h, v) + Same(g[x], v) = CountOf(g, v) + Same(w, v)
<1> DEFINE S == DOMAIN g
           A == {y \in S : g[y] = v}
           B == {y \in S : h[y] = v}
<1>1. DOMAIN h = S /\ \A y \in S : h[y] = IF y = x THEN w ELSE g[y]
  BY Zenon DEF Assigned
<1>2. CountOf(g, v) = Cardinality(A) /\ CountOf(h, v) = Cardinality(B)
  BY <1>1, Zenon DEF CountOf
<1>3. IsFiniteSet(A) /\ IsFiniteSet(B) /\ (x \in A <=> g[x] = v)
  BY FS_Subset, Zenon
<1>4. B = IF w = v THEN A \cup {x} ELSE A \ {x}
  BY <1>1, Zenon
<1> HIDE DEF A, B
<1>5. Cardinality(A) \in Nat /\ Cardinality(B) \in Nat
  BY <1>3, FS_CardinalityType, Zenon
<1>6. CASE w = v
  <2>1. Cardinality(B) = IF x \in A THEN Cardinality(A) ELSE Cardinality(A) + 1
    BY <1>3, <1>4, <1>6, FS_AddElement, Zenon
  <2>2. QED
    BY <1>2, <1>3, <1>5, <1>6, <2>1 DEF Same
<1>7. CASE w # v
  <2>1. Cardinality(B) = IF x \in A THEN Cardinality(A) - 1 ELSE Cardinality(A)
    BY <1>3, <1>4, <1>7, FS_RemoveElement, Zenon
  <2>2. QED
    BY <1>2, <1>3, <1>5, <1>7, <2>1 DEF Same
<1>8. QED
  BY <1>6, <1>7, Zenon

\* What is counted zero times is nowhere, and the other way round.
LEMMA CountZero ==
  ASSUME NEW g, IsFiniteSet(DOMAIN g), NEW v
  PROVE  /\ CountOf(g, v) \in Nat
         /\ CountOf(g, v) = 0 <=> \A x \in DOMAIN g : g[x] # v
<1> DEFINE A == {y \in DOMAIN g : g[y] = v}
<1>1. CountOf(g, v) = Cardinality(A)
  BY Zenon DEF CountOf
<1>2. IsFiniteSet(A)
  BY FS_Subset, Zenon
<1>3. Cardinality(A) \in Nat /\ (Cardinality(A) = 0 <=> A = {})
  BY <1>2, FS_CardinalityType, FS_EmptySet, Zenon
<1>4. A = {} <=> \A x \in DOMAIN g : g[x] # v
  BY Zenon
<1>5. QED
  BY <1>1, <1>3, <1>4, Zenon

\* The sets that the counts range over are finite; the local pointers are none of the descriptors,
\* and 0 is no file.
LEMMA PointersAndFiles ==
  /\ IsFiniteSet(FProcs) /\ IsFiniteSet(FileNos) /\ IsFiniteSet(Fds) /\ IsFiniteSet(Pointers)
  /\ Fds \subseteq 0 .. NOFILE + 1 /\ Rf \in 0 .. NOFILE + 1 /\ Wf \in 0 .. NOFILE + 1
  /\ Rf \notin Fds /\ Wf \notin Fds /\ Rf # Wf
  /\ FileNos \subseteq 0 .. NFILE /\ 0 \notin FileNos /\ \A f \in 0 .. NFILE : f = 0 \/ f \in FileNos
<1>1. IsFiniteSet(FileNos) /\ IsFiniteSet(Fds) /\ IsFiniteSet(0 .. NOFILE + 1)
  <2>1. NFILE \in Int /\ NOFILE - 1 \in Int /\ NOFILE + 1 \in Int /\ 0 \in Int /\ 1 \in Int
    BY FileConstants
  <2>2. QED
    BY <2>1, FS_Interval, Zenon DEF FileNos, Fds
<1>2. IsFiniteSet(Pointers)
  BY <1>1, FileConstants, FS_Product, Zenon DEF Pointers
<1>3. QED
  BY <1>1, <1>2, FileConstants DEF Fds, Rf, Wf, FileNos

\* The three kinds of objects are different, and a different inode or end is a different object.
LEMMA ObjectsDiffer ==
  /\ NoObject \in Objects
  /\ \A i \in FInodes : Inode(i) \in Objects /\ Inode(i) # NoObject
  /\ \A i, j \in FInodes : Inode(i) = Inode(j) => i = j
  /\ \A k \in Pipes, w \in BOOLEAN : End(k, w) \in Objects /\ End(k, w) # NoObject
  /\ \A k, l \in Pipes, v, w \in BOOLEAN : End(k, v) = End(l, w) => k = l /\ v = w
  /\ \A i \in FInodes, k \in Pipes, w \in BOOLEAN : Inode(i) # End(k, w)
  /\ \A o \in Objects : \/ o = NoObject
                        \/ \E i \in FInodes : o = Inode(i)
                        \/ \E k \in Pipes, w \in BOOLEAN : o = End(k, w)
<1>1. /\ \A i : Inode(i).type = "inode" /\ Inode(i).ip = i
      /\ \A k, w : End(k, w).type = "pipe" /\ End(k, w).pipe = k /\ End(k, w).writable = w
      /\ NoObject.type = "none"
  BY Zenon DEF Inode, End, NoObject
<1>2. \A i, k, w : Inode(i) # NoObject /\ End(k, w) # NoObject /\ Inode(i) # End(k, w)
  BY <1>1
<1>3. /\ \A i, j : Inode(i) = Inode(j) => i = j
      /\ \A k, l, v, w : End(k, v) = End(l, w) => k = l /\ v = w
  <2>1. ASSUME NEW i, NEW j, Inode(i) = Inode(j) PROVE i = j
    BY <1>1, <2>1
  <2>2. ASSUME NEW k, NEW l, NEW v, NEW w, End(k, v) = End(l, w) PROVE k = l /\ v = w
    BY <1>1, <2>2
  <2>3. QED
    BY <2>1, <2>2, Zenon
<1>4. /\ \A i \in FInodes : Inode(i) \in Objects
      /\ \A k \in Pipes, w \in BOOLEAN : End(k, w) \in Objects
      /\ NoObject \in Objects
  BY Zenon DEF Objects
<1>5. \A o \in Objects : \/ o = NoObject
                         \/ \E i \in FInodes : o = Inode(i)
                         \/ \E k \in Pipes, w \in BOOLEAN : o = End(k, w)
  <2> SUFFICES ASSUME NEW o \in Objects, o # NoObject, ~\E i \in FInodes : o = Inode(i)
               PROVE  \E k \in Pipes, w \in BOOLEAN : o = End(k, w)
    BY Zenon
  <2>1. PICK k \in Pipes : o = End(k, FALSE) \/ o = End(k, TRUE)
    BY Zenon DEF Objects
  <2>2. QED
    BY <2>1, Zenon
<1>6. QED
  BY <1>2, <1>3, <1>4, <1>5
-----------------------------------------------------------------------------
(* What the others have is not touched.                                    *)

\* Process p takes a step: the other processes and their pointers stay as they are, ...
Alone(p) == \A q \in FProcs \ {p} :
  /\ fpc'[q] = fpc[q] /\ ip'[q] = ip[q] /\ fd'[q] = fd[q] /\ ff'[q] = ff[q]
  /\ q \in live' <=> q \in live
  /\ \A s \in 0 .. NOFILE + 1 : ofile'[<<q, s>>] = ofile[<<q, s>>]

\* ... new pointers are to free files or to files that p has already, and only those change.
Mine(p, f) == \E s \in 0 .. NOFILE + 1 : ofile[<<p, s>>] = f
OnlyBy(p) ==
  /\ \A h \in Pointers : \/ ofile'[h] = ofile[h] \/ ofile'[h] = 0
                         \/ fref[ofile'[h]] = 0 \/ Mine(p, ofile'[h])
  /\ \A f \in FileNos : fobj'[f] = fobj[f] \/ Mine(p, f)

\* The counts of a state that a step leaves alone.
LEMMA CountsFrame ==
  /\ FileRefs /\ UNCHANGED <<fref, ofile>> => FileRefs'
  /\ InodeCount /\ UNCHANGED <<iref, fobj, ip, ff>> => InodeCount'
  /\ EndCount /\ UNCHANGED <<openEnds, fobj, ff>> => EndCount'
  /\ FreeEmpty /\ UNCHANGED <<fref, fobj>> => FreeEmpty'
<1>1. FileRefs /\ UNCHANGED <<fref, ofile>> => FileRefs'
  BY Zenon DEF FileRefs
<1>2. InodeCount /\ UNCHANGED <<iref, fobj, ip, ff>> => InodeCount'
  BY Zenon DEF InodeCount
<1>3. EndCount /\ UNCHANGED <<openEnds, fobj, ff>> => EndCount'
  BY Zenon DEF EndCount
<1>4. FreeEmpty /\ UNCHANGED <<fref, fobj>> => FreeEmpty'
  BY Zenon DEF FreeEmpty
<1>5. QED
  BY <1>1, <1>2, <1>3, <1>4, Zenon

\* A file with a pointer to it is not free: filedup() and fileclose() do not panic.
LEMMA HeldCounted ==
  ASSUME FType, FileRefs, NEW f \in FileNos
  PROVE  /\ fref[f] \in Nat /\ fref[f] = CountOf(ofile, f)
         /\ fref[f] = 0 <=> \A h \in Pointers : ofile[h] # f
<1>1. ofile \in [Pointers -> 0 .. NFILE] /\ IsFiniteSet(DOMAIN ofile) /\ DOMAIN ofile = Pointers
  BY PointersAndFiles, Zenon DEF FType
<1>2. CountOf(ofile, f) \in Nat /\ (CountOf(ofile, f) = 0 <=> \A h \in Pointers : ofile[h] # f)
  BY <1>1, CountZero, Zenon
<1>3. fref[f] = CountOf(ofile, f)
  BY Zenon DEF FileRefs
<1>4. QED
  BY <1>2, <1>3, Zenon

\* A file that q has taken and not filled in is not among those that p has, nor is it free.
LEMMA OthersFresh ==
  ASSUME FType, FileRefs, NEW p \in FProcs, OnlyBy(p),
         NEW q \in FProcs, q # p, NEW s \in 0 .. NOFILE + 1, Fresh(q, s),
         ofile'[<<q, s>>] = ofile[<<q, s>>]
  PROVE  Fresh(q, s)'
<1> DEFINE f == ofile[<<q, s>>]
<1>1. <<q, s>> \in Pointers /\ f \in FileNos /\ f # 0
  BY PointersAndFiles, Zenon DEF FType, Pointers, Fresh
<1>2. \A h \in Pointers : ofile[h] = f => h = <<q, s>>
  BY Zenon DEF Fresh
<1>3. ~Mine(p, f)
  <2> SUFFICES ASSUME NEW t \in 0 .. NOFILE + 1, ofile[<<p, t>>] = f PROVE FALSE
    BY Zenon DEF Mine
  <2>1. <<p, t>> \in Pointers
    BY Zenon DEF Pointers
  <2>2. <<p, t>> = <<q, s>>
    BY <1>2, <2>1, Zenon
  <2>3. QED
    BY <2>2, Zenon
<1>4. fref[f] # 0
  BY <1>1, HeldCounted, Zenon
<1>5. fobj'[f] = NoObject
  BY <1>1, <1>3, Zenon DEF OnlyBy, Fresh
<1>6. ASSUME NEW h \in Pointers, ofile'[h] = f PROVE h = <<q, s>>
  <2>1. ofile[h] = f
    BY <1>1, <1>3, <1>4, <1>6, Zenon DEF OnlyBy
  <2>2. QED
    BY <1>2, <2>1, Zenon
<1>7. QED
  BY <1>1, <1>5, <1>6, Zenon DEF Fresh

\* So a step keeps what CallsHold and FreshFiles say of the others; fork() changes the child
\* p, and gives it the files of the parent r.
LEMMA ParentChildStep ==
  ASSUME FInv, NEW p \in FProcs, NEW r \in FProcs, Alone(p), OnlyBy(r),
         CallHolds(p)', CallFresh(p)', CallFresh(r)'
  PROVE  CallsHold' /\ FreshFiles'
<1>0. /\ Fds \subseteq 0 .. NOFILE + 1 /\ Rf \in 0 .. NOFILE + 1 /\ Wf \in 0 .. NOFILE + 1
      /\ \A q \in FProcs : fpc[q] = "fill" => fd[q] \in Fds
  BY PointersAndFiles, Zenon DEF FInv, CallsHold, CallHolds
<1>1. ASSUME NEW q \in FProcs, q # p PROVE CallHolds(q)' /\ (q # r => CallFresh(q)')
  <2>1. /\ fpc'[q] = fpc[q] /\ ip'[q] = ip[q] /\ fd'[q] = fd[q] /\ ff'[q] = ff[q]
        /\ q \in live' <=> q \in live
        /\ \A s \in 0 .. NOFILE + 1 : ofile'[<<q, s>>] = ofile[<<q, s>>]
    BY <1>1, Zenon DEF Alone
  <2>2. CallHolds(q) /\ CallFresh(q)
    BY Zenon DEF FInv, CallsHold, FreshFiles
  <2>3. q # r => \A s \in 0 .. NOFILE + 1 : Fresh(q, s) => Fresh(q, s)'
    BY <1>1, <2>1, OthersFresh, Zenon DEF FInv
  <2>4. CallHolds(q)'
    <3>1. /\ \A d \in Fds : ofile'[<<q, d>>] = ofile[<<q, d>>]
          /\ ofile'[<<q, Rf>>] = ofile[<<q, Rf>>] /\ ofile'[<<q, Wf>>] = ofile[<<q, Wf>>]
      BY <1>0, <2>1, Zenon
    <3>2. QED
      BY <2>1, <2>2, <3>1, Zenon DEF CallHolds
  <2>5. ASSUME q # r PROVE CallFresh(q)'
    <3>1. fpc'[q] = "fill" => Fresh(q, fd[q])'
      <4>1. SUFFICES ASSUME fpc[q] = "fill" PROVE Fresh(q, fd[q])'
        BY <2>1, Zenon
      <4>2. fd[q] \in 0 .. NOFILE + 1 /\ Fresh(q, fd[q])
        BY <1>0, <2>2, <4>1, Zenon DEF CallFresh
      <4>3. PICK d \in 0 .. NOFILE + 1 : d = fd[q] /\ Fresh(q, d)
        BY <4>2, Zenon
      <4>4. Fresh(q, d)' /\ d = fd'[q]
        BY <2>1, <2>3, <2>5, <4>3, Zenon
      <4>5. QED
        BY <4>4, Zenon DEF Fresh
    <3>2. QED
      BY <1>0, <2>1, <2>2, <2>3, <2>5, <3>1, Zenon DEF CallFresh
  <2>6. QED
    BY <2>4, <2>5, Zenon
<1>2. QED
  BY <1>1, Zenon DEF CallsHold, FreshFiles

\* In the other steps it is p that has them already.
LEMMA ControlStep ==
  ASSUME FInv, NEW p \in FProcs, Alone(p), OnlyBy(p), CallHolds(p)', CallFresh(p)'
  PROVE  CallsHold' /\ FreshFiles'
  BY ParentChildStep, Zenon
-----------------------------------------------------------------------------
(* Calls that allocate.                                                    *)

\* An assignment to one pointer.
LEMMA PointerWrite ==
  ASSUME FType, NEW h \in Pointers, NEW g \in 0 .. NFILE, ofile' = [ofile EXCEPT ![h] = g]
  PROVE  /\ ofile' \in [Pointers -> 0 .. NFILE]
         /\ \A k \in Pointers : ofile'[k] = IF k = h THEN g ELSE ofile[k]
         /\ \A f \in FileNos :
              /\ CountOf(ofile, f) \in Nat /\ CountOf(ofile', f) \in Nat
              /\ CountOf(ofile', f) + Same(ofile[h], f) = CountOf(ofile, f) + Same(g, f)
<1>1. ofile \in [Pointers -> 0 .. NFILE] /\ IsFiniteSet(DOMAIN ofile) /\ DOMAIN ofile = Pointers
  BY PointersAndFiles, Zenon DEF FType
<1>2. /\ ofile' \in [Pointers -> 0 .. NFILE]
      /\ \A k \in Pointers : ofile'[k] = IF k = h THEN g ELSE ofile[k]
  BY <1>1, Zenon
<1>3. ASSUME NEW f \in FileNos
      PROVE  /\ CountOf(ofile, f) \in Nat /\ CountOf(ofile', f) \in Nat
             /\ CountOf(ofile', f) + Same(ofile[h], f) = CountOf(ofile, f) + Same(g, f)
  <2>1. Assigned(ofile', ofile, h, g) /\ h \in DOMAIN ofile /\ IsFiniteSet(DOMAIN ofile)
    BY <1>1, Zenon DEF Assigned
  <2>2. QED
    BY <2>1, CountUpdate
<1>4. QED
  BY <1>2, <1>3, Zenon

\* filealloc() and a pointer to what it returns: the file was free, so this is its one pointer.
LEMMA AllocStep ==
  ASSUME FInv, NEW p \in FProcs, NEW s \in 0 .. NOFILE + 1, ofile[<<p, s>>] = 0,
         NEW f \in 0 .. NFILE, FileAlloc(f), ofile' = [ofile EXCEPT ![<<p, s>>] = f],
         NEW c \in CallPCs, fpc' = [fpc EXCEPT ![p] = c],
         fd' = fd \/ fd' = [fd EXCEPT ![p] = s], UNCHANGED <<fobj, live, iref, openEnds, ip, ff>>
  PROVE  /\ FType' /\ FreeEmpty' /\ FileRefs' /\ InodeCount' /\ EndCount' /\ Alone(p) /\ OnlyBy(p)
         /\ f # 0 => Fresh(p, s)'
         /\ \A t \in 0 .. NOFILE + 1 : Fresh(p, t) => Fresh(p, t)'
<1>0. <<p, s>> \in Pointers /\ s \in Nat /\ FType /\ FileRefs /\ FreeEmpty
  BY DEF FInv, Pointers
<1>1. /\ ofile' \in [Pointers -> 0 .. NFILE]
      /\ \A k \in Pointers : ofile'[k] = IF k = <<p, s>> THEN f ELSE ofile[k]
      /\ \A g \in FileNos : /\ CountOf(ofile, g) \in Nat /\ CountOf(ofile', g) \in Nat
                           /\ CountOf(ofile', g) + Same(ofile[<<p, s>>], g) = CountOf(ofile, g) + Same(f, g)
  BY <1>0, PointerWrite, Zenon
<1>2. CASE f = 0
  <2>1. fref' = fref /\ ofile' = ofile
    BY <1>0, <1>2, PointersAndFiles, Zenon DEF FileAlloc, Lowest, FreeFiles, FType
  <2>2. FType'
    BY <1>0, <2>1 DEF FType
  <2>3. Alone(p)
    BY <1>0, <2>1, Zenon DEF Alone, FType
  <2>4. OnlyBy(p) /\ \A t \in 0 .. NOFILE + 1 : Fresh(p, t) => Fresh(p, t)'
    BY <2>1, Zenon DEF OnlyBy, Fresh
  <2>5. QED
    BY <1>2, <2>1, <2>2, <2>3, <2>4, CountsFrame, Zenon DEF FInv
<1>3. CASE f # 0
  <2>1. f \in FileNos /\ fref[f] = 0 /\ fref' = [fref EXCEPT ![f] = 1]
    BY <1>3, PointersAndFiles, Zenon DEF FileAlloc, Lowest, FreeFiles
  <2>2. /\ fref' \in [FileNos -> Nat] /\ \A g \in FileNos : fref'[g] = IF g = f THEN 1 ELSE fref[g]
    BY <1>0, <2>1, Zenon DEF FType
  <2>3. \A h \in Pointers : ofile[h] # f
    BY <1>0, <2>1, HeldCounted, Zenon
  <2>4. FileRefs'
    <3>1. ASSUME NEW g \in FileNos PROVE fref'[g] = CountOf(ofile', g)
      <4>1. ofile[<<p, s>>] # g /\ fref[g] = CountOf(ofile, g) /\ CountOf(ofile, g) \in Nat
        BY PointersAndFiles, <1>0, <1>1, Zenon DEF FileRefs
      <4>2. CountOf(ofile', g) \in Nat /\ CountOf(ofile', g) + 0 = CountOf(ofile, g) + Same(f, g)
        BY <1>1, <4>1, Zenon DEF Same
      <4>3. QED
        BY <2>1, <2>2, <4>1, <4>2 DEF Same
    <3>2. QED
      BY <3>1, Zenon DEF FileRefs
  <2>5. FType'
    BY <1>0, <1>1, <2>2 DEF FType
  <2>6. FreeEmpty'
    BY <1>0, <2>2 DEF FreeEmpty
  <2>7. Alone(p)
    BY <1>0, <1>1, ZenonT(60) DEF Alone, FType, Pointers
  <2>8. OnlyBy(p)
    BY <1>1, <2>1, Zenon DEF OnlyBy
  <2>9. Fresh(p, s)'
    <3>1. ofile'[<<p, s>>] = f /\ fobj'[f] = NoObject
      BY <1>0, <1>1, <2>1, Zenon DEF FreeEmpty
    <3>2. QED
      BY <1>1, <1>3, <2>3, <3>1, Zenon DEF Fresh
  <2>10. ASSUME NEW t \in 0 .. NOFILE + 1, Fresh(p, t) PROVE Fresh(p, t)'
    <3>1. <<p, t>> \in Pointers /\ ofile[<<p, t>>] # 0 /\ ofile[<<p, t>>] # f
      BY <2>3, <2>10, Zenon DEF Fresh, Pointers
    <3>2. ofile'[<<p, t>>] = ofile[<<p, t>>]
      BY <1>1, <3>1, Zenon
    <3>3. QED
      BY <1>1, <2>10, <3>1, <3>2, Zenon DEF Fresh
  <2>11. QED
    BY <2>4, <2>5, <2>6, <2>7, <2>8, <2>9, <2>10, CountsFrame, Zenon DEF FInv
<1>4. QED
  BY <1>2, <1>3, Zenon

\* What an invariant of the files is made of, once the parts are there.
LEMMA FInvFrom ==
  ASSUME FType', CallsHold', FreshFiles', FreeEmpty', FileRefs', InodeCount', EndCount'
  PROVE  FInv'
  BY Zenon DEF FInv

\* sys_pipe() takes its first file,
LEMMA PipeFirstStep ==
  ASSUME FInv, NEW p \in FProcs, PipeFirst(p)
  PROVE  FInv'
<1>0. Rf \in 0 .. NOFILE + 1 /\ Rf # Wf /\ Rf \notin Fds /\ Wf \in 0 .. NOFILE + 1 /\ Fds \subseteq 0 .. NOFILE + 1
  BY PointersAndFiles, Zenon
<1>1. PICK f \in 0 .. NFILE : /\ FileAlloc(f) /\ ofile' = [ofile EXCEPT ![<<p, Rf>>] = f]
                              /\ fpc' = [fpc EXCEPT ![p] = IF f = 0 THEN "idle" ELSE "pipe"]
  BY Zenon DEF PipeFirst, CallTo
<1> DEFINE c == IF f = 0 THEN "idle" ELSE "pipe"
<1>2. /\ p \in live /\ fpc[p] = "idle" /\ ff[p] = NoObject
      /\ UNCHANGED <<fobj, live, iref, openEnds, ip, fd, ff>>
  BY Zenon DEF PipeFirst, Ready, AtCall
<1>3. CallHolds(p) /\ ofile[<<p, Rf>>] = 0 /\ ofile[<<p, Wf>>] = 0 /\ ip[p] = "none"
  BY <1>2, Zenon DEF FInv, CallsHold, CallHolds
<1>4. c \in CallPCs /\ fpc'[p] = c
  BY <1>1, Zenon DEF CallPCs, FInv, FType
<1>5. /\ FType' /\ FreeEmpty' /\ FileRefs' /\ InodeCount' /\ EndCount' /\ Alone(p) /\ OnlyBy(p)
      /\ f # 0 => Fresh(p, Rf)'
  BY <1>0, <1>1, <1>2, <1>3, <1>4, AllocStep, Zenon
<1>6. ofile'[<<p, Wf>>] = 0 /\ (f = 0 => ofile'[<<p, Rf>>] = 0)
  <2>1. <<p, Rf>> \in Pointers /\ <<p, Wf>> \in Pointers /\ <<p, Wf>> # <<p, Rf>>
    BY <1>0, Zenon DEF Pointers
  <2>2. QED
    BY <1>1, <1>3, <2>1, Zenon DEF FInv, FType
<1>7. CallHolds(p)'
  BY <1>2, <1>3, <1>4, <1>6, Zenon DEF CallHolds
<1>8. CallFresh(p)'
  BY <1>4, <1>5, Zenon DEF CallFresh
<1>9. QED
  BY <1>5, <1>7, <1>8, ControlStep, FInvFrom, Zenon

\* and its second one.
LEMMA PipeSecondStep ==
  ASSUME FInv, NEW p \in FProcs, PipeSecond(p)
  PROVE  FInv'
<1>0. Rf \in 0 .. NOFILE + 1 /\ Wf \in 0 .. NOFILE + 1
  BY PointersAndFiles, Zenon
<1>1. PICK f \in 0 .. NFILE : /\ FileAlloc(f) /\ ofile' = [ofile EXCEPT ![<<p, Wf>>] = f]
                              /\ fpc' = [fpc EXCEPT ![p] = IF f = 0 THEN "close" ELSE "page"]
  BY Zenon DEF PipeSecond, CallTo
<1> DEFINE c == IF f = 0 THEN "close" ELSE "page"
<1>2. /\ p \in live /\ fpc[p] = "pipe" /\ ff[p] = NoObject
      /\ UNCHANGED <<fobj, live, iref, openEnds, ip, fd, ff>>
  BY Zenon DEF PipeSecond, AtCall
<1>3. ofile[<<p, Wf>>] = 0 /\ ip[p] = "none" /\ Fresh(p, Rf)
  BY <1>2, Zenon DEF FInv, CallsHold, CallHolds, FreshFiles, CallFresh
<1>4. c \in CallPCs /\ fpc'[p] = c
  BY <1>1, Zenon DEF CallPCs, FInv, FType
<1>5. /\ FType' /\ FreeEmpty' /\ FileRefs' /\ InodeCount' /\ EndCount' /\ Alone(p) /\ OnlyBy(p)
      /\ f # 0 => Fresh(p, Wf)'
      /\ \A t \in 0 .. NOFILE + 1 : Fresh(p, t) => Fresh(p, t)'
  BY <1>0, <1>1, <1>2, <1>3, <1>4, AllocStep, Zenon
<1>7. CallHolds(p)'
  BY <1>2, <1>3, <1>4, Zenon DEF CallHolds
<1>8. CallFresh(p)'
  BY <1>0, <1>3, <1>4, <1>5, Zenon DEF CallFresh
<1>9. QED
  BY <1>5, <1>7, <1>8, ControlStep, FInvFrom, Zenon

\* sys_open() takes a file, and a descriptor if it can.
LEMMA OpenAllocStep ==
  ASSUME FInv, NEW p \in FProcs, OpenAlloc(p)
  PROVE  FInv'
<1>0. /\ Rf \in 0 .. NOFILE + 1 /\ Wf \in 0 .. NOFILE + 1 /\ Rf # Wf /\ Rf \notin Fds /\ Wf \notin Fds
      /\ Fds \subseteq 0 .. NOFILE + 1
  BY PointersAndFiles, Zenon
<1>1. PICK f \in 0 .. NFILE :
        /\ FileAlloc(f)
        /\ \/ \E d \in Fds : /\ f # 0 /\ Lowest(d, FreeFds(p))
                             /\ ofile' = [ofile EXCEPT ![<<p, d>>] = f]
                             /\ fd' = [fd EXCEPT ![p] = d]
                             /\ fpc' = [fpc EXCEPT ![p] = "fill"]
           \/ /\ ofile' = [ofile EXCEPT ![<<p, Rf>>] = f]
              /\ fpc' = [fpc EXCEPT ![p] = "close"]
              /\ fd' = fd
  BY Zenon DEF OpenAlloc, CallTo
<1>2. /\ p \in live /\ fpc[p] = "open" /\ ff[p] = NoObject
      /\ UNCHANGED <<fobj, live, iref, openEnds, ip, ff>>
  BY Zenon DEF OpenAlloc, AtCall
<1>3. ofile[<<p, Rf>>] = 0 /\ ofile[<<p, Wf>>] = 0 /\ ip[p] \in FInodes /\ FType
  BY <1>2, Zenon DEF FInv, CallsHold, CallHolds
<1>4. "fill" \in CallPCs /\ "close" \in CallPCs
  BY Zenon DEF CallPCs
<1>5. ASSUME NEW d \in Fds, f # 0, Lowest(d, FreeFds(p)), ofile' = [ofile EXCEPT ![<<p, d>>] = f],
             fd' = [fd EXCEPT ![p] = d], fpc' = [fpc EXCEPT ![p] = "fill"]
      PROVE  FInv'
  <2>1. ofile[<<p, d>>] = 0 /\ d \in 0 .. NOFILE + 1
    BY <1>0, <1>5, Zenon DEF Lowest, FreeFds
  <2>2. /\ FType' /\ FreeEmpty' /\ FileRefs' /\ InodeCount' /\ EndCount' /\ Alone(p) /\ OnlyBy(p)
        /\ f # 0 => Fresh(p, d)'
    BY <1>1, <1>2, <1>4, <1>5, <2>1, AllocStep, Zenon
  <2>3. fpc'[p] = "fill" /\ fd'[p] = d /\ Fresh(p, d)'
    BY <1>3, <1>5, <2>2, Zenon DEF FType
  <2>4. ofile'[<<p, Rf>>] = 0 /\ ofile'[<<p, Wf>>] = 0
    <3>1. <<p, Rf>> \in Pointers /\ <<p, Wf>> \in Pointers /\ <<p, d>> # <<p, Rf>> /\ <<p, d>> # <<p, Wf>>
      BY <1>0, Zenon DEF Pointers
    <3>2. QED
      BY <1>3, <1>5, <3>1, Zenon DEF FType
  <2>5. CallHolds(p)'
    BY <1>2, <1>3, <2>3, <2>4, Zenon DEF CallHolds
  <2>6. CallFresh(p)'
    BY <2>3, Zenon DEF CallFresh, Fresh
  <2>7. QED
    BY <2>2, <2>5, <2>6, ControlStep, FInvFrom, Zenon
<1>6. ASSUME ofile' = [ofile EXCEPT ![<<p, Rf>>] = f], fpc' = [fpc EXCEPT ![p] = "close"], fd' = fd
      PROVE  FInv'
  <2>1. FType' /\ FreeEmpty' /\ FileRefs' /\ InodeCount' /\ EndCount' /\ Alone(p) /\ OnlyBy(p)
    BY <1>0, <1>1, <1>2, <1>3, <1>4, <1>6, AllocStep, Zenon
  <2>2. fpc'[p] = "close"
    BY <1>3, <1>6, Zenon DEF FType
  <2>3. CallHolds(p)' /\ CallFresh(p)'
    BY <1>2, <2>2, Zenon DEF CallHolds, CallFresh
  <2>4. QED
    BY <2>1, <2>3, ControlStep, FInvFrom, Zenon
<1>7. QED
  BY <1>1, <1>5, <1>6, Zenon
-----------------------------------------------------------------------------
(* Calls that pass pointers on.                                            *)

IsMove(oh, of, h, k) ==
  /\ oh \in [Pointers -> 0 .. NFILE]
  /\ \A x \in Pointers : oh[x] = IF x = h THEN 0 ELSE IF x = k THEN of[h] ELSE of[x]
  /\ \A g \in FileNos : CountOf(oh, g) = CountOf(of, g)

\* Moving a file from one pointer to another one changes no count.
LEMMA MoveCount ==
  ASSUME NEW of \in [Pointers -> 0 .. NFILE], NEW h \in Pointers, NEW k \in Pointers, h # k, of[k] = 0,
         NEW oh, oh = Moved(of, h, k)
  PROVE  IsMove(oh, of, h, k)
<1> DEFINE o1 == [of EXCEPT ![h] = 0]
           o2 == [o1 EXCEPT ![k] = of[h]]
<1>1. o1 \in [Pointers -> 0 .. NFILE] /\ o1[k] = 0 /\ oh = o2
  <2>1. 0 \in 0 .. NFILE
    BY FileConstants, Zenon
  <2>2. QED
    BY <2>1, Zenon DEF Moved
<1>2. o2 \in [Pointers -> 0 .. NFILE]
  BY <1>1, Zenon
<1>3. \A x \in Pointers : o2[x] = IF x = h THEN 0 ELSE IF x = k THEN of[h] ELSE of[x]
  BY <1>1, Zenon
<1>4. /\ Assigned(o1, of, h, 0) /\ h \in DOMAIN of /\ IsFiniteSet(DOMAIN of)
      /\ Assigned(o2, o1, k, of[h]) /\ k \in DOMAIN o1 /\ IsFiniteSet(DOMAIN o1)
  BY <1>1, PointersAndFiles, Zenon DEF Assigned
<1> HIDE DEF o1, o2
<1>5. ASSUME NEW g \in FileNos PROVE CountOf(o2, g) = CountOf(of, g)
  <2>1. /\ CountOf(of, g) \in Nat /\ CountOf(o1, g) \in Nat
        /\ CountOf(o1, g) + Same(of[h], g) = CountOf(of, g) + Same(0, g)
    BY <1>4, CountUpdate
  <2>2. /\ CountOf(o2, g) \in Nat
        /\ CountOf(o2, g) + Same(o1[k], g) = CountOf(o1, g) + Same(of[h], g)
    BY <1>4, CountUpdate
  <2>3. Same(0, g) = 0 /\ Same(o1[k], g) = 0
    BY <1>1, PointersAndFiles, Zenon DEF Same
  <2>4. QED
    BY <2>1, <2>2, <2>3
<1>6. QED
  BY <1>1, <1>2, <1>3, <1>5, Zenon DEF IsMove

\* sys_close() takes the file from its descriptor.
LEMMA SysCloseStep ==
  ASSUME FInv, NEW p \in FProcs, NEW d \in Fds, SysClose(p, d)
  PROVE  FInv'
<1>0. /\ <<p, d>> \in Pointers /\ <<p, Rf>> \in Pointers /\ <<p, d>> # <<p, Rf>>
      /\ d \in 0 .. NOFILE + 1 /\ FType /\ FileRefs
  BY PointersAndFiles, Zenon DEF Pointers, FInv
<1>1. /\ fpc[p] = "idle" /\ p \in live /\ ofile' = Moved(ofile, <<p, d>>, <<p, Rf>>)
      /\ fpc' = [fpc EXCEPT ![p] = "close"] /\ UNCHANGED <<fref, fobj, live, iref, openEnds, ip, fd, ff>>
  BY Zenon DEF SysClose, Ready, AtCall, CallTo
<1>2. ofile[<<p, Rf>>] = 0 /\ ofile \in [Pointers -> 0 .. NFILE]
  BY <1>1, Zenon DEF FInv, FType, CallsHold, CallHolds
<1>3. /\ ofile' \in [Pointers -> 0 .. NFILE]
      /\ \A x \in Pointers : ofile'[x] = IF x = <<p, d>> THEN 0 ELSE IF x = <<p, Rf>> THEN ofile[<<p, d>>] ELSE ofile[x]
      /\ \A g \in FileNos : CountOf(ofile', g) = CountOf(ofile, g)
  <2>1. IsMove(ofile', ofile, <<p, d>>, <<p, Rf>>)
    BY <1>0, <1>1, <1>2, MoveCount, Zenon
  <2>2. QED
    BY <2>1, Zenon DEF IsMove
<1>4. FType' /\ fpc'[p] = "close"
  BY <1>0, <1>1, <1>3, Zenon DEF FType, CallPCs
<1>5. FileRefs'
  BY <1>0, <1>1, <1>3, Zenon DEF FileRefs
<1>6. Alone(p)
  BY <1>0, <1>1, <1>3, Zenon DEF Alone, FType, Pointers
<1>7. OnlyBy(p)
  BY <1>0, <1>1, <1>3, Zenon DEF OnlyBy, Mine
<1>8. CallHolds(p)' /\ CallFresh(p)'
  BY <1>1, <1>4, Zenon DEF CallHolds, CallFresh
<1>9. QED
  BY <1>1, <1>4, <1>5, <1>6, <1>7, <1>8, CountsFrame, ControlStep, FInvFrom, Zenon DEF FInv

\* The two files of sys_pipe() go to their descriptors, or stay where they are to be closed.
LEMMA PipeFdsStep ==
  ASSUME FInv, NEW p \in FProcs, PipeFds(p)
  PROVE  FInv'
<1>0. /\ <<p, Rf>> \in Pointers /\ <<p, Wf>> \in Pointers /\ <<p, Rf>> # <<p, Wf>>
      /\ Rf \in 0 .. NOFILE + 1 /\ Wf \in 0 .. NOFILE + 1 /\ FType /\ FileRefs
  BY PointersAndFiles, Zenon DEF Pointers, FInv
<1>1. /\ fpc[p] = "fds" /\ p \in live /\ ff[p] = NoObject /\ ip[p] = "none"
      /\ UNCHANGED <<fref, fobj, live, iref, openEnds, ip, fd, ff>>
  BY Zenon DEF PipeFds, AtCall, FInv, CallsHold, CallHolds
<1>2. ASSUME NEW d \in Fds, NEW e \in Fds, Lowest(d, FreeFds(p)), Lowest(e, FreeFds(p) \ {d}),
             ofile' = Moved(Moved(ofile, <<p, Rf>>, <<p, d>>), <<p, Wf>>, <<p, e>>),
             fpc' = [fpc EXCEPT ![p] = "idle"]
      PROVE  FInv'
  <2> DEFINE o1 == Moved(ofile, <<p, Rf>>, <<p, d>>)
  <2>1. /\ <<p, d>> \in Pointers /\ <<p, e>> \in Pointers /\ <<p, d>> # <<p, Rf>> /\ <<p, e>> # <<p, Wf>>
        /\ <<p, d>> # <<p, e>> /\ <<p, d>> # <<p, Wf>> /\ <<p, e>> # <<p, Rf>>
        /\ ofile[<<p, d>>] = 0 /\ ofile[<<p, e>>] = 0 /\ ofile \in [Pointers -> 0 .. NFILE]
    BY <1>0, <1>2, PointersAndFiles, Zenon DEF Lowest, FreeFds, Pointers, FType
  <2>2. /\ o1 \in [Pointers -> 0 .. NFILE]
        /\ \A x \in Pointers : o1[x] = IF x = <<p, Rf>> THEN 0 ELSE IF x = <<p, d>> THEN ofile[<<p, Rf>>] ELSE ofile[x]
        /\ \A g \in FileNos : CountOf(o1, g) = CountOf(ofile, g)
    <3>1. IsMove(o1, ofile, <<p, Rf>>, <<p, d>>)
      BY <1>0, <2>1, MoveCount, Zenon
    <3>2. QED
      BY <3>1, Zenon DEF IsMove
  <2>3. o1[<<p, e>>] = 0 /\ ofile' = Moved(o1, <<p, Wf>>, <<p, e>>)
    BY <1>2, <2>1, <2>2, Zenon
  <2> HIDE DEF o1
  <2>4. /\ ofile' \in [Pointers -> 0 .. NFILE]
        /\ \A x \in Pointers : ofile'[x] = IF x = <<p, Wf>> THEN 0 ELSE IF x = <<p, e>> THEN o1[<<p, Wf>>] ELSE o1[x]
        /\ \A g \in FileNos : CountOf(ofile', g) = CountOf(o1, g)
    <3>1. IsMove(ofile', o1, <<p, Wf>>, <<p, e>>)
      BY <1>0, <2>1, <2>2, <2>3, MoveCount, Zenon
    <3>2. QED
      BY <3>1, Zenon DEF IsMove
  <2>5. /\ ofile'[<<p, Rf>>] = 0 /\ ofile'[<<p, Wf>>] = 0
        /\ \A x \in Pointers : x[1] # p => ofile'[x] = ofile[x]
        /\ \A x \in Pointers : ofile'[x] \in {0, ofile[x], ofile[<<p, Rf>>], ofile[<<p, Wf>>]}
    <3>1. ofile'[<<p, Rf>>] = 0 /\ ofile'[<<p, Wf>>] = 0 /\ o1[<<p, Wf>>] = ofile[<<p, Wf>>]
      BY <1>0, <2>1, <2>2, <2>4, Zenon
    <3>2. ASSUME NEW x \in Pointers
          PROVE  /\ x[1] # p => ofile'[x] = ofile[x]
                 /\ ofile'[x] \in {0, ofile[x], ofile[<<p, Rf>>], ofile[<<p, Wf>>]}
      <4>1. /\ ofile'[x] = IF x = <<p, Wf>> THEN 0 ELSE IF x = <<p, e>> THEN ofile[<<p, Wf>>] ELSE o1[x]
            /\ o1[x] = IF x = <<p, Rf>> THEN 0 ELSE IF x = <<p, d>> THEN ofile[<<p, Rf>>] ELSE ofile[x]
        BY <2>2, <2>4, <3>1, Zenon
      <4>2. x[1] # p => x # <<p, Rf>> /\ x # <<p, Wf>> /\ x # <<p, d>> /\ x # <<p, e>>
        OBVIOUS
      <4>3. QED
        BY <4>1, <4>2, Zenon
    <3>3. QED
      BY <3>1, <3>2, Zenon
  <2>6. FType' /\ fpc'[p] = "idle"
    BY <1>0, <1>1, <1>2, <2>4, Zenon DEF FType, CallPCs
  <2>7. FileRefs'
    BY <1>0, <1>1, <2>2, <2>4, Zenon DEF FileRefs
  <2>8. Alone(p)
    BY <1>0, <1>1, <1>2, <2>5, Zenon DEF Alone, FType, Pointers
  <2>9. OnlyBy(p)
    BY <1>0, <1>1, <2>5, Zenon DEF OnlyBy, Mine
  <2>10. CallHolds(p)' /\ CallFresh(p)'
    BY <1>1, <2>5, <2>6, Zenon DEF CallHolds, CallFresh
  <2>11. QED
    BY <1>1, <2>6, <2>7, <2>8, <2>9, <2>10, CountsFrame, ControlStep, FInvFrom, Zenon DEF FInv
<1>3. ASSUME ofile' = ofile, fpc' = [fpc EXCEPT ![p] = "close"] PROVE FInv'
  <2>1. FType' /\ fpc'[p] = "close"
    BY <1>0, <1>1, <1>3, Zenon DEF FType, CallPCs
  <2>2. Alone(p) /\ OnlyBy(p)
    BY <1>0, <1>1, <1>3, Zenon DEF Alone, OnlyBy, FType
  <2>3. CallHolds(p)' /\ CallFresh(p)'
    BY <1>1, <2>1, Zenon DEF CallHolds, CallFresh
  <2>4. QED
    BY <1>1, <1>3, <2>1, <2>2, <2>3, CountsFrame, ControlStep, FInvFrom, Zenon DEF FInv
<1>4. QED
  BY <1>2, <1>3, Zenon DEF PipeFds, CallTo

\* sys_dup() adds one pointer, and one to the count.
LEMMA DupStep ==
  ASSUME FInv, NEW p \in FProcs, NEW d \in Fds, Dup(p, d)
  PROVE  FInv'
<1> DEFINE f == ofile[<<p, d>>]
<1>0. FType /\ FileRefs /\ FreeEmpty /\ <<p, d>> \in Pointers /\ d \in 0 .. NOFILE + 1
  BY PointersAndFiles, Zenon DEF Pointers, FInv
<1>1. /\ fpc[p] = "idle" /\ p \in live /\ f # 0 /\ fref' = [fref EXCEPT ![f] = @ + 1]
      /\ UNCHANGED <<fobj, live, iref, openEnds, fpc, ip, fd, ff>>
  BY Zenon DEF Dup, Ready, AtCall, callVars
<1>2. PICK e \in Fds : Lowest(e, FreeFds(p)) /\ ofile' = [ofile EXCEPT ![<<p, e>>] = f]
  BY Zenon DEF Dup
<1>3. /\ <<p, e>> \in Pointers /\ ofile[<<p, e>>] = 0 /\ f \in FileNos /\ f \in 0 .. NFILE
  BY <1>0, <1>1, <1>2, PointersAndFiles, Zenon DEF Lowest, FreeFds, Pointers, FType
<1> HIDE DEF f
<1>4. /\ ofile' \in [Pointers -> 0 .. NFILE]
      /\ \A k \in Pointers : ofile'[k] = IF k = <<p, e>> THEN f ELSE ofile[k]
      /\ \A g \in FileNos : /\ CountOf(ofile, g) \in Nat /\ CountOf(ofile', g) \in Nat
                           /\ CountOf(ofile', g) + Same(ofile[<<p, e>>], g) = CountOf(ofile, g) + Same(f, g)
  BY <1>0, <1>2, <1>3, PointerWrite, Zenon
<1>5. fref' \in [FileNos -> Nat] /\ \A g \in FileNos : fref'[g] = IF g = f THEN fref[g] + 1 ELSE fref[g]
  BY <1>0, <1>1, <1>3 DEF FType
<1>6. FileRefs'
  <2>1. ASSUME NEW g \in FileNos PROVE fref'[g] = CountOf(ofile', g)
    <3>1. /\ fref[g] = CountOf(ofile, g) /\ CountOf(ofile, g) \in Nat /\ CountOf(ofile', g) \in Nat
          /\ CountOf(ofile', g) + Same(ofile[<<p, e>>], g) = CountOf(ofile, g) + Same(f, g)
      BY <1>0, <1>4, Zenon DEF FileRefs
    <3>2. ofile[<<p, e>>] # g
      BY <1>3, PointersAndFiles, Zenon
    <3>3. QED
      BY <1>5, <3>1, <3>2 DEF Same
  <2>2. QED
    BY <2>1, Zenon DEF FileRefs
<1>7. FreeEmpty'
  <2>1. \A g \in FileNos : fref'[g] = 0 => fref[g] = 0
    BY <1>0, <1>5 DEF FType
  <2>2. QED
    BY <1>0, <1>1, <2>1, Zenon DEF FreeEmpty
<1>8. FType'
  BY <1>0, <1>1, <1>4, <1>5, Zenon DEF FType
<1>9. Alone(p)
  BY <1>0, <1>1, <1>4, Zenon DEF Alone, FType, Pointers
<1>10. OnlyBy(p)
  BY <1>0, <1>1, <1>4, Zenon DEF OnlyBy, Mine, f
<1>11. CallHolds(p)' /\ CallFresh(p)'
  <2>1. ofile'[<<p, Rf>>] = ofile[<<p, Rf>>] /\ ofile'[<<p, Wf>>] = ofile[<<p, Wf>>]
    <3>1. <<p, Rf>> \in Pointers /\ <<p, Wf>> \in Pointers /\ <<p, e>> # <<p, Rf>> /\ <<p, e>> # <<p, Wf>>
      BY PointersAndFiles, Zenon DEF Pointers
    <3>2. QED
      BY <1>4, <3>1, Zenon
  <2>2. CallHolds(p)
    BY Zenon DEF FInv, CallsHold
  <2>3. QED
    BY <1>1, <2>1, <2>2, Zenon DEF CallHolds, CallFresh
<1>12. QED
  BY <1>1, <1>6, <1>7, <1>8, <1>9, <1>10, <1>11, CountsFrame, ControlStep, FInvFrom, Zenon DEF FInv

\* exit() begins.
LEMMA ExitFilesStep ==
  ASSUME FInv, NEW p \in FProcs, ExitFiles(p)
  PROVE  FInv'
<1>0. FType
  BY Zenon DEF FInv
<1>1. /\ fpc[p] = "idle" /\ p \in live /\ fpc' = [fpc EXCEPT ![p] = "exit"]
      /\ UNCHANGED <<fref, fobj, ofile, live, iref, openEnds, ip, fd, ff>>
  BY Zenon DEF ExitFiles, Ready, AtCall, CallTo
<1>2. FType' /\ fpc'[p] = "exit"
  BY <1>0, <1>1, Zenon DEF FType, CallPCs
<1>3. Alone(p) /\ OnlyBy(p)
  BY <1>0, <1>1, Zenon DEF Alone, OnlyBy, FType
<1>4. CallHolds(p)' /\ CallFresh(p)'
  <2>1. CallHolds(p)
    BY Zenon DEF FInv, CallsHold
  <2>2. QED
    BY <1>1, <1>2, <2>1, Zenon DEF CallHolds, CallFresh
<1>5. QED
  BY <1>1, <1>2, <1>3, <1>4, CountsFrame, ControlStep, FInvFrom, Zenon DEF FInv

\* What ToClose() is, without its CASE.
LEMMA ToCloseIs ==
  ASSUME NEW p \in FProcs
  PROVE  /\ fpc[p] = "close" => ToClose(p) = {s \in {Rf, Wf} : ofile[<<p, s>>] # 0}
         /\ fpc[p] = "exit" => ToClose(p) = {s \in Fds : ofile[<<p, s>>] # 0}
         /\ fpc[p] \notin {"close", "exit"} => ToClose(p) = {}
  BY Zenon DEF ToClose

\* A process is gone when it has closed all its descriptors.
LEMMA ExitedStep ==
  ASSUME FInv, NEW p \in FProcs, Exited(p)
  PROVE  FInv'
<1>0. FType
  BY Zenon DEF FInv
<1>1. /\ fpc[p] = "exit" /\ ff[p] = NoObject /\ live' = live \ {p} /\ fpc' = [fpc EXCEPT ![p] = "idle"]
      /\ UNCHANGED <<fref, fobj, ofile, iref, openEnds, ip, fd, ff>> /\ ToClose(p) = {}
  BY Zenon DEF Exited, AtCall, CallTo
<1>2. FType' /\ fpc'[p] = "idle"
  BY <1>0, <1>1, Zenon DEF FType, CallPCs
<1>3. Alone(p) /\ OnlyBy(p)
  BY <1>0, <1>1, Zenon DEF Alone, OnlyBy, FType
<1>4. CallHolds(p)' /\ CallFresh(p)'
  <2>1. CallHolds(p)
    BY Zenon DEF FInv, CallsHold
  <2>2. \A d \in Fds : ofile[<<p, d>>] = 0
    BY <1>1, ToCloseIs, Zenon
  <2>3. QED
    BY <1>1, <1>2, <2>1, <2>2, Zenon DEF CallHolds, CallFresh
<1>5. QED
  BY <1>1, <1>2, <1>3, <1>4, CountsFrame, ControlStep, FInvFrom, Zenon DEF FInv

\* fork(): a file has as many new pointers to it, all of the child, as the parent has descriptors
\* of it.
LEMMA ForkCount ==
  ASSUME FInv, NEW p \in FProcs, NEW q \in FProcs, ForkFiles(p, q), NEW f \in FileNos
  PROVE  /\ Copies(p, f) \in Nat /\ CountOf(ofile, f) \in Nat
         /\ CountOf(ofile', f) = CountOf(ofile, f) + Copies(p, f)
<1> DEFINE A == {h \in Pointers : ofile[h] = f}
           B == {h \in Pointers : ofile'[h] = f}
           D == {d \in Fds : ofile[<<p, d>>] = f}
           E == {q} \X D
<1>1. /\ ofile \in [Pointers -> 0 .. NFILE]
      /\ ofile' = [h \in Pointers |-> IF h[1] = q /\ h[2] \in Fds THEN ofile[<<p, h[2]>>] ELSE ofile[h]]
      /\ \A d \in Fds : ofile[<<q, d>>] = 0
  BY Zenon DEF FInv, FType, ForkFiles, CallsHold, CallHolds
<1>2. CountOf(ofile, f) = Cardinality(A) /\ CountOf(ofile', f) = Cardinality(B) /\ Copies(p, f) = Cardinality(D)
  BY <1>1, Zenon DEF CountOf, Copies
<1>3. IsFiniteSet(A) /\ IsFiniteSet(D) /\ IsFiniteSet({q}) /\ Cardinality({q}) = 1
  BY PointersAndFiles, FS_Subset, FS_Singleton, Zenon
<1>4. IsFiniteSet(E) /\ Cardinality(E) = Cardinality({q}) * Cardinality(D)
  BY <1>3, FS_Product, Zenon
<1>5. \A h \in Pointers : h[1] = q /\ h[2] \in Fds => ofile[h] = 0
  <2> SUFFICES ASSUME NEW h \in Pointers, h[1] = q, h[2] \in Fds PROVE ofile[h] = 0
    BY Zenon
  <2>1. h = <<q, h[2]>>
    BY DEF Pointers
  <2>2. QED
    BY <1>1, <2>1, Zenon
<1>6. f # 0
  BY PointersAndFiles, Zenon
<1>7. A \cap E = {}
  BY <1>5, <1>6, Zenon
<1>8. \A h : h \in B <=> h \in A \cup E
  <2>1. \A h \in E : h \in Pointers /\ h[1] = q /\ h[2] \in Fds /\ ofile[<<p, h[2]>>] = f
    BY PointersAndFiles, Zenon DEF Pointers
  <2>2. \A h \in Pointers : h[1] = q /\ h[2] \in Fds /\ ofile[<<p, h[2]>>] = f => h \in E
    BY Zenon DEF Pointers
  <2>3. \A h \in Pointers : ofile'[h] = IF h[1] = q /\ h[2] \in Fds THEN ofile[<<p, h[2]>>] ELSE ofile[h]
    BY <1>1, Zenon
  <2> HIDE DEF E
  <2>4. ASSUME NEW h \in Pointers PROVE h \in B <=> h \in A \cup E
    <3>1. CASE h[1] = q /\ h[2] \in Fds
      <4>1. ofile'[h] = ofile[<<p, h[2]>>] /\ h \notin A
        BY <1>5, <1>6, <2>3, <3>1, Zenon
      <4>2. h \in E <=> ofile[<<p, h[2]>>] = f
        BY <2>1, <2>2, <3>1, Zenon
      <4>3. QED
        BY <4>1, <4>2, Zenon
    <3>2. CASE ~(h[1] = q /\ h[2] \in Fds)
      BY <2>1, <2>3, <3>2, Zenon
    <3>3. QED
      BY <3>1, <3>2, Zenon
  <2>5. \A h : h \in A \cup E \/ h \in B => h \in Pointers
    BY <2>1, Zenon
  <2>6. QED
    BY <2>4, <2>5, Zenon
<1>9. B = A \cup E
  BY <1>8, Zenon
<1> HIDE DEF A, B, D, E
<1>10. Cardinality(B) = Cardinality(A) + Cardinality(E) - Cardinality(A \cap E)
  BY <1>3, <1>4, <1>9, FS_Union, Zenon
<1>11. Cardinality(A \cap E) = 0 /\ Cardinality(A) \in Nat /\ Cardinality(D) \in Nat
  BY <1>3, <1>7, FS_EmptySet, FS_CardinalityType, Zenon
<1>12. QED
  BY <1>2, <1>3, <1>4, <1>10, <1>11

\* fork(), of the whole table.
LEMMA ForkStep ==
  ASSUME FInv, NEW p \in FProcs, NEW q \in FProcs, ForkFiles(p, q)
  PROVE  FInv'
<1>0. FType /\ FileRefs /\ FreeEmpty /\ CallHolds(p) /\ CallHolds(q)
  BY Zenon DEF FInv, CallsHold
<1>1. /\ fpc[p] = "idle" /\ p \in live /\ q \notin live /\ p # q /\ live' = live \cup {q}
      /\ ofile' = [h \in Pointers |-> IF h[1] = q /\ h[2] \in Fds THEN ofile[<<p, h[2]>>] ELSE ofile[h]]
      /\ fref' = [f \in FileNos |-> fref[f] + Copies(p, f)]
      /\ UNCHANGED <<fobj, iref, openEnds, fpc, ip, fd, ff>>
  BY Zenon DEF ForkFiles, Ready, AtCall, callVars
<1>2. \A f \in FileNos : /\ Copies(p, f) \in Nat /\ CountOf(ofile, f) \in Nat
                         /\ CountOf(ofile', f) = CountOf(ofile, f) + Copies(p, f)
  BY ForkCount, Zenon
<1>3. fref' \in [FileNos -> Nat] /\ \A f \in FileNos : fref[f] \in Nat /\ fref'[f] = fref[f] + Copies(p, f)
  <2>1. \A f \in FileNos : fref[f] \in Nat /\ fref'[f] = fref[f] + Copies(p, f)
    BY <1>0, <1>1, Zenon DEF FType
  <2>2. \A f \in FileNos : fref[f] + Copies(p, f) \in Nat
    BY <1>2, <2>1
  <2>3. QED
    BY <1>1, <2>1, <2>2, Zenon
<1>4. FileRefs'
  BY <1>0, <1>2, <1>3, Zenon DEF FileRefs
<1>5. FreeEmpty'
  <2>1. \A f \in FileNos : fref'[f] = 0 => fref[f] = 0
    BY <1>2, <1>3
  <2>2. QED
    BY <1>0, <1>1, <2>1, Zenon DEF FreeEmpty
<1>6. /\ \A r \in FProcs \ {q} : \A s \in 0 .. NOFILE + 1 : ofile'[<<r, s>>] = ofile[<<r, s>>]
      /\ ofile'[<<q, Rf>>] = ofile[<<q, Rf>>] /\ ofile'[<<q, Wf>>] = ofile[<<q, Wf>>]
  BY <1>1, PointersAndFiles, Zenon DEF Pointers
<1>7. \A h \in Pointers : /\ ofile'[h] \in 0 .. NFILE
                          /\ ofile'[h] = ofile[h] \/ \E d \in 0 .. NOFILE + 1 : ofile[<<p, d>>] = ofile'[h]
  <2>1. \A d \in Fds : d \in 0 .. NOFILE + 1 /\ <<p, d>> \in Pointers
    BY PointersAndFiles, Zenon DEF Pointers
  <2>2. QED
    BY <1>0, <1>1, <2>1, Zenon DEF FType
<1>8. FType'
  <2>1. ofile' \in [Pointers -> 0 .. NFILE]
    BY <1>1, <1>7, Zenon
  <2>2. QED
    BY <1>0, <1>1, <1>3, <2>1, Zenon DEF FType
<1>9. Alone(q)
  BY <1>1, <1>6, Zenon DEF Alone
<1>10. OnlyBy(p)
  BY <1>1, <1>7, Zenon DEF OnlyBy, Mine
<1>11. CallHolds(q)' /\ CallFresh(q)' /\ CallFresh(p)'
  BY <1>0, <1>1, <1>6, Zenon DEF CallHolds, CallFresh
<1>12. QED
  BY <1>1, <1>4, <1>5, <1>8, <1>9, <1>10, <1>11, CountsFrame, ParentChildStep, FInvFrom, Zenon DEF FInv
-----------------------------------------------------------------------------
(* Calls that hold and release objects.                                    *)

\* An assignment to the object of a file.
LEMMA ObjectWrite ==
  ASSUME FType, NEW f \in FileNos, NEW o \in Objects, fobj' = [fobj EXCEPT ![f] = o]
  PROVE  /\ fobj' \in [FileNos -> Objects]
         /\ \A g \in FileNos : fobj'[g] = IF g = f THEN o ELSE fobj[g]
         /\ \A v : /\ CountOf(fobj, v) \in Nat /\ CountOf(fobj', v) \in Nat
                   /\ CountOf(fobj', v) + Same(fobj[f], v) = CountOf(fobj, v) + Same(o, v)
<1>1. IsFiniteSet(DOMAIN fobj) /\ f \in DOMAIN fobj /\ Assigned(fobj', fobj, f, o)
  BY PointersAndFiles, Zenon DEF FType, Assigned
<1>2. ASSUME NEW v
      PROVE  /\ CountOf(fobj, v) \in Nat /\ CountOf(fobj', v) \in Nat
             /\ CountOf(fobj', v) + Same(fobj[f], v) = CountOf(fobj, v) + Same(o, v)
  BY <1>1, CountUpdate
<1>3. QED
  BY <1>2, Zenon DEF FType

\* The same for the object that fileclose() has to release.
LEMMA ReleaseWrite ==
  ASSUME FType, NEW p \in FProcs, NEW o \in Objects, ff' = [ff EXCEPT ![p] = o]
  PROVE  /\ ff' \in [FProcs -> Objects]
         /\ \A q \in FProcs : ff'[q] = IF q = p THEN o ELSE ff[q]
         /\ \A v : /\ CountOf(ff, v) \in Nat /\ CountOf(ff', v) \in Nat
                   /\ CountOf(ff', v) + Same(ff[p], v) = CountOf(ff, v) + Same(o, v)
<1>1. IsFiniteSet(DOMAIN ff) /\ p \in DOMAIN ff /\ Assigned(ff', ff, p, o)
  BY PointersAndFiles, Zenon DEF FType, Assigned
<1>2. ASSUME NEW v
      PROVE  /\ CountOf(ff, v) \in Nat /\ CountOf(ff', v) \in Nat
             /\ CountOf(ff', v) + Same(ff[p], v) = CountOf(ff, v) + Same(o, v)
  BY <1>1, CountUpdate
<1>3. QED
  BY <1>2, Zenon DEF FType

\* The same for the inode that a call holds.
LEMMA InodeWrite ==
  ASSUME FType, NEW p \in FProcs, NEW i \in FInodes \cup {"none"}, ip' = [ip EXCEPT ![p] = i]
  PROVE  /\ ip' \in [FProcs -> FInodes \cup {"none"}]
         /\ \A q \in FProcs : ip'[q] = IF q = p THEN i ELSE ip[q]
         /\ \A v : /\ CountOf(ip, v) \in Nat /\ CountOf(ip', v) \in Nat
                   /\ CountOf(ip', v) + Same(ip[p], v) = CountOf(ip, v) + Same(i, v)
<1>1. IsFiniteSet(DOMAIN ip) /\ p \in DOMAIN ip /\ Assigned(ip', ip, p, i)
  BY PointersAndFiles, Zenon DEF FType, Assigned
<1>2. ASSUME NEW v
      PROVE  /\ CountOf(ip, v) \in Nat /\ CountOf(ip', v) \in Nat
             /\ CountOf(ip', v) + Same(ip[p], v) = CountOf(ip, v) + Same(i, v)
  BY <1>1, CountUpdate
<1>3. QED
  BY <1>2, Zenon DEF FType

\* What a step of p leaves of FType, Alone and OnlyBy when it changes neither pointers nor files.
LEMMA ObjectStep ==
  ASSUME FInv, NEW p \in FProcs, UNCHANGED <<fref, fobj, ofile, live>>,
         FType', InodeCount', EndCount',
         \A q \in FProcs \ {p} : fpc'[q] = fpc[q] /\ ip'[q] = ip[q] /\ fd'[q] = fd[q] /\ ff'[q] = ff[q],
         CallHolds(p)', CallFresh(p)'
  PROVE  FInv'
<1>1. Alone(p) /\ OnlyBy(p)
  BY Zenon DEF Alone, OnlyBy
<1>2. QED
  BY <1>1, CountsFrame, ControlStep, FInvFrom, Zenon DEF FInv

\* The first half of fileclose(): one pointer and one reference less, and the last one hands
\* the object over from the file to the call.
LEMMA FileCloseStep ==
  ASSUME FInv, NEW p \in FProcs, FileClose(p)
  PROVE  FInv'
<1>0. FType /\ FileRefs /\ FreeEmpty /\ InodeCount /\ EndCount /\ CallHolds(p)
  BY Zenon DEF FInv, CallsHold
<1>1. PICK s \in 0 .. NOFILE + 1 :
        /\ Lowest(s, ToClose(p))
        /\ ofile' = [ofile EXCEPT ![<<p, s>>] = 0]
        /\ fref[ofile[<<p, s>>]] >= 1
        /\ fref' = [fref EXCEPT ![ofile[<<p, s>>]] = @ - 1]
        /\ \/ fref[ofile[<<p, s>>]] > 1 /\ UNCHANGED <<fobj, ff>>
           \/ /\ fref[ofile[<<p, s>>]] = 1 /\ fobj' = [fobj EXCEPT ![ofile[<<p, s>>]] = NoObject]
              /\ ff' = [ff EXCEPT ![p] = fobj[ofile[<<p, s>>]]]
  BY Zenon DEF FileClose, Emptied
<1> DEFINE f == ofile[<<p, s>>]
<1>2. /\ p \in live /\ ff[p] = NoObject /\ UNCHANGED <<live, iref, openEnds, fpc, ip, fd>>
      /\ s \in ToClose(p)
  BY <1>1, Zenon DEF FileClose, Lowest
<1>3. <<p, s>> \in Pointers /\ f \in FileNos /\ 0 \in 0 .. NFILE /\ fpc[p] \in {"close", "exit"}
  <2>1. fpc[p] \in {"close", "exit"} /\ f # 0
    BY <1>2, ToCloseIs, Zenon
  <2>2. <<p, s>> \in Pointers
    BY Zenon DEF Pointers
  <2>3. 0 \in 0 .. NFILE
    BY FileConstants
  <2>4. QED
    BY <1>0, <2>1, <2>2, <2>3, PointersAndFiles, Zenon DEF FType
<1>4. /\ \/ fref[f] > 1 /\ UNCHANGED <<fobj, ff>>
         \/ fref[f] = 1 /\ fobj' = [fobj EXCEPT ![f] = NoObject] /\ ff' = [ff EXCEPT ![p] = fobj[f]]
      /\ fref' = [fref EXCEPT ![f] = @ - 1] /\ fref[f] >= 1 /\ fobj[f] \in Objects
  BY <1>0, <1>1, <1>3, Zenon DEF FType
<1>5. /\ ofile' \in [Pointers -> 0 .. NFILE]
      /\ \A k \in Pointers : ofile'[k] = IF k = <<p, s>> THEN 0 ELSE ofile[k]
      /\ \A g \in FileNos : /\ CountOf(ofile, g) \in Nat /\ CountOf(ofile', g) \in Nat
                           /\ CountOf(ofile', g) + Same(f, g) = CountOf(ofile, g) + Same(0, g)
  BY <1>0, <1>1, <1>3, PointerWrite, Zenon
<1>6. OnlyBy(p)
  <2>1. Mine(p, f)
    BY Zenon DEF Mine
  <2>2. \A g \in FileNos : fobj'[g] = fobj[g] \/ g = f
    BY <1>0, <1>4, Zenon DEF FType
  <2> HIDE DEF f
  <2>3. QED
    BY <1>5, <2>1, <2>2, Zenon DEF OnlyBy
<1> HIDE DEF f
<1>7. fref' \in [FileNos -> Nat] /\ \A g \in FileNos : fref'[g] = IF g = f THEN fref[g] - 1 ELSE fref[g]
  BY <1>0, <1>3, <1>4 DEF FType
<1>8. FileRefs'
  <2>1. ASSUME NEW g \in FileNos PROVE fref'[g] = CountOf(ofile', g)
    <3>1. /\ fref[g] = CountOf(ofile, g) /\ CountOf(ofile, g) \in Nat /\ CountOf(ofile', g) \in Nat
          /\ CountOf(ofile', g) + Same(f, g) = CountOf(ofile, g) + Same(0, g) /\ g # 0
      BY <1>0, <1>5, PointersAndFiles, Zenon DEF FileRefs
    <3>2. QED
      BY <1>7, <3>1 DEF Same
  <2>2. QED
    BY <2>1, Zenon DEF FileRefs
<1>9. Alone(p) /\ CallHolds(p)' /\ CallFresh(p)'
  <2>1. \A q \in FProcs \ {p} : ff'[q] = ff[q]
    BY <1>0, <1>4, Zenon DEF FType
  <2>2. \A q \in FProcs : \A t \in 0 .. NOFILE + 1 : q # p => ofile'[<<q, t>>] = ofile[<<q, t>>]
    BY <1>5, Zenon DEF Pointers
  <2>3. \A t \in {Rf, Wf} : ofile[<<p, t>>] = 0 => ofile'[<<p, t>>] = 0
    BY <1>5, PointersAndFiles, Zenon DEF Pointers
  <2>4. QED
    BY <1>0, <1>2, <1>3, <2>1, <2>2, <2>3, Zenon DEF Alone, CallHolds, CallFresh
<1>10. CASE fref[f] > 1 /\ UNCHANGED <<fobj, ff>>
  <2>1. FreeEmpty'
    <3>1. \A g \in FileNos : fref'[g] = 0 => fref[g] = 0
      BY <1>0, <1>3, <1>7, <1>10 DEF FType
    <3>2. QED
      BY <1>0, <1>10, <3>1, Zenon DEF FreeEmpty
  <2>2. FType'
    BY <1>0, <1>2, <1>5, <1>7, <1>10, Zenon DEF FType
  <2>3. QED
    BY <1>0, <1>2, <1>6, <1>8, <1>9, <1>10, <2>1, <2>2, CountsFrame, ControlStep, FInvFrom, Zenon
<1>11. CASE fref[f] = 1 /\ fobj' = [fobj EXCEPT ![f] = NoObject] /\ ff' = [ff EXCEPT ![p] = fobj[f]]
  <2>1. /\ fobj' \in [FileNos -> Objects]
        /\ \A g \in FileNos : fobj'[g] = IF g = f THEN NoObject ELSE fobj[g]
        /\ \A v : /\ CountOf(fobj, v) \in Nat /\ CountOf(fobj', v) \in Nat
                  /\ CountOf(fobj', v) + Same(fobj[f], v) = CountOf(fobj, v) + Same(NoObject, v)
    <3>1. NoObject \in Objects
      BY ObjectsDiffer, Zenon
    <3>2. QED
      BY <1>0, <1>3, <1>11, <3>1, ObjectWrite, Zenon
  <2>2. /\ ff' \in [FProcs -> Objects]
        /\ \A v : /\ CountOf(ff, v) \in Nat /\ CountOf(ff', v) \in Nat
                  /\ CountOf(ff', v) + Same(NoObject, v) = CountOf(ff, v) + Same(fobj[f], v)
    BY <1>0, <1>2, <1>4, <1>11, ReleaseWrite, Zenon
  <2>3. FreeEmpty'
    <3>1. \A g \in FileNos : fref'[g] = 0 => fref[g] = 0 \/ g = f
      BY <1>7, Zenon
    <3>2. QED
      BY <1>0, <2>1, <3>1, Zenon DEF FreeEmpty
  <2>4. FType'
    BY <1>0, <1>2, <1>5, <1>7, <2>1, <2>2, Zenon DEF FType
  <2>5. \A v : CountOf(fobj', v) + CountOf(ff', v) = CountOf(fobj, v) + CountOf(ff, v)
    BY <2>1, <2>2 DEF Same
  <2>6. InodeCount'
    <3>1. ASSUME NEW i \in FInodes
          PROVE  iref[i] = CountOf(fobj', Inode(i)) + CountOf(ip, i) + CountOf(ff', Inode(i))
      <4>1. iref[i] = CountOf(fobj, Inode(i)) + CountOf(ip, i) + CountOf(ff, Inode(i))
        BY <1>0, Zenon DEF InodeCount
      <4>2. CountOf(ip, i) \in Nat
        BY <1>0, PointersAndFiles, CountZero, Zenon DEF FType
      <4>3. QED
        BY <2>1, <2>2, <2>5, <4>1, <4>2
    <3>2. QED
      BY <1>2, <3>1, Zenon DEF InodeCount
  <2>7. EndCount'
    BY <1>0, <1>2, <2>5, Zenon DEF EndCount
  <2>8. QED
    BY <1>6, <1>8, <1>9, <2>3, <2>4, <2>6, <2>7, ControlStep, FInvFrom, Zenon
<1>12. QED
  BY <1>4, <1>10, <1>11, Zenon

\* What is counted in one of three places is counted.
LEMMA ThreeCounts ==
  ASSUME FType, InodeCount, NEW i \in FInodes
  PROVE  /\ iref[i] \in Nat /\ CountOf(fobj, Inode(i)) \in Nat /\ CountOf(ip, i) \in Nat
         /\ CountOf(ff, Inode(i)) \in Nat
         /\ iref[i] = CountOf(fobj, Inode(i)) + CountOf(ip, i) + CountOf(ff, Inode(i))
         /\ \A p \in FProcs : ip[p] = i \/ ff[p] = Inode(i) => iref[i] >= 1
<1>1. /\ DOMAIN fobj = FileNos /\ DOMAIN ip = FProcs /\ DOMAIN ff = FProcs /\ iref[i] \in Nat
      /\ IsFiniteSet(FileNos) /\ IsFiniteSet(FProcs)
  BY PointersAndFiles, Zenon DEF FType
<1>2. CountOf(fobj, Inode(i)) \in Nat
  BY <1>1, CountZero, Zenon
<1>3. CountOf(ip, i) \in Nat /\ (CountOf(ip, i) = 0 => \A p \in FProcs : ip[p] # i)
  BY <1>1, CountZero, Zenon
<1>4. CountOf(ff, Inode(i)) \in Nat /\ (CountOf(ff, Inode(i)) = 0 => \A p \in FProcs : ff[p] # Inode(i))
  BY <1>1, CountZero, Zenon
<1>5. iref[i] = CountOf(fobj, Inode(i)) + CountOf(ip, i) + CountOf(ff, Inode(i))
  BY Zenon DEF InodeCount
<1>6. ASSUME NEW p \in FProcs, ip[p] = i \/ ff[p] = Inode(i) PROVE iref[i] >= 1
  <2>1. CountOf(ip, i) # 0 \/ CountOf(ff, Inode(i)) # 0
    BY <1>3, <1>4, <1>6, Zenon
  <2>2. QED
    BY <1>2, <1>3, <1>4, <1>5, <2>1
<1>7. QED
  BY <1>1, <1>2, <1>3, <1>4, <1>5, <1>6, Zenon

\* sys_open() has an inode.
LEMMA OpenInodeStep ==
  ASSUME FInv, NEW p \in FProcs, NEW i \in FInodes, OpenInode(p, i)
  PROVE  FInv'
<1>0. FType /\ InodeCount /\ CallHolds(p)
  BY Zenon DEF FInv, CallsHold
<1>1. /\ p \in live /\ fpc[p] = "idle" /\ iref' = [iref EXCEPT ![i] = @ + 1]
      /\ ip' = [ip EXCEPT ![p] = i] /\ fpc' = [fpc EXCEPT ![p] = "open"]
      /\ UNCHANGED <<fref, fobj, ofile, live, openEnds, fd, ff>>
  BY Zenon DEF OpenInode, Ready, AtCall, CallTo
<1>2. /\ ip' \in [FProcs -> FInodes \cup {"none"}]
      /\ \A q \in FProcs : ip'[q] = IF q = p THEN i ELSE ip[q]
      /\ \A v : /\ CountOf(ip, v) \in Nat /\ CountOf(ip', v) \in Nat
                /\ CountOf(ip', v) + Same(ip[p], v) = CountOf(ip, v) + Same(i, v)
  BY <1>0, <1>1, InodeWrite, Zenon
<1>3. ip[p] = "none"
  BY <1>0, <1>1, Zenon DEF CallHolds
<1>4. /\ iref' \in [FInodes -> Nat] /\ fpc' \in [FProcs -> CallPCs] /\ fpc'[p] = "open"
      /\ \A j \in FInodes : iref'[j] = IF j = i THEN iref[j] + 1 ELSE iref[j]
      /\ \A q \in FProcs \ {p} : fpc'[q] = fpc[q]
  BY <1>0, <1>1 DEF FType, CallPCs
<1>5. InodeCount'
  <2>1. ASSUME NEW j \in FInodes
        PROVE  iref'[j] = CountOf(fobj, Inode(j)) + CountOf(ip', j) + CountOf(ff, Inode(j))
    <3>1. /\ iref[j] \in Nat /\ CountOf(fobj, Inode(j)) \in Nat /\ CountOf(ff, Inode(j)) \in Nat
          /\ iref[j] = CountOf(fobj, Inode(j)) + CountOf(ip, j) + CountOf(ff, Inode(j))
      BY <1>0, ThreeCounts, Zenon
    <3>2. ip[p] # j
      BY <1>3, FileConstants, Zenon
    <3>3. /\ CountOf(ip, j) \in Nat /\ CountOf(ip', j) \in Nat
          /\ CountOf(ip', j) + Same(ip[p], j) = CountOf(ip, j) + Same(i, j)
      BY <1>2, Zenon
    <3>4. QED
      BY <1>4, <3>1, <3>2, <3>3 DEF Same
  <2>2. QED
    BY <1>1, <2>1, Zenon DEF InodeCount
<1>6. EndCount'
  BY <1>1, CountsFrame, Zenon DEF FInv
<1>7. FType'
  BY <1>0, <1>1, <1>2, <1>4, Zenon DEF FType
<1>8. CallHolds(p)' /\ CallFresh(p)'
  BY <1>0, <1>1, <1>2, <1>4, Zenon DEF CallHolds, CallFresh
<1>9. QED
  BY <1>1, <1>2, <1>4, <1>5, <1>6, <1>7, <1>8, ObjectStep, Zenon

\* A call ends, and sys_open() puts the inode it could not open.
LEMMA CallDoneStep ==
  ASSUME FInv, NEW p \in FProcs, CallDone(p)
  PROVE  FInv'
<1>0. FType /\ InodeCount /\ CallHolds(p)
  BY Zenon DEF FInv, CallsHold
<1>1. /\ p \in live /\ fpc[p] = "close" /\ ToClose(p) = {}
      /\ \/ ip[p] = "none" /\ UNCHANGED iref
         \/ ip[p] # "none" /\ iref' = [iref EXCEPT ![ip[p]] = @ - 1]
      /\ ip' = [ip EXCEPT ![p] = "none"] /\ fpc' = [fpc EXCEPT ![p] = "idle"]
      /\ UNCHANGED <<fref, fobj, ofile, live, openEnds, fd, ff>>
  BY Zenon DEF CallDone, AtCall, CallTo
<1>2. /\ ip' \in [FProcs -> FInodes \cup {"none"}]
      /\ \A q \in FProcs : ip'[q] = IF q = p THEN "none" ELSE ip[q]
      /\ \A v : /\ CountOf(ip, v) \in Nat /\ CountOf(ip', v) \in Nat
                /\ CountOf(ip', v) + Same(ip[p], v) = CountOf(ip, v) + Same("none", v)
  BY <1>0, <1>1, InodeWrite, Zenon
<1>3. ofile[<<p, Rf>>] = 0 /\ ofile[<<p, Wf>>] = 0 /\ ip[p] \in FInodes \cup {"none"}
  <2>1. {s \in {Rf, Wf} : ofile[<<p, s>>] # 0} = {}
    BY <1>1, ToCloseIs, Zenon
  <2>2. ofile[<<p, Rf>>] = 0 /\ ofile[<<p, Wf>>] = 0
    BY <2>1, Zenon
  <2>3. QED
    BY <1>0, <2>2, Zenon DEF FType
<1>4. /\ fpc' \in [FProcs -> CallPCs] /\ fpc'[p] = "idle"
      /\ \A q \in FProcs \ {p} : fpc'[q] = fpc[q]
  BY <1>0, <1>1, Zenon DEF FType, CallPCs
<1>5. /\ iref' \in [FInodes -> Nat]
      /\ \A j \in FInodes : iref'[j] = IF j = ip[p] THEN iref[j] - 1 ELSE iref[j]
  <2>1. CASE ip[p] = "none"
    BY <1>0, <1>1, <2>1, FileConstants, Zenon DEF FType
  <2>2. CASE ip[p] # "none"
    <3>1. ip[p] \in FInodes /\ iref' = [iref EXCEPT ![ip[p]] = @ - 1] /\ iref \in [FInodes -> Nat]
      BY <1>0, <1>1, <1>3, <2>2, Zenon DEF FType
    <3>2. iref[ip[p]] >= 1
      BY <1>0, <3>1, ThreeCounts, Zenon
    <3>3. QED
      BY <3>1, <3>2
  <2>3. QED
    BY <2>1, <2>2, Zenon
<1>6. InodeCount'
  <2>1. ASSUME NEW j \in FInodes
        PROVE  iref'[j] = CountOf(fobj, Inode(j)) + CountOf(ip', j) + CountOf(ff, Inode(j))
    <3>1. /\ iref[j] \in Nat /\ CountOf(fobj, Inode(j)) \in Nat /\ CountOf(ff, Inode(j)) \in Nat
          /\ iref[j] = CountOf(fobj, Inode(j)) + CountOf(ip, j) + CountOf(ff, Inode(j))
      BY <1>0, ThreeCounts, Zenon
    <3>2. "none" # j
      BY FileConstants, Zenon
    <3>3. /\ CountOf(ip, j) \in Nat /\ CountOf(ip', j) \in Nat
          /\ CountOf(ip', j) + Same(ip[p], j) = CountOf(ip, j) + Same("none", j)
      BY <1>2, Zenon
    <3>4. QED
      BY <1>5, <3>1, <3>2, <3>3 DEF Same
  <2>2. QED
    BY <1>1, <2>1, Zenon DEF InodeCount
<1>7. EndCount'
  BY <1>1, CountsFrame, Zenon DEF FInv
<1>8. FType'
  BY <1>0, <1>1, <1>2, <1>4, <1>5, Zenon DEF FType
<1>9. CallHolds(p)' /\ CallFresh(p)'
  BY <1>0, <1>1, <1>2, <1>3, <1>4, Zenon DEF CallHolds, CallFresh
<1>10. QED
  BY <1>1, <1>2, <1>4, <1>6, <1>7, <1>8, <1>9, ObjectStep, Zenon

\* The second half of fileclose(), of an inode.
LEMMA PutInodeStep ==
  ASSUME FInv, NEW p \in FProcs, NEW i \in FInodes, ff[p] = Inode(i),
         iref' = [iref EXCEPT ![i] = @ - 1], ff' = [ff EXCEPT ![p] = NoObject],
         UNCHANGED <<fref, fobj, ofile, live, openEnds, fpc, ip, fd>>
  PROVE  FInv'
<1>0. FType /\ InodeCount /\ EndCount /\ CallHolds(p) /\ CallFresh(p) /\ NoObject \in Objects
  BY ObjectsDiffer, Zenon DEF FInv, CallsHold, FreshFiles
<1>1. /\ ff' \in [FProcs -> Objects]
      /\ \A q \in FProcs : ff'[q] = IF q = p THEN NoObject ELSE ff[q]
      /\ \A v : /\ CountOf(ff, v) \in Nat /\ CountOf(ff', v) \in Nat
                /\ CountOf(ff', v) + Same(Inode(i), v) = CountOf(ff, v) + Same(NoObject, v)
  BY <1>0, ReleaseWrite, Zenon
<1>2. /\ iref' \in [FInodes -> Nat]
      /\ \A j \in FInodes : iref'[j] = IF j = i THEN iref[j] - 1 ELSE iref[j]
  <2>1. iref[i] >= 1 /\ iref \in [FInodes -> Nat]
    BY <1>0, ThreeCounts, Zenon DEF FType
  <2>2. QED
    BY <2>1
<1>3. InodeCount'
  <2>1. ASSUME NEW j \in FInodes
        PROVE  iref'[j] = CountOf(fobj, Inode(j)) + CountOf(ip, j) + CountOf(ff', Inode(j))
    <3>1. /\ iref[j] \in Nat /\ CountOf(fobj, Inode(j)) \in Nat /\ CountOf(ip, j) \in Nat
          /\ iref[j] = CountOf(fobj, Inode(j)) + CountOf(ip, j) + CountOf(ff, Inode(j))
      BY <1>0, ThreeCounts, Zenon
    <3>2. NoObject # Inode(j) /\ (Inode(i) = Inode(j) <=> i = j)
      BY ObjectsDiffer, Zenon
    <3>3. /\ CountOf(ff, Inode(j)) \in Nat /\ CountOf(ff', Inode(j)) \in Nat
          /\ CountOf(ff', Inode(j)) + Same(Inode(i), Inode(j)) = CountOf(ff, Inode(j)) + Same(NoObject, Inode(j))
      BY <1>1, Zenon
    <3>4. QED
      BY <1>2, <3>1, <3>2, <3>3 DEF Same
  <2>2. QED
    BY <2>1, Zenon DEF InodeCount
<1>4. EndCount'
  <2>1. ASSUME NEW k \in Pipes, NEW w \in BOOLEAN PROVE CountOf(ff', End(k, w)) = CountOf(ff, End(k, w))
    <3>1. NoObject # End(k, w) /\ Inode(i) # End(k, w)
      BY ObjectsDiffer, Zenon
    <3>2. /\ CountOf(ff, End(k, w)) \in Nat /\ CountOf(ff', End(k, w)) \in Nat
          /\ CountOf(ff', End(k, w)) + Same(Inode(i), End(k, w)) = CountOf(ff, End(k, w)) + Same(NoObject, End(k, w))
      BY <1>1, Zenon
    <3>3. QED
      BY <3>1, <3>2 DEF Same
  <2>2. QED
    BY <1>0, <2>1, Zenon DEF EndCount
<1>5. FType'
  BY <1>0, <1>1, <1>2, Zenon DEF FType
<1>6. CallHolds(p)' /\ CallFresh(p)'
  BY <1>0, <1>1, Zenon DEF CallHolds, CallFresh, Fresh
<1>7. QED
  BY <1>1, <1>3, <1>4, <1>5, <1>6, ObjectStep, Zenon

\* The second half of fileclose(), of the end of a pipe: pipeclose() closes an end that is open.
LEMMA PutEndStep ==
  ASSUME FInv, NEW p \in FProcs, NEW k \in Pipes, NEW w \in BOOLEAN, ff[p] = End(k, w),
         openEnds' = [openEnds EXCEPT ![k] = PipeCloseEnd(k, w)], ff' = [ff EXCEPT ![p] = NoObject],
         UNCHANGED <<fref, fobj, ofile, live, iref, fpc, ip, fd>>
  PROVE  FInv'
<1>0. FType /\ InodeCount /\ EndCount /\ CallHolds(p) /\ CallFresh(p) /\ NoObject \in Objects
  BY ObjectsDiffer, Zenon DEF FInv, CallsHold, FreshFiles
<1>1. /\ ff' \in [FProcs -> Objects]
      /\ \A q \in FProcs : ff'[q] = IF q = p THEN NoObject ELSE ff[q]
      /\ \A v : /\ CountOf(ff, v) \in Nat /\ CountOf(ff', v) \in Nat
                /\ CountOf(ff', v) + Same(End(k, w), v) = CountOf(ff, v) + Same(NoObject, v)
  BY <1>0, ReleaseWrite, Zenon
<1>2. /\ openEnds' \in [Pipes -> SUBSET {"r", "w"}]
      /\ \A l \in Pipes : openEnds'[l] = IF l = k THEN openEnds[l] \ {EndSide(w)} ELSE openEnds[l]
  BY <1>0, Zenon DEF FType, PipeCloseEnd
<1>3. InodeCount'
  <2>1. ASSUME NEW j \in FInodes PROVE CountOf(ff', Inode(j)) = CountOf(ff, Inode(j))
    <3>1. NoObject # Inode(j) /\ End(k, w) # Inode(j)
      BY ObjectsDiffer, Zenon
    <3>2. /\ CountOf(ff, Inode(j)) \in Nat /\ CountOf(ff', Inode(j)) \in Nat
          /\ CountOf(ff', Inode(j)) + Same(End(k, w), Inode(j)) = CountOf(ff, Inode(j)) + Same(NoObject, Inode(j))
      BY <1>1, Zenon
    <3>3. QED
      BY <3>1, <3>2 DEF Same
  <2>2. QED
    BY <1>0, <2>1, Zenon DEF InodeCount
<1>4. CountOf(ff, End(k, w)) # 0
  BY <1>0, PointersAndFiles, CountZero, Zenon DEF FType
<1>5. EndCount'
  <2>1. ASSUME NEW l \in Pipes, NEW v \in BOOLEAN
        PROVE  CountOf(fobj, End(l, v)) + CountOf(ff', End(l, v)) = IF EndSide(v) \in openEnds'[l] THEN 1 ELSE 0
    <3>1. NoObject # End(l, v) /\ (End(k, w) = End(l, v) <=> k = l /\ w = v)
      <4>1. NoObject # End(l, v)
        BY ObjectsDiffer, Zenon
      <4>2. End(k, w) = End(l, v) => k = l /\ w = v
        BY ObjectsDiffer
      <4>3. QED
        BY <4>1, <4>2, Zenon
    <3>2. /\ CountOf(ff, End(l, v)) \in Nat /\ CountOf(ff', End(l, v)) \in Nat
          /\ CountOf(ff', End(l, v)) + Same(End(k, w), End(l, v)) = CountOf(ff, End(l, v)) + Same(NoObject, End(l, v))
      BY <1>1, Zenon
    <3>3. /\ CountOf(fobj, End(l, v)) \in Nat
          /\ CountOf(fobj, End(l, v)) + CountOf(ff, End(l, v)) = IF EndSide(v) \in openEnds[l] THEN 1 ELSE 0
      BY <1>0, PointersAndFiles, CountZero, Zenon DEF FType, EndCount
    <3>4. EndSide(w) = EndSide(v) <=> w = v
      BY Zenon DEF EndSide
    <3>5. CASE k = l /\ w = v
      <4>1. EndSide(v) \notin openEnds'[l]
        BY <1>2, <3>5, Zenon
      <4>2. /\ CountOf(ff', End(l, v)) + 1 = CountOf(ff, End(l, v)) /\ CountOf(ff, End(l, v)) # 0
        BY <1>4, <3>1, <3>2, <3>5 DEF Same
      <4>3. QED
        BY <3>2, <3>3, <4>1, <4>2
    <3>6. CASE ~(k = l /\ w = v)
      <4>1. EndSide(v) \in openEnds'[l] <=> EndSide(v) \in openEnds[l]
        BY <1>2, <3>4, <3>6, Zenon
      <4>2. CountOf(ff', End(l, v)) = CountOf(ff, End(l, v))
        BY <3>1, <3>2, <3>6 DEF Same
      <4>3. QED
        BY <3>3, <4>1, <4>2, Zenon
    <3>7. QED
      BY <3>5, <3>6, Zenon
  <2>2. QED
    BY <2>1, Zenon DEF EndCount
<1>6. FType'
  BY <1>0, <1>1, <1>2, Zenon DEF FType
<1>7. CallHolds(p)' /\ CallFresh(p)'
  BY <1>0, <1>1, Zenon DEF CallHolds, CallFresh, Fresh
<1>8. QED
  BY <1>1, <1>3, <1>5, <1>6, <1>7, ObjectStep, Zenon

\* The second half of fileclose().
LEMMA PutObjectStep ==
  ASSUME FInv, NEW p \in FProcs, PutObject(p)
  PROVE  FInv'
<1>1. /\ ff' = [ff EXCEPT ![p] = NoObject]
      /\ UNCHANGED <<fref, fobj, ofile, live, fpc, ip, fd>>
  BY Zenon DEF PutObject
<1>2. CASE \E i \in FInodes : ff[p] = Inode(i) /\ iref' = [iref EXCEPT ![i] = @ - 1] /\ UNCHANGED openEnds
  BY <1>1, <1>2, PutInodeStep, Zenon
<1>3. CASE \E k \in Pipes, w \in BOOLEAN : /\ ff[p] = End(k, w)
                                           /\ openEnds' = [openEnds EXCEPT ![k] = PipeCloseEnd(k, w)]
                                           /\ UNCHANGED iref
  BY <1>1, <1>3, PutEndStep, Zenon
<1>4. QED
  BY <1>2, <1>3, Zenon DEF PutObject

\* sys_open() fills the file in: the reference to the inode moves from the call to the file.
LEMMA OpenFillStep ==
  ASSUME FInv, NEW p \in FProcs, OpenFill(p)
  PROVE  FInv'
<1> DEFINE f == ofile[<<p, fd[p]>>]
<1>0. FType /\ FileRefs /\ FreeEmpty /\ InodeCount /\ EndCount /\ CallHolds(p) /\ CallFresh(p)
  BY Zenon DEF FInv, CallsHold, FreshFiles
<1>1. /\ p \in live /\ fpc[p] = "fill" /\ fobj' = [fobj EXCEPT ![f] = Inode(ip[p])]
      /\ ip' = [ip EXCEPT ![p] = "none"] /\ fpc' = [fpc EXCEPT ![p] = "idle"]
      /\ UNCHANGED <<fref, ofile, live, iref, openEnds, fd, ff>>
  BY Zenon DEF OpenFill, AtCall, CallTo
<1>2. fd[p] \in 0 .. NOFILE + 1 /\ ip[p] \in FInodes /\ Fresh(p, fd[p])
  BY <1>0, <1>1, PointersAndFiles, Zenon DEF CallHolds, CallFresh
<1>3. f \in FileNos /\ fobj[f] = NoObject /\ Inode(ip[p]) \in Objects /\ <<p, fd[p]>> \in Pointers
  <2>1. <<p, fd[p]>> \in Pointers
    BY <1>2, Zenon DEF Pointers
  <2>2. Inode(ip[p]) \in Objects
    BY <1>2, ObjectsDiffer, Zenon
  <2>3. QED
    BY <1>0, <1>2, <2>1, <2>2, PointersAndFiles, Zenon DEF FType, Fresh
<1>4. fref[f] # 0 /\ Mine(p, f)
  <2>1. Mine(p, f)
    BY <1>2, Zenon DEF Mine
  <2>2. QED
    BY <1>0, <1>3, <2>1, HeldCounted, Zenon
<1> HIDE DEF f
<1>5. /\ fobj' \in [FileNos -> Objects]
      /\ \A g \in FileNos : fobj'[g] = IF g = f THEN Inode(ip[p]) ELSE fobj[g]
      /\ \A v : /\ CountOf(fobj, v) \in Nat /\ CountOf(fobj', v) \in Nat
                /\ CountOf(fobj', v) + Same(NoObject, v) = CountOf(fobj, v) + Same(Inode(ip[p]), v)
  BY <1>0, <1>1, <1>3, ObjectWrite, Zenon
<1>6. /\ ip' \in [FProcs -> FInodes \cup {"none"}]
      /\ \A q \in FProcs : ip'[q] = IF q = p THEN "none" ELSE ip[q]
      /\ \A v : /\ CountOf(ip, v) \in Nat /\ CountOf(ip', v) \in Nat
                /\ CountOf(ip', v) + Same(ip[p], v) = CountOf(ip, v) + Same("none", v)
  BY <1>0, <1>1, InodeWrite, Zenon
<1>7. /\ fpc' \in [FProcs -> CallPCs] /\ fpc'[p] = "idle"
      /\ \A q \in FProcs \ {p} : fpc'[q] = fpc[q]
  BY <1>0, <1>1, Zenon DEF FType, CallPCs
<1>8. InodeCount'
  <2>1. ASSUME NEW j \in FInodes
        PROVE  iref[j] = CountOf(fobj', Inode(j)) + CountOf(ip', j) + CountOf(ff, Inode(j))
    <3>1. /\ iref[j] \in Nat /\ CountOf(ff, Inode(j)) \in Nat
          /\ iref[j] = CountOf(fobj, Inode(j)) + CountOf(ip, j) + CountOf(ff, Inode(j))
      BY <1>0, ThreeCounts, Zenon
    <3>2. "none" # j /\ NoObject # Inode(j) /\ (Inode(ip[p]) = Inode(j) <=> ip[p] = j)
      BY <1>2, FileConstants, ObjectsDiffer, Zenon
    <3>3. /\ CountOf(ip, j) \in Nat /\ CountOf(ip', j) \in Nat
          /\ CountOf(ip', j) + Same(ip[p], j) = CountOf(ip, j) + Same("none", j)
      BY <1>6, Zenon
    <3>4. /\ CountOf(fobj, Inode(j)) \in Nat /\ CountOf(fobj', Inode(j)) \in Nat
          /\ CountOf(fobj', Inode(j)) + Same(NoObject, Inode(j)) = CountOf(fobj, Inode(j)) + Same(Inode(ip[p]), Inode(j))
      BY <1>5, Zenon
    <3>5. QED
      BY <3>1, <3>2, <3>3, <3>4 DEF Same
  <2>2. QED
    BY <1>1, <2>1, Zenon DEF InodeCount
<1>9. EndCount'
  <2>1. ASSUME NEW k \in Pipes, NEW w \in BOOLEAN PROVE CountOf(fobj', End(k, w)) = CountOf(fobj, End(k, w))
    <3>1. NoObject # End(k, w) /\ Inode(ip[p]) # End(k, w)
      BY <1>2, ObjectsDiffer, Zenon
    <3>2. /\ CountOf(fobj, End(k, w)) \in Nat /\ CountOf(fobj', End(k, w)) \in Nat
          /\ CountOf(fobj', End(k, w)) + Same(NoObject, End(k, w)) = CountOf(fobj, End(k, w)) + Same(Inode(ip[p]), End(k, w))
      BY <1>5, Zenon
    <3>3. QED
      BY <3>1, <3>2 DEF Same
  <2>2. QED
    BY <1>0, <1>1, <2>1, Zenon DEF EndCount
<1>10. FType'
  BY <1>0, <1>1, <1>5, <1>6, <1>7, Zenon DEF FType
<1>11. FreeEmpty' /\ FileRefs'
  BY <1>0, <1>1, <1>4, <1>5, CountsFrame, Zenon DEF FreeEmpty
<1>12. Alone(p) /\ OnlyBy(p)
  BY <1>1, <1>4, <1>5, <1>6, <1>7, Zenon DEF Alone, OnlyBy
<1>13. CallHolds(p)' /\ CallFresh(p)'
  BY <1>0, <1>1, <1>6, <1>7, Zenon DEF CallHolds, CallFresh
<1>14. QED
  BY <1>8, <1>9, <1>10, <1>11, <1>12, <1>13, ControlStep, FInvFrom, Zenon

\* pipealloc() without a page gives the files back.
LEMMA NoPageStep ==
  ASSUME FInv, NEW p \in FProcs, AtCall(p, "page"), CallTo(p, "close"),
         UNCHANGED <<fref, fobj, ofile, live, iref, openEnds, ip, fd, ff>>
  PROVE  FInv'
<1>0. FType /\ InodeCount /\ EndCount /\ CallHolds(p) /\ fpc[p] = "page" /\ p \in live
  BY Zenon DEF FInv, CallsHold, AtCall
<1>1. /\ fpc' \in [FProcs -> CallPCs] /\ fpc'[p] = "close"
      /\ \A q \in FProcs \ {p} : fpc'[q] = fpc[q]
  BY <1>0, Zenon DEF FType, CallPCs, CallTo
<1>2. FType'
  BY <1>0, <1>1, Zenon DEF FType
<1>3. CallHolds(p)' /\ CallFresh(p)'
  BY <1>0, <1>1, Zenon DEF CallHolds, CallFresh
<1>4. QED
  BY <1>0, <1>1, <1>2, <1>3, CountsFrame, ObjectStep, Zenon

\* Two different files without an object are given one.
Filled(r, a, t, b) ==
  /\ r \in FileNos /\ t \in FileNos /\ r # t /\ fobj[r] = NoObject /\ fobj[t] = NoObject
  /\ a \in Objects /\ b \in Objects
  /\ fobj' = [fobj EXCEPT ![r] = a, ![t] = b]
FilledCounts(r, a, t, b) ==
  /\ fobj' \in [FileNos -> Objects]
  /\ \A f \in FileNos : fobj'[f] = fobj[f] \/ f = r \/ f = t
  /\ \A v : v # NoObject =>
       /\ CountOf(fobj, v) \in Nat
       /\ CountOf(fobj', v) = CountOf(fobj, v) + Same(a, v) + Same(b, v)

\* What filling in the two files does to the counts.
LEMMA PipeCounts ==
  ASSUME FType, NEW r, NEW a, NEW t, NEW b, Filled(r, a, t, b)
  PROVE  FilledCounts(r, a, t, b)
<1> DEFINE m == [fobj EXCEPT ![r] = a]
<1>1. /\ fobj \in [FileNos -> Objects] /\ r \in FileNos /\ t \in FileNos /\ r # t
      /\ fobj[r] = NoObject /\ fobj[t] = NoObject /\ a \in Objects /\ b \in Objects
  BY Zenon DEF FType, Filled
<1>2. m \in [FileNos -> Objects] /\ m[t] = NoObject /\ \A f \in FileNos : m[f] = fobj[f] \/ f = r
  BY <1>1, Zenon
<1>3. fobj' = [m EXCEPT ![t] = b]
  BY Zenon DEF Filled
<1>4. /\ IsFiniteSet(DOMAIN fobj) /\ r \in DOMAIN fobj /\ Assigned(m, fobj, r, a)
      /\ IsFiniteSet(DOMAIN m) /\ t \in DOMAIN m /\ Assigned(fobj', m, t, b)
  BY <1>1, <1>2, <1>3, PointersAndFiles, Zenon DEF Assigned
<1>5. fobj' \in [FileNos -> Objects] /\ \A f \in FileNos : fobj'[f] = fobj[f] \/ f = r \/ f = t
  BY <1>1, <1>2, <1>3, Zenon
<1> HIDE DEF m
<1>6. ASSUME NEW v, v # NoObject
      PROVE  /\ CountOf(fobj, v) \in Nat
             /\ CountOf(fobj', v) = CountOf(fobj, v) + Same(a, v) + Same(b, v)
  <2>1. /\ CountOf(fobj, v) \in Nat /\ CountOf(m, v) \in Nat
        /\ CountOf(m, v) + Same(NoObject, v) = CountOf(fobj, v) + Same(a, v)
    BY <1>1, <1>4, CountUpdate
  <2>2. /\ CountOf(fobj', v) \in Nat
        /\ CountOf(fobj', v) + Same(NoObject, v) = CountOf(m, v) + Same(b, v)
    BY <1>2, <1>4, CountUpdate
  <2>3. QED
    BY <1>6, <2>1, <2>2 DEF Same
<1>7. QED
  BY <1>5, <1>6, Zenon DEF FilledCounts

\* pipealloc() with a page: both ends are open, and the two files stand for them.
LEMMA PageStep ==
  ASSUME FInv, NEW p \in FProcs, NEW k \in Pipes, AtCall(p, "page"), openEnds[k] = {},
         openEnds' = [openEnds EXCEPT ![k] = {"r", "w"}],
         fobj' = [fobj EXCEPT ![ofile[<<p, Rf>>]] = End(k, FALSE), ![ofile[<<p, Wf>>]] = End(k, TRUE)],
         CallTo(p, "fds"), UNCHANGED <<fref, ofile, live, iref, ip, fd, ff>>
  PROVE  FInv'
<1> DEFINE r == ofile[<<p, Rf>>]
           t == ofile[<<p, Wf>>]
           a == End(k, FALSE)
           b == End(k, TRUE)
<1>0. /\ FType /\ FileRefs /\ FreeEmpty /\ InodeCount /\ EndCount /\ CallHolds(p)
      /\ fpc[p] = "page" /\ p \in live /\ Fresh(p, Rf) /\ Fresh(p, Wf)
  BY Zenon DEF FInv, CallsHold, FreshFiles, CallFresh, AtCall
<1>1. <<p, Rf>> \in Pointers /\ <<p, Wf>> \in Pointers /\ <<p, Rf>> # <<p, Wf>>
  BY PointersAndFiles, Zenon DEF Pointers
<1>2. r \in FileNos /\ t \in FileNos /\ r # t /\ fobj[r] = NoObject /\ fobj[t] = NoObject
  <2>1. r \in FileNos /\ t \in FileNos
    BY <1>0, <1>1, PointersAndFiles, Zenon DEF FType, Fresh
  <2>2. QED
    BY <1>0, <1>1, <2>1, Zenon DEF Fresh
<1>3. Mine(p, r) /\ Mine(p, t)
  BY PointersAndFiles, Zenon DEF Mine
<1>4. fref[r] # 0 /\ fref[t] # 0
  BY <1>0, <1>1, <1>2, HeldCounted, Zenon
<1>e. /\ a \in Objects /\ b \in Objects
      /\ \A i \in FInodes : Inode(i) # NoObject /\ a # Inode(i) /\ b # Inode(i)
      /\ \A l \in Pipes, v \in BOOLEAN : End(l, v) # NoObject
  BY ObjectsDiffer, Zenon
<1>f. \A l \in Pipes, v \in BOOLEAN :
        /\ l = k => (a = End(l, v) /\ b # End(l, v)) \/ (a # End(l, v) /\ b = End(l, v))
        /\ l # k => a # End(l, v) /\ b # End(l, v)
  <2> SUFFICES ASSUME NEW l \in Pipes, NEW v \in BOOLEAN
               PROVE  /\ l = k => (a = End(l, v) /\ b # End(l, v)) \/ (a # End(l, v) /\ b = End(l, v))
                      /\ l # k => a # End(l, v) /\ b # End(l, v)
    BY Zenon
  <2>1. \A c, d \in BOOLEAN : End(k, c) = End(l, d) => k = l /\ c = d
    BY ObjectsDiffer, Zenon
  <2>2. CASE v = FALSE
    BY <2>1, <2>2, Zenon
  <2>3. CASE v = TRUE
    BY <2>1, <2>3, Zenon
  <2>4. QED
    BY <2>2, <2>3, Zenon
<1>g. Filled(r, a, t, b)
  BY <1>2, <1>e, Zenon DEF Filled
<1> HIDE DEF r, t, a, b
<1>5. /\ fobj' \in [FileNos -> Objects]
      /\ \A f \in FileNos : fobj'[f] = fobj[f] \/ f = r \/ f = t
      /\ \A v : v # NoObject =>
           /\ CountOf(fobj, v) \in Nat
           /\ CountOf(fobj', v) = CountOf(fobj, v) + Same(a, v) + Same(b, v)
  <2>1. FilledCounts(r, a, t, b)
    BY <1>0, <1>g, PipeCounts, Zenon
  <2>2. QED
    BY <2>1, Zenon DEF FilledCounts
<1>6. /\ openEnds' \in [Pipes -> SUBSET {"r", "w"}]
      /\ \A l \in Pipes : openEnds'[l] = IF l = k THEN {"r", "w"} ELSE openEnds[l]
  BY <1>0, Zenon DEF FType
<1>7. /\ fpc' \in [FProcs -> CallPCs] /\ fpc'[p] = "fds"
      /\ \A q \in FProcs \ {p} : fpc'[q] = fpc[q]
  BY <1>0, Zenon DEF FType, CallPCs, CallTo
<1>8. InodeCount'
  <2>1. ASSUME NEW i \in FInodes PROVE CountOf(fobj', Inode(i)) = CountOf(fobj, Inode(i))
    <3>1. Inode(i) # NoObject /\ a # Inode(i) /\ b # Inode(i)
      BY <1>e, Zenon
    <3>2. /\ CountOf(fobj, Inode(i)) \in Nat
          /\ CountOf(fobj', Inode(i)) = CountOf(fobj, Inode(i)) + Same(a, Inode(i)) + Same(b, Inode(i))
      BY <1>5, <3>1, Zenon
    <3>3. QED
      BY <3>1, <3>2 DEF Same
  <2>2. QED
    BY <1>0, <2>1, Zenon DEF InodeCount
<1>9. EndCount'
  <2>1. ASSUME NEW l \in Pipes, NEW v \in BOOLEAN
        PROVE  CountOf(fobj', End(l, v)) + CountOf(ff, End(l, v)) = IF EndSide(v) \in openEnds'[l] THEN 1 ELSE 0
    <3>1. /\ CountOf(fobj, End(l, v)) \in Nat /\ CountOf(ff, End(l, v)) \in Nat
          /\ CountOf(fobj, End(l, v)) + CountOf(ff, End(l, v)) = IF EndSide(v) \in openEnds[l] THEN 1 ELSE 0
      BY <1>0, PointersAndFiles, CountZero, Zenon DEF FType, EndCount
    <3>2. End(l, v) # NoObject
      BY <1>e, Zenon
    <3>3. CountOf(fobj', End(l, v)) = CountOf(fobj, End(l, v)) + Same(a, End(l, v)) + Same(b, End(l, v))
      BY <1>5, <3>2, Zenon
    <3>4. CASE l = k
      <4>1. Same(a, End(l, v)) + Same(b, End(l, v)) = 1
        <5>1. (a = End(l, v) /\ b # End(l, v)) \/ (a # End(l, v) /\ b = End(l, v))
          BY <1>f, <3>4, Zenon
        <5>2. QED
          BY <5>1 DEF Same
      <4>2. EndSide(v) \in openEnds'[l] /\ EndSide(v) \notin openEnds[l]
        BY <1>6, <3>4, Zenon DEF EndSide
      <4>3. QED
        BY SMTT(30), <3>1, <3>3, <4>1, <4>2 DEF Same
    <3>5. CASE l # k
      <4>1. Same(a, End(l, v)) = 0 /\ Same(b, End(l, v)) = 0
        BY <1>f, <3>5, Zenon DEF Same
      <4>2. openEnds'[l] = openEnds[l]
        BY <1>6, <3>5, Zenon
      <4>3. QED
        BY SMTT(30), <3>1, <3>3, <4>1, <4>2
    <3>6. QED
      BY <3>4, <3>5, Zenon
  <2>2. QED
    BY <2>1, Zenon DEF EndCount
<1>10. FType'
  BY <1>0, <1>5, <1>6, <1>7, Zenon DEF FType
<1>11. FreeEmpty' /\ FileRefs'
  BY <1>0, <1>4, <1>5, CountsFrame, Zenon DEF FreeEmpty
<1>12. Alone(p) /\ OnlyBy(p)
  BY <1>3, <1>5, <1>7, Zenon DEF Alone, OnlyBy
<1>13. CallHolds(p)' /\ CallFresh(p)'
  BY <1>0, <1>7, Zenon DEF CallHolds, CallFresh
<1>14. QED
  BY <1>8, <1>9, <1>10, <1>11, <1>12, <1>13, ControlStep, FInvFrom, Zenon

\* pipealloc() asks for the page.
LEMMA PipePageStep ==
  ASSUME FInv, NEW p \in FProcs, PipePage(p)
  PROVE  FInv'
<1>1. AtCall(p, "page") /\ UNCHANGED <<fref, ofile, live, iref, ip, fd, ff>>
  BY Zenon DEF PipePage
<1>2. CASE CallTo(p, "close") /\ UNCHANGED <<fobj, openEnds>>
  BY <1>1, <1>2, NoPageStep, Zenon
<1>3. CASE \E k \in Pipes :
             /\ openEnds[k] = {}
             /\ openEnds' = [openEnds EXCEPT ![k] = {"r", "w"}]
             /\ fobj' = [fobj EXCEPT ![ofile[<<p, Rf>>]] = End(k, FALSE), ![ofile[<<p, Wf>>]] = End(k, TRUE)]
             /\ CallTo(p, "fds")
  BY <1>1, <1>3, PageStep, Zenon
<1>4. QED
  BY <1>2, <1>3, Zenon DEF PipePage
-----------------------------------------------------------------------------
(* The invariant, and what it is for.                                      *)

\* Nothing is open at first.
LEMMA FInitInv ==
  ASSUME FInit
  PROVE  FInv
<1>0. /\ IsFiniteSet(FProcs) /\ IsFiniteSet(FileNos) /\ IsFiniteSet(Pointers) /\ 0 \notin FileNos
      /\ FirstProc \in FProcs /\ 0 \in 0 .. NFILE /\ NoObject \in Objects
  <2>1. FirstProc \in FProcs /\ 0 \in 0 .. NFILE
    BY FileConstants DEF FirstProc
  <2>2. NoObject \in Objects
    BY ObjectsDiffer, Zenon
  <2>3. QED
    BY <2>1, <2>2, PointersAndFiles, Zenon
<1>1. FType
  BY <1>0, Zenon DEF FInit, FType, CallPCs
<1>2. CallsHold
  BY <1>1, PointersAndFiles, Zenon DEF FInit, CallsHold, CallHolds, Pointers
<1>3. FreeEmpty /\ FreshFiles
  BY Zenon DEF FInit, FreeEmpty, FreshFiles, CallFresh
<1>4. FileRefs
  <2>1. ASSUME NEW f \in FileNos PROVE CountOf(ofile, f) = 0
    <3>1. DOMAIN ofile = Pointers /\ \A h \in Pointers : ofile[h] # f
      BY <1>0, Zenon DEF FInit
    <3>2. QED
      BY <1>0, <3>1, CountZero, Zenon
  <2>2. QED
    BY <2>1, Zenon DEF FInit, FileRefs
<1>5. \A v : v # NoObject => CountOf(fobj, v) = 0 /\ CountOf(ff, v) = 0
  <2>1. ASSUME NEW v, v # NoObject PROVE CountOf(fobj, v) = 0 /\ CountOf(ff, v) = 0
    <3>1. /\ DOMAIN fobj = FileNos /\ \A f \in FileNos : fobj[f] # v
          /\ DOMAIN ff = FProcs /\ \A p \in FProcs : ff[p] # v
      BY <2>1, Zenon DEF FInit
    <3>2. QED
      BY <1>0, <3>1, CountZero, Zenon
  <2>2. QED
    BY <2>1, Zenon
<1>6. InodeCount
  <2>1. ASSUME NEW i \in FInodes
        PROVE  /\ CountOf(ip, i) = 0 /\ CountOf(fobj, Inode(i)) = 0 /\ CountOf(ff, Inode(i)) = 0 /\ iref[i] = 0
    <3>1. DOMAIN ip = FProcs /\ (\A p \in FProcs : ip[p] # i) /\ iref[i] = 0
      BY FileConstants, Zenon DEF FInit
    <3>2. Inode(i) # NoObject
      BY ObjectsDiffer, Zenon
    <3>3. QED
      BY <1>0, <1>5, <3>1, <3>2, CountZero, Zenon
  <2>2. QED
    BY <2>1 DEF InodeCount
<1>7. EndCount
  <2>1. ASSUME NEW k \in Pipes, NEW w \in BOOLEAN
        PROVE  CountOf(fobj, End(k, w)) = 0 /\ CountOf(ff, End(k, w)) = 0 /\ EndSide(w) \notin openEnds[k]
    <3>1. End(k, w) # NoObject
      BY ObjectsDiffer, Zenon
    <3>2. QED
      BY <1>5, <3>1, Zenon DEF FInit
  <2>2. QED
    BY <2>1 DEF EndCount
<1>8. QED
  BY <1>1, <1>2, <1>3, <1>4, <1>6, <1>7, Zenon DEF FInv

\* Every step of every call keeps the invariant.
LEMMA FNextInv ==
  ASSUME FInv, [FNext]_fVars
  PROVE  FInv'
<1>1. CASE FNext
  <2>1. PICK p \in FProcs : Continue(p) \/ Begin(p)
    BY <1>1, Zenon DEF FNext
  <2>2. CASE Continue(p)
    BY <2>2, FileCloseStep, PutObjectStep, CallDoneStep, OpenAllocStep, OpenFillStep, PipeSecondStep,
       PipePageStep, PipeFdsStep, ExitedStep, Zenon DEF Continue
  <2>3. CASE Begin(p)
    BY <2>3, OpenInodeStep, PipeFirstStep, DupStep, SysCloseStep, ForkStep, ExitFilesStep, Zenon DEF Begin
  <2>4. QED
    BY <2>1, <2>2, <2>3, Zenon
<1>2. CASE UNCHANGED fVars
  <2>1. UNCHANGED <<fref, fobj, ofile, live, iref, openEnds, fpc, ip, fd, ff>>
    BY <1>2, Zenon DEF fVars, callVars
  <2>2. FType' /\ CallsHold' /\ FreshFiles'
    <3>1. FType'
      BY <2>1, Zenon DEF FInv, FType
    <3>2. \A p \in FProcs : CallHolds(p) => CallHolds(p)'
      BY <2>1, Zenon DEF CallHolds
    <3>3. \A p \in FProcs : CallFresh(p) => CallFresh(p)'
      BY <2>1, Zenon DEF CallFresh, Fresh
    <3>4. QED
      BY <3>1, <3>2, <3>3, Zenon DEF FInv, CallsHold, FreshFiles
  <2>3. FreeEmpty' /\ FileRefs' /\ InodeCount' /\ EndCount'
    BY <2>1, CountsFrame, Zenon DEF FInv
  <2>4. QED
    BY <2>2, <2>3, FInvFrom, Zenon
<1>3. QED
  BY <1>1, <1>2, Zenon

\* A file with an object is open, so the counts over all files are those over the open ones.
LEMMA FInvCounts ==
  ASSUME FInv
  PROVE  RefsCounted
<1>0. FType /\ FileRefs /\ FreeEmpty /\ InodeCount /\ EndCount
  BY Zenon DEF FInv
<1>1. ASSUME NEW o, o # NoObject PROVE Cardinality(OpenFiles(o)) = CountOf(fobj, o)
  <2>1. DOMAIN fobj = FileNos /\ fref \in [FileNos -> Nat]
    BY <1>0, Zenon DEF FType
  <2>2. \A f \in FileNos : fobj[f] = o => fref[f] > 0
    <3>1. \A f \in FileNos : fobj[f] = o => fref[f] # 0
      BY <1>0, <1>1, Zenon DEF FreeEmpty
    <3>2. QED
      BY <2>1, <3>1
  <2>3. OpenFiles(o) = {f \in DOMAIN fobj : fobj[f] = o}
    BY <2>1, <2>2, Zenon DEF OpenFiles
  <2>4. QED
    BY <2>3, Zenon DEF CountOf
<1>2. InodeRefs
  <2>1. \A i \in FInodes : Cardinality(OpenFiles(Inode(i))) = CountOf(fobj, Inode(i))
    BY <1>1, ObjectsDiffer, Zenon
  <2>2. QED
    BY <1>0, <2>1, Zenon DEF InodeRefs, InodeCount
<1>3. PipeEnds
  <2>1. \A k \in Pipes, w \in BOOLEAN : Cardinality(OpenFiles(End(k, w))) = CountOf(fobj, End(k, w))
    BY <1>1, ObjectsDiffer, Zenon
  <2>2. QED
    BY <1>0, <2>1, Zenon DEF PipeEnds, EndCount
<1>4. QED
  BY <1>0, <1>2, <1>3, Zenon DEF RefsCounted

\* Whatever calls fail half way, and in whatever order processes fork, close and exit: a struct file
\* counts the pointers to it, an inode the files and the calls that hold it, and an end of a
\* pipe is open while just one file stands for it.
THEOREM ReferencesCounted == FSpec => []RefsCounted
<1>1. FInit => FInv
  BY FInitInv, Zenon
<1>2. FInv /\ [FNext]_fVars => FInv'
  BY FNextInv, Zenon
<1>3. FInv => RefsCounted
  BY FInvCounts, Zenon
<1>4. QED
  BY <1>1, <1>2, <1>3, PTL DEF FSpec

\* filedup() and fileclose() are called on files that are open, and iput() and pipeclose() on an
\* inode that is referenced and an end that is open.
HeldIsCounted ==
  /\ \A h \in Pointers : ofile[h] # 0 => fref[ofile[h]] >= 1
  /\ \A p \in FProcs, i \in FInodes : ip[p] = i \/ ff[p] = Inode(i) => iref[i] >= 1
  /\ \A p \in FProcs, k \in Pipes, w \in BOOLEAN : ff[p] = End(k, w) => EndSide(w) \in openEnds[k]

\* It follows from the counts.
LEMMA FInvHeld ==
  ASSUME FInv
  PROVE  HeldIsCounted
<1>0. FType /\ FileRefs /\ InodeCount /\ EndCount
  BY Zenon DEF FInv
<1>1. ASSUME NEW h \in Pointers, ofile[h] # 0 PROVE fref[ofile[h]] >= 1
  <2>1. ofile[h] \in FileNos
    BY <1>0, <1>1, PointersAndFiles, Zenon DEF FType
  <2>2. fref[ofile[h]] \in Nat /\ fref[ofile[h]] # 0
    BY <1>0, <2>1, HeldCounted, Zenon
  <2>3. QED
    BY <2>2
<1>2. ASSUME NEW p \in FProcs, NEW i \in FInodes, ip[p] = i \/ ff[p] = Inode(i) PROVE iref[i] >= 1
  BY <1>0, <1>2, ThreeCounts, Zenon
<1>3. ASSUME NEW p \in FProcs, NEW k \in Pipes, NEW w \in BOOLEAN, ff[p] = End(k, w)
      PROVE  EndSide(w) \in openEnds[k]
  <2>1. /\ CountOf(ff, End(k, w)) \in Nat /\ CountOf(ff, End(k, w)) # 0
        /\ CountOf(fobj, End(k, w)) \in Nat
    BY <1>0, <1>3, PointersAndFiles, CountZero, Zenon DEF FType
  <2>2. CountOf(fobj, End(k, w)) + CountOf(ff, End(k, w)) = IF EndSide(w) \in openEnds[k] THEN 1 ELSE 0
    BY <1>0, Zenon DEF EndCount
  <2>3. QED
    BY <2>1, <2>2
<1>4. QED
  BY <1>1, <1>2, <1>3, Zenon DEF HeldIsCounted

\* So neither panics, and nothing is released twice.
THEOREM FilesNeverPanic == FSpec => []HeldIsCounted
<1>1. FInit => FInv
  BY FInitInv, Zenon
<1>2. FInv /\ [FNext]_fVars => FInv'
  BY FNextInv, Zenon
<1>3. FInv => HeldIsCounted
  BY FInvHeld, Zenon
<1>4. QED
  BY <1>1, <1>2, <1>3, PTL DEF FSpec
=============================================================================
