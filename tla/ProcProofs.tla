----------------------------- MODULE ProcProofs -----------------------------
(***************************************************************************)
(* Processors and processes.  Proofs about Bootmain, for any kernel: it is *)
(* loaded as its headers say.  Proofs about Boot, for any MP table: every  *)
(* processor starts once, on a stack of its own.  Proofs about Proc, for   *)
(* any number of CPUs, slots, sleep channels and processes ever made:      *)
(* kernel stacks are not shared, the table stays sound, and no wakeup of   *)
(* wait() is lost.                                                         *)
(***************************************************************************)
EXTENDS Proc, Boot, Bootmain, FiniteSetTheorems, TLAPS

-----------------------------------------------------------------------------
(* The boot loader.                                                        *)

\* Segment i is in memory as its header says.
SegmentIn(i) ==
  \A k \in 0 .. phs[i].memsz - 1 :
    ram[phs[i].paddr + k] = IF k < phs[i].filesz THEN phs[i].off + k + 1 ELSE 0
\* What readseg() has read of the current segment is in its place, and the next sector belongs
\* behind it.
Reading(p) ==
  /\ (sect - 1) * SECTSIZE = pa - p.paddr + p.off
  /\ pa >= p.paddr - (p.off % SECTSIZE)
  /\ \A k \in 0 .. p.filesz - 1 : p.paddr + k < pa => ram[p.paddr + k] = p.off + k + 1
BmType == /\ ram \in [0 .. MEMSIZE - 1 -> Int] /\ pa \in Int /\ sect \in Int /\ ph \in Nat \ {0}
          /\ bmpc \in {"header", "segment", "read", "return", "entry"}
          /\ bmpc \in {"segment", "read", "entry"} => phs \in Kernels
BmInv ==
  /\ BmType
  /\ bmpc = "header" => ph = 1
  /\ bmpc = "read" => ph <= Len(phs) /\ Reading(phs[ph])
  /\ bmpc = "entry" => ph > Len(phs)
  /\ bmpc \in {"segment", "read", "entry"} =>
       \A i \in 1 .. Len(phs) : i < ph => SegmentIn(i)

\* A kernel's headers have their types and the order they are loaded in.
LEMMA KernelShape ==
  ASSUME NEW k \in Kernels
  PROVE  /\ Len(k) \in Nat
         /\ \A i \in 1 .. Len(k) :
              /\ k[i].paddr \in Nat /\ k[i].off \in Nat /\ k[i].filesz \in Nat /\ k[i].memsz \in Nat
              /\ k[i].filesz <= k[i].memsz /\ k[i].paddr + k[i].memsz <= MEMSIZE
         /\ \A i, j \in 1 .. Len(k) :
              i < j /\ k[j].memsz + (k[j].off % SECTSIZE) > 0 =>
                k[i].paddr + k[i].memsz <= k[j].paddr - (k[j].off % SECTSIZE)
<1>1. k \in Seq(Segments) /\ Increasing(k)
  BY BmConstants
<1>2. \A i \in 1 .. Len(k) : k[i] \in Segments
  BY <1>1
<1>3. QED
  BY SMTT(30), <1>1, <1>2 DEF Segments, Increasing

\* Division with remainder, and the bytes before a sector.
LEMMA SectorBytes ==
  ASSUME NEW z \in Nat \ {0}
  PROVE  /\ \A x \in Nat : /\ x \div z \in Nat /\ x % z \in 0 .. z - 1
                           /\ x = z * (x \div z) + (x % z)
         /\ \A s \in Int : /\ (s - 1) * z \in Int /\ (s + 1 - 1) * z = (s - 1) * z + z
                           /\ (s + 1 - 1) * z = z * s
<1>1. ASSUME NEW x \in Nat
      PROVE  /\ x \div z \in Nat /\ x % z \in 0 .. z - 1
             /\ x = z * (x \div z) + (x % z)
  OBVIOUS
<1>2. ASSUME NEW s \in Int
      PROVE  /\ (s - 1) * z \in Int /\ (s + 1 - 1) * z = (s - 1) * z + z
             /\ (s + 1 - 1) * z = z * s
  OBVIOUS
<1>3. QED
  BY <1>1, <1>2, Zenon

\* readseg() starts at the sector that the first byte is in.
LEMMA SegmentStep ==
  ASSUME BmInv, Segment
  PROVE  BmInv'
<1>0. /\ bmpc = "segment" /\ ph \in 1 .. Len(phs) /\ phs \in Kernels /\ bmpc' = "read"
      /\ UNCHANGED <<ram, phs, ph>>
  BY KernelShape DEF Segment, BmInv, BmType
<1> DEFINE S == SECTSIZE
           P == phs[ph].paddr
           O == phs[ph].off
           F == phs[ph].filesz
<1>1. S \in Nat \ {0} /\ P \in Nat /\ O \in Nat /\ F \in Nat
  BY <1>0, KernelShape, BmConstants
<1>2. pa' = P - (O % S) /\ sect' = O \div S + 1
  BY DEF Segment, FirstSector
<1>3. /\ phs'[ph'].paddr = P /\ phs'[ph'].off = O /\ phs'[ph'].filesz = F
  BY <1>0
<1> HIDE DEF S, P, O, F
<1>4. O \div S \in Nat /\ O % S \in 0 .. S - 1 /\ O = S * (O \div S) + (O % S)
  BY <1>1, SectorBytes, Zenon
<1>5. (sect' - 1) * S = S * (O \div S)
  BY <1>1, <1>2, <1>4, SectorBytes
<1>6. pa' \in Int /\ sect' \in Int /\ (sect' - 1) * S = pa' - P + O /\ pa' >= P - (O % S) /\ pa' <= P
  <2> DEFINE q == O \div S
             r == O % S
             b == S * q
  <2>1. q \in Nat /\ r \in 0 .. S - 1 /\ b \in Int /\ O = b + r /\ (sect' - 1) * S = b
        /\ pa' = P - r /\ sect' = q + 1
    BY <1>1, <1>2, <1>4, <1>5
  <2> HIDE DEF q, r, b
  <2>2. pa' \in Int /\ sect' \in Int /\ (sect' - 1) * S = pa' - P + O /\ pa' >= P - r /\ pa' <= P
    BY <1>1, <2>1
  <2>3. QED
    BY <2>2, Zenon DEF r
<1>7. \A k \in 0 .. F - 1 : ~(P + k < pa')
  BY <1>1, <1>6
<1>8. Reading(phs[ph])'
  BY <1>3, <1>6, <1>7, Zenon DEF Reading, S
<1>9. BmType'
  BY <1>0, <1>6 DEF BmInv, BmType
<1>10. QED
  BY <1>0, <1>8, <1>9 DEF BmInv, SegmentIn

\* A sector is read to where it belongs, behind all that was loaded before.
LEMMA SectorStep ==
  ASSUME BmInv, ReadSect
  PROVE  BmInv'
<1>0. /\ bmpc = "read" /\ ph \in 1 .. Len(phs) /\ phs \in Kernels /\ bmpc' = "read"
      /\ UNCHANGED <<phs, ph>> /\ sect' = sect + 1
      /\ pa \in Int /\ sect \in Int
      /\ ram \in [0 .. MEMSIZE - 1 -> Int] /\ MEMSIZE \in Nat
  BY SMTT(30), KernelShape, BmConstants DEF ReadSect, BmInv, BmType
<1> DEFINE S == SECTSIZE
           P == phs[ph].paddr
           O == phs[ph].off
           F == phs[ph].filesz
           M == phs[ph].memsz
           r == O % S
           b == (sect - 1) * S
<1>1. S \in Nat \ {0} /\ P \in Nat /\ O \in Nat /\ F \in Nat /\ M \in Nat /\ F <= M /\ P + M <= MEMSIZE
  BY <1>0, KernelShape, BmConstants, Zenon
<1>2. /\ b = pa - P + O /\ pa >= P - r /\ pa < P + F /\ pa' = pa + S
      /\ \A k \in 0 .. F - 1 : P + k < pa => ram[P + k] = O + k + 1
      /\ ram' = [a \in 0 .. MEMSIZE - 1 |-> IF a \in pa .. pa + S - 1 THEN b + (a - pa) + 1 ELSE ram[a]]
  BY <1>0 DEF BmInv, Reading, ReadSect
<1>3. phs'[ph'].paddr = P /\ phs'[ph'].off = O /\ phs'[ph'].filesz = F
  BY <1>0
<1>4. \A i \in 1 .. Len(phs) :
        i < ph => /\ phs[i].paddr \in Nat /\ phs[i].memsz \in Nat
                  /\ M + r > 0 => phs[i].paddr + phs[i].memsz <= P - r
                  /\ phs[i].paddr + phs[i].memsz <= MEMSIZE
  BY <1>0, KernelShape, Zenon
<1> HIDE DEF S, P, O, F, M
<1>5. r \in Nat
  BY <1>1, SectorBytes
<1>6. b \in Int /\ (sect' - 1) * S = b + S
  BY <1>0, <1>1, SectorBytes
<1> HIDE DEF r, b
<1>7. M + r > 0
  BY <1>0, <1>1, <1>2, <1>5
<1>8. /\ ram' \in [0 .. MEMSIZE - 1 -> Int]
      /\ \A a \in 0 .. MEMSIZE - 1 :
           /\ a \in pa .. pa + S - 1 => ram'[a] = a - P + O + 1
           /\ a \notin pa .. pa + S - 1 => ram'[a] = ram[a]
  BY <1>0, <1>1, <1>2, <1>6
<1>9. Reading(phs[ph])'
  <2>1. (sect' - 1) * S = pa' - P + O /\ pa' >= P - r
    BY SMTT(30), <1>0, <1>1, <1>2, <1>5, <1>6
  <2>2. ASSUME NEW k \in 0 .. F - 1, P + k < pa'
        PROVE  ram'[P + k] = O + k + 1
    <3>1. P + k \in 0 .. MEMSIZE - 1 /\ (P + k < pa \/ P + k \in pa .. pa + S - 1)
          /\ (P + k < pa => P + k \notin pa .. pa + S - 1) /\ (P + k) - P + O + 1 = O + k + 1
      BY SMTT(30), <1>0, <1>1, <1>2, <2>2
    <3>2. QED
      BY <1>2, <1>8, <3>1, Zenon
  <2>3. QED
    BY <1>3, <2>1, <2>2, Zenon DEF Reading, S, r
<1>10. ASSUME NEW i \in 1 .. Len(phs), i < ph
      PROVE  SegmentIn(i)'
  <2> DEFINE Q == phs[i].paddr
             N == phs[i].memsz
  <2>1. Q \in Nat /\ N \in Nat /\ Q + N <= P - r /\ Q + N <= MEMSIZE
    BY <1>4, <1>7, <1>10
  <2> HIDE DEF Q, N
  <2>2. \A k \in 0 .. N - 1 : ram'[Q + k] = ram[Q + k]
    BY <1>0, <1>1, <1>2, <1>5, <1>8, <2>1
  <2>3. SegmentIn(i)
    BY SMTT(30), <1>0, <1>10 DEF BmInv
  <2>4. QED
    BY SMTT(30), <1>0, <2>2, <2>3 DEF SegmentIn, Q, N
<1>11. BmType'
  BY SMTT(30), <1>0, <1>1, <1>2, <1>8 DEF BmType
<1>12. QED
  BY SMTT(30), <1>0, <1>9, <1>10, <1>11 DEF BmInv

\* The rest of a segment is cleared.
LEMMA BssStep ==
  ASSUME BmInv, ZeroBss
  PROVE  BmInv'
<1>0. /\ bmpc = "read" /\ ph \in 1 .. Len(phs) /\ phs \in Kernels /\ bmpc' = "segment"
      /\ UNCHANGED <<phs, pa, sect>> /\ ph' = ph + 1
      /\ pa \in Int /\ sect \in Int
      /\ ram \in [0 .. MEMSIZE - 1 -> Int] /\ MEMSIZE \in Nat /\ Len(phs) \in Nat
  BY SMTT(30), KernelShape, BmConstants DEF ZeroBss, BmInv, BmType
<1> DEFINE P == phs[ph].paddr
           O == phs[ph].off
           F == phs[ph].filesz
           M == phs[ph].memsz
           r == O % SECTSIZE
<1>1. P \in Nat /\ O \in Nat /\ F \in Nat /\ M \in Nat /\ F <= M /\ P + M <= MEMSIZE
  BY SMTT(30), <1>0, KernelShape
<1>2. /\ pa >= P + F
      /\ \A k \in 0 .. F - 1 : P + k < pa => ram[P + k] = O + k + 1
      /\ ram' = [a \in 0 .. MEMSIZE - 1 |-> IF a \in P + F .. P + M - 1 THEN 0 ELSE ram[a]]
  BY <1>0 DEF BmInv, Reading, ZeroBss, Bss
<1>3. \A i \in 1 .. Len(phs) :
        i < ph => /\ phs[i].paddr \in Nat /\ phs[i].memsz \in Nat
                  /\ M + r > 0 => phs[i].paddr + phs[i].memsz <= P - r
                  /\ phs[i].paddr + phs[i].memsz <= MEMSIZE
  BY <1>0, KernelShape, Zenon
<1>r. r \in Nat
  <2>1. SECTSIZE \in Nat \ {0}
    BY BmConstants
  <2> HIDE DEF O
  <2>2. O % SECTSIZE \in 0 .. SECTSIZE - 1
    BY <1>1, <2>1, SectorBytes, Zenon
  <2>3. QED
    BY <2>1, <2>2
<1>4. ASSUME NEW i, i = ph PROVE SegmentIn(i)'
  <2>1. phs'[i].paddr = P /\ phs'[i].off = O /\ phs'[i].filesz = F /\ phs'[i].memsz = M
    BY <1>0, <1>4
  <2> HIDE DEF P, O, F, M
  <2>2. ASSUME NEW k \in 0 .. M - 1
        PROVE  ram'[P + k] = IF k < F THEN O + k + 1 ELSE 0
    BY <1>0, <1>1, <1>2
  <2>3. QED
    BY <2>1, <2>2, Zenon DEF SegmentIn
<1> HIDE DEF P, O, F, M, r
<1>5. ASSUME NEW i \in 1 .. Len(phs), i < ph
      PROVE  SegmentIn(i)'
  <2> DEFINE Q == phs[i].paddr
             N == phs[i].memsz
  <2>1. Q \in Nat /\ N \in Nat /\ (M + r > 0 => Q + N <= P - r) /\ Q + N <= MEMSIZE
    BY <1>3, <1>5
  <2> HIDE DEF Q, N
  <2>2. \A k \in 0 .. N - 1 : ram'[Q + k] = ram[Q + k]
    BY <1>0, <1>1, <1>2, <1>r, <2>1
  <2>3. SegmentIn(i)
    BY <1>0, <1>5 DEF BmInv
  <2>4. QED
    BY <1>0, <2>2, <2>3 DEF SegmentIn, Q, N
<1>6. ASSUME NEW i \in 1 .. Len(phs'), i < ph' PROVE SegmentIn(i)'
  <2>1. i \in 1 .. Len(phs) /\ (i < ph \/ i = ph)
    BY <1>0, <1>6
  <2>2. QED
    BY <1>4, <1>5, <2>1, Zenon
<1>7. BmType'
  BY <1>0, <1>1, <1>2 DEF BmType
<1>8. QED
  BY SMTT(30), <1>0, <1>6, <1>7 DEF BmInv

\* When the kernel is entered (bootmain()) every segment is in memory as its header says.
THEOREM KernelIsLoaded == BmSpec => []KernelLoaded
<1>1. BmInit => BmInv
  BY BmConstants DEF BmInit, BmInv, BmType
<1>2. BmInv /\ [BmNext]_bmVars => BmInv'
  <2> SUFFICES ASSUME BmInv, [BmNext]_bmVars PROVE BmInv'
    OBVIOUS
  <2>1. CASE Header
    BY SMTT(30), <2>1 DEF Header, BmInv, BmType
  <2>2. CASE Entry
    BY SMTT(30), <2>2, KernelShape DEF Entry, BmInv, BmType, SegmentIn
  <2>3. CASE UNCHANGED bmVars
    BY <2>3 DEF bmVars, BmInv, BmType, SegmentIn, Reading
  <2>4. QED
    BY SMTT(30), <2>1, <2>2, <2>3, SegmentStep, SectorStep, BssStep DEF BmNext
<1>3. BmInv => KernelLoaded
  <2> SUFFICES ASSUME BmInv, bmpc = "entry", NEW i \in 1 .. Len(phs)
               PROVE  SegmentIn(i)
    BY Zenon DEF KernelLoaded, SegmentIn
  <2>1. phs \in Kernels /\ ph \in Nat /\ ph > Len(phs)
    BY DEF BmInv, BmType
  <2>2. Len(phs) \in Nat
    BY <2>1, KernelShape
  <2>3. i < ph
    BY <2>1, <2>2
  <2>4. bmpc \in {"segment", "read", "entry"}
    BY SMTT(30)
  <2>5. QED
    BY <2>3, <2>4, Zenon DEF BmInv
<1>4. QED
  BY <1>1, <1>2, <1>3, PTL DEF BmSpec
-----------------------------------------------------------------------------
(* Booting.                                                                *)

Entries == [type : {"proc", "ioapic", "bus", "unknown"}, apic : Apics]
IsProc(i) == mptable[i].type = "proc"
\* A processor is in cpus once, or still in the rest of the table once.
CpusOnce ==
  /\ mptable \in Seq(Entries) /\ cpus \in Seq(Apics) /\ Len(cpus) <= NCPU
  /\ \A i, j \in 1 .. Len(mptable) : IsProc(i) /\ IsProc(j) /\ mptable[i].apic = mptable[j].apic => i = j
  /\ \A i, j \in 1 .. Len(cpus) : cpus[i] = cpus[j] => i = j
  /\ \A i \in 1 .. Len(cpus), j \in 1 .. Len(mptable) : IsProc(j) => cpus[i] # mptable[j].apic
  /\ bpc = "table" => cpus = <<>>
  /\ bpc \in {"ipi", "wait"} => ci <= Len(cpus) /\ cpus[ci] # Bsp
\* Only the processors that startothers() has come to run, and the one it starts has its turn
\* until it is up.
StartedInTurn ==
  /\ ci \in Nat \ {0} /\ apst \in [Apics -> {"halted", "start", "mpmain", "scheduler"}]
  /\ \A c \in Apics : apst[c] = "halted" \/ c = Bsp
                      \/ \E i \in 1 .. Len(cpus) : cpus[i] = c /\ (i < ci \/ (i = ci /\ bpc = "wait"))
  /\ \A c \in Apics : c \in started => apst[c] = "scheduler"
  /\ \A c \in Apics : apst[c] = "start" => bpc = "wait" /\ c = cpus[ci]
\* The page in the word at code-4 belongs to no processor yet.
PagesFresh ==
  /\ slot \in Nat /\ nextPage \in Nat \ {0} /\ stackOf \in [Apics -> Nat]
  /\ slot < nextPage /\ \A c \in Apics : stackOf[c] < nextPage
  /\ (bpc = "ipi" \/ \E c \in Apics : apst[c] = "start") => \A d \in Apics : stackOf[d] # slot
  /\ \A c, d \in Apics : c # d /\ stackOf[c] # 0 => stackOf[c] # stackOf[d]
\* use_lock is set before there is a process.
LockFirst == (runnable \/ bpc \in {"userinit", "mpmain", "scheduler"}) => useLock
BootInv == CpusOnce /\ StartedInTurn /\ PagesFresh /\ LockFirst

\* What mpinit() found stays as it is through the steps that leave its two variables alone.
LEMMA CpusFrame ==
  ASSUME CpusOnce, UNCHANGED <<mptable, cpus>>, bpc' = "table" => cpus = <<>>,
         bpc' \in {"ipi", "wait"} => ci' <= Len(cpus) /\ cpus[ci'] # Bsp
  PROVE  CpusOnce'
<1>1. mptable' = mptable /\ cpus' = cpus
  BY Zenon
<1>2. QED
  BY <1>1 DEF CpusOnce, IsProc

\* The invariant gives the two properties.
LEMMA BootSafe == BootInv => OwnStacks /\ LockedWhenShared
<1> SUFFICES ASSUME BootInv PROVE OwnStacks /\ LockedWhenShared
  BY Zenon
<1>1. OwnStacks
  BY Zenon DEF BootInv, PagesFresh, CpusOnce, OwnStacks
<1>2. ASSUME ~useLock PROVE ~(Cardinality({c \in Apics : MayKalloc(c)}) > 1)
  <2>1. {c \in Apics : MayKalloc(c)} \subseteq {Bsp}
    BY <1>2, Zenon DEF BootInv, LockFirst, MayKalloc
  <2>2. IsFiniteSet({Bsp}) /\ Cardinality({Bsp}) = 1
    BY FS_Singleton, Zenon
  <2>3. Cardinality({c \in Apics : MayKalloc(c)}) \in Nat /\ Cardinality({c \in Apics : MayKalloc(c)}) <= 1
    BY SMTT(30), <2>1, <2>2, FS_Subset, FS_CardinalityType
  <2>4. QED
    BY <2>3
<1>3. QED
  BY <1>1, <1>2, Zenon DEF LockedWhenShared

\* mpinit() keeps the invariant,
LEMMA BootTable ==
  ASSUME BootInv, FindTable \/ MpEntry \/ MpDone
  PROVE  BootInv'
<1>1. UNCHANGED <<ci, slot, started, nextPage, useLock, runnable, apst, stackOf>> /\ bpc \in {"table", "mpinit"}
  BY Zenon DEF FindTable, MpEntry, MpDone, apVars
<1>2. bpc' \in {"mpinit", "panic", "next"}
  BY Zenon DEF FindTable, MpEntry, MpDone
<1>3. PagesFresh' /\ LockFirst'
  BY <1>1, <1>2, Zenon DEF BootInv, PagesFresh, LockFirst
<1>4. ASSUME \A i \in 1 .. Len(cpus) : i \in 1 .. Len(cpus') /\ cpus'[i] = cpus[i] PROVE StartedInTurn'
  BY <1>1, <1>2, <1>4, Zenon DEF BootInv, StartedInTurn
<1>5. CASE FindTable
  <2>1. cpus' = cpus /\ cpus = <<>>
    BY <1>5, Zenon DEF FindTable, BootInv, CpusOnce
  <2>2. CpusOnce'
    <3>1. CASE mptable' \in Tables /\ bpc' = "mpinit"
      <4>1. /\ mptable' \in Seq(Entries)
            /\ \A i, j \in 1 .. Len(mptable') :
                 mptable'[i].type = "proc" /\ mptable'[j].type = "proc" /\ mptable'[i].apic = mptable'[j].apic => i = j
        BY <3>1, BootConstants, Zenon DEF Entries
      <4>2. QED
        BY SMTT(30), <2>1, <3>1, <4>1, BootConstants DEF CpusOnce, IsProc
    <3>2. CASE bpc' = "panic" /\ UNCHANGED mptable
      BY <2>1, <3>2, CpusFrame, Zenon DEF BootInv
    <3>3. QED
      BY <1>5, <3>1, <3>2, ZenonT(40) DEF FindTable
  <2>3. QED
    BY <1>3, <1>4, <2>1, <2>2, Zenon DEF BootInv
<1>6. CASE MpDone
  <2>1. cpus' = cpus /\ mptable' = mptable
    BY <1>6, Zenon DEF MpDone
  <2>2. CpusOnce'
    BY <1>2, <2>1, <1>6, CpusFrame, Zenon DEF BootInv, MpDone
  <2>3. QED
    BY <1>3, <1>4, <2>1, <2>2, Zenon DEF BootInv
<1>7. CASE MpEntry
  <2>1. /\ mptable \in Seq(Entries) /\ mptable # <<>> /\ mptable' = Tail(mptable)
        /\ cpus \in Seq(Apics) /\ cpus' = WithCpu(mptable[1]) /\ bpc' = "mpinit" /\ Len(cpus) <= NCPU
    BY <1>7 DEF MpEntry, BootInv, CpusOnce
  <2>2. /\ mptable' \in Seq(Entries) /\ Len(mptable) \in Nat \ {0} /\ Len(mptable') = Len(mptable) - 1
        /\ \A j \in 1 .. Len(mptable') : j + 1 \in 2 .. Len(mptable) /\ mptable'[j] = mptable[j + 1]
        /\ mptable[1] \in Entries
    BY <2>1
  <2>3. /\ \A i, j \in 1 .. Len(mptable) : IsProc(i) /\ IsProc(j) /\ mptable[i].apic = mptable[j].apic => i = j
        /\ \A i, j \in 1 .. Len(cpus) : cpus[i] = cpus[j] => i = j
        /\ \A i \in 1 .. Len(cpus), j \in 1 .. Len(mptable) : IsProc(j) => cpus[i] # mptable[j].apic
    BY Zenon DEF BootInv, CpusOnce
  <2>4. (\A i, j \in 1 .. Len(mptable) : IsProc(i) /\ IsProc(j) /\ mptable[i].apic = mptable[j].apic => i = j)'
    <3> SUFFICES ASSUME NEW i \in 1 .. Len(mptable'), NEW j \in 1 .. Len(mptable'),
                        mptable'[i].type = "proc", mptable'[j].type = "proc", mptable'[i].apic = mptable'[j].apic
                 PROVE  i = j
      BY Zenon DEF IsProc
    <3>1. i + 1 \in 1 .. Len(mptable) /\ j + 1 \in 1 .. Len(mptable) /\ mptable'[i] = mptable[i + 1] /\ mptable'[j] = mptable[j + 1]
      <4>1. \A n \in 1 .. Len(mptable') : mptable'[n] = mptable[n + 1]
        BY <2>2, Zenon
      <4>2. i + 1 \in 1 .. Len(mptable) /\ j + 1 \in 1 .. Len(mptable)
        BY <2>2
      <4>3. QED
        BY <4>1, <4>2, Zenon
    <3>2. i + 1 = j + 1
      BY <2>3, <3>1, Zenon DEF IsProc
    <3>3. QED
      BY <3>2
  <2>5. CASE cpus' = cpus
    <3>1. CpusOnce'
      <4>1. \A i \in 1 .. Len(cpus), j \in 1 .. Len(mptable') :
              mptable'[j].type = "proc" => cpus[i] # mptable'[j].apic
        <5> SUFFICES ASSUME NEW i \in 1 .. Len(cpus), NEW j \in 1 .. Len(mptable'), mptable'[j].type = "proc"
                     PROVE  cpus[i] # mptable'[j].apic
          BY Zenon
        <5>1. j + 1 \in 1 .. Len(mptable) /\ mptable'[j] = mptable[j + 1]
          BY <2>2
        <5>2. QED
          BY <2>3, <5>1, Zenon DEF IsProc
      <4>2. QED
        BY SMTT(30), <2>1, <2>2, <2>3, <2>4, <2>5, <4>1 DEF CpusOnce, IsProc
    <3>2. QED
      BY <1>3, <1>4, <2>5, <3>1, ZenonT(40) DEF BootInv
  <2>6. CASE IsProc(1) /\ Len(cpus) < NCPU /\ cpus' = Append(cpus, mptable[1].apic)
    <3> DEFINE a == mptable[1].apic
    <3>1. a \in Apics
      BY <2>2, Zenon DEF Entries
    <3>0. 1 \in 1 .. Len(mptable)
      BY <2>2
    <3>2. \A i \in 1 .. Len(cpus) : cpus[i] # a
      BY <2>3, <2>6, <3>0, Zenon
    <3>3. \A j \in 1 .. Len(mptable') : mptable'[j].type = "proc" => mptable'[j].apic # a
      <4>1. \A j \in 1 .. Len(mptable') : j + 1 \in 1 .. Len(mptable) /\ j + 1 # 1
        BY <2>2
      <4>2. QED
        BY <2>2, <2>3, <2>6, <3>0, <4>1, ZenonT(40) DEF IsProc
    <3> HIDE DEF a
    <3>4. /\ cpus' \in Seq(Apics) /\ Len(cpus') = Len(cpus) + 1 /\ Len(cpus) \in Nat
          /\ \A i \in 1 .. Len(cpus) : i \in 1 .. Len(cpus') /\ cpus'[i] = cpus[i]
          /\ cpus'[Len(cpus) + 1] = a
      BY SMTT(30), <2>1, <2>6, <3>1 DEF a
    <3>5. \A i, j \in 1 .. Len(cpus') : cpus'[i] = cpus'[j] => i = j
      <4>1. \A i \in 1 .. Len(cpus') : i \in 1 .. Len(cpus) \/ i = Len(cpus) + 1
        BY <3>4
      <4>2. QED
        BY <2>3, <3>2, <3>4, <4>1, ZenonT(40)
    <3>6. \A i \in 1 .. Len(cpus'), j \in 1 .. Len(mptable') : mptable'[j].type = "proc" => cpus'[i] # mptable'[j].apic
      <4>1. \A i \in 1 .. Len(cpus') : i \in 1 .. Len(cpus) \/ i = Len(cpus) + 1
        BY <3>4
      <4> SUFFICES ASSUME NEW i \in 1 .. Len(cpus'), NEW j \in 1 .. Len(mptable'), mptable'[j].type = "proc"
                   PROVE  cpus'[i] # mptable'[j].apic
        BY Zenon
      <4>2. j + 1 \in 1 .. Len(mptable) /\ mptable'[j] = mptable[j + 1]
        BY SMTT(30), <2>2
      <4>3. \A k \in 1 .. Len(cpus) : cpus[k] # mptable'[j].apic
        BY <2>3, <4>2, Zenon DEF IsProc
      <4>4. QED
        BY <3>3, <3>4, <4>1, <4>3, Zenon
    <3>7. Len(cpus') <= NCPU
      BY SMTT(30), <2>6, <3>4, BootConstants
    <3>8. CpusOnce'
      BY <2>1, <2>2, <2>4, <3>4, <3>5, <3>6, <3>7, ZenonT(40) DEF CpusOnce, IsProc
    <3>9. QED
      BY <1>3, <1>4, <3>4, <3>8, Zenon DEF BootInv
  <2>7. QED
    BY <2>1, <2>5, <2>6, ZenonT(40) DEF WithCpu, IsProc
<1>8. QED
  BY <1>5, <1>6, <1>7, Zenon

\* startothers() keeps it: the loop,
LEMMA BootLoop ==
  ASSUME BootInv, NextCpu \/ StackForAp \/ WaitForAp
  PROVE  BootInv'
<1>1. UNCHANGED <<mptable, cpus, started, useLock, runnable, apst, stackOf>> /\ bpc \in {"next", "wait"}
  BY Zenon DEF NextCpu, StackForAp, WaitForAp, apVars
<1>0. /\ ci \in Nat \ {0} /\ apst \in [Apics -> {"halted", "start", "mpmain", "scheduler"}]
      /\ cpus \in Seq(Apics)
  BY Zenon DEF BootInv, CpusOnce, StartedInTurn
<1>2. CASE NextCpu
  <2>1. bpc = "next" /\ bpc' \in {"next", "kinit2"} /\ UNCHANGED <<slot, nextPage>> /\ ci' \in {ci, ci + 1}
    BY <1>2, Zenon DEF NextCpu
  <2>2. CpusOnce' /\ LockFirst'
    BY <1>1, <2>1, CpusFrame, Zenon DEF BootInv, LockFirst
  <2>3. StartedInTurn'
    BY <1>0, <1>1, <2>1 DEF BootInv, StartedInTurn
  <2>4. PagesFresh'
    BY <1>1, <2>1, Zenon DEF BootInv, PagesFresh
  <2>5. QED
    BY <2>2, <2>3, <2>4, Zenon DEF BootInv
<1>3. CASE StackForAp
  <2>1. /\ bpc = "next" /\ bpc' = "ipi" /\ slot' = nextPage /\ nextPage' = nextPage + 1 /\ ci' = ci
        /\ ci <= Len(cpus) /\ cpus[ci] # Bsp
    BY <1>3, Zenon DEF StackForAp
  <2>2. CpusOnce' /\ LockFirst'
    BY <1>1, <2>1, CpusFrame, Zenon DEF BootInv, LockFirst
  <2>3. StartedInTurn'
    BY <1>0, <1>1, <2>1, ZenonT(40) DEF BootInv, StartedInTurn
  <2>4. PagesFresh'
    BY SMTT(30), <1>1, <2>1 DEF BootInv, PagesFresh
  <2>5. QED
    BY <2>2, <2>3, <2>4, Zenon DEF BootInv
<1>4. CASE WaitForAp
  <2>1. bpc = "wait" /\ bpc' = "next" /\ UNCHANGED <<slot, nextPage>> /\ ci' = ci + 1 /\ cpus[ci] \in started
    BY <1>4, Zenon DEF WaitForAp, ApIsUp
  <2>2. CpusOnce' /\ LockFirst'
    BY <1>1, <2>1, CpusFrame, Zenon DEF BootInv, LockFirst
  <2>3. \A c \in Apics : apst[c] # "start"
    BY <2>1, Zenon DEF BootInv, StartedInTurn
  <2>4. ASSUME NEW c \in Apics PROVE apst[c] = "halted" \/ c = Bsp \/ \E i \in 1 .. Len(cpus) : cpus[i] = c /\ i < ci + 1
    BY SMTT(30), <1>0, <2>1 DEF BootInv, StartedInTurn
  <2>5. StartedInTurn'
    BY SMTT(30), <1>0, <1>1, <2>1, <2>3, <2>4 DEF BootInv, StartedInTurn
  <2>6. PagesFresh'
    BY <1>1, <2>1, <2>3, Zenon DEF BootInv, PagesFresh
  <2>7. QED
    BY <2>2, <2>5, <2>6, Zenon DEF BootInv
<1>5. QED
  BY <1>2, <1>3, <1>4, Zenon

\* and the processor it starts, which has not run before.
LEMMA BootStart ==
  ASSUME BootInv, StartAp
  PROVE  BootInv'
<1>1. /\ UNCHANGED <<mptable, cpus, ci, slot, started, nextPage, useLock, runnable, stackOf>>
      /\ bpc = "ipi" /\ bpc' = "wait" /\ apst' = [apst EXCEPT ![cpus[ci]] = "start"]
  BY Zenon DEF StartAp
<1>2. /\ ci \in 1 .. Len(cpus) /\ cpus[ci] \in Apics /\ cpus[ci] # Bsp
      /\ apst \in [Apics -> {"halted", "start", "mpmain", "scheduler"}]
  BY SMTT(30), <1>1 DEF BootInv, CpusOnce, StartedInTurn
<1>3. apst[cpus[ci]] = "halted"
  BY SMTT(30), <1>1, <1>2 DEF BootInv, CpusOnce, StartedInTurn
<1>4. CpusOnce' /\ LockFirst'
  <2>1. ci <= Len(cpus) /\ cpus[ci] # Bsp
    BY <1>1, Zenon DEF BootInv, CpusOnce
  <2>2. QED
    BY <1>1, <2>1, CpusFrame, Zenon DEF BootInv, LockFirst
<1>5. \A c \in Apics : apst'[c] = IF c = cpus[ci] THEN "start" ELSE apst[c]
  BY <1>1, <1>2, Zenon
<1>6. cpus[ci] \notin started /\ \A c \in Apics : apst[c] # "start"
  BY <1>1, <1>2, <1>3, ZenonT(40) DEF BootInv, StartedInTurn
<1>7. StartedInTurn'
  <2>1. apst' \in [Apics -> {"halted", "start", "mpmain", "scheduler"}]
    BY <1>1, <1>2, Zenon
  <2>2. ASSUME NEW c \in Apics
        PROVE  apst'[c] = "halted" \/ c = Bsp \/ \E i \in 1 .. Len(cpus) : cpus[i] = c /\ (i < ci \/ i = ci)
    BY <1>1, <1>2, <1>5, Zenon DEF BootInv, StartedInTurn
  <2>3. \A c \in Apics : c \in started => apst'[c] = "scheduler"
    BY <1>5, <1>6, Zenon DEF BootInv, StartedInTurn
  <2>4. QED
    BY SMTT(30), <1>1, <1>5, <1>6, <2>1, <2>2, <2>3 DEF BootInv, StartedInTurn
<1>8. PagesFresh'
  BY <1>1, Zenon DEF BootInv, PagesFresh
<1>9. QED
  BY <1>4, <1>7, <1>8, Zenon DEF BootInv

\* The end of main() keeps it.
LEMMA BootEnd ==
  ASSUME BootInv, Kinit2 \/ UserInit \/ MpMain
  PROVE  BootInv'
<1>1. /\ UNCHANGED <<mptable, cpus, ci, slot, nextPage, stackOf>>
      /\ bpc \in {"kinit2", "userinit", "mpmain"} /\ bpc' \in {"userinit", "mpmain", "scheduler"}
      /\ useLock' = TRUE \/ useLock' = useLock
  BY Zenon DEF Kinit2, UserInit, MpMain, apVars
<1>2. useLock'
  BY Zenon DEF Kinit2, UserInit, MpMain, BootInv, LockFirst
<1>3. CpusOnce' /\ LockFirst'
  BY <1>1, <1>2, CpusFrame, Zenon DEF BootInv, LockFirst
<1>4. /\ \A c \in Apics : apst'[c] = apst[c] \/ (c = Bsp /\ apst'[c] = "scheduler")
      /\ \A c \in Apics : c \in started' => c \in started \/ (c = Bsp /\ apst'[c] = "scheduler")
      /\ apst' \in [Apics -> {"halted", "start", "mpmain", "scheduler"}]
  <2>0. Bsp \in Apics /\ apst \in [Apics -> {"halted", "start", "mpmain", "scheduler"}]
    BY BootConstants, Zenon DEF BootInv, StartedInTurn
  <2>1. CASE Kinit2 \/ UserInit
    BY <2>0, <2>1, Zenon DEF Kinit2, UserInit, apVars
  <2>2. CASE MpMain
    BY <2>0, <2>2, Zenon DEF MpMain
  <2>3. QED
    BY <2>1, <2>2, Zenon
<1>5. \A c \in Apics : apst[c] # "start"
  BY <1>1, Zenon DEF BootInv, StartedInTurn
<1>6. StartedInTurn'
  BY <1>1, <1>4, <1>5, Zenon DEF BootInv, StartedInTurn
<1>7. PagesFresh'
  BY <1>1, <1>4, <1>5, Zenon DEF BootInv, PagesFresh
<1>8. QED
  BY <1>3, <1>6, <1>7, Zenon DEF BootInv

\* So does a processor that takes its stack,
LEMMA BootApStack ==
  ASSUME BootInv, NEW c \in Apics, ApStack(c)
  PROVE  BootInv'
<1>1. /\ UNCHANGED <<mptable, cpus, bpc, ci, slot, started, nextPage, useLock, runnable>>
      /\ apst[c] = "start" /\ apst' = [apst EXCEPT ![c] = "mpmain"] /\ stackOf' = [stackOf EXCEPT ![c] = slot]
  BY Zenon DEF ApStack, bspVars
<1>2. /\ apst \in [Apics -> {"halted", "start", "mpmain", "scheduler"}] /\ stackOf \in [Apics -> Nat]
      /\ slot \in Nat /\ slot < nextPage /\ \A d \in Apics : stackOf[d] # slot
  BY <1>1, Zenon DEF BootInv, StartedInTurn, PagesFresh
<1>3. CpusOnce' /\ LockFirst'
  <2>1. CpusOnce'
    <3>1. /\ bpc = "table" => cpus = <<>>
          /\ bpc \in {"ipi", "wait"} => ci <= Len(cpus) /\ cpus[ci] # Bsp
      BY Zenon DEF BootInv, CpusOnce
    <3>2. QED
      BY <1>1, <3>1, CpusFrame, Zenon DEF BootInv
  <2>2. LockFirst'
    BY <1>1, Zenon DEF BootInv, LockFirst
  <2>3. QED
    BY <2>1, <2>2, Zenon
<1>4. \A d \in Apics : /\ apst'[d] = IF d = c THEN "mpmain" ELSE apst[d]
                       /\ stackOf'[d] = IF d = c THEN slot ELSE stackOf[d]
  BY <1>1, <1>2, Zenon
<1>5. \A d \in Apics : apst'[d] # "start"
  BY SMTT(30), <1>1, <1>4 DEF BootInv, StartedInTurn
<1>6. StartedInTurn'
  <2>1. apst' \in [Apics -> {"halted", "start", "mpmain", "scheduler"}]
    BY <1>1, <1>2, Zenon
  <2>2. QED
    BY SMTT(30), <1>1, <1>4, <1>5, <2>1 DEF BootInv, StartedInTurn
<1>7. PagesFresh'
  <2>1. stackOf' \in [Apics -> Nat]
    BY <1>1, <1>2, Zenon
  <2>2. bpc # "ipi"
    BY <1>1, Zenon DEF BootInv, StartedInTurn
  <2>3. \A d, e \in Apics : d # e /\ stackOf'[d] # 0 => stackOf'[d] # stackOf'[e]
    BY <1>2, <1>4, Zenon DEF BootInv, PagesFresh
  <2>4. QED
    BY <1>1, <1>2, <1>4, <1>5, <2>1, <2>2, <2>3, ZenonT(40) DEF BootInv, PagesFresh
<1>8. QED
  BY <1>3, <1>6, <1>7, Zenon DEF BootInv

\* and one that sets its started.
LEMMA BootApStarted ==
  ASSUME BootInv, NEW c \in Apics, ApStarted(c)
  PROVE  BootInv'
<1>1. /\ UNCHANGED <<mptable, cpus, bpc, ci, slot, nextPage, useLock, runnable, stackOf>>
      /\ apst[c] = "mpmain" /\ apst' = [apst EXCEPT ![c] = "scheduler"] /\ started' = started \cup {c}
  BY Zenon DEF ApStarted, bspVars
<1>2. apst \in [Apics -> {"halted", "start", "mpmain", "scheduler"}]
  BY Zenon DEF BootInv, StartedInTurn
<1>3. CpusOnce' /\ LockFirst'
  <2>1. CpusOnce'
    <3>1. /\ bpc = "table" => cpus = <<>>
          /\ bpc \in {"ipi", "wait"} => ci <= Len(cpus) /\ cpus[ci] # Bsp
      BY Zenon DEF BootInv, CpusOnce
    <3>2. QED
      BY <1>1, <3>1, CpusFrame, Zenon DEF BootInv
  <2>2. LockFirst'
    BY <1>1, Zenon DEF BootInv, LockFirst
  <2>3. QED
    BY <2>1, <2>2, Zenon
<1>4. \A d \in Apics : apst'[d] = IF d = c THEN "scheduler" ELSE apst[d]
  BY <1>1, <1>2, Zenon
<1>5. StartedInTurn'
  <2>1. apst' \in [Apics -> {"halted", "start", "mpmain", "scheduler"}]
    BY <1>1, <1>2, Zenon
  <2>2. QED
    BY <1>1, <1>4, <2>1 DEF BootInv, StartedInTurn
<1>6. PagesFresh'
  BY <1>1, <1>4 DEF BootInv, PagesFresh
<1>7. QED
  BY <1>3, <1>5, <1>6, Zenon DEF BootInv

\* For any number of processors and any table, no two of them ever run on one stack, cpus never
\* outgrows its array, and kalloc() takes its lock whenever two of them may be in it.
THEOREM BootIsSafe == BootSpec => [](OwnStacks /\ LockedWhenShared)
<1>1. BootInit => BootInv
  <2> SUFFICES ASSUME BootInit PROVE BootInv
    BY ZenonT(40)
  <2>1. CpusOnce
    BY SMTT(30), BootConstants DEF BootInit, CpusOnce
  <2>2. StartedInTurn
    BY DEF BootInit, StartedInTurn
  <2>3. PagesFresh /\ LockFirst
    BY DEF BootInit, PagesFresh, LockFirst
  <2>4. QED
    BY <2>1, <2>2, <2>3, Zenon DEF BootInv
<1>2. BootInv /\ [BootNext]_bootVars => BootInv'
  <2>1. BootInv /\ UNCHANGED bootVars => BootInv'
    <3> SUFFICES ASSUME BootInv, UNCHANGED bootVars PROVE BootInv'
      BY Zenon
    <3>1. UNCHANGED <<mptable, cpus, bpc, ci, slot, started, apst, stackOf, nextPage, useLock, runnable>>
      BY DEF bootVars, bspVars, apVars
    <3>2. CpusOnce'
      <4>1. /\ bpc = "table" => cpus = <<>>
            /\ bpc \in {"ipi", "wait"} => ci <= Len(cpus) /\ cpus[ci] # Bsp
        BY Zenon DEF BootInv, CpusOnce
      <4>2. QED
        BY <3>1, <4>1, CpusFrame, Zenon DEF BootInv
    <3>3. StartedInTurn'
      BY <3>1, Zenon DEF BootInv, StartedInTurn
    <3>4. PagesFresh'
      BY <3>1, Zenon DEF BootInv, PagesFresh
    <3>5. LockFirst'
      BY <3>1, Zenon DEF BootInv, LockFirst, IsProc
    <3>6. QED
      BY <3>2, <3>3, <3>4, <3>5, Zenon DEF BootInv
  <2>2. QED
    BY <2>1, BootTable, BootLoop, BootStart, BootEnd, BootApStack, BootApStarted, ZenonT(40) DEF BootNext, BspStep
<1>3. QED
  BY <1>1, <1>2, BootSafe, PTL DEF BootSpec
-----------------------------------------------------------------------------
(* Processes.                                                              *)

Alive == {"SLEEPING", "RUNNABLE", "RUNNING"}

\* init runs for ever: it may be stopped by panic("init exiting"), never reaped.
InitLives == state[initproc] \in Alive /\ parent[initproc] = 0

\* A CPU whose process is not RUNNING, or has something of sched() left to do, is the one
\* that holds ptable.lock.
LockHandedOver ==
  \A c \in CPUs : curr[c] # 0 /\ state[curr[c]] = "RUNNING" =>
    (lock = c <=> resume[curr[c]] # "none")

\* Who can run again has called sched(), and who is dead or not yet born has not.
Resumable ==
  \A s \in Slots :
    /\ state[s] \in {"RUNNABLE", "SLEEPING"} => resume[s] # "none"
    /\ state[s] \in {"UNUSED", "EMBRYO", "ZOMBIE"} => resume[s] = "none"

\* The slot that fork() fills, without ptable.lock, belongs to one fork() alone.
Forking ==
  /\ \A s \in Slots : child[s] # 0 <=> pc[s] \in {"fork_copy", "fork_run"}
  /\ \A s \in Slots : child[s] # 0 =>
       state[s] \in {"RUNNING", "RUNNABLE"} /\ state[child[s]] = "EMBRYO"
  /\ \A s, t \in Slots : child[s] = child[t] /\ child[s] # 0 => s = t

\* Parents are alive and not their own; a child that is not born yet is the np of its
\* parent.
Family ==
  /\ \A t \in Slots : parent[t] # 0 =>
       state[t] # "UNUSED" /\ parent[t] # t /\ state[parent[t]] \in Alive
  /\ \A t \in Slots : parent[t] # 0 /\ state[t] = "EMBRYO" =>
       child[parent[t]] = t /\ pc[parent[t]] = "fork_run"
  /\ \A s \in Slots : pc[s] = "fork_run" => parent[child[s]] = s
  /\ \A s \in Slots \ {initproc} : state[s] \notin {"UNUSED", "EMBRYO"} => parent[s] # 0

\* Pids are given out in order.
PidsFresh == UniquePids /\ nextpid > 0 /\ \A s \in Slots : pid[s] < nextpid

\* Who sleeps in wait() sleeps on itself, and has a reason.
Waiters ==
  \A s \in Slots : state[s] = "SLEEPING" /\ resume[s] = "wait" =>
    /\ chan[s] = s
    /\ \E t \in Slots : parent[t] = s
    /\ \A t \in Slots : parent[t] = s => state[t] # "ZOMBIE"
    /\ ~killed[s]

ProcInv ==
  /\ TypeOK /\ InitLives /\ StackSafe /\ LockHandedOver /\ Resumable
  /\ Forking /\ Family /\ PidsFresh /\ Waiters

\* A step that changes none of this but initExiting.
LEMMA ProcFrame ==
  ASSUME ProcInv, initExiting' \in BOOLEAN,
         UNCHANGED <<state, parent, resume, lock, pid, killed, chan, nextpid, curr, scan, pc, child, asked>>
  PROVE  ProcInv'
<1>1. TypeOK'
  BY Zenon DEF ProcInv, TypeOK
<1>2. InitLives' /\ StackSafe' /\ LockHandedOver'
  BY ZenonT(40) DEF ProcInv, InitLives, StackSafe, LockHandedOver
<1>3. Resumable' /\ Forking' /\ Family'
  BY SMTT(30) DEF ProcInv, Resumable, Forking, Family
<1>4. PidsFresh' /\ Waiters'
  BY DEF ProcInv, PidsFresh, UniquePids, Waiters
<1>5. QED
  BY <1>1, <1>2, <1>3, <1>4, Zenon DEF ProcInv
-----------------------------------------------------------------------------
\* A scan of the table finds a slot if there is one.
LEMMA FirstIn ==
  ASSUME NEW S, S \subseteq Nat, S # {}
  PROVE  First(S) \in S
<1>1. PICK x \in S : \A y \in S : ~(<<y, x>> \in OpToRel(<, Nat))
  BY NatLessThanWellFounded, WFMin, Zenon
<1>2. ASSUME NEW y \in S PROVE x <= y
  <2>1. x \in Nat /\ y \in Nat
    BY Zenon
  <2>2. ~(y < x)
    BY <1>1, <2>1, Zenon DEF OpToRel
  <2>3. QED
    BY <2>1, <2>2
<1>3. QED
  BY <1>2, Zenon DEF First
-----------------------------------------------------------------------------
(* The steps: each keeps the invariant.                                    *)

\* scheduler() goes to a process n that is RUNNABLE, so that no CPU is on it.
LEMMA DispatchToStep ==
  ASSUME ProcInv, NEW c \in CPUs, NEW n \in Slots, curr[c] = 0, lock \in {0, c},
         state[n] = "RUNNABLE",
         state' = [state EXCEPT ![n] = "RUNNING"], curr' = [curr EXCEPT ![c] = n],
         lock' = c, scan' = [scan EXCEPT ![c] = 1],
         UNCHANGED <<pid, parent, killed, chan, nextpid, pc, resume, child, asked, initExiting>>
  PROVE  ProcInv'
<1>0. initproc \in Slots /\ Slots \subseteq Nat \ {0} /\ 0 \notin CPUs
  BY ProcConstants DEF Slots, initproc
<1>1. \A d \in CPUs : curr[d] # n
  BY <1>0, ZenonT(40) DEF ProcInv, TypeOK, StackSafe
<1>2. TypeOK'
  BY <1>1, <1>0 DEF ProcInv, TypeOK, States, PC
<1>3. InitLives'
  BY <1>1, <1>0, ZenonT(40) DEF ProcInv, TypeOK, InitLives, Alive
<1>4. StackSafe'
  BY SMTT(30), <1>1, <1>0 DEF ProcInv, TypeOK, StackSafe
<1>5. LockHandedOver'
  BY SMTT(30), <1>1, <1>0 DEF ProcInv, TypeOK, LockHandedOver, StackSafe, Resumable
<1>6. Resumable'
  BY <1>1, <1>0, ZenonT(40) DEF ProcInv, TypeOK, Resumable
<1>7. Forking'
  BY SMTT(30), <1>1, <1>0 DEF ProcInv, TypeOK, Forking
<1>8. Family'
  BY <1>1, <1>0 DEF ProcInv, TypeOK, Family, Alive
<1>9. PidsFresh'
  BY <1>1, <1>0, ZenonT(40) DEF ProcInv, TypeOK, PidsFresh, UniquePids
<1>10. Waiters'
  BY <1>1, <1>0 DEF ProcInv, TypeOK, Waiters
<1>11. QED
  BY <1>2, <1>3, <1>4, <1>5, <1>6, <1>7, <1>8, <1>9, <1>10, ZenonT(40) DEF ProcInv

\* scheduler() takes a process, or ends its pass.
LEMMA DispatchStep ==
  ASSUME ProcInv, NEW c \in CPUs, Dispatch(c)
  PROVE  ProcInv'
<1> DEFINE from == IF lock = c THEN scan[c] ELSE 1
           ready == {s \in from .. NPROC : state[s] = "RUNNABLE"}
<1>1. /\ curr[c] = 0 /\ lock \in {0, c} /\ scan' = [scan EXCEPT ![c] = 1]
      /\ UNCHANGED <<pid, parent, killed, chan, nextpid, pc, resume, child, asked, initExiting>>
  BY Zenon DEF Dispatch
<1>2. from \in Nat \ {0}
  BY DEF ProcInv, TypeOK
<1> HIDE DEF from
<1>3. ready \subseteq Slots /\ ready \subseteq Nat /\ \A n \in ready : state[n] = "RUNNABLE"
  BY <1>2, ProcConstants DEF Slots
<1>4. CASE /\ ready # {} /\ lock' = c
           /\ state' = [state EXCEPT ![First(ready)] = "RUNNING"]
           /\ curr' = [curr EXCEPT ![c] = First(ready)]
  <2> HIDE DEF ready
  <2>1. PICK n \in Slots : n = First(ready) /\ state[n] = "RUNNABLE"
    BY <1>3, <1>4, FirstIn, Zenon
  <2>2. QED
    BY <1>1, <1>4, <2>1, DispatchToStep, Zenon
<1>5. CASE lock = c /\ lock' = 0 /\ UNCHANGED <<state, curr>>
  <2>1. /\ TypeOK' /\ InitLives' /\ Resumable' /\ Forking' /\ Family' /\ PidsFresh' /\ Waiters'
    BY SMTT(30), <1>1, <1>5 DEF ProcInv, TypeOK, InitLives, Resumable, Forking, Family, PidsFresh, UniquePids,
                      Waiters
  <2>2. StackSafe' /\ LockHandedOver'
    BY <1>1, <1>5, ProcConstants, Zenon DEF ProcInv, TypeOK, StackSafe, LockHandedOver
  <2>3. QED
    BY <2>1, <2>2, ZenonT(40) DEF ProcInv
<1>6. QED
  BY <1>4, <1>5, Zenon DEF Dispatch, from

\* The scheduler is back on its own stack.
LEMMA SwitchBackStep ==
  ASSUME ProcInv, NEW c \in CPUs, SwitchBack(c)
  PROVE  ProcInv'
<1>0. initproc \in Slots /\ Slots \subseteq Nat \ {0} /\ 0 \notin CPUs
  BY ProcConstants DEF Slots, initproc
<1> PICK s \in Slots : s = curr[c]
  BY <1>0, Zenon DEF SwitchBack, ProcInv, TypeOK
<1>1. /\ s = curr[c] /\ state[s] # "RUNNING" /\ curr' = [curr EXCEPT ![c] = 0]
      /\ scan' = [scan EXCEPT ![c] = s + 1]
      /\ UNCHANGED <<state, pid, parent, killed, chan, nextpid, lock, pc, resume, child, asked,
                     initExiting>>
  BY ZenonT(40) DEF SwitchBack, NextScan, table
<1>2. TypeOK'
  BY SMTT(30), <1>1, <1>0 DEF ProcInv, TypeOK, States, PC
<1>3. InitLives'
  BY <1>1, <1>0, Zenon DEF ProcInv, TypeOK, InitLives, Alive
<1>4. StackSafe'
  BY <1>1, <1>0, ZenonT(40) DEF ProcInv, TypeOK, StackSafe
<1>5. LockHandedOver'
  BY <1>1, <1>0, Zenon DEF ProcInv, TypeOK, LockHandedOver
<1>6. Resumable'
  BY <1>1, <1>0, Zenon DEF ProcInv, TypeOK, Resumable
<1>7. Forking'
  BY <1>1, <1>0, ZenonT(40) DEF ProcInv, TypeOK, Forking
<1>8. Family'
  BY <1>1, <1>0, Zenon DEF ProcInv, TypeOK, Family, Alive
<1>9. PidsFresh'
  BY <1>1, <1>0, ZenonT(40) DEF ProcInv, TypeOK, PidsFresh, UniquePids
<1>10. Waiters'
  BY SMTT(30), <1>1, <1>0 DEF ProcInv, TypeOK, Waiters
<1>11. QED
  BY <1>2, <1>3, <1>4, <1>5, <1>6, <1>7, <1>8, <1>9, <1>10, ZenonT(40) DEF ProcInv

\* A process comes back from sched() and releases the lock.
LEMMA ReturnStep ==
  ASSUME ProcInv, NEW c \in CPUs, Return(c)
  PROVE  ProcInv'
<1>0. initproc \in Slots /\ Slots \subseteq Nat \ {0} /\ 0 \notin CPUs
  BY ProcConstants DEF Slots, initproc
<1> PICK s \in Slots : s = curr[c]
  BY <1>0, Zenon DEF Return, ProcInv, TypeOK
<1>1. /\ s = curr[c] /\ lock = c /\ state[s] = "RUNNING" /\ lock' = 0
      /\ resume' = [resume EXCEPT ![s] = "none"]
      /\ chan' = [chan EXCEPT ![s] = IF resume[s] = "sleep" THEN 0 ELSE @]
      /\ UNCHANGED <<state, pid, parent, killed, nextpid, curr, scan, pc, child, asked,
                     initExiting>>
  BY Zenon DEF Return
<1>2. TypeOK'
  BY <1>1, <1>0, Zenon DEF ProcInv, TypeOK, States, PC
<1>3. InitLives'
  BY <1>1, <1>0, Zenon DEF ProcInv, TypeOK, InitLives, Alive
<1>4. StackSafe'
  BY <1>1, <1>0, Zenon DEF ProcInv, TypeOK, StackSafe
<1>5. LockHandedOver'
  BY <1>1, <1>0, ZenonT(40) DEF ProcInv, TypeOK, LockHandedOver, StackSafe
<1>6. Resumable'
  BY <1>1, <1>0, Zenon DEF ProcInv, TypeOK, Resumable
<1>7. Forking'
  BY <1>1, <1>0, Zenon DEF ProcInv, TypeOK, Forking
<1>8. Family'
  BY <1>1, <1>0, Zenon DEF ProcInv, TypeOK, Family, Alive
<1>9. PidsFresh'
  BY <1>1, <1>0, ZenonT(40) DEF ProcInv, TypeOK, PidsFresh, UniquePids
<1>10. Waiters'
  BY SMTT(30), <1>1, <1>0 DEF ProcInv, TypeOK, Waiters
<1>11. QED
  BY <1>2, <1>3, <1>4, <1>5, <1>6, <1>7, <1>8, <1>9, <1>10, Zenon DEF ProcInv

\* The timer makes a process yield().
LEMMA YieldStep ==
  ASSUME ProcInv, NEW c \in CPUs, Yield(c)
  PROVE  ProcInv'
<1>0. initproc \in Slots /\ Slots \subseteq Nat \ {0} /\ 0 \notin CPUs
  BY ProcConstants DEF Slots, initproc
<1> PICK s \in Slots : s = curr[c]
  BY <1>0, Zenon DEF Yield, ProcInv, TypeOK
<1>1. /\ s = curr[c] /\ lock = 0 /\ state[s] = "RUNNING" /\ lock' = c
      /\ resume' = [resume EXCEPT ![s] = "yield"] /\ state' = [state EXCEPT ![s] = "RUNNABLE"]
      /\ UNCHANGED <<pid, parent, killed, chan, nextpid, curr, scan, pc, child, asked, initExiting>>
  BY Zenon DEF Yield, Running, Sched, SchedLock
<1>2. TypeOK'
  BY <1>1, <1>0, Zenon DEF ProcInv, TypeOK, States, PC
<1>3. InitLives'
  BY <1>1, <1>0, ZenonT(40) DEF ProcInv, TypeOK, InitLives, Alive
<1>4. StackSafe'
  BY SMTT(30), <1>1, <1>0 DEF ProcInv, TypeOK, StackSafe
<1>5. LockHandedOver'
  BY SMTT(30), <1>1, <1>0 DEF ProcInv, TypeOK, LockHandedOver, StackSafe
<1>6. Resumable'
  BY <1>1, <1>0, ZenonT(40) DEF ProcInv, TypeOK, Resumable
<1>7. Forking'
  BY SMTT(30), <1>1, <1>0 DEF ProcInv, TypeOK, Forking
<1>8. Family'
  BY SMTT(30), <1>1, <1>0 DEF ProcInv, TypeOK, Family, Alive
<1>9. PidsFresh'
  BY <1>1, <1>0, ZenonT(40) DEF ProcInv, TypeOK, PidsFresh, UniquePids
<1>10. Waiters'
  BY SMTT(30), <1>1, <1>0 DEF ProcInv, TypeOK, Waiters
<1>11. QED
  BY <1>2, <1>3, <1>4, <1>5, <1>6, <1>7, <1>8, <1>9, <1>10, Zenon DEF ProcInv

\* A system call begins.
LEMMA SyscallStep ==
  ASSUME ProcInv, NEW c \in CPUs, Syscall(c)
  PROVE  ProcInv'
<1>0. initproc \in Slots /\ Slots \subseteq Nat \ {0} /\ 0 \notin CPUs
  BY ProcConstants DEF Slots, initproc
<1> PICK s \in Slots : s = curr[c]
  BY <1>0, Zenon DEF Syscall, ProcInv, TypeOK
<1>1. /\ s = curr[c] /\ state[s] = "RUNNING" /\ pc[s] = "user"
      /\ \E call \in {"fork", "wait", "kill", "block", "exit"} : pc' = [pc EXCEPT ![s] = call]
      /\ UNCHANGED <<state, pid, parent, killed, chan, nextpid, lock, curr, scan, resume, child,
                     asked, initExiting>>
  BY ZenonT(40) DEF Syscall, Running, table, cpu
<1>2. TypeOK'
  BY SMTT(30), <1>1, <1>0 DEF ProcInv, TypeOK, States, PC
<1>3. InitLives'
  BY <1>1, <1>0, ZenonT(40) DEF ProcInv, TypeOK, InitLives, Alive
<1>4. StackSafe'
  BY SMTT(30), <1>1, <1>0 DEF ProcInv, TypeOK, StackSafe
<1>5. LockHandedOver'
  BY <1>1, <1>0, Zenon DEF ProcInv, TypeOK, LockHandedOver
<1>6. Resumable'
  BY <1>1, <1>0, ZenonT(40) DEF ProcInv, TypeOK, Resumable
<1>7. Forking'
  BY SMTT(30), <1>1, <1>0 DEF ProcInv, TypeOK, Forking
<1>8. Family'
  BY SMTT(30), <1>1, <1>0 DEF ProcInv, TypeOK, Family, Alive
<1>9. PidsFresh'
  BY <1>1, <1>0, ZenonT(40) DEF ProcInv, TypeOK, PidsFresh, UniquePids
<1>10. Waiters'
  BY SMTT(30), <1>1, <1>0 DEF ProcInv, TypeOK, Waiters
<1>11. QED
  BY <1>2, <1>3, <1>4, <1>5, <1>6, <1>7, <1>8, <1>9, <1>10, Zenon DEF ProcInv

\* allocproc() finds the unused slot n.
LEMMA AllocToStep ==
  ASSUME ProcInv, NEW c \in CPUs, NEW s \in Slots, NEW n \in Slots, s = curr[c], Running(c, s),
         pc[s] = "fork",
         state[n] = "UNUSED", state' = [state EXCEPT ![n] = "EMBRYO"],
         pid' = [pid EXCEPT ![n] = nextpid], nextpid' = nextpid + 1,
         child' = [child EXCEPT ![s] = n], pc' = [pc EXCEPT ![s] = "fork_copy"],
         UNCHANGED <<parent, killed, chan, lock, curr, scan, resume, asked, initExiting>>
  PROVE  ProcInv'
<1>0. initproc \in Slots /\ Slots \subseteq Nat \ {0} /\ 0 \notin CPUs
  BY ProcConstants DEF Slots, initproc
<1>1. state[s] = "RUNNING" /\ n # s
  BY ZenonT(40) DEF Running
<1>2. \A t \in Slots : parent[t] # n /\ child[t] # n /\ parent[n] = 0
  BY SMTT(30), <1>0 DEF ProcInv, TypeOK, Family, Forking, Alive
<1>3. TypeOK'
  BY SMTT(30), <1>1, <1>2, <1>0 DEF ProcInv, TypeOK, States, PC
<1>4. InitLives'
  BY <1>1, <1>2, <1>0, ZenonT(40) DEF ProcInv, TypeOK, InitLives, Alive
<1>5. StackSafe'
  BY SMTT(30), <1>1, <1>2, <1>0 DEF ProcInv, TypeOK, StackSafe
<1>6. LockHandedOver'
  BY <1>1, <1>2, <1>0, Zenon DEF ProcInv, TypeOK, LockHandedOver
<1>7. Resumable'
  BY <1>1, <1>2, <1>0, ZenonT(40) DEF ProcInv, TypeOK, Resumable
<1>8. Forking'
  BY SMTT(30), <1>1, <1>2, <1>0 DEF ProcInv, TypeOK, Forking
<1>9. Family'
  BY SMTT(30), <1>1, <1>2, <1>0 DEF ProcInv, TypeOK, Family, Alive, Forking
<1>10. PidsFresh'
  BY SMTT(30), <1>1, <1>2, <1>0 DEF ProcInv, TypeOK, PidsFresh, UniquePids
<1>11. Waiters'
  BY SMTT(30), <1>1, <1>2, <1>0 DEF ProcInv, TypeOK, Waiters
<1>12. QED
  BY <1>3, <1>4, <1>5, <1>6, <1>7, <1>8, <1>9, <1>10, <1>11, ZenonT(40) DEF ProcInv

\* allocproc() under the lock.
LEMMA AllocProcStep ==
  ASSUME ProcInv, NEW c \in CPUs, AllocProc(c)
  PROVE  ProcInv'
<1> PICK s \in Slots : s = curr[c]
  BY ProcConstants, Zenon DEF AllocProc, ProcInv, TypeOK
<1> DEFINE free == {t \in Slots : state[t] = "UNUSED"}
<1>1. /\ s = curr[c] /\ Running(c, s) /\ pc[s] = "fork"
      /\ UNCHANGED <<parent, killed, chan, lock, curr, scan, resume, asked, initExiting>>
  BY Zenon DEF AllocProc, cpu
<1>2. CASE /\ free # {}
           /\ state' = [state EXCEPT ![First(free)] = "EMBRYO"]
           /\ pid' = [pid EXCEPT ![First(free)] = nextpid]
           /\ nextpid' = nextpid + 1
           /\ child' = [child EXCEPT ![s] = First(free)]
           /\ pc' = [pc EXCEPT ![s] = "fork_copy"]
  <2>0. free \subseteq Nat /\ free \subseteq Slots /\ \A n \in free : state[n] = "UNUSED"
    BY ProcConstants DEF Slots
  <2> HIDE DEF free
  <2>1. PICK n \in Slots : n = First(free) /\ state[n] = "UNUSED"
    BY <1>2, <2>0, FirstIn, Zenon
  <2>2. QED
    BY <1>1, <1>2, <2>1, AllocToStep, ZenonT(40)
<1>3. CASE pc' = [pc EXCEPT ![s] = "user"] /\ UNCHANGED <<state, pid, nextpid, child>>
  <2>1. /\ TypeOK' /\ InitLives' /\ StackSafe' /\ LockHandedOver' /\ Resumable' /\ PidsFresh'
        /\ Waiters'
    BY SMTT(30), <1>1, <1>3 DEF ProcInv, TypeOK, PC, InitLives, Resumable, PidsFresh, UniquePids, Waiters,
                      StackSafe, LockHandedOver
  <2>2. Forking' /\ Family'
    BY SMTT(30), <1>1, <1>3 DEF ProcInv, TypeOK, Forking, Family
  <2>3. QED
    BY <2>1, <2>2, ZenonT(40) DEF ProcInv
<1>4. QED
  BY <1>2, <1>3, Zenon DEF AllocProc, NextPid, Done

\* fork() gives the slot back, without the lock.
LEMMA ForkFailStep ==
  ASSUME ProcInv, NEW c \in CPUs, ForkFail(c)
  PROVE  ProcInv'
<1>0. initproc \in Slots /\ Slots \subseteq Nat \ {0} /\ 0 \notin CPUs
  BY ProcConstants DEF Slots, initproc
<1> PICK s \in Slots : s = curr[c]
  BY <1>0, Zenon DEF ForkFail, ProcInv, TypeOK
<1> PICK n \in Slots : n = child[s]
  BY <1>0, ZenonT(40) DEF ForkFail, ProcInv, TypeOK, Forking
<1>1. /\ s = curr[c] /\ state[s] = "RUNNING" /\ resume[s] = "none" /\ n = child[s] /\ n # s
      /\ state[n] = "EMBRYO" /\ \A t \in Slots : child[t] = n => t = s
  BY SMTT(30), <1>0 DEF ForkFail, Running, ProcInv, TypeOK, Forking
<1>2. \A d \in CPUs : curr[d] # n
  BY SMTT(30), <1>0, <1>1 DEF ProcInv, TypeOK, StackSafe
<1>3. /\ pc[s] = "fork_copy" /\ state' = [state EXCEPT ![n] = "UNUSED"]
      /\ child' = [child EXCEPT ![s] = 0] /\ pc' = [pc EXCEPT ![s] = "user"]
      /\ UNCHANGED <<pid, parent, killed, chan, nextpid, lock, curr, scan, resume, asked,
                     initExiting>>
  BY Zenon DEF ForkFail, Done, cpu
<1>4. parent[n] = 0
  BY <1>0, <1>1, <1>3, ZenonT(40) DEF ProcInv, TypeOK, Family
<1>5. TypeOK'
  BY <1>1, <1>2, <1>3, <1>4, <1>0, Zenon DEF ProcInv, TypeOK, States, PC
<1>6. InitLives'
  BY <1>1, <1>2, <1>3, <1>4, <1>0, ZenonT(40) DEF ProcInv, TypeOK, InitLives, Alive
<1>7. StackSafe'
  BY SMTT(30), <1>1, <1>2, <1>3, <1>4, <1>0 DEF ProcInv, TypeOK, StackSafe
<1>8. LockHandedOver'
  BY <1>1, <1>2, <1>3, <1>4, <1>0, ZenonT(40) DEF ProcInv, TypeOK, LockHandedOver
<1>9. Resumable'
  BY <1>1, <1>2, <1>3, <1>4, <1>0, ZenonT(40) DEF ProcInv, TypeOK, Resumable
<1>10. Forking'
  BY SMTT(30), <1>1, <1>2, <1>3, <1>4, <1>0 DEF ProcInv, TypeOK, Forking
<1>11. Family'
  BY SMTT(30), <1>1, <1>2, <1>3, <1>4, <1>0 DEF ProcInv, TypeOK, Family, Alive, Forking
<1>12. PidsFresh'
  BY <1>1, <1>2, <1>3, <1>4, <1>0, ZenonT(40) DEF ProcInv, TypeOK, PidsFresh, UniquePids
<1>13. Waiters'
  BY SMTT(30), <1>1, <1>2, <1>3, <1>4, <1>0 DEF ProcInv, TypeOK, Waiters
<1>14. QED
  BY <1>5, <1>6, <1>7, <1>8, <1>9, <1>10, <1>11, <1>12, <1>13, ZenonT(40) DEF ProcInv

\* fork() enters the child into the tree, without the lock.
LEMMA ForkCopyStep ==
  ASSUME ProcInv, NEW c \in CPUs, ForkCopy(c)
  PROVE  ProcInv'
<1>0. initproc \in Slots /\ Slots \subseteq Nat \ {0} /\ 0 \notin CPUs
  BY ProcConstants DEF Slots, initproc
<1> PICK s \in Slots : s = curr[c]
  BY <1>0, Zenon DEF ForkCopy, ProcInv, TypeOK
<1> PICK n \in Slots : n = child[s]
  BY <1>0, ZenonT(40) DEF ForkCopy, ProcInv, TypeOK, Forking
<1>1. /\ s = curr[c] /\ state[s] = "RUNNING" /\ resume[s] = "none" /\ n = child[s] /\ n # s
      /\ state[n] = "EMBRYO" /\ \A t \in Slots : child[t] = n => t = s
  BY SMTT(30), <1>0 DEF ForkCopy, Running, ProcInv, TypeOK, Forking
<1>2. \A d \in CPUs : curr[d] # n
  BY <1>0, <1>1 DEF ProcInv, TypeOK, StackSafe
<1>3. /\ pc[s] = "fork_copy" /\ parent' = [parent EXCEPT ![n] = s]
      /\ pc' = [pc EXCEPT ![s] = "fork_run"]
      /\ UNCHANGED <<state, pid, killed, chan, nextpid, lock, curr, scan, resume, child, asked,
                     initExiting>>
  BY Zenon DEF ForkCopy, cpu
<1>4. parent[n] = 0
  BY <1>0, <1>1, <1>3, Zenon DEF ProcInv, TypeOK, Family
<1>5. TypeOK'
  BY <1>1, <1>2, <1>3, <1>4, <1>0, ZenonT(40) DEF ProcInv, TypeOK, States, PC
<1>6. InitLives'
  BY <1>1, <1>2, <1>3, <1>4, <1>0, ZenonT(40) DEF ProcInv, TypeOK, InitLives, Alive
<1>7. StackSafe'
  BY SMTT(30), <1>1, <1>2, <1>3, <1>4, <1>0 DEF ProcInv, TypeOK, StackSafe
<1>8. LockHandedOver'
  BY <1>1, <1>2, <1>3, <1>4, <1>0, ZenonT(40) DEF ProcInv, TypeOK, LockHandedOver
<1>9. Resumable'
  BY <1>1, <1>2, <1>3, <1>4, <1>0, ZenonT(40) DEF ProcInv, TypeOK, Resumable
<1>10. Forking'
  BY SMTT(30), <1>1, <1>2, <1>3, <1>4, <1>0 DEF ProcInv, TypeOK, Forking
<1>11. Family'
  BY SMTT(30), <1>1, <1>2, <1>3, <1>4, <1>0 DEF ProcInv, TypeOK, Family, Alive, Forking
<1>12. PidsFresh'
  BY <1>1, <1>2, <1>3, <1>4, <1>0, ZenonT(40) DEF ProcInv, TypeOK, PidsFresh, UniquePids
<1>13. Waiters'
  BY SMTT(30), <1>1, <1>2, <1>3, <1>4, <1>0 DEF ProcInv, TypeOK, Waiters
<1>14. QED
  BY <1>5, <1>6, <1>7, <1>8, <1>9, <1>10, <1>11, <1>12, <1>13, Zenon DEF ProcInv

\* fork() makes the child RUNNABLE.
LEMMA ForkRunStep ==
  ASSUME ProcInv, NEW c \in CPUs, ForkRun(c)
  PROVE  ProcInv'
<1>0. initproc \in Slots /\ Slots \subseteq Nat \ {0} /\ 0 \notin CPUs
  BY ProcConstants DEF Slots, initproc
<1> PICK s \in Slots : s = curr[c]
  BY <1>0, Zenon DEF ForkRun, ProcInv, TypeOK
<1> PICK n \in Slots : n = child[s]
  BY <1>0, ZenonT(40) DEF ForkRun, ProcInv, TypeOK, Forking
<1>1. /\ s = curr[c] /\ state[s] = "RUNNING" /\ resume[s] = "none" /\ n = child[s] /\ n # s
      /\ state[n] = "EMBRYO" /\ \A t \in Slots : child[t] = n => t = s
  BY SMTT(30), <1>0 DEF ForkRun, Running, ProcInv, TypeOK, Forking
<1>2. \A d \in CPUs : curr[d] # n
  BY <1>0, <1>1 DEF ProcInv, TypeOK, StackSafe
<1>3. /\ pc[s] = "fork_run" /\ state' = [state EXCEPT ![n] = "RUNNABLE"] /\ lock = 0
      /\ resume' = [resume EXCEPT ![n] = "forkret"] /\ child' = [child EXCEPT ![s] = 0]
      /\ pc' = [pc EXCEPT ![s] = "user", ![n] = "user"]
      /\ UNCHANGED <<pid, parent, killed, chan, nextpid, lock, curr, scan, asked, initExiting>>
  BY Zenon DEF ForkRun, cpu
<1>4. TypeOK'
  BY <1>1, <1>2, <1>3, <1>0, Zenon DEF ProcInv, TypeOK, States, PC
<1>5. InitLives'
  BY <1>1, <1>2, <1>3, <1>0, ZenonT(40) DEF ProcInv, TypeOK, InitLives, Alive
<1>6. StackSafe'
  BY SMTT(30), <1>1, <1>2, <1>3, <1>0 DEF ProcInv, TypeOK, StackSafe
<1>7. LockHandedOver'
  BY <1>1, <1>2, <1>3, <1>0, Zenon DEF ProcInv, TypeOK, LockHandedOver
<1>8. Resumable'
  BY <1>1, <1>2, <1>3, <1>0, ZenonT(40) DEF ProcInv, TypeOK, Resumable
<1>9. Forking'
  BY SMTT(30), <1>1, <1>2, <1>3, <1>0 DEF ProcInv, TypeOK, Forking
<1>10. Family'
  <2>1. parent[n] = s
    BY <1>1, <1>2, <1>3, Zenon DEF ProcInv, TypeOK, Family
  <2>0. parent' = parent
    BY <1>1, <1>2, <1>3, Zenon
  <2>2. ASSUME NEW t \in Slots, parent'[t] # 0
        PROVE  /\ state'[t] # "UNUSED" /\ parent'[t] # t /\ state'[parent'[t]] \in Alive
               /\ state'[t] = "EMBRYO" => child'[parent'[t]] = t /\ pc'[parent'[t]] = "fork_run"
    <3>1. parent[t] \in Slots /\ state[parent[t]] \in Alive /\ parent[t] # n
      BY SMTT(30), <1>1, <1>2, <1>3, <2>0, <2>2 DEF ProcInv, TypeOK, Family, Alive
    <3>2. state'[t] # "UNUSED" /\ parent'[t] # t /\ state'[parent[t]] \in Alive
      BY SMTT(30), <1>1, <1>2, <1>3, <2>0, <2>2, <3>1 DEF ProcInv, TypeOK, Family, Alive
    <3>3. ASSUME state'[t] = "EMBRYO"
          PROVE  child'[parent[t]] = t /\ pc'[parent[t]] = "fork_run"
      <4>1. t # n /\ state[t] = "EMBRYO"
        BY <1>1, <1>2, <1>3, <3>3, ZenonT(40) DEF ProcInv, TypeOK
      <4>2. child[parent[t]] = t /\ pc[parent[t]] = "fork_run"
        BY <2>0, <2>2, <4>1, Zenon DEF ProcInv, Family
      <4>3. parent[t] # s
        BY <1>1, <1>2, <1>3, <4>1, <4>2, ZenonT(40)
      <4>4. QED
        BY <1>1, <1>2, <1>3, <3>1, <4>2, <4>3, ZenonT(40) DEF ProcInv, TypeOK
    <3>4. QED
      BY <2>0, <3>2, <3>3, ZenonT(40)
  <2>3. ASSUME NEW q \in Slots, pc'[q] = "fork_run" PROVE parent'[child'[q]] = q
    <3>1. q # s /\ pc[q] = "fork_run"
      BY <1>1, <1>2, <1>3, <2>3, ZenonT(40) DEF ProcInv, TypeOK
    <3>2. QED
      BY <1>1, <1>2, <1>3, <3>1, ZenonT(40) DEF ProcInv, TypeOK, Family
  <2>4. ASSUME NEW q \in Slots \ {initproc}, state'[q] \notin {"UNUSED", "EMBRYO"} PROVE parent'[q] # 0
    BY SMTT(30), <1>1, <1>2, <1>3, <1>0, <2>1, <2>4 DEF ProcInv, TypeOK, Family
  <2>5. QED
    BY <2>2, <2>3, <2>4, Zenon DEF Family
<1>11. PidsFresh'
  BY <1>1, <1>2, <1>3, <1>0, Zenon DEF ProcInv, TypeOK, PidsFresh, UniquePids
<1>12. Waiters'
  <2>1. ASSUME NEW q \in Slots, state'[q] = "SLEEPING", resume'[q] = "wait"
        PROVE  /\ chan'[q] = q /\ \E t \in Slots : parent'[t] = q
               /\ \A t \in Slots : parent'[t] = q => state'[t] # "ZOMBIE"
               /\ ~killed'[q]
    <3>1. state[q] = "SLEEPING" /\ resume[q] = "wait"
      BY <1>1, <1>2, <1>3, <2>1, Zenon DEF ProcInv, TypeOK
    <3>2. QED
      BY <1>1, <1>2, <1>3, <3>1, Zenon DEF ProcInv, TypeOK, Waiters
  <2>2. QED
    BY <2>1, Zenon DEF Waiters
<1>13. QED
  BY <1>4, <1>5, <1>6, <1>7, <1>8, <1>9, <1>10, <1>11, <1>12, Zenon DEF ProcInv

\* Sleepers are made RUNNABLE, and whoever is killed does not sleep on.
LEMMA AwakenStep ==
  ASSUME ProcInv, lock = 0,
         state' \in [Slots -> States], killed' \in [Slots -> BOOLEAN], pc' \in [Slots -> PC], asked' \subseteq Nat,
         \A q \in Slots : state'[q] = state[q] \/ (state[q] = "SLEEPING" /\ state'[q] = "RUNNABLE"),
         \A q \in Slots : killed'[q] => killed[q] \/ state'[q] # "SLEEPING",
         \A q \in Slots : pc'[q] = pc[q] \/ (pc[q] = "kill" /\ pc'[q] = "user"),
         UNCHANGED <<pid, parent, chan, nextpid, lock, curr, scan, resume, child, initExiting>>
  PROVE  ProcInv'
<1>0. initproc \in Slots /\ Slots \subseteq Nat \ {0} /\ 0 \notin CPUs
  BY ProcConstants DEF Slots, initproc
<1>1. \A d \in CPUs : curr[d] # 0 => state[curr[d]] = "RUNNING" /\ state'[curr[d]] = "RUNNING"
  <2> SUFFICES ASSUME NEW d \in CPUs, curr[d] # 0
               PROVE  state[curr[d]] = "RUNNING" /\ state'[curr[d]] = "RUNNING"
    BY ZenonT(40)
  <2>1. curr[d] \in Slots /\ state[curr[d]] = "RUNNING"
    BY SMTT(30), <1>0 DEF ProcInv, TypeOK, StackSafe
  <2>2. QED
    BY <2>1, Zenon
<1>2. \A q \in Slots : state[q] # "SLEEPING" => state'[q] = state[q]
  BY Zenon
<1>3. \A q \in Slots : (pc'[q] = "fork_copy" <=> pc[q] = "fork_copy") /\ (pc'[q] = "fork_run" <=> pc[q] = "fork_run")
  BY Zenon
<1>4. \A q \in Slots : /\ state[q] \in Alive <=> state'[q] \in Alive
                       /\ state[q] = "EMBRYO" <=> state'[q] = "EMBRYO"
                       /\ state[q] = "UNUSED" <=> state'[q] = "UNUSED" 
  <2> TAKE q \in Slots
  <2>1. CASE state'[q] = state[q]
    BY <2>1, Zenon
  <2>2. CASE state[q] = "SLEEPING" /\ state'[q] = "RUNNABLE"
    BY <2>2, Zenon DEF Alive
  <2>3. QED
    BY <2>1, <2>2, ZenonT(40)
<1>5. TypeOK'
  BY <1>1, <1>2, <1>3, <1>4, <1>0, ZenonT(40) DEF ProcInv, TypeOK, States, PC
<1>6. InitLives'
  BY <1>1, <1>2, <1>3, <1>4, <1>0, ZenonT(40) DEF ProcInv, TypeOK, InitLives, Alive
<1>7. StackSafe'
  BY SMTT(30), <1>1, <1>2, <1>3, <1>4, <1>0 DEF ProcInv, TypeOK, StackSafe
<1>8. LockHandedOver'
  BY SMTT(30), <1>1, <1>2, <1>3, <1>4, <1>0 DEF ProcInv, TypeOK, LockHandedOver
<1>9. Resumable'
  BY SMTT(30), <1>1, <1>2, <1>3, <1>4, <1>0 DEF ProcInv, TypeOK, Resumable
<1>10. Forking'
  <2>1. \A q \in Slots : child'[q] # 0 <=> pc'[q] \in {"fork_copy", "fork_run"}
    BY <1>3, ZenonT(40) DEF ProcInv, Forking
  <2>2. ASSUME NEW q \in Slots, child'[q] # 0
        PROVE  state'[q] \in {"RUNNING", "RUNNABLE"} /\ state'[child'[q]] = "EMBRYO"
    BY SMTT(30), <1>2, <2>2 DEF ProcInv, TypeOK, Forking
  <2>3. QED
    BY SMTT(30), <2>1, <2>2 DEF ProcInv, Forking
<1>11. Family'
  <2>1. ASSUME NEW t \in Slots, parent'[t] # 0
        PROVE  /\ state'[t] # "UNUSED" /\ parent'[t] # t /\ state'[parent'[t]] \in Alive
               /\ state'[t] = "EMBRYO" => child'[parent'[t]] = t /\ pc'[parent'[t]] = "fork_run"
    BY SMTT(30), <1>3, <1>4, <2>1 DEF ProcInv, TypeOK, Family
  <2>2. QED
    BY SMTT(30), <1>3, <1>4, <2>1 DEF ProcInv, TypeOK, Family
<1>12. PidsFresh'
  BY SMTT(30), <1>1, <1>2, <1>3, <1>4, <1>0 DEF ProcInv, TypeOK, PidsFresh, UniquePids
<1>13. Waiters'
  BY SMTT(30), <1>1, <1>2, <1>3, <1>4, <1>0 DEF ProcInv, TypeOK, Waiters
<1>14. QED
  BY <1>5, <1>6, <1>7, <1>8, <1>9, <1>10, <1>11, <1>12, <1>13, ZenonT(40) DEF ProcInv

\* wakeup() of a channel.
LEMMA WakeupStep ==
  ASSUME ProcInv, NEW ch, Wakeup(ch)
  PROVE  ProcInv'
<1>1. /\ lock = 0 /\ state' \in [Slots -> States]
      /\ \A q \in Slots : state'[q] = state[q] \/ (state[q] = "SLEEPING" /\ state'[q] = "RUNNABLE")
  BY Zenon DEF Wakeup, Wakeup1, ProcInv, TypeOK, States
<1>2. UNCHANGED <<pid, parent, killed, chan, nextpid, lock, curr, scan, pc, resume, child, asked,
                  initExiting>>
  BY Zenon DEF Wakeup, cpu
<1>3. QED
  BY <1>1, <1>2, AwakenStep, ZenonT(40) DEF ProcInv, TypeOK

\* kill() of the process in slot n, or of none.
LEMMA KillStep ==
  ASSUME ProcInv, NEW c \in CPUs, NEW p \in KillArgs, Kill(c, p)
  PROVE  ProcInv'
<1> PICK s \in Slots : s = curr[c]
  BY ProcConstants, Zenon DEF Kill, ProcInv, TypeOK
<1> DEFINE found == {t \in Slots : pid[t] = p}
<1>1. /\ lock = 0 /\ pc[s] = "kill" /\ pc' = [pc EXCEPT ![s] = "user"] /\ asked' = asked \cup {p}
      /\ UNCHANGED <<pid, parent, chan, nextpid, lock, curr, scan, resume, child, initExiting>>
  BY Zenon DEF Kill, Done, cpu
<1>2. /\ pc' \in [Slots -> PC] /\ asked' \subseteq Nat
      /\ \A q \in Slots : pc'[q] = pc[q] \/ (pc[q] = "kill" /\ pc'[q] = "user")
  BY <1>1, ProcConstants, Zenon DEF ProcInv, TypeOK, PC
<1>3. /\ state' \in [Slots -> States] /\ killed' \in [Slots -> BOOLEAN]
      /\ \A q \in Slots : state'[q] = state[q] \/ (state[q] = "SLEEPING" /\ state'[q] = "RUNNABLE")
      /\ \A q \in Slots : killed'[q] => killed[q] \/ state'[q] # "SLEEPING"
  <2>1. CASE UNCHANGED <<state, killed>>
    BY <2>1, Zenon DEF ProcInv, TypeOK
  <2>2. CASE found # {} /\ killed' = [killed EXCEPT ![First(found)] = TRUE] /\ state' = KillWakes(First(found))
    <3>1. found \subseteq Nat /\ found \subseteq Slots
      BY ProcConstants DEF Slots
    <3> HIDE DEF found
    <3>2. PICK n \in Slots : n = First(found)
      BY <2>2, <3>1, FirstIn, ZenonT(40)
    <3>3. /\ killed' = [killed EXCEPT ![n] = TRUE]
          /\ state' = [state EXCEPT ![n] = IF @ = "SLEEPING" THEN "RUNNABLE" ELSE @]
      BY <2>2, <3>2, Zenon DEF KillWakes
    <3>4. QED
      BY <3>3, ZenonT(40) DEF ProcInv, TypeOK, States
  <2>3. QED
    BY <2>1, <2>2, Zenon DEF Kill
<1>4. QED
  BY <1>1, <1>2, <1>3, AwakenStep, ZenonT(40)

\* sleep() on a channel that is not a process.
LEMMA SleepStep ==
  ASSUME ProcInv, NEW c \in CPUs, NEW ch \in Chans, Sleep(c, ch)
  PROVE  ProcInv'
<1>0. initproc \in Slots /\ Slots \subseteq Nat \ {0} /\ 0 \notin CPUs
  BY ProcConstants DEF Slots, initproc
<1> PICK s \in Slots : s = curr[c]
  BY <1>0, Zenon DEF Sleep, ProcInv, TypeOK
<1>1. /\ s = curr[c] /\ lock = 0 /\ state[s] = "RUNNING" /\ resume[s] = "none" /\ lock' = c
      /\ chan' = [chan EXCEPT ![s] = ch] /\ pc[s] = "block" /\ pc' = [pc EXCEPT ![s] = "user"]
      /\ resume' = [resume EXCEPT ![s] = "sleep"] /\ state' = [state EXCEPT ![s] = "SLEEPING"]
      /\ UNCHANGED <<pid, parent, killed, nextpid, curr, scan, child, asked, initExiting>>
  BY Zenon DEF Sleep, Running, Sched, SchedLock, Done
<1>2. TypeOK'
  BY <1>1, <1>0, Zenon DEF ProcInv, TypeOK, States, PC
<1>3. InitLives'
  BY <1>1, <1>0, ZenonT(40) DEF ProcInv, TypeOK, InitLives, Alive
<1>4. StackSafe'
  BY SMTT(30), <1>1, <1>0 DEF ProcInv, TypeOK, StackSafe
<1>5. LockHandedOver'
  BY SMTT(30), <1>1, <1>0 DEF ProcInv, TypeOK, LockHandedOver, StackSafe
<1>6. Resumable'
  BY <1>1, <1>0, ZenonT(40) DEF ProcInv, TypeOK, Resumable
<1>7. Forking'
  BY SMTT(30), <1>1, <1>0 DEF ProcInv, TypeOK, Forking
<1>8. Family'
  BY SMTT(30), <1>1, <1>0 DEF ProcInv, TypeOK, Family, Alive
<1>9. PidsFresh'
  BY <1>1, <1>0, ZenonT(40) DEF ProcInv, TypeOK, PidsFresh, UniquePids
<1>10. Waiters'
  BY SMTT(30), <1>1, <1>0 DEF ProcInv, TypeOK, Waiters
<1>11. QED
  BY <1>2, <1>3, <1>4, <1>5, <1>6, <1>7, <1>8, <1>9, <1>10, ZenonT(40) DEF ProcInv

\* wait() frees the zombie child z.
LEMMA ReapStep ==
  ASSUME ProcInv, NEW c \in CPUs, NEW s \in Slots, NEW z \in Slots, s = curr[c],
         state[s] = "RUNNING", pc[s] = "wait",
         (lock = 0 /\ resume[s] = "none") \/ (lock = c /\ resume[s] = "wait"),
         parent[z] = s, state[z] = "ZOMBIE",
         state' = [state EXCEPT ![z] = "UNUSED"], pid' = [pid EXCEPT ![z] = 0],
         parent' = [parent EXCEPT ![z] = 0], killed' = [killed EXCEPT ![z] = FALSE],
         chan' = [chan EXCEPT ![s] = 0], resume' = [resume EXCEPT ![s] = "none"], lock' = 0,
         pc' = [pc EXCEPT ![s] = "user"],
         UNCHANGED <<nextpid, curr, scan, child, asked, initExiting>>
  PROVE  ProcInv'
<1>0. initproc \in Slots /\ Slots \subseteq Nat \ {0} /\ 0 \notin CPUs
  BY ProcConstants DEF Slots, initproc
<1>1. z # s /\ z # initproc /\ resume[z] = "none"
  BY <1>0, Zenon DEF ProcInv, InitLives, Alive, Resumable
<1>2. \A d \in CPUs : curr[d] # z
  <2> SUFFICES ASSUME NEW d \in CPUs, curr[d] = z PROVE FALSE
    BY Zenon
  <2>1. state[z] = "RUNNING" \/ lock = d
    BY <1>0, Zenon DEF ProcInv, StackSafe
  <2>2. lock # d
    BY <1>0, <1>1, ZenonT(40)
  <2>3. QED
    BY <2>1, <2>2, Zenon
<1>3. \A t \in Slots : parent[t] # z /\ child[t] # z
  BY SMTT(30), <1>0 DEF ProcInv, TypeOK, Family, Forking, Alive
<1>4. child[s] = 0 /\ child[z] = 0
  BY <1>0, Zenon DEF ProcInv, TypeOK, Forking
<1>5. TypeOK'
  BY <1>1, <1>2, <1>3, <1>4, <1>0, ZenonT(40) DEF ProcInv, TypeOK, States, PC
<1>6. InitLives'
  BY <1>1, <1>2, <1>3, <1>4, <1>0, ZenonT(40) DEF ProcInv, TypeOK, InitLives, Alive
<1>7. StackSafe'
  BY SMTT(30), <1>1, <1>2, <1>3, <1>4, <1>0 DEF ProcInv, TypeOK, StackSafe
<1>8. LockHandedOver'
  <2> SUFFICES ASSUME NEW d \in CPUs, curr[d] # 0, state'[curr[d]] = "RUNNING"
               PROVE  lock' = d <=> resume'[curr[d]] # "none"
    BY Zenon DEF LockHandedOver
  <2>1. /\ curr[d] \in Slots /\ curr[d] # z /\ state[curr[d]] = "RUNNING"
        /\ resume'[curr[d]] = IF curr[d] = s THEN "none" ELSE resume[curr[d]]
    BY <1>2, Zenon DEF ProcInv, TypeOK
  <2>2. lock = d <=> resume[curr[d]] # "none"
    BY <2>1, Zenon DEF ProcInv, LockHandedOver
  <2>3. curr[d] # s => lock # d
    BY <1>0, Zenon
  <2>4. QED
    BY <1>0, <2>1, <2>2, <2>3, ZenonT(40)
<1>9. Resumable'
  BY <1>1, <1>2, <1>3, <1>4, <1>0, ZenonT(40) DEF ProcInv, TypeOK, Resumable
<1>10. Forking'
  BY SMTT(30), <1>1, <1>2, <1>3, <1>4, <1>0 DEF ProcInv, TypeOK, Forking
<1>11. Family'
  BY SMTT(30), <1>1, <1>2, <1>3, <1>4, <1>0 DEF ProcInv, TypeOK, Family, Alive
<1>12. PidsFresh'
  BY SMTT(30), <1>1, <1>2, <1>3, <1>4, <1>0 DEF ProcInv, TypeOK, PidsFresh, UniquePids
<1>13. Waiters'
  BY SMTT(30), <1>1, <1>2, <1>3, <1>4, <1>0 DEF ProcInv, TypeOK, Waiters
<1>14. QED
  BY <1>5, <1>6, <1>7, <1>8, <1>9, <1>10, <1>11, <1>12, <1>13, ZenonT(40) DEF ProcInv

\* wait() gives up.
LEMMA WaitFailStep ==
  ASSUME ProcInv, NEW c \in CPUs, NEW s \in Slots, s = curr[c], state[s] = "RUNNING",
         pc[s] = "wait",
         (lock = 0 /\ resume[s] = "none") \/ (lock = c /\ resume[s] = "wait"),
         chan' = [chan EXCEPT ![s] = 0], resume' = [resume EXCEPT ![s] = "none"], lock' = 0,
         pc' = [pc EXCEPT ![s] = "user"],
         UNCHANGED <<state, pid, parent, killed, nextpid, curr, scan, child, asked, initExiting>>
  PROVE  ProcInv'
<1>0. initproc \in Slots /\ Slots \subseteq Nat \ {0} /\ 0 \notin CPUs
  BY ProcConstants DEF Slots, initproc
<1>1. child[s] = 0
  BY <1>0, Zenon DEF ProcInv, TypeOK, Forking
<1>2. TypeOK'
  BY <1>1, <1>0, Zenon DEF ProcInv, TypeOK, States, PC
<1>3. InitLives'
  BY <1>1, <1>0, ZenonT(40) DEF ProcInv, TypeOK, InitLives, Alive
<1>4. StackSafe'
  BY SMTT(30), <1>1, <1>0 DEF ProcInv, TypeOK, StackSafe
<1>5. LockHandedOver'
  BY <1>1, <1>0, ZenonT(40) DEF ProcInv, TypeOK, LockHandedOver, StackSafe
<1>6. Resumable'
  BY <1>1, <1>0, ZenonT(40) DEF ProcInv, TypeOK, Resumable
<1>7. Forking'
  BY SMTT(30), <1>1, <1>0 DEF ProcInv, TypeOK, Forking
<1>8. Family'
  BY SMTT(30), <1>1, <1>0 DEF ProcInv, TypeOK, Family, Alive
<1>9. PidsFresh'
  BY <1>1, <1>0, ZenonT(40) DEF ProcInv, TypeOK, PidsFresh, UniquePids
<1>10. Waiters'
  BY SMTT(30), <1>1, <1>0 DEF ProcInv, TypeOK, Waiters
<1>11. QED
  BY <1>2, <1>3, <1>4, <1>5, <1>6, <1>7, <1>8, <1>9, <1>10, ZenonT(40) DEF ProcInv

\* wait() goes to sleep, having children that all live.
LEMMA WaitSleepStep ==
  ASSUME ProcInv, NEW c \in CPUs, NEW s \in Slots, s = curr[c], state[s] = "RUNNING",
         pc[s] = "wait",
         (lock = 0 /\ resume[s] = "none") \/ (lock = c /\ resume[s] = "wait"),
         \E t \in Slots : parent[t] = s, \A t \in Slots : parent[t] = s => state[t] # "ZOMBIE", ~killed[s],
         chan' = [chan EXCEPT ![s] = s], resume' = [resume EXCEPT ![s] = "wait"], lock' = c,
         state' = [state EXCEPT ![s] = "SLEEPING"],
         UNCHANGED <<pid, parent, killed, nextpid, pc, curr, scan, child, asked, initExiting>>
  PROVE  ProcInv'
<1>0. initproc \in Slots /\ Slots \subseteq Nat \ {0} /\ 0 \notin CPUs
  BY ProcConstants DEF Slots, initproc
<1>1. child[s] = 0
  BY <1>0, Zenon DEF ProcInv, TypeOK, Forking
<1>2. TypeOK'
  BY <1>1, <1>0, ZenonT(40) DEF ProcInv, TypeOK, States, PC
<1>3. InitLives'
  BY <1>1, <1>0, ZenonT(40) DEF ProcInv, TypeOK, InitLives, Alive
<1>4. StackSafe'
  BY SMTT(30), <1>1, <1>0 DEF ProcInv, TypeOK, StackSafe
<1>5. LockHandedOver'
  BY SMTT(30), <1>1, <1>0 DEF ProcInv, TypeOK, LockHandedOver, StackSafe
<1>6. Resumable'
  BY SMTT(30), <1>1, <1>0 DEF ProcInv, TypeOK, Resumable
<1>7. Forking'
  BY SMTT(30), <1>1, <1>0 DEF ProcInv, TypeOK, Forking
<1>8. Family'
  BY SMTT(30), <1>1, <1>0 DEF ProcInv, TypeOK, Family, Alive
<1>9. PidsFresh'
  BY <1>1, <1>0, ZenonT(40) DEF ProcInv, TypeOK, PidsFresh, UniquePids
<1>10. Waiters'
  BY SMTT(30), <1>1, <1>0 DEF ProcInv, TypeOK, Waiters
<1>11. QED
  BY <1>2, <1>3, <1>4, <1>5, <1>6, <1>7, <1>8, <1>9, <1>10, ZenonT(40) DEF ProcInv

\* A round of wait().
LEMMA WaitStep ==
  ASSUME ProcInv, NEW c \in CPUs, Wait(c)
  PROVE  ProcInv'
<1> PICK s \in Slots : s = curr[c]
  BY ProcConstants, ZenonT(40) DEF Wait, ProcInv, TypeOK
<1>1. /\ state[s] = "RUNNING" /\ pc[s] = "wait"
      /\ (lock = 0 /\ resume[s] = "none") \/ (lock = c /\ resume[s] = "wait")
      /\ UNCHANGED <<nextpid, curr, scan, child, asked, initExiting>>
  BY Zenon DEF Wait, Running
<1>2. CASE /\ Zombies(s) # {}
           /\ state' = [state EXCEPT ![First(Zombies(s))] = "UNUSED"]
           /\ pid' = [pid EXCEPT ![First(Zombies(s))] = 0]
           /\ parent' = [parent EXCEPT ![First(Zombies(s))] = 0]
           /\ killed' = [killed EXCEPT ![First(Zombies(s))] = FALSE]
           /\ chan' = [chan EXCEPT ![s] = 0] /\ resume' = [resume EXCEPT ![s] = "none"]
           /\ lock' = 0 /\ pc' = [pc EXCEPT ![s] = "user"]
  <2>1. /\ Zombies(s) \subseteq Nat /\ Zombies(s) \subseteq Slots
        /\ \A z \in Zombies(s) : parent[z] = s /\ state[z] = "ZOMBIE"
    BY SMTT(30), ProcConstants DEF Slots, Zombies, Children
  <2>2. PICK z \in Slots : z = First(Zombies(s)) /\ parent[z] = s /\ state[z] = "ZOMBIE"
    BY <1>2, <2>1, FirstIn, ZenonT(40)
  <2>3. QED
    BY <1>1, <1>2, <2>2, ReapStep, ZenonT(40)
<1>3. CASE /\ chan' = [chan EXCEPT ![s] = 0] /\ resume' = [resume EXCEPT ![s] = "none"]
           /\ lock' = 0 /\ pc' = [pc EXCEPT ![s] = "user"] /\ UNCHANGED <<state, pid, parent,
                                                                          killed>>
  BY <1>1, <1>3, WaitFailStep, ZenonT(40)
<1>4. CASE /\ Zombies(s) = {} /\ ~WaitFails(s)
           /\ chan' = [chan EXCEPT ![s] = s] /\ resume' = [resume EXCEPT ![s] = "wait"]
           /\ lock' = c /\ state' = [state EXCEPT ![s] = "SLEEPING"] /\ UNCHANGED <<pid, parent,
                                                                                    killed, pc>>
  <2>1. /\ \E t \in Slots : parent[t] = s
        /\ \A t \in Slots : parent[t] = s => state[t] # "ZOMBIE"
        /\ ~killed[s]
    BY <1>4, ZenonT(40) DEF Zombies, Children, WaitFails
  <2>2. QED
    BY <1>1, <1>4, <2>1, WaitSleepStep, ZenonT(40)
<1>5. QED
  BY <1>2, <1>3, <1>4, ZenonT(40) DEF Wait, Done, Sched, SchedLock

\* What exit() of s does to the states: s is a ZOMBIE, and nobody else changes but sleepers that
\* wake; its parent does, if it waits, and so does init if it inherits a zombie.
Dies(s) ==
  /\ state' \in [Slots -> States] /\ state'[s] = "ZOMBIE"
  /\ \A q \in Slots \ {s} : state'[q] = state[q] \/ (state[q] = "SLEEPING" /\ state'[q] = "RUNNABLE")
  /\ \A q \in Slots : q = parent[s] /\ chan[q] = q => state'[q] # "SLEEPING"
  /\ (\E t \in Slots : parent[t] = s /\ state[t] = "ZOMBIE") /\ chan[initproc] = initproc =>
        state'[initproc] # "SLEEPING"

\* exit() of s: the children are passed to init, sleepers on the parent, or on init, wake.
LEMMA ExitToStep ==
  ASSUME ProcInv, NEW c \in CPUs, NEW s \in Slots, s = curr[c], state[s] = "RUNNING",
         resume[s] = "none",
         lock = 0, pc[s] = "exit", s # initproc,
         Dies(s),
         parent' = [t \in Slots |-> IF parent[t] = s THEN initproc ELSE parent[t]],
         resume' = [resume EXCEPT ![s] = "none"], lock' = c,
         UNCHANGED <<pid, killed, chan, nextpid, curr, scan, pc, child, asked, initExiting>>
  PROVE  ProcInv'
<1>0. initproc \in Slots /\ Slots \subseteq Nat \ {0} /\ 0 \notin CPUs
  BY SMTT(30), ProcConstants DEF Slots, initproc
<1>1. resume' = resume /\ child[s] = 0 /\ state' \in [Slots -> States] /\ state'[s] = "ZOMBIE"
  BY DEF Dies, ProcInv, TypeOK, Forking
<1>2. \A q \in Slots : state[q] # "SLEEPING" /\ q # s => state'[q] = state[q]
  BY Zenon DEF Dies
<1>3. \A q \in Slots \ {s} : /\ state'[q] \in Alive <=> state[q] \in Alive
                             /\ state'[q] = "EMBRYO" <=> state[q] = "EMBRYO"
                             /\ state'[q] = "UNUSED" <=> state[q] = "UNUSED"
                             /\ state'[q] = "ZOMBIE" <=> state[q] = "ZOMBIE"
                             /\ state'[q] = "SLEEPING" => state[q] = "SLEEPING"
  <2> TAKE q \in Slots \ {s}
  <2>1. CASE state'[q] = state[q]
    BY <2>1, ZenonT(40)
  <2>2. CASE state[q] = "SLEEPING" /\ state'[q] = "RUNNABLE"
    BY <2>2, ZenonT(40) DEF Alive
  <2>3. QED
    BY <2>1, <2>2, ZenonT(40) DEF Dies
<1>4. \A t \in Slots : parent'[t] = IF parent[t] = s THEN initproc ELSE parent[t]
  BY Zenon
<1>5. \A d \in CPUs \ {c} : curr[d] # 0 =>
        curr[d] \in Slots \ {s} /\ state[curr[d]] = "RUNNING" /\ state'[curr[d]] = "RUNNING"
  <2> SUFFICES ASSUME NEW d \in CPUs \ {c}, curr[d] # 0
               PROVE  curr[d] \in Slots \ {s} /\ state[curr[d]] = "RUNNING" /\ state'[curr[d]] = "RUNNING"
    BY Zenon
  <2>1. curr[d] \in Slots \ {s} /\ state[curr[d]] = "RUNNING"
    BY <1>0, ZenonT(40) DEF ProcInv, TypeOK, StackSafe
  <2>2. QED
    BY <1>2, <2>1, ZenonT(40)
<1>6. TypeOK'
  <2>1. TypeOK
    BY Zenon DEF ProcInv
  <2>2. parent' \in [Slots -> {0} \cup Slots]
    BY <1>0, <2>1, ZenonT(40) DEF TypeOK
  <2>3. lock' \in {0} \cup CPUs
    BY Zenon
  <2>4. QED
    BY SMTT(30), <1>1, <2>1, <2>2, <2>3 DEF TypeOK
<1>7. InitLives'
  BY <1>1, <1>2, <1>3, <1>4, <1>5, <1>0, ZenonT(40) DEF ProcInv, TypeOK, InitLives, Alive
<1>8. StackSafe'
  <2>1. ASSUME NEW d \in CPUs, curr'[d] # 0
        PROVE  /\ state'[curr'[d]] = "RUNNING" \/ lock' = d
               /\ state'[curr'[d]] \notin {"UNUSED", "EMBRYO"}
               /\ \A e \in CPUs : curr'[e] = curr'[d] => e = d
    <3>1. CASE d = c
      BY <1>1, <1>5, <2>1, <3>1, ZenonT(40)
    <3>2. CASE d # c
      BY <1>5, <2>1, <3>2, ZenonT(40) DEF ProcInv, StackSafe
    <3>3. QED
      BY <3>1, <3>2, ZenonT(40)
  <2>2. ASSUME NEW q \in Slots, state'[q] = "RUNNING" PROVE \E d \in CPUs : curr'[d] = q
    <3>1. state[q] = "RUNNING"
      BY <1>1, <2>2, ZenonT(40) DEF Dies
    <3>2. QED
      BY <3>1, Zenon DEF ProcInv, StackSafe
  <2>3. QED
    BY <2>1, <2>2, ZenonT(40) DEF StackSafe
<1>9. LockHandedOver'
  BY SMTT(30), <1>1, <1>2, <1>3, <1>4, <1>5, <1>0 DEF ProcInv, TypeOK, LockHandedOver, StackSafe
<1>10. Resumable'
  BY SMTT(30), <1>1, <1>2, <1>3, <1>4, <1>5, <1>0 DEF ProcInv, TypeOK, Resumable
<1>11. Forking'
  <2>1. ASSUME NEW q \in Slots, child'[q] # 0
        PROVE  state'[q] \in {"RUNNING", "RUNNABLE"} /\ state'[child'[q]] = "EMBRYO"
    <3>1. /\ q # s /\ child[q] \in Slots /\ child[q] # s /\ state[child[q]] = "EMBRYO"
          /\ state[q] \in {"RUNNING", "RUNNABLE"}
      BY <1>1, <2>1, ZenonT(40) DEF ProcInv, TypeOK, Forking
    <3>2. QED
      BY <1>2, <3>1, ZenonT(40)
  <2>2. QED
    BY SMTT(30), <2>1 DEF ProcInv, Forking
<1>12. Family'
  <2>0. parent[initproc] = 0 /\ state[initproc] \in Alive /\ parent[s] # s /\ s # 0
    BY <1>0, ZenonT(40) DEF ProcInv, InitLives, Family
  <2>1. ASSUME NEW t \in Slots, parent'[t] # 0
        PROVE  /\ state'[t] # "UNUSED" /\ parent'[t] # t /\ state'[parent'[t]] \in Alive
               /\ state'[t] = "EMBRYO" => child'[parent'[t]] = t /\ pc'[parent'[t]] = "fork_run"
    <3>1. /\ parent[t] # 0 /\ parent[t] \in Slots /\ state[t] # "UNUSED" /\ parent[t] # t
          /\ state[parent[t]] \in Alive
          /\ state[t] = "EMBRYO" => child[parent[t]] = t /\ pc[parent[t]] = "fork_run"
      BY SMTT(30), <1>0, <1>4, <2>0, <2>1 DEF ProcInv, TypeOK, Family
    <3>2. state'[t] # "UNUSED" /\ (state'[t] = "EMBRYO" => state[t] = "EMBRYO")
      BY <1>1, <1>3, <3>1, ZenonT(40)
    <3>3. CASE parent[t] = s
      BY <1>0, <1>1, <1>3, <1>4, <2>0, <3>1, <3>2, <3>3, ZenonT(40)
    <3>4. CASE parent[t] # s
      BY <1>3, <1>4, <3>1, <3>2, <3>4, ZenonT(40)
    <3>5. QED
      BY <3>3, <3>4, ZenonT(40)
  <2>2. ASSUME NEW q \in Slots, pc'[q] = "fork_run" PROVE parent'[child'[q]] = q
    <3>1. child[q] \in Slots /\ parent[child[q]] = q /\ q # s
      BY <2>2, ZenonT(40) DEF ProcInv, TypeOK, Family, Forking
    <3>2. QED
      BY <1>4, <3>1, ZenonT(40)
  <2>3. ASSUME NEW q \in Slots \ {initproc}, state'[q] \notin {"UNUSED", "EMBRYO"} PROVE parent'[q] # 0
    BY <1>0, <1>3, <1>4, <2>3, Zenon DEF ProcInv, Family
  <2>4. QED
    BY <2>1, <2>2, <2>3, ZenonT(40) DEF Family
<1>13. PidsFresh'
  BY SMTT(30), <1>1, <1>2, <1>3, <1>4, <1>5, <1>0 DEF ProcInv, TypeOK, PidsFresh, UniquePids
<1>14. Waiters'
  <2>1. ASSUME NEW q \in Slots, state'[q] = "SLEEPING", resume'[q] = "wait"
        PROVE  /\ chan'[q] = q /\ \E t \in Slots : parent'[t] = q
               /\ \A t \in Slots : parent'[t] = q => state'[t] # "ZOMBIE"
               /\ ~killed'[q]
    <3>1. q # s /\ state[q] = "SLEEPING" /\ resume[q] = "wait"
      BY <1>1, <1>3, <2>1, ZenonT(40)
    <3>2. /\ chan[q] = q /\ ~killed[q] /\ \E t \in Slots : parent[t] = q
          /\ \A t \in Slots : parent[t] = q => state[t] # "ZOMBIE"
      BY <3>1, ZenonT(40) DEF ProcInv, Waiters
    <3>3. \E t \in Slots : parent'[t] = q
      BY <1>4, <3>1, <3>2, ZenonT(40)
    <3>4. ASSUME NEW t \in Slots, parent'[t] = q, state'[t] = "ZOMBIE" PROVE FALSE
      <4>1. CASE parent[t] = s
        <5>1. t # s /\ q = initproc
          BY SMTT(30), <1>0, <1>4, <3>4, <4>1 DEF ProcInv, Family
        <5>2. state[t] = "ZOMBIE"
          BY <1>3, <3>4, <5>1, ZenonT(40)
        <5>3. QED
          BY <2>1, <3>2, <4>1, <5>1, <5>2, ZenonT(40) DEF Dies
      <4>2. CASE parent[t] # s
        BY <1>3, <1>4, <2>1, <3>2, <3>4, <4>2, ZenonT(40) DEF Dies
      <4>3. QED
        BY <4>1, <4>2, ZenonT(40)
    <3>5. QED
      BY <3>2, <3>3, <3>4, ZenonT(40)
  <2>2. QED
    BY <2>1, ZenonT(40) DEF Waiters
<1>15. QED
  BY <1>6, <1>7, <1>8, <1>9, <1>10, <1>11, <1>12, <1>13, <1>14, ZenonT(40) DEF ProcInv

\* exit().
LEMMA ExitStep ==
  ASSUME ProcInv, NEW c \in CPUs, Exit(c)
  PROVE  ProcInv'
<1> PICK s \in Slots : s = curr[c]
  BY ProcConstants, ZenonT(40) DEF Exit, ProcInv, TypeOK
<1>1. /\ state[s] = "RUNNING" /\ resume[s] = "none" /\ lock = 0 /\ pc[s] = "exit"
      /\ UNCHANGED <<pid, killed, chan, nextpid, curr, scan, pc, child, asked>>
  BY Zenon DEF Exit, Running
<1>2. CASE initExiting' = TRUE /\ UNCHANGED <<state, parent, resume, lock>>
  BY <1>1, <1>2, ProcFrame, ZenonT(40)
<1>3. CASE /\ s # initproc
           /\ parent' = [t \in Slots |-> IF t \in Abandoned(s) THEN initproc ELSE parent[t]]
           /\ state' = [ExitWakes(s) EXCEPT ![s] = "ZOMBIE"]
           /\ resume' = [resume EXCEPT ![s] = "none"] /\ lock' = c
           /\ UNCHANGED initExiting
  <2>0. initproc \in Slots
    BY SMTT(30), ProcConstants DEF Slots, initproc
  <2>1. parent' = [t \in Slots |-> IF parent[t] = s THEN initproc ELSE parent[t]]
    BY <1>3, ZenonT(40) DEF Abandoned
  <2>2. /\ ExitWakes(s) \in [Slots -> States]
        /\ \A q \in Slots : ExitWakes(s)[q] = state[q] \/ (state[q] = "SLEEPING" /\ ExitWakes(s)[q] = "RUNNABLE")
        /\ \A q \in Slots : q = parent[s] /\ chan[q] = q => ExitWakes(s)[q] # "SLEEPING"
        /\ (\E t \in Slots : parent[t] = s /\ state[t] = "ZOMBIE") /\ chan[initproc] = initproc =>
              ExitWakes(s)[initproc] # "SLEEPING"
    BY <2>0, ZenonT(40) DEF ExitWakes, Wakeup1, Abandoned, ProcInv, TypeOK, States
  <2> DEFINE w == ExitWakes(s)
  <2>3. state' = [w EXCEPT ![s] = "ZOMBIE"]
    BY <1>3, ZenonT(40)
  <2> HIDE DEF w
  <2>4. /\ state' \in [Slots -> States] /\ state'[s] = "ZOMBIE"
        /\ \A q \in Slots \ {s} : state'[q] = w[q]
    BY <2>2, <2>3, ZenonT(40) DEF w, States
  <2>5. Dies(s)
    <3>1. /\ \A q \in Slots : w[q] = state[q] \/ (state[q] = "SLEEPING" /\ w[q] = "RUNNABLE")
          /\ \A q \in Slots : q = parent[s] /\ chan[q] = q => w[q] # "SLEEPING"
          /\ (\E t \in Slots : parent[t] = s /\ state[t] = "ZOMBIE") /\ chan[initproc] = initproc =>
                w[initproc] # "SLEEPING"
      BY <2>2, ZenonT(40) DEF w
    <3>2. \A q \in Slots : state'[q] = IF q = s THEN "ZOMBIE" ELSE w[q]
      BY <2>4, ZenonT(40)
    <3>3. QED
      <4>1. \A q \in Slots \ {s} : state'[q] = state[q] \/ (state[q] = "SLEEPING" /\ state'[q] = "RUNNABLE")
        BY <3>1, <3>2, ZenonT(40)
      <4>2. \A q \in Slots : q = parent[s] /\ chan[q] = q => state'[q] # "SLEEPING"
        BY ZenonT(40), <3>1, <3>2
      <4>3. (\E t \in Slots : parent[t] = s /\ state[t] = "ZOMBIE") /\ chan[initproc] = initproc =>
              state'[initproc] # "SLEEPING"
        BY <2>0, <3>1, <3>2, <1>3, ZenonT(40)
      <4>4. QED
        BY <2>4, <4>1, <4>2, <4>3, ZenonT(40) DEF Dies
  <2>6. UNCHANGED <<pid, killed, chan, nextpid, curr, scan, pc, child, asked, initExiting>>
    BY <1>1, <1>3, ZenonT(40)
  <2>7. QED
    BY <1>1, <1>3, <2>1, <2>5, <2>6, ExitToStep, ZenonT(40)
<1>4. QED
  BY <1>2, <1>3, ZenonT(40) DEF Exit, Sched, SchedLock

-----------------------------------------------------------------------------
\* userinit() leaves a sound table, and every step keeps it.
LEMMA ProcInvInit == Init => ProcInv
<1> SUFFICES ASSUME Init PROVE ProcInv
  BY Zenon
<1>0. initproc \in Slots /\ Slots \subseteq Nat \ {0} /\ 0 \notin CPUs /\ initproc = 1
  BY SMTT(30), ProcConstants DEF Slots, initproc
<1>1. TypeOK
  BY <1>0, ZenonT(40) DEF Init, TypeOK, States, PC
<1>2. InitLives /\ StackSafe /\ LockHandedOver /\ Resumable
  BY <1>0, Zenon DEF Init, InitLives, Alive, StackSafe, LockHandedOver, Resumable
<1>3. Forking /\ Family
  BY <1>0, ZenonT(40) DEF Init, Forking, Family
<1>4. PidsFresh
  BY SMTT(30), <1>0 DEF Init, PidsFresh, UniquePids
<1>5. Waiters
  BY <1>0, ZenonT(40) DEF Init, Waiters
<1>6. QED
  BY <1>1, <1>2, <1>3, <1>4, <1>5, ZenonT(40) DEF ProcInv

\* No step of any CPU, process or interrupt handler breaks the invariant.
LEMMA ProcInvStep == ProcInv /\ [Next]_vars => ProcInv'
<1> SUFFICES ASSUME ProcInv, [Next]_vars PROVE ProcInv'
  BY Zenon
<1>1. CASE UNCHANGED vars
  <2>1. initExiting' \in BOOLEAN
    BY <1>1, Zenon DEF vars, ProcInv, TypeOK
  <2>2. QED
    BY <1>1, <2>1, ProcFrame, ZenonT(40) DEF vars
<1>2. ASSUME NEW c \in CPUs, Dispatch(c) \/ SwitchBack(c) \/ Return(c) \/ Yield(c) \/ Syscall(c)
      PROVE  ProcInv'
  BY <1>2, DispatchStep, SwitchBackStep, ReturnStep, YieldStep, SyscallStep, ZenonT(40)
<1>3. ASSUME NEW c \in CPUs, KernelStep(c) PROVE ProcInv'
  BY <1>3, AllocProcStep, ForkFailStep, ForkCopyStep, ForkRunStep, ExitStep, WaitStep, KillStep, SleepStep, ZenonT(40)
     DEF KernelStep
<1>4. ASSUME NEW ch \in Chans, Wakeup(ch) PROVE ProcInv'
  BY <1>4, WakeupStep, ZenonT(40)
<1>5. QED
  BY <1>1, <1>2, <1>3, <1>4, ZenonT(40) DEF Next, Halt

\* The inductive invariant holds of every behaviour.
LEMMA ProcInvHolds == Spec => []ProcInv
<1>1. QED
  BY ProcInvInit, ProcInvStep, PTL DEF Spec
-----------------------------------------------------------------------------
(* The theorems.                                                           *)

\* A kernel stack is used by one CPU at a time, and ptable.lock, passed through swtch(),
\* loses no RUNNING process (scheduler(), sched(), proc.c).
THEOREM KernelStacksSafe == Spec => []StackSafe
<1>1. ProcInv => StackSafe
  BY ZenonT(40) DEF ProcInv
<1>2. QED
  BY <1>1, ProcInvHolds, PTL

\* The table is sound, whatever fork(), exit(), wait() and kill() do at once: every
\* process has a live parent, pids are unique, and who is RUNNABLE can go on.
THEOREM TableAlwaysSound == Spec => []TableSound
<1>1. ProcInv => TableSound
  <2> SUFFICES ASSUME ProcInv PROVE TableSound
    BY Zenon
  <2>1. ParentAlive
    BY Zenon DEF ProcInv, TypeOK, Family, Alive, ParentAlive
  <2>2. UniquePids /\ CanGoOn
    BY ZenonT(40) DEF ProcInv, PidsFresh, Resumable, CanGoOn
  <2>3. QED
    BY <2>1, <2>2, ZenonT(40) DEF ProcInv, TableSound
<1>2. QED
  BY <1>1, ProcInvHolds, PTL

\* No wakeup of wait() is lost, although exit() passes children, living and dead, from one
\* process to another while both may be going to sleep.
THEOREM WaitersHaveCause == Spec => []WaitNotLost
<1>1. ProcInv => WaitNotLost
  BY ZenonT(40) DEF ProcInv, Waiters, WaitNotLost, Children, Zombies
<1>2. QED
  BY <1>1, ProcInvHolds, PTL
=============================================================================
