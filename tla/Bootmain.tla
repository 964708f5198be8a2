------------------------------- MODULE Bootmain -------------------------------
(***************************************************************************)
(* bootmain.c: the kernel's ELF segments, copied from the disk by whole    *)
(* sectors.  Byte o of the kernel file has the value o + 1; the file       *)
(* begins at sector 1.                                                     *)
(***************************************************************************)
EXTENDS Integers, Sequences

CONSTANTS SECTSIZE, MEMSIZE,
          Kernels       \* sequences of program headers [paddr, off, filesz, memsz], or <<>> if not ELF

\* The segments of a kernel fit in memory and are loaded in increasing order: one that has any
\* byte to write does not begin, rounded down to a sector, before the end of an earlier one.
Segments == [paddr : Nat, off : Nat, filesz : Nat, memsz : Nat]
Increasing(k) ==
  /\ \A i \in 1 .. Len(k) : k[i].filesz <= k[i].memsz /\ k[i].paddr + k[i].memsz <= MEMSIZE
  /\ \A i, j \in 1 .. Len(k) :
       i < j /\ k[j].memsz + (k[j].off % SECTSIZE) > 0 =>
         k[i].paddr + k[i].memsz <= k[j].paddr - (k[j].off % SECTSIZE)
ASSUME BmConstants == /\ SECTSIZE \in Nat \ {0} /\ MEMSIZE \in Nat
                      /\ \A k \in Kernels : k \in Seq(Segments) /\ Increasing(k)

VARIABLES ram, phs, ph, bmpc, pa, sect
bmVars == <<ram, phs, ph, bmpc, pa, sect>>

BmInit == /\ ram = [a \in 0 .. MEMSIZE - 1 |-> -1] /\ phs = <<>> /\ ph = 1
          /\ bmpc = "header" /\ pa = 0 /\ sect = 0

\* bootmain(): the first page of the file; without the magic number it returns.
Header == /\ bmpc = "header"
          /\ phs' \in Kernels
          /\ bmpc' = IF phs' = <<>> THEN "return" ELSE "segment"
          /\ UNCHANGED <<ram, ph, pa, sect>>
\* readseg(): rounded down to a sector boundary
Mut_FirstSector(off) == off \div SECTSIZE
FirstSector(off) == off \div SECTSIZE + 1
Segment == /\ bmpc = "segment" /\ ph <= Len(phs)
           /\ pa' = phs[ph].paddr - (phs[ph].off % SECTSIZE) /\ sect' = FirstSector(phs[ph].off)
           /\ bmpc' = "read" /\ UNCHANGED <<ram, phs, ph>>
\* readsect()
ReadSect == /\ bmpc = "read" /\ pa < phs[ph].paddr + phs[ph].filesz
            /\ ram' = [a \in DOMAIN ram |-> IF a \in pa .. pa + SECTSIZE - 1
                                            THEN (sect - 1) * SECTSIZE + (a - pa) + 1 ELSE ram[a]]
            /\ pa' = pa + SECTSIZE /\ sect' = sect + 1
            /\ UNCHANGED <<phs, ph, bmpc>>
\* bootmain(): stosb() behind the part from the file
Bss(p) == p.paddr + p.filesz .. p.paddr + p.memsz - 1
ZeroBss == /\ bmpc = "read" /\ pa >= phs[ph].paddr + phs[ph].filesz
           /\ ram' = [a \in DOMAIN ram |-> IF a \in Bss(phs[ph]) THEN 0 ELSE ram[a]]
           /\ ph' = ph + 1 /\ bmpc' = "segment" /\ UNCHANGED <<phs, pa, sect>>
Entry == /\ bmpc = "segment" /\ ph > Len(phs) /\ bmpc' = "entry"
         /\ UNCHANGED <<ram, phs, ph, pa, sect>>

BmNext == Header \/ Segment \/ ReadSect \/ ZeroBss \/ Entry
BmSpec == BmInit /\ [][BmNext]_bmVars
-----------------------------------------------------------------------------
\* When the kernel is entered every segment is in memory as its header says, though each was
\* read with more bytes than asked before and behind it.
KernelLoaded == bmpc = "entry" =>
  \A i \in 1 .. Len(phs) : \A k \in 0 .. phs[i].memsz - 1 :
    ram[phs[i].paddr + k] = IF k < phs[i].filesz THEN phs[i].off + k + 1 ELSE 0
=============================================================================
