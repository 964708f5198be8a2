------------------------------ MODULE FileData ------------------------------
(***************************************************************************)
(* The contents of files: block allocation, bmap, itrunc, readi and writei *)
(* of fs.c, under fileread() and filewrite() of file.c.                    *)
(*                                                                         *)
(* A write() goes in chunks; a chunk is one transaction under the inode's  *)
(* lock and one action.  Processes may share an open file and its offset.  *)
(* Bytes and block numbers are both numbers, so that a block whose old     *)
(* contents were taken for an indirect block would show.                   *)
(***************************************************************************)
EXTENDS Naturals, Sequences, FiniteSets

CONSTANTS
  BSIZE, NDIRECT, NINDIRECT,
  NBLOCKS,        \* data blocks
  MAXOPBLOCKS,
  UINT32,         \* offsets and sizes are taken modulo 2^32
  OpenFiles,      \* struct file -> inode
  Users,          \* process -> struct file
  ByteOf,         \* process -> the byte that it writes
  WriteSizes, ReadSizes

MAXFILE == NDIRECT + NINDIRECT
DataBlocks == 1 .. NBLOCKS
BBLOCK == 0              \* the bitmap's block
IBLOCK == NBLOCKS + 1    \* the block of the inodes
FdProcs == DOMAIN Users
DataFiles == {OpenFiles[o] : o \in DOMAIN OpenFiles}

VARIABLES
  bitmap,         \* disk: blocks in use
  blk,            \* disk: block -> its contents
  addrs, size,    \* inode -> block numbers (0: none), length in bytes
  foff,           \* struct file -> off
  todoBytes,      \* process -> bytes that filewrite() has still to write
  logged,         \* blocks that the last step gave to log_write()
  lastRead,       \* what the last step, if a fileread(), returned
  fdpanic         \* balloc() found no free block

fdVars == <<bitmap, blk, addrs, size, foff, todoBytes, logged, lastRead, fdpanic>>
Image == [bitmap |-> bitmap, blk |-> blk, addrs |-> addrs, log |-> {}, got |-> 0, panic |-> FALSE]

FdInit ==
  /\ bitmap = {}
  /\ blk = [b \in DataBlocks |-> [i \in 0 .. BSIZE - 1 |-> 0]]
  /\ addrs = [f \in DataFiles |-> [i \in 0 .. NDIRECT |-> 0]]
  /\ size = [f \in DataFiles |-> 0]
  /\ foff = [s \in DOMAIN OpenFiles |-> 0]
  /\ todoBytes = [p \in FdProcs |-> 0]
  /\ logged = {}
  /\ lastRead = <<>>
  /\ fdpanic = FALSE
-----------------------------------------------------------------------------
\* The operators below take the disk and the inodes as a record s and return it
\* changed; `got' is the block number that the function returns.

\* bzero() of a new block.
Zeroed(s, b) == [i \in 0 .. BSIZE - 1 |-> 0]

\* balloc(): the first free block, marked and zeroed.
Balloc(s) ==
  IF DataBlocks \subseteq s.bitmap THEN [s EXCEPT !.panic = TRUE]
  ELSE LET b == CHOOSE b \in DataBlocks \ s.bitmap : \A c \in DataBlocks \ s.bitmap : b <= c
       IN  [s EXCEPT !.bitmap = @ \cup {b}, !.blk[b] = Zeroed(s, b), !.got = b,
                     !.log = @ \cup {BBLOCK, b}]

\* Entry i of the inode, allocated if necessary.
InodeEntry(s, f, i) ==
  IF s.addrs[f][i] # 0 THEN [s EXCEPT !.got = s.addrs[f][i]]
  ELSE LET t == Balloc(s) IN [t EXCEPT !.addrs[f][i] = t.got]

Bmap(s, f, bn) ==
  IF bn < NDIRECT THEN InodeEntry(s, f, bn)
  ELSE LET t == InodeEntry(s, f, NDIRECT)
           a == t.got
           i == bn - NDIRECT
       IN  IF t.panic THEN t
           ELSE IF t.blk[a][i] # 0 THEN [t EXCEPT !.got = t.blk[a][i]]
           ELSE LET u == Balloc(t) IN [u EXCEPT !.blk[a][i] = u.got, !.log = @ \cup {a}]

\* Bytes that one iteration of the loops of readi() and writei() copies.
Span(off, n) == LET room == BSIZE - (off % BSIZE) IN IF n < room THEN n ELSE room

\* The loop of writei(): n bytes b from offset off on.
RECURSIVE WriteLoop(_, _, _, _, _)
WriteLoop(s, f, off, n, b) ==
  IF n = 0 THEN s
  ELSE LET t == Bmap(s, f, off \div BSIZE)
           m == Span(off, n)
           new == [i \in 0 .. BSIZE - 1 |->
                     IF i \in (off % BSIZE) .. (off % BSIZE) + m - 1 THEN b ELSE t.blk[t.got][i]]
       IN  IF t.panic THEN t
           ELSE WriteLoop([t EXCEPT !.blk[t.got] = new, !.log = @ \cup {t.got}], f, off + m, n - m, b)

\* The loop of readi().
RECURSIVE ReadLoop(_, _, _)
ReadLoop(f, off, n) ==
  IF n = 0 THEN <<>>
  ELSE LET t == Bmap(Image, f, off \div BSIZE)
           m == Span(off, n)
       IN  [i \in 1 .. m |-> t.blk[t.got][(off % BSIZE) + i - 1]] \o ReadLoop(f, off + m, n - m)
-----------------------------------------------------------------------------
\* writei() and readi() refuse an offset past the end and a sum that wraps around.
BadRange(f, off, n) == off > size[f] \/ (off + n) % UINT32 < off
TooBig(off, n) == off + n > MAXFILE * BSIZE

\* filewrite(): the largest chunk, in bytes.
Mut_MaxChunk == (MAXOPBLOCKS - 1 - 1) * BSIZE
MaxChunk == ((MAXOPBLOCKS - 1 - 1 - 2) \div 2) * BSIZE

Quiet == logged' = {} /\ lastRead' = <<>>

SysWrite(p, n) ==
  /\ todoBytes[p] = 0
  /\ todoBytes' = [todoBytes EXCEPT ![p] = n]
  /\ Quiet
  /\ UNCHANGED <<bitmap, blk, addrs, size, foff, fdpanic>>

\* ip->size after writei().
Mut_NewSize(f, end) == end
NewSize(f, end) == IF end > size[f] THEN end ELSE size[f]

\* One iteration of filewrite().
WriteChunk(p) ==
  LET o == Users[p]
      f == OpenFiles[o]
      n == IF todoBytes[p] > MaxChunk THEN MaxChunk ELSE todoBytes[p]
      s == WriteLoop(Image, f, foff[o], n, ByteOf[p])
      end == foff[o] + n
  IN  /\ todoBytes[p] > 0
      /\ \/ /\ BadRange(f, foff[o], n) \/ TooBig(foff[o], n)
            /\ todoBytes' = [todoBytes EXCEPT ![p] = 0]
            /\ UNCHANGED <<bitmap, blk, addrs, size, foff, fdpanic>> /\ logged' = {}
         \/ /\ ~BadRange(f, foff[o], n) /\ ~TooBig(foff[o], n) /\ s.panic
            /\ fdpanic' = TRUE
            /\ UNCHANGED <<bitmap, blk, addrs, size, foff, todoBytes>> /\ logged' = {}
         \/ /\ ~BadRange(f, foff[o], n) /\ ~TooBig(foff[o], n) /\ ~s.panic
            /\ bitmap' = s.bitmap /\ blk' = s.blk /\ addrs' = s.addrs
            /\ size' = [size EXCEPT ![f] = NewSize(f, end)]
            /\ logged' = s.log \cup (IF end > size[f] THEN {IBLOCK} ELSE {})
            /\ foff' = [foff EXCEPT ![o] = end]
            /\ todoBytes' = [todoBytes EXCEPT ![p] = @ - n]
            /\ UNCHANGED fdpanic
      /\ lastRead' = <<>>

\* fileread() of n bytes.
SysRead(p, n) ==
  LET o == Users[p]
      f == OpenFiles[o]
      m == IF foff[o] + n > size[f] THEN size[f] - foff[o] ELSE n
  IN  /\ todoBytes[p] = 0
      /\ \/ /\ BadRange(f, foff[o], n)
            /\ UNCHANGED foff /\ lastRead' = <<>>
         \/ /\ ~BadRange(f, foff[o], n)
            /\ lastRead' = ReadLoop(f, foff[o], m)
            /\ foff' = [foff EXCEPT ![o] = @ + m]
      /\ logged' = {}
      /\ UNCHANGED <<bitmap, blk, addrs, size, todoBytes, fdpanic>>

\* The file is opened anew.
Reopen(o) ==
  /\ \A p \in FdProcs : Users[p] = o => todoBytes[p] = 0
  /\ foff' = [foff EXCEPT ![o] = 0]
  /\ Quiet
  /\ UNCHANGED <<bitmap, blk, addrs, size, todoBytes, fdpanic>>

\* itrunc(): the blocks that bfree() is given.
Mut_Blocks(f) == {addrs[f][i] : i \in 0 .. NDIRECT - 1}
Blocks(f) ==
  ({addrs[f][i] : i \in 0 .. NDIRECT}
     \cup (IF addrs[f][NDIRECT] = 0 THEN {}
           ELSE {blk[addrs[f][NDIRECT]][i] : i \in 0 .. NINDIRECT - 1})) \ {0}

\* bfree() of each block of bs.
Bfree(bs) == bitmap \ bs

\* The last name and the last reference are gone, and the inode is used again.
Itrunc(f) ==
  /\ \A p \in FdProcs : OpenFiles[Users[p]] = f => todoBytes[p] = 0
  /\ bitmap' = Bfree(Blocks(f))
  /\ addrs' = [addrs EXCEPT ![f] = [i \in 0 .. NDIRECT |-> 0]]
  /\ size' = [size EXCEPT ![f] = 0]
  /\ foff' = [o \in DOMAIN OpenFiles |-> IF OpenFiles[o] = f THEN 0 ELSE foff[o]]
  /\ logged' = {BBLOCK, IBLOCK}
  /\ lastRead' = <<>>
  /\ UNCHANGED <<blk, todoBytes, fdpanic>>

FdNext ==
  /\ ~fdpanic
  /\ \/ \E p \in FdProcs : \/ \E n \in WriteSizes : SysWrite(p, n)
                           \/ \E n \in ReadSizes : SysRead(p, n)
                           \/ WriteChunk(p)
     \/ \E o \in DOMAIN OpenFiles : Reopen(o)
     \/ \E f \in DataFiles : Itrunc(f)
FdSpec == FdInit /\ [][FdNext]_fdVars
-----------------------------------------------------------------------------
\* Byte i of file f (from 0), without bmap().
ByteAt(f, i) ==
  LET bn == i \div BSIZE
      b == IF bn < NDIRECT THEN addrs[f][bn] ELSE blk[addrs[f][NDIRECT]][bn - NDIRECT]
  IN  IF b = 0 THEN 0 ELSE blk[b][i % BSIZE]
Content(f) == [i \in 1 .. size[f] |-> ByteAt(f, i - 1)]

\* Files are sequences of bytes: what one process writes another reads, at every
\* offset, across direct and indirect blocks, whatever else shares the disk.
Bytes == INSTANCE ByteFile WITH
  Opened <- OpenFiles, ByteSet <- {ByteOf[p] : p \in FdProcs},
  content <- [f \in DataFiles |-> Content(f)], pos <- foff, reply <- lastRead
IsByteFile == Bytes!Spec

\* Every block in use belongs to one place of one file, and only those are marked.
Places == {<<f, i>> : f \in DataFiles, i \in 0 .. MAXFILE}
BlockAt(pl) ==
  LET f == pl[1]
      i == pl[2]
  IN  IF i <= NDIRECT THEN addrs[f][i]
      ELSE IF addrs[f][NDIRECT] = 0 THEN 0 ELSE blk[addrs[f][NDIRECT]][i - NDIRECT - 1]
BlocksOwned ==
  /\ bitmap = {BlockAt(pl) : pl \in Places} \ {0}
  /\ \A pl, pm \in Places : BlockAt(pl) = BlockAt(pm) /\ BlockAt(pl) # 0 => pl = pm

\* A transaction of filewrite() or itrunc() leaves at least one block of its
\* reservation unused ("write a few blocks at a time to avoid exceeding the maximum
\* log transaction size", file.c:127): the assumption under which Log never panics.
ChunkFits == Cardinality(logged) < MAXOPBLOCKS
=============================================================================
