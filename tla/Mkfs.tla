--------------------------------- MODULE Mkfs ---------------------------------
(***************************************************************************)
(* mkfs.c: the file system image.  A block is a function from its BSIZE    *)
(* places; a place holds one byte of data, one directory entry, one block  *)
(* number of an indirect block, one dinode (so IPB and NINDIRECT are       *)
(* BSIZE) or eight bits of the bitmap.  The conversions to Intel byte      *)
(* order and the names in the entries are left out.                        *)
(***************************************************************************)
EXTENDS Integers, FiniteSets, Sequences

CONSTANTS FSBLOCKS,     \* FSSIZE
          BPLACES,      \* BSIZE
          NLOG, NINO,   \* LOGSIZE, NINODES
          NDIR,         \* NDIRECT
          FileSizes,    \* lengths of the files on the command line
          MaxFiles

VARIABLES image, freeinode, freeblock, mkpc,
          left,         \* bytes of the file being copied that are still to be read
          put           \* what went into each inode, in order
mkVars == <<image, freeinode, freeblock, mkpc, left, put>>

nbitmap == FSBLOCKS \div (BPLACES * 8) + 1
ninodeblocks == NINO \div BPLACES + 1
nmeta == 2 + NLOG + ninodeblocks + nbitmap
inodestart == 2 + NLOG
bmapstart == 2 + NLOG + ninodeblocks
Zeroes == [i \in 0 .. BPLACES - 1 |-> 0]
RootIno == 1

\* winode(), rinode()
Winode(d, inum, din) == [d EXCEPT ![inodestart + inum \div BPLACES][inum % BPLACES] = din]
Rinode(d, inum) == d[inodestart + inum \div BPLACES][inum % BPLACES]

\* ialloc(): an empty dinode with one link.
NewDin(type) == [type |-> type, nlink |-> 1, size |-> 0, addrs |-> [i \in 0 .. NDIR |-> 0]]

\* iappend(), on t: the image, the next free block and the dinode.
Took(t, i) == IF t.din.addrs[i] # 0 THEN t
              ELSE [t EXCEPT !.din.addrs[i] = t.free, !.free = @ + 1]
TookIn(t, b, i) == IF t.d[b][i] # 0 THEN t
                   ELSE [t EXCEPT !.d[b][i] = t.free, !.free = @ + 1]
WithBlock(t, fbn) ==
  IF fbn < NDIR THEN Took(t, fbn)
  ELSE LET u == Took(t, NDIR) IN TookIn(u, u.din.addrs[NDIR], fbn - NDIR)
BlockOf(d, din, fbn) == IF fbn < NDIR THEN din.addrs[fbn] ELSE d[din.addrs[NDIR]][fbn - NDIR]
Mut_Stored(t, off, v) == [t EXCEPT !.d[BlockOf(t.d, t.din, off \div BPLACES)] = [Zeroes EXCEPT ![off % BPLACES] = v]]
Stored(t, off, v) == [t EXCEPT !.d[BlockOf(t.d, t.din, off \div BPLACES)][off % BPLACES] = v]
\* The loop copies up to the end of a block at a time; the effect is that of a place at a time.
RECURSIVE Append1(_, _, _)
Append1(t, off, vs) ==
  IF vs = <<>> THEN [t EXCEPT !.din.size = off]
  ELSE Append1(Stored(WithBlock(t, off \div BPLACES), off, Head(vs)), off + 1, Tail(vs))
Iappend(d, free, inum, vs) ==
  Append1([d |-> d, free |-> free, din |-> Rinode(d, inum)], Rinode(d, inum).size, vs)

Appends(d, inum, vs) ==
  LET t == Iappend(d, freeblock, inum, vs)
  IN  /\ image' = Winode(t.d, inum, t.din)
      /\ freeblock' = t.free
      /\ put' = [put EXCEPT ![inum] = @ \o vs]

MkInit == /\ image = [b \in 0 .. FSBLOCKS - 1 |-> Zeroes]
          /\ freeinode = 1 /\ freeblock = nmeta /\ mkpc = "root" /\ left = 0
          /\ put = [i \in 1 .. MaxFiles + 1 |-> <<>>]

\* main(): the root with "." and ".."
MakeRoot == /\ mkpc = "root"
            /\ freeinode' = freeinode + 1
            /\ Appends(Winode(image, RootIno, NewDin("dir")), RootIno, <<RootIno, RootIno>>)
            /\ mkpc' = "files" /\ UNCHANGED left

\* main(): the next file of the command line, its inode and its entry in the root
OpenNext == /\ mkpc = "files" /\ freeinode <= MaxFiles + 1
            /\ \E n \in FileSizes : left' = n
            /\ freeinode' = freeinode + 1
            /\ Appends(Winode(image, freeinode, NewDin("file")), RootIno, <<freeinode>>)
            /\ mkpc' = "copy"

\* main(): while((cc = read(fd, buf, sizeof(buf))) > 0)
Copy == /\ mkpc = "copy" /\ left > 0
        /\ LET cc == IF left < BPLACES THEN left ELSE BPLACES
               inum == freeinode - 1
           IN  /\ Appends(image, inum, [i \in 1 .. cc |-> 10 * inum + left - i])
               /\ left' = left - cc
        /\ UNCHANGED <<freeinode, mkpc>>
CopyDone == mkpc = "copy" /\ left = 0 /\ mkpc' = "files" /\ UNCHANGED <<image, freeinode, freeblock, left, put>>

\* main(): the size of the root made a multiple of BSIZE, and balloc(freeblock)
RootSize(off) == ((off \div BPLACES) + 1) * BPLACES
Bits(used) == [j \in 0 .. BPLACES - 1 |-> {i % 8 : i \in {i \in 0 .. used - 1 : i \div 8 = j}}]
FixRoot(d) == Winode(d, RootIno, [Rinode(d, RootIno) EXCEPT !.size = RootSize(@)])
FinishImage == /\ mkpc = "files" /\ freeblock < BPLACES * 8       \* assert(used < BSIZE*8)
               /\ image' = [FixRoot(image) EXCEPT ![bmapstart] = Bits(freeblock)]
               /\ mkpc' = "done" /\ UNCHANGED <<freeinode, freeblock, left, put>>

MkNext == MakeRoot \/ OpenNext \/ Copy \/ CopyDone \/ FinishImage
MkSpec == MkInit /\ [][MkNext]_mkVars
-----------------------------------------------------------------------------
MkInodes == 1 .. freeinode - 1
Spans(n) == (n + BPLACES - 1) \div BPLACES
\* The block pointers of an inode, the indirect block's among them, one per place.
PointersOf(i) ==
  LET din == Rinode(image, i)
  IN  {<<"a", k, din.addrs[k]>> : k \in 0 .. NDIR} \cup
      (IF din.addrs[NDIR] = 0 THEN {} ELSE {<<"i", k, image[din.addrs[NDIR]][k]>> : k \in 0 .. BPLACES - 1})
Owns(b) == {<<i, q>> \in UNION {{<<i, q>> : q \in PointersOf(i)} : i \in MkInodes} : q[3] = b}

\* The bitmap the kernel will allocate from marks the boot block, the superblock, the log, the
\* inodes, the bitmap and the blocks the files own, each of them owned once, and no other.
BitmapMatches == mkpc = "done" =>
  \A b \in 0 .. FSBLOCKS - 1 :
    /\ (b % 8 \in image[bmapstart][b \div 8]) <=> (b < nmeta \/ Owns(b) # {})
    /\ b # 0 => Cardinality(Owns(b)) <= IF b < nmeta THEN 0 ELSE 1

\* What the kernel's bmap() and readi() find in each inode is what mkfs put there.
FilesReadable == mkpc # "root" =>
  \A i \in MkInodes :
    LET din == Rinode(image, i)
    IN  /\ i # RootIno => din.size = Len(put[i])
        /\ \A o \in 0 .. Len(put[i]) - 1 : image[BlockOf(image, din, o \div BPLACES)][o % BPLACES] = put[i][o + 1]

\* The size given to the root covers all its entries, and every block under it is there, so
\* that looking a name up allocates nothing; unless the entries fill their last block exactly:
\* then the size has one block too many, which readi() would allocate.
RootBacked == mkpc = "done" =>
  LET din == Rinode(image, RootIno)
  IN  /\ din.size >= Len(put[RootIno])
      /\ Len(put[RootIno]) % BPLACES # 0 => \A n \in 0 .. Spans(din.size) - 1 : BlockOf(image, din, n) # 0

\* The image is one that fs.c can use: all it reads is there, and all it may allocate is free.
ImageUsable == BitmapMatches /\ FilesReadable /\ RootBacked
=============================================================================
