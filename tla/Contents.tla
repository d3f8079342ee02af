------------------------------ MODULE Contents ------------------------------
(***************************************************************************)
(* The bytes of files, from the program that writes the image to the calls *)
(* that read it: iappend of mkfs/mkfs.c; inode_bmap, inode_offmap,         *)
(* inode_read and inode_write of kernel/fs/inode.c with block_alloc of     *)
(* block.c under them; file_read, file_write and uvm_load above them.      *)
(*                                                                         *)
(* None of the calls sleeps, so each is one action.  A byte is opaque:     *)
(* every byte that is written is a new number, and 0 is a byte that mkfs   *)
(* has cleared.  A file has the blocks addrs[0 .. NDIRECT - 1], and those  *)
(* of the pointer block addrs[NDIRECT], whose words are ptrs.  Block 0 is  *)
(* no block.                                                               *)
(***************************************************************************)
EXTENDS Integers, Sequences, SequencesExt

CONSTANTS
  BSIZE,       \* bytes of a block
  NDIRECT,     \* direct blocks of a file
  NINDIRECT1,  \* pointers in a block
  PAGE_SZ,     \* bytes of a page
  OFFSETS,     \* number of values of an unsigned integer
  DATASTART,   \* blocks in front of the data
  NDATA,       \* blocks of data
  BITS,        \* bits of a byte of the free map
  ENTRY,       \* bytes of a directory entry
  ProgSizes,   \* sizes of the program on the image
  Counts,      \* sizes of reads and writes
  MaxCalls     \* bound on the calls

ASSUME ContentsAssumption ==
  /\ {BSIZE, NDIRECT, NINDIRECT1, PAGE_SZ, OFFSETS, ENTRY, NDATA} \subseteq Nat \ {0}
  /\ BITS \in Nat /\ DATASTART \in Nat /\ 0 < BITS /\ BITS <= DATASTART
  /\ BITS < NDATA
  /\ (NDIRECT + NINDIRECT1) * BSIZE < OFFSETS

MAXFILE == (NDIRECT + NINDIRECT1) * BSIZE

Files  == {"root", "prog", "new"}
Blocks == DATASTART .. DATASTART + NDATA - 1

VARIABLES
  fs,       \* the image: size, addrs and ptrs of each file, data of each block,
            \* freeblock of mkfs, the bits that are set in the free map
  todo,     \* the calls of iappend that mkfs has still to make
  pos,      \* pos[f]: offset of the open file
  got,      \* the last read: the file, the offset, the size and the bytes
  bytes,    \* bytes[f]: what was written to the file (not in the program)
  next,     \* the next new byte
  calls,    \* calls made
  stopped   \* "no", or why the calls do not go on

vars == <<fs, todo, pos, got, bytes, next, calls, stopped>>

NoBlocks == [size |-> 0, addrs |-> [n \in 0 .. NDIRECT |-> 0],
             ptrs |-> [n \in 0 .. NINDIRECT1 - 1 |-> 0]]
NoRead   == [file |-> "root", off |-> 0, n |-> 0, buf |-> <<>>]

\* main of mkfs: "." and "..", the entry of the program, then the program in
\* pieces of a block.
MkfsCalls(size) ==
  [i \in 1 .. 3 |-> [file |-> "root", n |-> ENTRY]]
  \o [i \in 1 .. size \div BSIZE |-> [file |-> "prog", n |-> BSIZE]]
  \o (IF size % BSIZE = 0 THEN <<>> ELSE <<[file |-> "prog", n |-> size % BSIZE]>>)

Init ==
  /\ fs = [node |-> [f \in Files |-> NoBlocks],
           data |-> [b \in Blocks |-> [i \in 0 .. BSIZE - 1 |-> 0]],
           freeblock |-> DATASTART, used |-> {}, bad |-> "no"]
  /\ \E size \in ProgSizes : todo = MkfsCalls(size)
  /\ pos = [f \in Files |-> 0]
  /\ got = NoRead
  /\ bytes = [f \in Files |-> <<>>]
  /\ next = 1 /\ calls = 0 /\ stopped = "no"

\* A buffer with n new bytes.
Text(n) == [i \in 1 .. n |-> next + i - 1]

\* What a file is after s was written at offset off.
Overwritten(b, off, s) ==
  [i \in 1 .. Max({Len(b), off + Len(s)}) |->
     IF off < i /\ i <= off + Len(s) THEN s[i - off] ELSE b[i]]

\* memmove of the m bytes of buf from byte k on into a block, from byte at on.
Copied(block, at, buf, k, m) ==
  [i \in 0 .. BSIZE - 1 |-> IF at <= i /\ i < at + m THEN buf[k + i - at + 1] ELSE block[i]]

----------------------------------------------------------------------------
(* mkfs.  A step of the loop in iappend: the block that the end of the file is
   in, taken from freeblock if it has none. *)

\* Mutant: the space left in the block is counted from its start.
PieceWholeBlock(n, off) == Min({n, BSIZE})

\* min(n, BSIZE - off % BSIZE), in mkfs and in the kernel.
Piece(n, off) == Min({n, BSIZE - (off % BSIZE)})

AppendBlock(m, f, nth) ==
  LET k     == nth - NDIRECT
      node  == m.node[f]
      ptr   == IF node.addrs[NDIRECT] = 0 THEN m.freeblock ELSE node.addrs[NDIRECT]
      free  == IF node.addrs[NDIRECT] = 0 THEN m.freeblock + 1 ELSE m.freeblock
  IN  IF nth < NDIRECT
      THEN IF node.addrs[nth] # 0 THEN m
           ELSE [m EXCEPT !.node[f].addrs[nth] = m.freeblock, !.freeblock = @ + 1]
      ELSE IF node.ptrs[k] # 0 THEN m
           ELSE [m EXCEPT !.node[f].addrs[NDIRECT] = ptr, !.node[f].ptrs[k] = free,
                          !.freeblock = free + 1]

BlockOf(node, nth) == IF nth < NDIRECT THEN node.addrs[nth] ELSE node.ptrs[nth - NDIRECT]

\* The pointer block has NINDIRECT1 pointers, and iappend checks for BSIZE: what
\* it writes behind the last one is lost.
iappend(m0, f, s) ==
  LET loop[k \in 0 .. Len(s)] ==
        IF k = 0 THEN [m |-> m0, at |-> 0]
        ELSE LET r   == loop[k - 1]
                 off == m0.node[f].size + r.at
                 nth == off \div BSIZE
                 n   == Piece(Len(s) - r.at, off)
                 m   == AppendBlock(r.m, f, nth)
             IN  IF r.at = Len(s) \/ r.m.bad # "no" THEN r
                 ELSE IF nth >= NDIRECT + NINDIRECT1 THEN [r EXCEPT !.m.bad = "pointer lost"]
                 ELSE [m  |-> [m EXCEPT !.data[BlockOf(m.node[f], nth)] =
                                 Copied(@, off % BSIZE, s, r.at, n)],
                       at |-> r.at + n]
  IN  [loop[Len(s)].m EXCEPT !.node[f].size = @ + Len(s)]

\* balloc marks the blocks below freeblock, in an order of bits of its own.
MkfsBit(i) == (i \div BITS) * BITS + (BITS - 1 - (i % BITS))

MkfsAppend ==
  /\ todo # <<>> /\ stopped = "no"
  /\ LET f == Head(todo).file
         s == Text(Head(todo).n)
         m == iappend(fs, f, s)
     IN  /\ fs' = IF Len(todo) > 1 THEN m
                  ELSE [m EXCEPT !.used = {MkfsBit(i) : i \in 0 .. m.freeblock - 1}]
         /\ bytes' = [bytes EXCEPT ![f] = @ \o s]
         /\ next' = next + Len(s)
         /\ stopped' = m.bad
  /\ todo' = Tail(todo)
  /\ UNCHANGED <<pos, got, calls>>

----------------------------------------------------------------------------
(* The kernel: blocks *)

\* freemap_search looks at the first byte only.
freemap_search(used) ==
  IF \A b \in 0 .. BITS - 1 : b \notin used THEN 0
  ELSE Min({b \in 0 .. BITS : b = BITS \/ b \notin used})

InUse(m) == UNION {{m.node[f].addrs[n] : n \in 0 .. NDIRECT} : f \in Files}
            \cup UNION {{m.node[f].ptrs[n] : n \in 0 .. NINDIRECT1 - 1} : f \in Files}

\* A block that somebody has already ends the model: what follows mixes files.
block_alloc(m) ==
  LET b == DATASTART + freemap_search(m.used)
  IN  [b |-> b, m |-> IF b \in InUse(m) THEN [m EXCEPT !.bad = "block in use"]
                      ELSE [m EXCEPT !.used = @ \cup {b - DATASTART}]]

bmap0(m, f, nth) ==
  LET a == block_alloc(m)
  IN  IF m.node[f].addrs[nth] # 0 THEN m ELSE [a.m EXCEPT !.node[f].addrs[nth] = a.b]

\* The pointer is read at a word's index and stored at a byte's: from the second
\* on the store damages the ones before.
bmap1(m, f, nth) ==
  LET k == nth - NDIRECT
      p == bmap0(m, f, NDIRECT)
      a == block_alloc(p)
  IN  IF p.bad # "no" \/ p.node[f].ptrs[k] # 0 THEN p
      ELSE IF k # 0 THEN [a.m EXCEPT !.bad = "pointer damaged"]
      ELSE [a.m EXCEPT !.node[f].ptrs[k] = a.b]

inode_bmap(m, f, nth) == IF nth < NDIRECT THEN bmap0(m, f, nth) ELSE bmap1(m, f, nth)

\* The blocks for n = 0, ..., one more if the offset is inside a later block, and
\* then the size.
inode_offmap(m, f, offset) ==
  LET last == offset \div BSIZE + (IF offset > BSIZE /\ offset % BSIZE # 0 THEN 1 ELSE 0)
      loop[n \in 0 .. last] ==
        LET p == IF n = 0 THEN m ELSE loop[n - 1]
        IN  IF p.bad # "no" THEN p ELSE inode_bmap(p, f, n)
  IN  IF m.node[f].size > offset THEN m ELSE [loop[last] EXCEPT !.node[f].size = offset]

----------------------------------------------------------------------------
(* The kernel: reads and writes *)

\* The result of a read that fails.
Failed == [ok |-> FALSE, buf |-> <<>>, m |-> fs]

\* Mutant: the size is not cropped by the offset.
CroppedAtSize(size, off, sz) == Min({sz, size})

Cropped(size, off, sz) == IF off + sz > size THEN size - off ELSE sz

inode_read(f, offset, sz0) ==
  LET size == fs.node[f].size
      sz   == Cropped(size, offset, sz0)
      loop[k \in 0 .. sz] ==
        IF k = 0 THEN [ok |-> TRUE, buf |-> <<>>, m |-> fs]
        ELSE LET r   == loop[k - 1]
                 off == offset + Len(r.buf)
                 m   == inode_bmap(r.m, f, off \div BSIZE)
                 n   == Piece(sz - Len(r.buf), off)
                 b   == BlockOf(m.node[f], off \div BSIZE)
             IN  IF Len(r.buf) = sz \/ r.m.bad # "no" THEN r
                 ELSE [r EXCEPT !.m = m, !.buf =
                         @ \o [i \in 1 .. n |-> m.data[b][(off % BSIZE) + i - 1]]]
  IN  IF size < offset \/ OFFSETS - 1 - offset < sz0 THEN Failed ELSE loop[sz]

inode_write(m0, f, offset, s) ==
  LET size == m0.node[f].size
      loop[k \in 0 .. Len(s)] ==
        IF k = 0 THEN [m |-> m0, wt |-> 0]
        ELSE LET r   == loop[k - 1]
                 off == offset + r.wt
                 m   == inode_bmap(r.m, f, off \div BSIZE)
                 n   == Piece(Len(s) - r.wt, off)
             IN  IF r.wt = Len(s) \/ r.m.bad # "no" THEN r
                 ELSE IF m.bad # "no" THEN [r EXCEPT !.m = m]
                 ELSE [m |-> [m EXCEPT !.data[BlockOf(m.node[f], off \div BSIZE)] =
                                Copied(@, off % BSIZE, s, r.wt, n)],
                       wt |-> r.wt + n]
  IN  IF size < offset \/ OFFSETS - 1 - offset < Len(s) \/ offset + Len(s) > MAXFILE
      THEN [ok |-> FALSE, m |-> m0]
      ELSE [ok |-> TRUE,
            m  |-> [loop[Len(s)].m EXCEPT !.node[f].size = Max({@, offset + Len(s)})]]

----------------------------------------------------------------------------
(* The calls *)

Running == todo = <<>> /\ stopped = "no" /\ calls < MaxCalls

\* sys_read of the open file.
file_read(f, n) ==
  /\ Running
  /\ LET r == inode_read(f, pos[f], n)
     IN  /\ pos' = [pos EXCEPT ![f] = @ + Len(r.buf)]
         /\ got' = IF r.ok THEN [file |-> f, off |-> pos[f], n |-> n, buf |-> r.buf] ELSE NoRead
         /\ fs' = r.m
         /\ stopped' = r.m.bad
  /\ calls' = calls + 1
  /\ UNCHANGED <<todo, bytes, next>>

\* sys_write.  A write that fails adds its -1 to the offset.
file_write(f, n) ==
  /\ Running
  /\ LET s == Text(n)
         r == inode_write(fs, f, pos[f], s)
     IN  /\ pos' = [pos EXCEPT ![f] = (@ + (IF r.ok THEN n ELSE OFFSETS - 1)) % OFFSETS]
         /\ bytes' = IF r.ok THEN [bytes EXCEPT ![f] = Overwritten(@, pos[f], s)] ELSE bytes
         /\ fs' = r.m
         /\ stopped' = r.m.bad
  /\ got' = NoRead
  /\ next' = next + n
  /\ calls' = calls + 1
  /\ UNCHANGED todo

\* Another sys_open of the file.
Reopen(f) ==
  /\ Running /\ pos[f] # 0
  /\ pos' = [pos EXCEPT ![f] = 0]
  /\ UNCHANGED <<fs, todo, got, bytes, next, calls, stopped>>

\* dir_link of a new name: in the first empty entry, or at the end, and then the
\* directory grows.  The only empty entry is the one that mkfs makes for "..".
\* Its bytes are those of the second call of iappend.
dir_link ==
  /\ Running
  /\ LET s     == Text(ENTRY)
         node  == fs.node["root"]
         empty == fs.data[BlockOf(node, ENTRY \div BSIZE)][ENTRY % BSIZE] = ENTRY + 1
         off   == IF empty THEN ENTRY ELSE node.size
         m     == IF empty THEN fs ELSE inode_offmap(fs, "root", off + ENTRY)
         r     == inode_write(m, "root", off, s)
     IN  /\ fs' = IF m.bad = "no" THEN r.m ELSE m
         /\ stopped' = fs'.bad
         /\ bytes' = [bytes EXCEPT !["root"] = Overwritten(@, off, s)]
  /\ got' = NoRead
  /\ next' = next + ENTRY
  /\ calls' = calls + 1
  /\ UNCHANGED <<todo, pos>>

\* uvm_load in exec: a segment of the program, page by page.
uvm_load(offset, size) ==
  /\ Running
  /\ LET loop[i \in 0 .. (size + PAGE_SZ - 1) \div PAGE_SZ] ==
           IF i = 0 THEN [ok |-> TRUE, buf |-> <<>>]
           ELSE LET p == loop[i - 1]
                    n == Min({PAGE_SZ, size - Len(p.buf)})
                    r == inode_read("prog", offset + Len(p.buf), n)
                IN  IF p.ok /\ Len(r.buf) = n THEN [p EXCEPT !.buf = @ \o r.buf]
                    ELSE [ok |-> FALSE, buf |-> <<>>]
         l == loop[(size + PAGE_SZ - 1) \div PAGE_SZ]
     IN  got' = IF l.ok THEN [file |-> "prog", off |-> offset, n |-> size, buf |-> l.buf]
                ELSE NoRead
  /\ calls' = calls + 1
  /\ UNCHANGED <<fs, todo, pos, bytes, next, stopped>>

Halted == (stopped # "no" \/ (todo = <<>> /\ calls = MaxCalls)) /\ UNCHANGED vars

----------------------------------------------------------------------------
(* Properties *)

\* A file is the bytes that were written to it, whoever wrote them: the pieces
\* of mkfs and of the kernel fall into the right places of direct and indirect
\* blocks, whatever the offset and the size, and files do not run into each
\* other, up to the point where block_alloc hands out a block in use.
FilesKept ==
  stopped = "no" =>
    \A f \in Files :
      /\ fs.node[f].size = Len(bytes[f])
      /\ \A i \in 0 .. Len(bytes[f]) - 1 :
           LET b == BlockOf(fs.node[f], i \div BSIZE)
           IN  b \in Blocks /\ fs.data[b][i % BSIZE] = bytes[f][i + 1]

\* A read, also one that crosses blocks, pages or the end of the file, returns
\* the bytes of the file from its offset on, as many as it was asked for or as
\* there are.
ReadReturns ==
  stopped = "no" =>
    got.buf = SubSeq(bytes[got.file], got.off + 1, Min({got.off + got.n, Len(bytes[got.file])}))
=============================================================================
