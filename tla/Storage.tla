------------------------------ MODULE Storage -------------------------------
(***************************************************************************)
(* The file system on the disk: the free map (kernel/fs/block.c), inodes   *)
(* (inode.c), the root directory (dir.c), fs_create, sys_link and writes   *)
(* to files, with a crash possible between any two writes to the disk.     *)
(*                                                                         *)
(* These calls never sleep, so one runs at a time.  bcache_write waits for *)
(* the disk, so the writes of a call reach it one by one, in program       *)
(* order: an action of this module does one of them.  Sizes are counted in *)
(* entries for a directory and in blocks for a file; a file has at most    *)
(* one block and the root directory no more than its first.                *)
(***************************************************************************)
EXTENDS Integers, FiniteSets, Sequences

CONSTANTS
  Programs,   \* names of the files that mkfs puts on the disk, in order
  Names,      \* names that fs_create and sys_link are called with
  Types,      \* what is created: of "file", "dev", "dir"
  NINODES,    \* inodes 1 .. NINODES - 1; 1 is the root
  ROOM,       \* entries of a block
  NBITS,      \* bits of the free map
  BITS,       \* bits of a byte
  DATASTART,  \* blocks in front of the data
  MaxLink,    \* bound on the links of a file
  NULL

ASSUME StorageAssumption ==
  /\ {NINODES, ROOM, NBITS, BITS, DATASTART, MaxLink} \subseteq Nat \ {0}
  /\ BITS <= DATASTART /\ BITS < NBITS
  /\ Programs \in Seq(STRING)
  /\ Len(Programs) + 2 <= ROOM /\ Len(Programs) + 1 < NINODES /\ Len(Programs) < NBITS
  /\ \A m, n \in 1 .. Len(Programs) : Programs[m] # "." /\ (Programs[m] = Programs[n] => m = n)
  /\ Types \subseteq {"file", "dev", "dir"}
  /\ NULL \notin Int

ROOTINO == 1
Inums   == ROOTINO .. NINODES - 1
Slots   == 0 .. ROOM - 1
Bits    == 0 .. NBITS - 1    \* a block is named by its bit of the free map

Inode == [type : {"none", "file", "dev", "dir"}, nlink : Nat, size : Nat,
          addr : Bits \cup {NULL}]
Texts == {"", ".", ".."} \cup Names \cup {Programs[m] : m \in 1 .. Len(Programs)}
Name  == [text : Texts, slash : BOOLEAN]

ASSUME NoInodeAssumption == NULL \notin Inode

VARIABLES
  dinode,   \* the inodes on the disk
  entry,    \* the root directory's block: an inode number and a name per slot
  content,  \* content[b]: the inode whose data was written to block b last
  used,     \* the bits that are set in the free map
  mem,      \* mem[i]: the cached copy of an inode, NULL if there is none
  op        \* the call that is running: where it is, its inode, name and new block

disk == <<dinode, entry, content, used>>
vars == <<disk, mem, op>>

\* A component of a path, and a path as sys_link stores it, with its slash.
Plain(n)   == [text |-> n, slash |-> FALSE]
Slashed(n) == [text |-> n, slash |-> TRUE]

\* No call is running; or one is, for an inode and a name.
Idle == [at |-> "idle", inum |-> 0, name |-> Plain(""), block |-> NULL]
Call(at, i, name) == [at |-> at, inum |-> i, name |-> name, block |-> NULL]

Least(S) == CHOOSE x \in S : \A y \in S : x <= y

----------------------------------------------------------------------------
(* The image that mkfs writes *)

\* balloc counts the bits of a byte from the other end than block.c.
MkfsBit(i) == (i \div BITS) * BITS + (BITS - 1 - (i % BITS))

\* The root directory and each program take the next inode and the next block.
MkfsInode(i) ==
  CASE i = ROOTINO -> [type |-> "dir", nlink |-> 1, size |-> Len(Programs) + 2, addr |-> 0]
    [] i \in 2 .. Len(Programs) + 1 -> [type |-> "file", nlink |-> 1, size |-> 1, addr |-> i - 1]
    [] OTHER -> [type |-> "none", nlink |-> 0, size |-> 0, addr |-> NULL]

\* The entry ".." gets no inode.
MkfsEntry(s) ==
  CASE s = 0 -> [inum |-> ROOTINO, name |-> Plain(".")]
    [] s = 1 -> [inum |-> 0, name |-> Plain("..")]
    [] s \in 2 .. Len(Programs) + 1 -> [inum |-> s, name |-> Plain(Programs[s - 1])]
    [] OTHER -> [inum |-> 0, name |-> Plain("")]

Init ==
  /\ dinode  = [i \in Inums |-> MkfsInode(i)]
  /\ entry   = [s \in Slots |-> MkfsEntry(s)]
  /\ content = [b \in Bits |-> IF b <= Len(Programs) THEN b + 1 ELSE 0]
  /\ used    = {MkfsBit(i) : i \in 0 .. DATASTART + Len(Programs)} \cap Bits
  /\ mem     = [i \in Inums |-> IF i = ROOTINO THEN dinode[i] ELSE NULL]
  /\ op      = Idle

----------------------------------------------------------------------------
(* Helpers *)

\* freemap_search looks at the first byte only: 0 if it is empty, else as many
\* blocks further as it begins with ones.
freemap_search ==
  IF \A b \in 0 .. BITS - 1 : b \notin used THEN 0
  ELSE Least({b \in 0 .. BITS : b = BITS \/ b \notin used})

\* dir_lookup in the root directory: where the name is.
dir_lookup(name) ==
  {s \in Slots : s < mem[ROOTINO].size /\ entry[s].inum # 0 /\ entry[s].name = name}

\* Mutant: the size is read from the disk.
FreeSlotStale ==
  Least({s \in 0 .. ROOM : s >= dinode[ROOTINO].size \/ entry[s].inum = 0})

\* The slot dir_link takes: an empty one, or the one behind the last.
FreeSlot ==
  Least({s \in 0 .. ROOM : s >= mem[ROOTINO].size \/ entry[s].inum = 0})

\* inode_load.
Loaded(i) == IF mem[i] = NULL THEN dinode[i] ELSE mem[i]

\* A cached inode changes and inode_flush writes it.
Flush(i, ino) ==
  /\ mem'    = [mem EXCEPT ![i] = ino]
  /\ dinode' = [dinode EXCEPT ![i] = ino]

Goto(at) == op' = [op EXCEPT !.at = at]

----------------------------------------------------------------------------
(* fs_create *)

\* The name is new: inode_allocate reads every inode up to a free one over its
\* cached copy, and writes the type of that one.
inode_allocate(n, type) ==
  LET free == {i \in Inums \ {ROOTINO} : dinode[i].type = "none"}
      i    == Least(free)
  IN  /\ op.at = "idle" /\ dir_lookup(Plain(n)) = {}
      /\ FreeSlot < ROOM
      /\ IF free = {} THEN Goto("panic") /\ UNCHANGED <<disk, mem>>
         ELSE /\ dinode' = [dinode EXCEPT ![i].type = type]
              /\ mem' = [j \in Inums |-> IF 1 < j /\ j <= i THEN dinode'[j] ELSE mem[j]]
              /\ op' = Call("nlink", i, Plain(n))
              /\ UNCHANGED <<entry, content, used>>

\* Mutant: the link count stays in memory.
CreateNoFlush ==
  LET i   == op.inum
      ino == [mem[i] EXCEPT !.nlink = 1]
      dir == ino.type = "dir"
  IN  /\ op.at = "nlink"
      /\ mem' = [mem EXCEPT ![i] = ino, ![ROOTINO].nlink = IF dir THEN @ + 1 ELSE @]
      /\ Goto(IF dir THEN "map" ELSE "link")
      /\ UNCHANGED disk

\* The link count is written; for a directory the parent's changes in memory.
CreateFlush ==
  LET i   == op.inum
      ino == [mem[i] EXCEPT !.nlink = 1]
      dir == ino.type = "dir"
  IN  /\ op.at = "nlink"
      /\ dinode' = [dinode EXCEPT ![i] = ino]
      /\ mem' = [mem EXCEPT ![i] = ino, ![ROOTINO].nlink = IF dir THEN @ + 1 ELSE @]
      /\ Goto(IF dir THEN "map" ELSE "link")
      /\ UNCHANGED <<entry, content, used>>

\* inode_offmap does not flush the size it sets, and the first inode_write to a
\* new directory reads the inode back from the disk.
LinkDot ==
  /\ op.at = "data" /\ mem[op.inum].type = "dir"
  /\ mem' = [mem EXCEPT ![op.inum] = dinode[op.inum]]
  /\ content' = [content EXCEPT ![mem'[op.inum].addr] = op.inum]
  /\ Goto("size")
  /\ UNCHANGED <<dinode, entry, used>>

\* The entry "..": the size of inode_offmap stays in memory.
LinkDotDot ==
  /\ op.at = "dotdot"
  /\ mem' = [mem EXCEPT ![op.inum].size = 2]
  /\ content' = [content EXCEPT ![mem[op.inum].addr] = op.inum]
  /\ Goto("link")
  /\ UNCHANGED <<dinode, entry, used>>

\* dir_link of a new name in the root directory, for fs_create and sys_link.
dir_link ==
  LET s == FreeSlot
  IN  /\ op.at = "link" /\ dir_lookup(op.name) = {}
      /\ entry' = [entry EXCEPT ![s] = [inum |-> op.inum, name |-> op.name]]
      /\ mem' = [mem EXCEPT ![ROOTINO].size = IF s < @ THEN @ ELSE s + 1]
      /\ op' = Idle
      /\ UNCHANGED <<dinode, content, used>>

----------------------------------------------------------------------------
(* bmap0 and inode_write *)

\* block_alloc: the bit is set first.
block_alloc ==
  /\ op.at = "map"
  /\ used' = used \cup {freemap_search}
  /\ op' = [op EXCEPT !.at = "addr", !.block = freemap_search]
  /\ UNCHANGED <<dinode, entry, content, mem>>

bmap0 ==
  /\ op.at = "addr"
  /\ Flush(op.inum, [mem[op.inum] EXCEPT !.addr = op.block])
  /\ op' = Call("data", op.inum, op.name)
  /\ UNCHANGED <<entry, content, used>>

\* Mutant: the size is written before there is a block.
WriteSizeFirst(n) ==
  \E s \in dir_lookup(Plain(n)) :
    LET i   == entry[s].inum
        ino == Loaded(i)
    IN  /\ op.at = "idle" /\ ino.type = "file"
        /\ Flush(i, [ino EXCEPT !.size = 1])
        /\ op' = Call(IF ino.addr = NULL THEN "map" ELSE "data", i, Plain(n))
        /\ UNCHANGED <<entry, content, used>>

\* A write to a file of the root directory.
WriteCall(n) ==
  \E s \in dir_lookup(Plain(n)) :
    LET i   == entry[s].inum
        ino == Loaded(i)
    IN  /\ op.at = "idle" /\ ino.type = "file"
        /\ mem' = [mem EXCEPT ![i] = ino]
        /\ op' = Call(IF ino.addr = NULL THEN "map" ELSE "data", i, Plain(n))
        /\ UNCHANGED disk

WriteData ==
  /\ op.at = "data" /\ mem[op.inum].type = "file"
  /\ content' = [content EXCEPT ![mem[op.inum].addr] = op.inum]
  /\ IF mem[op.inum].size = 0 THEN Goto("size") ELSE op' = Idle
  /\ UNCHANGED <<dinode, entry, used, mem>>

\* The end of inode_write to a file or a new directory that has grown.
WriteSize ==
  /\ op.at = "size"
  /\ Flush(op.inum, [mem[op.inum] EXCEPT !.size = 1])
  /\ IF mem[op.inum].type = "dir" THEN Goto("dotdot") ELSE op' = Idle
  /\ UNCHANGED <<entry, content, used>>

----------------------------------------------------------------------------
(* sys_link; the new path becomes the name of the entry, slash included *)

LinkCall(old, new) ==
  \E s \in dir_lookup(Plain(old)) :
    LET i   == entry[s].inum
        ino == Loaded(i)
    IN  /\ op.at = "idle" /\ ino.type # "dir" /\ ino.nlink < MaxLink
        /\ FreeSlot < ROOM
        /\ Flush(i, [ino EXCEPT !.nlink = @ + 1])
        /\ op' = Call("link", i, Slashed(new))
        /\ UNCHANGED <<entry, content, used>>

\* The name is taken: the label bad.
LinkFails ==
  /\ op.at = "link" /\ dir_lookup(op.name) # {}
  /\ Flush(op.inum, [mem[op.inum] EXCEPT !.nlink = @ - 1])
  /\ op' = Idle
  /\ UNCHANGED <<entry, content, used>>

----------------------------------------------------------------------------

\* inode_getc gives the slot of an unreferenced inode to another one; the root
\* stays referenced.
Evict(i) ==
  /\ op.at = "idle" /\ i # ROOTINO /\ mem[i] # NULL
  /\ mem' = [mem EXCEPT ![i] = NULL]
  /\ UNCHANGED <<disk, op>>

\* The machine stops between two writes and is started again.
Crash ==
  /\ mem' = [i \in Inums |-> IF i = ROOTINO THEN dinode[i] ELSE NULL]
  /\ op' = Idle
  /\ UNCHANGED disk

Next ==
  \/ \E n \in Names : \/ \E t \in Types : inode_allocate(n, t)
                      \/ WriteCall(n)
                      \/ \E m \in Names : LinkCall(n, m)
  \/ CreateFlush \/ LinkDot \/ LinkDotDot \/ dir_link
  \/ block_alloc \/ bmap0 \/ WriteData \/ WriteSize \/ LinkFails
  \/ \E i \in Inums : Evict(i)
  \/ Crash

Spec == Init /\ [][Next]_vars

----------------------------------------------------------------------------
(* Properties *)

Entries(size) == {s \in Slots : s < size /\ entry[s].inum # 0}

\* The entries that name inode i.
LinksTo(i) == {s \in Entries(mem[ROOTINO].size) : entry[s].inum = i}

Calls ==
  [at : {"idle", "panic", "nlink", "map", "addr", "data", "size", "dotdot", "link"},
   inum : Inums \cup {0}, name : Name, block : Bits \cup {NULL}]

TypeOK ==
  /\ dinode \in [Inums -> Inode]
  /\ entry \in [Slots -> [inum : Inums \cup {0}, name : Name]]
  /\ content \in [Bits -> Inums \cup {0}]
  /\ used \subseteq Bits
  /\ mem \in [Inums -> Inode \cup {NULL}]
  /\ op \in Calls

\* Whenever the machine stops, no entry of the root directory names an inode
\* that is not there or has fewer links than entries, because fs_create and
\* sys_link write the inode before the entry.  And no name is there twice, also
\* after crashes that left entries behind the end of the directory.
DirectoryConsistent ==
  \A s \in Entries(mem[ROOTINO].size) \ {0} :
    LET i == entry[s].inum
    IN  /\ dinode[i].type # "none"
        /\ dinode[i].nlink >=
             Cardinality(LinksTo(i))
        /\ \A t \in Entries(mem[ROOTINO].size) : entry[s].name = entry[t].name => s = t

\* Whenever the machine stops, an inode that has a size has a block, and the free
\* map says of the block of every inode, and of every block with data, that it is
\* in use.
SizeBacked ==
  /\ \A i \in Inums : /\ dinode[i].size > 0 => dinode[i].addr # NULL
                      /\ dinode[i].addr # NULL => dinode[i].addr \in used
  /\ \A b \in Bits : content[b] # 0 => b \in used

\* What the cached copy of an inode shares with the inode on the disk: only its size,
\* and the root's link count, may differ.
CopiesMatch ==
  \A i \in Inums :
    mem[i] # NULL => /\ mem[i].type = dinode[i].type /\ mem[i].addr = dinode[i].addr
                     /\ i # ROOTINO => mem[i].nlink = dinode[i].nlink
                     /\ mem[i].size > 0 => mem[i].addr # NULL

\* The root stays cached; the directory grows in memory only, and keeps its entry ".".
RootKept ==
  /\ mem[ROOTINO] # NULL /\ dinode[ROOTINO].type = "dir" /\ entry[0].inum = ROOTINO
  /\ 0 < dinode[ROOTINO].size /\ dinode[ROOTINO].size <= mem[ROOTINO].size
  /\ mem[ROOTINO].size <= ROOM

\* A call that will end in dir_link: fs_create, also while it fills a new directory,
\* and sys_link.
Linking ==
  \/ op.at \in {"nlink", "dotdot", "link"}
  \/ op.at \in {"map", "addr", "data", "size"} /\ mem[op.inum].type = "dir"

\* What holds within a call: its inode is cached; the block it takes is marked; the
\* inode that will be linked has a link to spare and the directory a slot.
CallConsistent ==
  /\ op.at \notin {"idle", "panic"} => op.inum \in Inums \ {ROOTINO} /\ mem[op.inum] # NULL
  /\ op.at = "addr" => op.block \in used
  /\ op.at \in {"data", "size", "dotdot"} => mem[op.inum].addr # NULL
  /\ Linking => /\ FreeSlot < ROOM /\ dinode[op.inum].type # "none"
                /\ IF op.at = "nlink" THEN LinksTo(op.inum) = {}
                   ELSE dinode[op.inum].nlink >= Cardinality(LinksTo(op.inum)) + 1

\* Inductive (StorageProofs).
Inductive ==
  /\ TypeOK /\ DirectoryConsistent /\ SizeBacked
  /\ CopiesMatch /\ RootKept /\ CallConsistent

\* While the machine runs, no entry of the root directory changes or is lost.
EntriesKept ==
  [][Crash \/ \A s \in Entries(mem[ROOTINO].size) :
                s < mem'[ROOTINO].size /\ entry'[s] = entry[s]]_vars

\* block_alloc "will look for the first free block from the freemap" (block.c):
\* the block of a file holds the data of that file.
DataPrivate ==
  \A i \in Inums : dinode[i].size > 0 => content[dinode[i].addr] = i
=============================================================================
