--------------------------- MODULE StorageProofs ---------------------------
(***************************************************************************)
(* Proofs about the file system on the disk: what a crash can find there,  *)
(* for every number of inodes, entries and blocks, and every set of names. *)
(***************************************************************************)
EXTENDS Storage, FiniteSetTheorems, WellFoundedInduction, TLAPS

----------------------------------------------------------------------------
(* Helpers *)

\* The least element of a set of natural numbers.
LEMMA LeastIn ==
  ASSUME NEW S \in SUBSET Nat, S # {}
  PROVE  Least(S) \in S /\ \A y \in S : Least(S) <= y
<1>1. PICK x \in S : \A y \in S : ~ (<<y, x>> \in OpToRel(<, Nat))
  BY NatLessThanWellFounded, WFMin
<1>2. \A y \in S : ~ (y < x)
  BY <1>1, Zenon DEF OpToRel
<1>3. \A y \in S : x <= y
  BY <1>2
<1>. QED  BY <1>3, Zenon DEF Least

\* Quotient and remainder.
LEMMA QuotientAndRest ==
  ASSUME NEW n \in Nat \ {0}, NEW q \in Nat, NEW r \in 0 .. n - 1
  PROVE  (q * n + r) \div n = q /\ (q * n + r) % n = r
<1>0. PICK a \in Nat : a = q * n + r
  OBVIOUS
<1>1. PICK x \in Nat, y \in 0 .. n - 1 : x = a \div n /\ y = a % n /\ a = x * n + y
  <2>1. a \div n \in Nat /\ a % n \in 0 .. n - 1 /\ a = (a \div n) * n + (a % n)
    OBVIOUS
  <2>. QED  BY <2>1
<1>2. ASSUME NEW u \in Nat, NEW v \in Nat, NEW w \in 0 .. n - 1, NEW z \in 0 .. n - 1,
             u * n + w = v * n + z, u < v
      PROVE  FALSE
  <2>1. PICK d \in Nat : v = u + 1 + d
    <3>1. v - u - 1 \in Nat /\ v = u + 1 + (v - u - 1)
      BY <1>2
    <3>. QED  BY <3>1
  <2>2. v * n = u * n + n + d * n
    BY <2>1
  <2>3. d * n \in Nat /\ u * n \in Nat
    OBVIOUS
  <2>. QED  BY <1>2, <2>2, <2>3
<1>3. x = q
  <2>1. ~ (x < q)
    BY <1>0, <1>1, <1>2
  <2>2. ~ (q < x)
    BY <1>0, <1>1, <1>2
  <2>. QED  BY <2>1, <2>2
<1>. QED  BY <1>0, <1>1, <1>3

\* The constants, one by one.
LEMMA Constants ==
  /\ NINODES \in Nat \ {0} /\ ROOM \in Nat \ {0} /\ NBITS \in Nat \ {0}
  /\ BITS \in Nat \ {0} /\ DATASTART \in Nat \ {0}
  /\ BITS <= DATASTART /\ BITS < NBITS
  /\ Len(Programs) \in Nat /\ Len(Programs) + 2 <= ROOM
  /\ Len(Programs) + 1 < NINODES /\ Len(Programs) < NBITS
  /\ ROOTINO \in Inums /\ 0 \in Slots /\ 0 \notin Inums
  /\ Slots \subseteq Nat /\ Inums \subseteq Nat /\ Bits \subseteq Nat
  /\ Types \subseteq {"file", "dev", "dir"}
<1>1. Len(Programs) \in Nat
  BY StorageAssumption
<1>. QED  BY <1>1, StorageAssumption DEF ROOTINO, Inums, Slots, Bits

\* block_alloc takes a bit of the free map, whatever is in use.
LEMMA SearchFinds == freemap_search \in Bits
<1>. DEFINE S == {b \in 0 .. BITS : b = BITS \/ b \notin used}
<1>1. S \in SUBSET Nat /\ BITS \in S
  BY Constants
<1>2. Least(S) \in S
  BY <1>1, LeastIn
<1>3. Least(S) \in 0 .. NBITS - 1 /\ 0 \in 0 .. NBITS - 1
  BY <1>2, Constants
<1>. QED  BY <1>3 DEF freemap_search, Bits

\* The slot dir_link takes is empty or just behind the last one.
LEMMA FreeSlotValue ==
  ASSUME TypeOK, RootKept
  PROVE  /\ FreeSlot \in 0 .. ROOM
         /\ FreeSlot >= mem[ROOTINO].size => FreeSlot = mem[ROOTINO].size
         /\ FreeSlot < mem[ROOTINO].size => entry[FreeSlot].inum = 0
         /\ FreeSlot # 0
<1>. DEFINE size == mem[ROOTINO].size
            S == {s \in 0 .. ROOM : s >= size \/ entry[s].inum = 0}
<1>1. size \in 1 .. ROOM
  BY Constants DEF TypeOK, RootKept, Inode
<1>2. S \in SUBSET Nat /\ size \in S /\ 0 \notin S
  BY <1>1, Constants DEF RootKept, ROOTINO
<1>3. Least(S) \in S /\ \A y \in S : Least(S) <= y
  BY <1>2, LeastIn
<1>4. FreeSlot = Least(S)
  BY DEF FreeSlot
<1>5. FreeSlot \in S /\ FreeSlot <= size
  BY <1>2, <1>3, <1>4
<1>6. /\ FreeSlot \in 0 .. ROOM /\ (FreeSlot >= size \/ entry[FreeSlot].inum = 0)
      /\ FreeSlot # 0
  BY <1>2, <1>5
<1>. HIDE DEF size, S
<1>. QED  BY <1>1, <1>5, <1>6 DEF size

\* The links to an inode are finitely many.
LEMMA LinksFinite ==
  \A i : IsFiniteSet(LinksTo(i)) /\ Cardinality(LinksTo(i)) \in Nat
<1>. TAKE i
<1>1. IsFiniteSet(Slots)
  BY FS_Interval, Constants DEF Slots
<1>2. LinksTo(i) \in SUBSET Slots
  BY DEF LinksTo, Entries
<1>. QED  BY <1>1, <1>2, FS_Subset, FS_CardinalityType

\* An inode that is not in use is in no entry.
LEMMA FreeNotLinked ==
  ASSUME TypeOK, RootKept, DirectoryConsistent,
         NEW i \in Inums \ {ROOTINO}, dinode[i].type = "none"
  PROVE  LinksTo(i) = {}
<1>1. ASSUME NEW s \in LinksTo(i) PROVE FALSE
  <2>1. s \in Entries(mem[ROOTINO].size) /\ entry[s].inum = i /\ s # 0
    BY <1>1 DEF LinksTo, RootKept
  <2>. QED  BY <2>1 DEF DirectoryConsistent
<1>. QED  BY <1>1

\* What only depends on the entries and on the size of the root directory.
LEMMA DirectoryUnchanged ==
  ASSUME entry' = entry, mem'[ROOTINO].size = mem[ROOTINO].size
  PROVE  /\ FreeSlot' = FreeSlot
         /\ Entries(mem[ROOTINO].size)' = Entries(mem[ROOTINO].size)
         /\ \A i : LinksTo(i)' = LinksTo(i)
BY DEF FreeSlot, Entries, LinksTo

\* A step that changes no entry and takes no link from an inode that has entries.
LEMMA DirectoryKept ==
  ASSUME DirectoryConsistent, TypeOK, TypeOK',
         entry' = entry, mem'[ROOTINO].size = mem[ROOTINO].size,
         \A i \in Inums : /\ dinode[i].type # "none" => dinode'[i].type # "none"
                          /\ dinode'[i].nlink >= dinode[i].nlink
                               \/ dinode'[i].nlink >= Cardinality(LinksTo(i))
  PROVE  DirectoryConsistent'
<1>1. /\ Entries(mem[ROOTINO].size)' = Entries(mem[ROOTINO].size)
      /\ \A i : LinksTo(i)' = LinksTo(i)
  BY DirectoryUnchanged
<1>2. SUFFICES ASSUME NEW s \in Entries(mem[ROOTINO].size) \ {0}
               PROVE  /\ dinode'[entry[s].inum].type # "none"
                      /\ dinode'[entry[s].inum].nlink >= Cardinality(LinksTo(entry[s].inum))
                      /\ \A t \in Entries(mem[ROOTINO].size) : entry[s].name = entry[t].name => s = t
  BY <1>1 DEF DirectoryConsistent
<1>3. PICK i \in Inums : i = entry[s].inum
  BY DEF Entries, TypeOK
<1>4. /\ dinode[i].type # "none" /\ dinode[i].nlink >= Cardinality(LinksTo(i))
      /\ \A t \in Entries(mem[ROOTINO].size) : entry[s].name = entry[t].name => s = t
  BY <1>3 DEF DirectoryConsistent
<1>5. /\ dinode[i].nlink \in Nat /\ dinode'[i].nlink \in Nat
      /\ Cardinality(LinksTo(i)) \in Nat
  BY LinksFinite DEF TypeOK, Inode
<1>. QED  BY <1>3, <1>4, <1>5

\* A step that changes neither the entries nor the inodes on the disk.
LEMMA DirectorySame ==
  ASSUME DirectoryConsistent, entry' = entry, dinode' = dinode,
         mem'[ROOTINO].size = mem[ROOTINO].size
  PROVE  DirectoryConsistent'
<1>1. /\ Entries(mem[ROOTINO].size)' = Entries(mem[ROOTINO].size)
      /\ \A i : LinksTo(i)' = LinksTo(i)
  BY DirectoryUnchanged
<1>. QED  BY <1>1 DEF DirectoryConsistent

----------------------------------------------------------------------------
(* Steps of a call *)

\* The inode of a call is not the root, and is cached.
LEMMA InodeOfCall ==
  ASSUME Inductive, op.at \notin {"idle", "panic"}
  PROVE  /\ op.inum \in Inums /\ op.inum # ROOTINO /\ mem[op.inum] # NULL
         /\ mem[op.inum] \in Inode /\ dinode[op.inum] \in Inode
BY DEF Inductive, CallConsistent, TypeOK

\* The inode of the root directory is cached.
LEMMA InodeOfRoot ==
  ASSUME Inductive
  PROVE  /\ mem[ROOTINO] # NULL /\ mem[ROOTINO] \in Inode
         /\ dinode[ROOTINO] \in Inode /\ ROOTINO \in Inums
BY Constants DEF Inductive, RootKept, TypeOK

\* Calls with and without a name.
LEMMA CallTypes ==
  /\ Idle \in Calls
  /\ \A at \in {"nlink", "map", "addr", "data", "size", "dotdot", "link"}, i \in Inums, nm \in Name :
       Call(at, i, nm) \in Calls
  /\ \A n \in Names : Plain(n) \in Name /\ Slashed(n) \in Name
<1>1. \A n \in Names \cup {""} : Plain(n) \in Name /\ Slashed(n) \in Name
  BY DEF Plain, Slashed, Name, Texts
<1>2. Idle \in Calls
  BY <1>1 DEF Idle, Calls
<1>3. ASSUME NEW at \in {"nlink", "map", "addr", "data", "size", "dotdot", "link"},
             NEW i \in Inums, NEW nm \in Name
      PROVE  Call(at, i, nm) \in Calls
  BY DEF Call, Calls
<1>. QED  BY <1>1, <1>2, <1>3

\* Nothing is asked of a state in which no call runs.
LEMMA NoCall ==
  ASSUME op'.at \in {"idle", "panic"} PROVE CallConsistent'
BY DEF CallConsistent, Linking

\* A step of a call that goes on with the same inode.
LEMMA CallGoesOn ==
  ASSUME Inductive, op.at \notin {"idle", "panic"},
         entry' = entry, mem'[ROOTINO].size = mem[ROOTINO].size,
         op'.inum = op.inum, op'.at # "nlink", mem'[op.inum] # NULL,
         op'.at = "addr" => op'.block \in used',
         op'.at \in {"data", "size", "dotdot"} => mem'[op.inum].addr # NULL,
         Linking' => /\ Linking /\ dinode'[op.inum].type # "none"
                     /\ dinode'[op.inum].nlink >= Cardinality(LinksTo(op.inum)) + 1
  PROVE  CallConsistent'
<1>1. op.inum \in Inums \ {ROOTINO}
  BY InodeOfCall
<1>2. FreeSlot' = FreeSlot /\ \A i : LinksTo(i)' = LinksTo(i)
  BY DirectoryUnchanged
<1>3. LinksTo(op.inum)' = LinksTo(op.inum)
  <2>1. PICK i \in Inums : i = op.inum
    BY <1>1
  <2>2. LinksTo(i)' = LinksTo(i)
    BY <1>2
  <2>3. LinksTo(op.inum)' = LinksTo(i)'
    BY <2>1 DEF LinksTo
  <2>. QED  BY <2>1, <2>2, <2>3
<1>4. Linking' => FreeSlot' < ROOM
  BY <1>2 DEF Inductive, CallConsistent
<1>. QED  BY <1>1, <1>3, <1>4 DEF CallConsistent

\* The link count of a new inode is written.
LEMMA CreateFlushKeeps == Inductive /\ CreateFlush => Inductive'
<1>. SUFFICES ASSUME Inductive, CreateFlush PROVE Inductive'
  OBVIOUS
<1>. USE DEF Inductive
<1>1. /\ op.inum \in Inums /\ op.inum # ROOTINO /\ mem[op.inum] # NULL
      /\ mem[op.inum] \in Inode /\ dinode[op.inum] \in Inode
      /\ mem[ROOTINO] # NULL /\ mem[ROOTINO] \in Inode
      /\ dinode[ROOTINO] \in Inode /\ ROOTINO \in Inums
  BY InodeOfCall, InodeOfRoot DEF CreateFlush
<1>. DEFINE ino == [mem[op.inum] EXCEPT !.nlink = 1]
            dir == ino.type = "dir"
<1>2. /\ dinode' = [dinode EXCEPT ![op.inum] = ino]
      /\ mem'[op.inum] = ino
      /\ mem'[ROOTINO] = [mem[ROOTINO] EXCEPT !.nlink = IF dir THEN @ + 1 ELSE @]
      /\ \A j \in Inums \ {ROOTINO, op.inum} : mem'[j] = mem[j]
      /\ mem' = [mem EXCEPT ![op.inum] = ino, ![ROOTINO] = mem'[ROOTINO]]
      /\ op' = [op EXCEPT !.at = IF dir THEN "map" ELSE "link"]
      /\ op.at = "nlink"
      /\ UNCHANGED <<entry, content, used>>
  BY <1>1 DEF CreateFlush, Goto, TypeOK
<1>3. /\ ino \in Inode /\ ino.nlink = 1 /\ ino.type = mem[op.inum].type
      /\ ino.addr = mem[op.inum].addr /\ ino.size = mem[op.inum].size
  BY <1>1 DEF Inode
<1>3a. /\ mem'[ROOTINO] \in Inode /\ mem'[ROOTINO].size = mem[ROOTINO].size
       /\ mem'[ROOTINO].type = mem[ROOTINO].type
       /\ mem'[ROOTINO].addr = mem[ROOTINO].addr
  BY <1>1, <1>2 DEF Inode
<1>. HIDE DEF ino
<1>4. TypeOK'
  BY <1>1, <1>2, <1>3, <1>3a DEF TypeOK, Calls
<1>5. Cardinality(LinksTo(op.inum)) = 0
  BY <1>2, FS_EmptySet DEF CallConsistent, Linking
<1>6. DirectoryConsistent'
  <2>1. \A j \in Inums : /\ dinode[j].type # "none" => dinode'[j].type # "none"
                         /\ dinode'[j].nlink >= dinode[j].nlink
                              \/ dinode'[j].nlink >= Cardinality(LinksTo(j))
    BY <1>1, <1>2, <1>3, <1>5 DEF TypeOK, Inode, CopiesMatch
  <2>. QED  BY <1>2, <1>3a, <1>4, <2>1, DirectoryKept
<1>7. SizeBacked'
  BY <1>1, <1>2, <1>3 DEF SizeBacked, TypeOK, CopiesMatch, Inode
<1>8. CopiesMatch'
  <2>1. ASSUME NEW j \in Inums \ {ROOTINO, op.inum} PROVE mem'[j] = mem[j] /\ dinode'[j] = dinode[j]
    BY <1>2 DEF TypeOK, Calls
  <2>2. /\ mem'[op.inum] = ino /\ dinode'[op.inum] = ino
        /\ dinode'[ROOTINO] = dinode[ROOTINO]
    BY <1>1, <1>2 DEF TypeOK
  <2>. QED  BY <1>1, <1>3, <1>3a, <2>1, <2>2 DEF CopiesMatch
<1>9. RootKept'
  BY <1>1, <1>2, <1>3, <1>3a, NoInodeAssumption DEF RootKept, TypeOK
<1>10. CallConsistent'
  <2>1. /\ dinode'[op.inum].type # "none"
        /\ dinode'[op.inum].nlink >= Cardinality(LinksTo(op.inum)) + 1
    BY <1>1, <1>2, <1>3, <1>5 DEF TypeOK, CopiesMatch, CallConsistent, Linking
  <2>2. Linking
    BY <1>2 DEF Linking
  <2>3. op'.inum = op.inum /\ op'.at \in {"map", "link"} /\ mem'[op.inum] # NULL
    BY <1>2, <1>3, NoInodeAssumption DEF TypeOK, Calls
  <2>4. mem'[ROOTINO].size = mem[ROOTINO].size /\ entry' = entry
    BY <1>2, <1>3a
  <2>. QED  BY <1>2, <2>1, <2>2, <2>3, <2>4, CallGoesOn
<1>. QED  BY <1>4, <1>6, <1>7, <1>8, <1>9, <1>10

\* The first write to a new directory reads its inode back from the disk.
LEMMA LinkDotKeeps == Inductive /\ LinkDot => Inductive'
<1>. SUFFICES ASSUME Inductive, LinkDot PROVE Inductive'
  OBVIOUS
<1>. USE DEF Inductive
<1>1. /\ op.inum \in Inums /\ op.inum # ROOTINO /\ mem[op.inum] # NULL
      /\ mem[op.inum] \in Inode /\ dinode[op.inum] \in Inode
      /\ mem[ROOTINO] # NULL /\ mem[ROOTINO] \in Inode
      /\ dinode[ROOTINO] \in Inode /\ ROOTINO \in Inums
  BY InodeOfCall, InodeOfRoot DEF LinkDot
<1>2. /\ op.at = "data" /\ mem[op.inum].type = "dir" /\ op' = [op EXCEPT !.at = "size"]
      /\ mem' = [mem EXCEPT ![op.inum] = dinode[op.inum]]
      /\ content' = [content EXCEPT ![dinode[op.inum].addr] = op.inum]
      /\ UNCHANGED <<dinode, entry, used>>
  BY <1>1 DEF LinkDot, Goto, TypeOK
<1>3. dinode[op.inum].addr = mem[op.inum].addr /\ dinode[op.inum].addr \in used
  BY <1>1, <1>2 DEF CopiesMatch, CallConsistent, SizeBacked
<1>4. TypeOK'
  BY <1>1, <1>2, <1>3 DEF TypeOK, Calls
<1>5. mem'[ROOTINO] = mem[ROOTINO] /\ entry' = entry /\ mem'[op.inum] = dinode[op.inum]
  BY <1>1, <1>2 DEF TypeOK
<1>6. DirectoryConsistent'
  BY <1>2, <1>4, <1>5, DirectoryKept DEF TypeOK, Inode
<1>7. SizeBacked'
  BY <1>2, <1>3 DEF SizeBacked, TypeOK
<1>8. CopiesMatch'
  BY <1>1, <1>2 DEF TypeOK, CopiesMatch, SizeBacked
<1>9. RootKept'
  BY <1>2, <1>5 DEF RootKept
<1>10. CallConsistent'
  <2>1. Linking /\ op'.inum = op.inum /\ op'.at = "size"
    BY <1>2 DEF Linking, TypeOK
  <2>2. mem'[op.inum] # NULL /\ mem'[op.inum].addr # NULL
    BY <1>1, <1>2, <1>3, <1>5, NoInodeAssumption DEF CallConsistent
  <2>3. /\ dinode'[op.inum].type # "none"
        /\ dinode'[op.inum].nlink >= Cardinality(LinksTo(op.inum)) + 1
    BY <1>2, <2>1 DEF CallConsistent
  <2>. QED  BY <1>2, <1>5, <2>1, <2>2, <2>3, CallGoesOn
<1>. QED  BY <1>4, <1>6, <1>7, <1>8, <1>9, <1>10

\* The entry .. of a new directory changes its size in memory.
LEMMA LinkDotDotKeeps == Inductive /\ LinkDotDot => Inductive'
<1>. SUFFICES ASSUME Inductive, LinkDotDot PROVE Inductive'
  OBVIOUS
<1>. USE DEF Inductive
<1>1. /\ op.inum \in Inums /\ op.inum # ROOTINO /\ mem[op.inum] # NULL
      /\ mem[op.inum] \in Inode /\ dinode[op.inum] \in Inode
      /\ mem[ROOTINO] # NULL /\ mem[ROOTINO] \in Inode
      /\ dinode[ROOTINO] \in Inode /\ ROOTINO \in Inums
  BY InodeOfCall, InodeOfRoot DEF LinkDotDot
<1>2. /\ op.at = "dotdot" /\ op' = [op EXCEPT !.at = "link"]
      /\ mem' = [mem EXCEPT ![op.inum] = [mem[op.inum] EXCEPT !.size = 2]]
      /\ content' = [content EXCEPT ![mem[op.inum].addr] = op.inum]
      /\ UNCHANGED <<dinode, entry, used>>
  BY <1>1 DEF LinkDotDot, Goto, TypeOK
<1>3. dinode[op.inum].addr = mem[op.inum].addr /\ dinode[op.inum].addr \in used
  BY <1>1, <1>2 DEF CopiesMatch, CallConsistent, SizeBacked
<1>5. /\ mem'[ROOTINO] = mem[ROOTINO] /\ entry' = entry /\ mem'[op.inum] \in Inode
      /\ mem'[op.inum].type = mem[op.inum].type
      /\ mem'[op.inum].addr = mem[op.inum].addr
      /\ mem'[op.inum].nlink = mem[op.inum].nlink
  BY <1>1, <1>2 DEF TypeOK, Inode
<1>4. TypeOK'
  BY <1>1, <1>2, <1>3, <1>5 DEF TypeOK, Calls
<1>6. DirectoryConsistent'
  BY <1>2, <1>4, <1>5, DirectoryKept DEF TypeOK, Inode
<1>7. SizeBacked'
  BY <1>2, <1>3 DEF SizeBacked, TypeOK
<1>8. CopiesMatch'
  BY <1>1, <1>2, <1>3, <1>5 DEF TypeOK, CopiesMatch, SizeBacked, CallConsistent
<1>9. RootKept'
  BY <1>2, <1>5 DEF RootKept
<1>10. CallConsistent'
  <2>1. op'.inum = op.inum /\ op'.at = "link"
    BY <1>2 DEF TypeOK, Calls
  <2>2. mem'[op.inum] # NULL
    BY <1>5, NoInodeAssumption
  <2>3. Linking
    BY <1>2 DEF Linking
  <2>4. /\ dinode'[op.inum].type # "none"
        /\ dinode'[op.inum].nlink >= Cardinality(LinksTo(op.inum)) + 1
    BY <1>2, <2>3 DEF CallConsistent
  <2>. QED  BY <1>2, <1>5, <2>1, <2>2, <2>3, <2>4, CallGoesOn
<1>. QED  BY <1>4, <1>6, <1>7, <1>8, <1>9, <1>10

\* block_alloc marks the block before anything refers to it.
LEMMA BlockAllocKeeps == Inductive /\ block_alloc => Inductive'
<1>. SUFFICES ASSUME Inductive, block_alloc PROVE Inductive'
  OBVIOUS
<1>. USE DEF Inductive
<1>1. /\ op.inum \in Inums /\ op.inum # ROOTINO /\ mem[op.inum] # NULL
      /\ mem[op.inum] \in Inode /\ dinode[op.inum] \in Inode
      /\ mem[ROOTINO] # NULL /\ mem[ROOTINO] \in Inode
      /\ dinode[ROOTINO] \in Inode /\ ROOTINO \in Inums
  BY InodeOfCall, InodeOfRoot DEF block_alloc
<1>2. /\ op.at = "map" /\ op' = [op EXCEPT !.at = "addr", !.block = freemap_search]
      /\ used' = used \cup {freemap_search} /\ freemap_search \in Bits
      /\ UNCHANGED <<dinode, entry, content, mem>>
  BY SearchFinds DEF block_alloc
<1>4. TypeOK'
  BY <1>2 DEF TypeOK, Calls
<1>6. DirectoryConsistent'
  BY <1>2, <1>4, DirectoryKept DEF TypeOK, Inode
<1>7. SizeBacked'
  BY <1>2 DEF SizeBacked, TypeOK
<1>8. CopiesMatch'
  BY <1>2 DEF CopiesMatch
<1>9. RootKept'
  BY <1>2 DEF RootKept
<1>10. CallConsistent'
  <2>1. op'.inum = op.inum /\ op'.at = "addr" /\ op'.block \in used'
    BY <1>2 DEF TypeOK, Calls
  <2>2. Linking' => Linking
    BY <1>2, <2>1 DEF Linking
  <2>3. Linking => /\ dinode'[op.inum].type # "none"
                   /\ dinode'[op.inum].nlink >= Cardinality(LinksTo(op.inum)) + 1
    BY <1>2 DEF CallConsistent
  <2>. QED  BY <1>1, <1>2, <2>1, <2>2, <2>3, CallGoesOn
<1>. QED  BY <1>4, <1>6, <1>7, <1>8, <1>9, <1>10

\* bmap0 writes the address of the block into the inode.
LEMMA BmapKeeps == Inductive /\ bmap0 => Inductive'
<1>. SUFFICES ASSUME Inductive, bmap0 PROVE Inductive'
  OBVIOUS
<1>. USE DEF Inductive
<1>1. /\ op.inum \in Inums /\ op.inum # ROOTINO /\ mem[op.inum] # NULL
      /\ mem[op.inum] \in Inode /\ dinode[op.inum] \in Inode
      /\ mem[ROOTINO] # NULL /\ mem[ROOTINO] \in Inode
      /\ dinode[ROOTINO] \in Inode /\ ROOTINO \in Inums
  BY InodeOfCall, InodeOfRoot DEF bmap0
<1>. DEFINE ino == [mem[op.inum] EXCEPT !.addr = op.block]
<1>2. /\ op.at = "addr" /\ op' = Call("data", op.inum, op.name)
      /\ mem' = [mem EXCEPT ![op.inum] = ino]
      /\ dinode' = [dinode EXCEPT ![op.inum] = ino]
      /\ UNCHANGED <<entry, content, used>>
  BY DEF bmap0, Flush
<1>3. /\ ino \in Inode /\ ino.addr = op.block /\ op.block \in used /\ op.block # NULL
      /\ ino.type = mem[op.inum].type /\ ino.nlink = mem[op.inum].nlink
      /\ ino.type = dinode[op.inum].type
      /\ ino.nlink = dinode[op.inum].nlink
  <2>1. op.block \in used
    BY <1>2 DEF CallConsistent
  <2>2. op.block \in Bits /\ op.block # NULL
    <3>1. op.block \in Bits
      BY <2>1 DEF TypeOK
    <3>. QED  BY <3>1, StorageAssumption DEF Bits
  <2>. QED  BY <1>1, <2>1, <2>2 DEF Inode, CopiesMatch
<1>. HIDE DEF ino
<1>5. /\ mem'[ROOTINO] = mem[ROOTINO] /\ dinode'[ROOTINO] = dinode[ROOTINO]
      /\ entry' = entry
      /\ mem'[op.inum] = ino /\ dinode'[op.inum] = ino
      /\ \A j \in Inums \ {op.inum} : mem'[j] = mem[j] /\ dinode'[j] = dinode[j]
  BY <1>1, <1>2 DEF TypeOK
<1>4. TypeOK'
  BY <1>1, <1>2, <1>3, CallTypes DEF TypeOK, Calls
<1>6. DirectoryConsistent'
  <2>1. \A j \in Inums : /\ dinode[j].type # "none" => dinode'[j].type # "none"
                         /\ dinode'[j].nlink >= dinode[j].nlink
    BY <1>3, <1>5 DEF TypeOK, Inode
  <2>. QED  BY <1>4, <1>5, <2>1, DirectoryKept
<1>7. SizeBacked'
  BY <1>2, <1>3, <1>5 DEF SizeBacked
<1>8. CopiesMatch'
  BY <1>3, <1>5 DEF CopiesMatch
<1>9. RootKept'
  BY <1>5 DEF RootKept
<1>10. CallConsistent'
  <2>1. op'.inum = op.inum /\ op'.at = "data"
    BY <1>2 DEF Call
  <2>2. Linking' => Linking
    BY <1>2, <1>3, <1>5, <2>1 DEF Linking
  <2>3. Linking => /\ dinode'[op.inum].type # "none"
                   /\ dinode'[op.inum].nlink >= Cardinality(LinksTo(op.inum)) + 1
    BY <1>2, <1>3, <1>5 DEF CallConsistent
  <2>4. mem'[op.inum] # NULL /\ mem'[op.inum].addr # NULL
    BY <1>3, <1>5, NoInodeAssumption
  <2>. QED  BY <1>2, <1>5, <2>1, <2>2, <2>3, <2>4, CallGoesOn
<1>. QED  BY <1>4, <1>6, <1>7, <1>8, <1>9, <1>10

\* The data goes to a block that is marked.
LEMMA WriteDataKeeps == Inductive /\ WriteData => Inductive'
<1>. SUFFICES ASSUME Inductive, WriteData PROVE Inductive'
  OBVIOUS
<1>. USE DEF Inductive
<1>1. /\ op.inum \in Inums /\ op.inum # ROOTINO /\ mem[op.inum] # NULL
      /\ mem[op.inum] \in Inode /\ dinode[op.inum] \in Inode
      /\ mem[ROOTINO] # NULL /\ mem[ROOTINO] \in Inode
      /\ dinode[ROOTINO] \in Inode /\ ROOTINO \in Inums
  BY InodeOfCall, InodeOfRoot DEF WriteData
<1>2. /\ op.at = "data" /\ mem[op.inum].type = "file"
      /\ content' = [content EXCEPT ![mem[op.inum].addr] = op.inum]
      /\ op' = [op EXCEPT !.at = "size"] \/ op' = Idle
      /\ UNCHANGED <<dinode, entry, used, mem>>
  BY DEF WriteData, Goto
<1>3. mem[op.inum].addr = dinode[op.inum].addr /\ mem[op.inum].addr \in used
  BY <1>1, <1>2 DEF CopiesMatch, CallConsistent, SizeBacked
<1>5. op' = Idle \/ (op'.inum = op.inum /\ op'.at = "size" /\ op'.name = op.name /\ op'.block = op.block)
  BY <1>2 DEF TypeOK, Calls
<1>4. TypeOK'
  <2>1. content' \in [Bits -> Inums \cup {0}]
    BY <1>1, <1>2, <1>3 DEF TypeOK
  <2>2. CASE op' = Idle
    BY <1>2, <2>1, <2>2, CallTypes DEF TypeOK
  <2>3. CASE op' = [op EXCEPT !.at = "size"]
    BY <1>2, <2>1, <2>3 DEF TypeOK, Calls
  <2>. QED  BY <1>2, <2>2, <2>3
<1>6. DirectoryConsistent'
  BY <1>2, <1>4, DirectoryKept DEF TypeOK, Inode
<1>7. SizeBacked'
  BY <1>2, <1>3 DEF SizeBacked, TypeOK
<1>8. CopiesMatch'
  BY <1>2 DEF CopiesMatch
<1>9. RootKept'
  BY <1>2 DEF RootKept
<1>10. CallConsistent'
  <2>1. CASE op' = Idle
    BY <2>1, NoCall DEF Idle
  <2>2. CASE op'.inum = op.inum /\ op'.at = "size"
    <3>1. ~Linking' /\ mem'[op.inum].addr # NULL
      BY <1>2, <2>2 DEF Linking, CallConsistent
    <3>. QED  BY <1>1, <1>2, <2>2, <3>1, CallGoesOn
  <2>. QED  BY <1>5, <2>1, <2>2
<1>. QED  BY <1>4, <1>6, <1>7, <1>8, <1>9, <1>10

\* The size is written after the block it covers.
LEMMA WriteSizeKeeps == Inductive /\ WriteSize => Inductive'
<1>. SUFFICES ASSUME Inductive, WriteSize PROVE Inductive'
  OBVIOUS
<1>. USE DEF Inductive
<1>1. /\ op.inum \in Inums /\ op.inum # ROOTINO /\ mem[op.inum] # NULL
      /\ mem[op.inum] \in Inode /\ dinode[op.inum] \in Inode
      /\ mem[ROOTINO] # NULL /\ mem[ROOTINO] \in Inode
      /\ dinode[ROOTINO] \in Inode /\ ROOTINO \in Inums
  BY InodeOfCall, InodeOfRoot DEF WriteSize
<1>. DEFINE ino == [mem[op.inum] EXCEPT !.size = 1]
<1>2. /\ op.at = "size"
      /\ mem' = [mem EXCEPT ![op.inum] = ino]
      /\ dinode' = [dinode EXCEPT ![op.inum] = ino]
      /\ \/ mem[op.inum].type = "dir" /\ op' = [op EXCEPT !.at = "dotdot"]
         \/ op' = Idle
      /\ UNCHANGED <<entry, content, used>>
  BY DEF WriteSize, Flush, Goto
<1>3. /\ ino \in Inode /\ ino.addr = dinode[op.inum].addr /\ ino.addr # NULL
      /\ ino.addr \in used
      /\ ino.type = mem[op.inum].type /\ ino.type = dinode[op.inum].type
      /\ ino.nlink = dinode[op.inum].nlink
  BY <1>1, <1>2 DEF Inode, CallConsistent, CopiesMatch, SizeBacked
<1>. HIDE DEF ino
<1>5. /\ mem'[ROOTINO] = mem[ROOTINO] /\ dinode'[ROOTINO] = dinode[ROOTINO]
      /\ entry' = entry
      /\ mem'[op.inum] = ino /\ dinode'[op.inum] = ino
      /\ \A j \in Inums \ {op.inum} : mem'[j] = mem[j] /\ dinode'[j] = dinode[j]
  BY <1>1, <1>2 DEF TypeOK
<1>4. TypeOK'
  <2>1. CASE op' = Idle
    BY <1>2, <1>3, <2>1, CallTypes DEF TypeOK
  <2>2. CASE op' = [op EXCEPT !.at = "dotdot"]
    BY <1>2, <1>3, <2>2 DEF TypeOK, Calls
  <2>. QED  BY <1>2, <2>1, <2>2
<1>6. DirectoryConsistent'
  <2>1. \A j \in Inums : /\ dinode[j].type # "none" => dinode'[j].type # "none"
                         /\ dinode'[j].nlink >= dinode[j].nlink
    BY <1>3, <1>5 DEF TypeOK, Inode
  <2>. QED  BY <1>4, <1>5, <2>1, DirectoryKept
<1>7. SizeBacked'
  BY <1>2, <1>3, <1>5 DEF SizeBacked
<1>8. CopiesMatch'
  BY <1>3, <1>5 DEF CopiesMatch
<1>9. RootKept'
  BY <1>5 DEF RootKept
<1>10. CallConsistent'
  <2>1. CASE op' = Idle
    BY <2>1, NoCall DEF Idle
  <2>2. CASE mem[op.inum].type = "dir" /\ op' = [op EXCEPT !.at = "dotdot"]
    <3>1. op'.inum = op.inum /\ op'.at = "dotdot" /\ Linking
      BY <1>2, <2>2 DEF TypeOK, Calls, Linking
    <3>2. /\ dinode'[op.inum].type # "none"
          /\ dinode'[op.inum].nlink >= Cardinality(LinksTo(op.inum)) + 1
      BY <1>2, <1>3, <1>5, <3>1 DEF CallConsistent
    <3>3. mem'[op.inum] # NULL /\ mem'[op.inum].addr # NULL
      BY <1>3, <1>5, NoInodeAssumption
    <3>. QED  BY <1>2, <1>5, <3>1, <3>2, <3>3, CallGoesOn
  <2>. QED  BY <1>2, <2>1, <2>2
<1>. QED  BY <1>4, <1>6, <1>7, <1>8, <1>9, <1>10

----------------------------------------------------------------------------
(* The other steps *)

\* inode_allocate takes an inode that no entry names.
LEMMA AllocateKeeps ==
  ASSUME Inductive, NEW n \in Names, NEW type \in Types, inode_allocate(n, type)
  PROVE  Inductive'
<1>. USE DEF Inductive
<1>. DEFINE free == {i \in Inums \ {ROOTINO} : dinode[i].type = "none"}
            i == Least(free)
<1>1. CASE free = {}
  <2>1. /\ UNCHANGED <<dinode, entry, content, used, mem>>
        /\ op' = [op EXCEPT !.at = "panic"]
    BY <1>1 DEF inode_allocate, Goto, disk
  <2>2. TypeOK' /\ op'.at = "panic"
    BY <2>1 DEF TypeOK, Calls
  <2>3. DirectoryConsistent'
    BY <2>1, <2>2, DirectoryKept DEF TypeOK, Inode
  <2>4. SizeBacked' /\ CopiesMatch' /\ RootKept'
    BY <2>1 DEF SizeBacked, CopiesMatch, RootKept
  <2>. QED  BY <2>2, <2>3, <2>4, NoCall
<1>2. CASE free # {}
  <2>1. i \in free
    <3>1. free \in SUBSET Nat
      BY Constants DEF Inums, ROOTINO
    <3>. QED  BY <1>2, <3>1, LeastIn
  <2>2. /\ dinode' = [dinode EXCEPT ![i].type = type]
        /\ mem' = [j \in Inums |-> IF 1 < j /\ j <= i THEN dinode'[j] ELSE mem[j]]
        /\ op' = Call("nlink", i, Plain(n)) /\ FreeSlot < ROOM
        /\ UNCHANGED <<entry, content, used>>
    BY <1>2 DEF inode_allocate
  <2>. HIDE DEF i
  <2>3. PICK k \in Inums : k = i /\ k # ROOTINO /\ dinode[k].type = "none" /\ 1 < k
    <3>1. i \in Inums /\ i # ROOTINO /\ dinode[i].type = "none"
      BY <2>1
    <3>2. i > 1
      BY <3>1, Constants DEF Inums, ROOTINO
    <3>. QED  BY <3>1, <3>2
  <2>4. /\ dinode' \in [Inums -> Inode] /\ dinode'[k].type = type /\ type # "none"
        /\ dinode'[k].addr = dinode[k].addr /\ dinode'[k].size = dinode[k].size
        /\ dinode'[k].nlink = dinode[k].nlink
        /\ \A j \in Inums \ {k} : dinode'[j] = dinode[j]
    BY <2>2, <2>3, Constants, ZenonT(30) DEF TypeOK, Inode
  <2>5. /\ mem' \in [Inums -> Inode \cup {NULL}]
        /\ mem'[ROOTINO] = mem[ROOTINO] /\ mem'[k] = dinode'[k]
        /\ \A j \in Inums \ {k} : mem'[j] = mem[j] \/ (mem'[j] = dinode'[j] /\ j # ROOTINO)
    <3>1. \A j \in Inums : mem'[j] = IF 1 < j /\ j <= k THEN dinode'[j] ELSE mem[j]
      BY <2>2, <2>3
    <3>2. k \in Int /\ ~ (1 < ROOTINO) /\ ROOTINO \in Inums
      BY Constants DEF Inums, ROOTINO
    <3>. QED  BY <2>2, <2>3, <2>4, <3>1, <3>2 DEF TypeOK
  <2>6. TypeOK'
    BY <2>2, <2>3, <2>4, <2>5, CallTypes DEF TypeOK
  <2>7. DirectoryConsistent'
    <3>1. \A j \in Inums : /\ dinode[j].type # "none" => dinode'[j].type # "none"
                           /\ dinode'[j].nlink >= dinode[j].nlink
      BY <2>3, <2>4 DEF TypeOK, Inode
    <3>. QED  BY <2>2, <2>5, <2>6, <3>1, DirectoryKept
  <2>8. SizeBacked'
    BY <2>2, <2>4 DEF SizeBacked
  <2>9. CopiesMatch'
    BY <2>3, <2>4, <2>5 DEF CopiesMatch, SizeBacked
  <2>10. RootKept'
    BY <2>2, <2>3, <2>4, <2>5, Constants DEF RootKept
  <2>11. CallConsistent'
    <3>1. op'.at = "nlink" /\ op'.inum = k
      BY <2>2, <2>3 DEF Call
    <3>2. FreeSlot' = FreeSlot /\ LinksTo(k)' = LinksTo(k)
      BY <2>2, <2>5, DirectoryUnchanged
    <3>3. LinksTo(k) = {}
      BY <2>3, FreeNotLinked
    <3>4. LinksTo(op.inum)' = LinksTo(k)'
      BY <3>1 DEF LinksTo
    <3>5. mem'[k] # NULL
      BY <2>4, <2>5, NoInodeAssumption
    <3>. QED  BY <2>2, <2>3, <2>4, <3>1, <3>2, <3>3, <3>4, <3>5 DEF CallConsistent
  <2>. QED  BY <2>6, <2>7, <2>8, <2>9, <2>10, <2>11
<1>. QED  BY <1>1, <1>2

\* dir_link writes the entry when the inode on the disk already counts it.
LEMMA LinkKeeps == Inductive /\ dir_link => Inductive'
<1>. SUFFICES ASSUME Inductive, dir_link PROVE Inductive'
  OBVIOUS
<1>. USE DEF Inductive
<1>. DEFINE size == mem[ROOTINO].size
<1>1. /\ op.inum \in Inums /\ op.inum # ROOTINO
      /\ mem[ROOTINO] # NULL /\ mem[ROOTINO] \in Inode /\ ROOTINO \in Inums
  BY InodeOfCall, InodeOfRoot DEF dir_link
<1>2. PICK s \in Slots :
        /\ s = FreeSlot /\ s # 0
        /\ s >= size => s = size
        /\ s < size => entry[s].inum = 0
  <2>1. FreeSlot < ROOM
    BY DEF dir_link, CallConsistent, Linking
  <2>. QED  BY <2>1, FreeSlotValue, Constants DEF Slots
<1>3. /\ op.at = "link" /\ dir_lookup(op.name) = {} /\ op' = Idle
      /\ entry' = [entry EXCEPT ![s] = [inum |-> op.inum, name |-> op.name]]
      /\ mem' = [mem EXCEPT ![ROOTINO] =
                  [mem[ROOTINO] EXCEPT !.size = IF s < @ THEN @ ELSE s + 1]]
      /\ UNCHANGED <<dinode, content, used>>
  BY <1>2 DEF dir_link
<1>6. size \in 1 .. ROOM /\ s \in Nat
  <2>1. s \in Nat /\ ROOM \in Nat
    BY Constants
  <2>2. size \in Nat
    BY <1>1 DEF Inode
  <2>3. 0 < dinode[ROOTINO].size /\ dinode[ROOTINO].size \in Nat
    BY <1>1 DEF RootKept, TypeOK, Inode
  <2>. QED  BY <2>1, <2>2, <2>3 DEF RootKept
<1>4. /\ mem'[ROOTINO] \in Inode /\ mem'[ROOTINO].type = mem[ROOTINO].type
      /\ mem'[ROOTINO].addr = mem[ROOTINO].addr
      /\ mem'[ROOTINO].size = IF s < size THEN size ELSE s + 1
      /\ \A j \in Inums \ {ROOTINO} : mem'[j] = mem[j]
  <2>1. PICK z \in Nat : z = IF s < size THEN size ELSE s + 1
    BY <1>6
  <2>2. mem' = [mem EXCEPT ![ROOTINO] = [mem[ROOTINO] EXCEPT !.size = z]]
    BY <1>3, <2>1
  <2>3. mem'[ROOTINO] = [mem[ROOTINO] EXCEPT !.size = z]
    BY <1>1, <2>2 DEF TypeOK
  <2>4. \A j \in Inums \ {ROOTINO} : mem'[j] = mem[j]
    BY <2>2 DEF TypeOK
  <2>5. /\ mem'[ROOTINO] \in Inode /\ mem'[ROOTINO].type = mem[ROOTINO].type
        /\ mem'[ROOTINO].addr = mem[ROOTINO].addr /\ mem'[ROOTINO].size = z
    BY <1>1, <2>3 DEF Inode
  <2>. QED  BY <2>1, <2>4, <2>5
<1>5. TypeOK'
  BY <1>1, <1>2, <1>3, <1>4, CallTypes DEF TypeOK, Calls
<1>. DEFINE E == Entries(size)
<1>7. /\ Entries(mem[ROOTINO].size)' = E \cup {s} /\ s \notin E /\ 0 \in E
      /\ entry'[s] = [inum |-> op.inum, name |-> op.name]
      /\ \A t \in Slots \ {s} : entry'[t] = entry[t]
  <2>1. /\ entry'[s] = [inum |-> op.inum, name |-> op.name]
        /\ \A t \in Slots \ {s} : entry'[t] = entry[t]
    BY <1>3 DEF TypeOK
  <2>2. entry'[s].inum # 0
    BY <1>1, <2>1, Constants
  <2>3. \A t \in Slots : t \in Nat
    BY Constants DEF Slots
  <2>4. \A t \in Slots : t < mem'[ROOTINO].size <=> (t < size \/ t = s)
    <3>. HIDE DEF size
    <3>1. CASE s < size
      BY <1>4, <1>6, <2>3, <3>1
    <3>2. CASE s >= size
      <4>1. s = size /\ mem'[ROOTINO].size = s + 1
        BY <1>2, <1>4, <1>6, <3>2
      <4>. QED  BY <1>6, <2>3, <4>1
    <3>. QED  BY <1>6, <3>1, <3>2
  <2>5. Entries(mem[ROOTINO].size)' = {t \in Slots : t < mem'[ROOTINO].size /\ entry'[t].inum # 0}
    BY DEF Entries
  <2>6. s \notin E /\ 0 \in E
    BY <1>2, <1>6, Constants DEF Entries, RootKept, ROOTINO
  <2>7. E = {t \in Slots : t < size /\ entry[t].inum # 0}
    BY DEF Entries
  <2>. HIDE DEF E, size
  <2>. QED  BY <2>1, <2>2, <2>4, <2>5, <2>6, <2>7
<1>8. \A u \in E : entry[u].name # op.name
  BY <1>3 DEF dir_lookup, Entries
<1>9. PICK k \in Inums : k = op.inum
  BY <1>1
<1>10. /\ dinode[k].type # "none" /\ dinode[k].nlink >= Cardinality(LinksTo(k)) + 1
  BY <1>3, <1>9 DEF CallConsistent, Linking
<1>11. ASSUME NEW j \in Inums
       PROVE  LinksTo(j)' = IF j = k THEN LinksTo(j) \cup {s} ELSE LinksTo(j)
  <2>1. LinksTo(j)' = {t \in E \cup {s} : entry'[t].inum = j}
    BY <1>7 DEF LinksTo
  <2>2. LinksTo(j) = {t \in E : entry[t].inum = j} /\ E \subseteq Slots
    BY DEF LinksTo, Entries
  <2>. HIDE DEF E
  <2>. QED  BY <1>7, <1>9, <2>1, <2>2
<1>12. ASSUME NEW j \in Inums
       PROVE  /\ Cardinality(LinksTo(j)) \in Nat
              /\ Cardinality(LinksTo(j)') <= IF j = k THEN Cardinality(LinksTo(j)) + 1
                                                      ELSE Cardinality(LinksTo(j))
  <2>1. IsFiniteSet(LinksTo(j)) /\ Cardinality(LinksTo(j)) \in Nat
    BY LinksFinite
  <2>2. Cardinality(LinksTo(j) \cup {s}) <= Cardinality(LinksTo(j)) + 1
    <3>1. Cardinality(LinksTo(j) \cup {s}) =
            IF s \in LinksTo(j) THEN Cardinality(LinksTo(j)) ELSE Cardinality(LinksTo(j)) + 1
      BY <2>1, FS_AddElement, Zenon
    <3>. QED  BY <2>1, <3>1
  <2>. QED  BY <1>11, <2>1, <2>2
<1>13. DirectoryConsistent'
  <2>. SUFFICES ASSUME NEW t \in (E \cup {s}) \ {0}
                PROVE  /\ dinode[entry'[t].inum].type # "none"
                       /\ dinode[entry'[t].inum].nlink >= Cardinality(LinksTo(entry[t].inum)')
                       /\ \A u \in E \cup {s} : entry'[t].name = entry'[u].name => t = u
    BY <1>3, <1>7 DEF DirectoryConsistent
  <2>1. E \subseteq Slots
    BY DEF Entries
  <2>2. CASE t = s
    <3>1. entry'[t].inum = k /\ entry'[t].name = op.name
      BY <1>7, <1>9, <2>2
    <3>2. LinksTo(entry[t].inum)' = LinksTo(k)'
      BY <3>1 DEF LinksTo
    <3>3. dinode[k].nlink >= Cardinality(LinksTo(k)')
      <4>1. Cardinality(LinksTo(k)') \in Nat
        BY LinksFinite, <1>11, FS_AddElement, FS_CardinalityType
      <4>. QED  BY <1>10, <1>12, <4>1 DEF TypeOK, Inode
    <3>4. \A u \in E \cup {s} : entry'[t].name = entry'[u].name => t = u
      BY <1>7, <1>8, <2>1, <2>2, <3>1
    <3>. QED  BY <1>10, <3>1, <3>2, <3>3, <3>4
  <2>3. CASE t \in E
    <3>1. entry'[t] = entry[t] /\ t # s
      BY <1>7, <2>1, <2>3
    <3>2. PICK j \in Inums : j = entry[t].inum
      BY <2>1, <2>3 DEF TypeOK, Entries
    <3>3. LinksTo(entry[t].inum)' = LinksTo(j)'
      BY <3>1, <3>2 DEF LinksTo
    <3>4. /\ dinode[j].type # "none" /\ dinode[j].nlink >= Cardinality(LinksTo(j))
          /\ \A u \in E : entry[t].name = entry[u].name => t = u
      BY <2>3, <3>2 DEF DirectoryConsistent
    <3>5. dinode[j].nlink >= Cardinality(LinksTo(j)')
      <4>1. Cardinality(LinksTo(j)') \in Nat
        BY LinksFinite, <1>11, FS_AddElement, FS_CardinalityType
      <4>. QED  BY <1>10, <1>12, <3>4, <4>1 DEF TypeOK, Inode
    <3>6. \A u \in E \cup {s} : entry'[t].name = entry'[u].name => t = u
      BY <1>7, <1>8, <2>1, <2>3, <3>1, <3>4
    <3>. QED  BY <3>1, <3>2, <3>3, <3>4, <3>5, <3>6
  <2>. QED  BY <2>2, <2>3
<1>14. SizeBacked' /\ CopiesMatch' /\ RootKept'
  <2>1. mem'[ROOTINO].size >= size /\ mem'[ROOTINO].size <= ROOM
    BY <1>2, <1>4, <1>6, Constants DEF Slots
  <2>2. SizeBacked'
    BY <1>3 DEF SizeBacked
  <2>3. mem[ROOTINO].addr # NULL
    BY <1>1, <1>6 DEF CopiesMatch
  <2>4. CopiesMatch'
    BY <1>1, <1>3, <1>4, <2>3 DEF CopiesMatch
  <2>5. entry'[0] = entry[0]
    BY <1>2, <1>7, Constants
  <2>6. dinode[ROOTINO].size \in Nat /\ size \in Nat /\ mem'[ROOTINO].size \in Nat
    BY <1>1, <1>4 DEF TypeOK, Inode
  <2>7. RootKept'
    BY <1>1, <1>3, <1>4, <2>1, <2>5, <2>6, NoInodeAssumption DEF RootKept
  <2>. QED  BY <2>2, <2>4, <2>7
<1>15. CallConsistent'
  BY <1>3, NoCall DEF Idle
<1>. QED  BY <1>5, <1>13, <1>14, <1>15

\* The inode of a name that is not a directory: what a call that starts with it loads.
LEMMA LookedUp ==
  ASSUME Inductive, NEW n, NEW s \in dir_lookup(Plain(n)),
         Loaded(entry[s].inum).type # "dir"
  PROVE  \E i \in Inums \ {ROOTINO} :
           /\ i = entry[s].inum /\ Loaded(i) \in Inode /\ dinode[i] \in Inode
           /\ Loaded(i).type = dinode[i].type /\ Loaded(i).addr = dinode[i].addr
           /\ Loaded(i).nlink = dinode[i].nlink
           /\ Loaded(i).size > 0 => Loaded(i).addr # NULL
           /\ dinode[i].type # "none"
           /\ dinode[i].nlink >= Cardinality(LinksTo(i))
<1>. USE DEF Inductive
<1>1. s \in Slots /\ s < mem[ROOTINO].size /\ entry[s].inum # 0
  BY DEF dir_lookup
<1>2. PICK i \in Inums : i = entry[s].inum
  BY <1>1 DEF TypeOK
<1>3. Loaded(i) \in Inode /\ dinode[i] \in Inode
  BY DEF Loaded, TypeOK
<1>4. /\ Loaded(i).type = dinode[i].type /\ Loaded(i).addr = dinode[i].addr
      /\ Loaded(i).size > 0 => Loaded(i).addr # NULL
      /\ i # ROOTINO => Loaded(i).nlink = dinode[i].nlink
  BY DEF Loaded, CopiesMatch, SizeBacked
<1>5. i # ROOTINO /\ s # 0
  BY <1>2, <1>4 DEF RootKept
<1>6. dinode[i].type # "none" /\ dinode[i].nlink >= Cardinality(LinksTo(i))
  BY <1>1, <1>2, <1>5 DEF DirectoryConsistent, Entries
<1>. QED  BY <1>2, <1>3, <1>4, <1>5, <1>6

\* A write to a file starts.
LEMMA WriteCallKeeps ==
  ASSUME Inductive, NEW n \in Names, WriteCall(n)
  PROVE  Inductive'
<1>. USE DEF Inductive
<1>1. PICK s \in dir_lookup(Plain(n)) :
        LET i   == entry[s].inum
            ino == Loaded(i)
        IN  /\ ino.type = "file"
            /\ mem' = [mem EXCEPT ![i] = ino]
            /\ op' = Call(IF ino.addr = NULL THEN "map" ELSE "data", i, Plain(n))
            /\ UNCHANGED <<dinode, entry, content, used>>
  BY DEF WriteCall, disk
<1>2. PICK i \in Inums \ {ROOTINO} :
        /\ i = entry[s].inum /\ Loaded(i) \in Inode /\ dinode[i] \in Inode
        /\ Loaded(i).type = dinode[i].type /\ Loaded(i).addr = dinode[i].addr
        /\ Loaded(i).nlink = dinode[i].nlink
        /\ Loaded(i).size > 0 => Loaded(i).addr # NULL
  BY <1>1, LookedUp
<1>3. /\ mem' = [mem EXCEPT ![i] = Loaded(i)] /\ Loaded(i).type = "file"
      /\ op' = Call(IF Loaded(i).addr = NULL THEN "map" ELSE "data", i, Plain(n))
      /\ UNCHANGED <<dinode, entry, content, used>>
  BY <1>1, <1>2
<1>4. /\ mem'[i] = Loaded(i) /\ mem'[ROOTINO] = mem[ROOTINO]
      /\ \A j \in Inums \ {i} : mem'[j] = mem[j]
  BY <1>2, <1>3, Constants DEF TypeOK
<1>5. TypeOK'
  BY <1>2, <1>3, CallTypes DEF TypeOK
<1>6. DirectoryConsistent'
  BY <1>3, <1>4, DirectorySame, Zenon
<1>7. SizeBacked' /\ RootKept'
  BY <1>3, <1>4 DEF SizeBacked, RootKept
<1>8. CopiesMatch'
  <2>. SUFFICES ASSUME NEW j \in Inums, mem'[j] # NULL
                PROVE  /\ mem'[j].type = dinode[j].type /\ mem'[j].addr = dinode[j].addr
                       /\ j # ROOTINO => mem'[j].nlink = dinode[j].nlink
                       /\ mem'[j].size > 0 => mem'[j].addr # NULL
    BY <1>3 DEF CopiesMatch
  <2>1. CASE j = i
    BY <1>2, <1>4, <2>1
  <2>2. CASE j # i
    BY <1>4, <2>2 DEF CopiesMatch
  <2>. QED  BY <2>1, <2>2
<1>9. CallConsistent'
  <2>1. /\ op'.inum = i /\ op'.at \in {"map", "data"}
        /\ op'.at = "data" => mem'[i].addr # NULL
    BY <1>3, <1>4 DEF Call
  <2>2. ~Linking'
    BY <1>3, <1>4, <2>1 DEF Linking
  <2>3. mem'[i] # NULL
    BY <1>2, <1>4, NoInodeAssumption
  <2>. QED  BY <2>1, <2>2, <2>3 DEF CallConsistent
<1>. QED  BY <1>5, <1>6, <1>7, <1>8, <1>9

\* An inode is written with another link count, and nothing else of it changes.
LEMMA FlushLinks ==
  ASSUME Inductive, NEW i \in Inums \ {ROOTINO}, NEW ino \in Inode, Flush(i, ino),
         ino.type = dinode[i].type, ino.addr = dinode[i].addr,
         ino.size > 0 => ino.addr # NULL, ino.nlink >= Cardinality(LinksTo(i)),
         op' \in Calls, UNCHANGED <<entry, content, used>>
  PROVE  /\ TypeOK' /\ DirectoryConsistent' /\ SizeBacked' /\ CopiesMatch' /\ RootKept'
         /\ mem'[i] = ino /\ dinode'[i] = ino
         /\ mem'[ROOTINO] = mem[ROOTINO]
<1>. USE DEF Inductive
<1>1. /\ mem'[ROOTINO] = mem[ROOTINO] /\ dinode'[ROOTINO] = dinode[ROOTINO]
      /\ mem'[i] = ino /\ dinode'[i] = ino
      /\ \A j \in Inums \ {i} : mem'[j] = mem[j] /\ dinode'[j] = dinode[j]
  BY Constants DEF TypeOK, Flush
<1>2. TypeOK'
  BY DEF TypeOK, Flush
<1>3. DirectoryConsistent'
  <2>1. \A j \in Inums : /\ dinode[j].type # "none" => dinode'[j].type # "none"
                         /\ dinode'[j].nlink >= dinode[j].nlink
                              \/ dinode'[j].nlink >= Cardinality(LinksTo(j))
    BY <1>1 DEF TypeOK, Inode
  <2>. QED  BY <1>1, <1>2, <2>1, DirectoryKept
<1>4. SizeBacked'
  BY <1>1 DEF SizeBacked
<1>5. CopiesMatch'
  BY <1>1 DEF CopiesMatch
<1>6. RootKept'
  BY <1>1 DEF RootKept
<1>. QED  BY <1>1, <1>2, <1>3, <1>4, <1>5, <1>6

\* sys_link counts the link before it makes the entry.
LEMMA LinkCallKeeps ==
  ASSUME Inductive, NEW old \in Names, NEW new \in Names, LinkCall(old, new)
  PROVE  Inductive'
<1>. USE DEF Inductive
<1>1. PICK s \in dir_lookup(Plain(old)) :
        LET i   == entry[s].inum
            ino == Loaded(i)
        IN  /\ ino.type # "dir" /\ FreeSlot < ROOM
            /\ Flush(i, [ino EXCEPT !.nlink = @ + 1])
            /\ op' = Call("link", i, Slashed(new))
            /\ UNCHANGED <<entry, content, used>>
  BY DEF LinkCall
<1>2. PICK i \in Inums \ {ROOTINO} :
        /\ i = entry[s].inum /\ Loaded(i) \in Inode /\ dinode[i] \in Inode
        /\ Loaded(i).type = dinode[i].type /\ Loaded(i).addr = dinode[i].addr
        /\ Loaded(i).nlink = dinode[i].nlink
        /\ Loaded(i).size > 0 => Loaded(i).addr # NULL
        /\ dinode[i].type # "none"
        /\ dinode[i].nlink >= Cardinality(LinksTo(i))
  BY <1>1, LookedUp
<1>3. PICK ino : ino = [Loaded(i) EXCEPT !.nlink = Loaded(i).nlink + 1]
  OBVIOUS
<1>4. /\ Flush(i, ino) /\ FreeSlot < ROOM /\ op' = Call("link", i, Slashed(new))
      /\ UNCHANGED <<entry, content, used>>
  BY <1>1, <1>2, <1>3
<1>5. /\ ino \in Inode /\ ino.type = dinode[i].type /\ ino.addr = dinode[i].addr
      /\ ino.size > 0 => ino.addr # NULL
      /\ ino.nlink = dinode[i].nlink + 1
  BY <1>2, <1>3 DEF Inode
<1>6. Cardinality(LinksTo(i)) \in Nat /\ dinode[i].nlink \in Nat
  BY <1>2, LinksFinite DEF Inode
<1>7. ino.nlink >= Cardinality(LinksTo(i)) + 1
  BY <1>2, <1>5, <1>6
<1>8. op' \in Calls /\ op'.at = "link" /\ op'.inum = i
  BY <1>4, CallTypes DEF Call
<1>9. ino.nlink >= Cardinality(LinksTo(i))
  BY <1>5, <1>6, <1>7
<1>10. /\ TypeOK' /\ DirectoryConsistent' /\ SizeBacked' /\ CopiesMatch' /\ RootKept'
       /\ mem'[i] = ino /\ dinode'[i] = ino
       /\ mem'[ROOTINO] = mem[ROOTINO]
  BY <1>4, <1>5, <1>8, <1>9, FlushLinks
<1>11. CallConsistent'
  <2>1. FreeSlot' = FreeSlot /\ LinksTo(i)' = LinksTo(i)
    BY <1>4, <1>10, DirectoryUnchanged
  <2>2. LinksTo(op.inum)' = LinksTo(i)
    BY <1>8, <2>1 DEF LinksTo
  <2>3. mem'[i] # NULL
    BY <1>5, <1>10, NoInodeAssumption
  <2>. QED  BY <1>2, <1>4, <1>5, <1>7, <1>8, <1>10, <2>1, <2>2, <2>3 DEF CallConsistent
<1>. QED  BY <1>10, <1>11

\* sys_link that finds the name taken gives its link back.
LEMMA LinkFailsKeeps == Inductive /\ LinkFails => Inductive'
<1>. SUFFICES ASSUME Inductive, LinkFails PROVE Inductive'
  OBVIOUS
<1>. USE DEF Inductive
<1>1. PICK i \in Inums \ {ROOTINO} :
        i = op.inum /\ mem[i] # NULL /\ mem[i] \in Inode /\ dinode[i] \in Inode
  BY InodeOfCall DEF LinkFails
<1>2. PICK ino : ino = [mem[i] EXCEPT !.nlink = mem[i].nlink - 1]
  OBVIOUS
<1>3. /\ Flush(i, ino) /\ op' = Idle /\ UNCHANGED <<entry, content, used>>
      /\ op.at = "link"
  BY <1>1, <1>2 DEF LinkFails
<1>4. dinode[i].nlink >= Cardinality(LinksTo(i)) + 1 /\ mem[i].nlink = dinode[i].nlink
  BY <1>1, <1>3 DEF CallConsistent, Linking, CopiesMatch
<1>5. Cardinality(LinksTo(i)) \in Nat /\ dinode[i].nlink \in Nat
  BY <1>1, LinksFinite DEF Inode
<1>6. PICK m \in Nat : m = mem[i].nlink - 1 /\ m >= Cardinality(LinksTo(i))
  BY <1>4, <1>5
<1>7. /\ ino \in Inode /\ ino.type = dinode[i].type /\ ino.addr = dinode[i].addr
      /\ ino.size > 0 => ino.addr # NULL
      /\ ino.nlink >= Cardinality(LinksTo(i))
  BY <1>1, <1>2, <1>6 DEF Inode, CopiesMatch
<1>8. TypeOK' /\ DirectoryConsistent' /\ SizeBacked' /\ CopiesMatch' /\ RootKept'
  BY <1>3, <1>7, CallTypes, FlushLinks
<1>. QED  BY <1>3, <1>8, NoCall DEF Idle

\* An inode leaves the cache.
LEMMA EvictKeeps ==
  ASSUME Inductive, NEW i \in Inums, Evict(i)
  PROVE  Inductive'
<1>. USE DEF Inductive
<1>1. /\ i # ROOTINO /\ mem' = [mem EXCEPT ![i] = NULL] /\ op.at = "idle"
      /\ UNCHANGED <<dinode, entry, content, used, op>>
  BY DEF Evict, disk
<1>2. mem'[ROOTINO] = mem[ROOTINO]
  BY <1>1, Constants DEF TypeOK
<1>3. TypeOK'
  BY <1>1 DEF TypeOK
<1>4. DirectoryConsistent'
  BY <1>1, <1>2, <1>3, DirectoryKept DEF TypeOK, Inode
<1>5. SizeBacked' /\ RootKept' /\ CopiesMatch'
  BY <1>1, <1>2 DEF SizeBacked, RootKept, CopiesMatch, TypeOK
<1>. QED  BY <1>1, <1>3, <1>4, <1>5, NoCall

\* The machine stops: what the directory loses was only in memory.
LEMMA CrashKeeps == Inductive /\ Crash => Inductive'
<1>. SUFFICES ASSUME Inductive, Crash PROVE Inductive'
  OBVIOUS
<1>. USE DEF Inductive
<1>. DEFINE E == Entries(mem[ROOTINO].size)
<1>1. /\ mem' = [i \in Inums |-> IF i = ROOTINO THEN dinode[i] ELSE NULL] /\ op' = Idle
      /\ UNCHANGED <<dinode, entry, content, used>>
  BY DEF Crash, disk
<1>2. mem'[ROOTINO] = dinode[ROOTINO] /\ dinode[ROOTINO] \in Inode
  BY <1>1, Constants DEF TypeOK
<1>3. TypeOK'
  BY <1>1, CallTypes DEF TypeOK
<1>4. /\ Entries(mem[ROOTINO].size)' \subseteq E
      /\ \A i : LinksTo(i)' \subseteq LinksTo(i)
  <2>1. dinode[ROOTINO].size <= mem[ROOTINO].size /\ dinode[ROOTINO].size \in Nat
    BY <1>2 DEF RootKept, Inode
  <2>2. mem[ROOTINO].size \in Nat
    BY InodeOfRoot DEF Inode
  <2>3. Entries(mem[ROOTINO].size)' \subseteq E
    <3>1. \A s \in Slots : s < dinode[ROOTINO].size => s < mem[ROOTINO].size
      BY <2>1, <2>2, Constants
    <3>2. Entries(mem[ROOTINO].size)' = {s \in Slots : s < dinode[ROOTINO].size /\ entry[s].inum # 0}
      BY <1>1, <1>2 DEF Entries
    <3>. QED  BY <3>1, <3>2 DEF Entries
  <2>. QED  BY <1>1, <2>3 DEF LinksTo
<1>5. DirectoryConsistent'
  <2>. SUFFICES ASSUME NEW s \in Entries(mem[ROOTINO].size)' \ {0}
                PROVE  /\ dinode[entry[s].inum].type # "none"
                       /\ dinode[entry[s].inum].nlink >= Cardinality(LinksTo(entry[s].inum)')
                       /\ \A t \in Entries(mem[ROOTINO].size)' : entry[s].name = entry[t].name => s = t
    BY <1>1 DEF DirectoryConsistent
  <2>1. s \in E \ {0}
    BY <1>4
  <2>2. PICK i \in Inums : i = entry[s].inum
    BY <2>1 DEF TypeOK, Entries
  <2>3. /\ dinode[i].type # "none" /\ dinode[i].nlink >= Cardinality(LinksTo(i))
        /\ \A t \in E : entry[s].name = entry[t].name => s = t
    BY <2>1, <2>2 DEF DirectoryConsistent
  <2>4. LinksTo(entry[s].inum)' = LinksTo(i)'
    BY <1>1, <2>2 DEF LinksTo
  <2>5. dinode[i].nlink >= Cardinality(LinksTo(i)')
    <3>1. LinksTo(i)' \subseteq LinksTo(i)
      BY <1>4
    <3>2. IsFiniteSet(LinksTo(i)) /\ Cardinality(LinksTo(i)) \in Nat
      BY LinksFinite
    <3>3. /\ Cardinality(LinksTo(i)') <= Cardinality(LinksTo(i))
          /\ Cardinality(LinksTo(i)') \in Nat
      BY <3>1, <3>2, FS_Subset, FS_CardinalityType
    <3>. QED  BY <2>3, <3>2, <3>3 DEF TypeOK, Inode
  <2>. QED  BY <1>4, <2>2, <2>3, <2>4, <2>5
<1>6. SizeBacked'
  BY <1>1 DEF SizeBacked
<1>7. CopiesMatch'
  BY <1>1 DEF CopiesMatch, SizeBacked
<1>8. RootKept'
  <2>1. mem[ROOTINO].size \in Nat /\ dinode[ROOTINO].size \in Nat /\ ROOM \in Nat
    BY <1>2, InodeOfRoot, Constants DEF Inode
  <2>. QED  BY <1>1, <1>2, <2>1, NoInodeAssumption DEF RootKept
<1>. QED  BY <1>1, <1>3, <1>5, <1>6, <1>7, <1>8, NoCall DEF Idle

----------------------------------------------------------------------------
(* The disk that mkfs writes *)

\* mkfs marks the bits of all the blocks it writes, although it counts the bits of a
\* byte from the other end.
LEMMA MkfsMarks ==
  ASSUME NEW b \in 0 .. Len(Programs)
  PROVE  b \in {MkfsBit(i) : i \in 0 .. DATASTART + Len(Programs)}
<1>1. PICK q \in Nat, r \in 0 .. BITS - 1 : b = q * BITS + r
  <2>1. /\ b \div BITS \in Nat /\ b % BITS \in 0 .. BITS - 1
        /\ b = (b \div BITS) * BITS + (b % BITS)
    BY Constants
  <2>. QED  BY <2>1
<1>2. PICK m \in Nat : m = q * BITS
  BY Constants
<1>3. PICK c \in 0 .. BITS - 1 : c = BITS - 1 - r
  BY Constants
<1>4. PICK i \in 0 .. DATASTART + Len(Programs) : i = m + c
  BY <1>1, <1>2, <1>3, Constants
<1>5. i \div BITS = q /\ i % BITS = c
  <2>1. i \in Nat /\ i = q * BITS + c
    BY <1>2, <1>4, Constants
  <2>2. PICK n \in Nat \ {0} : n = BITS
    BY Constants
  <2>3. i = q * n + c /\ c \in 0 .. n - 1
    BY <2>1, <2>2
  <2>4. i \div n = q /\ i % n = c
    BY <2>3, QuotientAndRest
  <2>. QED  BY <2>2, <2>4
<1>6. MkfsBit(i) = m + (BITS - 1 - c)
  BY <1>2, <1>5 DEF MkfsBit
<1>7. MkfsBit(i) = b
  BY <1>1, <1>2, <1>3, <1>6, Constants
<1>. QED  BY <1>7

\* The image satisfies the invariant.
LEMMA InductiveInit == Init => Inductive
<1>. SUFFICES ASSUME Init PROVE Inductive
  OBVIOUS
<1>0. PICK np \in Nat : np = Len(Programs)
  BY Constants
<1>1. /\ \A i \in Inums : dinode[i] \in Inode
      /\ dinode[ROOTINO].type = "dir" /\ dinode[ROOTINO].size = np + 2
      /\ dinode[ROOTINO].addr = 0
      /\ \A i \in 2 .. np + 1 : /\ i \in Inums /\ dinode[i].type = "file"
                                /\ dinode[i].nlink = 1 /\ dinode[i].addr = i - 1
      /\ \A i \in Inums : \/ i = ROOTINO
                          \/ i \in 2 .. np + 1
                          \/ dinode[i].size = 0 /\ dinode[i].addr = NULL
  <2>1. \A i \in Inums : dinode[i] = MkfsInode(i)
    BY DEF Init
  <2>2. ROOTINO \in Inums /\ \A i \in 2 .. np + 1 : i \in Inums /\ i # ROOTINO
    BY <1>0, Constants DEF Inums, ROOTINO
  <2>3. /\ MkfsInode(ROOTINO).type = "dir" /\ MkfsInode(ROOTINO).size = np + 2
        /\ MkfsInode(ROOTINO).addr = 0 /\ MkfsInode(ROOTINO) \in Inode
    <3>1. PICK z \in Nat : z = np + 2
      OBVIOUS
    <3>2. MkfsInode(ROOTINO) = [type |-> "dir", nlink |-> 1, size |-> z, addr |-> 0]
      <4>1. ROOTINO \notin 2 .. Len(Programs) + 1
        BY <1>0 DEF ROOTINO
      <4>. QED  BY <1>0, <3>1, <4>1 DEF MkfsInode
    <3>3. 0 \in Bits
      BY Constants DEF Bits
    <3>. QED  BY <3>1, <3>2, <3>3 DEF Inode
  <2>4. ASSUME NEW i \in 2 .. np + 1
        PROVE  /\ MkfsInode(i).type = "file" /\ MkfsInode(i).nlink = 1
               /\ MkfsInode(i).addr = i - 1 /\ MkfsInode(i) \in Inode
    <3>1. PICK a \in Bits : a = i - 1
      BY <1>0, Constants DEF Bits
    <3>2. MkfsInode(i) = [type |-> "file", nlink |-> 1, size |-> 1, addr |-> a]
      BY <1>0, <2>2, <3>1 DEF MkfsInode
    <3>. QED  BY <3>1, <3>2 DEF Inode
  <2>5. ASSUME NEW i \in Inums, i # ROOTINO, i \notin 2 .. np + 1
        PROVE  /\ MkfsInode(i).size = 0 /\ MkfsInode(i).addr = NULL
               /\ MkfsInode(i) \in Inode
    <3>1. MkfsInode(i) = [type |-> "none", nlink |-> 0, size |-> 0, addr |-> NULL]
      BY <1>0, <2>5 DEF MkfsInode
    <3>. QED  BY <3>1 DEF Inode
  <2>. QED  BY <2>1, <2>2, <2>3, <2>4, <2>5
<1>2. /\ \A s \in Slots : entry[s] \in [inum : Inums \cup {0}, name : Name]
      /\ entry[0].inum = ROOTINO /\ entry[0].name = Plain(".")
      /\ \A s \in 2 .. np + 1 : /\ s \in Slots /\ entry[s].inum = s
                                /\ entry[s].name = Plain(Programs[s - 1])
      /\ \A s \in Slots : s = 0 \/ s \in 2 .. np + 1 \/ entry[s].inum = 0
  <2>1. \A s \in Slots : entry[s] = MkfsEntry(s)
    BY DEF Init
  <2>2. 0 \in Slots /\ \A s \in 2 .. np + 1 : s \in Slots /\ s # 0 /\ s # 1
    BY <1>0, Constants DEF Slots
  <2>3. \A t \in Texts : Plain(t) \in Name
    BY DEF Plain, Name
  <2>4. ASSUME NEW s \in Slots, NEW i \in Inums \cup {0}, NEW t \in Texts,
               entry[s] = [inum |-> i, name |-> Plain(t)]
        PROVE  /\ entry[s] \in [inum : Inums \cup {0}, name : Name]
               /\ entry[s].inum = i /\ entry[s].name = Plain(t)
    BY <2>3, <2>4
  <2>5. /\ entry[0] \in [inum : Inums \cup {0}, name : Name]
        /\ entry[0].inum = ROOTINO /\ entry[0].name = Plain(".")
    <3>1. entry[0] = [inum |-> ROOTINO, name |-> Plain(".")]
      <4>1. 0 \notin 2 .. Len(Programs) + 1 /\ 0 # 1
        BY <1>0
      <4>. QED  BY <2>1, <2>2, <4>1 DEF MkfsEntry
    <3>2. "." \in Texts
      BY DEF Texts
    <3>. QED  BY <2>2, <2>4, <3>1, <3>2, Constants
  <2>6. ASSUME NEW s \in 2 .. np + 1
        PROVE  /\ entry[s] \in [inum : Inums \cup {0}, name : Name]
               /\ entry[s].inum = s /\ entry[s].name = Plain(Programs[s - 1])
    <3>1. entry[s] = [inum |-> s, name |-> Plain(Programs[s - 1])]
      BY <1>0, <2>1, <2>2 DEF MkfsEntry
    <3>2. Programs[s - 1] \in Texts
      <4>1. s - 1 \in 1 .. Len(Programs)
        BY <1>0
      <4>. QED  BY <4>1 DEF Texts
    <3>. QED  BY <1>1, <2>2, <2>4, <3>1, <3>2
  <2>7. ASSUME NEW s \in Slots, s # 0, s \notin 2 .. np + 1
        PROVE  entry[s] \in [inum : Inums \cup {0}, name : Name] /\ entry[s].inum = 0
    <3>1. entry[s] = [inum |-> 0, name |-> Plain("..")] \/ entry[s] = [inum |-> 0, name |-> Plain("")]
      BY <1>0, <2>1, <2>7 DEF MkfsEntry
    <3>2. ".." \in Texts /\ "" \in Texts
      BY DEF Texts
    <3>. QED  BY <2>4, <3>1, <3>2
  <2>. QED  BY <2>2, <2>5, <2>6, <2>7
<1>3. mem[ROOTINO] = dinode[ROOTINO] /\ \A i \in Inums \ {ROOTINO} : mem[i] = NULL
  BY Constants DEF Init
<1>4. TypeOK
  <2>1. dinode \in [Inums -> Inode]
    BY <1>1 DEF Init
  <2>2. entry \in [Slots -> [inum : Inums \cup {0}, name : Name]]
    BY <1>2 DEF Init
  <2>3. content \in [Bits -> Inums \cup {0}]
    BY Constants DEF Init, Inums, ROOTINO, Bits
  <2>4. used \subseteq Bits
    BY DEF Init
  <2>5. mem \in [Inums -> Inode \cup {NULL}]
    BY <2>1 DEF Init
  <2>6. op \in Calls
    BY CallTypes DEF Init
  <2>. QED  BY <2>1, <2>2, <2>3, <2>4, <2>5, <2>6 DEF TypeOK
<1>5. \A b \in 0 .. np : b \in used
  <2>1. \A b \in 0 .. np : b \in Bits
    BY <1>0, Constants DEF Bits
  <2>. QED  BY <1>0, <2>1, MkfsMarks DEF Init
<1>6. SizeBacked
  <2>1. ASSUME NEW i \in Inums
        PROVE  /\ dinode[i].size > 0 => dinode[i].addr # NULL
               /\ dinode[i].addr # NULL => dinode[i].addr \in used
    <3>1. NULL # 0 /\ (i \in 2 .. np + 1 => i - 1 # NULL)
      <4>1. 0 \in Int /\ (i \in 2 .. np + 1 => i - 1 \in Int)
        BY <1>0
      <4>. QED  BY <4>1, StorageAssumption
    <3>2. 0 \in used /\ (i \in 2 .. np + 1 => i - 1 \in used)
      BY <1>0, <1>5
    <3>3. CASE i = ROOTINO
      BY <1>1, <3>1, <3>2, <3>3
    <3>4. CASE i \in 2 .. np + 1
      BY <1>1, <3>1, <3>2, <3>4
    <3>5. CASE dinode[i].size = 0 /\ dinode[i].addr = NULL
      BY <3>5
    <3>. QED  BY <1>1, <3>3, <3>4, <3>5
  <2>2. \A b \in Bits : content[b] # 0 => b \in used
    <3>1. \A b \in Bits : content[b] # 0 => b <= np
      BY <1>0 DEF Init
    <3>2. \A b \in Bits : b <= np => b \in 0 .. np
      BY <1>0, Constants
    <3>. QED  BY <1>5, <3>1, <3>2
  <2>. QED  BY <2>1, <2>2 DEF SizeBacked
<1>7. CopiesMatch
  BY <1>3, <1>6 DEF CopiesMatch, SizeBacked
<1>8. RootKept
  <2>1. dinode[ROOTINO].type = "dir" /\ dinode[ROOTINO].size = np + 2 /\ np + 2 <= ROOM
    BY <1>0, <1>1, Constants
  <2>2. entry[0].inum = ROOTINO
    BY <1>2
  <2>3. mem[ROOTINO] # NULL
    BY <1>3, <1>4, NoInodeAssumption, Constants DEF TypeOK
  <2>. QED  BY <1>0, <1>3, <2>1, <2>2, <2>3, Constants DEF RootKept
<1>9. DirectoryConsistent
  <2>. DEFINE E == Entries(mem[ROOTINO].size)
  <2>1. \A s \in E : s \in Slots /\ (s = 0 \/ s \in 2 .. np + 1)
    BY <1>2 DEF Entries
  <2>. HIDE DEF E
  <2>2. SUFFICES ASSUME NEW s \in E, s # 0
                 PROVE  /\ dinode[entry[s].inum].type # "none"
                        /\ dinode[entry[s].inum].nlink >= Cardinality(LinksTo(entry[s].inum))
                        /\ \A t \in E : entry[s].name = entry[t].name => s = t
    BY DEF DirectoryConsistent, E
  <2>3. /\ s \in 2 .. np + 1 /\ s \in Inums /\ s # ROOTINO
        /\ entry[s].inum = s /\ entry[s].name = Plain(Programs[s - 1])
    <3>1. s \in 2 .. np + 1
      BY <2>1, <2>2
    <3>2. s # ROOTINO
      BY <1>0, <3>1 DEF ROOTINO
    <3>. QED  BY <1>1, <1>2, <3>1, <3>2
  <2>4. dinode[s].type = "file" /\ dinode[s].nlink = 1
    BY <1>1, <2>3
  <2>5. LinksTo(s) \subseteq {s}
    <3>1. ASSUME NEW t \in E, entry[t].inum = s PROVE t = s
      BY <1>2, <2>1, <2>3, <3>1
    <3>. QED  BY <3>1 DEF LinksTo, E
  <2>6. Cardinality(LinksTo(s)) <= 1
    <3>1. IsFiniteSet({s}) /\ Cardinality({s}) = 1
      BY FS_Singleton
    <3>. QED  BY <2>5, <3>1, FS_Subset
  <2>7. ASSUME NEW t \in E, entry[s].name = entry[t].name PROVE s = t
    <3>1. CASE t = 0
      <4>1. Programs[s - 1] = "."
        BY <1>2, <2>3, <2>7, <3>1 DEF Plain
      <4>2. s - 1 \in 1 .. Len(Programs)
        BY <1>0, <2>3
      <4>. QED  BY <4>1, <4>2, StorageAssumption
    <3>2. CASE t # 0
      <4>1. t \in 2 .. np + 1 /\ Programs[s - 1] = Programs[t - 1]
        <5>1. t \in 2 .. np + 1
          BY <2>1, <3>2
        <5>2. Plain(Programs[s - 1]) = Plain(Programs[t - 1])
          BY <1>2, <2>3, <2>7, <5>1
        <5>. QED  BY <5>1, <5>2 DEF Plain
      <4>2. s - 1 \in 1 .. Len(Programs) /\ t - 1 \in 1 .. Len(Programs)
        BY <1>0, <2>3, <4>1
      <4>3. s - 1 = t - 1
        BY <4>1, <4>2, StorageAssumption
      <4>. QED  BY <1>0, <2>3, <4>1, <4>3
    <3>. QED  BY <3>1, <3>2
  <2>8. Cardinality(LinksTo(s)) \in Nat
    BY LinksFinite
  <2>. QED  BY <2>3, <2>4, <2>6, <2>7, <2>8
<1>10. CallConsistent
  BY DEF CallConsistent, Linking, Init, Idle
<1>. QED  BY <1>4, <1>6, <1>7, <1>8, <1>9, <1>10 DEF Inductive

----------------------------------------------------------------------------
(* Theorems *)

\* Every step, a crash included, keeps the invariant.
LEMMA InductiveStep == Inductive /\ [Next]_vars => Inductive'
<1>. SUFFICES ASSUME Inductive, [Next]_vars PROVE Inductive'
  OBVIOUS
<1>1. ASSUME UNCHANGED vars PROVE Inductive'
  <2>1. UNCHANGED <<dinode, entry, content, used, mem, op>>
    BY <1>1 DEF vars, disk
  <2>2. TypeOK'
    BY <2>1 DEF Inductive, TypeOK
  <2>3. DirectoryConsistent'
    BY <2>1, DirectorySame, Zenon DEF Inductive
  <2>4. CallConsistent'
    <3>1. /\ FreeSlot' = FreeSlot /\ LinksTo(op.inum)' = LinksTo(op.inum)
          /\ (Linking' <=> Linking)
      BY <2>1 DEF FreeSlot, LinksTo, Entries, Linking
    <3>. QED  BY <2>1, <3>1 DEF Inductive, CallConsistent
  <2>. QED  BY <2>1, <2>2, <2>3, <2>4 DEF Inductive, SizeBacked, CopiesMatch, RootKept
<1>. QED  BY <1>1, AllocateKeeps, WriteCallKeeps, LinkCallKeeps, CreateFlushKeeps,
             LinkDotKeeps,
             LinkDotDotKeeps, LinkKeeps, BlockAllocKeeps, BmapKeeps, WriteDataKeeps,
             WriteSizeKeeps, LinkFailsKeeps, EvictKeeps, CrashKeeps DEF Next

\* The invariant of the file system holds in every state, those between two writes to
\* the disk and those after a crash included.
THEOREM StorageInvariant == Spec => []Inductive
BY InductiveInit, InductiveStep, PTL DEF Spec

\* Whenever the machine stops, the root directory is consistent: fs_create, sys_link and
\* dir_link write the inode before the entry that names it.
THEOREM CrashConsistentDirectory == Spec => []DirectoryConsistent
<1>1. Inductive => DirectoryConsistent
  BY DEF Inductive
<1>. QED  BY <1>1, StorageInvariant, PTL

\* Whenever the machine stops, sizes have blocks and blocks are marked: block_alloc, bmap0
\* and inode_write write the free map, the address, the data and the size in this order.
THEOREM CrashConsistentBlocks == Spec => []SizeBacked
<1>1. Inductive => SizeBacked
  BY DEF Inductive
<1>. QED  BY <1>1, StorageInvariant, PTL

\* The steps other than dir_link and a crash leave the entries and the directory's size.
LEMMA OthersKeepDirectory ==
  ASSUME Inductive, Next, ~dir_link, ~Crash
  PROVE  entry' = entry /\ mem'[ROOTINO].size = mem[ROOTINO].size
<1>. USE DEF Inductive
<1>0. ROOTINO \in Inums /\ mem[ROOTINO] \in Inode
  BY InodeOfRoot
<1>1. ASSUME op.at \notin {"idle", "panic"}, NEW ino, Flush(op.inum, ino)
      PROVE  mem'[ROOTINO] = mem[ROOTINO]
  BY <1>0, <1>1, InodeOfCall DEF Flush, TypeOK
<1>2. ASSUME NEW n \in Names, NEW t \in Types, inode_allocate(n, t)
      PROVE  entry' = entry /\ mem'[ROOTINO].size = mem[ROOTINO].size
  <2>1. ~ (1 < ROOTINO)
    BY DEF ROOTINO
  <2>. QED  BY <1>0, <1>2, <2>1 DEF inode_allocate, disk
<1>3. ASSUME NEW n \in Names, WriteCall(n)
      PROVE  entry' = entry /\ mem'[ROOTINO].size = mem[ROOTINO].size
  <2>1. PICK s \in dir_lookup(Plain(n)) :
          /\ Loaded(entry[s].inum).type = "file"
          /\ mem' = [mem EXCEPT ![entry[s].inum] = Loaded(entry[s].inum)]
          /\ entry' = entry
    BY <1>3 DEF WriteCall, disk
  <2>2. entry[s].inum # ROOTINO
    BY <2>1, LookedUp
  <2>. QED  BY <1>0, <2>1, <2>2 DEF TypeOK
<1>4. ASSUME NEW n \in Names, NEW m \in Names, LinkCall(n, m)
      PROVE  entry' = entry /\ mem'[ROOTINO].size = mem[ROOTINO].size
  <2>1. PICK s \in dir_lookup(Plain(n)) :
          /\ Loaded(entry[s].inum).type # "dir" /\ entry' = entry
          /\ \E ino : Flush(entry[s].inum, ino)
    BY <1>4 DEF LinkCall
  <2>2. entry[s].inum # ROOTINO
    BY <2>1, LookedUp
  <2>. QED  BY <1>0, <2>1, <2>2 DEF TypeOK, Flush
<1>5. CASE CreateFlush \/ LinkDot \/ LinkDotDot
  <2>1. op.inum \in Inums \ {ROOTINO}
    BY <1>5, InodeOfCall DEF CreateFlush, LinkDot, LinkDotDot
  <2>2. CASE CreateFlush
    <3>1. entry' = entry /\ mem'[ROOTINO].size = [mem[ROOTINO] EXCEPT !.nlink =
                               IF mem[op.inum].type = "dir" THEN @ + 1 ELSE @].size
      BY <1>0, <2>1, <2>2, InodeOfCall DEF CreateFlush, TypeOK, Inode
    <3>. QED  BY <1>0, <3>1 DEF Inode
  <2>3. CASE LinkDot \/ LinkDotDot
    BY <1>0, <2>1, <2>3 DEF LinkDot, LinkDotDot, TypeOK
  <2>. QED  BY <1>5, <2>2, <2>3
<1>6. CASE block_alloc \/ WriteData
  BY <1>6 DEF block_alloc, WriteData
<1>7. CASE bmap0 \/ WriteSize \/ LinkFails
  <2>1. entry' = entry /\ op.at \notin {"idle", "panic"} /\ \E ino : Flush(op.inum, ino)
    BY <1>7 DEF bmap0, WriteSize, LinkFails
  <2>. QED  BY <1>1, <2>1
<1>8. ASSUME NEW i \in Inums, Evict(i)
      PROVE  entry' = entry /\ mem'[ROOTINO].size = mem[ROOTINO].size
  BY <1>0, <1>8 DEF Evict, disk, TypeOK
<1>. QED  BY <1>2, <1>3, <1>4, <1>5, <1>6, <1>7, <1>8 DEF Next

\* dir_link takes a slot that is empty, and the directory does not shrink.
LEMMA LinkKeepsEntries ==
  ASSUME Inductive, dir_link, NEW s \in Entries(mem[ROOTINO].size)
  PROVE  s < mem'[ROOTINO].size /\ entry'[s] = entry[s]
<1>. USE DEF Inductive
<1>1. s \in Slots /\ s < mem[ROOTINO].size /\ entry[s].inum # 0 /\ s \in Nat
  BY Constants DEF Entries
<1>2. mem[ROOTINO].size \in Nat /\ ROOTINO \in Inums /\ mem[ROOTINO] \in Inode
  BY InodeOfRoot DEF Inode
<1>3. FreeSlot # s /\ FreeSlot \in Nat
  BY <1>1, <1>2, FreeSlotValue, Constants
<1>4. entry'[s] = entry[s]
  BY <1>1, <1>3 DEF dir_link, TypeOK
<1>5. PICK z \in Nat : z = IF FreeSlot < mem[ROOTINO].size THEN mem[ROOTINO].size ELSE FreeSlot + 1
  BY <1>2, <1>3
<1>6. mem' = [mem EXCEPT ![ROOTINO] = [mem[ROOTINO] EXCEPT !.size = z]]
  BY <1>5 DEF dir_link
<1>7. mem'[ROOTINO].size = z
  BY <1>2, <1>6 DEF TypeOK, Inode
<1>. QED  BY <1>1, <1>2, <1>3, <1>4, <1>5, <1>7

\* While the machine runs, dir_link takes only slots that are free: no entry of the root
\* directory changes or is lost.
THEOREM DirectoryOnlyGrows == Spec => EntriesKept
<1>1. Inductive /\ [Next]_vars =>
        [Crash \/ \A s \in Entries(mem[ROOTINO].size) :
                    s < mem'[ROOTINO].size /\ entry'[s] = entry[s]]_vars
  <2>. SUFFICES ASSUME Inductive, [Next]_vars, ~Crash, ~ UNCHANGED vars,
                       NEW s \in Entries(mem[ROOTINO].size)
                PROVE  s < mem'[ROOTINO].size /\ entry'[s] = entry[s]
    OBVIOUS
  <2>1. CASE dir_link
    BY <2>1, LinkKeepsEntries
  <2>2. CASE ~dir_link
    <3>1. entry' = entry /\ mem'[ROOTINO].size = mem[ROOTINO].size
      BY <2>2, OthersKeepDirectory
    <3>. QED  BY <3>1 DEF Entries
  <2>. QED  BY <2>1, <2>2
<1>. QED  BY <1>1, StorageInvariant, PTL DEF Spec, EntriesKept
=============================================================================
