-------------------------- MODULE FileTableProofs --------------------------
(***************************************************************************)
(* Proofs about open files: for every size of the tables, all processes    *)
(* and names, what the reference counts of files and of cached inodes      *)
(* cover.                                                                  *)
(***************************************************************************)
EXTENDS MCFileTable, FiniteSetTheorems, WellFoundedInduction, TLAPS

----------------------------------------------------------------------------
(* Helpers *)

\* The constants, and the ranges of the tables.
LEMMA Constants ==
  /\ NFILE \in Nat \ {0} /\ NOFILE \in Nat \ {0} /\ NSLOT \in Nat \ {0}
  /\ NINODES \in Nat \ {0} /\ NULL \notin Int /\ InitProc \in Procs
  /\ Files \subseteq Nat /\ Fds \subseteq Nat /\ Slots \subseteq Nat
  /\ Inums \subseteq Nat
  /\ NULL \notin Files /\ NULL \notin Fds /\ NULL \notin Slots /\ NULL \notin Inums
  /\ 0 \notin Inums
BY FileTableAssumption DEF Files, Fds, Slots, Inums

\* The least element of a set of natural numbers.
LEMMA LeastIn ==
  ASSUME NEW S \in SUBSET Nat
  PROVE  /\ S = {} => Least(S) = NULL
         /\ S # {} => Least(S) \in S
         /\ Least(S) # NULL => Least(S) \in S
<1>1. CASE S = {}
  BY <1>1 DEF Least
<1>2. CASE S # {}
  <2>1. PICK x \in S : \A y \in S : ~ (<<y, x>> \in OpToRel(<, Nat))
    BY <1>2, NatLessThanWellFounded, WFMin
  <2>2. \A y \in S : ~ (y < x)
    BY <2>1, Zenon DEF OpToRel
  <2>3. \A y \in S : x <= y
    BY <2>2
  <2>. QED  BY <1>2, <2>3, Zenon DEF Least
<1>. QED  BY <1>1, <1>2

\* file_allocate finds a file without references.
LEMMA FreeFile == file_allocate # NULL => file_allocate \in Files /\ nref[file_allocate] = 0
<1>1. {f \in Files : nref[f] = 0} \in SUBSET Nat
  BY Constants
<1>. QED  BY <1>1, LeastIn DEF file_allocate

\* The first free descriptor of a process.
LEMMA FreeDescriptor ==
  ASSUME NEW p \in Procs, FreeFd(p) # NULL
  PROVE  FreeFd(p) \in Fds /\ file[p][FreeFd(p)] = NULL
<1>1. {d \in Fds : file[p][d] = NULL} \in SUBSET Nat
  BY Constants
<1>. QED  BY <1>1, LeastIn DEF FreeFd

----------------------------------------------------------------------------
(* Counting descriptors *)

\* All the descriptors are finitely many.
LEMMA ReferringFinite ==
  \A f : IsFiniteSet(Referring(f)) /\ Cardinality(Referring(f)) \in Nat
<1>. TAKE f
<1>1. IsFiniteSet(Procs) /\ IsFiniteSet(Fds)
  BY FileTableAssumption, Constants, FS_Interval DEF Fds
<1>2. IsFiniteSet(Procs \X Fds)
  BY <1>1, FS_Product
<1>3. Referring(f) \in SUBSET (Procs \X Fds)
  BY DEF Referring
<1>. QED  BY <1>2, <1>3, FS_Subset, FS_CardinalityType

\* The count of a file to which fewer or the same descriptors refer.
LEMMA FewerReferring ==
  ASSUME NEW S, NEW f, S \subseteq Referring(f)
  PROVE  /\ IsFiniteSet(S) /\ Cardinality(S) \in Nat
         /\ Cardinality(S) <= Cardinality(Referring(f))
BY ReferringFinite, FS_Subset, FS_CardinalityType

\* One more descriptor.
LEMMA OneMoreReferring ==
  ASSUME NEW S, NEW f, NEW x, S \subseteq Referring(f) \cup {x}
  PROVE  Cardinality(S) \in Nat /\ Cardinality(S) <= Cardinality(Referring(f)) + 1
<1>1. /\ IsFiniteSet(Referring(f) \cup {x})
      /\ Cardinality(Referring(f) \cup {x})
           \in {Cardinality(Referring(f)), Cardinality(Referring(f)) + 1}
  BY ReferringFinite, FS_AddElement
<1>2. IsFiniteSet(S) /\ Cardinality(S) <= Cardinality(Referring(f) \cup {x})
  BY <1>1, FS_Subset
<1>3. Cardinality(S) \in Nat /\ Cardinality(Referring(f)) \in Nat
  BY <1>2, ReferringFinite, FS_CardinalityType
<1>. QED  BY <1>1, <1>2, <1>3

\* A file without references, if it was never closed, has no descriptors.
LEMMA NoneReferring ==
  ASSUME TypeOK, DescriptorsCounted, NEW f \in Files, f \notin closed, nref[f] = 0
  PROVE  Referring(f) = {}
<1>1. Cardinality(Referring(f)) \in Nat /\ nref[f] >= Cardinality(Referring(f))
  BY ReferringFinite DEF DescriptorsCounted
<1>2. Cardinality(Referring(f)) = 0
  BY <1>1
<1>. QED  BY <1>2, ReferringFinite, FS_EmptySet

\* A step that changes one descriptor.
LEMMA DescriptorSet ==
  ASSUME TypeOK, NEW p \in Procs, NEW d \in Fds, NEW f,
         file' = [file EXCEPT ![p][d] = f]
  PROVE  /\ \A g : Referring(g)' \subseteq Referring(g) \cup {<<p, d>>}
         /\ \A g : g # f => Referring(g)' \subseteq Referring(g)
<1>1. ASSUME NEW g, NEW x \in Referring(g)' PROVE x \in Referring(g) \/ (x = <<p, d>> /\ g = f)
  <2>1. PICK q \in Procs, e \in Fds : x = <<q, e>> /\ file'[q][e] = g
    BY <1>1 DEF Referring
  <2>2. CASE q = p /\ e = d
    BY <2>1, <2>2 DEF TypeOK
  <2>3. CASE ~ (q = p /\ e = d)
    <3>1. file[q][e] = g
      BY <2>1, <2>3 DEF TypeOK
    <3>. QED  BY <2>1, <3>1 DEF Referring
  <2>. QED  BY <2>2, <2>3
<1>. QED  BY <1>1

\* The descriptors stay: the count of a file may grow, or the file is closed.
LEMMA SameDescriptors ==
  ASSUME TypeOK, DescriptorsCounted, file' = file,
         \A f \in Files : nref'[f] \in Nat /\ (nref'[f] >= nref[f] \/ f \in closed'),
         closed \subseteq closed'
  PROVE  DescriptorsCounted'
<1>1. \A f : Referring(f)' = Referring(f)
  BY DEF Referring
<1>2. ASSUME NEW f \in Files, f \notin closed' PROVE nref'[f] >= Cardinality(Referring(f))
  BY <1>2, ReferringFinite DEF DescriptorsCounted, TypeOK
<1>. QED  BY <1>1, <1>2 DEF DescriptorsCounted

\* sys_open and sys_pipe: a free file gets a descriptor.
LEMMA NewDescriptor ==
  ASSUME TypeOK, DescriptorsCounted, NEW p \in Procs, NEW d \in Fds, NEW f \in Files,
         nref[f] = 0, nref' = [nref EXCEPT ![f] = 1],
         file' = [file EXCEPT ![p][d] = f], closed \subseteq closed'
  PROVE  DescriptorsCounted'
<1>1. ASSUME NEW g \in Files, g \notin closed' PROVE nref'[g] >= Cardinality(Referring(g)')
  <2>1. CASE g = f
    <3>1. Referring(g) = {}
      BY <1>1, <2>1, NoneReferring
    <3>2. Referring(g)' \subseteq Referring(g) \cup {<<p, d>>}
      BY DescriptorSet
    <3>3. /\ Cardinality(Referring(g)') <= Cardinality(Referring(g)) + 1
          /\ Cardinality(Referring(g)') \in Nat
      BY <3>2, OneMoreReferring
    <3>4. Cardinality(Referring(g)) = 0
      BY <3>1, FS_EmptySet
    <3>5. nref'[g] = 1
      BY <2>1 DEF TypeOK
    <3>. QED  BY <3>3, <3>4, <3>5
  <2>2. CASE g # f
    <3>1. Referring(g)' \subseteq Referring(g)
      BY <2>2, DescriptorSet
    <3>2. /\ Cardinality(Referring(g)') <= Cardinality(Referring(g))
          /\ Cardinality(Referring(g)') \in Nat /\ Cardinality(Referring(g)) \in Nat
      BY <3>1, FewerReferring, ReferringFinite
    <3>3. nref'[g] = nref[g] /\ nref[g] \in Nat /\ nref[g] >= Cardinality(Referring(g))
      BY <1>1, <2>2 DEF TypeOK, DescriptorsCounted
    <3>. QED  BY <3>2, <3>3
  <2>. QED  BY <2>1, <2>2
<1>. QED  BY <1>1 DEF DescriptorsCounted

\* sys_dup: a file without references that has a descriptor was closed.
LEMMA DupDescriptor ==
  ASSUME TypeOK, DescriptorsCounted, NEW p \in Procs, NEW d \in Fds, Dup(p, d),
         closed \subseteq closed'
  PROVE  DescriptorsCounted'
<1>. DEFINE f == file[p][d]
            e == FreeFd(p)
<1>0. f \in Files /\ e \in Fds /\ file' = [file EXCEPT ![p][e] = f]
  BY FreeDescriptor DEF Dup, TypeOK
<1>1. ASSUME NEW g \in Files, g \notin closed' PROVE nref'[g] >= Cardinality(Referring(g)')
  <2>1. CASE g = f
    <3>1. <<p, d>> \in Referring(g)
      BY <2>1 DEF Referring
    <3>2. nref[f] # 0
      BY <1>0, <1>1, <2>1, <3>1, NoneReferring
    <3>3. nref' = [nref EXCEPT ![f] = @ + 1]
      BY <1>0, <3>2 DEF Dup, TypeOK
    <3>4. /\ nref'[g] = nref[g] + 1 /\ nref[g] \in Nat
          /\ nref[g] >= Cardinality(Referring(g))
      BY <1>0, <1>1, <2>1, <3>3 DEF TypeOK, DescriptorsCounted
    <3>5. Referring(g)' \subseteq Referring(g) \cup {<<p, e>>}
      BY <1>0, DescriptorSet
    <3>6. /\ Cardinality(Referring(g)') <= Cardinality(Referring(g)) + 1
          /\ Cardinality(Referring(g)') \in Nat /\ Cardinality(Referring(g)) \in Nat
      BY <3>5, OneMoreReferring, ReferringFinite
    <3>. QED  BY <3>4, <3>6
  <2>2. CASE g # f
    <3>1. Referring(g)' \subseteq Referring(g)
      BY <1>0, <2>2, DescriptorSet
    <3>2. /\ Cardinality(Referring(g)') <= Cardinality(Referring(g))
          /\ Cardinality(Referring(g)') \in Nat /\ Cardinality(Referring(g)) \in Nat
      BY <3>1, FewerReferring, ReferringFinite
    <3>3. nref'[g] = nref[g] /\ nref[g] \in Nat /\ nref[g] >= Cardinality(Referring(g))
      BY <1>0, <1>1, <2>2 DEF Dup, TypeOK, DescriptorsCounted
    <3>. QED  BY <3>2, <3>3
  <2>. QED  BY <2>1, <2>2
<1>. QED  BY <1>1 DEF DescriptorsCounted

\* fork: the child's descriptors are the parent's, where it has any, and the counts
\* of their files grow by as many.
LEMMA ForkDescriptors ==
  ASSUME TypeOK, DescriptorsCounted, NEW p \in Procs, NEW q \in Procs, Fork(p, q),
         closed \subseteq closed'
  PROVE  DescriptorsCounted' /\ nref' \in [Files -> Nat]
                             /\ \A f \in Files : nref'[f] >= nref[f]
<1>. DEFINE open == {d \in Fds : file[p][d] # NULL}
            uses(f) == {d \in open : file[p][d] = f}
<1>1. CASE \E d \in open : nref[file[p][d]] < 1
  <2>1. nref' = nref /\ file' = file
    BY <1>1 DEF Fork, Stop
  <2>2. \A f \in Files : nref[f] \in Nat
    BY DEF TypeOK
  <2>. QED  BY <2>1, <2>2, SameDescriptors DEF TypeOK
<1>2. CASE ~ \E d \in open : nref[file[p][d]] < 1
  <2>1. /\ file' = [file EXCEPT ![q] = [d \in Fds |-> IF d \in open THEN file[p][d] ELSE @[d]]]
        /\ nref' = [f \in Files |-> nref[f] + Cardinality(uses(f))]
    BY <1>2 DEF Fork
  <2>2. ASSUME NEW f \in Files
        PROVE  /\ IsFiniteSet(uses(f)) /\ Cardinality(uses(f)) \in Nat
               /\ nref'[f] = nref[f] + Cardinality(uses(f)) /\ nref[f] \in Nat
    <3>1. IsFiniteSet(Fds) /\ uses(f) \subseteq Fds
      <4>1. IsFiniteSet(0 .. NOFILE - 1)
        BY Constants, FS_Interval
      <4>. QED  BY <4>1 DEF Fds
    <3>2. IsFiniteSet(uses(f)) /\ Cardinality(uses(f)) \in Nat
      BY <3>1, FS_Subset, FS_CardinalityType
    <3>. QED  BY <2>1, <3>2 DEF TypeOK
  <2>3. ASSUME NEW f \in Files
        PROVE  /\ Cardinality(Referring(f)') <= Cardinality(Referring(f)) + Cardinality(uses(f))
               /\ Cardinality(Referring(f)') \in Nat
    <3>. DEFINE U == {q} \X uses(f)
    <3>0. IsFiniteSet({q}) /\ Cardinality({q}) = 1
      BY FS_Singleton
    <3>1. IsFiniteSet(U) /\ Cardinality(U) = Cardinality(uses(f))
      <4>. HIDE DEF uses
      <4>1. IsFiniteSet(U) /\ Cardinality(U) = Cardinality({q}) * Cardinality(uses(f))
        BY <2>2, <3>0, FS_Product
      <4>. QED  BY <2>2, <3>0, <4>1
    <3>2. ASSUME NEW x \in Referring(f)' PROVE x \in Referring(f) \cup U
      <4>1. PICK r \in Procs, d \in Fds : x = <<r, d>> /\ file'[r][d] = f
        BY <3>2 DEF Referring
      <4>2. CASE r = q /\ d \in open
        <5>1. file[p][d] = f
          BY <2>1, <4>1, <4>2 DEF TypeOK
        <5>. QED  BY <4>1, <4>2, <5>1
      <4>3. CASE ~ (r = q /\ d \in open)
        <5>1. file[r][d] = f
          BY <2>1, <4>1, <4>3 DEF TypeOK
        <5>. QED  BY <4>1, <5>1 DEF Referring
      <4>. QED  BY <4>2, <4>3
    <3>. HIDE DEF U, uses
    <3>3. /\ IsFiniteSet(Referring(f) \cup U)
          /\ Cardinality(Referring(f) \cup U) = Cardinality(Referring(f)) + Cardinality(U)
                                                - Cardinality(Referring(f) \cap U)
      BY <3>1, ReferringFinite, FS_Union
    <3>4. Cardinality(Referring(f) \cap U) \in Nat
      BY <3>1, FS_Intersection, FS_CardinalityType
    <3>5. /\ Cardinality(Referring(f)') <= Cardinality(Referring(f) \cup U)
          /\ Cardinality(Referring(f)') \in Nat
      <4>1. Referring(f)' \subseteq Referring(f) \cup U
        BY <3>2
      <4>. QED  BY <3>3, <4>1, FS_Subset, FS_CardinalityType
    <3>. QED  BY <2>2, <3>1, <3>3, <3>4, <3>5, ReferringFinite
  <2>4. ASSUME NEW f \in Files, f \notin closed' PROVE nref'[f] >= Cardinality(Referring(f)')
    <3>1. nref[f] >= Cardinality(Referring(f))
      BY <2>4 DEF DescriptorsCounted
    <3>2. Cardinality(Referring(f)) \in Nat
      BY ReferringFinite
    <3>. HIDE DEF uses
    <3>. QED  BY <2>2, <2>3, <3>1, <3>2
  <2>. HIDE DEF uses
  <2>5. nref' \in [Files -> Nat] /\ \A f \in Files : nref'[f] >= nref[f]
    BY <2>1, <2>2
  <2>. QED  BY <2>4, <2>5 DEF DescriptorsCounted
<1>. QED  BY <1>1, <1>2

\* What sys_pipe does, with one descriptor and with two.
PipeOne(p, r, d) ==
  /\ nref' = [nref EXCEPT ![r] = 1]
  /\ type' = [type EXCEPT ![r] = "pipe"]
  /\ file' = [file EXCEPT ![p][d] = IF d = 0 THEN r ELSE NULL]

PipeTwo(p, r, w, d, e) ==
  /\ nref' = [nref EXCEPT ![r] = 1, ![w] = 1]
  /\ type' = [type EXCEPT ![r] = "pipe", ![w] = "pipe"]
  /\ file' = [file EXCEPT ![p][d] = r, ![p][e] = w]

\* The files and the descriptors that it finds.
LEMMA PipeFinds ==
  ASSUME TypeOK, NEW p \in Procs, Pipe(p)
  PROVE  \E r, w \in Files, d \in Fds :
           /\ r # w /\ nref[r] = 0 /\ nref[w] = 0 /\ file[p][d] = NULL
           /\ PipeOne(p, r, d) \/ \E e \in Fds \ {d} : PipeTwo(p, r, w, d, e)
<1>. DEFINE r == file_allocate
            W == {f \in Files \ {r} : nref[f] = 0}
            w == Least(W)
            d == FreeFd(p)
            E == {x \in Fds \ {d} : file[p][x] = NULL}
            e == Least(E)
<1>0. W \in SUBSET Nat /\ E \in SUBSET Nat
  BY Constants
<1>1. w # NULL /\ d # NULL
  BY DEF Pipe
<1>2. w \in Files /\ w # r /\ nref[w] = 0 /\ (e # NULL => e \in Fds \ {d})
  BY <1>0, <1>1, LeastIn
<1>3. r \in Files /\ nref[r] = 0
  <2>1. {f \in Files : nref[f] = 0} # {} /\ {f \in Files : nref[f] = 0} \in SUBSET Nat
    BY <1>2, Constants
  <2>2. Least({f \in Files : nref[f] = 0}) \in {f \in Files : nref[f] = 0}
    BY <2>1, LeastIn
  <2>. QED  BY <2>2 DEF file_allocate
<1>4. d \in Fds /\ file[p][d] = NULL
  BY <1>1, FreeDescriptor
<1>5. IF e = NULL THEN PipeOne(p, r, d) ELSE PipeTwo(p, r, w, d, e)
  BY DEF Pipe, PipeOne, PipeTwo
<1>. HIDE DEF r, w, d, e
<1>6. CASE e = NULL
  BY <1>2, <1>3, <1>4, <1>5, <1>6, Zenon
<1>7. CASE e # NULL
  BY <1>2, <1>3, <1>4, <1>5, <1>7, Zenon
<1>. QED  BY <1>6, <1>7

\* sys_pipe: both files get the descriptors that they are counted for.
LEMMA PipeDescriptors ==
  ASSUME TypeOK, DescriptorsCounted, NEW p \in Procs, Pipe(p), closed \subseteq closed'
  PROVE  DescriptorsCounted'
<1>1. PICK r \in Files, w \in Files, d \in Fds :
           /\ r # w /\ nref[r] = 0 /\ nref[w] = 0 /\ file[p][d] = NULL
           /\ PipeOne(p, r, d) \/ \E e \in Fds \ {d} : PipeTwo(p, r, w, d, e)
  BY PipeFinds, Zenon
<1>2. CASE PipeOne(p, r, d)
  <2>1. CASE d = 0
    <3>1. file' = [file EXCEPT ![p][d] = r]
      BY <1>2, <2>1 DEF PipeOne
    <3>2. nref[r] = 0 /\ nref' = [nref EXCEPT ![r] = 1]
      BY <1>1, <1>2 DEF PipeOne
    <3>. QED  BY <3>1, <3>2, NewDescriptor
  <2>2. CASE d # 0
    <3>1. file' = file
      BY <1>1, <1>2, <2>2 DEF TypeOK, PipeOne
    <3>2. \A f \in Files : nref'[f] \in Nat /\ nref'[f] >= nref[f]
      BY <1>1, <1>2 DEF TypeOK, PipeOne
    <3>. QED  BY <3>1, <3>2, SameDescriptors
  <2>. QED  BY <2>1, <2>2
<1>3. ASSUME NEW e \in Fds \ {d}, PipeTwo(p, r, w, d, e) PROVE DescriptorsCounted'
  <2>0. /\ nref' = [nref EXCEPT ![r] = 1, ![w] = 1]
        /\ file' = [file EXCEPT ![p][d] = r, ![p][e] = w]
    BY <1>3 DEF PipeTwo
  <2>1. ASSUME NEW g \in Files, NEW x \in Referring(g)'
        PROVE  x \in Referring(g) \/ (x = <<p, d>> /\ g = r) \/ (x = <<p, e>> /\ g = w)
    <3>1. PICK q \in Procs, a \in Fds : x = <<q, a>> /\ file'[q][a] = g
      BY <2>1 DEF Referring
    <3>2. CASE q = p /\ a \in {d, e}
      BY <2>0, <3>1, <3>2 DEF TypeOK
    <3>3. CASE ~ (q = p /\ a \in {d, e})
      <4>1. file[q][a] = g
        BY <2>0, <3>1, <3>3 DEF TypeOK
      <4>. QED  BY <3>1, <4>1 DEF Referring
    <3>. QED  BY <3>2, <3>3
  <2>2. ASSUME NEW g \in Files, g \notin closed' PROVE nref'[g] >= Cardinality(Referring(g)')
    <3>1. CASE g \in {r, w}
      <4>1. Referring(g) = {}
        BY <1>1, <2>2, <3>1, NoneReferring
      <4>2. PICK x : Referring(g)' \subseteq Referring(g) \cup {x}
        BY <1>1, <2>1, <3>1
      <4>3. /\ Cardinality(Referring(g)') <= Cardinality(Referring(g)) + 1
            /\ Cardinality(Referring(g)') \in Nat
        BY <4>2, OneMoreReferring
      <4>4. Cardinality(Referring(g)) = 0
        BY <4>1, FS_EmptySet
      <4>5. nref'[g] = 1
        BY <1>1, <2>0, <3>1 DEF TypeOK
      <4>. QED  BY <4>3, <4>4, <4>5
    <3>2. CASE g \notin {r, w}
      <4>1. Referring(g)' \subseteq Referring(g)
        BY <2>1, <3>2
      <4>2. /\ Cardinality(Referring(g)') <= Cardinality(Referring(g))
            /\ Cardinality(Referring(g)') \in Nat /\ Cardinality(Referring(g)) \in Nat
        BY <4>1, FewerReferring, ReferringFinite
      <4>3. /\ nref'[g] = nref[g] /\ nref[g] \in Nat
            /\ nref[g] >= Cardinality(Referring(g))
        BY <2>0, <2>2, <3>2 DEF TypeOK, DescriptorsCounted
      <4>. QED  BY <4>2, <4>3
    <3>. QED  BY <3>1, <3>2
  <2>. QED  BY <2>2 DEF DescriptorsCounted
<1>. QED  BY <1>1, <1>2, <1>3

----------------------------------------------------------------------------
(* The inode cache *)

\* What the cache keeps when references are only added: the inode of a slot that is
\* referenced.
Kept(c, d) ==
  \A s \in Slots : /\ d[s].nref >= c[s].nref
                   /\ c[s].nref > 0 => d[s].inum = c[s].inum
                   /\ d[s].inum # 0 \/ (c[s].inum = 0 /\ Unused(d, s))

\* A cache that inode_getc can leave behind.
Cache(c) ==
  c \in [Slots -> Cached] /\ \A s \in Slots : c[s].inum # 0 \/ Unused(c, s)

\* inode_getc takes a reference to the inode: in the slot that holds it, or in a free
\* one.
LEMMA GetInode ==
  ASSUME NEW c, Cache(c), NEW i \in Inums, inode_getc(c, i) # NULL
  PROVE  /\ SlotFor(c, i) \in Slots /\ Cache(inode_getc(c, i))
         /\ Kept(c, inode_getc(c, i))
         /\ inode_getc(c, i)[SlotFor(c, i)].nref = c[SlotFor(c, i)].nref + 1
         /\ inode_getc(c, i)[SlotFor(c, i)].inum = i
<1>. DEFINE S == {s \in Slots : (c[s].nref >= 0 /\ c[s].inum = i) \/ c[s].nref = 0}
<1>0. c # NULL /\ SlotFor(c, i) # NULL
  BY DEF inode_getc
<1>1. SlotFor(c, i) \in S
  <2>1. S \in SUBSET Nat /\ SlotFor(c, i) = Least(S)
    BY Constants DEF SlotFor
  <2>. QED  BY <1>0, <2>1, LeastIn
<1>2. PICK s \in Slots : /\ s = SlotFor(c, i)
                         /\ (c[s].nref >= 0 /\ c[s].inum = i) \/ c[s].nref = 0
  BY <1>1
<1>3. inode_getc(c, i) = [c EXCEPT ![s] = [nref |-> @.nref + 1, inum |-> i, type |-> @.type,
                                           read |-> @.read /\ @.inum = i]]
  BY <1>0, <1>2 DEF inode_getc
<1>4. PICK d : d = inode_getc(c, i)
  OBVIOUS
<1>5. c[s] \in Cached /\ c[s].nref \in Int
  BY <1>2 DEF Cache, Cached
<1>6. PICK b \in BOOLEAN : b = (c[s].read /\ c[s].inum = i)
  OBVIOUS
<1>7. d = [c EXCEPT ![s] = [nref |-> c[s].nref + 1, inum |-> i, type |-> c[s].type, read |-> b]]
  BY <1>3, <1>4, <1>6
<1>8. d \in [Slots -> Cached]
  <2>1. [nref |-> c[s].nref + 1, inum |-> i, type |-> c[s].type, read |-> b] \in Cached
    BY <1>5 DEF Cached
  <2>. QED  BY <1>7, <2>1 DEF Cache
<1>9. /\ d[s].nref = c[s].nref + 1 /\ d[s].inum = i
      /\ \A t \in Slots \ {s} : d[t] = c[t]
  BY <1>2, <1>7 DEF Cache
<1>10. i # 0
  BY Constants
<1>11. Cache(d)
  BY <1>8, <1>9, <1>10 DEF Cache, Unused
<1>12. Kept(c, d)
  <2>1. ASSUME NEW t \in Slots
        PROVE  /\ d[t].nref >= c[t].nref
               /\ c[t].nref > 0 => d[t].inum = c[t].inum
               /\ d[t].inum # 0 \/ (c[t].inum = 0 /\ Unused(d, t))
    <3>1. CASE t = s
      BY <1>2, <1>5, <1>9, <1>10, <3>1
    <3>2. CASE t # s
      <4>1. c[t].nref \in Int /\ d[t] = c[t]
        BY <1>9, <3>2 DEF Cache, Cached
      <4>. QED  BY <4>1 DEF Cache, Unused
    <3>. QED  BY <3>1, <3>2
  <2>. QED  BY <2>1 DEF Kept
<1>. QED  BY <1>2, <1>4, <1>9, <1>11, <1>12

\* One round of inode_allocate: what it leaves of the cache c when it tries inode j.
Tried(c, j, i, t) ==
  LET d == inode_getc(c, j)
  IN  IF d = NULL THEN NULL
      ELSE [d EXCEPT ![SlotFor(c, j)].type = IF j = i THEN t ELSE itype[j]]

\* g[j] is the cache before the round that tries inode j + 1.
Rounds(g, n, i, t) ==
  g = [j \in 1 .. n |-> IF j = 1 THEN icache ELSE Tried(g[j - 1], j, i, t)]

\* The rounds, one after the other.
LEMMA RoundsExist ==
  ASSUME NEW i, NEW t
  PROVE  \A n \in Nat : \E g : Rounds(g, n, i, t)
<1>. USE DEF Rounds
<1>. DEFINE Is(g, n) ==
              g = [j \in 1 .. n |-> IF j = 1 THEN icache ELSE Tried(g[j - 1], j, i, t)]
            S == {n \in Nat : ~ \E g : Is(g, n)}
<1>1. SUFFICES ASSUME S # {} PROVE FALSE
  OBVIOUS
<1>2. PICK x \in S : \A y \in S : ~ (<<y, x>> \in OpToRel(<, Nat))
  BY <1>1, NatLessThanWellFounded, WFMin
<1>3. \A y \in S : ~ (y < x)
  BY <1>2, Zenon DEF OpToRel
<1>4. x \in Nat /\ ~ \E g : Is(g, x)
  OBVIOUS
<1>5. CASE x = 0
  <2>. DEFINE g == [j \in 1 .. 0 |-> icache]
  <2>1. Is(g, 0)
    OBVIOUS
  <2>. QED  BY <1>4, <1>5, <2>1
<1>6. CASE x # 0
  <2>1. x - 1 \in Nat /\ x - 1 < x
    BY <1>4, <1>6
  <2>2. PICK g : Is(g, x - 1)
    BY <1>3, <2>1
  <2>. DEFINE h == [j \in 1 .. x |-> IF j = 1 THEN icache ELSE Tried(g[j - 1], j, i, t)]
  <2>3. ASSUME NEW j \in 1 .. x - 1 PROVE h[j] = g[j]
    <3>1. g[j] = IF j = 1 THEN icache ELSE Tried(g[j - 1], j, i, t)
      BY <2>2
    <3>. QED  BY <2>1, <3>1
  <2>4. \A j \in 1 .. x : j # 1 => h[j - 1] = g[j - 1]
    <3>1. \A j \in 1 .. x : j # 1 => j - 1 \in 1 .. x - 1
      BY <1>4
    <3>. HIDE DEF h
    <3>. QED  BY <2>3, <3>1
  <2>5. Is(h, x)
    BY <2>4
  <2>. QED  BY <1>4, <2>5
<1>. QED  BY <1>5, <1>6

\* References that are added in several steps.
LEMMA KeptAgain ==
  ASSUME NEW a, NEW b, NEW c, Cache(a), Cache(b), Cache(c), Kept(a, b), Kept(b, c)
  PROVE  Kept(a, c)
<1>1. ASSUME NEW s \in Slots
      PROVE  /\ c[s].nref >= a[s].nref
             /\ a[s].nref > 0 => c[s].inum = a[s].inum
             /\ c[s].inum # 0 \/ (a[s].inum = 0 /\ Unused(c, s))
  <2>1. a[s].nref \in Int /\ b[s].nref \in Int /\ c[s].nref \in Int
    BY DEF Cache, Cached
  <2>. QED  BY <2>1 DEF Kept
<1>. QED  BY <1>1 DEF Kept

\* A cache that stays as it is.
LEMMA KeptSame == \A c : Cache(c) => Kept(c, c)
<1>. SUFFICES ASSUME NEW c, Cache(c), NEW s \in Slots
              PROVE  /\ c[s].nref >= c[s].nref
                     /\ c[s].inum # 0 \/ (c[s].inum = 0 /\ Unused(c, s))
  BY DEF Kept
<1>1. c[s].nref \in Int
  BY DEF Cache, Cached
<1>. QED  BY <1>1 DEF Cache, Unused

\* The rest of a cached inode is of no matter to the counts.
LEMMA CopyOnly ==
  ASSUME NEW c, NEW d, Cache(c), d \in [Slots -> Cached],
         \A s \in Slots : d[s].nref = c[s].nref /\ d[s].inum = c[s].inum
  PROVE  Cache(d) /\ Kept(c, d)
<1>1. \A s \in Slots : c[s].nref \in Int
  BY DEF Cache, Cached
<1>. QED  BY <1>1 DEF Cache, Kept, Unused

\* A round of inode_allocate.
LEMMA RoundKeeps ==
  ASSUME TypeOK, NEW c, Cache(c), NEW j \in Inums, NEW i,
         NEW t \in {"none", "file"} \cup Types, NEW d, d = Tried(c, j, i, t), d # NULL
  PROVE  /\ c # NULL /\ Cache(d) /\ Kept(c, d) /\ SlotFor(c, j) \in Slots
         /\ d[SlotFor(c, j)].nref = c[SlotFor(c, j)].nref + 1
         /\ d[SlotFor(c, j)].inum = j
<1>1. PICK e : e = inode_getc(c, j)
  OBVIOUS
<1>2. e # NULL /\ c # NULL
  BY <1>1 DEF Tried, inode_getc
<1>3. PICK s : s = SlotFor(c, j)
  OBVIOUS
<1>4. /\ s \in Slots /\ Cache(e) /\ Kept(c, e)
      /\ e[s].nref = c[s].nref + 1 /\ e[s].inum = j
  BY <1>1, <1>2, <1>3, GetInode
<1>5. PICK u \in {"none", "file"} \cup Types : u = IF j = i THEN t ELSE itype[j]
  BY DEF TypeOK
<1>6. d = [e EXCEPT ![s].type = u]
  BY <1>1, <1>2, <1>3, <1>5 DEF Tried
<1>7. e \in [Slots -> Cached] /\ e[s] \in Cached
  BY <1>4 DEF Cache
<1>8. /\ d[s].nref = e[s].nref /\ d[s].inum = e[s].inum /\ d[s] \in Cached
      /\ \A x \in Slots \ {s} : d[x] = e[x]
  BY <1>4, <1>6, <1>7 DEF Cached
<1>9. d \in [Slots -> Cached]
  BY <1>6, <1>7, <1>8
<1>10. Cache(d) /\ Kept(e, d)
  BY <1>4, <1>8, <1>9, CopyOnly
<1>11. Kept(c, d)
  BY <1>4, <1>10, KeptAgain
<1>. QED  BY <1>2, <1>3, <1>4, <1>8, <1>10, <1>11

\* inode_allocate goes through all inodes up to the free one; each slot it touches keeps
\* a reference, and none that is referenced changes its inode.
LEMMA AllocateInode ==
  ASSUME TypeOK, InodesCounted, NEW i \in Inums, NEW t \in {"none", "file"} \cup Types,
         NEW r, r = inode_allocate(i, t), r.cache # NULL
  PROVE  /\ Cache(r.cache) /\ Kept(icache, r.cache) /\ r.slot \in Slots
         /\ r.cache[r.slot].nref >= icache[r.slot].nref + 1 /\ r.cache[r.slot].inum = i
<1>. DEFINE scan == CHOOSE g : g = [j \in 1 .. NINODES - 1 |->
                                      IF j = 1 THEN icache ELSE Tried(g[j - 1], j, i, t)]
<1>1. /\ NINODES - 1 \in Nat /\ i \in 1 .. NINODES - 1 /\ i - 1 \in 1 .. NINODES - 1
      /\ i # 1
  BY Constants DEF Inums
<1>2. scan = [j \in 1 .. NINODES - 1 |-> IF j = 1 THEN icache ELSE Tried(scan[j - 1], j, i, t)]
  <2>1. \E g : g = [j \in 1 .. NINODES - 1 |-> IF j = 1 THEN icache
                                               ELSE Tried(g[j - 1], j, i, t)]
    <3>1. PICK n \in Nat : n = NINODES - 1
      BY <1>1
    <3>2. \E g : Rounds(g, n, i, t)
      BY RoundsExist
    <3>. QED  BY <3>1, <3>2 DEF Rounds
  <2>. QED  BY <2>1
<1>3. r = Resolved(scan[i], IF scan[i - 1] = NULL THEN NULL ELSE SlotFor(scan[i - 1], i))
  BY DEF inode_allocate, Tried
<1>. HIDE DEF scan
<1>4. r.cache = scan[i] /\ r.slot = IF scan[i - 1] = NULL THEN NULL ELSE SlotFor(scan[i - 1], i)
  BY <1>3 DEF Resolved
<1>5. Cache(icache)
  BY DEF TypeOK, InodesCounted, Cache
<1>. DEFINE S == {j \in 1 .. NINODES - 1 : ~ (scan[j] = NULL
                                              \/ (Cache(scan[j]) /\ Kept(icache, scan[j])))}
<1>6. S = {}
  <2>1. SUFFICES ASSUME S # {} PROVE FALSE
    OBVIOUS
  <2>2. PICK x \in S : \A y \in S : ~ (<<y, x>> \in OpToRel(<, Nat))
    <3>1. S \in SUBSET Nat
      BY <1>1
    <3>. QED  BY <2>1, <3>1, NatLessThanWellFounded, WFMin
  <2>3. \A y \in S : ~ (y < x)
    <3>1. \A y \in S : y \in Nat
      BY <1>1
    <3>. QED  BY <2>2, <3>1, Zenon DEF OpToRel
  <2>4. /\ x \in 1 .. NINODES - 1 /\ scan[x] # NULL
        /\ ~ (Cache(scan[x]) /\ Kept(icache, scan[x]))
    OBVIOUS
  <2>. HIDE DEF S
  <2>5. x # 1
    <3>1. scan[1] = icache
      BY <1>1, <1>2
    <3>. QED  BY <1>5, <2>4, <3>1, KeptSame
  <2>6. x - 1 \in 1 .. NINODES - 1 /\ x - 1 < x /\ x \in Inums
    BY <1>1, <2>4, <2>5 DEF Inums
  <2>7. scan[x] = Tried(scan[x - 1], x, i, t)
    BY <1>2, <2>4, <2>5
  <2>8. scan[x - 1] # NULL
    BY <2>4, <2>7 DEF Tried, inode_getc
  <2>9. Cache(scan[x - 1]) /\ Kept(icache, scan[x - 1])
    BY <2>3, <2>6, <2>8 DEF S
  <2>10. Cache(scan[x]) /\ Kept(scan[x - 1], scan[x])
    BY <2>4, <2>6, <2>7, <2>9, RoundKeeps
  <2>. QED  BY <1>5, <2>4, <2>9, <2>10, KeptAgain
<1>7. \A j \in 1 .. NINODES - 1 : scan[j] # NULL => Cache(scan[j]) /\ Kept(icache, scan[j])
  BY <1>6
<1>8. scan[i] = Tried(scan[i - 1], i, i, t) /\ scan[i] # NULL
  BY <1>1, <1>2, <1>4
<1>9. scan[i - 1] # NULL
  BY <1>8 DEF Tried, inode_getc
<1>10. /\ Cache(scan[i - 1]) /\ Kept(icache, scan[i - 1])
       /\ Cache(scan[i]) /\ Kept(icache, scan[i])
  BY <1>1, <1>7, <1>8, <1>9
<1>11. PICK s : s = SlotFor(scan[i - 1], i)
  OBVIOUS
<1>12. s \in Slots /\ scan[i][s].nref = scan[i - 1][s].nref + 1 /\ scan[i][s].inum = i
  BY <1>8, <1>10, <1>11, RoundKeeps
<1>13. scan[i][s].nref >= icache[s].nref + 1
  <2>1. scan[i - 1][s].nref >= icache[s].nref
    BY <1>10, <1>12 DEF Kept
  <2>2. scan[i - 1][s].nref \in Int /\ icache[s].nref \in Int
    BY <1>5, <1>10, <1>12 DEF Cache, Cached
  <2>. QED  BY <1>12, <2>1, <2>2
<1>. QED  BY <1>4, <1>9, <1>10, <1>11, <1>12, <1>13

\* The cache of a state of the program.
LEMMA CacheNow == TypeOK /\ InodesCounted => Cache(icache)
BY DEF TypeOK, InodesCounted, Cache

\* inode_drop gives one reference back.
LEMMA DropInode ==
  ASSUME NEW c, Cache(c), NEW s \in Slots, c[s].inum # 0
  PROVE  /\ Cache(inode_drop(c, s)) /\ inode_drop(c, s)[s].nref = c[s].nref - 1
         /\ \A x \in Slots : inode_drop(c, s)[x].inum = c[x].inum
         /\ \A x \in Slots \ {s} : inode_drop(c, s)[x] = c[x]
<1>1. PICK d : d = inode_drop(c, s)
  OBVIOUS
<1>2. d = [c EXCEPT ![s].nref = c[s].nref - 1]
  BY <1>1 DEF inode_drop
<1>3. c \in [Slots -> Cached] /\ c[s] \in Cached /\ c[s].nref \in Int
  BY DEF Cache, Cached
<1>4. /\ d[s].nref = c[s].nref - 1 /\ d[s].inum = c[s].inum /\ d[s] \in Cached
      /\ \A x \in Slots \ {s} : d[x] = c[x]
  BY <1>2, <1>3 DEF Cached
<1>5. d \in [Slots -> Cached]
  BY <1>2, <1>3, <1>4
<1>6. \A x \in Slots : d[x].inum # 0 \/ Unused(d, x)
  BY <1>4 DEF Cache, Unused
<1>. QED  BY <1>1, <1>4, <1>5, <1>6 DEF Cache

\* inode_load changes the copy alone.
LEMMA LoadInode ==
  ASSUME TypeOK, NEW c, Cache(c), NEW s \in Slots, c[s].inum # 0
  PROVE  /\ Cache(inode_load(c, s))
         /\ \A x \in Slots : /\ inode_load(c, s)[x].inum = c[x].inum
                             /\ inode_load(c, s)[x].nref = c[x].nref
<1>1. CASE c[s].nref = 0 \/ c[s].read
  BY <1>1 DEF inode_load
<1>2. CASE ~ (c[s].nref = 0 \/ c[s].read)
  <2>1. PICK d : d = inode_load(c, s)
    OBVIOUS
  <2>2. c \in [Slots -> Cached] /\ c[s] \in Cached /\ c[s].inum \in Inums
    BY DEF Cache, Cached
  <2>3. PICK t \in {"none", "file"} \cup Types : t = itype[c[s].inum]
    BY <2>2 DEF TypeOK
  <2>4. d = [c EXCEPT ![s].read = TRUE, ![s].type = t]
    BY <1>2, <2>1, <2>3 DEF inode_load
  <2>5. /\ d[s].nref = c[s].nref /\ d[s].inum = c[s].inum /\ d[s] \in Cached
        /\ \A x \in Slots \ {s} : d[x] = c[x]
    BY <2>2, <2>4 DEF Cached
  <2>6. d \in [Slots -> Cached]
    BY <2>2, <2>4, <2>5
  <2>7. Cache(d) /\ \A x \in Slots : d[x].inum = c[x].inum /\ d[x].nref = c[x].nref
    BY <2>5, <2>6, CopyOnly
  <2>. QED  BY <2>1, <2>7
<1>. QED  BY <1>1, <1>2

\* A path that resolves leaves the counts as they were.
LEMMA ResolvePath ==
  ASSUME TypeOK, InodesCounted, NEW i \in Inums, NEW r, r = dir_abspath(i), r.cache # NULL
  PROVE  /\ r.slot \in Slots /\ r.cache[r.slot].inum # 0
         /\ Cache(r.cache) /\ Kept(icache, r.cache)
         /\ \A x \in Slots : r.cache[x].nref = icache[x].nref
<1>1. PICK s, c : s = SlotFor(icache, i) /\ c = inode_getc(icache, i)
  OBVIOUS
<1>2. r = IF c = NULL THEN Resolved(NULL, NULL)
          ELSE Resolved(inode_drop(inode_load(c, s), s), s)
  BY <1>1 DEF dir_abspath
<1>3. c # NULL
  BY <1>2 DEF Resolved
<1>4. r.slot = s /\ r.cache = inode_drop(inode_load(c, s), s)
  BY <1>2, <1>3 DEF Resolved
<1>5. /\ s \in Slots /\ Cache(c) /\ Kept(icache, c)
      /\ c[s].nref = icache[s].nref + 1 /\ c[s].inum = i
  BY <1>1, <1>3, CacheNow, GetInode
<1>6. i # 0
  BY Constants
<1>7. PICK l : l = inode_load(c, s)
  OBVIOUS
<1>8. Cache(l) /\ \A x \in Slots : l[x].inum = c[x].inum /\ l[x].nref = c[x].nref
  BY <1>5, <1>6, <1>7, LoadInode
<1>9. /\ Cache(r.cache) /\ r.cache[s].nref = l[s].nref - 1
      /\ \A x \in Slots : r.cache[x].inum = l[x].inum
      /\ \A x \in Slots \ {s} : r.cache[x] = l[x]
  BY <1>4, <1>5, <1>6, <1>7, <1>8, DropInode
<1>10. \A x \in Slots : icache[x].nref \in Int
  BY CacheNow DEF Cache, Cached
<1>11. ASSUME NEW x \in Slots, x # s PROVE c[x].nref = icache[x].nref
  BY <1>1, <1>3, <1>11 DEF inode_getc, TypeOK
<1>12. \A x \in Slots : r.cache[x].nref = icache[x].nref
  BY <1>5, <1>8, <1>9, <1>10, <1>11
<1>13. ASSUME NEW x \in Slots
       PROVE  /\ r.cache[x].nref >= icache[x].nref
              /\ icache[x].nref > 0 => r.cache[x].inum = icache[x].inum
              /\ r.cache[x].inum # 0 \/ (icache[x].inum = 0 /\ Unused(r.cache, x))
  <2>1. r.cache[x].inum = c[x].inum
    BY <1>8, <1>9
  <2>2. c[x].inum # 0 \/ (icache[x].inum = 0 /\ Unused(c, x))
    BY <1>5 DEF Kept
  <2>3. r.cache[x].inum # 0 \/ (icache[x].inum = 0 /\ Unused(r.cache, x))
    BY <1>9, <2>1, <2>2 DEF Cache
  <2>. QED  BY <1>5, <1>10, <1>12, <2>1, <2>3 DEF Kept
<1>. QED  BY <1>4, <1>5, <1>6, <1>8, <1>9, <1>12, <1>13 DEF Kept

\* What fs_create returns: a slot with one reference more, to an inode of the disk.
LEMMA CreatedInode ==
  ASSUME TypeOK, InodesCounted, NEW n \in Names, NEW t \in {"none", "file"} \cup Types,
         NEW r, r = Created(n, t), r.cache # NULL
  PROVE  /\ Cache(r.cache) /\ Kept(icache, r.cache) /\ r.slot \in Slots
         /\ r.cache[r.slot].nref >= icache[r.slot].nref + 1 /\ r.cache[r.slot].inum # 0
         /\ entry[n] = 0 => FreeInode \in Inums
<1>0. Cache(icache) /\ 0 \notin Inums
  BY CacheNow, Constants
<1>1. CASE entry[n] # 0
  <2>1. entry[n] \in Inums
    BY <1>1 DEF TypeOK
  <2>2. r = Resolved(inode_getc(icache, entry[n]), SlotFor(icache, entry[n]))
    BY <1>1 DEF Created
  <2>3. r.cache = inode_getc(icache, entry[n]) /\ r.slot = SlotFor(icache, entry[n])
    BY <2>2 DEF Resolved
  <2>4. /\ r.slot \in Slots /\ Cache(r.cache) /\ Kept(icache, r.cache)
        /\ r.cache[r.slot].nref = icache[r.slot].nref + 1
        /\ r.cache[r.slot].inum = entry[n]
    BY <1>0, <2>1, <2>3, GetInode
  <2>5. icache[r.slot].nref \in Int
    BY <1>0, <2>4 DEF Cache, Cached
  <2>. QED  BY <1>1, <2>4, <2>5
<1>2. CASE entry[n] = 0
  <2>1. PICK a : a = inode_allocate(FreeInode, t)
    OBVIOUS
  <2>2. FreeInode # NULL
    BY <1>2 DEF Created, Resolved
  <2>3. FreeInode \in Inums
    <3>1. {j \in Inums : itype[j] = "none"} \in SUBSET Nat
      BY Constants
    <3>. QED  BY <2>2, <3>1, LeastIn DEF FreeInode
  <2>4. r = IF a.cache = NULL \/ t # "dir" THEN a ELSE [a EXCEPT !.cache[a.slot].read = TRUE]
    BY <1>2, <2>1, <2>2 DEF Created
  <2>5. a.cache # NULL
    BY <2>4
  <2>6. /\ Cache(a.cache) /\ Kept(icache, a.cache) /\ a.slot \in Slots
        /\ a.cache[a.slot].nref >= icache[a.slot].nref + 1
        /\ a.cache[a.slot].inum = FreeInode
    BY <2>1, <2>3, <2>5, AllocateInode
  <2>7. CASE t # "dir"
    BY <1>0, <2>3, <2>4, <2>6, <2>7
  <2>8. CASE t = "dir"
    <3>1. PICK c, s : c = a.cache /\ s = a.slot
      OBVIOUS
    <3>2. r = [a EXCEPT !.cache[a.slot].read = TRUE]
      BY <2>4, <2>5, <2>8
    <3>3. a = Resolved(a.cache, a.slot)
      BY <2>1 DEF inode_allocate, Resolved
    <3>4. r.slot = s /\ r.cache = [c EXCEPT ![s].read = TRUE]
      BY <3>1, <3>2, <3>3 DEF Resolved
    <3>. DEFINE d == r.cache
    <3>. HIDE DEF d
    <3>5. /\ d = [c EXCEPT ![s].read = TRUE] /\ s \in Slots
          /\ c \in [Slots -> Cached] /\ c[s] \in Cached
      BY <2>6, <3>1, <3>4 DEF Cache, d
    <3>6. /\ d[s].nref = c[s].nref /\ d[s].inum = c[s].inum /\ d[s] \in Cached
          /\ \A x \in Slots \ {s} : d[x] = c[x]
      BY <3>5 DEF Cached
    <3>7. d \in [Slots -> Cached]
      BY <3>5, <3>6
    <3>8. Cache(d) /\ Kept(c, d)
      BY <2>6, <3>1, <3>6, <3>7, CopyOnly
    <3>9. Kept(icache, d)
      BY <1>0, <2>6, <3>1, <3>8, KeptAgain
    <3>. QED  BY <1>0, <2>3, <2>6, <3>1, <3>4, <3>6, <3>8, <3>9 DEF d
  <2>. QED  BY <2>7, <2>8
<1>. QED  BY <1>1, <1>2

----------------------------------------------------------------------------
(* Steps *)

\* What every step does to the history variables.
History == /\ closed' = closed \cup {f \in Files : nref'[f] < nref[f]}
           /\ borrowed' \in BOOLEAN /\ (~ borrowed' => ~ borrowed)

\* What the steps do to the cache: a referenced slot keeps its inode, and before
\* open() without O_CREAT is used no reference of a file is lost.
CacheMove ==
  /\ Cache(icache')
  /\ \A s \in Slots : icache[s].inum # 0 => icache'[s].inum # 0
  /\ \A s \in Slots : icache[s].nref > 0 => icache'[s].inum = icache[s].inum
  /\ ~ borrowed' => \A s \in Slots : icache'[s].nref >= icache[s].nref

\* What a path resolves to, with a reference that a file can take over.
Good(r) ==
  /\ r.slot \in Slots /\ Cache(r.cache) /\ Kept(icache, r.cache)
  /\ r.cache[r.slot].inum # 0
  /\ ~ borrowed' => r.cache[r.slot].nref >= icache[r.slot].nref + 1

\* The type of the disk in the next state.
Disk == /\ itype' \in [Inums -> {"none", "file"} \cup Types]
        /\ entry' \in [Names -> {0} \cup Inums]

\* The files that are open on a slot are finitely many.
LEMMA OpenOnFinite == \A s : IsFiniteSet(OpenOn(s)) /\ Cardinality(OpenOn(s)) \in Nat
<1>. TAKE s
<1>1. IsFiniteSet(Files)
  BY Constants, FS_Interval DEF Files
<1>2. OpenOn(s) \in SUBSET Files
  BY DEF OpenOn
<1>. QED  BY <1>1, <1>2, FS_Subset, FS_CardinalityType

\* The steps that leave the cache alone,
LEMMA MoveSame == TypeOK /\ InodesCounted /\ icache' = icache => CacheMove
<1>. SUFFICES ASSUME TypeOK, InodesCounted, icache' = icache PROVE CacheMove
  OBVIOUS
<1>1. \A s \in Slots : icache[s].nref \in Int
  BY CacheNow DEF Cache, Cached
<1>. QED  BY <1>1, CacheNow DEF CacheMove

\* those that keep the reference of a path,
LEMMA MoveKeep ==
  ASSUME NEW r, Cache(r.cache), Kept(icache, r.cache), icache' = r.cache
  PROVE  CacheMove
BY DEF CacheMove, Kept

\* and those that give it back.
LEMMA MoveDrop ==
  ASSUME TypeOK, InodesCounted, NEW r, Good(r), icache' = inode_drop(r.cache, r.slot)
  PROVE  CacheMove
<1>1. /\ Cache(icache') /\ icache'[r.slot].nref = r.cache[r.slot].nref - 1
      /\ \A x \in Slots : icache'[x].inum = r.cache[x].inum
      /\ \A x \in Slots \ {r.slot} : icache'[x] = r.cache[x]
  BY DropInode DEF Good
<1>2. \A x \in Slots : icache[x].nref \in Int /\ r.cache[x].nref \in Int
  BY CacheNow DEF Good, Cache, Cached
<1>3. Kept(icache, r.cache) /\ r.slot \in Slots
  BY DEF Good
<1>4. ASSUME NEW s \in Slots, ~ borrowed' PROVE icache'[s].nref >= icache[s].nref
  <2>1. CASE s = r.slot
    BY <1>1, <1>2, <1>4, <2>1 DEF Good
  <2>2. CASE s # r.slot
    BY <1>1, <1>2, <1>3, <2>2 DEF Kept
  <2>. QED  BY <2>1, <2>2
<1>. QED  BY <1>1, <1>3, <1>4 DEF CacheMove, Kept

\* The files stay as they are.
LEMMA TableKept ==
  ASSUME Inductive, History, CacheMove, UNCHANGED table, Disk, used' \subseteq Procs
  PROVE  Inductive'
<1>. USE DEF Inductive, table
<1>1. closed' \subseteq Files /\ closed \subseteq closed'
  BY DEF History, TypeOK
<1>2. TypeOK'
  BY <1>1 DEF TypeOK, History, CacheMove, Cache, Disk
<1>3. TypedWhileOpen'
  BY DEF TypedWhileOpen
<1>4. DescriptorsCounted'
  <2>1. \A f \in Files : nref'[f] \in Nat /\ nref'[f] >= nref[f]
    BY DEF TypeOK
  <2>. QED  BY <1>1, <2>1, SameDescriptors
<1>5. InodesCounted'
  <2>1. \A f \in Files : type'[f] = "inode" => ino'[f] \in Slots /\ icache'[ino'[f]].inum # 0
    BY DEF InodesCounted, CacheMove
  <2>2. \A s \in Slots : icache'[s].inum # 0 \/ Unused(icache', s)
    BY DEF CacheMove, Cache
  <2>3. ASSUME ~ borrowed', NEW s \in Slots PROVE icache'[s].nref >= Cardinality(OpenOn(s)')
    <3>1. OpenOn(s)' = OpenOn(s)
      BY DEF OpenOn
    <3>2. icache[s].nref \in Int /\ icache'[s].nref \in Int
      BY <1>2 DEF TypeOK, Cached
    <3>3. icache'[s].nref >= icache[s].nref
      BY <2>3 DEF CacheMove
    <3>4. icache[s].nref >= Cardinality(OpenOn(s))
      BY <2>3 DEF History, InodesCounted
    <3>. QED  BY <3>1, <3>2, <3>3, <3>4, OpenOnFinite
  <2>. QED  BY <2>1, <2>2, <2>3 DEF InodesCounted, Unused
<1>. QED  BY <1>2, <1>3, <1>4, <1>5

\* sys_open with an inode: the file takes the reference over.
LEMMA InstallStep ==
  ASSUME Inductive, History, NEW p \in Procs, NEW r, Good(r), Install(p, r), Disk, used' = used
  PROVE  Inductive' /\ CacheMove
<1>. USE DEF Inductive
<1>0. /\ r.slot \in Slots /\ Cache(r.cache) /\ Kept(icache, r.cache)
      /\ r.cache[r.slot].inum # 0
  BY DEF Good
<1>1. CASE file_allocate = NULL \/ FreeFd(p) = NULL
  <2>1. icache' = inode_drop(r.cache, r.slot) /\ UNCHANGED table
    BY <1>1 DEF Install, table
  <2>2. CacheMove /\ used' \subseteq Procs
    BY <2>1, MoveDrop DEF TypeOK
  <2>. QED  BY <2>1, <2>2, TableKept
<1>2. CASE ~ (file_allocate = NULL \/ FreeFd(p) = NULL)
  <2>1. PICK f \in Files, d \in Fds :
          /\ f = file_allocate /\ d = FreeFd(p) /\ nref[f] = 0
    BY <1>2, FreeFile, FreeDescriptor
  <2>2. /\ nref' = [nref EXCEPT ![f] = 1]
        /\ type' = [type EXCEPT ![f] = "inode"]
        /\ ino'  = [ino EXCEPT ![f] = r.slot]
        /\ file' = [file EXCEPT ![p][d] = f]
        /\ icache' = r.cache
    BY <1>2, <2>1 DEF Install
  <2>3. CacheMove
    BY <1>0, <2>2, MoveKeep
  <2>4. closed' \subseteq Files /\ closed \subseteq closed'
    BY DEF History, TypeOK
  <2>5. TypeOK'
    <3>1. nref' \in [Files -> Nat] /\ type' \in [Files -> {"none", "pipe", "inode"}]
      BY <2>2 DEF TypeOK
    <3>2. ino' \in [Files -> Slots \cup {NULL}]
      BY <1>0, <2>2 DEF TypeOK
    <3>3. file' \in [Procs -> [Fds -> Files \cup {NULL}]]
      BY <2>2 DEF TypeOK
    <3>4. icache' \in [Slots -> Cached]
      BY <2>3 DEF CacheMove, Cache
    <3>. QED  BY <2>4, <3>1, <3>2, <3>3, <3>4 DEF TypeOK, History, Disk
  <2>6. TypedWhileOpen'
    BY <2>2 DEF TypeOK, TypedWhileOpen
  <2>7. DescriptorsCounted'
    BY <2>1, <2>2, <2>4, NewDescriptor
  <2>8. InodesCounted'
    <3>1. \A g \in Files : type'[g] = "inode" => ino'[g] \in Slots /\ icache'[ino'[g]].inum # 0
      <4>1. SUFFICES ASSUME NEW g \in Files, type'[g] = "inode"
                     PROVE  ino'[g] \in Slots /\ icache'[ino'[g]].inum # 0
        OBVIOUS
      <4>2. CASE g = f
        BY <1>0, <2>2, <4>2 DEF TypeOK
      <4>3. CASE g # f
        <5>1. type[g] = "inode" /\ ino'[g] = ino[g]
          BY <2>2, <4>1, <4>3 DEF TypeOK
        <5>. QED  BY <2>3, <5>1 DEF InodesCounted, CacheMove
      <4>. QED  BY <4>2, <4>3
    <3>2. \A s \in Slots : icache'[s].inum # 0 \/ Unused(icache', s)
      BY <2>3 DEF CacheMove, Cache
    <3>3. ASSUME ~ borrowed', NEW s \in Slots PROVE icache'[s].nref >= Cardinality(OpenOn(s)')
      <4>1. type[f] = "none"
        BY <2>1 DEF TypedWhileOpen
      <4>2. icache[s].nref \in Int /\ icache'[s].nref \in Int
        BY <2>5 DEF TypeOK, Cached
      <4>3. /\ icache[s].nref >= Cardinality(OpenOn(s))
            /\ icache'[s].nref >= icache[s].nref
        BY <2>3, <3>3 DEF History, InodesCounted, CacheMove
      <4>4. CASE s = r.slot
        <5>1. OpenOn(s)' = OpenOn(s) \cup {f} /\ f \notin OpenOn(s)
          BY <2>2, <4>1, <4>4 DEF OpenOn, TypeOK
        <5>2. Cardinality(OpenOn(s)') = Cardinality(OpenOn(s)) + 1
          BY <5>1, OpenOnFinite, FS_AddElement
        <5>3. icache'[s].nref >= icache[s].nref + 1
          BY <2>2, <3>3, <4>4 DEF Good
        <5>. QED  BY <4>2, <4>3, <5>2, <5>3, OpenOnFinite
      <4>5. CASE s # r.slot
        <5>1. OpenOn(s)' = OpenOn(s)
          BY <2>2, <4>1, <4>5 DEF OpenOn, TypeOK
        <5>. QED  BY <4>2, <4>3, <5>1, OpenOnFinite
      <4>. QED  BY <4>4, <4>5
    <3>. QED  BY <3>1, <3>2, <3>3 DEF InodesCounted, Unused
  <2>. QED  BY <2>3, <2>5, <2>6, <2>7, <2>8
<1>. QED  BY <1>1, <1>2

\* A slot that is referenced keeps its inode, and a file that is referenced keeps its
\* type and its slot.
SlotsKept == \A s \in Slots : icache[s].nref > 0 => icache'[s].inum = icache[s].inum

FilesHeld == \A f \in Files : nref[f] > 0 /\ nref'[f] > 0
                                => type'[f] = type[f] /\ ino'[f] = ino[f]

Step == Inductive' /\ SlotsKept /\ FilesHeld

\* The steps that leave the file table alone.
LEMMA TableStep ==
  ASSUME Inductive, History, CacheMove, UNCHANGED table, Disk, used' \subseteq Procs
  PROVE  Step
<1>1. Inductive'
  BY TableKept
<1>. QED  BY <1>1 DEF Step, SlotsKept, FilesHeld, CacheMove, table

\* A panic, and a stuttering step.
LEMMA StopStep ==
  ASSUME Inductive, History, Stop \/ UNCHANGED vars
  PROVE  Step
<1>1. /\ UNCHANGED table /\ icache' = icache /\ used' = used /\ itype' = itype
      /\ entry' = entry
  BY DEF Stop, table, vars, disk
<1>2. Disk /\ used' \subseteq Procs
  BY <1>1 DEF Disk, Inductive, TypeOK
<1>3. CacheMove
  BY <1>1, MoveSame DEF Inductive
<1>. QED  BY <1>1, <1>2, <1>3, TableStep

\* sys_open installs a file that nobody refers to.
LEMMA InstallHeld ==
  ASSUME Inductive, History, NEW p \in Procs, NEW r, Good(r), Install(p, r), Disk, used' = used
  PROVE  Step
<1>1. Inductive' /\ SlotsKept
  BY InstallStep DEF SlotsKept, CacheMove
<1>2. FilesHeld
  <2>1. CASE file_allocate = NULL \/ FreeFd(p) = NULL
    BY <2>1 DEF Install, FilesHeld
  <2>2. CASE ~ (file_allocate = NULL \/ FreeFd(p) = NULL)
    <3>1. PICK f \in Files : f = file_allocate /\ nref[f] = 0
      BY <2>2, FreeFile
    <3>2. /\ type' = [type EXCEPT ![f] = "inode"]
          /\ ino'  = [ino EXCEPT ![f] = r.slot]
      BY <2>2, <3>1 DEF Install
    <3>. QED  BY <3>1, <3>2 DEF FilesHeld, Inductive, TypeOK
  <2>. QED  BY <2>1, <2>2
<1>. QED  BY <1>1, <1>2 DEF Step

\* sys_open without O_CREAT.
LEMMA OpenStep ==
  ASSUME Inductive, History, borrowed' = TRUE, NEW p \in Procs, NEW n \in Names,
         NEW rdonly \in BOOLEAN, Open(p, n, rdonly)
  PROVE  Step
<1>1. PICK r : r = dir_abspath(entry[n])
  OBVIOUS
<1>2. CASE r.cache = NULL
  BY <1>1, <1>2, StopStep DEF Open
<1>3. CASE r.cache # NULL
  <2>1. /\ \/ DropReference(r)
           \/ Install(p, r)
        /\ used' = used /\ itype' = itype /\ entry' = entry
    BY <1>1, <1>3 DEF Open, disk
  <2>2. entry[n] \in Inums
    BY DEF Open, Inductive, TypeOK
  <2>3. Good(r)
    BY <1>1, <1>3, <2>2, ResolvePath DEF Good, Inductive
  <2>4. Disk /\ used' \subseteq Procs
    BY <2>1 DEF Disk, Inductive, TypeOK
  <2>5. CASE DropReference(r)
    <3>1. CacheMove
      BY <2>3, <2>5, MoveDrop DEF DropReference, Inductive
    <3>. QED  BY <2>4, <2>5, <3>1, TableStep DEF DropReference
  <2>6. CASE Install(p, r)
    BY <2>1, <2>3, <2>4, <2>6, InstallHeld
  <2>. QED  BY <2>1, <2>5, <2>6
<1>. QED  BY <1>2, <1>3

\* What fs_create leaves on the disk and in the cache.
LEMMA CreateStep ==
  ASSUME Inductive, NEW n \in Names, NEW t \in {"none", "file"} \cup Types,
         NEW r, r = Created(n, t), r.cache # NULL, Create(n, t)
  PROVE  Good(r) /\ Disk
<1>1. /\ Cache(r.cache) /\ Kept(icache, r.cache) /\ r.slot \in Slots
      /\ r.cache[r.slot].nref >= icache[r.slot].nref + 1 /\ r.cache[r.slot].inum # 0
      /\ entry[n] = 0 => FreeInode \in Inums
  BY CreatedInode DEF Inductive
<1>2. Disk
  BY <1>1 DEF Create, Disk, disk, Inductive, TypeOK
<1>. QED  BY <1>1, <1>2 DEF Good

\* sys_open with O_CREAT.
LEMMA OpenCreateStep ==
  ASSUME Inductive, History, NEW p \in Procs, NEW n \in Names, OpenCreate(p, n)
  PROVE  Step
<1>1. PICK r : r = Created(n, "file")
  OBVIOUS
<1>2. CASE r.cache = NULL
  BY <1>1, <1>2, StopStep DEF OpenCreate
<1>3. CASE r.cache # NULL
  <2>1. Create(n, "file") /\ (KeepReference(r) \/ Install(p, r)) /\ used' = used
    BY <1>1, <1>3 DEF OpenCreate
  <2>2. Good(r) /\ Disk /\ used' \subseteq Procs
    BY <1>1, <1>3, <2>1, CreateStep DEF Inductive, TypeOK
  <2>3. CASE KeepReference(r)
    <3>1. CacheMove
      BY <2>2, <2>3, MoveKeep DEF KeepReference, Good
    <3>. QED  BY <2>2, <2>3, <3>1, TableStep DEF KeepReference
  <2>4. CASE Install(p, r)
    BY <2>1, <2>2, <2>4, InstallHeld
  <2>. QED  BY <2>1, <2>3, <2>4
<1>. QED  BY <1>2, <1>3

\* sys_mknod and sys_mkdir.
LEMMA MakeStep ==
  ASSUME Inductive, History, NEW p \in Procs, NEW n \in Names, NEW t \in Types, Make(p, n, t)
  PROVE  Step
<1>1. PICK r : r = Created(n, t)
  OBVIOUS
<1>2. CASE r.cache = NULL
  BY <1>1, <1>2, StopStep DEF Make
<1>3. CASE r.cache # NULL
  <2>1. Create(n, t) /\ (KeepReference(r) \/ DropReference(r)) /\ used' = used
    BY <1>1, <1>3 DEF Make
  <2>2. Good(r) /\ Disk /\ used' \subseteq Procs
    BY <1>1, <1>3, <2>1, CreateStep DEF Inductive, TypeOK
  <2>3. CacheMove /\ UNCHANGED table
    BY <2>1, <2>2, MoveKeep, MoveDrop DEF KeepReference, DropReference, Good, Inductive
  <2>. QED  BY <2>2, <2>3, TableStep
<1>. QED  BY <1>2, <1>3

\* exec and sys_link.
LEMMA LookupStep ==
  ASSUME Inductive, History, NEW p \in Procs, NEW n \in Names, Lookup(p, n)
  PROVE  Step
<1>1. PICK r : r = dir_abspath(entry[n])
  OBVIOUS
<1>2. CASE r.cache = NULL
  BY <1>1, <1>2, StopStep DEF Lookup
<1>3. CASE r.cache # NULL
  <2>1. /\ icache' = r.cache /\ UNCHANGED table
        /\ used' = used /\ itype' = itype /\ entry' = entry
    BY <1>1, <1>3 DEF Lookup, disk
  <2>2. entry[n] \in Inums
    BY DEF Lookup, Inductive, TypeOK
  <2>3. Cache(r.cache) /\ Kept(icache, r.cache)
    BY <1>1, <1>3, <2>2, ResolvePath DEF Inductive
  <2>4. CacheMove
    BY <2>1, <2>3, MoveKeep
  <2>5. Disk /\ used' \subseteq Procs
    BY <2>1 DEF Disk, Inductive, TypeOK
  <2>. QED  BY <2>1, <2>4, <2>5, TableStep
<1>. QED  BY <1>2, <1>3

\* sys_read and sys_write.
LEMMA UseStep ==
  ASSUME Inductive, History, NEW p \in Procs, NEW d \in Fds, Use(p, d)
  PROVE  Step
<1>1. PICK f \in Files : f = file[p][d]
  BY DEF Use, Inductive, TypeOK
<1>2. type[f] \in {"none", "pipe", "inode"}
  BY DEF Inductive, TypeOK
<1>3. CASE type[f] # "inode"
  <2>1. Stop \/ UNCHANGED vars
    BY <1>1, <1>2, <1>3 DEF Use
  <2>. QED  BY <2>1, StopStep
<1>4. CASE type[f] = "inode"
  <2>1. /\ icache' = inode_load(icache, ino[f]) /\ UNCHANGED table
        /\ used' = used /\ itype' = itype /\ entry' = entry
    BY <1>1, <1>4 DEF Use, disk
  <2>2. ino[f] \in Slots /\ icache[ino[f]].inum # 0 /\ Cache(icache)
    BY <1>4, CacheNow DEF Inductive, InodesCounted
  <2>3. /\ Cache(icache')
        /\ \A x \in Slots : icache'[x].inum = icache[x].inum /\ icache'[x].nref = icache[x].nref
    BY <2>1, <2>2, LoadInode DEF Inductive
  <2>4. CacheMove
    <3>1. \A s \in Slots : icache[s].nref \in Int
      BY <2>2 DEF Cache, Cached
    <3>. QED  BY <2>3, <3>1 DEF CacheMove
  <2>5. Disk /\ used' \subseteq Procs
    BY <2>1 DEF Disk, Inductive, TypeOK
  <2>. QED  BY <2>1, <2>4, <2>5, TableStep
<1>. QED  BY <1>3, <1>4

\* exit and the wait of the parent.
LEMMA ExitStep ==
  ASSUME Inductive, History, NEW p \in Procs, Exit(p)
  PROVE  Step
<1>1. /\ UNCHANGED table /\ icache' = icache /\ used' = used \ {p} /\ itype' = itype
      /\ entry' = entry
  BY DEF Exit, disk
<1>2. Disk /\ used' \subseteq Procs
  BY <1>1 DEF Disk, Inductive, TypeOK
<1>3. CacheMove
  BY <1>1, MoveSame DEF Inductive
<1>. QED  BY <1>1, <1>2, <1>3, TableStep

\* The steps that leave the cache and its files alone.
LEMMA InodesAlone ==
  ASSUME Inductive, History, icache' = icache, \A s : OpenOn(s)' = OpenOn(s)
  PROVE  InodesCounted' /\ SlotsKept
<1>1. ASSUME NEW f \in Files, type'[f] = "inode"
      PROVE  ino'[f] \in Slots /\ icache'[ino'[f]].inum # 0
  <2>1. f \in OpenOn(ino'[f])
    <3>1. f \in {g \in Files : type'[g] = "inode" /\ ino'[g] = ino'[f]}
      BY <1>1
    <3>2. PICK s : s = ino'[f]
      OBVIOUS
    <3>3. f \in OpenOn(s)'
      BY <3>1, <3>2 DEF OpenOn
    <3>. QED  BY <3>2, <3>3
  <2>2. type[f] = "inode" /\ ino'[f] = ino[f]
    BY <2>1 DEF OpenOn
  <2>. QED  BY <2>2 DEF Inductive, InodesCounted
<1>2. \A s \in Slots : icache'[s].inum # 0 \/ Unused(icache', s)
  BY DEF Inductive, InodesCounted
<1>3. ~ borrowed' => \A s \in Slots : icache'[s].nref >= Cardinality(OpenOn(s)')
  BY DEF Inductive, InodesCounted, History
<1>. QED  BY <1>1, <1>2, <1>3 DEF InodesCounted, Unused, SlotsKept

\* sys_dup: the file that gets a descriptor is referenced, or has been closed.
LEMMA DupStep ==
  ASSUME Inductive, History, NEW p \in Procs, NEW d \in Fds, Dup(p, d)
  PROVE  Step
<1>. USE DEF Inductive
<1>0. PICK f \in Files, e \in Fds : f = file[p][d] /\ e = FreeFd(p)
  BY FreeDescriptor DEF Dup, TypeOK
<1>1. /\ file' = [file EXCEPT ![p][e] = f]
      /\ nref' = nref \/ (nref[f] > 0 /\ nref' = [nref EXCEPT ![f] = @ + 1])
      /\ UNCHANGED <<type, ino, used, icache, itype, entry>>
  BY <1>0 DEF Dup, TypeOK, disk
<1>2. closed' \subseteq Files /\ closed \subseteq closed'
  BY DEF History, TypeOK
<1>3. TypeOK'
  <2>1. nref' \in [Files -> Nat]
    BY <1>1 DEF TypeOK
  <2>2. file' \in [Procs -> [Fds -> Files \cup {NULL}]]
    BY <1>1 DEF TypeOK
  <2>. QED  BY <1>1, <1>2, <2>1, <2>2 DEF TypeOK, History
<1>4. TypedWhileOpen'
  BY <1>1 DEF TypedWhileOpen, TypeOK
<1>5. DescriptorsCounted'
  BY <1>2, DupDescriptor
<1>6. InodesCounted' /\ SlotsKept
  <2>1. \A s : OpenOn(s)' = OpenOn(s)
    BY <1>1 DEF OpenOn
  <2>. QED  BY <1>1, <2>1, InodesAlone
<1>. QED  BY <1>1, <1>3, <1>4, <1>5, <1>6 DEF Step, FilesHeld

\* fork: a file without references has no descriptor in the parent, or fork panics.
LEMMA ForkStep ==
  ASSUME Inductive, History, NEW p \in Procs, NEW q \in Procs, Fork(p, q)
  PROVE  Step
<1>. USE DEF Inductive
<1>. DEFINE open == {d \in Fds : file[p][d] # NULL}
<1>1. CASE \E d \in open : nref[file[p][d]] < 1
  <2>1. Stop
    BY <1>1 DEF Fork
  <2>. QED  BY <2>1, StopStep
<1>2. CASE ~ \E d \in open : nref[file[p][d]] < 1
  <2>1. /\ file' = [file EXCEPT ![q] = [d \in Fds |-> IF d \in open THEN file[p][d] ELSE @[d]]]
        /\ used' = used \cup {q}
        /\ UNCHANGED <<type, ino, icache, itype, entry>>
    BY <1>2 DEF Fork, disk
  <2>2. closed' \subseteq Files /\ closed \subseteq closed'
    BY DEF History, TypeOK
  <2>3. /\ DescriptorsCounted' /\ nref' \in [Files -> Nat]
        /\ \A f \in Files : nref'[f] >= nref[f]
    BY <2>2, ForkDescriptors
  <2>4. file' \in [Procs -> [Fds -> Files \cup {NULL}]]
    BY <2>1 DEF TypeOK
  <2>5. TypeOK'
    BY <2>1, <2>2, <2>3, <2>4 DEF TypeOK, History
  <2>6. TypedWhileOpen'
    <3>1. ASSUME NEW f \in Files PROVE type'[f] = "none" <=> nref'[f] = 0
      <4>1. CASE nref[f] # 0
        <5>1. nref'[f] # 0
          BY <2>3, <4>1 DEF TypeOK
        <5>. QED  BY <2>1, <4>1, <5>1 DEF TypedWhileOpen
      <4>2. CASE nref[f] = 0
        <5>1. {d \in open : file[p][d] = f} = {}
          BY <1>2, <4>2
        <5>2. nref'[f] = nref[f] + Cardinality({d \in open : file[p][d] = f})
          BY <1>2 DEF Fork
        <5>3. Cardinality({d \in open : file[p][d] = f}) = 0
          BY <5>1, FS_EmptySet
        <5>. QED  BY <2>1, <4>2, <5>2, <5>3 DEF TypedWhileOpen
      <4>. QED  BY <4>1, <4>2
    <3>. QED  BY <3>1 DEF TypedWhileOpen
  <2>7. InodesCounted' /\ SlotsKept
    <3>1. \A s : OpenOn(s)' = OpenOn(s)
      BY <2>1 DEF OpenOn
    <3>. QED  BY <2>1, <3>1, InodesAlone
  <2>. QED  BY <2>1, <2>3, <2>5, <2>6, <2>7 DEF Step, FilesHeld
<1>. QED  BY <1>1, <1>2

\* sys_pipe: the files it takes were free, so no inode is involved.
LEMMA PipeStep ==
  ASSUME Inductive, History, NEW p \in Procs, Pipe(p)
  PROVE  Step
<1>. USE DEF Inductive
<1>1. PICK r \in Files, w \in Files, d \in Fds :
           /\ r # w /\ nref[r] = 0 /\ nref[w] = 0 /\ file[p][d] = NULL
           /\ PipeOne(p, r, d) \/ \E e \in Fds \ {d} : PipeTwo(p, r, w, d, e)
  BY PipeFinds, Zenon
<1>2. UNCHANGED <<ino, used, icache, itype, entry>>
  BY DEF Pipe, disk
<1>3. closed' \subseteq Files /\ closed \subseteq closed'
  BY DEF History, TypeOK
<1>4. /\ nref' \in [Files -> Nat] /\ type' \in [Files -> {"none", "pipe", "inode"}]
      /\ \A f \in Files : \/ nref[f] = 0 /\ nref'[f] = 1 /\ type'[f] = "pipe"
                          \/ nref'[f] = nref[f] /\ type'[f] = type[f]
  <2>1. CASE PipeOne(p, r, d)
    BY <1>1, <2>1 DEF PipeOne, TypeOK
  <2>2. ASSUME NEW e \in Fds \ {d}, PipeTwo(p, r, w, d, e)
        PROVE  /\ nref' = [nref EXCEPT ![r] = 1, ![w] = 1]
               /\ type' = [type EXCEPT ![r] = "pipe", ![w] = "pipe"]
    BY <2>2 DEF PipeTwo
  <2>3. CASE \E e \in Fds \ {d} : PipeTwo(p, r, w, d, e)
    BY <1>1, <2>2, <2>3 DEF TypeOK
  <2>. QED  BY <1>1, <2>1, <2>3
<1>5. file' \in [Procs -> [Fds -> Files \cup {NULL}]]
  <2>1. CASE PipeOne(p, r, d)
    BY <1>1, <2>1 DEF PipeOne, TypeOK
  <2>2. ASSUME NEW e \in Fds \ {d}, PipeTwo(p, r, w, d, e)
        PROVE  file' \in [Procs -> [Fds -> Files \cup {NULL}]]
    BY <1>1, <2>2 DEF PipeTwo, TypeOK
  <2>. QED  BY <1>1, <2>1, <2>2
<1>6. TypeOK'
  BY <1>2, <1>3, <1>4, <1>5 DEF TypeOK, History
<1>7. TypedWhileOpen'
  BY <1>4 DEF TypedWhileOpen
<1>8. DescriptorsCounted'
  BY <1>3, PipeDescriptors
<1>9. InodesCounted' /\ SlotsKept
  <2>1. \A f \in Files : type'[f] = "inode" <=> type[f] = "inode"
    BY <1>4 DEF TypedWhileOpen
  <2>2. \A s : OpenOn(s)' = OpenOn(s)
    BY <1>2, <2>1 DEF OpenOn
  <2>. QED  BY <1>2, <2>2, InodesAlone
<1>10. FilesHeld
  BY <1>2, <1>4 DEF FilesHeld
<1>. QED  BY <1>6, <1>7, <1>8, <1>9, <1>10 DEF Step

\* sys_close: the last reference takes the file off its inode, with the reference
\* that the file held.
LEMMA CloseStep ==
  ASSUME Inductive, History, NEW p \in Procs, NEW d \in Fds, Close(p, d)
  PROVE  Step
<1>. USE DEF Inductive
<1>0. PICK f \in Files : f = file[p][d]
  <2>1. file[p][d] # NULL
    BY Zenon DEF Close
  <2>2. file[p][d] \in Files \cup {NULL}
    BY DEF TypeOK
  <2>. QED  BY <2>1, <2>2
<1>1. CASE nref[f] < 1
  <2>1. Stop
    BY <1>0, <1>1 DEF Close
  <2>. QED  BY <2>1, StopStep
<1>2. CASE ~ (nref[f] < 1)
  <2>1. /\ nref' = [nref EXCEPT ![f] = @ - 1]
        /\ UNCHANGED <<file, used, itype, entry>>
    BY <1>0, <1>2 DEF Close, disk
  <2>2. closed' \subseteq Files /\ closed \subseteq closed'
    BY DEF History, TypeOK
  <2>3. nref' \in [Files -> Nat] /\ nref[f] \in Nat /\ nref[f] >= 1
    BY <1>2, <2>1 DEF TypeOK
  <2>4. DescriptorsCounted'
    <3>1. \A g \in Files : nref'[g] \in Nat /\ (nref'[g] >= nref[g] \/ g \in closed')
      <4>1. \A g \in Files : nref'[g] \in Nat /\ nref[g] \in Nat
        BY <2>3 DEF TypeOK
      <4>2. \A g \in Files : nref'[g] < nref[g] => g \in closed'
        BY DEF History
      <4>. QED  BY <4>1, <4>2
    <3>. QED  BY <2>1, <2>2, <3>1, SameDescriptors
  <2>5. CASE nref[f] > 1
    <3>1. UNCHANGED <<type, ino, icache>>
      BY <1>0, <1>2, <2>5 DEF Close
    <3>2. TypeOK'
      BY <2>1, <2>2, <2>3, <3>1 DEF TypeOK, History
    <3>3. TypedWhileOpen'
      BY <2>1, <2>5, <3>1 DEF TypedWhileOpen, TypeOK
    <3>4. InodesCounted' /\ SlotsKept
      <4>1. \A s : OpenOn(s)' = OpenOn(s)
        BY <3>1 DEF OpenOn
      <4>. QED  BY <3>1, <4>1, InodesAlone
    <3>. QED  BY <2>4, <3>1, <3>2, <3>3, <3>4 DEF Step, FilesHeld
  <2>6. CASE nref[f] = 1
    <3>1. /\ type' = [type EXCEPT ![f] = "none"]
          /\ ino' = [ino EXCEPT ![f] = NULL]
          /\ icache' = IF type[f] = "inode" THEN inode_drop(icache, ino[f]) ELSE icache
      BY <1>0, <1>2, <2>6 DEF Close
    <3>2. nref'[f] = 0
      BY <2>1, <2>6 DEF TypeOK
    <3>3. /\ type' \in [Files -> {"none", "pipe", "inode"}]
          /\ ino' \in [Files -> Slots \cup {NULL}]
      BY <3>1 DEF TypeOK
    <3>4. TypedWhileOpen'
      BY <2>1, <3>1, <3>2 DEF TypedWhileOpen, TypeOK
    <3>5. FilesHeld
      BY <2>1, <3>1, <3>2 DEF FilesHeld, TypeOK
    <3>6. /\ Cache(icache)
          /\ (type[f] = "inode" => ino[f] \in Slots /\ icache[ino[f]].inum # 0)
      BY CacheNow DEF InodesCounted
    <3>7. /\ Cache(icache') /\ \A s \in Slots : icache'[s].inum = icache[s].inum
          /\ \A s \in Slots : icache'[s] = icache[s] \/ (/\ type[f] = "inode" /\ s = ino[f]
                                                         /\ icache'[s].nref = icache[s].nref - 1)
      BY <3>1, <3>6, DropInode
    <3>8. TypeOK'
      BY <2>1, <2>2, <2>3, <3>3, <3>7 DEF TypeOK, History, Cache
    <3>9. InodesCounted'
      <4>1. ASSUME NEW g \in Files, type'[g] = "inode"
            PROVE  ino'[g] \in Slots /\ icache'[ino'[g]].inum # 0
        <5>1. g # f /\ type[g] = "inode" /\ ino'[g] = ino[g]
          BY <3>1, <4>1 DEF TypeOK
        <5>. QED  BY <3>7, <5>1 DEF InodesCounted
      <4>2. \A s \in Slots : icache'[s].inum # 0 \/ Unused(icache', s)
        BY <3>7 DEF Cache
      <4>3. ASSUME ~ borrowed', NEW s \in Slots PROVE icache'[s].nref >= Cardinality(OpenOn(s)')
        <5>1. OpenOn(s)' = OpenOn(s) \ {f}
          BY <3>1 DEF OpenOn, TypeOK
        <5>2. icache[s].nref >= Cardinality(OpenOn(s)) /\ icache[s].nref \in Int
          BY <3>6, <4>3 DEF History, InodesCounted, Cache, Cached
        <5>3. CASE type[f] = "inode" /\ s = ino[f]
          <6>1. f \in OpenOn(s)
            BY <5>3 DEF OpenOn
          <6>2. Cardinality(OpenOn(s)') = Cardinality(OpenOn(s)) - 1
            BY <5>1, <6>1, OpenOnFinite, FS_RemoveElement
          <6>3. icache'[s].nref = icache[s].nref - 1 \/ icache'[s].nref = icache[s].nref
            BY <3>7
          <6>4. Cardinality(OpenOn(s)) \in Nat
            BY OpenOnFinite, Zenon
          <6>. HIDE DEF OpenOn
          <6>. QED  BY <5>2, <6>2, <6>3, <6>4
        <5>4. CASE ~ (type[f] = "inode" /\ s = ino[f])
          <6>1. icache'[s] = icache[s]
            BY <3>7, <5>4, Zenon
          <6>2. f \notin OpenOn(s)
            BY <5>4 DEF OpenOn
          <6>3. OpenOn(s)' = OpenOn(s)
            BY <5>1, <6>2, Zenon
          <6>. QED  BY <5>2, <6>1, <6>3
        <5>. QED  BY <5>3, <5>4
      <4>. QED  BY <4>1, <4>2, <4>3 DEF InodesCounted, Unused
    <3>. QED  BY <2>4, <3>4, <3>5, <3>7, <3>8, <3>9 DEF Step, SlotsKept
  <2>. QED  BY <2>3, <2>5, <2>6
<1>. QED  BY <1>1, <1>2

----------------------------------------------------------------------------
(* The theorems *)

\* The system starts without open files.
LEMMA InitInductive == MCInit => Inductive
<1>. SUFFICES ASSUME MCInit PROVE Inductive
  OBVIOUS
<1>1. TypeOK
  <2>1. /\ nref \in [Files -> Nat] /\ type \in [Files -> {"none", "pipe", "inode"}]
        /\ ino \in [Files -> Slots \cup {NULL}]
        /\ file \in [Procs -> [Fds -> Files \cup {NULL}]]
    BY DEF MCInit, Init
  <2>2. used \subseteq Procs
    BY Constants DEF MCInit, Init
  <2>3. icache \in [Slots -> Cached]
    <3>1. icache = [s \in Slots |-> [nref |-> 0, inum |-> 0, read |-> FALSE, type |-> "none"]]
      BY Zenon DEF MCInit, Init
    <3>2. [nref |-> 0, inum |-> 0, read |-> FALSE, type |-> "none"] \in Cached
      BY DEF Cached
    <3>. QED  BY <3>1, <3>2
  <2>4. itype \in [Inums -> {"none", "file"} \cup Types]
    BY DEF MCInit, Init
  <2>. QED  BY <2>1, <2>2, <2>3, <2>4 DEF MCInit, Init, TypeOK
<1>2. TypedWhileOpen
  BY DEF MCInit, Init, TypedWhileOpen
<1>3. DescriptorsCounted
  <2>1. ASSUME NEW f \in Files PROVE Referring(f) = {}
    BY Constants DEF MCInit, Init, Referring
  <2>2. \A f \in Files : Cardinality(Referring(f)) = 0 /\ nref[f] = 0
    BY <2>1, FS_EmptySet DEF MCInit, Init
  <2>. QED  BY <2>2 DEF DescriptorsCounted
<1>4. InodesCounted
  <2>1. \A s : OpenOn(s) = {}
    BY DEF MCInit, Init, OpenOn
  <2>2. \A s \in Slots : Cardinality(OpenOn(s)) = 0 /\ icache[s].nref = 0 /\ icache[s].inum = 0
    BY <2>1, FS_EmptySet DEF MCInit, Init
  <2>3. \A f \in Files : type[f] # "inode"
    BY DEF MCInit, Init
  <2>. QED  BY <2>2, <2>3 DEF InodesCounted, Unused
<1>. QED  BY <1>1, <1>2, <1>3, <1>4 DEF Inductive

\* All the steps together.
LEMMA NextStep == Inductive /\ [MCNext]_<<vars, hist>> => Step /\ (~ borrowed' => ~ borrowed)
<1>. SUFFICES ASSUME Inductive, [MCNext]_<<vars, hist>>
              PROVE  Step /\ (~ borrowed' => ~ borrowed)
  OBVIOUS
<1>1. History
  <2>1. CASE MCNext
    BY <2>1 DEF MCNext, History, Inductive, TypeOK
  <2>2. CASE UNCHANGED <<vars, hist>>
    <3>1. nref' = nref /\ closed' = closed /\ borrowed' = borrowed
      BY <2>2 DEF vars, hist
    <3>2. {f \in Files : nref'[f] < nref[f]} = {}
      BY <3>1 DEF Inductive, TypeOK
    <3>. QED  BY <3>1, <3>2 DEF History, Inductive, TypeOK
  <2>. QED  BY <2>1, <2>2
<1>2. CASE UNCHANGED vars
  BY <1>1, <1>2, StopStep DEF History
<1>3. ASSUME NEW p \in Procs, Opens(p), borrowed' = TRUE PROVE Step
  BY <1>1, <1>3, OpenStep DEF Opens
<1>4. ASSUME NEW p \in Procs, Calls(p) PROVE Step
  <2>1. CASE \E n \in Names : OpenCreate(p, n) \/ \E t \in Types : Make(p, n, t)
    BY <1>1, <2>1, OpenCreateStep, MakeStep
  <2>2. CASE \E n \in Names : Lookup(p, n)
    BY <1>1, <2>2, LookupStep
  <2>3. CASE \E n \in Names : DeepPath(p, n)
    BY <1>1, <2>3, StopStep DEF DeepPath
  <2>4. CASE \E d \in Fds : Close(p, d)
    BY <1>1, <2>4, CloseStep
  <2>5. CASE \E d \in Fds : Dup(p, d)
    BY <1>1, <2>5, DupStep
  <2>6. CASE \E d \in Fds : Use(p, d)
    BY <1>1, <2>6, UseStep
  <2>7. CASE Pipe(p)
    BY <1>1, <2>7, PipeStep
  <2>8. CASE \E q \in Procs : Fork(p, q)
    BY <1>1, <2>8, ForkStep
  <2>9. CASE Exit(p)
    BY <1>1, <2>9, ExitStep
  <2>. QED  BY <1>4, <2>1, <2>2, <2>3, <2>4, <2>5, <2>6, <2>7, <2>8, <2>9 DEF Calls
<1>. QED  BY <1>1, <1>2, <1>3, <1>4 DEF MCNext, Halted, History, vars, hist

\* For every size of the tables: a file has a type as long as it is referenced, its count
\* covers its descriptors unless close() was called on it, and, before open() without
\* O_CREAT is used, the count of a cached inode covers the files that are open on it.
THEOREM FilesInvariant == MCSpec => []Inductive
<1>1. Inductive /\ [MCNext]_<<vars, hist>> => Inductive'
  BY NextStep DEF Step
<1>. QED  BY <1>1, InitInductive, PTL DEF MCSpec

\* The count of a file that nobody has closed covers all its descriptors, also those that
\* exit leaves in the process table and that fork hands to the next process in the slot.
THEOREM CountCoversDescriptors == MCSpec => []DescriptorsCounted
<1>1. Inductive => DescriptorsCounted
  BY DEF Inductive
<1>. QED  BY <1>1, FilesInvariant, PTL

\* file_allocate never hands out a file that is referenced: it keeps type and inode.
THEOREM FileKept == MCSpec => NotHandedOut
<1>1. Inductive /\ [MCNext]_<<vars, hist>>
        => [\A f \in Files : nref[f] > 0 /\ nref'[f] > 0
              => type'[f] = type[f] /\ ino'[f] = ino[f]]_vars
  BY NextStep DEF Step, FilesHeld
<1>. QED  BY <1>1, FilesInvariant, PTL DEF MCSpec, NotHandedOut

\* As long as files are opened with O_CREAT, the inode of an open file stays in its slot of
\* the cache, for any number of processes, names and leaked references.
THEOREM InodeKept == MCSpec => CreatedKeepsInode
<1>1. Inductive /\ Inductive' /\ [MCNext]_<<vars, hist>>
        => [\A f \in Files : type[f] = "inode" /\ type'[f] = "inode" /\ ~borrowed'
              => icache'[ino'[f]].inum = icache[ino[f]].inum]_vars
  <2>. SUFFICES ASSUME Inductive, Inductive', [MCNext]_<<vars, hist>>, NEW f \in Files,
                       type[f] = "inode", type'[f] = "inode", ~borrowed'
                PROVE  icache'[ino'[f]].inum = icache[ino[f]].inum
    OBVIOUS
  <2>1. ~borrowed /\ SlotsKept /\ FilesHeld
    BY NextStep DEF Step
  <2>2. nref[f] \in Nat /\ nref[f] # 0
    BY DEF Inductive, TypeOK, TypedWhileOpen
  <2>3. nref'[f] \in Nat /\ nref'[f] # 0
    BY DEF Inductive, TypeOK, TypedWhileOpen
  <2>4. ino'[f] = ino[f]
    BY <2>1, <2>2, <2>3 DEF FilesHeld
  <2>5. ino[f] \in Slots /\ f \in OpenOn(ino[f])
    BY DEF Inductive, InodesCounted, OpenOn
  <2>6. Cardinality(OpenOn(ino[f])) \in Nat /\ Cardinality(OpenOn(ino[f])) # 0
    BY <2>5, OpenOnFinite, FS_EmptySet
  <2>7. /\ icache[ino[f]].nref \in Int
        /\ icache[ino[f]].nref >= Cardinality(OpenOn(ino[f]))
    BY <2>1, <2>5 DEF Inductive, InodesCounted, TypeOK, Cached
  <2>8. icache[ino[f]].nref > 0
    BY <2>6, <2>7
  <2>. QED  BY <2>1, <2>4, <2>5, <2>8 DEF SlotsKept
<1>. QED  BY <1>1, FilesInvariant, PTL DEF MCSpec, CreatedKeepsInode
=============================================================================
