---------------------------- MODULE MemoryProofs ----------------------------
(***************************************************************************)
(* Proofs about physical pages and address spaces, for every amount of     *)
(* memory, every shape of the page tables, all processes and programs.     *)
(***************************************************************************)
EXTENDS Memory, FiniteSetTheorems, WellFoundedInduction, TLAPS

----------------------------------------------------------------------------
(* Helpers *)

\* The constants, one by one.
LEMMA Constants ==
  /\ InitProc \in Procs /\ NULL \notin Nat /\ NULL \notin Space /\ NULL \notin Pages
  /\ NPAGES \in Nat /\ NKPT \in Nat \ {0} /\ NPAGES >= NKPT + 4
  /\ NV \in Nat \ {0} /\ PTSZ \in Nat \ {0} /\ PAGE_SZ \in Nat \ {0}
  /\ Grows \subseteq Nat /\ Images \subseteq Seq(Nat)
  /\ Pages \subseteq Nat /\ VPages \subseteq Nat /\ 0 \in VPages
  /\ \A v \in VPages : v \div PTSZ \in Tables
BY MemoryAssumption DEF Pages, VPages, Tables

\* The least element of a set of natural numbers.
LEMMA LeastIn ==
  ASSUME NEW S \in SUBSET Nat, S # {}
  PROVE  Least(S) \in S /\ \A y \in S : Least(S) <= y
<1>1. PICK x \in S : \A y \in S : ~ (<<y, x>> \in OpToRel(<, Nat))
  BY NatLessThanWellFounded, WFMin, Zenon
<1>2. \A y \in S : ~ (y < x)
  BY <1>1, Zenon DEF OpToRel
<1>3. \A y \in S : x <= y
  BY <1>2
<1>. QED  BY <1>3, Zenon DEF Least

\* The first page of a free list, and a set of pages.
LEMMA LeastPage ==
  ASSUME NEW S \in SUBSET Pages, S # {}
  PROVE  Least(S) \in S /\ Least(S) \in Pages /\ \A y \in S : Least(S) <= y
BY LeastIn, Constants, Zenon

LEMMA PagesFinite == \A S \in SUBSET Pages : IsFiniteSet(S) /\ Cardinality(S) \in Nat
<1>1. IsFiniteSet(Pages)
  BY Constants, FS_Interval DEF Pages
<1>. QED  BY <1>1, FS_Subset, FS_CardinalityType

\* The first call of palloc.
LEMMA TakeFirst ==
  ASSUME NEW S \in SUBSET Pages, S # {}, NEW n \in Nat \ {0}
  PROVE  Take(n, S) \subseteq S /\ Least(S) \in Take(n, S)
<1>1. Least(S) \in S /\ \A y \in S : Least(S) <= y
  BY LeastPage
<1>2. {y \in S : y < Least(S)} = {}
  <2>1. \A y \in S : y \in Nat
    BY Constants
  <2>. QED  BY <1>1, <2>1
<1>3. Cardinality({y \in S : y < Least(S)}) = 0
  BY <1>2, FS_EmptySet
<1>. QED  BY <1>1, <1>3 DEF Take

LEMMA TakeOne ==
  ASSUME NEW S \in SUBSET Pages, S # {}
  PROVE  Take(1, S) = {Least(S)}
<1>1. Take(1, S) \subseteq S /\ Least(S) \in Take(1, S)
  BY TakeFirst
<1>2. ASSUME NEW x \in Take(1, S) PROVE x = Least(S)
  <2>. DEFINE B == {y \in S : y < x}
  <2>1. Cardinality(B) < 1 /\ x \in S
    BY <1>2 DEF Take
  <2>2. IsFiniteSet(B) /\ Cardinality(B) \in Nat
    BY PagesFinite
  <2>3. B = {}
    BY <2>1, <2>2, FS_EmptySet
  <2>4. Least(S) \in S /\ Least(S) <= x /\ ~ (Least(S) < x)
    BY <2>1, <2>3, LeastPage
  <2>5. Least(S) \in Nat /\ x \in Nat
    BY <2>1, <2>4, Constants, Zenon
  <2>. QED  BY <2>4, <2>5
<1>. QED  BY <1>1, <1>2

----------------------------------------------------------------------------
(* Rounding *)

\* Multiples of n are n apart.
LEMMA MultiplesApart ==
  ASSUME NEW n \in Nat \ {0}, NEW x \in Nat, NEW y \in Nat, x < y
  PROVE  x * n + n <= y * n
<1>1. PICK d \in Nat : y = x + 1 + d
  <2>1. y - x - 1 \in Nat /\ y = x + 1 + (y - x - 1)
    OBVIOUS
  <2>. QED  BY <2>1
<1>2. y * n = x * n + n + d * n
  BY <1>1
<1>3. d * n \in Nat
  OBVIOUS
<1>. QED  BY <1>2, <1>3

\* The number of pages that n bytes take.
Top(n) == page_alignup(n) \div PAGE_SZ

LEMMA TopValue ==
  ASSUME NEW n \in Nat
  PROVE  /\ Top(n) \in Nat /\ page_alignup(n) = Top(n) * PAGE_SZ
         /\ \A v \in Nat : v < Top(n) <=> v * PAGE_SZ < n
<1>. DEFINE P == PAGE_SZ
<1>0. P \in Nat \ {0}
  BY Constants
<1>. HIDE DEF P
<1>1. PICK a \in Nat : a = n + P - 1
  BY <1>0
<1>2. PICK q \in Nat, r \in 0 .. P - 1 : q = a \div P /\ a = q * P + r
  <2>1. a \div P \in Nat /\ a % P \in 0 .. P - 1 /\ a = (a \div P) * P + (a % P)
    BY <1>0
  <2>. QED  BY <2>1
<1>3. page_alignup(n) = q * P
  BY <1>1, <1>2 DEF page_alignup, P
<1>4. (q * P) \div P = q
  <2>1. PICK b \in Nat : b = q * P
    BY <1>0
  <2>2. PICK x \in Nat, y \in 0 .. P - 1 : x = b \div P /\ b = x * P + y
    <3>1. b \div P \in Nat /\ b % P \in 0 .. P - 1 /\ b = (b \div P) * P + (b % P)
      BY <1>0
    <3>. QED  BY <3>1
  <2>3. x * P \in Nat /\ q * P \in Nat
    BY <1>0
  <2>4. ~ (x < q)
    <3>1. x < q => x * P + P <= q * P
      BY <1>0, MultiplesApart
    <3>. QED  BY <1>0, <2>1, <2>2, <2>3, <3>1
  <2>5. ~ (q < x)
    <3>1. q < x => q * P + P <= x * P
      BY <1>0, MultiplesApart
    <3>. QED  BY <1>0, <2>1, <2>2, <2>3, <3>1
  <2>. QED  BY <2>1, <2>2, <2>4, <2>5
<1>5. Top(n) = q
  BY <1>3, <1>4 DEF Top, P
<1>6. ASSUME NEW v \in Nat PROVE v < q <=> v * P < n
  <2>0. v * P \in Nat /\ q * P \in Nat
    BY <1>0
  <2>1. v < q => v * P < n
    <3>1. v < q => v * P + P <= q * P
      BY <1>0, MultiplesApart
    <3>. QED  BY <1>0, <1>1, <1>2, <2>0, <3>1
  <2>2. v * P < n => v < q
    <3>1. q < v => q * P + P <= v * P
      BY <1>0, MultiplesApart
    <3>2. q = v => q * P = v * P
      OBVIOUS
    <3>. QED  BY <1>0, <1>1, <1>2, <2>0, <3>1, <3>2
  <2>. QED  BY <2>1, <2>2
<1>. QED  BY <1>3, <1>5, <1>6 DEF P

\* A size that fits has at most NV pages, and a larger one has not fewer.
LEMMA TopBound ==
  ASSUME NEW n \in 0 .. NV * PAGE_SZ
  PROVE  n \in Nat /\ Top(n) \in 0 .. NV
<1>1. NV * PAGE_SZ \in Nat /\ NV \in Nat
  BY Constants
<1>2. n \in Nat /\ n <= NV * PAGE_SZ
  BY <1>1
<1>3. Top(n) \in Nat /\ (NV < Top(n) <=> NV * PAGE_SZ < n)
  BY <1>1, <1>2, TopValue
<1>. QED  BY <1>1, <1>2, <1>3

LEMMA TopGrows ==
  ASSUME NEW a \in Nat, NEW b \in Nat, a <= b
  PROVE  Top(a) <= Top(b)
<1>1. Top(a) \in Nat /\ Top(b) \in Nat
  BY TopValue
<1>2. Top(b) < Top(a) <=> Top(b) * PAGE_SZ < a
  BY <1>1, TopValue
<1>3. ~ (Top(b) * PAGE_SZ < b)
  BY <1>1, TopValue
<1>4. Top(b) * PAGE_SZ \in Nat
  <2>1. PICK x \in Nat, y \in Nat : x = Top(b) /\ y = PAGE_SZ
    BY <1>1, Constants
  <2>. QED  BY <2>1
<1>. QED  BY <1>1, <1>2, <1>3, <1>4

----------------------------------------------------------------------------
(* Address spaces *)

\* A free list and an address space that have the pages R between them.
Whole(m, R) ==
  /\ m = [free |-> m.free, space |-> m.space]
  /\ Proper(m.space)
  /\ m.free \cap PagesOf(m.space) = {}
  /\ m.free \cup PagesOf(m.space) = R

\* The pages of an address space are pages.
LEMMA PagesOfSpace ==
  ASSUME NEW s \in Space
  PROVE  /\ PagesOf(s) \subseteq Pages /\ s # NULL
         /\ \A x \in Pages : x \in PagesOf(s) <=> \/ x = s.dir \/ x \in s.kpt
                                                  \/ \E t \in Tables : x = s.upt[t]
                                                  \/ \E v \in VPages : x = s.map[v]
BY Constants DEF Space, PagesOf

\* A new address space: the kernel's part alone.
LEMMA KvmAllocate ==
  ASSUME NEW S \in SUBSET Pages, S # {}
  PROVE  /\ Whole(kvm_allocate(S), S)
         /\ \A v \in VPages : kvm_allocate(S).space.map[v] = NULL
<1>. DEFINE T == Take(NKPT + 1, S)
            d == Least(T)
            s == [dir |-> d, kpt |-> T \ {d},
                  upt |-> [t \in Tables |-> NULL], map |-> [v \in VPages |-> NULL]]
<1>1. T \subseteq S /\ T # {}
  <2>1. NKPT + 1 \in Nat \ {0}
    BY Constants
  <2>. QED  BY <2>1, TakeFirst
<1>2. d \in T /\ d \in Pages
  BY <1>1, LeastPage
<1>3. kvm_allocate(S) = [free |-> S \ T, space |-> s]
  BY DEF kvm_allocate
<1>. HIDE DEF T, d
<1>4. Proper(s)
  BY <1>1, <1>2 DEF Proper, Space
<1>5. PagesOf(s) = T
  <2>1. \A x \in Pages : x \in PagesOf(s) <=> x = d \/ x \in T \ {d}
    BY <1>4, Constants, PagesOfSpace DEF Proper
  <2>2. PagesOf(s) \subseteq Pages
    BY <1>4, PagesOfSpace DEF Proper
  <2>. QED  BY <1>1, <1>2, <2>1, <2>2
<1>. HIDE DEF s
<1>6. Whole(kvm_allocate(S), S)
  BY <1>1, <1>3, <1>4, <1>5 DEF Whole
<1>. QED  BY <1>3, <1>6 DEF s

\* palloc and map_pages: pages move from the free list to the address space.
LEMMA MapPageWhole ==
  ASSUME NEW R \in SUBSET Pages, NEW m, Whole(m, R), NEW v \in VPages,
         m.space.map[v] = NULL, Outcome(m, v) = "ok"
  PROVE  /\ Whole(MapPage(m, v), R) /\ MapPage(m, v).space.map[v] # NULL
         /\ \A w \in VPages \ {v} : MapPage(m, v).space.map[w] = m.space.map[w]
<1>. DEFINE F == m.free
            s == m.space
            t == v \div PTSZ
            mem == Least(F)
            pt == IF s.upt[t] = NULL THEN Least(F \ {mem}) ELSE s.upt[t]
            n == [s EXCEPT !.map[v] = mem, !.upt[t] = pt]
<1>1. t \in Tables /\ F \subseteq Pages /\ Proper(s) /\ s \in Space
  BY Constants DEF Whole, Proper
<1>2. F # {} /\ (s.upt[t] = NULL => Cardinality(F) # 1)
  BY DEF Outcome
<1>3. mem \in F /\ mem \in Pages
  BY <1>1, <1>2, LeastPage
<1>4. s.upt[t] = NULL => pt \in F /\ pt # mem /\ pt \in Pages
  <2>. SUFFICES ASSUME s.upt[t] = NULL PROVE pt \in F /\ pt # mem /\ pt \in Pages
    OBVIOUS
  <2>1. F \ {mem} # {}
    <3>1. F \ {mem} = {} => F = {mem}
      BY <1>3
    <3>2. Cardinality({mem}) = 1
      BY FS_Singleton, Zenon
    <3>. HIDE DEF mem
    <3>. QED  BY <1>2, <3>1, <3>2, Zenon
  <2>2. F \ {mem} \in SUBSET Pages
    BY <1>1
  <2>3. Least(F \ {mem}) \in F \ {mem}
    BY <2>1, <2>2, LeastPage
  <2>. QED  BY <1>1, <2>3
<1>5. MapPage(m, v) = [free |-> F \ {mem, pt}, space |-> n]
  BY DEF MapPage
<1>6. s.upt[t] # NULL => pt = s.upt[t] /\ pt \in Pages
  BY <1>1 DEF Space
<1>. HIDE DEF mem, pt, t, F, s
<1>7. /\ n.dir = s.dir /\ n.kpt = s.kpt /\ n.upt = [s.upt EXCEPT ![t] = pt]
      /\ n.map = [s.map EXCEPT ![v] = mem]
      /\ n = [dir |-> n.dir, kpt |-> n.kpt, upt |-> n.upt, map |-> n.map]
  <2>1. PICK d, k, a, b : s = [dir |-> d, kpt |-> k, upt |-> a, map |-> b]
    BY <1>1 DEF Space
  <2>2. n = [dir |-> d, kpt |-> k, upt |-> [a EXCEPT ![t] = pt],
             map |-> [b EXCEPT ![v] = mem]]
    <3>1. PICK c : c = [s EXCEPT !.map[v] = mem]
      BY Zenon
    <3>2. c = [dir |-> d, kpt |-> k, upt |-> a, map |-> [b EXCEPT ![v] = mem]]
      BY <2>1, <3>1
    <3>3. n = [c EXCEPT !.upt[t] = pt]
      BY <3>1
    <3>. QED  BY <3>2, <3>3
  <2>. QED  BY <2>1, <2>2
<1>. HIDE DEF n
<1>8. /\ s.upt \in [Tables -> Pages \cup {NULL}]
      /\ s.map \in [VPages -> Pages \cup {NULL}]
      /\ s.dir \in Pages /\ s.kpt \in SUBSET Pages
  BY <1>1 DEF Space
<1>9. /\ n.upt \in [Tables -> Pages \cup {NULL}]
      /\ n.map \in [VPages -> Pages \cup {NULL}]
      /\ n.upt[t] = pt /\ \A u \in Tables \ {t} : n.upt[u] = s.upt[u]
      /\ n.map[v] = mem /\ \A w \in VPages \ {v} : n.map[w] = s.map[w]
  BY <1>1, <1>3, <1>4, <1>6, <1>7, <1>8
<1>10. n \in Space
  BY <1>7, <1>8, <1>9 DEF Space
<1>11. \A x \in F : x \in Pages /\ x # s.dir /\ x \notin s.kpt
                    /\ (\A u \in Tables : s.upt[u] # x) /\ \A w \in VPages : s.map[w] # x
  BY <1>1, PagesOfSpace DEF Whole, F, s
<1>12. NULL \notin Pages /\ pt # NULL /\ mem # NULL /\ pt # mem
  BY <1>3, <1>4, <1>6, <1>11, <1>1, Constants
<1>13. ASSUME NEW u \in Tables, n.upt[u] # NULL
       PROVE  /\ n.upt[u] \notin n.kpt \cup {n.dir}
              /\ \A y \in Tables \ {u} : n.upt[y] # n.upt[u]
  <2>1. CASE s.upt[t] = NULL
    <3>1. pt \in F
      BY <1>4, <2>1
    <3>. QED  BY <1>1, <1>7, <1>9, <1>11, <1>12, <1>13, <3>1 DEF Proper
  <2>2. CASE s.upt[t] # NULL
    <3>1. n.upt[u] = s.upt[u] /\ \A y \in Tables : n.upt[y] = s.upt[y]
      BY <1>6, <1>9, <2>2
    <3>. QED  BY <1>1, <1>7, <1>13, <3>1 DEF Proper
  <2>. QED  BY <2>1, <2>2
<1>14. ASSUME NEW w \in VPages, n.map[w] # NULL
       PROVE  /\ n.map[w] \notin n.kpt \cup {n.dir} /\ n.upt[w \div PTSZ] # NULL
              /\ \A y \in Tables : n.upt[y] # n.map[w]
              /\ \A y \in VPages \ {w} : n.map[y] # n.map[w]
  <2>0. w \div PTSZ \in Tables
    BY Constants
  <2>1. CASE w = v
    <3>1. n.map[w] = mem /\ mem \in F /\ w \div PTSZ = t
      BY <1>3, <1>9, <2>1 DEF t
    <3>2. \A y \in Tables : n.upt[y] # mem
      BY <1>3, <1>9, <1>11, <1>12
    <3>. QED  BY <1>7, <1>9, <1>11, <1>12, <2>1, <3>1, <3>2
  <2>2. CASE w # v
    <3>1. n.map[w] = s.map[w]
      BY <1>9, <2>2
    <3>2. /\ s.map[w] \notin s.kpt \cup {s.dir} /\ s.upt[w \div PTSZ] # NULL
          /\ \A y \in Tables : s.upt[y] # s.map[w]
          /\ \A y \in VPages \ {w} : s.map[y] # s.map[w]
      BY <1>1, <1>14, <3>1 DEF Proper
    <3>3. pt # s.map[w] /\ mem # s.map[w]
      BY <1>1, <1>3, <1>4, <1>6, <1>11, <3>2
    <3>4. \A y \in Tables : n.upt[y] # s.map[w]
      BY <1>9, <3>2, <3>3
    <3>5. \A y \in VPages \ {w} : n.map[y] # s.map[w]
      BY <1>9, <3>2, <3>3
    <3>6. n.upt[w \div PTSZ] # NULL
      BY <1>9, <1>12, <2>0, <3>2
    <3>. QED  BY <1>7, <3>1, <3>2, <3>4, <3>5, <3>6
  <2>. QED  BY <2>1, <2>2
<1>15. Proper(n)
  <2>1. n.dir \notin n.kpt
    BY <1>1, <1>7 DEF Proper
  <2>. QED  BY <1>10, <1>13, <1>14, <2>1 DEF Proper
<1>16. PagesOf(n) = PagesOf(s) \cup {mem, pt}
  <2>1. PagesOf(n) \subseteq Pages /\ PagesOf(s) \subseteq Pages
    BY <1>1, <1>10, PagesOfSpace
  <2>2. ASSUME NEW x \in Pages PROVE x \in PagesOf(n) <=> x \in PagesOf(s) \/ x \in {mem, pt}
    <3>1. /\ x \in PagesOf(s) <=> \/ x = s.dir \/ x \in s.kpt
                                  \/ \E u \in Tables : x = s.upt[u]
                                  \/ \E w \in VPages : x = s.map[w]
          /\ x \in PagesOf(n) <=> \/ x = n.dir \/ x \in n.kpt
                                  \/ \E u \in Tables : x = n.upt[u]
                                  \/ \E w \in VPages : x = n.map[w]
      BY <1>1, <1>10, PagesOfSpace
    <3>2. (\E u \in Tables : x = n.upt[u]) <=> x = pt \/ \E u \in Tables : x = s.upt[u]
      BY <1>1, <1>6, <1>9, <1>12
    <3>3. (\E w \in VPages : x = n.map[w]) <=> x = mem \/ \E w \in VPages : x = s.map[w]
      <4>1. s.map[v] # x
        BY <1>12 DEF s
      <4>. QED  BY <1>9, <4>1
    <3>. QED  BY <1>7, <3>1, <3>2, <3>3
  <2>3. mem \in Pages /\ pt \in Pages
    BY <1>3, <1>4, <1>6
  <2>. QED  BY <2>1, <2>2, <2>3
<1>17. Whole(MapPage(m, v), R)
  <2>1. F \cap PagesOf(s) = {} /\ F \cup PagesOf(s) = R
    BY DEF Whole, F, s
  <2>2. pt \in F \/ pt \in PagesOf(s)
    <3>1. s.upt[t] # NULL => pt \in PagesOf(s)
      BY <1>1, <1>6, PagesOfSpace
    <3>. QED  BY <1>4, <3>1
  <2>3. (F \ {mem, pt}) \cap PagesOf(n) = {} /\ (F \ {mem, pt}) \cup PagesOf(n) = R
    BY <1>3, <1>16, <2>1, <2>2
  <2>. QED  BY <1>5, <1>15, <2>3 DEF Whole
<1>. QED  BY <1>5, <1>9, <1>12, <1>17 DEF s

\* n is m without the pages lo .. hi - 1.
Unmapped(n, m, lo, hi, R) ==
  /\ Whole(n, R)
  /\ \A v \in VPages : n.space.map[v] = IF lo <= v /\ v < hi THEN NULL ELSE m.space.map[v]

\* unmap_pages: pages move back.
LEMMA UnmapWhole ==
  ASSUME NEW R \in SUBSET Pages, NEW m, Whole(m, R), NEW lo, NEW hi
  PROVE  Unmapped(unmap_pages(m, lo, hi), m, lo, hi, R)
<1>. DEFINE F == m.free
            s == m.space
            V == {v \in VPages : lo <= v /\ v < hi}
            B == {s.map[v] : v \in V} \ {NULL}
            n == [s EXCEPT !.map = [v \in VPages |-> IF v \in V THEN NULL ELSE s.map[v]]]
<1>1. unmap_pages(m, lo, hi) = [free |-> F \cup B, space |-> n]
  BY DEF unmap_pages
<1>2. Proper(s) /\ s \in Space /\ F \cap PagesOf(s) = {} /\ F \cup PagesOf(s) = R
  BY DEF Whole, Proper
<1>3. V \subseteq VPages /\ \A v \in VPages : v \in V <=> lo <= v /\ v < hi
  OBVIOUS
<1>. HIDE DEF F, s, V
<1>4. /\ n.dir = s.dir /\ n.kpt = s.kpt /\ n.upt = s.upt
      /\ n.map = [v \in VPages |-> IF v \in V THEN NULL ELSE s.map[v]]
      /\ n = [dir |-> n.dir, kpt |-> n.kpt, upt |-> n.upt, map |-> n.map]
  BY <1>2 DEF Space
<1>. HIDE DEF n
<1>5. n \in Space /\ \A v \in VPages : n.map[v] = IF v \in V THEN NULL ELSE s.map[v]
  BY <1>2, <1>4 DEF Space
<1>6. Proper(n)
  BY <1>2, <1>4, <1>5 DEF Proper
<1>7. /\ B \subseteq Pages /\ B \subseteq PagesOf(s) /\ B \cap PagesOf(n) = {}
      /\ PagesOf(n) \cup B = PagesOf(s)
  <2>0. NULL \notin Pages
    BY Constants
  <2>1. \A x \in B : x # NULL /\ \E v \in V : x = s.map[v]
    OBVIOUS
  <2>2. \A v \in V : s.map[v] # NULL => s.map[v] \in B
    OBVIOUS
  <2>3. B \subseteq Pages
    BY <1>2, <1>3, <2>1 DEF Space
  <2>. HIDE DEF B
  <2>4. PagesOf(n) \subseteq Pages /\ PagesOf(s) \subseteq Pages
    BY <1>2, <1>5, PagesOfSpace
  <2>5. ASSUME NEW x \in Pages
        PROVE  /\ x \in PagesOf(s) <=> x \in PagesOf(n) \/ x \in B
               /\ ~ (x \in B /\ x \in PagesOf(n))
    <3>1. /\ x \in PagesOf(s) <=> \/ x = s.dir \/ x \in s.kpt
                                  \/ \E u \in Tables : x = s.upt[u]
                                  \/ \E w \in VPages : x = s.map[w]
          /\ x \in PagesOf(n) <=> \/ x = s.dir \/ x \in s.kpt
                                  \/ \E u \in Tables : x = s.upt[u]
                                  \/ \E w \in VPages : x = n.map[w]
      BY <1>2, <1>4, <1>5, PagesOfSpace
    <3>2. (\E w \in VPages : x = s.map[w]) <=> x \in B \/ \E w \in VPages : x = n.map[w]
      BY <1>3, <1>5, <2>0, <2>1, <2>2
    <3>3. x \in B => ~ \E w \in VPages : x = n.map[w]
      BY <1>2, <1>3, <1>5, <2>0, <2>1 DEF Proper
    <3>4. x \in B => ~ (x = s.dir \/ x \in s.kpt \/ \E u \in Tables : x = s.upt[u])
      BY <1>2, <1>3, <2>1 DEF Proper
    <3>. QED  BY <3>1, <3>2, <3>3, <3>4
  <2>. QED  BY <2>3, <2>4, <2>5
<1>. HIDE DEF B
<1>8. Whole(unmap_pages(m, lo, hi), R)
  <2>1. (F \cup B) \cap PagesOf(n) = {} /\ (F \cup B) \cup PagesOf(n) = R
    BY <1>2, <1>7
  <2>. QED  BY <1>1, <1>6, <2>1 DEF Whole
<1>. QED  BY <1>1, <1>3, <1>5, <1>8 DEF s, Unmapped

\* g[v] is what the loop has after the pages below v.
Loops(g, n, m, lo, hi) ==
  g = [v \in 0 .. n |-> IF v = 0 THEN [m |-> m, bad |-> "ok"]
                        ELSE MapStep(g[v - 1], v - 1, lo, hi)]

\* The rounds of the loop, one after the other.
LEMMA LoopsExist ==
  ASSUME NEW m, NEW lo, NEW hi
  PROVE  \A n \in Nat : \E g : Loops(g, n, m, lo, hi)
<1>. USE DEF Loops
<1>. DEFINE a == [m |-> m, bad |-> "ok"]
            Is(g, n) == g = [v \in 0 .. n |-> IF v = 0 THEN a
                                              ELSE MapStep(g[v - 1], v - 1, lo, hi)]
            S == {n \in Nat : ~ \E g : Is(g, n)}
<1>1. SUFFICES ASSUME S # {} PROVE FALSE
  BY Zenon
<1>2. PICK x \in S : \A y \in S : ~ (<<y, x>> \in OpToRel(<, Nat))
  BY <1>1, NatLessThanWellFounded, WFMin, Zenon
<1>3. \A y \in S : ~ (y < x)
  BY <1>2, Zenon DEF OpToRel
<1>4. x \in Nat /\ ~ \E g : Is(g, x)
  OBVIOUS
<1>. HIDE DEF a
<1>5. CASE x = 0
  <2>. DEFINE g == [v \in 0 .. 0 |-> a]
  <2>1. Is(g, 0)
    OBVIOUS
  <2>. QED  BY <1>4, <1>5, <2>1, Zenon
<1>6. CASE x # 0
  <2>1. x - 1 \in Nat /\ x - 1 < x
    BY <1>4, <1>6
  <2>2. PICK g : Is(g, x - 1)
    BY <1>3, <2>1, Zenon
  <2>. DEFINE h == [v \in 0 .. x |-> IF v = 0 THEN a ELSE MapStep(g[v - 1], v - 1, lo, hi)]
  <2>3. ASSUME NEW v \in 0 .. x - 1 PROVE h[v] = g[v]
    <3>1. g[v] = IF v = 0 THEN a ELSE MapStep(g[v - 1], v - 1, lo, hi)
      BY <2>2
    <3>. QED  BY <2>1, <3>1
  <2>4. \A v \in 0 .. x : v # 0 => h[v - 1] = g[v - 1]
    <3>1. \A v \in 0 .. x : v # 0 => v - 1 \in 0 .. x - 1
      BY <1>4
    <3>. HIDE DEF h
    <3>. QED  BY <2>3, <3>1
  <2>5. Is(h, x)
    BY <2>4, Zenon
  <2>. QED  BY <1>4, <2>5, Zenon
<1>. QED  BY <1>5, <1>6

\* What holds of r after the pages below v: nothing is lost, the pages of the range that
\* were reached are mapped unless one failed, and the others are as they were.
Reached(r, v, m, lo, hi, R) ==
  /\ r = [m |-> r.m, bad |-> r.bad] /\ Whole(r.m, R)
  /\ \A w \in VPages : ~ (lo <= w /\ w < hi /\ w < v) =>
                         r.m.space.map[w] = m.space.map[w]
  /\ r.bad = "ok" => \A w \in VPages : lo <= w /\ w < hi /\ w < v => r.m.space.map[w] # NULL

\* One page of the range.
LEMMA StepReached ==
  ASSUME NEW R \in SUBSET Pages, NEW m, NEW lo \in Nat, NEW hi \in Nat,
         \A w \in VPages : lo <= w /\ w < hi => m.space.map[w] = NULL,
         NEW r, NEW v \in VPages, Reached(r, v, m, lo, hi, R)
  PROVE  Reached(MapStep(r, v, lo, hi), v + 1, m, lo, hi, R)
<1>0. VPages \subseteq Nat
  BY Constants
<1>1. /\ r = [m |-> r.m, bad |-> r.bad] /\ Whole(r.m, R)
      /\ \A w \in VPages : ~ (lo <= w /\ w < hi /\ w < v) =>
                             r.m.space.map[w] = m.space.map[w]
      /\ r.bad = "ok" => \A w \in VPages :
                            lo <= w /\ w < hi /\ w < v => r.m.space.map[w] # NULL
  BY DEF Reached
<1>2. \A w \in VPages : w < v + 1 <=> w < v \/ w = v
  BY <1>0
<1>3. CASE r.bad # "ok" \/ v < lo \/ v >= hi
  <2>1. MapStep(r, v, lo, hi) = r
    BY <1>3 DEF MapStep
  <2>2. r.bad = "ok" => ~ (lo <= v /\ v < hi)
    BY <1>0, <1>3
  <2>. QED  BY <1>1, <1>2, <2>1, <2>2 DEF Reached
<1>4. CASE ~ (r.bad # "ok" \/ v < lo \/ v >= hi) /\ Outcome(r.m, v) # "ok"
  <2>1. MapStep(r, v, lo, hi) = [m |-> r.m, bad |-> Outcome(r.m, v)]
    BY <1>4 DEF MapStep
  <2>. QED  BY <1>1, <1>2, <1>4, <2>1 DEF Reached
<1>5. CASE ~ (r.bad # "ok" \/ v < lo \/ v >= hi) /\ Outcome(r.m, v) = "ok"
  <2>1. MapStep(r, v, lo, hi) = [m |-> MapPage(r.m, v), bad |-> "ok"]
    BY <1>5 DEF MapStep
  <2>2. lo <= v /\ v < hi /\ r.bad = "ok"
    BY <1>0, <1>5
  <2>3. r.m.space.map[v] = NULL
    BY <1>0, <1>1, <2>2
  <2>4. /\ Whole(MapPage(r.m, v), R) /\ MapPage(r.m, v).space.map[v] # NULL
        /\ \A w \in VPages \ {v} : MapPage(r.m, v).space.map[w] = r.m.space.map[w]
    BY <1>1, <1>5, <2>3, MapPageWhole
  <2>. QED  BY <1>1, <1>2, <2>1, <2>2, <2>4 DEF Reached
<1>. QED  BY <1>3, <1>4, <1>5

\* The pages lo .. hi - 1 are not mapped; r is m with all of them, or with some when r.bad
\* says that one failed.
Clear(m, lo, hi) == \A w \in VPages : lo <= w /\ w < hi => m.space.map[w] = NULL
Ranged(r, m, lo, hi, R) ==
  /\ Whole(r.m, R)
  /\ \A w \in VPages : ~ (lo <= w /\ w < hi) => r.m.space.map[w] = m.space.map[w]
  /\ r.bad = "ok" => \A w \in VPages : lo <= w /\ w < hi => r.m.space.map[w] # NULL

\* The loops of uvm_allocate and uvm_copy over pages that are not mapped yet.
LEMMA MapRangeWhole ==
  ASSUME NEW R \in SUBSET Pages, NEW m, Whole(m, R), NEW lo \in Nat, NEW hi \in Nat,
         Clear(m, lo, hi)
  PROVE  Ranged(MapRange(m, lo, hi), m, lo, hi, R)
<1>. PICK r : r = MapRange(m, lo, hi)
  OBVIOUS
<1>. USE DEF Clear
<1>. DEFINE loop == CHOOSE g : g = [v \in 0 .. NV |-> IF v = 0 THEN [m |-> m, bad |-> "ok"]
                                                      ELSE MapStep(g[v - 1], v - 1, lo, hi)]
<1>1. NV \in Nat /\ VPages \subseteq Nat /\ \A w \in VPages : w < NV
  BY Constants DEF VPages
<1>2. loop = [v \in 0 .. NV |-> IF v = 0 THEN [m |-> m, bad |-> "ok"]
                                ELSE MapStep(loop[v - 1], v - 1, lo, hi)]
  <2>1. \E g : Loops(g, NV, m, lo, hi)
    BY <1>1, LoopsExist
  <2>2. \E g : g = [v \in 0 .. NV |-> IF v = 0 THEN [m |-> m, bad |-> "ok"]
                                      ELSE MapStep(g[v - 1], v - 1, lo, hi)]
    BY <2>1, Zenon DEF Loops
  <2>. QED  BY <2>2, Zenon
<1>3. r = loop[NV]
  BY DEF MapRange
<1>. HIDE DEF loop
<1>. DEFINE S == {v \in 0 .. NV : ~ Reached(loop[v], v, m, lo, hi, R)}
<1>4. S = {}
  <2>1. SUFFICES ASSUME S # {} PROVE FALSE
    OBVIOUS
  <2>2. PICK x \in S : \A y \in S : ~ (<<y, x>> \in OpToRel(<, Nat))
    <3>1. S \in SUBSET Nat
      BY <1>1
    <3>. QED  BY <2>1, <3>1, NatLessThanWellFounded, WFMin, Zenon
  <2>3. \A y \in S : ~ (y < x)
    <3>1. \A y \in S : y \in Nat
      BY <1>1
    <3>. QED  BY <2>2, <3>1, Zenon DEF OpToRel
  <2>4. x \in 0 .. NV /\ ~ Reached(loop[x], x, m, lo, hi, R)
    OBVIOUS
  <2>. HIDE DEF S
  <2>5. x # 0
    <3>1. loop[0] = [m |-> m, bad |-> "ok"]
      BY <1>1, <1>2
    <3>2. \A w \in VPages : ~ (w < 0)
      BY <1>1
    <3>3. Reached(loop[0], 0, m, lo, hi, R)
      BY <3>1, <3>2 DEF Reached
    <3>. QED  BY <2>4, <3>3
  <2>6. PICK y \in Nat : y = x - 1 /\ y \in VPages /\ y \in 0 .. NV /\ y < x /\ y + 1 = x
    BY <1>1, <2>4, <2>5 DEF VPages
  <2>7. loop[x] = MapStep(loop[y], y, lo, hi)
    BY <1>2, <2>4, <2>5, <2>6
  <2>8. Reached(loop[y], y, m, lo, hi, R)
    BY <2>3, <2>6 DEF S
  <2>9. Reached(loop[x], y + 1, m, lo, hi, R)
    BY <2>6, <2>7, <2>8, StepReached
  <2>. QED  BY <2>4, <2>6, <2>9
<1>5. Reached(r, NV, m, lo, hi, R)
  BY <1>1, <1>3, <1>4
<1>. QED  BY <1>1, <1>5 DEF Reached, Ranged

\* Only pages below n are mapped; all pages below n are.
Fits(s, n) == \A v \in VPages : s.map[v] # NULL => v * PAGE_SZ < n
Full(s, n) == \A v \in VPages : v * PAGE_SZ < n => s.map[v] # NULL

\* No page is lost.  All of the new size is there, or nothing has changed.
Allocated(r, m, old, R) ==
  /\ Whole(r.m, R) /\ r.size \in 0 .. NV * PAGE_SZ
  /\ r.size = 0 => \A v \in VPages : r.m.space.map[v] = m.space.map[v]
  /\ r.size # 0 => /\ Fits(r.m.space, r.size)
                   /\ Full(m.space, old) => Full(r.m.space, r.size)

\* uvm_allocate makes a process larger.
LEMMA Allocate ==
  ASSUME NEW R \in SUBSET Pages, NEW m, Whole(m, R), NEW old \in 0 .. NV * PAGE_SZ,
         NEW new \in Nat, Fits(m.space, old)
  PROVE  Allocated(uvm_allocate(m, old, new), m, old, R)
<1>. PICK r : r = uvm_allocate(m, old, new)
  OBVIOUS
<1>. SUFFICES Allocated(r, m, old, R)
  OBVIOUS
<1>. USE DEF Allocated
<1>0. /\ old \in Nat /\ NV * PAGE_SZ \in Nat /\ VPages \subseteq Nat
      /\ \A v \in VPages : v * PAGE_SZ \in Nat
  <2>1. PICK a \in Nat, b \in Nat : a = NV /\ b = PAGE_SZ
    BY Constants
  <2>2. NV * PAGE_SZ \in Nat
    BY <2>1
  <2>3. VPages \subseteq Nat
    BY Constants
  <2>. QED  BY <2>1, <2>2, <2>3
<1>1. CASE new > NV * PAGE_SZ
  <2>1. r = [m |-> m, size |-> 0]
    BY <1>1 DEF uvm_allocate
  <2>. QED  BY <1>0, <2>1
<1>2. CASE ~ (new > NV * PAGE_SZ) /\ new < old
  <2>1. r = [m |-> m, size |-> old]
    BY <1>2 DEF uvm_allocate
  <2>. QED  BY <1>0, <2>1
<1>3. CASE ~ (new > NV * PAGE_SZ) /\ ~ (new < old)
  <2>. DEFINE t == MapRange(m, Top(old), Top(new))
  <2>1. old <= new /\ new \in 0 .. NV * PAGE_SZ
    BY <1>0, <1>3
  <2>2. /\ Top(old) \in Nat /\ Top(new) \in Nat
        /\ \A v \in VPages : v < Top(old) <=> v * PAGE_SZ < old
        /\ \A v \in VPages : v < Top(new) <=> v * PAGE_SZ < new
    BY <1>0, TopValue
  <2>3. \A w \in VPages : Top(old) <= w /\ w < Top(new) => m.space.map[w] = NULL
    <3>1. \A w \in VPages : Top(old) <= w => ~ (w < Top(old))
      BY <1>0, <2>2
    <3>. QED  BY <2>2, <3>1 DEF Fits
  <2>4. PICK q : q = t
    OBVIOUS
  <2>5. /\ Whole(q.m, R)
        /\ \A w \in VPages : ~ (Top(old) <= w /\ w < Top(new)) =>
                               q.m.space.map[w] = m.space.map[w]
        /\ q.bad = "ok" => \A w \in VPages : Top(old) <= w /\ w < Top(new) =>
                                               q.m.space.map[w] # NULL
    <3>1. PICK lo \in Nat, hi \in Nat : lo = Top(old) /\ hi = Top(new)
      BY <2>2
    <3>2. q = MapRange(m, lo, hi)
      BY <2>4, <3>1
    <3>3. Clear(m, lo, hi)
      BY <2>3, <3>1 DEF Clear
    <3>4. Ranged(MapRange(m, lo, hi), m, lo, hi, R)
      BY <3>3, MapRangeWhole, Zenon
    <3>. QED  BY <3>1, <3>2, <3>4 DEF Ranged
  <2>6. CASE q.bad = "ok"
    <3>1. r = [m |-> q.m, size |-> new]
      BY <1>3, <2>4, <2>6 DEF uvm_allocate, Top
    <3>2. Fits(q.m.space, new)
      <4>. SUFFICES ASSUME NEW v \in VPages, q.m.space.map[v] # NULL
                    PROVE  v * PAGE_SZ < new
        BY DEF Fits
      <4>1. CASE Top(old) <= v /\ v < Top(new)
        BY <2>2, <4>1
      <4>2. CASE ~ (Top(old) <= v /\ v < Top(new))
        <5>1. v * PAGE_SZ < old
          BY <2>5, <4>2 DEF Fits
        <5>2. PICK a \in Nat : a = v * PAGE_SZ
          BY <1>0
        <5>. QED  BY <1>0, <2>1, <5>1, <5>2
      <4>. QED  BY <4>1, <4>2
    <3>3. Full(m.space, old) => Full(q.m.space, new)
      <4>. SUFFICES ASSUME Full(m.space, old), NEW v \in VPages, v * PAGE_SZ < new
                    PROVE  q.m.space.map[v] # NULL
        BY DEF Full
      <4>1. v < Top(new)
        BY <2>2
      <4>2. CASE Top(old) <= v
        BY <2>5, <2>6, <4>1, <4>2
      <4>3. CASE ~ (Top(old) <= v)
        <5>1. v < Top(old)
          BY <1>0, <2>2, <4>3
        <5>2. v * PAGE_SZ < old
          BY <2>2, <5>1
        <5>. QED  BY <2>5, <4>3, <5>2 DEF Full
      <4>. QED  BY <4>2, <4>3
    <3>4. new = 0 => \A v \in VPages : q.m.space.map[v] = m.space.map[v]
      <4>1. new = 0 => old = new
        BY <1>0, <2>1
      <4>2. old = new => \A v \in VPages : ~ (Top(old) <= v /\ v < Top(new))
        BY <1>0, <2>2
      <4>. QED  BY <2>5, <4>1, <4>2
    <3>. QED  BY <2>1, <2>5, <3>1, <3>2, <3>3, <3>4
  <2>7. CASE q.bad # "ok"
    <3>1. PICK u : u = unmap_pages(q.m, Top(old), Top(new))
      OBVIOUS
    <3>2. r = [m |-> u, size |-> 0]
      BY <1>3, <2>4, <2>7, <3>1 DEF uvm_allocate, uvm_deallocate, Top
    <3>3. /\ Whole(u, R)
          /\ \A v \in VPages : u.space.map[v] =
                                 IF Top(old) <= v /\ v < Top(new) THEN NULL
                                 ELSE q.m.space.map[v]
      <4>1. PICK lo, hi, k : lo = Top(old) /\ hi = Top(new) /\ k = q.m
        OBVIOUS
      <4>2. Unmapped(unmap_pages(k, lo, hi), k, lo, hi, R)
        <5>1. Whole(k, R)
          BY <2>5, <4>1
        <5>. QED  BY <5>1, UnmapWhole, Zenon
      <4>. QED  BY <3>1, <4>1, <4>2 DEF Unmapped
    <3>4. \A v \in VPages : u.space.map[v] = m.space.map[v]
      BY <2>3, <2>5, <3>3
    <3>. QED  BY <1>0, <3>2, <3>3, <3>4
  <2>. QED  BY <2>6, <2>7
<1>. QED  BY <1>1, <1>2, <1>3

\* No page is lost, and nothing is left beyond the new size.
Deallocated(r, m, old, new, R) ==
  /\ Whole(r, R) /\ Fits(r.space, new)
  /\ Full(m.space, old) => Full(r.space, new)

\* uvm_deallocate down to a smaller size.
LEMMA Deallocate ==
  ASSUME NEW R \in SUBSET Pages, NEW m, Whole(m, R), NEW old \in 0 .. NV * PAGE_SZ,
         NEW new \in Nat, new <= old, Fits(m.space, old)
  PROVE  Deallocated(uvm_deallocate(m, old, new), m, old, new, R)
<1>. PICK r : r = uvm_deallocate(m, old, new)
  OBVIOUS
<1>. SUFFICES Deallocated(r, m, old, new, R)
  OBVIOUS
<1>. USE DEF Deallocated
<1>0. /\ old \in Nat /\ VPages \subseteq Nat /\ \A v \in VPages : v * PAGE_SZ \in Nat
  <2>1. NV * PAGE_SZ \in Nat
    BY Constants
  <2>2. PICK b \in Nat : b = PAGE_SZ
    BY Constants
  <2>3. VPages \subseteq Nat
    BY Constants
  <2>. QED  BY <2>1, <2>2, <2>3
<1>1. /\ Top(old) \in Nat /\ Top(new) \in Nat
      /\ \A v \in VPages : v < Top(old) <=> v * PAGE_SZ < old
      /\ \A v \in VPages : v < Top(new) <=> v * PAGE_SZ < new
  BY <1>0, TopValue
<1>2. /\ Whole(r, R)
      /\ \A v \in VPages : r.space.map[v] =
                             IF Top(new) <= v /\ v < Top(old) THEN NULL ELSE m.space.map[v]
  <2>1. PICK lo, hi : lo = Top(new) /\ hi = Top(old)
    OBVIOUS
  <2>2. r = unmap_pages(m, lo, hi)
    BY <2>1 DEF uvm_deallocate, Top
  <2>3. Unmapped(unmap_pages(m, lo, hi), m, lo, hi, R)
    BY UnmapWhole, Zenon
  <2>. QED  BY <2>1, <2>2, <2>3 DEF Unmapped
<1>3. Fits(r.space, new)
  <2>. SUFFICES ASSUME NEW v \in VPages, r.space.map[v] # NULL
                PROVE  v * PAGE_SZ < new
    BY DEF Fits
  <2>1. m.space.map[v] # NULL /\ ~ (Top(new) <= v /\ v < Top(old))
    BY <1>2
  <2>2. v < Top(old)
    BY <1>1, <2>1 DEF Fits
  <2>3. v < Top(new)
    BY <1>0, <1>1, <2>1, <2>2
  <2>. QED  BY <1>1, <2>3
<1>4. Full(m.space, old) => Full(r.space, new)
  <2>. SUFFICES ASSUME Full(m.space, old), NEW v \in VPages, v * PAGE_SZ < new
                PROVE  r.space.map[v] # NULL
    BY DEF Full
  <2>1. v < Top(new) /\ ~ (Top(new) <= v)
    BY <1>0, <1>1
  <2>2. v * PAGE_SZ < old
    <3>1. PICK a \in Nat : a = v * PAGE_SZ
      BY <1>0
    <3>. QED  BY <1>0, <3>1
  <2>. QED  BY <1>2, <2>1, <2>2 DEF Full
<1>. QED  BY <1>2, <1>3, <1>4

\* g[i] is what exec has after the first i segments.
Segments(g, n, m, img) ==
  g = [i \in 0 .. n |-> IF i = 0 THEN [m |-> m, size |-> 0, ok |-> TRUE]
                        ELSE LoadStep(g[i - 1], g[i - 1].size, img[i])]

\* The segments, one after the other.
LEMMA SegmentsExist ==
  ASSUME NEW m, NEW img
  PROVE  \A n \in Nat : \E g : Segments(g, n, m, img)
<1>. USE DEF Segments
<1>. DEFINE a == [m |-> m, size |-> 0, ok |-> TRUE]
            Is(g, n) == g = [i \in 0 .. n |-> IF i = 0 THEN a
                                              ELSE LoadStep(g[i - 1], g[i - 1].size, img[i])]
            S == {n \in Nat : ~ \E g : Is(g, n)}
<1>1. SUFFICES ASSUME S # {} PROVE FALSE
  BY Zenon
<1>2. PICK x \in S : \A y \in S : ~ (<<y, x>> \in OpToRel(<, Nat))
  BY <1>1, NatLessThanWellFounded, WFMin, Zenon
<1>3. \A y \in S : ~ (y < x)
  BY <1>2, Zenon DEF OpToRel
<1>4. x \in Nat /\ ~ \E g : Is(g, x)
  OBVIOUS
<1>. HIDE DEF a
<1>5. CASE x = 0
  <2>. DEFINE g == [i \in 0 .. 0 |-> a]
  <2>1. Is(g, 0)
    OBVIOUS
  <2>. QED  BY <1>4, <1>5, <2>1, Zenon
<1>6. CASE x # 0
  <2>1. x - 1 \in Nat /\ x - 1 < x
    BY <1>4, <1>6
  <2>2. PICK g : Is(g, x - 1)
    BY <1>3, <2>1, Zenon
  <2>. DEFINE h == [i \in 0 .. x |-> IF i = 0 THEN a
                                     ELSE LoadStep(g[i - 1], g[i - 1].size, img[i])]
  <2>3. ASSUME NEW i \in 0 .. x - 1 PROVE h[i] = g[i]
    <3>1. g[i] = IF i = 0 THEN a ELSE LoadStep(g[i - 1], g[i - 1].size, img[i])
      BY <2>2
    <3>. QED  BY <2>1, <3>1
  <2>4. \A i \in 0 .. x : i # 0 => h[i - 1] = g[i - 1]
    <3>1. \A i \in 0 .. x : i # 0 => i - 1 \in 0 .. x - 1
      BY <1>4
    <3>. HIDE DEF h
    <3>. QED  BY <2>3, <3>1
  <2>5. Is(h, x)
    BY <2>4, Zenon
  <2>. QED  BY <1>4, <2>5, Zenon
<1>. QED  BY <1>5, <1>6

\* What exec has loaded so far: no page is lost, and as long as nothing failed all of
\* the size is there and no more.
Loaded(l, R) ==
  /\ Whole(l.m, R)
  /\ l.ok => l.size \in 0 .. NV * PAGE_SZ /\ Fits(l.m.space, l.size) /\ Full(l.m.space, l.size)

\* One segment.
LEMMA StepLoaded ==
  ASSUME NEW R \in SUBSET Pages, NEW l, Loaded(l, R), NEW old, NEW new \in Nat,
         l.ok => /\ old \in 0 .. NV * PAGE_SZ
                 /\ Fits(l.m.space, old) /\ Full(l.m.space, old)
  PROVE  Loaded(LoadStep(l, old, new), R)
<1>1. CASE ~ l.ok
  BY <1>1 DEF LoadStep
<1>2. CASE l.ok
  <2>1. PICK r : r = uvm_allocate(l.m, old, new)
    OBVIOUS
  <2>2. LoadStep(l, old, new) = [m |-> r.m, size |-> r.size, ok |-> r.size # 0]
    BY <1>2, <2>1 DEF LoadStep
  <2>3. /\ Whole(r.m, R) /\ r.size \in 0 .. NV * PAGE_SZ
        /\ r.size # 0 => Fits(r.m.space, r.size) /\ Full(r.m.space, r.size)
    <3>1. Whole(l.m, R)
      BY DEF Loaded
    <3>2. Allocated(uvm_allocate(l.m, old, new), l.m, old, R)
      BY <1>2, <3>1, Allocate
    <3>. QED  BY <1>2, <2>1, <3>2 DEF Allocated
  <2>4. PICK x : x = LoadStep(l, old, new)
    OBVIOUS
  <2>5. x.m = r.m /\ x.size = r.size /\ x.ok = (r.size # 0)
    <3>1. PICK c \in BOOLEAN : c = (r.size # 0)
      BY Zenon
    <3>. QED  BY <2>2, <2>4, <3>1
  <2>6. Loaded(x, R)
    BY <2>3, <2>5, Zenon DEF Loaded
  <2>. QED  BY <2>4, <2>6
<1>. QED  BY <1>1, <1>2

\* exec loads a program into a new address space.
LEMMA LoadWhole ==
  ASSUME NEW R \in SUBSET Pages, NEW m, Whole(m, R), \A v \in VPages : m.space.map[v] = NULL,
         NEW img \in Images
  PROVE  Loaded(Load(m, img), R)
<1>. DEFINE seg == CHOOSE g : g = [i \in 0 .. Len(img) |->
                                     IF i = 0 THEN [m |-> m, size |-> 0, ok |-> TRUE]
                                     ELSE LoadStep(g[i - 1], g[i - 1].size, img[i])]
            e == page_alignup(seg[Len(img)].size)
<1>1. img \in Seq(Nat) /\ Len(img) \in Nat /\ \A i \in 1 .. Len(img) : img[i] \in Nat
  <2>1. img \in Seq(Nat)
    BY Constants
  <2>. QED  BY <2>1
<1>2. seg = [i \in 0 .. Len(img) |-> IF i = 0 THEN [m |-> m, size |-> 0, ok |-> TRUE]
                                     ELSE LoadStep(seg[i - 1], seg[i - 1].size, img[i])]
  <2>1. PICK n \in Nat : n = Len(img)
    BY <1>1
  <2>2. \E g : Segments(g, n, m, img)
    BY SegmentsExist
  <2>3. \E g : g = [i \in 0 .. Len(img) |-> IF i = 0 THEN [m |-> m, size |-> 0, ok |-> TRUE]
                                            ELSE LoadStep(g[i - 1], g[i - 1].size, img[i])]
    BY <2>1, <2>2 DEF Segments
  <2>. QED  BY <2>3, Zenon
<1>3. Load(m, img) = LoadStep(seg[Len(img)], e, e + 2 * PAGE_SZ)
  BY DEF Load
<1>. HIDE DEF seg
<1>. DEFINE S == {i \in 0 .. Len(img) : ~ Loaded(seg[i], R)}
<1>4. S = {}
  <2>1. SUFFICES ASSUME S # {} PROVE FALSE
    OBVIOUS
  <2>2. PICK x \in S : \A y \in S : ~ (<<y, x>> \in OpToRel(<, Nat))
    <3>1. S \in SUBSET Nat
      BY <1>1
    <3>. QED  BY <2>1, <3>1, NatLessThanWellFounded, WFMin, Zenon
  <2>3. \A y \in S : ~ (y < x)
    <3>1. \A y \in S : y \in Nat
      BY <1>1
    <3>. QED  BY <2>2, <3>1, Zenon DEF OpToRel
  <2>4. x \in 0 .. Len(img) /\ ~ Loaded(seg[x], R)
    OBVIOUS
  <2>. HIDE DEF S
  <2>5. x # 0
    <3>1. seg[0] = [m |-> m, size |-> 0, ok |-> TRUE]
      BY <1>1, <1>2
    <3>2. Fits(m.space, 0)
      BY DEF Fits
    <3>3. Full(m.space, 0)
      <4>1. ASSUME NEW v \in VPages PROVE ~ (v * PAGE_SZ < 0)
        <5>1. PICK a \in Nat, b \in Nat : a = v /\ b = PAGE_SZ
          BY Constants
        <5>. QED  BY <5>1
      <4>. QED  BY <4>1 DEF Full
    <3>4. 0 \in 0 .. NV * PAGE_SZ
      BY Constants
    <3>. QED  BY <2>4, <3>1, <3>2, <3>3, <3>4 DEF Loaded
  <2>6. PICK y \in Nat : y = x - 1 /\ y \in 0 .. Len(img) /\ y < x /\ x \in 1 .. Len(img)
    BY <1>1, <2>4, <2>5
  <2>7. seg[x] = LoadStep(seg[y], seg[y].size, img[x])
    BY <1>2, <2>4, <2>5, <2>6, Zenon
  <2>8. Loaded(seg[y], R)
    BY <2>3, <2>6 DEF S
  <2>9. img[x] \in Nat
    BY <1>1, <2>6
  <2>10. Loaded(seg[x], R)
    BY <2>7, <2>8, <2>9, StepLoaded DEF Loaded
  <2>. QED  BY <2>4, <2>10
<1>5. PICK l : l = seg[Len(img)] /\ Loaded(l, R)
  BY <1>1, <1>4
<1>6. Loaded(LoadStep(l, page_alignup(l.size), page_alignup(l.size) + 2 * PAGE_SZ), R)
  <2>1. CASE ~ l.ok
    BY <1>5, <2>1 DEF LoadStep
  <2>2. CASE l.ok
    <3>1. /\ l.size \in 0 .. NV * PAGE_SZ /\ Fits(l.m.space, l.size)
          /\ Full(l.m.space, l.size)
      BY <1>5, <2>2 DEF Loaded
    <3>2. PICK n \in Nat, t \in 0 .. NV : n = l.size /\ t = Top(n)
      BY <3>1, TopBound
    <3>3. PICK a \in Nat, b \in Nat : a = NV /\ b = PAGE_SZ /\ a # 0 /\ b # 0
      BY Constants
    <3>4. page_alignup(n) = t * b /\ t \in Nat
      BY <3>2, <3>3, TopValue
    <3>5. t * b \in 0 .. NV * PAGE_SZ
      <4>1. t <= a /\ t * b \in Nat /\ a * b \in Nat
        BY <3>2, <3>3, <3>4
      <4>2. t * b <= a * b
        <5>1. t < a => t * b + b <= a * b
          BY <3>3, <3>4, MultiplesApart
        <5>. QED  BY <3>3, <3>4, <4>1, <5>1
      <4>. QED  BY <3>3, <4>1, <4>2
    <3>6. \A v \in VPages : v * PAGE_SZ < t * b <=> v * PAGE_SZ < n
      <4>. SUFFICES ASSUME NEW v \in VPages PROVE v * PAGE_SZ < t * b <=> v * PAGE_SZ < n
        OBVIOUS
      <4>1. v \in Nat /\ (v < t <=> v * PAGE_SZ < n)
        BY <3>2, Constants, TopValue, Zenon
      <4>2. v < t => v * b + b <= t * b
        BY <3>3, <3>4, <4>1, MultiplesApart
      <4>3. t < v => t * b + b <= v * b
        BY <3>3, <3>4, <4>1, MultiplesApart
      <4>4. v * b \in Nat /\ t * b \in Nat
        BY <3>3, <3>4, <4>1
      <4>5. v = t => v * b = t * b
        OBVIOUS
      <4>6. v < t <=> v * b < t * b
        BY <3>3, <3>4, <4>1, <4>2, <4>3, <4>4, <4>5
      <4>. QED  BY <3>3, <4>1, <4>6
    <3>7. Fits(l.m.space, t * b) /\ Full(l.m.space, t * b)
      BY <3>1, <3>2, <3>6 DEF Fits, Full
    <3>8. t * b + 2 * PAGE_SZ \in Nat
      BY <3>3, <3>4
    <3>9. Loaded(LoadStep(l, t * b, t * b + 2 * PAGE_SZ), R)
      BY <1>5, <3>5, <3>7, <3>8, StepLoaded
    <3>. QED  BY <3>2, <3>4, <3>9
  <2>. QED  BY <2>1, <2>2
<1>. QED  BY <1>3, <1>5, <1>6

----------------------------------------------------------------------------
(* Steps *)

\* Pages change hands between the free list, the lost pages and one process.
LEMMA Handover ==
  ASSUME TypeOK, Ownership, NEW q \in Procs,
         \A p \in Procs \ {q} : space'[p] = space[p] /\ kstack'[p] = kstack[p]
                                /\ state'[p] = state[p],
         IF state'[q] = "unused" THEN space'[q] = NULL /\ kstack'[q] = NULL
         ELSE /\ Proper(space'[q])
              /\ kstack'[q] \in Pages /\ kstack'[q] \notin PagesOf(space'[q]),
         free' \cap lost' = {}, Owned(q)' \cap (free' \cup lost') = {},
         free' \cup lost' \cup Owned(q)' = free \cup lost \cup Owned(q)
  PROVE  Ownership'
<1>1. \A p \in Procs \ {q} : Owned(p)' = Owned(p)
  BY DEF Owned
<1>2. /\ \A p \in Procs : IF state[p] = "unused" THEN space[p] = NULL /\ kstack[p] = NULL
                          ELSE /\ Proper(space[p])
                               /\ kstack[p] \in Pages
                               /\ kstack[p] \notin PagesOf(space[p])
      /\ \A p \in Procs : Owned(p) \cap (free \cup lost) = {}
      /\ \A p, o \in Procs : p # o => Owned(p) \cap Owned(o) = {}
      /\ \A x \in Pages : x \in free \cup lost \/ \E p \in Procs : x \in Owned(p)
  BY DEF Ownership
<1>3. \A p \in Procs \ {q} : Owned(p) \cap (free \cup lost \cup Owned(q)) = {}
  BY <1>2
<1>4. \A p \in Procs : Owned(p)' \cap (free' \cup lost') = {}
  BY <1>1, <1>3
<1>5. ASSUME NEW p \in Procs, NEW o \in Procs, p # o PROVE Owned(p)' \cap Owned(o)' = {}
  <2>1. CASE p = q
    BY <1>1, <1>3, <1>5, <2>1
  <2>2. CASE o = q
    BY <1>1, <1>3, <1>5, <2>2
  <2>3. CASE p # q /\ o # q
    BY <1>1, <1>2, <1>5, <2>3
  <2>. QED  BY <2>1, <2>2, <2>3
<1>6. ASSUME NEW x \in Pages PROVE x \in free' \cup lost' \/ \E p \in Procs : x \in Owned(p)'
  <2>1. CASE x \in free \cup lost \cup Owned(q)
    BY <2>1
  <2>2. CASE \E p \in Procs \ {q} : x \in Owned(p)
    BY <1>1, <2>2
  <2>. QED  BY <1>2, <2>1, <2>2
<1>7. \A p \in Procs : IF state'[p] = "unused" THEN space'[p] = NULL /\ kstack'[p] = NULL
                       ELSE /\ Proper(space'[p])
                            /\ kstack'[p] \in Pages
                            /\ kstack'[p] \notin PagesOf(space'[p])
  BY <1>2
<1>. QED  BY <1>4, <1>5, <1>6, <1>7 DEF Ownership

\* The memory of a process that is alive.
LEMMA Live ==
  ASSUME Inductive, NEW p \in Procs, state[p] # "unused"
  PROVE  /\ Proper(space[p]) /\ space[p] \in Space /\ PagesOf(space[p]) \subseteq Pages
         /\ kstack[p] \in Pages /\ kstack[p] \notin PagesOf(space[p])
         /\ kstack[p] # NULL
         /\ Owned(p) = PagesOf(space[p]) \cup {kstack[p]}
         /\ state[p] = "live" => Fits(space[p], size[p])
         /\ Runs(p) => Full(space[p], size[p])
         /\ size[p] \in 0 .. NV * PAGE_SZ
<1>1. /\ Proper(space[p]) /\ kstack[p] \in Pages /\ kstack[p] \notin PagesOf(space[p])
  BY DEF Inductive, Ownership
<1>2. kstack[p] # NULL
  BY <1>1, Constants
<1>3. space[p] \in Space /\ PagesOf(space[p]) \subseteq Pages
  BY <1>1, PagesOfSpace DEF Proper
<1>4. state[p] = "live" => Fits(space[p], size[p])
  BY Zenon DEF Inductive, SizeMapped, Fits
<1>5. Runs(p) => Full(space[p], size[p])
  BY DEF Inductive, SizeMapped, Full, Runs
<1>6. size[p] \in 0 .. NV * PAGE_SZ
  BY DEF Inductive, TypeOK
<1>. QED  BY <1>1, <1>2, <1>3, <1>4, <1>5, <1>6 DEF Owned

\* The size of one process changes.
LEMMA SizedStep ==
  ASSUME Inductive, NEW q \in Procs, stopped' = stopped,
         \A p \in Procs \ {q} : space'[p] = space[p] /\ size'[p] = size[p]
                                /\ state'[p] = state[p],
         state'[q] = "live" =>
           /\ Proper(space'[q]) /\ Fits(space'[q], size'[q])
           /\ space'[q].map[0] # NULL => Full(space'[q], size'[q])
  PROVE  SizeMapped'
<1>1. stopped' # "uvm_copy: page not present"
  BY Zenon DEF Inductive, SizeMapped
<1>2. ASSUME NEW p \in Procs, NEW v \in VPages, state'[p] = "live"
      PROVE  /\ space'[p].map[v] # NULL => /\ v * PAGE_SZ < size'[p]
                                           /\ space'[p].upt[v \div PTSZ] # NULL
             /\ v * PAGE_SZ < size'[p] /\ Runs(p)' => space'[p].map[v] # NULL
  <2>1. CASE p = q
    <3>1. Proper(space'[p]) /\ Fits(space'[p], size'[p])
      BY <1>2, <2>1
    <3>2. Runs(p)' => Full(space'[p], size'[p])
      BY <1>2, <2>1 DEF Runs
    <3>. QED  BY <3>1, <3>2 DEF Proper, Fits, Full
  <2>2. CASE p # q
    <3>1. space'[p] = space[p] /\ size'[p] = size[p] /\ state'[p] = state[p]
      BY <2>2
    <3>2. Runs(p)' <=> Runs(p)
      BY <3>1 DEF Runs
    <3>. QED  BY <1>2, <3>1, <3>2, Zenon DEF Inductive, SizeMapped
  <2>. QED  BY <2>1, <2>2
<1>. QED  BY <1>1, <1>2, Zenon DEF SizeMapped

\* A process gets another address space m.space in exchange for its own and free pages.
LEMMA Resized ==
  ASSUME Inductive, NEW p \in Procs, state[p] = "live", NEW m, NEW n \in 0 .. NV * PAGE_SZ,
         Whole(m, free \cup PagesOf(space[p])),
         Fits(m.space, n), m.space.map[0] # NULL => Full(m.space, n),
         free' = m.free, space' = [space EXCEPT ![p] = m.space],
         size' = [size EXCEPT ![p] = n], UNCHANGED <<kstack, state, lost, stopped>>
  PROVE  Inductive'
<1>1. TypeOK /\ Ownership
  BY DEF Inductive
<1>2. /\ space'[p] = m.space /\ size'[p] = n
      /\ \A o \in Procs \ {p} : space'[o] = space[o] /\ size'[o] = size[o]
  BY <1>1 DEF TypeOK
<1>3. /\ Proper(m.space) /\ m.space \in Space /\ m.free \cap PagesOf(m.space) = {}
      /\ m.free \cup PagesOf(m.space) = free \cup PagesOf(space[p])
  BY DEF Whole, Proper
<1>4. /\ kstack[p] \in Pages /\ kstack[p] \notin PagesOf(space[p]) /\ kstack[p] # NULL
      /\ Owned(p) = PagesOf(space[p]) \cup {kstack[p]}
      /\ PagesOf(space[p]) \subseteq Pages
  BY Live
<1>5. Owned(p) \cap (free \cup lost) = {} /\ free \cap lost = {}
  BY <1>1 DEF Ownership
<1>6. Owned(p)' = PagesOf(m.space) \cup {kstack[p]}
  BY <1>2, <1>4 DEF Owned
<1>7. Ownership'
  <2>1. kstack[p] \notin PagesOf(m.space)
    BY <1>3, <1>4, <1>5, ZenonT(30)
  <2>2. /\ free' \cap lost' = {} /\ Owned(p)' \cap (free' \cup lost') = {}
        /\ free' \cup lost' \cup Owned(p)' = free \cup lost \cup Owned(p)
    BY <1>3, <1>4, <1>5, <1>6, ZenonT(30)
  <2>. QED  BY <1>1, <1>2, <1>3, <1>4, <2>1, <2>2, Handover
<1>8. SizeMapped'
  BY <1>2, <1>3, SizedStep, Zenon
<1>9. TypeOK'
  <2>1. free' \subseteq Pages
    BY <1>1, <1>3, <1>4 DEF TypeOK
  <2>2. size' \in [Procs -> 0 .. NV * PAGE_SZ]
    BY <1>1 DEF TypeOK
  <2>3. space' \in [Procs -> Space \cup {NULL}]
    BY <1>1, <1>3 DEF TypeOK
  <2>. QED  BY <1>1, <2>1, <2>2, <2>3 DEF TypeOK
<1>. QED  BY <1>7, <1>8, <1>9 DEF Inductive

\* Pages move from the free list to the lost ones.
LEMMA Losing ==
  ASSUME Inductive, NEW gone \in SUBSET free, free' = free \ gone, lost' = lost \cup gone,
         UNCHANGED <<space, size, kstack, state, stopped>>
  PROVE  Inductive'
<1>1. TypeOK /\ Ownership /\ InitProc \in Procs
  BY Constants DEF Inductive
<1>2. PICK p \in Procs : TRUE
  BY <1>1
<1>3. Owned(p)' = Owned(p)
  BY DEF Owned
<1>4. Owned(p) \cap (free \cup lost) = {} /\ free \cap lost = {}
  BY <1>1 DEF Ownership
<1>5. /\ free' \cap lost' = {} /\ Owned(p)' \cap (free' \cup lost') = {}
      /\ free' \cup lost' \cup Owned(p)' = free \cup lost \cup Owned(p)
  BY <1>3, <1>4
<1>6. IF state'[p] = "unused" THEN space'[p] = NULL /\ kstack'[p] = NULL
      ELSE /\ Proper(space'[p])
           /\ kstack'[p] \in Pages /\ kstack'[p] \notin PagesOf(space'[p])
  BY <1>1 DEF Ownership
<1>7. Ownership'
  BY <1>1, <1>5, <1>6, Handover
<1>8. SizeMapped'
  BY Zenon DEF Inductive, SizeMapped, Runs
<1>9. TypeOK'
  BY <1>1 DEF TypeOK
<1>. QED  BY <1>7, <1>8, <1>9 DEF Inductive

\* The system stops, but not because a page is missing; or nothing changes.
LEMMA Stopping ==
  ASSUME Inductive,
         \/ UNCHANGED vars
         \/ \E why \in {"init exits", "double free", "vmfree of garbage"} : Stop(why)
  PROVE  Inductive'
<1>1. TypeOK /\ Ownership /\ SizeMapped
  BY Zenon DEF Inductive
<1>2. UNCHANGED <<free, space, size, kstack, state, lost>>
  BY Zenon DEF Stop, vars
<1>3. /\ stopped' = stopped \/ stopped' # "no"
      /\ stopped' # "uvm_copy: page not present"
  BY <1>1, Zenon DEF Stop, vars, SizeMapped
<1>4. TypeOK'
  BY <1>1, <1>2, ZenonT(30) DEF TypeOK
<1>5. Ownership'
  BY <1>1, <1>2, Zenon DEF Ownership, Owned
<1>6. \A p \in Procs : Runs(p)' => Runs(p)
  BY <1>2, <1>3, Zenon DEF Runs
<1>7. SizeMapped'
  BY <1>1, <1>2, <1>3, <1>6, Zenon DEF SizeMapped
<1>. QED  BY <1>4, <1>5, <1>7, Zenon DEF Inductive

\* What a running process and the free list have between them.
LEMMA RunningWhole ==
  ASSUME Inductive, NEW p \in Procs, Runs(p)
  PROVE  /\ state[p] = "live"
         /\ free \cup PagesOf(space[p]) \in SUBSET Pages
         /\ Whole([free |-> free, space |-> space[p]], free \cup PagesOf(space[p]))
<1>1. state[p] = "live"
  BY DEF Runs
<1>2. /\ Proper(space[p]) /\ PagesOf(space[p]) \subseteq Pages
      /\ Owned(p) = PagesOf(space[p]) \cup {kstack[p]}
  BY <1>1, Live
<1>3. Owned(p) \cap (free \cup lost) = {} /\ free \subseteq Pages
  BY DEF Inductive, Ownership, TypeOK
<1>4. free \cap PagesOf(space[p]) = {}
  BY <1>2, <1>3
<1>. QED  BY <1>1, <1>2, <1>3, <1>4 DEF Whole

\* sbrk of a larger size, whether or not there are pages for it.
LEMMA GrowStep ==
  ASSUME Inductive, NEW p \in Procs, NEW n \in Grows, Grow(p, n)
  PROVE  Inductive'
<1>1. Runs(p)
  BY DEF Grow
<1>. PICK k : k = [free |-> free, space |-> space[p]]
  BY Zenon
<1>2. PICK R \in SUBSET Pages : /\ state[p] = "live" /\ Whole(k, R)
                                /\ R = free \cup PagesOf(space[p])
  BY <1>1, RunningWhole, Zenon
<1>3. /\ Fits(space[p], size[p]) /\ Full(space[p], size[p])
      /\ size[p] \in 0 .. NV * PAGE_SZ
  BY <1>1, <1>2, Live
<1>4. PICK old \in 0 .. NV * PAGE_SZ, new \in Nat : old = size[p] /\ new = size[p] + n
  <2>1. NV * PAGE_SZ \in Nat /\ n \in Nat
    BY Constants
  <2>. QED  BY <1>3, <2>1
<1>5. PICK r : r = uvm_allocate(k, old, new)
  OBVIOUS
<1>6. /\ free' = r.m.free /\ space' = [space EXCEPT ![p] = r.m.space]
      /\ size' = [size EXCEPT ![p] = IF r.size = 0 THEN size[p] ELSE r.size]
      /\ UNCHANGED <<kstack, state, lost, stopped>>
  BY <1>2, <1>4, <1>5 DEF Grow
<1>7. k.space = space[p]
  BY <1>2
<1>8. Fits(k.space, old) /\ Full(k.space, old)
  BY <1>3, <1>4, <1>7
<1>9. /\ Whole(r.m, R) /\ r.size \in 0 .. NV * PAGE_SZ
      /\ r.size = 0 => \A v \in VPages : r.m.space.map[v] = k.space.map[v]
      /\ r.size # 0 => Fits(r.m.space, r.size) /\ Full(r.m.space, r.size)
  <2>1. Allocated(uvm_allocate(k, old, new), k, old, R)
    BY <1>2, <1>8, Allocate
  <2>. QED  BY <1>5, <1>8, <2>1 DEF Allocated
<1>10. PICK m, j : m = r.m /\ j = IF r.size = 0 THEN size[p] ELSE r.size
  OBVIOUS
<1>11. j \in 0 .. NV * PAGE_SZ
  BY <1>3, <1>9, <1>10
<1>12. Fits(m.space, j) /\ Full(m.space, j)
  <2>1. CASE r.size = 0
    <3>1. j = old /\ \A v \in VPages : m.space.map[v] = k.space.map[v]
      BY <1>4, <1>9, <1>10, <2>1
    <3>. QED  BY <1>8, <3>1 DEF Fits, Full
  <2>2. CASE r.size # 0
    BY <1>9, <1>10, <2>2
  <2>. QED  BY <2>1, <2>2
<1>13. Whole(m, free \cup PagesOf(space[p]))
  BY <1>2, <1>9, <1>10
<1>14. /\ free' = m.free /\ space' = [space EXCEPT ![p] = m.space]
       /\ size' = [size EXCEPT ![p] = j]
  BY <1>6, <1>10
<1>. QED  BY <1>2, <1>6, <1>11, <1>12, <1>13, <1>14, Resized, Zenon

\* sbrk of a smaller size, down to nothing.
LEMMA ShrinkStep ==
  ASSUME Inductive, NEW p \in Procs, NEW n \in Grows, Shrink(p, n)
  PROVE  Inductive'
<1>1. Runs(p) /\ n <= size[p]
  BY DEF Shrink
<1>. PICK k : k = [free |-> free, space |-> space[p]]
  BY ZenonT(30)
<1>2. PICK R \in SUBSET Pages : /\ state[p] = "live" /\ Whole(k, R)
                                /\ R = free \cup PagesOf(space[p])
  BY <1>1, RunningWhole, Zenon
<1>3. /\ Fits(space[p], size[p]) /\ Full(space[p], size[p])
      /\ size[p] \in 0 .. NV * PAGE_SZ
  BY <1>1, <1>2, Live
<1>4. PICK old \in 0 .. NV * PAGE_SZ, new \in Nat :
        old = size[p] /\ new = size[p] - n /\ new <= old /\ new \in 0 .. NV * PAGE_SZ
        /\ old \in Nat /\ (n = old => new = 0)
  <2>1. NV * PAGE_SZ \in Nat /\ n \in Nat
    BY Constants
  <2>. QED  BY <1>1, <1>3, <2>1
<1>5. PICK m : m = uvm_deallocate(k, old, new)
  OBVIOUS
<1>6. /\ free' = m.free /\ space' = [space EXCEPT ![p] = m.space]
      /\ size' = [size EXCEPT ![p] = IF n = size[p] THEN size[p] ELSE size[p] - n]
      /\ UNCHANGED <<kstack, state, lost, stopped>>
  BY <1>2, <1>4, <1>5 DEF Shrink
<1>7. k.space = space[p]
  BY <1>2
<1>8. Fits(k.space, old) /\ Full(k.space, old)
  BY <1>3, <1>4, <1>7
<1>9. Whole(m, R) /\ Fits(m.space, new) /\ Full(m.space, new)
  <2>1. Deallocated(uvm_deallocate(k, old, new), k, old, new, R)
    BY <1>2, <1>4, <1>8, Deallocate
  <2>. QED  BY <1>5, <1>8, <2>1 DEF Deallocated
<1>10. PICK j : j = IF n = size[p] THEN size[p] ELSE size[p] - n
  OBVIOUS
<1>11. j \in 0 .. NV * PAGE_SZ /\ new <= j
  BY <1>4, <1>10
<1>12. Fits(m.space, j) /\ (m.space.map[0] # NULL => Full(m.space, j))
  <2>1. CASE n = old
    <3>1. \A v \in VPages : v * PAGE_SZ \in Nat
      <4>1. PICK a \in Nat : a = PAGE_SZ
        BY Constants
      <4>2. VPages \subseteq Nat
        BY Constants
      <4>. QED  BY <4>1, <4>2
    <3>2. \A v \in VPages : ~ (v * PAGE_SZ < new)
      BY <1>4, <2>1, <3>1
    <3>3. \A v \in VPages : m.space.map[v] = NULL
      BY <1>9, <3>2 DEF Fits
    <3>. QED  BY <3>3, Constants DEF Fits
  <2>2. CASE n # old
    <3>1. j = new
      BY <1>4, <1>10, <2>2
    <3>. QED  BY <1>9, <3>1
  <2>. QED  BY <2>1, <2>2
<1>13. Whole(m, free \cup PagesOf(space[p]))
  BY <1>2, <1>9
<1>14. size' = [size EXCEPT ![p] = j]
  BY <1>6, <1>10
<1>. QED  BY <1>2, <1>6, <1>11, <1>12, <1>13, <1>14, Resized, Zenon

\* exec, of a program that can be loaded or that fails half way.
LEMMA ExecStep ==
  ASSUME Inductive, NEW p \in Procs, NEW img \in Images, NEW good \in BOOLEAN,
         Exec(p, img, good)
  PROVE  Inductive'
<1>1. Runs(p)
  BY Zenon DEF Exec
<1>2. PICK l : l = Load(kvm_allocate(free), img)
  OBVIOUS
<1>3. CASE free = {}
  BY <1>3, Stopping DEF Exec
<1>4. CASE free # {} /\ Cardinality(free) < NKPT + 1
  BY <1>4, Stopping, Zenon DEF Exec
<1>5. ASSUME free # {}, ~ (Cardinality(free) < NKPT + 1) PROVE Inductive'
  <2>1. free \in SUBSET Pages
    BY DEF Inductive, TypeOK
  <2>2. /\ Whole(kvm_allocate(free), free)
        /\ \A v \in VPages : kvm_allocate(free).space.map[v] = NULL
    BY <1>5, <2>1, KvmAllocate
  <2>3. PICK k : k = kvm_allocate(free)
    OBVIOUS
  <2>4. Loaded(l, free)
    <3>1. Whole(k, free) /\ \A v \in VPages : k.space.map[v] = NULL
      BY <2>2, <2>3
    <3>2. Loaded(Load(k, img), free)
      BY <2>1, <3>1, LoadWhole
    <3>. QED  BY <1>2, <2>3, <3>2
  <2>5. CASE l.ok /\ good
    <3>1. /\ free' = l.m.free \cup PagesOf(space[p])
          /\ space' = [space EXCEPT ![p] = l.m.space]
          /\ size' = [size EXCEPT ![p] = l.size]
          /\ UNCHANGED <<kstack, state, lost, stopped>>
      BY <1>2, <1>5, <2>5, Zenon DEF Exec, vmfree
    <3>2. /\ Whole(l.m, free) /\ l.size \in 0 .. NV * PAGE_SZ
          /\ Fits(l.m.space, l.size) /\ Full(l.m.space, l.size)
      BY <2>4, <2>5 DEF Loaded
    <3>3. PICK m : m = [free |-> l.m.free \cup PagesOf(space[p]), space |-> l.m.space]
      BY ZenonT(30)
    <3>4. state[p] = "live" /\ free \cap PagesOf(space[p]) = {}
      BY <1>1, RunningWhole DEF Whole
    <3>5. Whole(m, free \cup PagesOf(space[p]))
      <4>1. m.free = l.m.free \cup PagesOf(space[p]) /\ m.space = l.m.space
        BY <3>3
      <4>2. /\ m = [free |-> m.free, space |-> m.space] /\ Proper(m.space)
            /\ l.m.free \cap PagesOf(m.space) = {}
            /\ l.m.free \cup PagesOf(m.space) = free
        BY <3>2, <3>3, <4>1 DEF Whole
      <4>3. /\ m.free \cap PagesOf(m.space) = {}
            /\ m.free \cup PagesOf(m.space) = free \cup PagesOf(space[p])
        BY <3>4, <4>1, <4>2
      <4>. QED  BY <4>2, <4>3 DEF Whole
    <3>6. m.free = free' /\ m.space = l.m.space
      BY <3>1, <3>3
    <3>7. PICK n \in 0 .. NV * PAGE_SZ : n = l.size
      BY <3>2
    <3>8. /\ Fits(m.space, n) /\ Full(m.space, n)
          /\ space' = [space EXCEPT ![p] = m.space]
          /\ size' = [size EXCEPT ![p] = n]
      BY <3>1, <3>2, <3>6, <3>7
    <3>. QED  BY <3>1, <3>4, <3>5, <3>6, <3>7, <3>8, Resized, ZenonT(30)
  <2>6. CASE ~ (l.ok /\ good)
    <3>1. /\ free' = l.m.free \cup PagesOf(l.m.space)
          /\ UNCHANGED <<space, size, kstack, state, lost, stopped>>
      BY <1>2, <1>5, <2>6, ZenonT(30) DEF Exec, vmfree
    <3>2. free' = free
      BY <2>4, <3>1, Zenon DEF Loaded, Whole
    <3>. QED  BY <3>1, <3>2, Stopping, ZenonT(30) DEF vars
  <2>. QED  BY <2>5, <2>6
<1>. QED  BY <1>3, <1>4, <1>5

\* pipe loses a page.
LEMMA PipeStep ==
  ASSUME Inductive, NEW p \in Procs, Pipe(p)
  PROVE  Inductive'
<1>1. free \in SUBSET Pages /\ free \cap lost = {} /\ free # {}
  BY DEF Inductive, TypeOK, Ownership, Pipe
<1>2. Take(1, free) \subseteq free
  BY <1>1, TakeOne, LeastPage
<1>3. /\ lost' = lost \cup Take(1, free) /\ free' = free \ lost'
      /\ UNCHANGED <<space, size, kstack, state, stopped>>
  BY DEF Pipe
<1>4. free' = free \ Take(1, free)
  BY <1>1, <1>3
<1>. QED  BY <1>2, <1>3, <1>4, Losing

\* exit leaves the pages to the parent's wait.
LEMMA ExitStep ==
  ASSUME Inductive, NEW p \in Procs, Exit(p)
  PROVE  Inductive'
<1>1. CASE p = InitProc
  BY <1>1, Stopping, Zenon DEF Exit
<1>2. CASE p # InitProc
  <2>1. /\ state[p] = "live" /\ state' = [state EXCEPT ![p] = "zombie"]
        /\ UNCHANGED <<free, space, size, kstack, lost, stopped>>
    BY <1>2 DEF Exit
  <2>2. TypeOK /\ Ownership
    BY DEF Inductive
  <2>3. state'[p] = "zombie" /\ \A o \in Procs \ {p} : state'[o] = state[o]
    BY <2>1, <2>2 DEF TypeOK
  <2>4. Owned(p)' = Owned(p)
    BY <2>1 DEF Owned
  <2>5. Owned(p) \cap (free \cup lost) = {} /\ free \cap lost = {}
    BY <2>2 DEF Ownership
  <2>6. Proper(space[p]) /\ kstack[p] \in Pages /\ kstack[p] \notin PagesOf(space[p])
    BY <2>1, Live
  <2>7. Ownership'
    BY <2>1, <2>2, <2>3, <2>4, <2>5, <2>6, Handover
  <2>8. SizeMapped'
    BY <2>1, <2>3, SizedStep, Zenon
  <2>9. TypeOK'
    BY <2>1, <2>2 DEF TypeOK
  <2>. QED  BY <2>7, <2>8, <2>9 DEF Inductive
<1>. QED  BY <1>1, <1>2

\* wait gives back all pages of a zombie.
LEMMA ReapStep ==
  ASSUME Inductive, NEW p \in Procs, Reap(p)
  PROVE  Inductive'
<1>1. /\ state[p] = "zombie" /\ free' = free \cup PagesOf(space[p]) \cup {kstack[p]}
      /\ space'  = [space EXCEPT ![p] = NULL]
      /\ size'   = [size EXCEPT ![p] = 0]
      /\ kstack' = [kstack EXCEPT ![p] = NULL]
      /\ state'  = [state EXCEPT ![p] = "unused"]
      /\ UNCHANGED <<lost, stopped>>
  BY DEF Reap, vmfree
<1>2. TypeOK /\ Ownership
  BY DEF Inductive
<1>3. /\ PagesOf(space[p]) \subseteq Pages /\ kstack[p] \in Pages
      /\ Owned(p) = PagesOf(space[p]) \cup {kstack[p]}
  BY <1>1, Live
<1>4. /\ space'[p] = NULL /\ kstack'[p] = NULL /\ state'[p] = "unused"
      /\ \A o \in Procs \ {p} : /\ space'[o] = space[o] /\ size'[o] = size[o]
                                /\ kstack'[o] = kstack[o] /\ state'[o] = state[o]
  BY <1>1, <1>2 DEF TypeOK
<1>5. Owned(p)' = {}
  BY <1>4 DEF Owned, PagesOf
<1>6. Owned(p) \cap (free \cup lost) = {} /\ free \cap lost = {}
  BY <1>2 DEF Ownership
<1>7. Ownership'
  <2>1. /\ free' \cap lost' = {} /\ Owned(p)' \cap (free' \cup lost') = {}
        /\ free' \cup lost' \cup Owned(p)' = free \cup lost \cup Owned(p)
    BY <1>1, <1>3, <1>5, <1>6
  <2>. QED  BY <1>2, <1>4, <2>1, Handover
<1>8. SizeMapped'
  BY <1>1, <1>4, SizedStep
<1>9. TypeOK'
  <2>1. free' \subseteq Pages /\ lost' \subseteq Pages
    BY <1>1, <1>2, <1>3 DEF TypeOK
  <2>2. 0 \in 0 .. NV * PAGE_SZ
    BY Constants
  <2>3. size' \in [Procs -> 0 .. NV * PAGE_SZ]
    BY <1>1, <1>2, <2>2 DEF TypeOK
  <2>4. /\ kstack' \in [Procs -> Pages \cup {NULL}]
        /\ space' \in [Procs -> Space \cup {NULL}]
    BY <1>1, <1>2 DEF TypeOK
  <2>5. state' \in [Procs -> {"unused", "live", "zombie"}]
    BY <1>1, <1>2 DEF TypeOK
  <2>. QED  BY <2>1, <2>3, <2>4, <2>5 DEF TypeOK
<1>. QED  BY <1>7, <1>8, <1>9 DEF Inductive

\* fork, when it succeeds and when pages run out: the child has all of its parent's
\* memory or does not exist.
LEMMA ForkStep ==
  ASSUME Inductive, NEW p \in Procs, NEW q \in Procs, Fork(p, q)
  PROVE  Inductive'
<1>1. Runs(p) /\ state[q] = "unused" /\ state[p] = "live"
  BY Zenon DEF Fork, Runs
<1>2. /\ TypeOK /\ Ownership /\ free \in SUBSET Pages
  BY DEF Inductive, TypeOK
<1>3. Full(space[p], size[p]) /\ size[p] \in 0 .. NV * PAGE_SZ
  BY <1>1, Live
<1>4. PICK n \in Nat, top \in 0 .. NV : n = size[p] /\ top = Top(n) /\ n \in 0 .. NV * PAGE_SZ
  BY <1>3, TopBound
<1>5. top \in Nat /\ \A v \in VPages : v < top <=> v * PAGE_SZ < n
  BY <1>4, TopValue, Constants, Zenon
<1>6. 0 .. top - 1 \subseteq VPages /\ VPages \subseteq Nat
  <2>1. NV \in Nat /\ VPages \subseteq Nat /\ top <= NV
    BY <1>4, Constants
  <2>. QED  BY <1>5, <2>1 DEF VPages
<1>7. ~ \E v \in 0 .. top - 1 : space[p].map[v] = NULL
  <2>. SUFFICES ASSUME NEW v \in 0 .. top - 1 PROVE space[p].map[v] # NULL
    OBVIOUS
  <2>1. v \in VPages /\ v < top
    BY <1>5, <1>6
  <2>2. v * PAGE_SZ < n
    BY <1>5, <2>1
  <2>. QED  BY <1>3, <1>4, <2>1, <2>2 DEF Full
<1>8. CASE Cardinality(free) < NKPT + 2
  BY <1>8, Stopping DEF Fork
<1>9. ASSUME ~ (Cardinality(free) < NKPT + 2) PROVE Inductive'
  <2>1. Cardinality(free) \in Nat /\ IsFiniteSet(free) /\ Cardinality(free) >= 3
    BY <1>2, <1>9, PagesFinite, Constants
  <2>2. free # {}
    BY <2>1, FS_EmptySet
  <2>3. PICK k : k = Least(free) /\ k \in free /\ k \in Pages /\ Take(1, free) = {k}
    BY <1>2, <2>2, LeastPage, TakeOne
  <2>4. PICK rest \in SUBSET Pages : rest = free \ Take(1, free) /\ rest = free \ {k}
    BY <1>2, <2>3, Zenon
  <2>5. rest # {}
    <3>1. rest = {} => free = {k}
      BY <2>3, <2>4
    <3>2. Cardinality({k}) = 1
      BY FS_Singleton
    <3>. QED  BY <2>1, <3>1, <3>2
  <2>6. PICK c : c = kvm_allocate(rest)
    OBVIOUS
  <2>7. Whole(c, rest) /\ \A v \in VPages : c.space.map[v] = NULL
    BY <2>5, <2>6, KvmAllocate
  <2>8. PICK r : r = MapRange(c, 0, top)
    OBVIOUS
  <2>9. Ranged(r, c, 0, top, rest)
    <3>1. Clear(c, 0, top) /\ 0 \in Nat
      BY <2>7 DEF Clear
    <3>2. Ranged(MapRange(c, 0, top), c, 0, top, rest)
      BY <1>5, <2>7, <3>1, MapRangeWhole
    <3>. QED  BY <2>8, <3>2
  <2>10. PICK m : m = r.m /\ Whole(m, rest)
    BY <2>9 DEF Ranged
  <2>11. IF r.bad = "ok"
         THEN /\ free'   = m.free
              /\ space'  = [space EXCEPT ![q] = m.space]
              /\ size'   = [size EXCEPT ![q] = n]
              /\ kstack' = [kstack EXCEPT ![q] = k]
              /\ state'  = [state EXCEPT ![q] = "live"]
              /\ UNCHANGED <<lost, stopped>>
         ELSE /\ free' = free \ (IF r.bad = "pt" THEN m.free ELSE {})
              /\ lost' = lost \cup (IF r.bad = "pt" THEN m.free ELSE {})
              /\ UNCHANGED <<space, size, kstack, state, stopped>>
    BY <1>4, <1>7, <1>9, <2>3, <2>4, <2>6, <2>8, <2>10, ZenonT(30) DEF Fork, Top
  <2>12. /\ m.free \cap PagesOf(m.space) = {}
         /\ m.free \cup PagesOf(m.space) = free \ {k}
         /\ Proper(m.space) /\ m.space \in Space
    BY <2>4, <2>10, Zenon DEF Whole, Proper
  <2>13. CASE r.bad # "ok"
    <3>1. PICK gone \in SUBSET free : gone = IF r.bad = "pt" THEN m.free ELSE {}
      BY <2>12, Zenon
    <3>2. /\ free' = free \ gone /\ lost' = lost \cup gone
          /\ UNCHANGED <<space, size, kstack, state, stopped>>
      BY <2>11, <2>13, <3>1
    <3>. QED  BY <3>2, Losing
  <2>14. CASE r.bad = "ok"
    <3>1. /\ free'   = m.free
          /\ space'  = [space EXCEPT ![q] = m.space]
          /\ size'   = [size EXCEPT ![q] = n]
          /\ kstack' = [kstack EXCEPT ![q] = k]
          /\ state'  = [state EXCEPT ![q] = "live"]
          /\ UNCHANGED <<lost, stopped>>
      BY <2>11, <2>14
    <3>2. /\ space'[q] = m.space /\ kstack'[q] = k /\ state'[q] = "live" /\ size'[q] = n
          /\ \A o \in Procs \ {q} : /\ space'[o] = space[o] /\ size'[o] = size[o]
                                    /\ kstack'[o] = kstack[o] /\ state'[o] = state[o]
      BY <1>2, <3>1 DEF TypeOK
    <3>3. k # NULL /\ k \notin PagesOf(m.space)
      BY <2>3, <2>12, Constants
    <3>4. Owned(q)' = PagesOf(m.space) \cup {k}
      BY <3>2, <3>3 DEF Owned
    <3>5. Owned(q) = {}
      <4>1. space[q] = NULL /\ kstack[q] = NULL
        BY <1>1, <1>2 DEF Ownership
      <4>. QED  BY <4>1 DEF Owned, PagesOf
    <3>6. free \cap lost = {}
      BY <1>2 DEF Ownership
    <3>7. /\ free' \cap lost' = {} /\ Owned(q)' \cap (free' \cup lost') = {}
          /\ free' \cup lost' \cup Owned(q)' = free \cup lost \cup Owned(q)
      BY <2>3, <2>12, <3>1, <3>4, <3>5, <3>6
    <3>8. Ownership'
      BY <1>2, <2>3, <2>12, <3>2, <3>3, <3>7, Handover, Zenon
    <3>9. Fits(m.space, n) /\ Full(m.space, n)
      <4>1. \A v \in VPages : 0 <= v
        BY <1>6
      <4>2. \A v \in VPages : m.space.map[v] # NULL <=> v < top
        BY <2>7, <2>9, <2>10, <2>14, <4>1 DEF Ranged
      <4>. QED  BY <1>5, <4>2 DEF Fits, Full
    <3>10. SizeMapped'
      BY <2>12, <3>1, <3>2, <3>9, SizedStep
    <3>11. TypeOK'
      <4>1. free' \subseteq Pages /\ lost' \subseteq Pages
        BY <1>2, <2>12, <3>1 DEF TypeOK
      <4>2. size' \in [Procs -> 0 .. NV * PAGE_SZ]
        BY <1>2, <1>4, <3>1 DEF TypeOK
      <4>3. kstack' \in [Procs -> Pages \cup {NULL}]
        BY <1>2, <2>3, <3>1 DEF TypeOK
      <4>4. space' \in [Procs -> Space \cup {NULL}]
        BY <1>2, <2>12, <3>1 DEF TypeOK
      <4>5. state' \in [Procs -> {"unused", "live", "zombie"}]
        BY <1>2, <3>1 DEF TypeOK
      <4>. QED  BY <4>1, <4>2, <4>3, <4>4, <4>5 DEF TypeOK
    <3>. QED  BY <3>8, <3>10, <3>11 DEF Inductive
  <2>. QED  BY <2>13, <2>14
<1>. QED  BY <1>8, <1>9

\* Enough pages for init at boot.
LEMMA BootPages ==
  ASSUME NEW c, c = kvm_allocate(Pages \ {1})
  PROVE  NKPT + 3 \in c.free /\ NKPT + 4 \in c.free
<1>1. NPAGES \in Nat /\ NKPT \in Nat /\ NPAGES >= NKPT + 4
  BY Constants
<1>. DEFINE S == Pages \ {1}
<1>2. S = 2 .. NPAGES
  BY <1>1 DEF Pages
<1>3. ASSUME NEW x \in {NKPT + 3, NKPT + 4} PROVE x \in S \ Take(NKPT + 1, S)
  <2>1. x \in S /\ x \in Nat /\ x <= NPAGES /\ x >= 3
    BY <1>1, <1>2, <1>3
  <2>2. {y \in S : y < x} = 2 .. x - 1
    BY <1>1, <1>2, <2>1
  <2>3. Cardinality(2 .. x - 1) = x - 2
    <3>1. 2 \in Int /\ x - 1 \in Int
      BY <2>1
    <3>2. Cardinality(2 .. x - 1) = IF 2 > x - 1 THEN 0 ELSE (x - 1) - 2 + 1
      BY <3>1, FS_Interval
    <3>. QED  BY <2>1, <3>2
  <2>4. ~ (x - 2 < NKPT + 1)
    BY <1>1, <1>3
  <2>. QED  BY <2>1, <2>2, <2>3, <2>4, Zenon DEF Take
<1>4. c.free = S \ Take(NKPT + 1, S)
  BY DEF kvm_allocate
<1>. QED  BY <1>3, <1>4

\* The state after userinit.
LEMMA InitInductive == Init => Inductive
<1>. SUFFICES ASSUME Init PROVE Inductive
  OBVIOUS
<1>1. /\ NPAGES \in Nat /\ NKPT \in Nat /\ NPAGES >= NKPT + 4 /\ NULL \notin Pages
      /\ InitProc \in Procs
  BY Constants
<1>2. /\ 1 \in Pages /\ Pages # {} /\ Pages \in SUBSET Pages
      /\ \A x \in Pages : x \in Nat /\ 1 <= x
  BY <1>1 DEF Pages
<1>3. Least(Pages) = 1
  <2>1. Least(Pages) \in Pages /\ Least(Pages) <= 1
    BY <1>2, LeastPage
  <2>. QED  BY <1>2, <2>1
<1>4. Take(1, Pages) = {1} /\ Least({1}) = 1
  <2>1. Take(1, Pages) = {1}
    BY <1>2, <1>3, TakeOne
  <2>2. Least({1}) \in {1}
    BY <1>2, LeastPage
  <2>. QED  BY <2>1, <2>2
<1>5. PICK R \in SUBSET Pages : R = Pages \ {1}
  BY Zenon
<1>6. PICK c : c = kvm_allocate(R)
  OBVIOUS
<1>7. NKPT + 3 \in c.free /\ NKPT + 4 \in c.free
  BY <1>5, <1>6, BootPages
<1>8. Whole(c, R) /\ \A v \in VPages : c.space.map[v] = NULL
  <2>1. NKPT + 3 \in R
    BY <1>1, <1>5 DEF Pages
  <2>. QED  BY <1>6, <2>1, KvmAllocate
<1>9. Outcome(c, 0) = "ok" /\ 0 \in VPages
  <2>1. Cardinality(c.free) # 1
    <3>1. c.free \in SUBSET Pages
      BY <1>8 DEF Whole
    <3>2. IsFiniteSet(c.free)
      BY <3>1, PagesFinite
    <3>3. Cardinality(c.free) = 1 => \E x : c.free = {x}
      BY <3>2, FS_Singleton, Zenon
    <3>4. NKPT + 3 # NKPT + 4
      BY <1>1
    <3>. QED  BY <1>7, <3>3, <3>4
  <2>. QED  BY <1>7, <2>1, Constants DEF Outcome
<1>10. PICK m : m = MapPage(c, 0)
  OBVIOUS
<1>11. /\ Whole(m, R) /\ m.space.map[0] # NULL
       /\ \A w \in VPages \ {0} : m.space.map[w] = NULL
  BY <1>8, <1>9, <1>10, MapPageWhole
<1>12. /\ free   = m.free
       /\ space  = [p \in Procs |-> IF p = InitProc THEN m.space ELSE NULL]
       /\ size   = [p \in Procs |-> IF p = InitProc THEN PAGE_SZ ELSE 0]
       /\ kstack = [p \in Procs |-> IF p = InitProc THEN 1 ELSE NULL]
       /\ state  = [p \in Procs |-> IF p = InitProc THEN "live" ELSE "unused"]
       /\ lost = {} /\ stopped = "no"
  BY <1>4, <1>5, <1>6, <1>10 DEF Init
<1>13. /\ Proper(m.space) /\ m.space \in Space /\ m.free \cap PagesOf(m.space) = {}
       /\ m.free \cup PagesOf(m.space) = Pages \ {1}
  BY <1>5, <1>11 DEF Whole, Proper
<1>14. /\ Owned(InitProc) = PagesOf(m.space) \cup {1}
       /\ \A p \in Procs \ {InitProc} : Owned(p) = {}
  <2>1. space[InitProc] = m.space /\ kstack[InitProc] = 1 /\ 1 # NULL
    BY <1>1, <1>2, <1>12
  <2>2. \A p \in Procs \ {InitProc} : space[p] = NULL /\ kstack[p] = NULL
    BY <1>1, <1>12
  <2>. QED  BY <2>1, <2>2 DEF Owned, PagesOf
<1>15. Ownership
  <2>1. \A p \in Procs : IF state[p] = "unused" THEN space[p] = NULL /\ kstack[p] = NULL
                         ELSE /\ Proper(space[p])
                              /\ kstack[p] \in Pages
                              /\ kstack[p] \notin PagesOf(space[p])
    BY <1>2, <1>12, <1>13
  <2>2. \A p \in Procs : Owned(p) \cap (free \cup lost) = {}
    BY <1>12, <1>13, <1>14
  <2>3. \A p, q \in Procs : p # q => Owned(p) \cap Owned(q) = {}
    BY <1>14
  <2>4. \A x \in Pages : x \in free \cup lost \/ \E p \in Procs : x \in Owned(p)
    BY <1>1, <1>12, <1>13, <1>14
  <2>. QED  BY <1>12, <2>1, <2>2, <2>3, <2>4 DEF Ownership
<1>16. TypeOK
  <2>1. PICK a \in Nat \ {0}, b \in Nat \ {0} : a = NV /\ b = PAGE_SZ
    BY Constants
  <2>2. b <= a * b /\ a * b \in Nat
    <3>1. 0 * b + b <= a * b
      BY <2>1, MultiplesApart
    <3>. QED  BY <2>1, <3>1
  <2>3. size \in [Procs -> 0 .. NV * PAGE_SZ]
    BY <1>12, <2>1, <2>2
  <2>. QED  BY <1>2, <1>12, <1>13, <2>3 DEF TypeOK
<1>17. SizeMapped
  <2>1. PICK b \in Nat \ {0} : b = PAGE_SZ
    BY Constants
  <2>2. \A v \in VPages : v \in Nat
    BY Constants
  <2>3. \A v \in VPages : v * PAGE_SZ < PAGE_SZ <=> v = 0
    <3>. SUFFICES ASSUME NEW v \in VPages PROVE v * b < b <=> v = 0
      BY <2>1
    <3>1. 0 < v => 0 * b + b <= v * b
      BY <2>1, <2>2, MultiplesApart
    <3>2. v * b \in Nat
      BY <2>1, <2>2
    <3>. QED  BY <2>1, <2>2, <3>1, <3>2
  <2>4. \A v \in VPages : m.space.map[v] # NULL <=> v * PAGE_SZ < PAGE_SZ
    BY <1>11, <2>3
  <2>. QED  BY <1>12, <1>13, <2>4 DEF SizeMapped, Proper
<1>. QED  BY <1>15, <1>16, <1>17 DEF Inductive

\* Every step.
LEMMA MemoryStep == Inductive /\ [Next]_vars => Inductive'
<1>. SUFFICES ASSUME Inductive, [Next]_vars PROVE Inductive'
  OBVIOUS
<1>1. ASSUME NEW p \in Procs, NEW q \in Procs, Fork(p, q) PROVE Inductive'
  BY <1>1, ForkStep
<1>2. ASSUME NEW p \in Procs, NEW n \in Grows, Grow(p, n) PROVE Inductive'
  BY <1>2, GrowStep
<1>3. ASSUME NEW p \in Procs, NEW n \in Grows, Shrink(p, n) PROVE Inductive'
  BY <1>3, ShrinkStep
<1>4. ASSUME NEW p \in Procs, NEW img \in Images, NEW good \in BOOLEAN, Exec(p, img, good)
      PROVE  Inductive'
  BY <1>4, ExecStep
<1>5. ASSUME NEW p \in Procs, ExecBadFile(p) PROVE Inductive'
  BY <1>5, Stopping, Zenon DEF ExecBadFile
<1>6. ASSUME NEW p \in Procs, Pipe(p) PROVE Inductive'
  BY <1>6, PipeStep
<1>7. ASSUME NEW p \in Procs, Exit(p) PROVE Inductive'
  BY <1>7, ExitStep
<1>8. ASSUME NEW p \in Procs, Reap(p) PROVE Inductive'
  BY <1>8, ReapStep
<1>9. CASE UNCHANGED vars
  BY <1>9, Stopping
<1>. QED  BY <1>1, <1>2, <1>3, <1>4, <1>5, <1>6, <1>7, <1>8, <1>9 DEF Next, Halted

----------------------------------------------------------------------------
(* Theorems *)

\* palloc.c, vmem.c and their callers: types, the partition of the pages and the sizes
\* hold in every state, whichever call fails half way.
THEOREM MemoryInvariant == Spec => []Inductive
BY InitInductive, MemoryStep, PTL DEF Spec

\* uvm_allocate, uvm_deallocate and uvm_copy: a process that can run has all the memory
\* its size says and no more, so that uvm_copy's panic is not reached.
THEOREM MemorySized == Spec => []SizeMapped
<1>1. Inductive => SizeMapped
  BY DEF Inductive
<1>. QED  BY <1>1, MemoryInvariant, PTL

\* A set with at most one element.
LEMMA AtMostOne ==
  ASSUME NEW S, \A x, y \in S : x = y
  PROVE  Cardinality(S) = IF S = {} THEN 0 ELSE 1
<1>1. CASE S = {}
  BY <1>1, FS_EmptySet
<1>2. CASE S # {}
  <2>1. PICK x : x \in S
    BY <1>2
  <2>2. S = {x}
    BY <2>1
  <2>. QED  BY <1>2, <2>2, FS_Singleton
<1>. QED  BY <1>1, <1>2

\* A page is in at most one place of an address space.
LEMMA CountProper ==
  ASSUME NEW s, Proper(s), NEW x \in Pages
  PROVE  Count(s, x) = IF x \in PagesOf(s) THEN 1 ELSE 0
<1>1. s \in Space /\ s # NULL /\ x # NULL
  BY PagesOfSpace, Constants DEF Proper
<1>. DEFINE D == {i \in {1} : s.dir = x}
            K == {i \in {1} : x \in s.kpt}
            U == {t \in Tables : s.upt[t] = x}
            M == {v \in VPages : s.map[v] = x}
<1>2. Count(s, x) = Cardinality(D) + Cardinality(K) + Cardinality(U) + Cardinality(M)
  BY <1>1 DEF Count
<1>3. x \in PagesOf(s) <=> D # {} \/ K # {} \/ U # {} \/ M # {}
  <2>1. x \in PagesOf(s) <=> \/ x = s.dir \/ x \in s.kpt
                             \/ \E t \in Tables : x = s.upt[t]
                             \/ \E v \in VPages : x = s.map[v]
    BY <1>1, PagesOfSpace
  <2>. QED  BY <2>1
<1>4. \A i, j \in D : i = j
  OBVIOUS
<1>5. \A i, j \in K : i = j
  OBVIOUS
<1>6. \A i, j \in U : i = j
  BY <1>1 DEF Proper
<1>7. \A i, j \in M : i = j
  BY <1>1 DEF Proper
<1>8. /\ D # {} => K = {} /\ U = {} /\ M = {}
      /\ K # {} => U = {} /\ M = {}
      /\ U # {} => M = {}
  BY <1>1 DEF Proper
<1>. HIDE DEF D, K, U, M
<1>9. /\ Cardinality(D) = IF D = {} THEN 0 ELSE 1
      /\ Cardinality(K) = IF K = {} THEN 0 ELSE 1
      /\ Cardinality(U) = IF U = {} THEN 0 ELSE 1
      /\ Cardinality(M) = IF M = {} THEN 0 ELSE 1
  BY <1>4, <1>5, <1>6, <1>7, AtMostOne
<1>. QED  BY <1>2, <1>3, <1>8, <1>9

\* The partition, counted page by page.
LEMMA OwnershipCounted == Inductive => OneOwner
<1>. SUFFICES ASSUME Inductive, NEW x \in Pages
              PROVE  LET bit(b) == IF b THEN 1 ELSE 0
                         in(p)  == bit(kstack[p] = x) + Count(space[p], x)
                         users  == {p \in Procs : in(p) # 0}
                     IN  /\ \A p \in users : in(p) = 1
                         /\ bit(x \in free) + bit(x \in lost) + Cardinality(users) = 1
  BY DEF OneOwner
<1>. DEFINE bit(b) == IF b THEN 1 ELSE 0
            in(p)  == bit(kstack[p] = x) + Count(space[p], x)
            users  == {p \in Procs : in(p) # 0}
<1>1. ASSUME NEW p \in Procs PROVE in(p) = IF x \in Owned(p) THEN 1 ELSE 0
  <2>0. x # NULL
    BY Constants
  <2>1. CASE state[p] = "unused"
    <3>1. space[p] = NULL /\ kstack[p] = NULL
      BY <2>1 DEF Inductive, Ownership
    <3>. QED  BY <2>0, <3>1 DEF Owned, PagesOf, Count
  <2>2. CASE state[p] # "unused"
    <3>1. /\ Proper(space[p]) /\ kstack[p] \notin PagesOf(space[p])
          /\ Owned(p) = PagesOf(space[p]) \cup {kstack[p]}
      BY <2>2, Live
    <3>2. Count(space[p], x) = IF x \in PagesOf(space[p]) THEN 1 ELSE 0
      BY <3>1, CountProper
    <3>. QED  BY <3>1, <3>2
  <2>. QED  BY <2>1, <2>2
<1>. HIDE DEF in
<1>2. users = {p \in Procs : x \in Owned(p)} /\ \A p \in users : in(p) = 1
  BY <1>1
<1>3. /\ \A p \in Procs : Owned(p) \cap (free \cup lost) = {}
      /\ \A p, q \in Procs : p # q => Owned(p) \cap Owned(q) = {}
      /\ free \cap lost = {}
      /\ x \in free \cup lost \/ \E p \in Procs : x \in Owned(p)
  BY DEF Inductive, Ownership
<1>4. /\ \A p, q \in users : p = q
      /\ x \in free \cup lost <=> users = {}
      /\ ~ (x \in free /\ x \in lost)
  BY <1>2, <1>3
<1>. HIDE DEF users
<1>5. Cardinality(users) = IF users = {} THEN 0 ELSE 1
  BY <1>4, AtMostOne
<1>6. bit(x \in free) + bit(x \in lost) + Cardinality(users) = 1
  BY <1>4, <1>5
<1>. QED  BY <1>2, <1>6 DEF users, in

\* palloc, pfree and all that calls them: every page has exactly one owner, so that no
\* page is handed out twice and none is forgotten but those the model names as lost.  It
\* holds up to the error paths of exec that free garbage, where the model stops.
THEOREM PagesHaveOneOwner == Spec => []OneOwner
BY MemoryInvariant, OwnershipCounted, PTL
=============================================================================
