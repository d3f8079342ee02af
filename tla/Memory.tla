------------------------------- MODULE Memory -------------------------------
(***************************************************************************)
(* Physical pages and address spaces: palloc.c, pgtbl.c and vmem.c, and    *)
(* the system calls that use them: fork, exec, sbrk, pipe, exit and wait.  *)
(*                                                                         *)
(* Interrupt handlers allocate nothing and kernel code is not preempted by *)
(* other processes, so a system call is one action.  Pages are all alike:  *)
(* the free list is a set and palloc takes its least element.              *)
(***************************************************************************)
EXTENDS Integers, FiniteSets, Sequences

CONSTANTS
  Procs, InitProc,  \* slots of the process table; the one of init
  NPAGES,           \* physical pages behind the kernel
  NKPT,             \* page tables for the kernel's part of an address space
  NV,               \* user pages of an address space: KERN_BASE
  PTSZ,             \* entries of a page table
  PAGE_SZ,          \* size of a page
  Images,           \* programs: the ends of their segments, in order
  Grows,            \* arguments of sbrk, up and down
  NULL

Pages  == 1 .. NPAGES
VPages == 0 .. NV - 1
Tables == {v \div PTSZ : v \in VPages}

\* An address space: the page directory, the kernel's page tables, the user's page
\* tables and the user's pages.
Space == [dir : Pages, kpt : SUBSET Pages, upt : [Tables -> Pages \cup {NULL}],
          map : [VPages -> Pages \cup {NULL}]]

ASSUME MemoryAssumption ==
  /\ InitProc \in Procs
  /\ {NPAGES, NKPT, NV, PTSZ, PAGE_SZ} \subseteq Nat \ {0}
  /\ NPAGES >= NKPT + 4  \* enough to start init
  /\ Grows \subseteq Nat /\ Images \subseteq Seq(Nat)
  /\ NULL \notin Nat \cup Space

VARIABLES
  free,    \* the free list
  space,   \* space[p]: the page directory of a process and all it leads to
  size,    \* size[p]: bytes of user memory
  kstack,  \* kstack[p]: a page, NULL if there is none
  state,   \* state[p]: "unused", "live" or "zombie"
  lost,    \* pages that nothing refers to any more
  stopped  \* "no", a panic, or what corrupts the free list

vars == <<free, space, size, kstack, state, lost, stopped>>

Least(S) == CHOOSE x \in S : \A y \in S : x <= y

\* The n pages that n calls of palloc return.
Take(n, S) == {x \in S : Cardinality({y \in S : y < x}) < n}

page_alignup(n) == ((n + PAGE_SZ - 1) \div PAGE_SZ) * PAGE_SZ

----------------------------------------------------------------------------
(* Address spaces.  m is a free list and an address space. *)

\* The pages that an address space owns.
PagesOf(s) ==
  IF s = NULL THEN {}
  ELSE ({s.dir} \cup s.kpt \cup {s.upt[t] : t \in Tables}
                \cup {s.map[v] : v \in VPages}) \ {NULL}

\* kvm_allocate, with enough pages for it.
kvm_allocate(S) ==
  LET T == Take(NKPT + 1, S)
  IN  [free |-> S \ T,
       space |-> [dir |-> Least(T), kpt |-> T \ {Least(T)},
                  upt |-> [t \in Tables |-> NULL], map |-> [v \in VPages |-> NULL]]]

\* palloc and map_pages of one user page, with walk: "ok", no page ("mem"), or
\* no page for the page table ("pt").
Outcome(m, v) ==
  CASE m.free = {} -> "mem"
    [] m.space.upt[v \div PTSZ] = NULL /\ Cardinality(m.free) = 1 -> "pt"
    [] OTHER -> "ok"

MapPage(m, v) ==
  LET mem == Least(m.free)
      t   == v \div PTSZ
      pt  == IF m.space.upt[t] = NULL THEN Least(m.free \ {mem}) ELSE m.space.upt[t]
  IN  [free |-> m.free \ {mem, pt},
       space |-> [m.space EXCEPT !.map[v] = mem, !.upt[t] = pt]]

\* The loops of uvm_allocate and uvm_copy: pages lo .. hi - 1, until one fails.
\* bad says how it failed.
MapStep(r, v, lo, hi) ==
  IF r.bad # "ok" \/ v < lo \/ v >= hi THEN r
  ELSE IF Outcome(r.m, v) # "ok" THEN [m |-> r.m, bad |-> Outcome(r.m, v)]
  ELSE [m |-> MapPage(r.m, v), bad |-> "ok"]

MapRange(m, lo, hi) ==
  LET loop[v \in 0 .. NV] == IF v = 0 THEN [m |-> m, bad |-> "ok"]
                             ELSE MapStep(loop[v - 1], v - 1, lo, hi)
  IN  loop[NV]

\* unmap_pages with free set: page tables stay.
unmap_pages(m, lo, hi) ==
  LET V == {v \in VPages : lo <= v /\ v < hi}
  IN  [free  |-> m.free \cup ({m.space.map[v] : v \in V} \ {NULL}),
       space |-> [m.space EXCEPT !.map = [v \in VPages |-> IF v \in V THEN NULL ELSE @[v]]]]

\* Mutant: the new end is rounded down.
DeallocateTooMuch(m, old, new) ==
  unmap_pages(m, new \div PAGE_SZ, page_alignup(old) \div PAGE_SZ)

\* uvm_deallocate from old down to new.
uvm_deallocate(m, old, new) ==
  unmap_pages(m, page_alignup(new) \div PAGE_SZ, page_alignup(old) \div PAGE_SZ)

\* uvm_allocate: the new size, 0 if it failed.
uvm_allocate(m, old, new) ==
  IF new > NV * PAGE_SZ THEN [m |-> m, size |-> 0]
  ELSE IF new < old THEN [m |-> m, size |-> old]
  ELSE LET r == MapRange(m, page_alignup(old) \div PAGE_SZ, page_alignup(new) \div PAGE_SZ)
       IN  IF r.bad = "ok" THEN [m |-> r.m, size |-> new]
           ELSE [m |-> uvm_deallocate(r.m, new, old), size |-> 0]

\* Mutant: page tables are forgotten.
VmfreePagesOnly(S, s) ==
  S \cup (({s.dir} \cup s.kpt \cup {s.map[v] : v \in VPages}) \ {NULL})

\* vmfree gives back all of it.
vmfree(S, s) == S \cup PagesOf(s)

Init ==
  LET T == Take(1, Pages)
      m == MapPage(kvm_allocate(Pages \ T), 0)
  IN  /\ free   = m.free
      /\ space  = [p \in Procs |-> IF p = InitProc THEN m.space ELSE NULL]
      /\ size   = [p \in Procs |-> IF p = InitProc THEN PAGE_SZ ELSE 0]
      /\ kstack = [p \in Procs |-> IF p = InitProc THEN Least(T) ELSE NULL]
      /\ state  = [p \in Procs |-> IF p = InitProc THEN "live" ELSE "unused"]
      /\ lost = {} /\ stopped = "no"

----------------------------------------------------------------------------
(* System calls *)

\* A process whose first page is gone cannot execute; it faults and exits.
Runs(p) == stopped = "no" /\ state[p] = "live" /\ space[p].map[0] # NULL

Stop(why) == stopped' = why /\ UNCHANGED <<free, space, size, kstack, state, lost>>

\* fork: the kernel stack, then uvm_copy.  When a page table is missing, the page
\* that was to be mapped is lost.
Fork(p, q) ==
  LET top  == page_alignup(size[p]) \div PAGE_SZ
      rest == free \ Take(1, free)
      r    == MapRange(kvm_allocate(rest), 0, top)
  IN  /\ Runs(p) /\ state[q] = "unused"
      /\ IF Cardinality(free) < NKPT + 2 THEN UNCHANGED vars
         ELSE IF \E v \in 0 .. top - 1 : space[p].map[v] = NULL
         THEN Stop("uvm_copy: page not present")
         ELSE IF r.bad = "ok"
         THEN /\ free'   = r.m.free
              /\ space'  = [space EXCEPT ![q] = r.m.space]
              /\ size'   = [size EXCEPT ![q] = size[p]]
              /\ kstack' = [kstack EXCEPT ![q] = Least(free)]
              /\ state'  = [state EXCEPT ![q] = "live"]
              /\ UNCHANGED <<lost, stopped>>
         ELSE LET gone == IF r.bad = "pt" THEN r.m.free ELSE {}
              IN  /\ free' = free \ gone
                  /\ lost' = lost \cup gone
                  /\ UNCHANGED <<space, size, kstack, state, stopped>>

\* grow_process(n): a size of 0 counts as a failure.
Grow(p, n) ==
  LET r == uvm_allocate([free |-> free, space |-> space[p]], size[p], size[p] + n)
  IN  /\ Runs(p)
      /\ free' = r.m.free
      /\ space' = [space EXCEPT ![p] = r.m.space]
      /\ size' = [size EXCEPT ![p] = IF r.size = 0 THEN @ ELSE r.size]
      /\ UNCHANGED <<kstack, state, lost, stopped>>

\* grow_process(-n).  Below 0 the new size wraps around and nothing happens.
Shrink(p, n) ==
  LET m == uvm_deallocate([free |-> free, space |-> space[p]], size[p], size[p] - n)
  IN  /\ Runs(p) /\ n <= size[p]
      /\ free' = m.free
      /\ space' = [space EXCEPT ![p] = m.space]
      /\ size' = [size EXCEPT ![p] = IF n = @ THEN @ ELSE @ - n]
      /\ UNCHANGED <<kstack, state, lost, stopped>>

\* The segments of a program, then a guard page and a stack page.
LoadStep(l, old, new) ==
  LET r == uvm_allocate(l.m, old, new)
  IN  IF ~l.ok THEN l ELSE [m |-> r.m, size |-> r.size, ok |-> r.size # 0]

Load(m, img) ==
  LET seg[i \in 0 .. Len(img)] ==
        IF i = 0 THEN [m |-> m, size |-> 0, ok |-> TRUE]
        ELSE LoadStep(seg[i - 1], seg[i - 1].size, img[i])
      l   == seg[Len(img)]
      end == page_alignup(l.size)
  IN  LoadStep(l, end, end + 2 * PAGE_SZ)

\* exec of a file that is not a program: kvm_allocate is not reached, and the
\* error path frees a page table that was never initialized unless its pointer
\* happens to be 0.
ExecBadFile(p) ==
  /\ Runs(p)
  /\ UNCHANGED vars \/ Stop("vmfree of garbage")

\* exec of a program.  A kvm_allocate that fails half way has freed its
\* directory, and the error path frees it again.  good: the program can be read
\* and its arguments fit on the stack.
Exec(p, img, good) ==
  LET l == Load(kvm_allocate(free), img)
  IN  /\ Runs(p)
      /\ IF free = {} THEN UNCHANGED vars
         ELSE IF Cardinality(free) < NKPT + 1 THEN Stop("double free")
         ELSE IF l.ok /\ good
         THEN /\ free'  = vmfree(l.m.free, space[p])
              /\ space' = [space EXCEPT ![p] = l.m.space]
              /\ size'  = [size EXCEPT ![p] = l.size]
              /\ UNCHANGED <<kstack, state, lost, stopped>>
         ELSE /\ free' = vmfree(l.m.free, l.m.space)
              /\ UNCHANGED <<space, size, kstack, state, lost, stopped>>

\* pipe: a page that no close gives back.
Pipe(p) ==
  /\ Runs(p) /\ free # {}
  /\ lost' = lost \cup Take(1, free)
  /\ free' = free \ lost'
  /\ UNCHANGED <<space, size, kstack, state, stopped>>

\* exit, by the process or after a fault.
Exit(p) ==
  /\ stopped = "no" /\ state[p] = "live"
  /\ IF p = InitProc THEN Stop("init exits")
     ELSE /\ state' = [state EXCEPT ![p] = "zombie"]
          /\ UNCHANGED <<free, space, size, kstack, lost, stopped>>

\* deallocate_process_unlocked, in the wait of the parent.
Reap(p) ==
  /\ stopped = "no" /\ state[p] = "zombie"
  /\ free'   = vmfree(free, space[p]) \cup {kstack[p]}
  /\ space'  = [space EXCEPT ![p] = NULL]
  /\ size'   = [size EXCEPT ![p] = 0]
  /\ kstack' = [kstack EXCEPT ![p] = NULL]
  /\ state'  = [state EXCEPT ![p] = "unused"]
  /\ UNCHANGED <<lost, stopped>>

Halted == stopped # "no" /\ UNCHANGED vars

Next ==
  \/ \E p \in Procs :
       \/ \E q \in Procs : Fork(p, q)
       \/ \E n \in Grows : Grow(p, n) \/ Shrink(p, n)
       \/ \E img \in Images, good \in BOOLEAN : Exec(p, img, good)
       \/ ExecBadFile(p) \/ Pipe(p) \/ Exit(p) \/ Reap(p)
  \/ Halted

Spec == Init /\ [][Next]_vars

----------------------------------------------------------------------------
(* Properties *)

TypeOK ==
  /\ free \subseteq Pages /\ lost \subseteq Pages
  /\ size \in [Procs -> 0 .. NV * PAGE_SZ]
  /\ kstack \in [Procs -> Pages \cup {NULL}]
  /\ state \in [Procs -> {"unused", "live", "zombie"}]
  /\ space \in [Procs -> Space \cup {NULL}]

\* How often a page is in use: free, lost, a kernel stack, or somewhere in an
\* address space.
Count(s, x) ==
  IF s = NULL THEN 0
  ELSE Cardinality({i \in {1} : s.dir = x})
       + Cardinality({i \in {1} : x \in s.kpt})
       + Cardinality({t \in Tables : s.upt[t] = x})
       + Cardinality({v \in VPages : s.map[v] = x})

\* Every page has exactly one owner, whatever fails half way: it is free, or lost,
\* or it is one kernel stack, or in one place of one address space.
OneOwner ==
  \A x \in Pages :
    LET bit(b) == IF b THEN 1 ELSE 0
        in(p)  == bit(kstack[p] = x) + Count(space[p], x)
        users  == {p \in Procs : in(p) # 0}
    IN  /\ \A p \in users : in(p) = 1
        /\ bit(x \in free) + bit(x \in lost) + Cardinality(users) = 1

\* A process that can run has the memory its size says: every page below it is
\* mapped, through a page table that is there, so that the panic "uvm_copy: page
\* not present" is not reached.  Nothing is mapped beyond: what a failed sbrk had
\* mapped already is gone again.
SizeMapped ==
  /\ stopped # "uvm_copy: page not present"
  /\ \A p \in Procs, v \in VPages : state[p] = "live" =>
       LET page == space[p].map[v]
       IN  /\ page # NULL => /\ v * PAGE_SZ < size[p]
                              /\ space[p].upt[v \div PTSZ] # NULL
           /\ v * PAGE_SZ < size[p] /\ Runs(p) => page # NULL

----------------------------------------------------------------------------
(* Inductive invariants *)

\* All the places of an address space are different pages, and a page is mapped
\* through a page table.
Proper(s) ==
  /\ s \in Space
  /\ s.dir \notin s.kpt
  /\ \A t \in Tables : s.upt[t] # NULL =>
       s.upt[t] \notin s.kpt \cup {s.dir} /\ \A u \in Tables \ {t} : s.upt[u] # s.upt[t]
  /\ \A v \in VPages : s.map[v] # NULL =>
       /\ s.map[v] \notin s.kpt \cup {s.dir} /\ s.upt[v \div PTSZ] # NULL
       /\ \A t \in Tables : s.upt[t] # s.map[v]
       /\ \A w \in VPages \ {v} : s.map[w] # s.map[v]

\* The pages of a process.
Owned(p) == PagesOf(space[p]) \cup ({kstack[p]} \ {NULL})

\* The free list, the lost pages and the pages of the processes are a partition of
\* the pages.
Ownership ==
  /\ \A p \in Procs : IF state[p] = "unused" THEN space[p] = NULL /\ kstack[p] = NULL
                      ELSE /\ Proper(space[p])
                           /\ kstack[p] \in Pages /\ kstack[p] \notin PagesOf(space[p])
  /\ free \cap lost = {}
  /\ \A p \in Procs : Owned(p) \cap (free \cup lost) = {}
  /\ \A p, q \in Procs : p # q => Owned(p) \cap Owned(q) = {}
  /\ \A x \in Pages : x \in free \cup lost \/ \E p \in Procs : x \in Owned(p)

Inductive == TypeOK /\ Ownership /\ SizeMapped
=============================================================================
