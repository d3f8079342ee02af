----------------------------- MODULE FileTable ------------------------------
(***************************************************************************)
(* Open files: the file table (kernel/fs/file.c), the descriptors of each  *)
(* process, the system calls on them (kernel/sys/syscall.c) and the cache  *)
(* of inodes they refer to (kernel/fs/inode.c, dir.c, fs.c).               *)
(*                                                                         *)
(* None of these calls sleeps, so each is one action.  Every path leads to *)
(* a name in the root directory: dir_abspath stops at the first component  *)
(* of /a/b, fs_create makes the last one in the root, and both give up on  *)
(* a third.  The root's own cached inode is left out: it is referenced for *)
(* ever (dir_init) and only gains references.                              *)
(***************************************************************************)
EXTENDS Integers, FiniteSets

CONSTANTS
  Procs, InitProc,  \* slots of the process table; the one of init
  NFILE,            \* size of the file table
  NOFILE,           \* descriptors of a process
  NSLOT,            \* slots of the inode cache, without the root's
  NINODES,          \* inodes 2 .. NINODES - 1 are not the root
  Names,            \* names in the root directory
  Types,            \* what sys_mknod and sys_mkdir make: of "dev", "dir"
  MaxRef, MaxIref,  \* bounds on the counts of a file and of a cached inode
  NULL

ASSUME FileTableAssumption ==
  /\ InitProc \in Procs /\ IsFiniteSet(Procs)
  /\ {NFILE, NOFILE, NSLOT, NINODES, MaxRef, MaxIref} \subseteq Nat \ {0}
  /\ NULL \notin Int

Files == 1 .. NFILE
Fds   == 0 .. NOFILE - 1
Slots == 1 .. NSLOT
Inums == 2 .. NINODES - 1

VARIABLES
  nref, type, ino,  \* ftable: the count, "none"/"pipe"/"inode", the cache slot
                    \* (NULL when the file is free: nothing reads it then)
  file,             \* file[p][fd]: a file or NULL
  used,             \* the slots of the process table that hold a process
  icache,           \* icache[s]: nref, inum (0 before the first use), read, and the
                    \* type in the copy of the disk's inode
  itype,            \* itype[i]: type of inode i on disk, "none" if it is free
  entry,            \* entry[n]: the inode of name n, 0 if there is none
  stopped           \* a panic, or a search of the inode cache that leaves the array

disk  == <<itype, entry>>
vars  == <<nref, type, ino, file, used, icache, disk, stopped>>

\* The image as mkfs writes it: any set of names, the one of init's program at
\* least, with inodes in order.
Init ==
  /\ nref = [f \in Files |-> 0]
  /\ type = [f \in Files |-> "none"]
  /\ ino  = [f \in Files |-> NULL]
  /\ file = [p \in Procs |-> [d \in Fds |-> NULL]]
  /\ used = {InitProc}
  /\ icache = [s \in Slots |-> [nref |-> 0, inum |-> 0, read |-> FALSE, type |-> "none"]]
  /\ entry \in [Names -> {0} \cup Inums]
  /\ \A n, m \in Names : entry[n] = entry[m] /\ n # m => entry[n] = 0
  /\ LET on == {entry[n] : n \in Names} \ {0}
     IN  /\ on # {} /\ on = 2 .. Cardinality(on) + 1
         /\ itype = [i \in Inums |-> IF i \in on THEN "file" ELSE "none"]
  /\ stopped = FALSE

----------------------------------------------------------------------------
(* The inode cache; NULL stands for one whose loop has left the array *)

Least(S) == IF S = {} THEN NULL ELSE CHOOSE x \in S : \A y \in S : x <= y

\* inode_getc takes the first slot that holds the inode or is free.
SlotFor(c, i) ==
  Least({s \in Slots : (c[s].nref >= 0 /\ c[s].inum = i) \/ c[s].nref = 0})

\* The copy of the last inode in the slot stays until somebody loads the new one.
inode_getc(c, i) ==
  LET s == SlotFor(c, i)
  IN  IF c = NULL \/ s = NULL THEN NULL
      ELSE [c EXCEPT ![s] = [nref |-> @.nref + 1, inum |-> i, type |-> @.type,
                             read |-> @.read /\ @.inum = i]]

inode_load(c, s) ==
  IF c[s].nref = 0 \/ c[s].read THEN c
  ELSE [c EXCEPT ![s].read = TRUE, ![s].type = itype[c[s].inum]]

inode_drop(c, s) == [c EXCEPT ![s].nref = @ - 1]

\* What a path resolves to: the cache after it, the slot (NULL for failure).
Resolved(c, s) == [cache |-> c, slot |-> s]

\* dir_abspath(path, false) for a name that exists: takes a reference to the
\* inode, loads it and gives the reference back.
dir_abspath(i) ==
  LET s == SlotFor(icache, i)
      c == inode_getc(icache, i)
  IN  IF c = NULL THEN Resolved(NULL, NULL) ELSE Resolved(inode_drop(inode_load(c, s), s), s)

\* inode_allocate tries the inodes in order: it keeps a reference to each one and
\* reads it over its copy.
inode_allocate(i, t) ==
  LET scan[j \in 1 .. NINODES - 1] ==
        IF j = 1 THEN icache
        ELSE LET c == scan[j - 1]
                 d == inode_getc(c, j)
             IN  IF d = NULL THEN NULL
                 ELSE [d EXCEPT ![SlotFor(c, j)].type = IF j = i THEN t ELSE itype[j]]
  IN  Resolved(scan[i], IF scan[i - 1] = NULL THEN NULL ELSE SlotFor(scan[i - 1], i))

----------------------------------------------------------------------------
(* Files and descriptors *)

\* Mutant: the file is found by its type.
FileByInode == Least({f \in Files : type[f] # "inode"})

file_allocate == Least({f \in Files : nref[f] = 0})

FreeFd(p) == Least({d \in Fds : file[p][d] = NULL})

\* Mutant: the reference is given back once the file is there.
InstallDrops(p, r) ==
  LET f == file_allocate
      d == FreeFd(p)
  IN  /\ icache' = inode_drop(r.cache, r.slot)
      /\ IF f = NULL \/ d = NULL THEN UNCHANGED <<nref, type, ino, file>>
         ELSE /\ nref' = [nref EXCEPT ![f] = 1]
              /\ type' = [type EXCEPT ![f] = "inode"]
              /\ ino'  = [ino EXCEPT ![f] = r.slot]
              /\ file' = [file EXCEPT ![p][d] = f]

\* What sys_open does with the inode that the path resolved to.
Install(p, r) ==
  LET f == file_allocate
      d == FreeFd(p)
  IN  IF f = NULL \/ d = NULL
      THEN /\ icache' = inode_drop(r.cache, r.slot)
           /\ UNCHANGED <<nref, type, ino, file>>
      ELSE /\ nref' = [nref EXCEPT ![f] = 1]
           /\ type' = [type EXCEPT ![f] = "inode"]
           /\ ino'  = [ino EXCEPT ![f] = r.slot]
           /\ file' = [file EXCEPT ![p][d] = f]
           /\ icache' = r.cache

Stop ==
  /\ stopped' = TRUE
  /\ UNCHANGED <<nref, type, ino, file, used, icache, disk>>

FreeInode == Least({j \in Inums : itype[j] = "none"})

\* The inode that fs_create returns, with a reference: the one of the name, which
\* is not loaded, or the first free one.  A new directory is loaded by dir_link.
\* Without a free inode, or a slot for it, the call does not return.
Created(n, t) ==
  LET r == inode_allocate(FreeInode, t)
  IN  IF entry[n] # 0
      THEN Resolved(inode_getc(icache, entry[n]), SlotFor(icache, entry[n]))
      ELSE IF FreeInode = NULL THEN Resolved(NULL, NULL)
      ELSE IF r.cache = NULL \/ t # "dir" THEN r
      ELSE [r EXCEPT !.cache[r.slot].read = TRUE]

\* What fs_create does to the disk.
Create(n, t) ==
  IF entry[n] = 0 THEN /\ itype' = [itype EXCEPT ![FreeInode] = t]
                       /\ entry' = [entry EXCEPT ![n] = FreeInode]
  ELSE UNCHANGED disk

\* It fails if the cached copy has another type, and leaves the reference.
WrongType(r, t) == r.cache[r.slot].type # t

table == <<nref, type, ino, file>>

KeepReference(r) == icache' = r.cache /\ UNCHANGED table
DropReference(r) == icache' = inode_drop(r.cache, r.slot) /\ UNCHANGED table

----------------------------------------------------------------------------
(* The system calls of a process *)

Runs(p) == ~stopped /\ p \in used

\* sys_open without O_CREAT.
Open(p, n, rdonly) ==
  /\ Runs(p) /\ entry[n] # 0
  /\ LET r == dir_abspath(entry[n])
     IN  IF r.cache = NULL THEN Stop
         ELSE /\ IF itype[entry[n]] = "dir" /\ rdonly THEN DropReference(r)
                 ELSE Install(p, r)
              /\ UNCHANGED <<used, disk, stopped>>

\* sys_open with O_CREAT.
OpenCreate(p, n) ==
  LET r == Created(n, "file")
  IN  /\ Runs(p)
      /\ IF r.cache = NULL THEN Stop
         ELSE /\ Create(n, "file")
              /\ IF WrongType(r, "file") THEN KeepReference(r) ELSE Install(p, r)
              /\ UNCHANGED <<used, stopped>>

\* sys_mknod and sys_mkdir.
Make(p, n, t) ==
  LET r == Created(n, t)
  IN  /\ Runs(p)
      /\ IF r.cache = NULL THEN Stop
         ELSE /\ Create(n, t)
              /\ IF WrongType(r, t) THEN KeepReference(r) ELSE DropReference(r)
              /\ UNCHANGED <<used, stopped>>

\* The other callers of dir_abspath: exec and sys_link.
Lookup(p, n) ==
  /\ Runs(p) /\ entry[n] # 0
  /\ LET r == dir_abspath(entry[n])
     IN  IF r.cache = NULL THEN Stop
         ELSE icache' = r.cache /\ UNCHANGED <<table, used, disk, stopped>>

\* A path of three components, of which the first exists, in any of these calls.
DeepPath(p, n) ==
  /\ Runs(p) /\ entry[n] # 0
  /\ Stop

\* sys_close.  The descriptor stays.
Close(p, d) ==
  LET f == file[p][d]
  IN  /\ Runs(p) /\ f # NULL
      /\ IF nref[f] < 1 THEN Stop
         ELSE /\ nref' = [nref EXCEPT ![f] = @ - 1]
              /\ IF nref[f] > 1 THEN UNCHANGED <<type, ino, icache>>
                 ELSE /\ type' = [type EXCEPT ![f] = "none"]
                      /\ ino' = [ino EXCEPT ![f] = NULL]
                      /\ icache' = IF type[f] = "inode" THEN inode_drop(icache, ino[f])
                                   ELSE icache
              /\ UNCHANGED <<file, used, disk, stopped>>

\* sys_dup.  When it panics the new descriptor is there already.
Dup(p, d) ==
  LET f == file[p][d]
      e == FreeFd(p)
  IN  /\ Runs(p) /\ f # NULL /\ e # NULL
      /\ file' = [file EXCEPT ![p][e] = f]
      /\ IF nref[f] < 1 THEN stopped' = TRUE /\ UNCHANGED nref
         ELSE nref' = [nref EXCEPT ![f] = @ + 1] /\ UNCHANGED stopped
      /\ UNCHANGED <<type, ino, used, icache, disk>>

\* sys_pipe: two files and two descriptors.  Without a second file, or a page
\* for the pipe, what was allocated is closed.  Without a second descriptor the
\* first one is taken back unless it is 0; its file stays open.
Pipe(p) ==
  LET r == file_allocate
      w == Least({f \in Files \ {r} : nref[f] = 0})
      d == FreeFd(p)
      e == Least({x \in Fds \ {d} : file[p][x] = NULL})
  IN  /\ Runs(p) /\ w # NULL /\ d # NULL
      /\ IF e = NULL
         THEN /\ nref' = [nref EXCEPT ![r] = 1]
              /\ type' = [type EXCEPT ![r] = "pipe"]
              /\ file' = [file EXCEPT ![p][d] = IF d = 0 THEN r ELSE NULL]
         ELSE /\ nref' = [nref EXCEPT ![r] = 1, ![w] = 1]
              /\ type' = [type EXCEPT ![r] = "pipe", ![w] = "pipe"]
              /\ file' = [file EXCEPT ![p][d] = r, ![p][e] = w]
      /\ UNCHANGED <<ino, used, icache, disk, stopped>>

\* sys_read and sys_write: file_read and file_write as far as the file goes, with
\* the inode_load at their head.
Use(p, d) ==
  LET f == file[p][d]
  IN  /\ Runs(p) /\ f # NULL
      /\ CASE type[f] = "none"  -> Stop
           [] type[f] = "pipe"  -> UNCHANGED vars
           [] type[f] = "inode" -> /\ icache' = inode_load(icache, ino[f])
                                   /\ UNCHANGED <<table, used, disk, stopped>>

\* Mutant: fork copies the descriptors and counts none of them.
ForkUncounted(p, q) ==
  LET open == {d \in Fds : file[p][d] # NULL}
  IN  /\ Runs(p) /\ q \notin used
      /\ file' = [file EXCEPT ![q] =
                     [d \in Fds |-> IF d \in open THEN file[p][d] ELSE @[d]]]
      /\ used' = used \cup {q}
      /\ UNCHANGED <<nref, type, ino, icache, disk, stopped>>

\* What fork does with the descriptors.  A slot that is reused has those of its
\* last process where the parent has none.
Fork(p, q) ==
  LET open == {d \in Fds : file[p][d] # NULL}
      uses(f) == Cardinality({d \in open : file[p][d] = f})
  IN  /\ Runs(p) /\ q \notin used
      /\ IF \E d \in open : nref[file[p][d]] < 1 THEN Stop
         ELSE /\ file' = [file EXCEPT ![q] =
                            [d \in Fds |-> IF d \in open THEN file[p][d] ELSE @[d]]]
              /\ nref' = [f \in Files |-> nref[f] + uses(f)]
              /\ used' = used \cup {q}
              /\ UNCHANGED <<type, ino, icache, disk, stopped>>

\* exit and the wait of the parent: deallocate_process_unlocked does not touch
\* the descriptors.
Exit(p) ==
  /\ Runs(p) /\ p # InitProc
  /\ used' = used \ {p}
  /\ UNCHANGED <<table, icache, disk, stopped>>

Halted == stopped /\ UNCHANGED vars

\* The bounds on the counts: exit leaves the ones of files to grow for ever.
Bounded ==
  /\ \A s \in Slots : icache'[s].nref <= MaxIref
  /\ \A f \in Files : nref'[f] <= MaxRef

Opens(p) == \E n \in Names, rdonly \in BOOLEAN : Open(p, n, rdonly)

Calls(p) ==
  \/ \E n \in Names : \/ OpenCreate(p, n)
                      \/ \E t \in Types : Make(p, n, t)
                      \/ Lookup(p, n) \/ DeepPath(p, n)
  \/ \E d \in Fds : Close(p, d) \/ Dup(p, d) \/ Use(p, d)
  \/ Pipe(p)
  \/ \E q \in Procs : Fork(p, q)
  \/ Exit(p)

Next == \/ \E p \in Procs : (Opens(p) \/ Calls(p)) /\ Bounded
        \/ Halted

Spec == Init /\ [][Next]_vars
=============================================================================
