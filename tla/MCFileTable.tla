---------------------------- MODULE MCFileTable -----------------------------
(* FileTable with what happened: the files that some process has closed, and
   whether open() was used without O_CREAT. *)
EXTENDS FileTable, TLC

VARIABLES closed, borrowed

hist == <<closed, borrowed>>

MCInit == Init /\ closed = {} /\ borrowed = FALSE

\* Only a close() makes the count of a file smaller.
MCNext ==
  /\ \/ (\E p \in Procs : Opens(p)) /\ Bounded /\ borrowed' = TRUE
     \/ (\E p \in Procs : Calls(p)) /\ Bounded /\ UNCHANGED borrowed
     \/ Halted /\ UNCHANGED borrowed
  /\ closed' = closed \cup {f \in Files : nref'[f] < nref[f]}

Symmetry == Permutations(Names)

MCSpec == MCInit /\ [][MCNext]_<<vars, hist>>

\* A file that is referenced is not handed out again by file_allocate: it keeps
\* its type and its inode until its count is 0.
NotHandedOut ==
  [][\A f \in Files : nref[f] > 0 /\ nref'[f] > 0
       => type'[f] = type[f] /\ ino'[f] = ino[f]]_vars

\* The descriptors that refer to a file.
Referring(f) == {x \in Procs \X Fds : file[x[1]][x[2]] = f}

\* Unless somebody has called close() on it, the count of a file covers all the
\* descriptors that refer to it, in every slot of the process table: also those
\* that a process leaves behind when it exits and that the next process in its
\* slot starts with.
DescriptorsCounted ==
  \A f \in Files \ closed : nref[f] >= Cardinality(Referring(f))

\* An open file stays with the inode it was opened for: its slot of the cache is
\* not free ("Allocate on free inode", inode_getc), whatever other processes
\* create, look up and close, and through all the references that inode_allocate
\* leaks.  open() without O_CREAT ends that: dir_abspath gives back the reference
\* that close() gives back once more.
CreatedKeepsInode ==
  [][\A f \in Files : type[f] = "inode" /\ type'[f] = "inode" /\ ~borrowed'
       => icache'[ino'[f]].inum = icache[ino[f]].inum]_vars

----------------------------------------------------------------------------
(* Inductive invariants *)

Cached == [nref : Int, inum : {0} \cup Inums, read : BOOLEAN,
           type : {"none", "file"} \cup Types]

TypeOK ==
  /\ nref \in [Files -> Nat]
  /\ type \in [Files -> {"none", "pipe", "inode"}]
  /\ ino \in [Files -> Slots \cup {NULL}]
  /\ file \in [Procs -> [Fds -> Files \cup {NULL}]]
  /\ used \subseteq Procs
  /\ icache \in [Slots -> Cached]
  /\ itype \in [Inums -> {"none", "file"} \cup Types]
  /\ entry \in [Names -> {0} \cup Inums]
  /\ closed \subseteq Files /\ borrowed \in BOOLEAN

\* A file has a type as long as it is referenced.
TypedWhileOpen == \A f \in Files : type[f] = "none" <=> nref[f] = 0

\* The files that are open on the inode in slot s.
OpenOn(s) == {f \in Files : type[f] = "inode" /\ ino[f] = s}

\* A slot that was never used.
Unused(c, s) == c[s].inum = 0 /\ c[s].nref = 0

\* Before open() without O_CREAT is used, the count of a slot covers its files.
InodesCounted ==
  /\ \A f \in Files : type[f] = "inode" => ino[f] \in Slots /\ icache[ino[f]].inum # 0
  /\ \A s \in Slots : icache[s].inum # 0 \/ Unused(icache, s)
  /\ ~borrowed => \A s \in Slots : icache[s].nref >= Cardinality(OpenOn(s))

Inductive == TypeOK /\ TypedWhileOpen /\ DescriptorsCounted /\ InodesCounted
=============================================================================
