-------------------------------- MODULE Boot --------------------------------
(***************************************************************************)
(* The last stage of the boot loader, boot/boot.c: it copies the segments  *)
(* of the kernel from the disk to memory, in whole sectors, and clears     *)
(* what a segment has beyond its bytes in the file.                        *)
(*                                                                         *)
(* The bytes of the kernel's file are the numbers 1, 2, ...; 0 is a        *)
(* cleared byte and -1 what memory contains at power on.  The header of    *)
(* the file is read to a place that no segment uses.  Once the kernel is   *)
(* entered, memory is empty: it is the kernel's own from then on.          *)
(***************************************************************************)
EXTENDS Integers, Sequences

CONSTANTS
  SECSZ,     \* bytes of a sector
  MEM,       \* bytes of memory
  Kernels    \* program headers, in order: paddr, offset, filesz, memsz

VARIABLES
  headers,   \* the program headers
  loaded,    \* how many of them have been gone through
  memory     \* the memory

bootvars == <<headers, loaded, memory>>

BootInit ==
  /\ headers = <<>>
  /\ loaded = 0
  /\ memory = [a \in 0 .. MEM - 1 |-> -1]

Entered == memory = <<>>

\* The start of boot3: the header of the kernel's file, which is_elf accepts.
ReadHeader ==
  /\ headers = <<>> /\ ~Entered
  /\ headers' \in Kernels
  /\ UNCHANGED <<loaded, memory>>

\* Mutant: the number of sectors is rounded down.
SectorsDown(n) == IF n \div SECSZ = 0 THEN 1 ELSE n \div SECSZ

\* remained, with the first sector.
Sectors(n) == n \div SECSZ + 1

\* read_offset: what is behind offset in the first sector, then whole sectors.
read_offset(mem, dst, n, offset) ==
  LET end == (offset \div SECSZ + Sectors(n)) * SECSZ
  IN  [a \in DOMAIN mem |->
         IF dst <= a /\ offset + a - dst < end THEN offset + a - dst + 1 ELSE mem[a]]

\* The loop of boot3, for one header.  Its type is not looked at.
boot3 ==
  LET p   == headers[loaded + 1]
      mem == read_offset(memory, p.paddr, p.filesz, p.offset)
  IN  /\ loaded < Len(headers)
      /\ memory' = [a \in DOMAIN mem |->
           IF p.paddr + p.filesz <= a /\ a < p.paddr + p.memsz THEN 0 ELSE mem[a]]
      /\ loaded' = loaded + 1
      /\ UNCHANGED headers

Loaded == headers # <<>> /\ loaded = Len(headers)

\* The end of boot3: entry() is called.
Enter ==
  /\ Loaded
  /\ memory' = <<>> /\ headers' = <<>> /\ loaded' = 0

----------------------------------------------------------------------------

\* What read_offset reads reaches the end of the segment: always if it starts at
\* a sector.
Reached(p) == (p.offset % SECSZ) + (p.filesz % SECSZ) <= SECSZ

\* When the kernel is entered, each of its segments is in memory, with its bytes
\* from the file and zeros behind them: the sectors read beyond the end of a
\* segment are cleared or covered by a later one, also where segments share a
\* sector of memory and where a header that is not to be loaded comes between.
KernelLoaded ==
  Loaded => \A i \in 1 .. Len(headers) :
    LET p == headers[i]
    IN  Reached(p) => \A k \in 0 .. p.memsz - 1 :
          memory[p.paddr + k] = IF k < p.filesz THEN p.offset + k + 1 ELSE 0
=============================================================================
