------------------------------ MODULE MCImage -------------------------------
(***************************************************************************)
(* Image for TLC: kernels of two segments in ascending order, with and     *)
(* without a header for the stack, and argument lists up to two more than  *)
(* exec admits.                                                            *)
(***************************************************************************)
EXTENDS Image

Segments == [paddr : {5, 8, 10}, offset : {0, 1, 8, 9}, filesz : {0, 3, 5}, memsz : {0, 3, 5, 6}]

StackHeader == [paddr |-> 0, offset |-> 0, filesz |-> 0, memsz |-> 0]

Pairs ==
  {<<p, q>> \in {s \in Segments : s.filesz <= s.memsz /\ s.paddr = 5 /\ s.offset <= 1 /\ s.filesz # 0}
                \X {s \in Segments : s.filesz <= s.memsz /\ s.offset >= 8} :
     p.paddr + p.memsz <= q.paddr /\ p.offset + p.filesz <= q.offset}

MCKernels ==
  Pairs \cup {<<k[1], StackHeader, k[2]>> : k \in Pairs} \cup {Append(k, StackHeader) : k \in Pairs}

MCArgvs ==
  UNION {[1 .. n -> {<<>>, <<1>>, <<2, 3, 4>>}] : n \in 0 .. 2}
  \cup {[i \in 1 .. n |-> <<1>>] : n \in 3 .. 5}
  \cup {<<[i \in 1 .. n |-> 3]>> : n \in 8 .. 17}
=============================================================================
