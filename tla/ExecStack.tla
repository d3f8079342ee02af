------------------------------ MODULE ExecStack -----------------------------
(***************************************************************************)
(* The user stack that exec (kernel/exec.c) builds for a program from its  *)
(* arguments, and uvm_memcpy (kernel/memory/vmem.c) that copies it there.  *)
(*                                                                         *)
(* The stack is the page below TOP; the page below that is the guard page, *)
(* which uva2ka refuses.  A character takes one address and a word WORDSZ  *)
(* of them: a byte is a pair of a word and a position in it, or of a       *)
(* character and -1.                                                       *)
(***************************************************************************)
EXTENDS Integers, Sequences

CONSTANTS
  STACKSZ,   \* bytes of a page
  WORDSZ,    \* bytes of a word
  TOP,       \* size of the process: the end of the stack
  MAXARGS,   \* limit on the arguments
  Argvs      \* arguments: sequences of sequences of characters

VARIABLE stack  \* what the program starts with: memory, esp and the arguments

Char(c) == <<c, -1>>
FakeIp  == -1
Garbage == -2
NoStack == [esp |-> 0, mem |-> <<>>, argv |-> <<>>]
Overrun == [esp |-> 1, mem |-> <<>>, argv |-> <<>>]

\* The addresses that uvm_memcpy can write to: PTE_U is cleared for the guard page.
Mapped == TOP - STACKSZ .. TOP - 1

page_aligndown(a) == (a \div STACKSZ) * STACKSZ

\* Where the copy goes on.
NextPage(vaddr) == page_aligndown(vaddr) + STACKSZ

\* uvm_memcpy, page by page; ok says whether all of them were there.
uvm_memcpy(m, vaddr, buf) ==
  LET loop[k \in 0 .. Len(buf)] ==
        IF k = 0 THEN [mem |-> m.mem, ok |-> m.ok, at |-> vaddr, done |-> 0]
        ELSE LET r == loop[k - 1]
                 n == IF NextPage(r.at) - r.at > Len(buf) - r.done THEN Len(buf) - r.done
                      ELSE NextPage(r.at) - r.at
             IN  IF ~r.ok \/ r.done = Len(buf) THEN r
                 ELSE IF page_aligndown(r.at) \notin Mapped THEN [r EXCEPT !.ok = FALSE]
                 ELSE [r EXCEPT !.at = NextPage(r.at), !.done = @ + n,
                         !.mem = [a \in Mapped |->
                            IF r.at <= a /\ a < r.at + n THEN buf[r.done + a - r.at + 1]
                            ELSE @[a]]]
  IN  [mem |-> loop[Len(buf)].mem, ok |-> loop[Len(buf)].ok]

\* The bytes of a sequence of words.
Words(ws) ==
  [i \in 1 .. WORDSZ * Len(ws) |-> <<ws[(i - 1) \div WORDSZ + 1], (i - 1) % WORDSZ>>]

String(s) == Append([i \in DOMAIN s |-> Char(s[i])], Char(0))

\* The loop over argv: the strings below each other, and the pointers to them.
\* The count is tested before the argument is copied.
CopyArgs(argv) ==
  LET loop[k \in 0 .. Len(argv)] ==
        IF k = 0
        THEN [m |-> [mem |-> [a \in Mapped |-> Char(0)], ok |-> TRUE], sp |-> TOP, ptrs |-> <<>>]
        ELSE LET r  == loop[k - 1]
                 sp == r.sp - (Len(argv[k]) + 1)
             IN  IF ~r.m.ok THEN r
                 ELSE IF k - 1 > MAXARGS THEN [r EXCEPT !.m.ok = FALSE]
                 ELSE [m |-> uvm_memcpy(r.m, sp, String(argv[k])), sp |-> sp,
                       ptrs |-> Append(r.ptrs, sp)]
  IN  loop[Len(argv)]

\* Mutant: the pointer to argv is taken after all of buffer is on the stack.
ArgvAt(sp, argc) == sp - (3 + argc + 1) * WORDSZ

\* buffer[2]: the address that argv will have.
argvptr(sp, argc) == sp - (argc + 1) * WORDSZ

\* The end of exec: buffer goes below the strings.  It has room for MAXARGS
\* arguments, and the test lets one more pass, whose null pointer is stored
\* behind it.
exec(argv) ==
  LET r    == CopyArgs(argv)
      argc == Len(argv)
      sp   == r.sp - (3 + argc + 1) * WORDSZ
      m    == uvm_memcpy(r.m, sp,
                Words(<<FakeIp, argc, argvptr(r.sp, argc)>> \o r.ptrs \o <<0>>))
  IN  stack' = IF ~r.m.ok THEN NoStack
               ELSE IF argc > MAXARGS THEN Overrun
               ELSE IF ~m.ok THEN NoStack
               ELSE [esp |-> sp, mem |-> m.mem, argv |-> argv]

----------------------------------------------------------------------------
(* What the program finds *)

\* A word, as the program reads it; Garbage if its bytes do not belong together.
WordAt(a) ==
  IF \A i \in 0 .. WORDSZ - 1 : a + i \in Mapped /\ stack.mem[a + i] = <<stack.mem[a][1], i>>
  THEN stack.mem[a][1] ELSE Garbage

\* A program that exec has started finds its arguments as the comment in exec
\* draws them: argc, and in argv, which lies above it, a pointer to each string
\* and a null pointer behind the last.  Nothing was written over anything else,
\* whatever the number and the lengths of the arguments, and what does not fit
\* on the page makes exec fail.  One argument too many is the exception.
ArgumentsPassed ==
  LET argc    == Len(stack.argv)
      argv    == WordAt(stack.esp + 2 * WORDSZ)
  IN  stack \in {NoStack, Overrun} \/
      /\ WordAt(stack.esp) = FakeIp
      /\ WordAt(stack.esp + WORDSZ) = argc
      /\ argv = stack.esp + 3 * WORDSZ
      /\ WordAt(argv + argc * WORDSZ) = 0
      /\ \A i \in 1 .. argc : \A k \in 1 .. Len(stack.argv[i]) + 1 :
           stack.mem[WordAt(argv + (i - 1) * WORDSZ) + k - 1] = String(stack.argv[i])[k]
=============================================================================
