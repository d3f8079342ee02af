------------------------------- MODULE Image --------------------------------
(***************************************************************************)
(* From the image to a running program: mkfs lays out the files, the boot  *)
(* loader loads the kernel, the kernel reads and writes the files, and     *)
(* exec loads a program and starts it with its arguments.                  *)
(***************************************************************************)
EXTENDS Contents, Boot, ExecStack

ivars == <<vars, bootvars, stack>>

ImageInit == Init /\ BootInit /\ stack = NoStack

BootStep ==
  /\ todo = <<>> /\ stopped = "no"
  /\ ReadHeader \/ boot3 \/ Enter
  /\ UNCHANGED <<vars, stack>>

\* The calls of a running program, which has its stack to itself.
Call ==
  /\ Entered
  /\ \/ \E f \in {"prog", "new"}, n \in Counts : file_read(f, n) \/ file_write(f, n)
     \/ \E f \in {"prog", "new"} : Reopen(f)
     \/ dir_link
  /\ stack' = NoStack
  /\ UNCHANGED bootvars

\* Bound: the arguments vary in the first call.  The stack does not depend on
\* the calls before it.
ArgvsNow == IF calls = 0 THEN Argvs ELSE {<<>>}

\* exec: the program's segments and then its stack.
Exec ==
  /\ Entered
  /\ \E off \in {0, BSIZE, PAGE_SZ}, n \in Counts : uvm_load(off, n)
  /\ IF got' = NoRead THEN stack' = NoStack ELSE \E argv \in ArgvsNow : exec(argv)
  /\ UNCHANGED bootvars

Done == Halted /\ (stopped # "no" \/ Entered) /\ UNCHANGED <<bootvars, stack>>

ImageNext ==
  \/ MkfsAppend /\ UNCHANGED <<bootvars, stack>>
  \/ BootStep
  \/ Call
  \/ Exec
  \/ Done

ImageSpec == ImageInit /\ [][ImageNext]_ivars
=============================================================================
