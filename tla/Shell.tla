------------------------------- MODULE Shell --------------------------------
(***************************************************************************)
(* The shell (melon/sh.c) on the console, under init (melon/init.c): it    *)
(* reads a line, parses it on a heap that it gets by sbrk, and forks.      *)
(*                                                                         *)
(* Shell 1 is the one that init has started; run_cmd does nothing, so a    *)
(* child goes on as the next shell.  Shell s is reader s of the console.   *)
(* The heap is counted in words.                                           *)
(***************************************************************************)
EXTENDS Console, Text

CONSTANTS
  BUF_SZ,   \* bytes of the line buffer
  NARGS,    \* words of a command
  Keys      \* what the user types

ASSUME ShellAssumption == BUF_SZ \in Nat \ {0, 1} /\ NARGS \in Nat \ {0} /\ Keys \subseteq Chars

VARIABLES
  job,      \* job[s]: what shell s is about to do
  buf,      \* buf[s]: st.buf, up to its end
  heap,     \* heap[s]: size of the process beyond its size at the start
  st,       \* st[s]: st.allocated
  parent,   \* parent[s]: who has forked shell s
  ahead,    \* something was typed before the last line was read (not in the program)
  nomem,    \* sbrk has failed (not in the program)
  down      \* init has exited, and the system with it

shvars == <<job, buf, heap, st, parent, ahead, nomem, down>>

Jobs == {"none", "prompt", "read", "gets", "parse", "fork", "wait", "zombie"}

ShellInit ==
  /\ Init
  /\ job = [s \in Readers |-> IF s = 1 THEN "prompt" ELSE "none"]
  /\ buf = [s \in Readers |-> <<>>]
  /\ heap = [s \in Readers |-> 0]
  /\ st = [s \in Readers |-> 0]
  /\ parent = [s \in Readers |-> 0]
  /\ ahead = FALSE /\ nomem = FALSE /\ down = FALSE

----------------------------------------------------------------------------
(* The parser.  c is the state: the buffer with the NULs that mark the ends of
   words, its size, the index p, and the words allocated. *)

Whitespace == {" ", "nl"}
Symbols    == {"|", "&", ";", "(", ")"}

NoCmd == <<0>>   \* a null pointer
Stray == "stray"

\* The character at p.  The bytes behind the line are cleared, up to the end of
\* the buffer.
CharAt(c) == IF c.p <= Len(c.buf) THEN c.buf[c.p] ELSE IF c.p <= c.size THEN "nul" ELSE Stray

RECURSIVE Skipped(_, _)
Skipped(c, set) == IF CharAt(c) \in set THEN Skipped([c EXCEPT !.p = @ + 1], set) ELSE c

skip_whitespaces(c) == Skipped(c, Whitespace)

parse_word(c) ==
  LET b == skip_whitespaces(c)
      e == Skipped(b, (Printable \cup Letters) \ (Whitespace \cup Symbols))
  IN  [c |-> [e EXCEPT !.buf = [k \in DOMAIN @ |-> IF k = e.p THEN "nul" ELSE @[k]]],
       begin |-> b.p]

\* Mutant: the last pointer is kept for a null pointer.
TooManyArgsEarly(i) == i >= NARGS - 1

\* The fourth word is stored behind the command, the fifth is refused.
TooManyArgs(i) == i > NARGS

\* The loop of parse_exec.  The character behind a word is skipped, whatever it
\* was.
RECURSIVE ParseArgs(_, _)
ParseArgs(c, argv) ==
  LET w == parse_word(c)
  IN  IF CharAt(c) \in Symbols \cup {"nul", Stray} THEN [c |-> c, cmd |-> argv]
      ELSE IF TooManyArgs(Len(argv)) THEN [c |-> c, cmd |-> NoCmd]
      ELSE ParseArgs(skip_whitespaces([w.c EXCEPT !.p = @ + 1]), Append(argv, w.begin))

parse_exec(c) == ParseArgs([c EXCEPT !.words = @ + NARGS + 1], <<>>)

\* A pipeline is the sequence of its commands, a sequence that of its pipelines.
RECURSIVE parse_pipe(_)
parse_pipe(c0) ==
  LET e == parse_exec(c0)
      c == skip_whitespaces(e.c)
      r == parse_pipe([c EXCEPT !.p = @ + 1, !.words = @ + 3])
  IN  IF CharAt(c) = "|" THEN [c |-> r.c, cmd |-> <<e.cmd>> \o r.cmd]
      ELSE [c |-> c, cmd |-> <<e.cmd>>]

RECURSIVE parse_seq(_)
parse_seq(c0) ==
  LET e == parse_pipe(c0)
      c == skip_whitespaces(e.c)
      r == parse_seq([c EXCEPT !.p = @ + 1, !.words = @ + 3])
  IN  IF CharAt(c) = ";" THEN [c |-> r.c, cmd |-> <<e.cmd>> \o r.cmd]
      ELSE [c |-> c, cmd |-> <<e.cmd>>]

parse_cmd(line, size) ==
  parse_seq(skip_whitespaces([buf |-> line, size |-> size, p |-> 1, words |-> 0]))

\* A line of the grammar in sh.c: words between the symbols ; and |, as a
\* sequence of sequences of sequences of words.
Grammar(line) ==
  LET pipes == Pieces(line, {";"})
  IN  [i \in DOMAIN pipes |->
         LET execs == Pieces(pipes[i], {"|"}) IN [j \in DOMAIN execs |-> WordsOf(execs[j], Whitespace)]]

\* The command that the parser returns: each word goes from its pointer to the
\* first NUL in the buffer.
Parsed(r) ==
  LET word(b) == LET rest == SubSeq(r.c.buf, b, Len(r.c.buf)) IN Pieces(rest, {"nul"})[1]
  IN  [i \in DOMAIN r.cmd |-> [j \in DOMAIN r.cmd[i] |->
         [k \in DOMAIN r.cmd[i][j] |-> word(r.cmd[i][j][k])]]]

\* What the parser can parse: no symbol directly behind a word, none that only
\* blanks separate from the one before it, a word at the end, and no more words
\* than a command has room for.
Regular(line) ==
  LET execs == Pieces(line, {";", "|"})
  IN  /\ \A i \in DOMAIN line : line[i] \notin {"&", "(", ")"}
      /\ \A i \in DOMAIN execs :
           LET n == Len(WordsOf(execs[i], Whitespace))
           IN  /\ n <= NARGS
               /\ n = 0 => i = 1 \/ (execs[i] = <<>> /\ i # Len(execs))
               /\ n > 0 /\ i # Len(execs) => Last(execs[i]) \in Whitespace

----------------------------------------------------------------------------
(* main *)

Idle(s, j) == ~panicked /\ ~down /\ job[s] = j

Become(s, j) == job' = [job EXCEPT ![s] = j]

\* Mutant: what was allocated is forgotten and not given back.
FreedForgotten(s) == heap[s]

\* free: sbrk(-st.allocated).
Freed(s) == heap[s] - st[s]

\* next_line: clear.
Clear(s) ==
  /\ Idle(s, "prompt")
  /\ buf' = [buf EXCEPT ![s] = <<>>]
  /\ heap' = [heap EXCEPT ![s] = Freed(s)]
  /\ st' = [st EXCEPT ![s] = 0]
  /\ Become(s, "read")
  /\ UNCHANGED <<vars, parent, ahead, nomem, down>>

\* gets: read(0, gets_buf, sizeof(gets_buf)).
Read(s) ==
  /\ Idle(s, "read")
  /\ ReadCall(s, BUF_SZ)
  /\ Become(s, "gets")
  /\ UNCHANGED <<buf, heap, st, parent, ahead, nomem, down>>

\* The characters that gets takes from what it has read; the others are lost.
Taken(line, new) ==
  LET top  == IF Len(new) < BUF_SZ - 1 - Len(line) THEN Len(new) ELSE BUF_SZ - 1 - Len(line)
      ends == {i \in 1 .. top : new[i] = "nl"}
  IN  IF ends = {} THEN SubSeq(new, 1, top)
      ELSE SubSeq(new, 1, CHOOSE i \in ends : \A j \in ends : i <= j)

\* The rest of gets, and the test in next_line.  Without a character, main
\* returns, to an address where nothing is mapped, and the process is killed.
Gets(s) ==
  /\ Idle(s, "gets") /\ pc[s] = "user" /\ cpu = NULL
  /\ LET line == buf[s] \o Taken(buf[s], result[s])
         full == Len(line) = BUF_SZ - 1
         more == result[s] # <<>> /\ ~full /\ "nl" \notin {line[i] : i \in DOMAIN line}
     IN  /\ buf' = [buf EXCEPT ![s] = line]
         /\ Become(s, IF more THEN "read"
                      ELSE IF line = <<>> \/ line[1] = "nul" THEN "zombie" ELSE "parse")
  /\ UNCHANGED <<vars, heap, st, parent, ahead, nomem, down>>

\* parse_cmd, when sbrk succeeds.
Parse(s) ==
  /\ Idle(s, "parse")
  /\ LET r == parse_cmd(buf[s], BUF_SZ)
     IN  /\ heap' = [heap EXCEPT ![s] = @ + r.c.words]
         /\ st' = [st EXCEPT ![s] = @ + r.c.words]
         /\ Become(s, IF r.cmd = <<<<NoCmd>>>> THEN "prompt" ELSE "fork")
  /\ UNCHANGED <<vars, buf, parent, ahead, nomem, down>>

\* sbrk fails, returns what happens to be in eax, and the store there faults.
ParseFault(s) ==
  /\ Idle(s, "parse") /\ ~nomem
  /\ nomem' = TRUE
  /\ Become(s, "zombie")
  /\ UNCHANGED <<vars, buf, heap, st, parent, ahead, down>>

\* Mutant: the parent does not wait.
ParentGoesOn == "prompt"

\* What a parent does when it has forked.
Parent == "wait"

\* fork: the child has a copy of all that is the parent's.  When it fails, wait
\* has nobody to wait for.
Fork(s) ==
  /\ Idle(s, "fork")
  /\ LET free == {c \in Readers : job[c] = "none"}
     IN  IF free = {} THEN Become(s, "prompt") /\ UNCHANGED <<buf, heap, st, parent>>
         ELSE \E c \in free :
                /\ \A d \in free : c <= d
                /\ job' = [job EXCEPT ![c] = "prompt", ![s] = Parent]
                /\ buf' = [buf EXCEPT ![c] = buf[s]]
                /\ heap' = [heap EXCEPT ![c] = heap[s]]
                /\ st' = [st EXCEPT ![c] = st[s]]
                /\ parent' = [parent EXCEPT ![c] = s]
  /\ UNCHANGED <<vars, ahead, nomem, down>>

\* wait returns when the child is gone.
Wait(s) ==
  /\ Idle(s, "wait")
  /\ \E c \in Readers :
       /\ job[c] = "zombie" /\ parent[c] = s
       /\ job' = [job EXCEPT ![c] = "none", ![s] = "prompt"]
  /\ UNCHANGED <<vars, buf, heap, st, parent, ahead, nomem, down>>

\* init: its shell is gone, wait returns its pid, and init goes too.
InitWait ==
  /\ Idle(1, "zombie")
  /\ down' = TRUE
  /\ UNCHANGED <<vars, job, buf, heap, st, parent, ahead, nomem>>

----------------------------------------------------------------------------

\* A key, and the interrupt that it makes.
Type(c) ==
  /\ ~down
  /\ Interrupt(c)
  /\ ahead' = (ahead \/ nnewline > 0)
  /\ UNCHANGED <<job, buf, heap, st, parent, nomem, down>>

ShellNext ==
  \/ \E c \in Keys : Type(c)
  \/ \E s \in Readers :
       \/ Clear(s) \/ Read(s) \/ Gets(s) \/ Parse(s) \/ ParseFault(s) \/ Fork(s) \/ Wait(s)
       \/ ~down /\ KernelStep(s) /\ UNCHANGED shvars
  \/ InitWait
  \/ (Halted \/ Quiet \/ (down /\ UNCHANGED vars)) /\ UNCHANGED shvars

----------------------------------------------------------------------------
(* Properties *)

\* Of the shells that one line after the other leaves behind, each waits for
\* the next, and only the last one reads the console: no line goes to a shell
\* that the user does not talk to.
OneShellReads ==
  \A s, t \in Readers :
    job[s] \notin {"none", "wait", "zombie"} /\ job[t] \notin {"none", "zombie"} /\ s # t =>
      job[t] = "wait"

\* A shell has the heap that it has counted, whoever allocated it: a child gives
\* back what its parent allocated for the line before, and a failed parse leaves
\* nothing.
HeapCounted ==
  \A s \in Readers : job[s] # "none" =>
    heap[s] = st[s] /\ (job[s] \in {"read", "gets"} => heap[s] = 0)

\* The system stays up as long as nothing is typed ahead and sbrk does not fail:
\* no line that a user can type makes a shell see the end of its input, however
\* long it is.  Typed ahead, a character replaces the newline in the buffer but
\* not in the count of newlines, a later read returns nothing, and a shell ends.
StaysUp == (\E s \in Readers : job[s] = "zombie") \/ down => ahead \/ nomem
=============================================================================
