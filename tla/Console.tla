------------------------------ MODULE Console ------------------------------
(***************************************************************************)
(* The console in cooked mode (kernel/dev/console.c, the only mode it is   *)
(* ever in): the interrupt handler of the serial line edits a line buffer, *)
(* processes read from it and sleep while it holds no newline.             *)
(*                                                                         *)
(* The steps of sleep() (process.c) are separate actions, because it       *)
(* passes from the lock of the buffer to ptable.lk: an interrupt is taken  *)
(* only while no lock is held.  Each interrupt brings one character:       *)
(* uart_read puts it into an empty ring and console_handler drains it.     *)
(***************************************************************************)
EXTENDS Integers, Sequences

CONSTANTS
  LINE_BUF_SZ,
  Readers,
  Sizes,       \* the sizes n of the reads
  Letters,     \* printable characters that escape sequences do not consist of
  MaxInput,    \* bound on the number of characters that arrive
  NULL

ASSUME ConsoleAssumption ==
  /\ LINE_BUF_SZ \in Nat \ {0} /\ Sizes \subseteq Nat /\ NULL \notin Readers
  /\ Letters \cap {"nl", "bs", "ESC", "ctl", "nul"} = {}

\* Printable characters, Enter (\r or \n), backspace (\b or 0x7f), escape, and a
\* control character.
Printable == Letters \cup {"[", "C", "D"}
Chars == Printable \cup {"nl", "bs", "ESC", "ctl"}

VARIABLES
  data, len, cursor, nnewline,  \* line_buffer
  esc,       \* line_buffer.state
  held,      \* the spinlocks that are held
  cpu,       \* the reader in the kernel and not asleep, or NULL
  pc,        \* pc[r]
  want,      \* want[r]: n of the read
  result,    \* result[r]: what the last read has returned
  ninput,    \* number of characters that have arrived
  panicked

buffer == <<data, len, cursor, nnewline, esc>>
vars   == <<buffer, held, cpu, pc, want, result, ninput, panicked>>

PCs == {"user", "lock", "test", "sleep", "unlock", "commit", "asleep", "woken"}

Init ==
  /\ data = [i \in 0 .. LINE_BUF_SZ - 1 |-> "nul"]
  /\ len = 0 /\ cursor = 0 /\ nnewline = 0
  /\ esc = "NORMAL"
  /\ held = {} /\ cpu = NULL
  /\ pc = [r \in Readers |-> "user"]
  /\ want = [r \in Readers |-> 0]
  /\ result = [r \in Readers |-> <<>>]
  /\ ninput = 0
  /\ panicked = FALSE

----------------------------------------------------------------------------
(* The interrupt handler: console_handler_cooked *)

\* A store outside the array goes to memory the model does not have.
Store(i, c) == data' = [j \in DOMAIN data |-> IF j = i THEN c ELSE data[j]]

\* wakeup(&line_buffer).
Woken == [r \in Readers |-> IF pc[r] = "asleep" THEN "woken" ELSE pc[r]]

\* The terminating zero of a newline stored in the last byte of data falls on
\* line_buffer.lk.locked, which comes next: the unlock at the end then panics.
Newline ==
  /\ data' = [j \in DOMAIN data |-> IF j = len THEN "nl"
                                    ELSE IF j = len + 1 THEN "nul" ELSE data[j]]
  /\ len' = len + 1
  /\ nnewline' = nnewline + 1
  /\ pc' = Woken
  /\ panicked' = (len + 1 = LINE_BUF_SZ)
  /\ UNCHANGED <<cursor, esc>>

\* Mutation: the line is not shortened.
BackspaceCursor ==
  /\ cursor' = IF len > 0 THEN cursor - 1 ELSE cursor
  /\ UNCHANGED <<data, len, nnewline, esc, pc, panicked>>

Backspace ==
  /\ len'    = IF len > 0 THEN len - 1 ELSE len
  /\ cursor' = IF len > 0 THEN cursor - 1 ELSE cursor
  /\ UNCHANGED <<data, nnewline, esc, pc, panicked>>

\* Mutation: a character may take the place of the newline.
InsertToEnd(c) ==
  /\ IF len < LINE_BUF_SZ
     THEN /\ Store(cursor, c)
          /\ cursor' = cursor + 1
          /\ len' = len + 1
     ELSE UNCHANGED <<data, cursor, len>>
  /\ UNCHANGED <<nnewline, esc, pc, panicked>>

Insert(c) ==
  /\ IF len < LINE_BUF_SZ - 1
     THEN /\ Store(cursor, c)
          /\ cursor' = cursor + 1
          /\ len' = len + 1
     ELSE UNCHANGED <<data, cursor, len>>
  /\ UNCHANGED <<nnewline, esc, pc, panicked>>

EscState(s) ==
  /\ esc' = s
  /\ UNCHANGED <<data, len, cursor, nnewline, pc, panicked>>

Arrow(c) ==
  /\ cursor' = CASE c = "D" /\ cursor > 0   -> cursor - 1
                 [] c = "C" /\ cursor < len -> cursor + 1
                 [] OTHER                   -> cursor
  /\ esc' = "NORMAL"
  /\ UNCHANGED <<data, len, nnewline, pc, panicked>>

Handle(c) ==
  IF esc = "ESC" THEN EscState(IF c = "[" THEN "ESC_BRACKET" ELSE "NORMAL")
  ELSE IF esc = "ESC_BRACKET" THEN Arrow(c)
  ELSE
  CASE c = "ESC"       -> EscState("ESC")
    [] c = "nl"        -> Newline
    [] c = "bs"        -> Backspace
    [] c \in Printable -> Insert(c)
    [] OTHER           -> EscState(esc)

Interrupt(c) ==
  /\ ~panicked /\ held = {} /\ ninput < MaxInput
  /\ Handle(c)
  /\ ninput' = ninput + 1
  /\ UNCHANGED <<held, cpu, want, result>>

----------------------------------------------------------------------------
(* console_read_cooked, and the parts of sleep it goes through *)

Running(r, l) == ~panicked /\ cpu = r /\ pc[r] = l

Goto(r, l) == pc' = [pc EXCEPT ![r] = l]

ReadCall(r, n) ==
  /\ ~panicked /\ cpu = NULL /\ pc[r] = "user"
  /\ cpu' = r
  /\ want' = [want EXCEPT ![r] = n]
  /\ Goto(r, "lock")
  /\ UNCHANGED <<buffer, held, result, ninput, panicked>>

Lock(r) ==
  /\ Running(r, "lock")
  /\ held' = {"line"}
  /\ Goto(r, "test")
  /\ UNCHANGED <<buffer, cpu, want, result, ninput, panicked>>

\* while (nnewline == 0) sleep(...)
TestEmpty(r) ==
  /\ Running(r, "test") /\ nnewline = 0
  /\ Goto(r, "sleep")
  /\ UNCHANGED <<buffer, held, cpu, want, result, ninput, panicked>>

\* Mutation: the newline is not copied.
CopiedWithoutNewline(n) ==
  LET top  == IF n < len THEN n ELSE len
      ends == {i \in 1 .. top : data[i - 1] = "nl"}
  IN  IF ends = {} THEN top ELSE (CHOOSE i \in ends : \A j \in ends : i <= j) - 1

\* How much the copy loop copies: up to n bytes, len bytes or a newline.
Copied(n) ==
  LET top  == IF n < len THEN n ELSE len
      ends == {i \in 1 .. top : data[i - 1] = "nl"}
  IN  IF ends = {} THEN top ELSE CHOOSE i \in ends : \A j \in ends : i <= j

\* A line is there: copy it, shift the rest to the front and unlock.
TestFull(r) ==
  /\ Running(r, "test") /\ nnewline # 0
  /\ LET k == Copied(want[r])
     IN  /\ result' = [result EXCEPT ![r] = [i \in 1 .. k |-> data[i - 1]]]
         /\ data' = [i \in DOMAIN data |->
                       IF i + k < len THEN data[i + k] ELSE data[i]]
         /\ len' = len - k
         /\ cursor' = len - k
  /\ nnewline' = nnewline - 1
  /\ held' = {} /\ cpu' = NULL
  /\ Goto(r, "user")
  /\ UNCHANGED <<esc, want, ninput, panicked>>

\* Mutation: the lock of the buffer is released first.
SleepLocksReleaseFirst == <<{}, {"ptable"}>>

\* The locks held after each of the first two steps of sleep(chan, lk):
\* lock(&ptable.lk), then unlock(lk).
SleepLocks == <<{"line", "ptable"}, {"ptable"}>>

SleepLock(r) ==
  /\ Running(r, "sleep")
  /\ held' = SleepLocks[1]
  /\ Goto(r, "unlock")
  /\ UNCHANGED <<buffer, cpu, want, result, ninput, panicked>>

SleepUnlock(r) ==
  /\ Running(r, "unlock")
  /\ held' = SleepLocks[2]
  /\ Goto(r, "commit")
  /\ UNCHANGED <<buffer, cpu, want, result, ninput, panicked>>

\* The process is on the channel, and the scheduler releases ptable.lk.
SleepCommit(r) ==
  /\ Running(r, "commit")
  /\ held' = {} /\ cpu' = NULL
  /\ Goto(r, "asleep")
  /\ UNCHANGED <<buffer, want, result, ninput, panicked>>

\* The scheduler runs it again: unlock(&ptable.lk), and then lock(lk).
Resume(r) ==
  /\ ~panicked /\ cpu = NULL /\ pc[r] = "woken"
  /\ cpu' = r
  /\ Goto(r, "lock")
  /\ UNCHANGED <<buffer, held, want, result, ninput, panicked>>

Halted == panicked /\ UNCHANGED vars

\* The user has stopped typing.
Quiet == ninput = MaxInput /\ UNCHANGED vars

KernelStep(r) ==
  \/ Lock(r) \/ TestEmpty(r) \/ TestFull(r)
  \/ SleepLock(r) \/ SleepUnlock(r) \/ SleepCommit(r) \/ Resume(r)

Next ==
  \/ \E c \in Chars : Interrupt(c)
  \/ \E r \in Readers : KernelStep(r) \/ \E n \in Sizes : ReadCall(r, n)
  \/ Halted \/ Quiet

Spec == Init /\ [][Next]_vars

----------------------------------------------------------------------------
(* Properties *)

TypeOK ==
  /\ data \in [0 .. LINE_BUF_SZ - 1 -> Chars \cup {"nul"}]
  /\ len \in 0 .. LINE_BUF_SZ
  /\ cursor \in Int /\ cursor <= len
  /\ nnewline \in Nat
  /\ esc \in {"NORMAL", "ESC", "ESC_BRACKET"}
  /\ held \subseteq {"line", "ptable"}
  /\ cpu \in Readers \cup {NULL}
  /\ pc \in [Readers -> PCs]
  /\ want \in [Readers -> Sizes \cup {0}]
  /\ result \in [Readers -> Seq(Chars \cup {"nul"})]
  /\ ninput \in Nat
  /\ panicked \in BOOLEAN

\* A reader that was asleep when Enter is pressed gets out of its read, or
\* another reader took the line.
ReaderServed ==
  \A r \in Readers :
    pc[r] # "user" /\ nnewline > 0 ~> pc[r] = "user" \/ nnewline = 0 \/ panicked
=============================================================================
