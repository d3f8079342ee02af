----------------------------- MODULE MCConsole -----------------------------
(* Console for TLC, with what the user sees of the line as they type it. *)
EXTENDS Console

VARIABLES
  typed,   \* the line as typed: printable characters, less those taken back
  plain    \* nothing was typed after Enter, no escape sequence, and no read has
           \* taken a part of the line (or nothing of it, for a size of 0)

mcvars == <<vars, typed, plain>>

MCInit == Init /\ typed = <<>> /\ plain = TRUE

\* What the character c does to the line on the screen.
Typed(c) ==
  CASE c = "nl"        -> Append(typed, "nl")
    [] c = "bs"        -> SubSeq(typed, 1, Len(typed) - 1)
    [] c \in Printable -> IF Len(typed) < LINE_BUF_SZ - 1
                          THEN Append(typed, c) ELSE typed
    [] OTHER           -> typed

MCInterrupt(c) ==
  /\ Interrupt(c)
  /\ typed' = Typed(c)
  /\ plain' = (plain /\ nnewline = 0 /\ c # "ESC" /\ esc = "NORMAL")

\* Once the buffer is empty a new line begins.
MCRead(r) ==
  /\ KernelStep(r)
  /\ IF len' = 0 /\ len # 0 /\ nnewline' = 0
     THEN typed' = <<>> /\ plain' = TRUE
     ELSE UNCHANGED typed /\ plain' = (plain /\ nnewline' = nnewline)

MCNext ==
  \/ \E c \in Chars : MCInterrupt(c)
  \/ \E r \in Readers : MCRead(r)
  \/ /\ \E r \in Readers, n \in Sizes : ReadCall(r, n)
     /\ UNCHANGED <<typed, plain>>
  \/ (Halted \/ Quiet) /\ UNCHANGED <<typed, plain>>

\* The kernel code of a reader that can run goes on running (round robin); the
\* user and the readers in user mode promise nothing.
MCSpec == MCInit /\ [][MCNext]_mcvars /\ \A r \in Readers : WF_mcvars(MCRead(r))

\* When nothing is typed ahead, a large enough read returns the line as it was
\* edited, and leaves the buffer empty.
LineDelivered ==
  [][\A r \in Readers : TestFull(r) /\ plain /\ want[r] >= Len(typed) =>
       result'[r] = typed /\ len' = 0]_mcvars

\* As long as nothing is typed after Enter and no arrow is used, the buffer is the
\* line the user sees, and the handler stores inside of it: only the zero behind
\* an Enter that fills the buffer is outside.  (Otherwise cursor may be negative:
\* backspace moves it with len, wherever it is.)
BufferIsLine ==
  plain => /\ typed = [i \in 1 .. len |-> data[i - 1]]
           /\ cursor = len - nnewline /\ cursor \in DOMAIN data
           /\ panicked = (len = LINE_BUF_SZ)

----------------------------------------------------------------------------
(* Inductive invariant *)

\* Where the newline is in a line that is plain, and that only the handler's last
\* byte stops the machine.
Line ==
  /\ panicked <=> len = LINE_BUF_SZ
  /\ plain =>
       /\ typed = [i \in 1 .. len |-> data[i - 1]] /\ cursor = len - nnewline
       /\ \/ nnewline = 0 /\ len < LINE_BUF_SZ
             /\ \A i \in 0 .. len - 1 : data[i] # "nl"
          \/ nnewline = 1 /\ len > 0 /\ data[len - 1] = "nl"
             /\ \A i \in 0 .. len - 2 : data[i] # "nl"

Inductive == TypeOK /\ plain \in BOOLEAN /\ Line
=============================================================================
