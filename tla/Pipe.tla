-------------------------------- MODULE Pipe --------------------------------
(***************************************************************************)
(* A pipe: kernel/pipe.c.  Its lock is held, and so the interrupts are off *)
(* and no other process runs, from the start of a call to its end or to    *)
(* the point where it sleeps, and again from there: each such portion is   *)
(* one action.  The counters are unsigned and wrap at COUNTERS (2^32 in    *)
(* the code).  Neither end is ever closed: nothing calls pipe_close.  No   *)
(* process is killed while it is in the kernel.                            *)
(***************************************************************************)
EXTENDS Naturals, Sequences

CONSTANTS
  PIPESZ,    \* size of the ring buffer
  COUNTERS,  \* number of values of nread and nwritten
  Readers, Writers,
  Bytes,
  Sizes      \* the sizes n of the calls

\* PIPESZ is a power of 2, as the number of counter values is.  A process that
\* both reads and writes is one of each: it is in one call at a time.
ASSUME PipeAssumption ==
  /\ PIPESZ \in Nat \ {0} /\ COUNTERS \in Nat
  /\ PIPESZ < COUNTERS /\ COUNTERS % PIPESZ = 0
  /\ Sizes \subseteq Nat /\ Readers \cap Writers = {}

VARIABLES
  data,      \* the ring buffer
  nread, nwritten,
  status,    \* status[p]: "idle", or asleep or woken inside a call
  src,       \* src[w]: what is left of buf in the pipe_write of w
  want,      \* want[r]: n of the pipe_read of r
  buf,       \* buf[r]: what the last pipe_read of r has copied
  panicked   \* a kassert has failed

vars == <<data, nread, nwritten, status, src, want, buf, panicked>>

Texts == UNION {[1 .. n -> Bytes] : n \in Sizes}

Min(a, b) == IF a < b THEN a ELSE b

Init ==
  /\ data \in [0 .. PIPESZ - 1 -> Bytes]
  /\ nread = 0 /\ nwritten = 0
  /\ status = [p \in Readers \cup Writers |-> "idle"]
  /\ src  = [w \in Writers |-> <<>>]
  /\ want = [r \in Readers |-> 0]
  /\ buf  = [r \in Readers |-> <<>>]
  /\ panicked = FALSE

\* Bytes between the counters, in unsigned arithmetic.
Used == (nwritten + COUNTERS - nread) % COUNTERS

Full  == nwritten = (nread + PIPESZ) % COUNTERS
Empty == nread = nwritten

\* Mutation: nobody is woken.
StatusNoWakeup(p, s, sleepers) == [status EXCEPT ![p] = s]

\* wakeup(&pipe->nread) or wakeup(&pipe->nwritten), after p has status s.
Status(p, s, sleepers) ==
  [x \in Readers \cup Writers |->
     IF x = p THEN s
     ELSE IF x \in sleepers /\ status[x] = "asleep" THEN "woken" ELSE status[x]]

\* The loop of pipe_write over the rest s of its bytes: up to the end, or until
\* the pipe is full, where it wakes the readers and sleeps.
Write(w, s) ==
  LET k == Min(Len(s), PIPESZ - Used)
  IN  /\ data' = [i \in 0 .. PIPESZ - 1 |->
           LET j == CHOOSE m \in 1 .. PIPESZ : (nwritten + m - 1) % PIPESZ = i
           IN  IF j <= k THEN s[j] ELSE data[i]]
      /\ nwritten' = (nwritten + k) % COUNTERS
      /\ src' = [src EXCEPT ![w] = SubSeq(s, k + 1, Len(s))]
      /\ status' = Status(w, IF k < Len(s) THEN "asleep" ELSE "idle", Readers)
      /\ UNCHANGED <<nread, want, buf, panicked>>

\* Mutation: the first byte read is the one after nread.
ReadNext(r, n) ==
  /\ ~Empty
  /\ LET k == Min(n, Used)
     IN  /\ buf' = [buf EXCEPT ![r] =
              [i \in 1 .. k |-> data[(nread + i) % PIPESZ]]]
         /\ nread' = (nread + k) % COUNTERS
  /\ want' = [want EXCEPT ![r] = 0]
  /\ status' = Status(r, "idle", Writers)
  /\ UNCHANGED <<data, nwritten, src, panicked>>

\* The loops of pipe_read for n bytes.
Read(r, n) ==
  IF Empty
  THEN /\ status' = [status EXCEPT ![r] = "asleep"]
       /\ want' = [want EXCEPT ![r] = n]
       /\ UNCHANGED <<data, nread, nwritten, src, buf, panicked>>
  ELSE LET k == Min(n, Used)
       IN  /\ buf' = [buf EXCEPT ![r] =
                [i \in 1 .. k |-> data[(nread + i - 1) % PIPESZ]]]
           /\ nread' = (nread + k) % COUNTERS
           /\ want' = [want EXCEPT ![r] = 0]
           /\ status' = Status(r, "idle", Writers)
           /\ UNCHANGED <<data, nwritten, src, panicked>>

\* kassert(pipe->nread <= pipe->nwritten), at the start of both calls.
Asserted(A) ==
  IF nread <= nwritten
  THEN A
  ELSE /\ panicked' = TRUE
       /\ UNCHANGED <<data, nread, nwritten, status, src, want, buf>>

WriteCall(w, s) ==
  /\ ~panicked /\ status[w] = "idle"
  /\ Asserted(Write(w, s))

WriteWoken(w) ==
  /\ ~panicked /\ status[w] = "woken"
  /\ Write(w, src[w])

ReadCall(r, n) ==
  /\ ~panicked /\ status[r] = "idle"
  /\ Asserted(Read(r, n))

ReadWoken(r) ==
  /\ ~panicked /\ status[r] = "woken"
  /\ Read(r, want[r])

Halted == panicked /\ UNCHANGED vars

Next ==
  \/ \E w \in Writers : WriteWoken(w) \/ \E s \in Texts : WriteCall(w, s)
  \/ \E r \in Readers : ReadWoken(r) \/ \E n \in Sizes : ReadCall(r, n)
  \/ Halted

Spec == Init /\ [][Next]_vars

\* The scheduler runs whoever is woken; the readers keep reading and the
\* writers keep writing.
Fairness ==
  /\ \A w \in Writers : /\ WF_vars(WriteWoken(w))
                         /\ WF_vars(\E s \in Texts \ {<<>>} : WriteCall(w, s))
  /\ \A r \in Readers : /\ WF_vars(ReadWoken(r))
                         /\ WF_vars(\E n \in Sizes \ {0} : ReadCall(r, n))

FairSpec == Spec /\ Fairness

----------------------------------------------------------------------------
(* Properties *)

TypeOK ==
  /\ data \in [0 .. PIPESZ - 1 -> Bytes]
  /\ nread \in 0 .. COUNTERS - 1 /\ nwritten \in 0 .. COUNTERS - 1
  /\ Used \in 0 .. PIPESZ
  /\ status \in [Readers \cup Writers -> {"idle", "asleep", "woken"}]
  /\ src  \in [Writers -> Seq(Bytes)]
  /\ want \in [Readers -> Sizes \cup {0}]
  /\ buf  \in [Readers -> Seq(Bytes)]
  /\ panicked \in BOOLEAN

\* The bytes in the ring, oldest first.
Contents == [i \in 1 .. Used |-> data[(nread + i - 1) % PIPESZ]]

Queue == INSTANCE ByteQueue WITH Cap <- PIPESZ, q <- Contents, todo <- src,
                                 got <- buf

\* The ring buffer with its two counters behaves as a queue of PIPESZ bytes, for
\* several readers and writers, also where the counters wrap around.
ImplementsQueue == Queue!QSpec

\* No wakeup is lost: a reader is asleep only while the pipe is empty, a writer
\* only while it is full, so the two never wait for each other.
NoLostWakeup ==
  /\ \A r \in Readers : status[r] = "asleep" => Empty
  /\ \A w \in Writers : status[w] = "asleep" => Full

\* What is inside a call: a writer while it has bytes left, a reader that has asked
\* for something.  With TypeOK it makes NoLostWakeup inductive and lets the pipe
\* implement the queue (PipeProofs).
CallsInProgress ==
  /\ \A w \in Writers : status[w] = "idle" <=> src[w] = <<>>
  /\ \A r \in Readers : status[r] # "idle" => want[r] \in Sizes

Inductive == TypeOK /\ NoLostWakeup /\ CallsInProgress

\* Nobody sleeps for ever in a pipe that both sides keep using, the writer of
\* more than the ring holds included.
SleepersWoken ==
  \A p \in Readers \cup Writers :
    status[p] = "asleep" ~> status[p] # "asleep" \/ panicked
=============================================================================
