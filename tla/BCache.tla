------------------------------- MODULE BCache -------------------------------
(***************************************************************************)
(* The buffer cache (kernel/fs/bcache.c), the disk queue (kernel/fs/disk.c) *)
(* and the requests of the IDE driver (kernel/driver/ide.c), over a disk   *)
(* that is external.                                                       *)
(*                                                                         *)
(* Kernel code is not preempted by other processes and the file system     *)
(* never sleeps, so one caller at a time uses the cache; what it races is  *)
(* the interrupt of the disk.  A pending interrupt is taken before the     *)
(* next step of the caller, except while the kernel boots with interrupts  *)
(* off.                                                                    *)
(***************************************************************************)
EXTENDS Naturals, Sequences

CONSTANTS
  NBUF,     \* number of buffers
  Blocks,   \* the blocks, by device and number
  Super,    \* dev 0, block 0: what a zeroed BNode says, and the super block
  Vals,     \* contents of a block
  Zero,     \* the content of a zeroed buffer
  MaxHeld,  \* how many buffers a caller holds at a time
  NULL

ASSUME BCacheAssumption ==
  /\ NBUF \in Nat \ {0, 1} /\ MaxHeld \in Nat \ {0}
  /\ Super \in Blocks /\ Zero \in Vals /\ NULL \notin Nat \cup Blocks \cup Vals

Bufs == 0 .. NBUF - 1

VARIABLES
  next, prev, head,            \* the list of buffers
  blockno, nref, valid, dirty, cache,
  queue,    \* disk_queue, by qnext
  ctl,      \* the controller: [cmd, blk, data], cmd "idle" when not busy
  irq,      \* its interrupt is pending
  disk,     \* disk[k]: what is on the platter
  booting,  \* interrupts are still off
  held,     \* the buffers the caller has read and not released, newest last
  pc,       \* where the caller is: "run", "enqueue", "request", "spin"
  got,      \* what the last bcache_read has returned: block and content
  stopped   \* "no", "panic", or "loop" for a traversal that never ends

list == <<next, prev, head>>
bufs == <<blockno, nref, valid, dirty, cache>>
vars == <<list, bufs, queue, ctl, irq, disk, booting, held, pc, got, stopped>>

Idle == [cmd |-> "idle", blk |-> Super, data |-> Zero]

----------------------------------------------------------------------------
(* The list *)

\* bcache_init: a ring in the order of the array, with the last at the head.
Init ==
  /\ next = [b \in Bufs |-> (b + 1) % NBUF]
  /\ prev = [b \in Bufs |-> IF b = 0 THEN NBUF - 1 ELSE b - 1]
  /\ head = NBUF - 1
  /\ blockno = [b \in Bufs |-> Super]
  /\ nref  = [b \in Bufs |-> 0]
  /\ valid = [b \in Bufs |-> FALSE]
  /\ dirty = [b \in Bufs |-> FALSE]
  /\ cache = [b \in Bufs |-> Zero]
  /\ queue = <<>> /\ ctl = Idle /\ irq = FALSE
  /\ disk \in [Blocks -> Vals]
  /\ booting = TRUE
  /\ held = <<>> /\ pc = "run" /\ got = <<Super, NULL>> /\ stopped = "no"

\* The buffer that do { ... b = b->next } while (b != head) is at in round i.
At(i) ==
  LET walk[j \in 0 .. NBUF] == IF j = 0 THEN head ELSE next[walk[j - 1]]
  IN  walk[i]

\* The rounds of such a loop: all it can see, if it comes back to the head.
Rounds == {i \in 0 .. NBUF - 1 : \A j \in 1 .. i : At(j) # head}
Closed == \E i \in 1 .. NBUF : At(i) = head

\* The first buffer of S the loop finds, NULL if it meets none.
First(S) ==
  LET hits == {i \in Rounds : At(i) \in S}
  IN  IF hits # {} THEN At(CHOOSE i \in hits : \A j \in hits : i <= j)
      ELSE NULL

\* bcache_free links the buffer in at the head: every assignment in its order.
MoveToHead(b) ==
  LET nx == [next EXCEPT ![prev[b]] = next[b]]
      pv == [prev EXCEPT ![next[b]] = prev[b]]
  IN  /\ next' = [nx EXCEPT ![b] = head]
      /\ prev' = [pv EXCEPT ![b] = pv[head], ![head] = b]
      /\ head' = b

----------------------------------------------------------------------------
(* The disk queue and the controller *)

synced(b) == valid[b] /\ ~dirty[b]

\* disk_cmd_request: ide_wait, then the command, with the data if it writes.
Command(b, dt) ==
  /\ ctl.cmd = "idle"
  /\ ctl' = IF dt THEN [cmd |-> "write", blk |-> blockno[b], data |-> cache[b]]
            ELSE [cmd |-> "read", blk |-> blockno[b], data |-> Zero]

\* External: the disk carries out the command and raises its interrupt.
DiskDone ==
  /\ ctl.cmd # "idle"
  /\ IF ctl.cmd = "read"
     THEN /\ ctl' = [ctl EXCEPT !.cmd = "idle", !.data = disk[ctl.blk]]
          /\ UNCHANGED disk
     ELSE /\ disk' = [disk EXCEPT ![ctl.blk] = ctl.data]
          /\ ctl' = [ctl EXCEPT !.cmd = "idle"]
  /\ irq' = TRUE
  /\ UNCHANGED <<list, bufs, queue, booting, held, pc, got, stopped>>

\* The request of b is done: read_block if it was a read.
Complete(b, reads) ==
  /\ cache' = [cache EXCEPT ![b] = IF reads THEN ctl.data ELSE @]
  /\ valid' = [valid EXCEPT ![b] = TRUE]
  /\ dirty' = [dirty EXCEPT ![b] = FALSE]

\* disk_handler.
Interrupt ==
  /\ stopped = "no" /\ ~booting /\ irq
  /\ irq' = FALSE
  /\ IF queue = <<>>
     THEN UNCHANGED <<valid, dirty, cache, queue, ctl>>
     ELSE /\ Complete(Head(queue), ~dirty[Head(queue)])
          /\ queue' = Tail(queue)
          /\ IF queue' = <<>> THEN UNCHANGED ctl
             ELSE Command(Head(queue'), dirty[Head(queue')])
  /\ UNCHANGED <<list, blockno, nref, disk, booting, held, pc, got, stopped>>

----------------------------------------------------------------------------
(* The caller *)

Runs(l) == stopped = "no" /\ (booting \/ ~irq) /\ pc = l

This == held[Len(held)]

Return == pc' = "run" /\ got' = <<blockno[This], cache[This]>>

\* bcache_acquire, as far as finding the buffer goes: bcache_lookup, and
\* bcache_allocate if the lookup ends without a hit.
Found(k) ==
  LET hit == First({b \in Bufs : blockno[b] = k})
  IN  IF hit # NULL \/ ~Closed THEN hit
      ELSE First({b \in Bufs : nref[b] = 0 /\ ~dirty[b]})

\* bcache_read, up to disk_sync.  The only block read while booting is the
\* super block, once, and it is not read again.
Read(k) ==
  /\ Runs("run") /\ Len(held) < MaxHeld
  /\ booting <=> k = Super
  /\ booting => got[2] = NULL
  /\ LET b == Found(k)
     IN  IF b = NULL
         THEN /\ stopped' = IF Closed THEN "panic" ELSE "loop"
              /\ UNCHANGED <<bufs, held, pc, got>>
         ELSE /\ nref'    = [nref EXCEPT ![b] = @ + 1]
              /\ valid'   = [valid EXCEPT ![b] = @ /\ blockno[b] = k]
              /\ blockno' = [blockno EXCEPT ![b] = k]
              /\ held'    = Append(held, b)
              /\ IF valid'[b]
                 THEN pc' = "run" /\ got' = <<k, cache[b]>>
                 ELSE /\ pc' = IF booting THEN "request" ELSE "enqueue"
                      /\ UNCHANGED got
              /\ UNCHANGED <<dirty, cache, stopped>>
  /\ UNCHANGED <<list, queue, ctl, irq, disk, booting>>

\* The caller changes the newest buffer it holds and calls bcache_write.
Write(v) ==
  /\ Runs("run") /\ ~booting /\ held # <<>>
  /\ cache' = [cache EXCEPT ![This] = v]
  /\ dirty' = [dirty EXCEPT ![This] = TRUE]
  /\ pc' = "enqueue"
  /\ UNCHANGED <<list, blockno, nref, valid, queue, ctl, irq, disk, booting, held,
                 got, stopped>>

\* disk_sync without polling: dq_enqueue, the command, and the busy wait.
Enqueue ==
  /\ Runs("enqueue")
  /\ queue' = Append(queue, This)
  /\ pc' = "request"
  /\ UNCHANGED <<list, bufs, ctl, irq, disk, booting, held, got, stopped>>

Request ==
  /\ Runs("request")
  /\ Command(This, dirty[This])
  /\ pc' = IF booting THEN "poll" ELSE "spin"
  /\ UNCHANGED <<list, bufs, queue, irq, disk, booting, held, got, stopped>>

\* Mutant: disk_sync does not wait.
SpinNot ==
  /\ Runs("spin")
  /\ Return
  /\ UNCHANGED <<list, bufs, queue, ctl, irq, disk, booting, held, stopped>>

Spin ==
  /\ Runs("spin")
  /\ IF synced(This) THEN Return ELSE UNCHANGED <<pc, got>>
  /\ UNCHANGED <<list, bufs, queue, ctl, irq, disk, booting, held, stopped>>

\* disk_sync with polling.
Poll ==
  /\ Runs("poll") /\ ctl.cmd = "idle"
  /\ Complete(This, ~valid[This])
  /\ pc' = "run" /\ got' = <<blockno[This], cache'[This]>>
  /\ UNCHANGED <<list, blockno, nref, queue, ctl, irq, disk, booting, held,
                 stopped>>

\* Mutant: bcache_free leaves the buffer valid.
ReleaseValid ==
  /\ Runs("run") /\ held # <<>>
  /\ nref' = [nref EXCEPT ![This] = @ - 1]
  /\ IF nref[This] = 1
     THEN /\ MoveToHead(This)
          /\ dirty' = [dirty EXCEPT ![This] = FALSE]
          /\ cache' = [cache EXCEPT ![This] = Zero]
     ELSE UNCHANGED <<list, dirty, cache>>
  /\ held' = SubSeq(held, 1, Len(held) - 1)
  /\ UNCHANGED <<blockno, valid, queue, ctl, irq, disk, booting, pc, got, stopped>>

\* bcache_release.
Release ==
  /\ Runs("run") /\ held # <<>>
  /\ nref' = [nref EXCEPT ![This] = @ - 1]
  /\ IF nref[This] = 1
     THEN /\ MoveToHead(This)
          /\ valid' = [valid EXCEPT ![This] = FALSE]
          /\ dirty' = [dirty EXCEPT ![This] = FALSE]
          /\ cache' = [cache EXCEPT ![This] = Zero]
     ELSE UNCHANGED <<list, valid, dirty, cache>>
  /\ held' = SubSeq(held, 1, Len(held) - 1)
  /\ UNCHANGED <<blockno, queue, ctl, irq, disk, booting, pc, got, stopped>>

\* The scheduler's first sti.
Booted ==
  /\ Runs("run") /\ booting /\ held = <<>> /\ got[2] # NULL
  /\ booting' = FALSE
  /\ UNCHANGED <<list, bufs, queue, ctl, irq, disk, held, pc, got, stopped>>

Halted == stopped # "no" /\ UNCHANGED vars

\* Mutant: disk_sync sends the command and puts the buffer in the queue after it.
SyncLate ==
  \/ /\ Runs("enqueue") /\ Command(This, dirty[This]) /\ pc' = "request"
     /\ UNCHANGED <<list, bufs, queue, irq, disk, booting, held, got, stopped>>
  \/ /\ Runs("request") /\ ~booting /\ queue' = Append(queue, This) /\ pc' = "spin"
     /\ UNCHANGED <<list, bufs, ctl, irq, disk, booting, held, got, stopped>>
  \/ booting /\ Request
  \/ Spin \/ Poll

\* disk_sync.
Sync == Enqueue \/ Request \/ Spin \/ Poll

Next ==
  \/ \E k \in Blocks : Read(k)
  \/ \E v \in Vals : Write(v)
  \/ Sync \/ Release \/ Booted
  \/ Interrupt \/ DiskDone
  \/ Halted

Spec == Init /\ [][Next]_vars

\* The CPU executes and the disk answers.
FairSpec == Spec /\ WF_vars(Sync) /\ WF_vars(Interrupt) /\ WF_vars(DiskDone)

----------------------------------------------------------------------------
(* Properties *)

\* There is at most one request, and its buffer is still held and still waits: it
\* is not released, and given to another block, under the interrupt handler.
QueueIsHeld ==
  /\ Len(queue) <= 1
  /\ \A i \in 1 .. Len(queue) : nref[queue[i]] > 0 /\ ~synced(queue[i])

\* What a block contains: the buffer that is being written, or the disk.
Content ==
  [k \in Blocks |->
     IF \E b \in Bufs : dirty[b] /\ blockno[b] = k
     THEN cache[CHOOSE b \in Bufs : dirty[b] /\ blockno[b] = k] ELSE disk[k]]

Store == INSTANCE BlockStore WITH content <- Content, seen <- got

\* bcache_read returns what was last written to the block.
ImplementsStore == Store!BSpec

\* The busy wait of disk_sync ends: the interrupt it waits for arrives and is
\* for its buffer.
RequestsComplete == pc # "run" ~> pc = "run"

\* bcache_free: "Clean up the node and move it to the head of the cache." The
\* cache keeps all its buffers: a traversal meets every one of them.
RingKept == {At(i) : i \in Rounds} = Bufs

----------------------------------------------------------------------------
(* Inductive invariant *)

TypeOK ==
  /\ next \in [Bufs -> Bufs] /\ prev \in [Bufs -> Bufs] /\ head \in Bufs
  /\ blockno \in [Bufs -> Blocks] /\ nref \in [Bufs -> Nat]
  /\ valid \in [Bufs -> BOOLEAN] /\ dirty \in [Bufs -> BOOLEAN]
  /\ cache \in [Bufs -> Vals]
  /\ queue \in Seq(Bufs) /\ held \in Seq(Bufs)
  /\ ctl \in [cmd : {"idle", "read", "write"}, blk : Blocks, data : Vals]
  /\ irq \in BOOLEAN /\ booting \in BOOLEAN
  /\ disk \in [Blocks -> Vals]
  /\ pc \in {"run", "enqueue", "request", "poll", "spin"}
  /\ got \in Blocks \X (Vals \cup {NULL})

\* The buffer that bcache_init leaves at the head.  Its first release, the one of
\* the super block, makes it a ring of its own, and no other buffer is ever used.
Front == NBUF - 1

OneBuffer ==
  /\ head = Front
  /\ \A i \in 1 .. Len(held) : held[i] = Front
  /\ nref[Front] = Len(held)
  /\ \A b \in Bufs \ {Front} : ~dirty[b]

\* The kernel boots: before it reads the super block, while it holds it, after it.
BootStage ==
  /\ booting => \/ /\ got[2] = NULL /\ held = <<>> /\ ~irq
                   /\ blockno[Front] = Super
                   /\ next = [b \in Bufs |-> (b + 1) % NBUF]
                \/ Len(held) = 1 /\ (got[2] = NULL <=> pc # "run")
                \/ held = <<>> /\ got[2] # NULL /\ next[Front] = Front
  /\ booting => ~dirty[Front]
  /\ ~booting => next[Front] = Front

\* The controller carries out the request of the buffer, or has done so.
Busy ==
  /\ ctl.cmd = IF dirty[Front] THEN "write" ELSE "read"
  /\ ctl.blk = blockno[Front] /\ (dirty[Front] => ctl.data = cache[Front])
  /\ ~irq

Done ==
  /\ ctl.cmd = "idle" /\ irq
  /\ IF dirty[Front] THEN disk[blockno[Front]] = cache[Front]
     ELSE ctl.data = disk[blockno[Front]]

Clean == synced(Front) /\ cache[Front] = disk[blockno[Front]]

\* How far the request is, by where the caller is in disk_sync.
RequestStage ==
  /\ pc = "run" => /\ queue = <<>> /\ ctl.cmd = "idle" /\ ~dirty[Front]
                   /\ IF held = <<>> THEN ~valid[Front] ELSE Clean
  /\ pc # "run" => held # <<>>
  /\ pc \in {"enqueue", "request"} =>
       ctl.cmd = "idle" /\ ~irq /\ valid[Front] = dirty[Front]
  /\ pc = "enqueue" => ~booting /\ queue = <<>>
  /\ pc = "request" => queue = IF booting THEN <<>> ELSE <<Front>>
  /\ pc = "poll" => /\ booting /\ queue = <<>> /\ ~valid[Front]
                    /\ Busy \/ Done
  /\ pc = "spin" =>
       /\ ~booting
       /\ \/ /\ queue = <<Front>> /\ valid[Front] = dirty[Front]
             /\ Busy \/ Done
          \/ queue = <<>> /\ ctl.cmd = "idle" /\ ~irq /\ Clean

Inductive == TypeOK /\ OneBuffer /\ BootStage /\ RequestStage
=============================================================================
