---------------------------- MODULE BCacheProofs ----------------------------
(***************************************************************************)
(* Proofs about the buffer cache: for every number of buffers, of blocks   *)
(* and of contents, the interrupt of the disk finds the buffer it is for,  *)
(* and a read returns what was last written.                               *)
(***************************************************************************)
EXTENDS BCache, SequenceTheorems, WellFoundedInduction, TLAPS

----------------------------------------------------------------------------
(* The traversals of the list *)

\* The constants, and the buffer at the head.
LEMMA Constants ==
  /\ NBUF \in Nat /\ NBUF > 1 /\ MaxHeld \in Nat \ {0}
  /\ Super \in Blocks /\ Zero \in Vals
  /\ NULL \notin Nat /\ NULL \notin Blocks /\ NULL \notin Vals
  /\ Front \in Bufs /\ Bufs \subseteq Nat /\ NULL \notin Bufs
BY BCacheAssumption DEF Front, Bufs

\* A walk is what its equation says if there is a function that satisfies it.
LEMMA WalkEquation ==
  ASSUME NEW g, g = [j \in 0 .. NBUF |-> IF j = 0 THEN head ELSE next[g[j - 1]]]
  PROVE  At(0) = head /\ \A i \in 1 .. NBUF : At(i) = next[At(i - 1)]
<1>. DEFINE walk == CHOOSE f : f = [j \in 0 .. NBUF |-> IF j = 0 THEN head ELSE next[f[j - 1]]]
<1>1. walk = [j \in 0 .. NBUF |-> IF j = 0 THEN head ELSE next[walk[j - 1]]]
  OBVIOUS
<1>2. \A i : At(i) = walk[i]
  BY DEF At
<1>. HIDE DEF walk
<1>3. 0 \in 0 .. NBUF /\ \A i \in 1 .. NBUF : i \in 0 .. NBUF /\ i # 0
  BY Constants
<1>. QED  BY <1>1, <1>2, <1>3

\* The list of bcache_init.
LEMMA FirstRing ==
  ASSUME head = Front, next = [b \in Bufs |-> (b + 1) % NBUF]
  PROVE  At(0) = head
<1>. DEFINE g == [j \in 0 .. NBUF |-> IF j = 0 THEN head ELSE j - 1]
            h == [j \in 0 .. NBUF |-> IF j = 0 THEN head ELSE next[g[j - 1]]]
<1>1. ASSUME NEW j \in 1 .. NBUF PROVE next[g[j - 1]] = j - 1
  <2>1. CASE j = 1
    <3>1. g[j - 1] = NBUF - 1
      BY <2>1, Constants DEF Front
    <3>2. (NBUF - 1) + 1 = NBUF /\ NBUF % NBUF = 0
      BY Constants
    <3>. QED  BY <2>1, <3>1, <3>2, Constants DEF Front, Bufs
  <2>2. CASE j > 1
    <3>1. g[j - 1] = j - 2 /\ j - 2 \in Bufs
      BY <2>2, Constants DEF Bufs
    <3>2. (j - 2) + 1 = j - 1 /\ (j - 1) % NBUF = j - 1
      BY <2>2, Constants
    <3>. QED  BY <3>1, <3>2
  <2>. QED  BY <2>1, <2>2, Constants
<1>2. g = [j \in 0 .. NBUF |-> IF j = 0 THEN head ELSE next[g[j - 1]]]
  <2>0. \A j \in 0 .. NBUF : j # 0 => j \in 1 .. NBUF
    BY Constants
  <2>. HIDE DEF g
  <2>1. \A j \in 0 .. NBUF : j # 0 => next[g[j - 1]] = j - 1
    BY <1>1, <2>0
  <2>2. \A j \in 0 .. NBUF : h[j] = g[j]
    BY <2>1 DEF g
  <2>. QED  BY <2>2 DEF g, h
<1>. QED  BY <1>2, WalkEquation

\* A buffer that is its own successor is all that a traversal from it meets.
LEMMA RingOfOne ==
  ASSUME head = Front, next[Front] = Front
  PROVE  \A i \in 0 .. NBUF : At(i) = Front
<1>. DEFINE g == [j \in 0 .. NBUF |-> Front]
<1>1. g = [j \in 0 .. NBUF |-> IF j = 0 THEN head ELSE next[g[j - 1]]]
  <2>1. \A j \in 0 .. NBUF : j # 0 => g[j - 1] = Front
    BY Constants
  <2>. QED  BY <2>1
<1>2. At(0) = Front /\ \A i \in 1 .. NBUF : At(i) = next[At(i - 1)]
  BY <1>1, WalkEquation
<1>. DEFINE S == {i \in 0 .. NBUF : At(i) # Front}
<1>3. SUFFICES ASSUME S # {} PROVE FALSE
  OBVIOUS
<1>4. S \in SUBSET Nat
  BY Constants
<1>5. PICK x \in S : \A y \in S : ~ (<<y, x>> \in OpToRel(<, Nat))
  BY <1>3, <1>4, NatLessThanWellFounded, WFMin
<1>6. \A y \in S : ~ (y < x)
  BY <1>4, <1>5, Zenon DEF OpToRel
<1>7. x \in 0 .. NBUF /\ x # 0 /\ At(x) # Front
  BY <1>2
<1>8. x - 1 \in 0 .. NBUF /\ x - 1 < x /\ x \in 1 .. NBUF
  BY <1>7, Constants
<1>9. At(x - 1) = Front
  BY <1>6, <1>8
<1>. QED  BY <1>2, <1>7, <1>8, <1>9

\* What the loops find: the head, if it is what they look for, in both lists.
LEMMA FirstAtHead ==
  ASSUME At(0) = head, NEW S, head \in S
  PROVE  First(S) = head
<1>. DEFINE hits == {i \in Rounds : At(i) \in S}
<1>1. 0 \in hits
  BY Constants DEF Rounds
<1>2. \A i \in hits : i \in Nat
  BY Constants DEF Rounds
<1>3. (CHOOSE i \in hits : \A j \in hits : i <= j) = 0
  <2>1. \A j \in hits : 0 <= j
    BY <1>2
  <2>. HIDE DEF hits
  <2>2. PICK i \in hits : i = CHOOSE k \in hits : \A j \in hits : k <= j
    BY <1>1, <2>1
  <2>3. \A j \in hits : i <= j
    BY <1>1, <2>1, <2>2
  <2>4. i = 0
    BY <1>1, <1>2, <2>1, <2>3
  <2>. QED  BY <2>2, <2>4
<1>. QED  BY <1>1, <1>3 DEF First

\* In a ring of one buffer, no search finds another.
LEMMA FirstOfOne ==
  ASSUME \A i \in 0 .. NBUF : At(i) = Front, NEW S, Front \notin S
  PROVE  First(S) = NULL
<1>1. \A i \in Rounds : At(i) \notin S
  BY Constants DEF Rounds
<1>. QED  BY <1>1 DEF First

\* The buffer that bcache_acquire finds is the one at the head, or none.
LEMMA FoundIsFront ==
  ASSUME TypeOK, OneBuffer, BootStage, NEW k \in Blocks,
         booting => k = Super /\ held = <<>> /\ got[2] = NULL
  PROVE  \/ Found(k) = NULL
         \/ Found(k) = Front /\ (blockno[Front] = k \/ (nref[Front] = 0 /\ ~dirty[Front]))
<1>. DEFINE S == {b \in Bufs : blockno[b] = k}
            F == {b \in Bufs : nref[b] = 0 /\ ~dirty[b]}
<1>0. head = Front /\ Front \in Bufs /\ NULL # Front
  BY Constants DEF OneBuffer
<1>1. CASE booting
  <2>1. blockno[Front] = k /\ next = [b \in Bufs |-> (b + 1) % NBUF]
    BY <1>1, Constants, EmptySeq DEF BootStage
  <2>2. First(S) = Front
    BY <1>0, <2>1, FirstRing, FirstAtHead
  <2>. QED  BY <1>0, <2>1, <2>2 DEF Found
<1>2. CASE ~booting
  <2>1. \A i \in 0 .. NBUF : At(i) = Front
    BY <1>0, <1>2, RingOfOne DEF BootStage
  <2>2. At(0) = head /\ Closed
    BY <1>0, <2>1, Constants DEF Closed
  <2>3. \A T : First(T) = IF Front \in T THEN Front ELSE NULL
    BY <1>0, <2>1, <2>2, FirstAtHead, FirstOfOne
  <2>4. Found(k) = IF Front \in S THEN Front ELSE First(F)
    BY <1>0, <2>2, <2>3 DEF Found
  <2>. QED  BY <1>0, <2>3, <2>4
<1>. QED  BY <1>1, <1>2

----------------------------------------------------------------------------
(* Every step keeps the invariant *)

\* The buffer the caller works with.
LEMMA ThisIsFront ==
  ASSUME TypeOK, OneBuffer, held # <<>>
  PROVE  This = Front /\ Len(held) \in Nat \ {0}
<1>1. Len(held) \in Nat \ {0}
  BY EmptySeq DEF TypeOK
<1>. QED  BY <1>1 DEF OneBuffer, This

\* The content of the cache is of no matter to the list and to the references.
LEMMA SameList ==
  ASSUME OneBuffer, UNCHANGED <<list, nref, held>>,
         \A b \in Bufs \ {Front} : dirty'[b] = dirty[b]
  PROVE  OneBuffer'
BY DEF OneBuffer, list

\* A step that leaves the boot variables alone keeps what the boot stage says.
LEMMA SameBoot ==
  ASSUME BootStage, UNCHANGED <<list, blockno, booting, held, got, pc>>,
         irq' => irq \/ ~booting \/ held # <<>>, dirty'[Front] => dirty[Front]
  PROVE  BootStage'
BY DEF BootStage, list

\* Each step of the cache and the driver keeps the invariant: disk_sync queues the
\* buffer,
LEMMA EnqueueKeeps == Inductive /\ Enqueue => Inductive'
<1>. SUFFICES ASSUME Inductive, Enqueue PROVE Inductive'
  OBVIOUS
<1>. USE DEF Inductive
<1>0. held # <<>> /\ This = Front /\ queue = <<>> /\ pc = "enqueue"
  BY ThisIsFront DEF Enqueue, Runs, RequestStage
<1>1. queue' = <<Front>> /\ pc' = "request"
  BY <1>0 DEF Enqueue
<1>2. TypeOK'
  BY <1>1, Constants DEF Enqueue, TypeOK, bufs, list
<1>3. OneBuffer'
  BY SameList DEF Enqueue, bufs
<1>4. ~booting /\ booting' = booting
  BY <1>0 DEF Enqueue, RequestStage
<1>5. BootStage'
  BY <1>4 DEF Enqueue, bufs, list, BootStage
<1>6. RequestStage'
  BY <1>0, <1>1, <1>4 DEF Enqueue, bufs, RequestStage
<1>. QED  BY <1>2, <1>3, <1>5, <1>6

\* sends its command,
LEMMA RequestKeeps == Inductive /\ Request => Inductive'
<1>. SUFFICES ASSUME Inductive, Request PROVE Inductive'
  OBVIOUS
<1>. USE DEF Inductive
<1>0. /\ held # <<>> /\ This = Front /\ ~irq /\ pc = "request"
      /\ valid[Front] = dirty[Front]
      /\ queue = IF booting THEN <<>> ELSE <<Front>>
  BY ThisIsFront DEF Request, Runs, RequestStage
<1>1. /\ pc' = IF booting THEN "poll" ELSE "spin"
      /\ ctl' = IF dirty[Front]
                THEN [cmd |-> "write", blk |-> blockno[Front], data |-> cache[Front]]
                ELSE [cmd |-> "read", blk |-> blockno[Front], data |-> Zero]
  BY <1>0 DEF Request, Command
<1>2. TypeOK'
  BY <1>1, Constants DEF Request, TypeOK, bufs, list
<1>3. OneBuffer'
  BY SameList DEF Request, bufs
<1>4. BootStage'
  BY <1>0, <1>1 DEF Request, bufs, list, BootStage
<1>5. Busy'
  BY <1>0, <1>1 DEF Request, bufs, Busy
<1>6. booting => ~dirty[Front]
  BY DEF BootStage
<1>7. RequestStage'
  BY <1>0, <1>1, <1>5, <1>6 DEF Request, bufs, RequestStage
<1>. QED  BY <1>2, <1>3, <1>4, <1>7

\* and looks at its flags until the interrupt handler has set them,
LEMMA SpinKeeps == Inductive /\ Spin => Inductive'
<1>. SUFFICES ASSUME Inductive, Spin PROVE Inductive'
  OBVIOUS
<1>. USE DEF Inductive
<1>0. held # <<>> /\ This = Front /\ ~irq /\ pc = "spin" /\ ~booting
  BY ThisIsFront DEF Spin, Runs, RequestStage
<1>1. UNCHANGED <<list, bufs, queue, ctl, irq, disk, booting, held>>
  BY DEF Spin
<1>2. CASE ~synced(Front)
  <2>1. UNCHANGED <<pc, got>>
    BY <1>0, <1>2 DEF Spin
  <2>. QED  BY <1>1, <2>1 DEF TypeOK, OneBuffer, BootStage, RequestStage, Busy, Done,
               Clean,
                              synced, bufs, list
<1>3. CASE synced(Front)
  <2>1. pc' = "run" /\ got' = <<blockno[Front], cache[Front]>>
    BY <1>0, <1>3 DEF Spin, Return
  <2>2. queue = <<>> /\ ctl.cmd = "idle" /\ Clean
    BY <1>0, <1>3 DEF RequestStage, synced
  <2>3. TypeOK'
    BY <1>1, <2>1, Constants DEF TypeOK, bufs, list
  <2>4. OneBuffer'
    BY <1>1, SameList DEF bufs
  <2>5. BootStage'
    BY <1>0, <1>1 DEF BootStage, list, bufs
  <2>6. RequestStage'
    BY <1>0, <1>1, <1>3, <2>1, <2>2 DEF RequestStage, bufs, Clean, synced
  <2>. QED  BY <2>3, <2>4, <2>5, <2>6
<1>. QED  BY <1>2, <1>3

\* or, at boot, transfers the block itself.
LEMMA PollKeeps == Inductive /\ Poll => Inductive'
<1>. SUFFICES ASSUME Inductive, Poll PROVE Inductive'
  OBVIOUS
<1>. USE DEF Inductive
<1>0. /\ held # <<>> /\ This = Front /\ pc = "poll" /\ booting
      /\ Len(held) \in Nat \ {0}
      /\ queue = <<>> /\ ~valid[Front] /\ ~dirty[Front] /\ Done
  BY ThisIsFront DEF Poll, Runs, RequestStage, Busy, BootStage
<1>1. /\ valid' = [valid EXCEPT ![Front] = TRUE]
      /\ dirty' = [dirty EXCEPT ![Front] = FALSE]
      /\ cache' = [cache EXCEPT ![Front] = ctl.data]
      /\ ctl.data = disk[blockno[Front]] /\ ctl.data \in Vals
  BY <1>0 DEF Poll, Complete, Done, TypeOK
<1>2. pc' = "run" /\ got' = <<blockno[Front], ctl.data>>
  BY <1>0, <1>1, Constants DEF Poll, TypeOK
<1>3. UNCHANGED <<list, blockno, nref, queue, ctl, irq, disk, booting, held, stopped>>
  BY DEF Poll
<1>4. TypeOK'
  BY <1>1, <1>2, <1>3, Constants DEF TypeOK, list
<1>5. OneBuffer'
  BY <1>1, <1>3, SameList DEF TypeOK
<1>6. got'[2] # NULL
  BY <1>1, <1>2, Constants
<1>7. Len(held) = 1
  BY <1>0, EmptySeq DEF BootStage
<1>8. /\ dirty'[Front] = FALSE /\ valid'[Front] = TRUE
      /\ cache'[Front] = disk[blockno[Front]]
  BY <1>1, Constants DEF TypeOK
<1>9. BootStage'
  BY <1>2, <1>3, <1>6, <1>7, <1>8 DEF BootStage, list
<1>10. RequestStage'
  BY <1>0, <1>2, <1>3, <1>8 DEF RequestStage, Clean, synced, Done
<1>. QED  BY <1>4, <1>5, <1>9, <1>10

\* bcache_write marks the buffer it holds.
LEMMA WriteKeeps ==
  ASSUME Inductive, NEW v \in Vals, Write(v)
  PROVE  Inductive'
<1>. USE DEF Inductive
<1>0. held # <<>> /\ This = Front /\ ~booting /\ ~irq /\ pc = "run"
  BY ThisIsFront DEF Write, Runs
<1>1. cache' = [cache EXCEPT ![Front] = v] /\ dirty' = [dirty EXCEPT ![Front] = TRUE]
  BY <1>0 DEF Write
<1>2. /\ UNCHANGED <<list, blockno, nref, valid, queue, ctl, irq, disk, booting, held, got>>
      /\ pc' = "enqueue"
  BY DEF Write
<1>3. TypeOK'
  BY <1>1, <1>2, Constants DEF TypeOK, list
<1>4. OneBuffer'
  BY <1>1, <1>2, SameList DEF TypeOK
<1>5. BootStage'
  BY <1>0, <1>2 DEF BootStage, list
<1>6. dirty'[Front] = TRUE /\ valid[Front]
  BY <1>0, <1>1, Constants DEF TypeOK, RequestStage, Clean, synced
<1>7. RequestStage'
  BY <1>0, <1>2, <1>6 DEF RequestStage, TypeOK
<1>. QED  BY <1>3, <1>4, <1>5, <1>7

\* bcache_release, where the head is linked to itself.
LEMMA ReleaseKeeps == Inductive /\ Release => Inductive'
<1>. SUFFICES ASSUME Inductive, Release PROVE Inductive'
  OBVIOUS
<1>. USE DEF Inductive
<1>0. /\ held # <<>> /\ This = Front /\ pc = "run" /\ Len(held) \in Nat \ {0}
      /\ nref[Front] = Len(held) /\ head = Front
  BY ThisIsFront DEF Release, Runs, OneBuffer
<1>1. /\ UNCHANGED <<blockno, queue, ctl, irq, disk, booting, pc, got, stopped>>
      /\ nref' = [nref EXCEPT ![Front] = Len(held) - 1]
      /\ held' = SubSeq(held, 1, Len(held) - 1)
  BY <1>0 DEF Release
<1>2. /\ held' \in Seq(Bufs) /\ Len(held') = Len(held) - 1
      /\ \A i \in 1 .. Len(held') : held'[i] = held[i]
  BY <1>0, <1>1, SubSeqProperties DEF TypeOK
<1>3. /\ \A i \in 1 .. Len(held') : held'[i] = Front
      /\ nref' \in [Bufs -> Nat] /\ nref'[Front] = Len(held')
  BY <1>0, <1>1, <1>2, Constants DEF TypeOK, OneBuffer
<1>4. queue = <<>> /\ ctl.cmd = "idle" /\ ~dirty[Front] /\ Clean
  BY <1>0 DEF RequestStage
<1>5. held' = <<>> <=> Len(held) = 1
  BY <1>0, <1>2, EmptySeq
<1>6. booting => Len(held) = 1 /\ got[2] # NULL
  BY <1>0, EmptySeq DEF BootStage
<1>7. CASE Len(held) = 1
  <2>1. /\ MoveToHead(Front)
        /\ valid' = [valid EXCEPT ![Front] = FALSE]
        /\ dirty' = [dirty EXCEPT ![Front] = FALSE]
        /\ cache' = [cache EXCEPT ![Front] = Zero]
    BY <1>0, <1>7 DEF Release
  <2>2. /\ next' \in [Bufs -> Bufs] /\ prev' \in [Bufs -> Bufs]
        /\ next'[Front] = Front /\ head' = Front
    BY <1>0, <2>1, Constants DEF MoveToHead, TypeOK
  <2>3. TypeOK'
    BY <1>1, <1>2, <1>3, <2>1, <2>2, Constants DEF TypeOK
  <2>4. OneBuffer'
    BY <1>3, <2>1, <2>2 DEF OneBuffer, TypeOK
  <2>5. ~dirty'[Front] /\ ~valid'[Front]
    BY <2>1, Constants DEF TypeOK
  <2>6. BootStage'
    BY <1>1, <1>5, <1>6, <1>7, <2>2, <2>5 DEF BootStage
  <2>7. RequestStage'
    BY <1>0, <1>1, <1>4, <1>5, <1>7, <2>5 DEF RequestStage
  <2>. QED  BY <2>3, <2>4, <2>6, <2>7
<1>8. CASE Len(held) # 1
  <2>1. UNCHANGED <<list, valid, dirty, cache>>
    BY <1>0, <1>8 DEF Release
  <2>2. TypeOK'
    BY <1>1, <1>2, <1>3, <2>1 DEF TypeOK, list
  <2>3. OneBuffer'
    BY <1>3, <2>1 DEF OneBuffer, list
  <2>4. BootStage'
    BY <1>1, <1>6, <1>8, <2>1 DEF BootStage, list
  <2>5. RequestStage'
    BY <1>0, <1>1, <1>4, <1>5, <1>8, <2>1 DEF RequestStage, Clean, synced
  <2>. QED  BY <2>2, <2>3, <2>4, <2>5
<1>. QED  BY <1>7, <1>8

\* The end of the boot.
LEMMA BootedKeeps == Inductive /\ Booted => Inductive'
<1>. SUFFICES ASSUME Inductive, Booted PROVE Inductive'
  OBVIOUS
<1>. USE DEF Inductive
<1>0. pc = "run" /\ booting /\ ~booting' /\ held = <<>> /\ got[2] # NULL
  BY DEF Booted, Runs
<1>1. UNCHANGED <<list, bufs, queue, ctl, irq, disk, held, pc, got>>
  BY DEF Booted
<1>2. TypeOK'
  BY <1>0, <1>1 DEF TypeOK, list, bufs, Booted
<1>3. OneBuffer'
  BY <1>1, SameList DEF bufs
<1>4. BootStage'
  BY <1>0, <1>1, EmptySeq DEF BootStage, list, bufs
<1>5. RequestStage'
  BY <1>0, <1>1 DEF RequestStage, bufs
<1>. QED  BY <1>2, <1>3, <1>4, <1>5

\* bcache_read takes a buffer, or finds none.
LEMMA ReadKeeps ==
  ASSUME Inductive, NEW k \in Blocks, Read(k)
  PROVE  Inductive'
<1>. USE DEF Inductive
<1>0. /\ pc = "run" /\ (booting <=> k = Super) /\ (booting => got[2] = NULL)
      /\ (booting \/ ~irq)
      /\ UNCHANGED <<list, queue, ctl, irq, disk, booting>>
      /\ queue = <<>> /\ ctl.cmd = "idle" /\ ~dirty[Front]
  BY DEF Read, Runs, RequestStage
<1>1. booting => held = <<>> /\ ~irq
  BY <1>0, EmptySeq DEF BootStage
<1>2. CASE Found(k) = NULL
  <2>1. UNCHANGED <<bufs, held, pc, got>>
    BY <1>2 DEF Read
  <2>. QED  BY <1>0, <2>1 DEF TypeOK, OneBuffer, BootStage, RequestStage, Busy, Done,
               Clean,
                              synced, bufs, list
<1>3. CASE Found(k) # NULL
  <2>0. Found(k) = Front /\ (blockno[Front] = k \/ (nref[Front] = 0 /\ ~dirty[Front]))
    BY <1>0, <1>1, <1>3, FoundIsFront
  <2>1. /\ nref'    = [nref EXCEPT ![Front] = @ + 1]
        /\ valid'   = [valid EXCEPT ![Front] = @ /\ blockno[Front] = k]
        /\ blockno' = [blockno EXCEPT ![Front] = k]
        /\ held'    = Append(held, Front)
        /\ UNCHANGED <<dirty, cache>>
    BY <1>3, <2>0 DEF Read
  <2>2. IF valid'[Front] THEN pc' = "run" /\ got' = <<k, cache[Front]>>
        ELSE pc' = (IF booting THEN "request" ELSE "enqueue") /\ got' = got
    BY <1>3, <2>0 DEF Read
  <2>3. valid'[Front] = (valid[Front] /\ blockno[Front] = k) /\ blockno'[Front] = k
    BY <2>1, Constants DEF TypeOK
  <2>4. /\ held' \in Seq(Bufs) /\ Len(held') = Len(held) + 1 /\ Len(held) \in Nat
        /\ \A i \in 1 .. Len(held') : held'[i] = Front
    BY <2>1, Constants DEF TypeOK, OneBuffer
  <2>5. /\ valid' \in [Bufs -> BOOLEAN] /\ nref' \in [Bufs -> Nat]
        /\ blockno' \in [Bufs -> Blocks]
        /\ pc' \in {"run", "enqueue", "request", "poll", "spin"}
    <3>1. valid' \in [Bufs -> BOOLEAN]
      BY <2>1, Constants DEF TypeOK
    <3>2. nref' \in [Bufs -> Nat] /\ blockno' \in [Bufs -> Blocks]
      BY <2>1, Constants DEF TypeOK
    <3>3. pc' \in {"run", "enqueue", "request", "poll", "spin"}
      BY <2>2
    <3>. QED  BY <3>1, <3>2, <3>3
  <2>6. got' \in Blocks \X (Vals \cup {NULL})
    <3>1. PICK v \in Vals : v = cache[Front]
      BY Constants DEF TypeOK
    <3>2. got' = got \/ got' = <<k, v>>
      BY <2>2, <3>1
    <3>. QED  BY <3>2 DEF TypeOK
  <2>7. TypeOK'
    BY <1>0, <2>1, <2>4, <2>5, <2>6 DEF TypeOK, list
  <2>8. OneBuffer'
    BY <1>0, <2>1, <2>4, Constants DEF TypeOK, OneBuffer, list
  <2>9. held' # <<>>
    BY <2>4, EmptySeq
  <2>10. booting => Len(held') = 1 /\ ~valid[Front]
    BY <1>0, <1>1, <2>4, EmptySeq DEF RequestStage
  <2>11. BootStage'
    BY <1>0, <2>1, <2>2, <2>3, <2>10, Constants DEF BootStage, list
  <2>12. valid[Front] => cache[Front] = disk[blockno[Front]]
    BY <1>0 DEF RequestStage, Clean
  <2>13. CASE valid'[Front]
    <3>1. pc' = "run" /\ Clean'
      BY <1>0, <2>1, <2>2, <2>3, <2>12, <2>13 DEF Clean, synced
    <3>. QED  BY <1>0, <2>1, <2>7, <2>8, <2>9, <2>11, <3>1 DEF RequestStage
  <2>14. CASE ~valid'[Front]
    <3>1. RequestStage'
      BY <1>0, <1>1, <2>1, <2>2, <2>3, <2>7, <2>9, <2>14 DEF RequestStage, TypeOK
    <3>. QED  BY <2>7, <2>8, <2>11, <3>1
  <2>. QED  BY <2>13, <2>14
<1>. QED  BY <1>2, <1>3

\* The disk has done the command and raises its interrupt.
LEMMA DiskDoneKeeps == Inductive /\ DiskDone => Inductive'
<1>. SUFFICES ASSUME Inductive, DiskDone PROVE Inductive'
  OBVIOUS
<1>. USE DEF Inductive
<1>0. /\ ctl.cmd # "idle" /\ irq' = TRUE
      /\ UNCHANGED <<list, bufs, queue, booting, held, pc, got>>
  BY DEF DiskDone
<1>1. Busy /\ held # <<>> /\ pc \in {"poll", "spin"}
  BY <1>0 DEF RequestStage, TypeOK, Done
<1>2. blockno[Front] \in Blocks /\ cache[Front] \in Vals
  BY Constants DEF TypeOK
<1>3. ctl'.cmd = "idle" /\ ctl' \in [cmd : {"idle"}, blk : Blocks, data : Vals]
  <2>1. ctl.blk \in Blocks /\ disk[ctl.blk] \in Vals
    BY DEF TypeOK
  <2>2. \/ ctl' = [ctl EXCEPT !.cmd = "idle", !.data = disk[ctl.blk]]
        \/ ctl' = [ctl EXCEPT !.cmd = "idle"]
    BY DEF DiskDone
  <2>. QED  BY <2>1, <2>2 DEF TypeOK
<1>4. disk' \in [Blocks -> Vals]
  BY <1>0 DEF DiskDone, TypeOK
<1>5. TypeOK'
  BY <1>0, <1>3, <1>4 DEF TypeOK, list, bufs
<1>6. OneBuffer' /\ BootStage'
  BY <1>0, <1>1, SameList, SameBoot DEF bufs
<1>7. Done'
  <2>1. CASE dirty[Front]
    <3>1. disk' = [disk EXCEPT ![blockno[Front]] = cache[Front]]
      BY <1>1, <2>1 DEF DiskDone, Busy
    <3>2. disk'[blockno[Front]] = cache[Front]
      BY <1>2, <3>1 DEF TypeOK
    <3>. QED  BY <1>0, <1>3, <2>1, <3>2 DEF Done, bufs
  <2>2. CASE ~dirty[Front]
    <3>1. ctl' = [ctl EXCEPT !.cmd = "idle", !.data = disk[ctl.blk]] /\ disk' = disk
      BY <1>1, <2>2 DEF DiskDone, Busy
    <3>2. ctl'.data = disk[blockno[Front]]
      BY <1>1, <3>1 DEF TypeOK, Busy
    <3>. QED  BY <1>0, <1>3, <2>2, <3>1, <3>2 DEF Done, bufs
  <2>. QED  BY <2>1, <2>2
<1>8. RequestStage'
  BY <1>0, <1>1, <1>7 DEF RequestStage, bufs
<1>. QED  BY <1>5, <1>6, <1>8

\* disk_handler runs with the request that disk_sync waits for, or with none.
LEMMA InterruptKeeps == Inductive /\ Interrupt => Inductive'
<1>. SUFFICES ASSUME Inductive, Interrupt PROVE Inductive'
  OBVIOUS
<1>. USE DEF Inductive
<1>0. /\ ~booting /\ irq /\ irq' = FALSE
      /\ UNCHANGED <<list, blockno, nref, disk, booting, held, pc, got>>
  BY DEF Interrupt
<1>1. CASE queue = <<>>
  <2>1. UNCHANGED <<valid, dirty, cache, queue, ctl>>
    BY <1>1 DEF Interrupt
  <2>2. pc = "run"
    BY <1>0, <1>1 DEF RequestStage, TypeOK
  <2>3. TypeOK'
    BY <1>0, <2>1 DEF TypeOK, list
  <2>4. OneBuffer' /\ BootStage'
    BY <1>0, <2>1, SameList, SameBoot
  <2>5. RequestStage'
    BY <1>0, <2>1, <2>2 DEF RequestStage, Clean, synced
  <2>. QED  BY <2>3, <2>4, <2>5
<1>2. CASE queue # <<>>
  <2>1. pc = "spin" /\ queue = <<Front>> /\ Done /\ valid[Front] = dirty[Front]
    BY <1>0, <1>2 DEF RequestStage, TypeOK, Busy
  <2>2. Head(queue) = Front /\ Tail(queue) = <<>>
    BY <2>1
  <2>3. /\ cache' = [cache EXCEPT ![Front] = IF ~dirty[Front] THEN ctl.data ELSE @]
        /\ valid' = [valid EXCEPT ![Front] = TRUE]
        /\ dirty' = [dirty EXCEPT ![Front] = FALSE]
        /\ queue' = <<>> /\ ctl' = ctl
    BY <1>2, <2>2 DEF Interrupt, Complete
  <2>4. valid'[Front] /\ ~dirty'[Front] /\ cache'[Front] = disk[blockno[Front]]
    BY <2>1, <2>3, Constants DEF TypeOK, Done
  <2>5. /\ cache' \in [Bufs -> Vals] /\ queue' \in Seq(Bufs)
        /\ valid' \in [Bufs -> BOOLEAN] /\ dirty' \in [Bufs -> BOOLEAN]
    BY <2>3, Constants DEF TypeOK
  <2>6. TypeOK'
    BY <1>0, <2>3, <2>5 DEF TypeOK, list
  <2>7. OneBuffer' /\ BootStage'
    BY <1>0, <2>3, <2>4, SameList, SameBoot DEF TypeOK
  <2>8. RequestStage'
    BY <1>0, <2>1, <2>3, <2>4 DEF RequestStage, Done, Clean, synced
  <2>. QED  BY <2>6, <2>7, <2>8
<1>. QED  BY <1>1, <1>2

\* The boot starts with the invariant.
LEMMA InductiveInit == Init => Inductive
<1>. SUFFICES ASSUME Init PROVE Inductive
  OBVIOUS
<1>1. \A b \in Bufs : (b + 1) % NBUF \in Bufs
  BY Constants DEF Bufs
<1>2. \A b \in Bufs : (IF b = 0 THEN NBUF - 1 ELSE b - 1) \in Bufs
  BY Constants DEF Bufs
<1>3. TypeOK
  <2>1. /\ next \in [Bufs -> Bufs] /\ prev \in [Bufs -> Bufs] /\ head \in Bufs
    BY <1>1, <1>2, Constants DEF Init, Front
  <2>2. /\ ctl \in [cmd : {"idle", "read", "write"}, blk : Blocks, data : Vals]
        /\ got \in Blocks \X (Vals \cup {NULL})
    BY Constants DEF Init, Idle
  <2>3. /\ blockno \in [Bufs -> Blocks] /\ nref \in [Bufs -> Nat]
        /\ valid \in [Bufs -> BOOLEAN] /\ dirty \in [Bufs -> BOOLEAN]
        /\ cache \in [Bufs -> Vals] /\ disk \in [Blocks -> Vals]
    BY Constants DEF Init
  <2>4. /\ queue \in Seq(Bufs) /\ held \in Seq(Bufs) /\ irq \in BOOLEAN
        /\ booting \in BOOLEAN /\ pc \in {"run", "enqueue", "request", "poll", "spin"}
    BY EmptySeq DEF Init
  <2>. QED  BY <2>1, <2>2, <2>3, <2>4 DEF TypeOK
<1>4. OneBuffer
  BY Constants DEF Init, OneBuffer, Front
<1>5. BootStage
  BY Constants DEF Init, BootStage
<1>6. RequestStage
  BY Constants DEF Init, RequestStage, Idle
<1>. QED  BY <1>3, <1>4, <1>5, <1>6 DEF Inductive

\* All the steps together.
LEMMA InductiveStep == Inductive /\ [Next]_vars => Inductive'
<1>. SUFFICES ASSUME Inductive, [Next]_vars PROVE Inductive'
  OBVIOUS
<1>1. CASE UNCHANGED vars
  BY <1>1 DEF Inductive, vars, list, bufs, TypeOK, OneBuffer, BootStage, RequestStage,
              Busy, Done, Clean, synced
<1>. QED  BY <1>1, EnqueueKeeps, RequestKeeps, SpinKeeps, PollKeeps, WriteKeeps,
             ReleaseKeeps, BootedKeeps, ReadKeeps, DiskDoneKeeps, InterruptKeeps
          DEF Next, Sync, Halted

\* All requests go through the one buffer that the first release leaves in the list,
\* and the queue, the controller and the interrupt agree on how far each one is.
THEOREM CacheInvariant == Spec => []Inductive
BY InductiveInit, InductiveStep, PTL DEF Spec

\* The buffer of a request is held and waits until disk_handler is done with it:
\* at most one is queued, in every interleaving of disk_sync and the interrupt.
THEOREM RequestHeld == Spec => []QueueIsHeld
<1>1. Inductive => QueueIsHeld
  <2>. SUFFICES ASSUME Inductive PROVE QueueIsHeld
    OBVIOUS
  <2>1. CASE queue = <<>>
    BY <2>1 DEF QueueIsHeld
  <2>2. CASE queue # <<>>
    <3>1. queue = <<Front>> /\ held # <<>> /\ valid[Front] = dirty[Front]
      BY <2>2 DEF Inductive, RequestStage, TypeOK
    <3>2. nref[Front] > 0
      <4>1. Len(held) \in Nat \ {0}
        BY <3>1, ThisIsFront, Zenon DEF Inductive
      <4>2. nref[Front] = Len(held)
        BY Zenon DEF Inductive, OneBuffer
      <4>. QED  BY <4>1, <4>2
    <3>. QED  BY <3>1, <3>2 DEF QueueIsHeld, synced
  <2>. QED  BY <2>1, <2>2
<1>. QED  BY <1>1, CacheInvariant, PTL

----------------------------------------------------------------------------
(* The cache implements blocks that keep what was written *)

\* What a block contains, with the one buffer that is ever dirty.
LEMMA ContentValue ==
  TypeOK /\ OneBuffer =>
    Content = [k \in Blocks |-> IF dirty[Front] /\ blockno[Front] = k THEN cache[Front]
                                ELSE disk[k]]
<1>. SUFFICES ASSUME TypeOK, OneBuffer, NEW k \in Blocks
              PROVE  Content[k] = IF dirty[Front] /\ blockno[Front] = k THEN cache[Front]
                                  ELSE disk[k]
  BY DEF Content
<1>1. \A b \in Bufs : dirty[b] => b = Front
  BY DEF OneBuffer
<1>2. CASE dirty[Front] /\ blockno[Front] = k
  <2>1. Front \in Bufs
    BY Constants
  <2>2. (CHOOSE b \in Bufs : dirty[b] /\ blockno[b] = k) = Front
    BY <1>1, <1>2, <2>1
  <2>. QED  BY <1>2, <2>1, <2>2 DEF Content
<1>3. CASE ~ (dirty[Front] /\ blockno[Front] = k)
  BY <1>1, <1>3 DEF Content
<1>. QED  BY <1>2, <1>3

\* The first state is one of the store of blocks.
LEMMA StoreInit == Init => Store!BInit
<1>. SUFFICES ASSUME Init PROVE Store!BInit
  OBVIOUS
<1>1. ~dirty[Front] /\ disk \in [Blocks -> Vals] /\ got = <<Super, NULL>>
  BY Constants DEF Init
<1>2. Content = [k \in Blocks |-> disk[k]]
  BY <1>1, InductiveInit, ContentValue DEF Inductive
<1>. QED  BY <1>1, <1>2, Constants DEF Store!BInit

\* A write is a Put, a read that returns is a Get, and the rest changes nothing.
LEMMA StoreStep ==
  Inductive /\ [Next]_vars => [Store!BNext]_(Store!bvars)
<1>. SUFFICES ASSUME Inductive, [Next]_vars
              PROVE  Store!BNext \/ UNCHANGED <<Content, got>>
  BY DEF Store!bvars
<1>0. /\ Content = [k \in Blocks |-> IF dirty[Front] /\ blockno[Front] = k
                                     THEN cache[Front] ELSE disk[k]]
      /\ blockno[Front] \in Blocks
  BY ContentValue, Constants DEF Inductive, TypeOK
<1>1. Inductive'
  BY InductiveStep
<1>2. (TypeOK /\ OneBuffer)'
  BY <1>1 DEF Inductive
<1>3. Content' = [k \in Blocks |-> IF dirty'[Front] /\ blockno'[Front] = k
                                   THEN cache'[Front] ELSE disk'[k]]
  <2>1. (Content = [k \in Blocks |-> IF dirty[Front] /\ blockno[Front] = k
                                     THEN cache[Front] ELSE disk[k]])'
    BY <1>2, ContentValue, PTL
  <2>. QED  BY <2>1 DEF Front
<1>4. ASSUME UNCHANGED <<blockno, disk>>, ~dirty[Front], ~dirty'[Front]
      PROVE  UNCHANGED Content
  BY <1>0, <1>3, <1>4
<1>5. ASSUME NEW v \in Vals, Write(v) PROVE Store!BNext
  <2>1. held # <<>> /\ This = Front /\ pc = "run" /\ ~dirty[Front]
    BY <1>5, ThisIsFront DEF Write, Runs, Inductive, RequestStage
  <2>2. /\ cache' = [cache EXCEPT ![Front] = v]
        /\ dirty' = [dirty EXCEPT ![Front] = TRUE]
        /\ UNCHANGED <<blockno, disk, got>>
    BY <1>5, <2>1 DEF Write
  <2>3. cache'[Front] = v /\ dirty'[Front]
    BY <2>2, Constants DEF Inductive, TypeOK
  <2>4. Content' = [Content EXCEPT ![blockno[Front]] = v]
    BY <1>0, <1>3, <2>1, <2>2, <2>3
  <2>. QED  BY <1>0, <2>2, <2>4 DEF Store!BNext, Store!Put
<1>6. ASSUME NEW k \in Blocks, got' = <<k, disk[k]>>, UNCHANGED disk,
             ~dirty[Front], ~dirty'[Front]
      PROVE  Store!BNext
  <2>1. UNCHANGED Content /\ Content[k] = disk[k]
    BY <1>0, <1>3, <1>6
  <2>. QED  BY <1>6, <2>1 DEF Store!BNext, Store!Get
<1>7. ASSUME NEW k \in Blocks, Read(k)
      PROVE  Store!BNext \/ UNCHANGED <<Content, got>>
  <2>1. /\ pc = "run" /\ (booting <=> k = Super) /\ (booting => got[2] = NULL)
        /\ UNCHANGED disk /\ ~dirty[Front]
        /\ IF held = <<>> THEN ~valid[Front] ELSE Clean
    BY <1>7 DEF Read, Runs, Inductive, RequestStage
  <2>2. booting => held = <<>>
    BY <2>1, EmptySeq DEF BootStage, Inductive
  <2>3. CASE Found(k) = NULL
    BY <1>4, <1>7, <2>1, <2>3 DEF Read, bufs
  <2>4. CASE Found(k) # NULL
    <3>0. Found(k) = Front
      BY <1>7, <2>1, <2>2, <2>4, FoundIsFront DEF Inductive
    <3>1. /\ valid'   = [valid EXCEPT ![Front] = @ /\ blockno[Front] = k]
          /\ UNCHANGED <<dirty, cache>>
          /\ IF valid'[Front] THEN got' = <<k, cache[Front]>> ELSE got' = got
      BY <1>7, <2>4, <3>0 DEF Read
    <3>2. valid'[Front] = (valid[Front] /\ blockno[Front] = k)
      BY <3>1, Constants DEF Inductive, TypeOK
    <3>3. CASE valid'[Front]
      <4>1. cache[Front] = disk[k]
        BY <2>1, <3>2, <3>3 DEF Clean
      <4>. QED  BY <1>6, <2>1, <3>1, <3>3, <4>1
    <3>4. CASE ~valid'[Front]
      BY <1>0, <1>3, <2>1, <3>1, <3>4
    <3>. QED  BY <3>3, <3>4
  <2>. QED  BY <2>3, <2>4
<1>8. ASSUME Spin PROVE Store!BNext \/ UNCHANGED <<Content, got>>
  <2>1. /\ held # <<>> /\ This = Front /\ pc = "spin"
        /\ UNCHANGED <<blockno, valid, dirty, cache, disk>>
    BY <1>8, ThisIsFront DEF Spin, Runs, Inductive, RequestStage, bufs
  <2>2. CASE synced(Front)
    <3>1. got' = <<blockno[Front], cache[Front]>> /\ Clean
      BY <1>8, <2>1, <2>2 DEF Spin, Return, Inductive, RequestStage, synced
    <3>2. cache[Front] = disk[blockno[Front]] /\ ~dirty[Front]
      BY <3>1 DEF Clean, synced
    <3>. QED  BY <1>0, <1>6, <2>1, <3>1, <3>2
  <2>3. CASE ~synced(Front)
    BY <1>0, <1>3, <1>8, <2>1, <2>3 DEF Spin
  <2>. QED  BY <2>2, <2>3
<1>9. ASSUME Poll PROVE Store!BNext
  <2>1. /\ held # <<>> /\ This = Front /\ pc = "poll"
        /\ ~valid[Front] /\ ~dirty[Front] /\ Done
    BY <1>9, ThisIsFront DEF Poll, Runs, Inductive, RequestStage, Busy, BootStage
  <2>2. /\ dirty' = [dirty EXCEPT ![Front] = FALSE]
        /\ cache' = [cache EXCEPT ![Front] = ctl.data]
        /\ ctl.data = disk[blockno[Front]]
        /\ got' = <<blockno[Front], cache'[Front]>> /\ UNCHANGED disk
    BY <1>9, <2>1 DEF Poll, Complete, Done
  <2>3. ~dirty'[Front] /\ cache'[Front] = disk[blockno[Front]]
    BY <2>2, Constants DEF Inductive, TypeOK
  <2>. QED  BY <1>0, <1>6, <2>1, <2>2, <2>3
<1>10. ASSUME DiskDone PROVE UNCHANGED <<Content, got>>
  <2>1. Busy /\ UNCHANGED <<blockno, dirty, cache, got>>
    BY <1>10 DEF DiskDone, bufs, Inductive, RequestStage, TypeOK, Done
  <2>2. CASE dirty[Front]
    <3>1. disk' = [disk EXCEPT ![blockno[Front]] = cache[Front]]
      BY <1>10, <2>1, <2>2 DEF DiskDone, Busy
    <3>. QED  BY <1>0, <1>3, <2>1, <2>2, <3>1 DEF Inductive, TypeOK
  <2>3. CASE ~dirty[Front]
    BY <1>4, <1>10, <2>1, <2>3 DEF DiskDone, Busy
  <2>. QED  BY <2>2, <2>3
<1>11. ASSUME Interrupt PROVE UNCHANGED <<Content, got>>
  <2>1. ~booting /\ irq /\ UNCHANGED <<blockno, disk, got>>
    BY <1>11 DEF Interrupt
  <2>2. CASE queue = <<>>
    BY <1>0, <1>3, <1>11, <2>1, <2>2 DEF Interrupt
  <2>3. CASE queue # <<>>
    <3>1. queue = <<Front>> /\ Done
      BY <2>1, <2>3 DEF Inductive, RequestStage, TypeOK, Busy
    <3>2. Head(queue) = Front
      BY <3>1
    <3>3. dirty' = [dirty EXCEPT ![Front] = FALSE]
      BY <1>11, <2>3, <3>2 DEF Interrupt, Complete
    <3>4. ~dirty'[Front]
      BY <3>3, Constants DEF Inductive, TypeOK
    <3>5. dirty[Front] => disk[blockno[Front]] = cache[Front]
      BY <3>1 DEF Done
    <3>6. \A k \in Blocks : Content'[k] = Content[k]
      BY <1>0, <1>3, <2>1, <3>4, <3>5
    <3>. QED  BY <1>0, <1>3, <2>1, <3>6
  <2>. QED  BY <2>2, <2>3
<1>12. ASSUME Release PROVE UNCHANGED <<Content, got>>
  <2>1. /\ This = Front /\ ~dirty[Front] /\ UNCHANGED <<blockno, disk, got>>
    BY <1>12, ThisIsFront DEF Release, Runs, Inductive, RequestStage
  <2>2. ~dirty'[Front]
    BY <1>12, <2>1, Constants DEF Release, Inductive, TypeOK
  <2>. QED  BY <1>4, <2>1, <2>2
<1>13. ASSUME UNCHANGED <<bufs, disk, got>> PROVE UNCHANGED <<Content, got>>
  BY <1>0, <1>3, <1>13 DEF bufs
<1>. QED  BY <1>5, <1>7, <1>8, <1>9, <1>10, <1>11, <1>12, <1>13
          DEF Next, Sync, Enqueue, Request, Booted, Halted, vars

\* What bcache_read returns is what was last written to the block, although the
\* content is on its way between the buffer, the controller and the disk.
THEOREM CacheIsStore == Spec => ImplementsStore
BY StoreInit, StoreStep, CacheInvariant, PTL DEF Spec, ImplementsStore, Store!BSpec
=============================================================================
