---------------------------- MODULE PipeProofs -----------------------------
(***************************************************************************)
(* Proofs about the pipe, for every size of the ring, every number of      *)
(* counter values that is a multiple of it, and all readers and writers.   *)
(***************************************************************************)
EXTENDS Pipe, SequenceTheorems, TLAPS

----------------------------------------------------------------------------
(* Arithmetic *)

\* What % and \div of natural numbers are.
LEMMA DivMod ==
  ASSUME NEW a \in Nat, NEW n \in Nat \ {0}
  PROVE  /\ a \div n \in Nat /\ a % n \in 0 .. n - 1
         /\ a = n * (a \div n) + (a % n)
OBVIOUS

\* Multiples of n are n apart.
LEMMA MultiplesApart ==
  ASSUME NEW n \in Nat \ {0}, NEW x \in Nat, NEW y \in Nat, x < y
  PROVE  n * x + n <= n * y
<1>1. PICK d \in Nat : y = x + 1 + d
  <2>1. y - x - 1 \in Nat /\ y = x + 1 + (y - x - 1)
    OBVIOUS
  <2>. QED  BY <2>1
<1>2. n * y = n * x + n + n * d
  BY <1>1
<1>3. n * d \in Nat
  OBVIOUS
<1>. QED  BY <1>2, <1>3

\* Quotient and remainder are unique.
LEMMA ModValue ==
  ASSUME NEW n \in Nat \ {0}, NEW q \in Nat, NEW r \in 0 .. n - 1
  PROVE  (n * q + r) % n = r
<1>1. PICK a \in Nat : a = n * q + r
  OBVIOUS
<1>2. a = n * (a \div n) + (a % n) /\ a \div n \in Nat /\ a % n \in 0 .. n - 1
  BY DivMod
<1>3. ~ (q < a \div n)
  <2>1. ASSUME q < a \div n PROVE FALSE
    <3>1. n * q + n <= n * (a \div n)
      BY <1>2, <2>1, MultiplesApart
    <3>. QED  BY <1>1, <1>2, <3>1
  <2>. QED  BY <2>1
<1>4. ~ (a \div n < q)
  <2>1. ASSUME a \div n < q PROVE FALSE
    <3>1. n * (a \div n) + n <= n * q
      BY <1>2, <2>1, MultiplesApart
    <3>. QED  BY <1>1, <1>2, <3>1
  <2>. QED  BY <2>1
<1>5. a \div n = q
  BY <1>2, <1>3, <1>4
<1>6. a % n = r
  BY <1>1, <1>2, <1>5
<1>. QED  BY <1>1, <1>6

\* A sum below n, or below 2n, modulo n.
LEMMA ModSmall ==
  ASSUME NEW n \in Nat \ {0}, NEW a \in 0 .. 2 * n - 1
  PROVE  a % n = IF a < n THEN a ELSE a - n
<1>1. CASE a < n
  <2>1. (n * 0 + a) % n = a
    BY <1>1, ModValue
  <2>2. n * 0 + a = a
    OBVIOUS
  <2>. QED  BY <1>1, <2>1, <2>2
<1>2. CASE a >= n
  <2>1. a - n \in 0 .. n - 1
    BY <1>2
  <2>2. (n * 1 + (a - n)) % n = a - n
    BY <2>1, ModValue
  <2>3. n * 1 + (a - n) = a
    OBVIOUS
  <2>. QED  BY <1>2, <2>2, <2>3
<1>. QED  BY <1>1, <1>2

\* A remainder can be taken before or after adding.
LEMMA ModAdd ==
  ASSUME NEW n \in Nat \ {0}, NEW a \in Nat, NEW b \in Nat
  PROVE  ((a % n) + b) % n = (a + b) % n
<1>1. a % n \in 0 .. n - 1 /\ a \div n \in Nat /\ a = n * (a \div n) + (a % n)
  BY DivMod
<1>2. PICK c \in Nat : c = (a % n) + b
  <2>1. (a % n) + b \in Nat
    BY <1>1
  <2>. QED  BY <2>1
<1>3. c = n * (c \div n) + (c % n) /\ c \div n \in Nat /\ c % n \in 0 .. n - 1
  BY DivMod
<1>4. a + b = n * (a \div n) + n * (c \div n) + (c % n)
  BY <1>1, <1>2, <1>3
<1>5. PICK q \in Nat : q = (a \div n) + (c \div n)
  BY <1>1, <1>3
<1>6. a + b = n * q + (c % n)
  BY <1>1, <1>3, <1>4, <1>5
<1>7. (n * q + (c % n)) % n = c % n
  BY <1>3, ModValue
<1>. QED  BY <1>2, <1>6, <1>7

\* Counters that wrap at a multiple of n still count modulo n.
LEMMA ModMod ==
  ASSUME NEW n \in Nat \ {0}, NEW m \in Nat \ {0}, m % n = 0, NEW a \in Nat
  PROVE  (a % m) % n = a % n
<1>1. a % m \in 0 .. m - 1 /\ a \div m \in Nat /\ a = m * (a \div m) + (a % m)
  BY DivMod
<1>2. PICK k \in Nat : m = n * k
  <2>1. m \div n \in Nat /\ m = n * (m \div n) + 0
    BY DivMod
  <2>2. n * (m \div n) + 0 = n * (m \div n)
    BY <2>1
  <2>. QED  BY <2>1, <2>2
<1>3. PICK r \in Nat : r = a % m
  BY <1>1
<1>4. r = n * (r \div n) + (r % n) /\ r \div n \in Nat /\ r % n \in 0 .. n - 1
  BY DivMod
<1>5. PICK c \in Nat : c = a \div m
  BY <1>1
<1>6. m * c = n * (k * c)
  BY <1>2
<1>7. PICK q \in Nat : q = k * c + (r \div n)
  BY <1>4
<1>8. a = n * q + (r % n)
  <2>1. PICK d \in Nat, e \in Nat : d = k * c /\ e = r \div n
    BY <1>4
  <2>2. n * q = n * d + n * e
    BY <1>7, <2>1
  <2>3. a = m * c + r /\ m * c = n * d /\ r = n * e + (r % n)
    BY <1>1, <1>3, <1>4, <1>5, <1>6, <2>1
  <2>4. PICK x \in Nat, y \in Nat, t \in Nat : x = n * d /\ y = n * e /\ t = r % n
    BY <1>4
  <2>5. a = x + (y + t) /\ n * q = x + y
    BY <2>2, <2>3, <2>4
  <2>6. (x + y) + t = x + (y + t)
    OBVIOUS
  <2>. QED  BY <2>4, <2>5, <2>6
<1>9. (n * q + (r % n)) % n = r % n
  BY <1>4, ModValue
<1>. QED  BY <1>3, <1>8, <1>9

\* n numbers in a row have different remainders, ...
LEMMA ModInjective ==
  ASSUME NEW n \in Nat \ {0}, NEW a \in Nat, NEW x \in 0 .. n - 1, NEW y \in 0 .. n - 1,
         (a + x) % n = (a + y) % n
  PROVE  x = y
<1>0. a + x \in Nat /\ a + y \in Nat
  OBVIOUS
<1>1. PICK p \in Nat, r \in 0 .. n - 1 : a + x = n * p + r /\ r = (a + x) % n
  BY <1>0, DivMod
<1>2. PICK q \in Nat : a + y = n * q + r
  <2>1. (a + y) \div n \in Nat /\ a + y = n * ((a + y) \div n) + ((a + y) % n)
    BY <1>0, DivMod
  <2>. QED  BY <1>1, <2>1
<1>3. ~ (p < q)
  BY <1>1, <1>2, MultiplesApart
<1>4. ~ (q < p)
  BY <1>1, <1>2, MultiplesApart
<1>5. p = q
  BY <1>3, <1>4
<1>. QED  BY <1>1, <1>2, <1>5

\* ... and so all of them.
LEMMA ModSurjective ==
  ASSUME NEW n \in Nat \ {0}, NEW a \in Nat, NEW i \in 0 .. n - 1
  PROVE  \E m \in 1 .. n : (a + m - 1) % n = i
<1>1. PICK q \in Nat, r \in 0 .. n - 1 : a = n * q + r
  BY DivMod
<1>2. CASE r <= i
  <2>1. a + (i - r + 1) - 1 = n * q + i /\ i - r + 1 \in 1 .. n
    BY <1>1, <1>2
  <2>. QED  BY <2>1, ModValue
<1>3. CASE i < r
  <2>1. a + (i + n - r + 1) - 1 = n * (q + 1) + i /\ i + n - r + 1 \in 1 .. n
    BY <1>1, <1>3
  <2>2. q + 1 \in Nat
    OBVIOUS
  <2>. QED  BY <2>1, <2>2, ModValue
<1>. QED  BY <1>2, <1>3

----------------------------------------------------------------------------
(* The counters *)

\* Bytes between the counters nr and nw.
Between(nr, nw) == (nw + COUNTERS - nr) % COUNTERS

\* Used is the number of bytes between the counters.
LEMMA UsedIsBetween == Used = Between(nread, nwritten)
BY DEF Used, Between

\* What the assumption says without %.
LEMMA Sizing ==
  PIPESZ \in Nat \ {0} /\ COUNTERS \in Nat \ {0} /\ PIPESZ < COUNTERS
BY PipeAssumption

\* A counter that has been advanced.
LEMMA Advance ==
  ASSUME NEW c \in 0 .. COUNTERS - 1, NEW k \in 0 .. COUNTERS
  PROVE  /\ (c + k) % COUNTERS = IF c + k < COUNTERS THEN c + k ELSE c + k - COUNTERS
         /\ (c + k) % COUNTERS \in 0 .. COUNTERS - 1
<1>1. PICK a \in 0 .. 2 * COUNTERS - 1 : a = c + k
  BY Sizing
<1>2. a % COUNTERS = IF a < COUNTERS THEN a ELSE a - COUNTERS
  BY Sizing, ModSmall
<1>. QED  BY <1>1, <1>2, Sizing

\* The counters tell how much is in the ring: nothing, all it holds, or between.
LEMMA BetweenValue ==
  ASSUME NEW nr \in 0 .. COUNTERS - 1, NEW nw \in 0 .. COUNTERS - 1
  PROVE  /\ Between(nr, nw) = IF nr <= nw THEN nw - nr ELSE nw + COUNTERS - nr
         /\ Between(nr, nw) \in 0 .. COUNTERS - 1
         /\ nw = (nr + Between(nr, nw)) % COUNTERS
         /\ Between(nr, nw) = 0 <=> nr = nw
         /\ Between(nr, nw) = PIPESZ <=> nw = (nr + PIPESZ) % COUNTERS
<1>1. Between(nr, nw) = IF nr <= nw THEN nw - nr ELSE nw + COUNTERS - nr
  <2>1. PICK k \in 0 .. COUNTERS : k = COUNTERS - nr
    BY Sizing
  <2>2. (nw + k) % COUNTERS = IF nw + k < COUNTERS THEN nw + k ELSE nw + k - COUNTERS
    BY Advance
  <2>3. nw + k = nw + COUNTERS - nr
    BY <2>1, Sizing
  <2>. QED  BY <2>1, <2>2, <2>3, Sizing DEF Between
<1>2. Between(nr, nw) \in 0 .. COUNTERS - 1
  BY <1>1, Sizing
<1>3. nw = (nr + Between(nr, nw)) % COUNTERS
  <2>1. PICK k \in 0 .. COUNTERS : k = Between(nr, nw)
    BY <1>2, Sizing
  <2>2. (nr + k) % COUNTERS = IF nr + k < COUNTERS THEN nr + k ELSE nr + k - COUNTERS
    BY Advance
  <2>. QED  BY <1>1, <2>1, <2>2, Sizing
<1>4. (nr + PIPESZ) % COUNTERS =
        IF nr + PIPESZ < COUNTERS THEN nr + PIPESZ ELSE nr + PIPESZ - COUNTERS
  BY Advance, Sizing
<1>. QED  BY <1>1, <1>2, <1>3, <1>4, Sizing

\* pipe_write of k bytes that fit.
LEMMA Written ==
  ASSUME NEW nr \in 0 .. COUNTERS - 1, NEW nw \in 0 .. COUNTERS - 1,
         NEW k \in Nat, Between(nr, nw) + k <= PIPESZ
  PROVE  /\ (nw + k) % COUNTERS \in 0 .. COUNTERS - 1
         /\ Between(nr, (nw + k) % COUNTERS) = Between(nr, nw) + k
<1>1. Between(nr, nw) = IF nr <= nw THEN nw - nr ELSE nw + COUNTERS - nr
  BY BetweenValue
<1>2. k \in 0 .. COUNTERS
  BY <1>1, Sizing
<1>3. PICK n \in 0 .. COUNTERS - 1 :
        /\ n = (nw + k) % COUNTERS
        /\ n = IF nw + k < COUNTERS THEN nw + k ELSE nw + k - COUNTERS
  BY <1>2, Advance
<1>4. Between(nr, n) = IF nr <= n THEN n - nr ELSE n + COUNTERS - nr
  BY BetweenValue
<1>. QED  BY <1>1, <1>3, <1>4, Sizing

\* pipe_read of k bytes that are there.
LEMMA WasRead ==
  ASSUME NEW nr \in 0 .. COUNTERS - 1, NEW nw \in 0 .. COUNTERS - 1,
         NEW k \in Nat, k <= Between(nr, nw)
  PROVE  /\ (nr + k) % COUNTERS \in 0 .. COUNTERS - 1
         /\ Between((nr + k) % COUNTERS, nw) = Between(nr, nw) - k
<1>1. Between(nr, nw) = IF nr <= nw THEN nw - nr ELSE nw + COUNTERS - nr
  BY BetweenValue
<1>2. k \in 0 .. COUNTERS
  BY <1>1, Sizing
<1>3. PICK n \in 0 .. COUNTERS - 1 :
        /\ n = (nr + k) % COUNTERS
        /\ n = IF nr + k < COUNTERS THEN nr + k ELSE nr + k - COUNTERS
  BY <1>2, Advance
<1>4. Between(n, nw) = IF n <= nw THEN nw - n ELSE nw + COUNTERS - n
  BY BetweenValue
<1>. QED  BY <1>1, <1>3, <1>4, Sizing

\* The ring indices counted from an advanced counter continue those before.
LEMMA IndexFrom ==
  ASSUME NEW c \in Nat, NEW k \in Nat, NEW i \in Nat
  PROVE  (((c + k) % COUNTERS) + i) % PIPESZ = (c + k + i) % PIPESZ
<1>1. PICK a \in Nat : a = c + k
  OBVIOUS
<1>2. PICK n \in Nat : n = a % COUNTERS
  <2>1. a % COUNTERS \in 0 .. COUNTERS - 1
    BY Sizing, DivMod
  <2>. QED  BY <2>1, Sizing
<1>3. n % PIPESZ = a % PIPESZ
  BY <1>2, PipeAssumption, Sizing, ModMod
<1>4. ((n % PIPESZ) + i) % PIPESZ = (n + i) % PIPESZ
  BY Sizing, ModAdd
<1>5. ((a % PIPESZ) + i) % PIPESZ = (a + i) % PIPESZ
  BY Sizing, ModAdd
<1>. QED  BY <1>1, <1>2, <1>3, <1>4, <1>5

----------------------------------------------------------------------------
(* The ring *)

\* Used, Full and Empty in terms of the bytes between the counters.
LEMMA UsedValue ==
  TypeOK => /\ Used \in 0 .. PIPESZ
            /\ Empty <=> Used = 0
            /\ Full <=> Used = PIPESZ
<1>. SUFFICES ASSUME TypeOK
              PROVE  /\ Used \in 0 .. PIPESZ
                     /\ Empty <=> Used = 0
                     /\ Full <=> Used = PIPESZ
  OBVIOUS
<1>1. nread \in 0 .. COUNTERS - 1 /\ nwritten \in 0 .. COUNTERS - 1
  BY DEF TypeOK
<1>2. Used = 0 <=> nread = nwritten
  BY <1>1, BetweenValue, UsedIsBetween
<1>3. Used = PIPESZ <=> nwritten = (nread + PIPESZ) % COUNTERS
  BY <1>1, BetweenValue, UsedIsBetween
<1>. QED  BY <1>2, <1>3 DEF TypeOK, Full, Empty

\* The bytes that pipe_write copies.
Copied(s) == Min(Len(s), PIPESZ - Used)

\* It copies what fits: all of s, or what fills the ring.
LEMMA CopiedValue ==
  ASSUME TypeOK, NEW s \in Seq(Bytes)
  PROVE  /\ Copied(s) \in 0 .. Len(s) /\ Used + Copied(s) <= PIPESZ
         /\ Copied(s) < Len(s) => Used + Copied(s) = PIPESZ
         /\ Copied(s) <= PIPESZ
<1>1. Used \in 0 .. PIPESZ /\ Len(s) \in Nat
  BY UsedValue
<1>. QED  BY <1>1, Sizing DEF Copied, Min

\* The ring after pipe_write: the byte m places after the last one written is the
\* m-th of s, and what was there is kept.
LEMMA RingWritten ==
  ASSUME TypeOK, NEW w \in Writers, NEW s \in Seq(Bytes), Write(w, s)
  PROVE  /\ \A m \in 1 .. PIPESZ :
              data'[(nwritten + m - 1) % PIPESZ] =
                IF m <= Copied(s) THEN s[m] ELSE data[(nwritten + m - 1) % PIPESZ]
         /\ data' \in [0 .. PIPESZ - 1 -> Bytes]
<1>. DEFINE J(i) == CHOOSE m \in 1 .. PIPESZ : (nwritten + m - 1) % PIPESZ = i
<1>0. nwritten \in Nat
  BY Sizing DEF TypeOK
<1>1. data' = [i \in 0 .. PIPESZ - 1 |-> IF J(i) <= Copied(s) THEN s[J(i)] ELSE data[i]]
  BY DEF Write, Copied
<1>2. ASSUME NEW i \in 0 .. PIPESZ - 1
      PROVE  J(i) \in 1 .. PIPESZ /\ (nwritten + J(i) - 1) % PIPESZ = i
  BY <1>0, Sizing, ModSurjective
<1>. HIDE DEF J
<1>3. ASSUME NEW m \in 1 .. PIPESZ
      PROVE  /\ (nwritten + m - 1) % PIPESZ \in 0 .. PIPESZ - 1
             /\ J((nwritten + m - 1) % PIPESZ) = m
  <2>1. PICK a \in Nat : a = nwritten + m - 1
    BY <1>0
  <2>2. PICK i \in 0 .. PIPESZ - 1 : i = a % PIPESZ
    BY DivMod, Sizing
  <2>3. PICK y \in 0 .. PIPESZ - 1 : y + 1 = J(i) /\ (nwritten + y) % PIPESZ = i
    <3>1. PICK j \in 1 .. PIPESZ : j = J(i) /\ (nwritten + j - 1) % PIPESZ = i
      BY <1>2
    <3>2. /\ j - 1 \in 0 .. PIPESZ - 1 /\ (j - 1) + 1 = j
          /\ nwritten + j - 1 = nwritten + (j - 1)
      BY <1>0, Sizing
    <3>. QED  BY <3>1, <3>2
  <2>4. PICK x \in 0 .. PIPESZ - 1 : x + 1 = m /\ (nwritten + x) % PIPESZ = i
    <3>1. m - 1 \in 0 .. PIPESZ - 1 /\ a = nwritten + (m - 1) /\ (m - 1) + 1 = m
      BY <1>0, <2>1, Sizing
    <3>. QED  BY <3>1, <2>2
  <2>5. x = y
    BY <1>0, <2>3, <2>4, Sizing, ModInjective
  <2>. QED  BY <2>1, <2>2, <2>3, <2>4, <2>5
<1>4. \A i \in 0 .. PIPESZ - 1 : J(i) <= Copied(s) => s[J(i)] \in Bytes
  <2>1. ASSUME NEW i \in 0 .. PIPESZ - 1, J(i) <= Copied(s) PROVE s[J(i)] \in Bytes
    <3>1. J(i) \in 1 .. Len(s)
      BY <1>2, <2>1, CopiedValue, LenProperties, Sizing
    <3>. QED  BY <3>1, ElementOfSeq
  <2>. QED  BY <2>1
<1>5. data' \in [0 .. PIPESZ - 1 -> Bytes]
  BY <1>1, <1>4 DEF TypeOK
<1>. QED  BY <1>1, <1>3, <1>5

\* The bytes after the oldest one, at the index of Contents.
LEMMA AfterOldest ==
  ASSUME TypeOK, NEW i \in 1 .. PIPESZ
  PROVE  (nread + i - 1) % PIPESZ \in 0 .. PIPESZ - 1
<1>1. PICK a \in Nat : a = nread + i - 1
  BY Sizing DEF TypeOK
<1>. QED  BY <1>1, DivMod, Sizing

\* The byte at m places after the last one written is at Used + m from the oldest.
LEMMA AfterWritten ==
  ASSUME TypeOK, NEW m \in 1 .. PIPESZ
  PROVE  (nwritten + m - 1) % PIPESZ = (nread + (Used + m) - 1) % PIPESZ
<1>0. nread \in Nat /\ Used \in Nat
  BY Sizing DEF TypeOK
<1>1. nwritten = (nread + Used) % COUNTERS
  BY BetweenValue, UsedIsBetween DEF TypeOK
<1>2. PICK x \in Nat : x = m - 1
  BY Sizing
<1>3. (((nread + Used) % COUNTERS) + x) % PIPESZ = (nread + Used + x) % PIPESZ
  BY <1>0, IndexFrom
<1>4. nread + Used + x = nread + (Used + m) - 1
  BY <1>0, <1>2
<1>5. nwritten + m - 1 = nwritten + x
  BY <1>2, Sizing DEF TypeOK
<1>. QED  BY <1>1, <1>3, <1>4, <1>5

----------------------------------------------------------------------------
(* The state after pipe_write *)

\* pipe_write adds what it copies to the bytes in the ring.
LEMMA WriteUsed ==
  ASSUME TypeOK, NEW w \in Writers, NEW s \in Seq(Bytes), Write(w, s)
  PROVE  /\ nread' = nread /\ nwritten' \in 0 .. COUNTERS - 1
         /\ Used' = Used + Copied(s)
<1>1. nread \in 0 .. COUNTERS - 1 /\ nwritten \in 0 .. COUNTERS - 1
  BY DEF TypeOK
<1>2. Copied(s) \in Nat /\ Used + Copied(s) <= PIPESZ
  BY CopiedValue, LenProperties
<1>3. Between(nread, nwritten) + Copied(s) <= PIPESZ
  BY <1>2, UsedIsBetween
<1>4. nread' = nread /\ nwritten' = (nwritten + Copied(s)) % COUNTERS
  BY DEF Write, Copied
<1>5. /\ nwritten' \in 0 .. COUNTERS - 1
      /\ Between(nread, nwritten') = Between(nread, nwritten) + Copied(s)
  BY <1>1, <1>2, <1>3, <1>4, Written
<1>6. Used' = Between(nread', nwritten')
  BY DEF Used, Between
<1>. QED  BY <1>4, <1>5, <1>6, UsedIsBetween

\* The contents of the ring are as many bytes as it uses.
LEMMA ContentsSeq ==
  TypeOK => Contents \in Seq(Bytes) /\ Len(Contents) = Used
<1>. SUFFICES ASSUME TypeOK PROVE Contents \in Seq(Bytes) /\ Len(Contents) = Used
  OBVIOUS
<1>1. Used \in 0 .. PIPESZ
  BY DEF TypeOK
<1>2. \A i \in 1 .. Used : data[(nread + i - 1) % PIPESZ] \in Bytes
  BY <1>1, AfterOldest, Sizing DEF TypeOK
<1>3. Contents \in [1 .. Used -> Bytes]
  BY <1>2 DEF Contents
<1>. QED  BY <1>1, <1>3, SeqDef, Sizing

\* pipe_write keeps the types, the bound of the ring included.
LEMMA WriteTypes ==
  ASSUME TypeOK, NEW w \in Writers, NEW s \in Seq(Bytes), Write(w, s)
  PROVE  TypeOK'
<1>1. data' \in [0 .. PIPESZ - 1 -> Bytes]
  BY RingWritten
<1>2. /\ nread' \in 0 .. COUNTERS - 1 /\ nwritten' \in 0 .. COUNTERS - 1
      /\ Used' \in 0 .. PIPESZ
  BY WriteUsed, CopiedValue, UsedValue, LenProperties, Sizing DEF TypeOK
<1>3. status' \in [Readers \cup Writers -> {"idle", "asleep", "woken"}]
  <2>1. status' = Status(w, IF Copied(s) < Len(s) THEN "asleep" ELSE "idle", Readers)
    BY DEF Write, Copied
  <2>. QED  BY <2>1 DEF TypeOK, Status
<1>4. src' \in [Writers -> Seq(Bytes)]
  <2>1. src' = [src EXCEPT ![w] = SubSeq(s, Copied(s) + 1, Len(s))]
    BY DEF Write, Copied
  <2>2. SubSeq(s, Copied(s) + 1, Len(s)) \in Seq(Bytes)
    BY CopiedValue, LenProperties, ElementOfSeq, SubSeqProperties
  <2>. QED  BY <2>1, <2>2 DEF TypeOK
<1>5. UNCHANGED <<want, buf, panicked>>
  BY DEF Write
<1>. QED  BY <1>1, <1>2, <1>3, <1>4, <1>5 DEF TypeOK

\* pipe_write appends what it copies to the contents.
LEMMA WriteContents ==
  ASSUME TypeOK, NEW w \in Writers, NEW s \in Seq(Bytes), Write(w, s)
  PROVE  Contents' = Contents \o SubSeq(s, 1, Copied(s))
<1>. DEFINE t == SubSeq(s, 1, Copied(s))
<1>0. /\ Copied(s) \in 0 .. Len(s) /\ Used + Copied(s) <= PIPESZ
      /\ Len(s) \in Nat /\ Used \in 0 .. PIPESZ
  BY CopiedValue, LenProperties, UsedValue
<1>1. t \in Seq(Bytes) /\ Len(t) = Copied(s) /\ \A i \in 1 .. Copied(s) : t[i] = s[i]
  <2>1. \A i \in 1 .. Copied(s) : s[i] \in Bytes
    BY <1>0, ElementOfSeq
  <2>2. t \in Seq(Bytes)
    BY <1>0, <2>1, SubSeqProperties
  <2>3. Len(t) = IF 1 <= Copied(s) THEN Copied(s) - 1 + 1 ELSE 0
    BY <1>0, <2>1, SubSeqProperties
  <2>4. \A i \in 1 .. Copied(s) - 1 + 1 : t[i] = s[1 + i - 1]
    BY <1>0, <2>1, SubSeqProperties
  <2>. QED  BY <1>0, <2>2, <2>3, <2>4
<1>2. Contents \in Seq(Bytes) /\ Len(Contents) = Used
  BY ContentsSeq
<1>3. Contents' \in Seq(Bytes) /\ Len(Contents') = Used'
  <2>1. TypeOK'
    BY WriteTypes
  <2>2. (Contents \in Seq(Bytes) /\ Len(Contents) = Used)'
    BY <2>1, ContentsSeq, PTL
  <2>. QED  BY <2>2
<1>. HIDE DEF t
<1>4. /\ Contents \o t \in Seq(Bytes) /\ Len(Contents \o t) = Used + Copied(s)
      /\ \A i \in 1 .. Used + Copied(s) :
           (Contents \o t)[i] = IF i <= Used THEN Contents[i] ELSE t[i - Used]
  <2>1. /\ Contents \o t \in Seq(Bytes) /\ Len(Contents \o t) = Len(Contents) + Len(t)
        /\ \A i \in 1 .. Len(Contents) + Len(t) :
           (Contents \o t)[i] = IF i <= Len(Contents) THEN Contents[i]
                                                      ELSE t[i - Len(Contents)]
    BY <1>1, <1>2, ConcatProperties
  <2>. QED  BY <1>1, <1>2, <2>1
<1>5. Used' = Used + Copied(s) /\ nread' = nread
  BY WriteUsed
<1>6. ASSUME NEW i \in 1 .. Used + Copied(s)
      PROVE  Contents'[i] = (Contents \o t)[i]
  <2>1. Contents'[i] = data'[(nread + i - 1) % PIPESZ]
    BY <1>5 DEF Contents
  <2>2. CASE i <= Used
    <3>1. (Contents \o t)[i] = data[(nread + i - 1) % PIPESZ]
      BY <1>0, <1>4, <2>2 DEF Contents
    <3>2. PICK m \in 1 .. PIPESZ : /\ m > Copied(s) 
                                   /\ (nwritten + m - 1) % PIPESZ = (nread + i - 1) % PIPESZ
      <4>1. PICK m \in 1 .. PIPESZ : m = PIPESZ - Used + i
        BY <1>0, <2>2, Sizing
      <4>2. (nwritten + m - 1) % PIPESZ = (nread + (Used + m) - 1) % PIPESZ
        BY AfterWritten
      <4>3. PICK a \in Nat : a = nread + i - 1
        BY Sizing DEF TypeOK
      <4>4. nread + (Used + m) - 1 = PIPESZ + a
        BY <1>0, <4>1, <4>3, Sizing DEF TypeOK
      <4>5. (PIPESZ + a) % PIPESZ = a % PIPESZ
        <5>1. ((PIPESZ % PIPESZ) + a) % PIPESZ = (PIPESZ + a) % PIPESZ
          BY ModAdd, Sizing
        <5>2. PIPESZ % PIPESZ = 0
          BY ModSmall, Sizing
        <5>. QED  BY <5>1, <5>2
      <4>6. m > Copied(s)
        BY <1>0, <4>1, Sizing
      <4>. QED  BY <4>2, <4>3, <4>4, <4>5, <4>6
    <3>3. ~ (m <= Copied(s))
      BY <1>0, <3>2, Sizing
    <3>. QED  BY <2>1, <3>1, <3>2, <3>3, RingWritten
  <2>3. CASE i > Used
    <3>1. PICK m \in 1 .. PIPESZ : i = Used + m /\ m <= Copied(s) /\ m = i - Used
      BY <1>0, <2>3, Sizing
    <3>2. (Contents \o t)[i] = s[m]
      BY <1>0, <1>1, <1>4, <2>3, <3>1
    <3>. QED  BY <2>1, <3>1, <3>2, RingWritten, AfterWritten
  <2>4. i <= Used \/ i > Used
    BY <1>0
  <2>. QED  BY <2>2, <2>3, <2>4
<1>. QED  BY <1>3, <1>4, <1>5, <1>6, SeqEqual DEF t

\* pipe_write keeps what the invariant says of the calls.
LEMMA WriteKeeps ==
  ASSUME Inductive, NEW w \in Writers, NEW s \in Seq(Bytes), Write(w, s)
  PROVE  Inductive'
<1>. USE DEF Inductive
<1>0. Copied(s) \in 0 .. Len(s) /\ Len(s) \in Nat /\ Used \in 0 .. PIPESZ
  BY CopiedValue, LenProperties, UsedValue
<1>1. TypeOK'
  BY WriteTypes
<1>2. status' = Status(w, IF Copied(s) < Len(s) THEN "asleep" ELSE "idle", Readers)
      /\ src' = [src EXCEPT ![w] = SubSeq(s, Copied(s) + 1, Len(s))]
      /\ want' = want
  BY DEF Write, Copied
<1>3. Used' = Used + Copied(s)
  BY WriteUsed
<1>4. (Empty <=> Used = 0)' /\ (Full <=> Used = PIPESZ)'
  BY <1>1, UsedValue, PTL
<1>5. ASSUME NEW v \in Writers, status'[v] = "asleep" PROVE Full'
  <2>1. CASE v = w
    <3>1. Copied(s) < Len(s)
      BY <1>2, <1>5, <2>1 DEF Status, TypeOK
    <3>2. Used' = PIPESZ
      BY <1>3, <3>1, CopiedValue
    <3>. QED  BY <1>4, <3>2
  <2>2. CASE v # w
    <3>1. status[v] = "asleep"
      BY <1>2, <1>5, <2>2, PipeAssumption DEF Status, TypeOK
    <3>2. Used = PIPESZ
      BY <3>1, UsedValue DEF NoLostWakeup
    <3>3. Used' = PIPESZ
      BY <1>0, <1>3, <3>2, CopiedValue, Sizing
    <3>. QED  BY <1>4, <3>3
  <2>. QED  BY <2>1, <2>2
<1>6. ASSUME NEW r \in Readers PROVE status'[r] # "asleep"
  BY <1>2, PipeAssumption DEF Status, TypeOK
<1>7. ASSUME NEW r \in Readers, status'[r] # "idle" PROVE want'[r] \in Sizes
  BY <1>2, <1>7, PipeAssumption DEF Status, TypeOK, CallsInProgress
<1>8. ASSUME NEW v \in Writers PROVE status'[v] = "idle" <=> src'[v] = <<>>
  <2>1. CASE v = w
    <3>1. status'[v] = "idle" <=> ~ (Copied(s) < Len(s))
      BY <1>2, <2>1 DEF Status, TypeOK
    <3>2. src'[v] = SubSeq(s, Copied(s) + 1, Len(s))
      BY <1>2, <2>1 DEF TypeOK
    <3>3. CASE Copied(s) < Len(s)
      <4>1. Len(SubSeq(s, Copied(s) + 1, Len(s))) = Len(s) - Copied(s)
        BY <1>0, <3>3, ElementOfSeq, SubSeqProperties
      <4>2. Len(SubSeq(s, Copied(s) + 1, Len(s))) # 0 /\ Len(<<>>) = 0
        BY <1>0, <3>3, <4>1
      <4>. QED  BY <3>1, <3>2, <3>3, <4>2
    <3>4. CASE ~ (Copied(s) < Len(s))
      <4>1. SubSeq(s, Copied(s) + 1, Len(s)) = <<>>
        BY <1>0, <3>4, SubSeqEmpty
      <4>. QED  BY <3>1, <3>2, <3>4, <4>1
    <3>. QED  BY <3>3, <3>4
  <2>2. CASE v # w
    BY <1>2, <2>2, PipeAssumption DEF Status, TypeOK, CallsInProgress
  <2>. QED  BY <2>1, <2>2
<1>. QED  BY <1>1, <1>5, <1>6, <1>7, <1>8 DEF NoLostWakeup, CallsInProgress

----------------------------------------------------------------------------
(* The state after pipe_read *)

\* What pipe_read of n bytes takes from a pipe that is not empty.
Taken(n) == Min(n, Used)

\* It takes at most what is there.
LEMMA TakenValue ==
  ASSUME TypeOK, NEW n \in Nat
  PROVE  Taken(n) \in 0 .. Used /\ Used \in 0 .. PIPESZ
<1>1. Used \in 0 .. PIPESZ
  BY UsedValue
<1>. QED  BY <1>1, Sizing DEF Taken, Min

\* pipe_read removes what it takes from the bytes in the ring.
LEMMA ReadUsed ==
  ASSUME TypeOK, NEW r \in Readers, NEW n \in Nat, Read(r, n), ~Empty
  PROVE  /\ nwritten' = nwritten /\ data' = data
         /\ nread' = (nread + Taken(n)) % COUNTERS
         /\ nread' \in 0 .. COUNTERS - 1
         /\ Used' = Used - Taken(n)
<1>1. nread \in 0 .. COUNTERS - 1 /\ nwritten \in 0 .. COUNTERS - 1
  BY DEF TypeOK
<1>2. Taken(n) \in Nat /\ Taken(n) <= Between(nread, nwritten)
  BY TakenValue, UsedIsBetween
<1>3. nwritten' = nwritten /\ data' = data /\ nread' = (nread + Taken(n)) % COUNTERS
  BY DEF Read, Taken
<1>4. /\ nread' \in 0 .. COUNTERS - 1
      /\ Between(nread', nwritten) = Between(nread, nwritten) - Taken(n)
  BY <1>1, <1>2, <1>3, WasRead
<1>5. Used' = Between(nread', nwritten')
  BY DEF Used, Between
<1>. QED  BY <1>3, <1>4, <1>5, UsedIsBetween

\* The bytes pipe_read returns are the oldest ones.
LEMMA ReadBuf ==
  ASSUME TypeOK, NEW r \in Readers, NEW n \in Nat, Read(r, n), ~Empty
  PROVE  /\ SubSeq(Contents, 1, Taken(n)) \in Seq(Bytes)
         /\ buf' = [buf EXCEPT ![r] = SubSeq(Contents, 1, Taken(n))]
<1>. DEFINE b == [i \in 1 .. Taken(n) |-> data[(nread + i - 1) % PIPESZ]]
            t == SubSeq(Contents, 1, Taken(n))
<1>0. Taken(n) \in 0 .. Used /\ Used \in 0 .. PIPESZ
  BY TakenValue
<1>1. Contents \in Seq(Bytes) /\ Len(Contents) = Used
  BY ContentsSeq
<1>2. \A i \in 1 .. Taken(n) : Contents[i] \in Bytes
  BY <1>0, <1>1, ElementOfSeq
<1>3. t \in Seq(Bytes)
  BY <1>0, <1>2, SubSeqProperties
<1>4. Len(t) = IF 1 <= Taken(n) THEN Taken(n) - 1 + 1 ELSE 0
  BY <1>0, <1>2, SubSeqProperties
<1>5. \A i \in 1 .. Taken(n) - 1 + 1 : t[i] = Contents[1 + i - 1]
  BY <1>0, <1>2, SubSeqProperties
<1>6. \A i \in 1 .. Taken(n) : Contents[i] = b[i]
  BY <1>0 DEF Contents
<1>7. b \in Seq(Bytes) /\ Len(b) = Taken(n)
  <2>1. b \in [1 .. Taken(n) -> Bytes]
    BY <1>2, <1>6
  <2>. QED  BY <1>0, <2>1, SeqDef
<1>8. buf' = [buf EXCEPT ![r] = b]
  BY DEF Read, Taken
<1>. HIDE DEF b, t
<1>9. Len(t) = Len(b) /\ \A i \in 1 .. Len(t) : t[i] = b[i]
  <2>1. Len(t) = Taken(n)
    BY <1>0, <1>4
  <2>2. ASSUME NEW i \in 1 .. Taken(n) PROVE t[i] = b[i]
    <3>1. 1 + i - 1 = i /\ i \in 1 .. Taken(n) - 1 + 1
      BY <1>0
    <3>. QED  BY <1>5, <1>6, <3>1
  <2>. QED  BY <1>7, <2>1, <2>2
<1>10. t = b
  BY <1>3, <1>7, <1>9, SeqEqual
<1>. QED  BY <1>3, <1>8, <1>10 DEF t

\* pipe_read keeps the types.
LEMMA ReadTypes ==
  ASSUME TypeOK, NEW r \in Readers, NEW n \in Sizes, Read(r, n)
  PROVE  TypeOK'
<1>. n \in Nat
  BY PipeAssumption
<1>1. CASE Empty
  <2>1. /\ status' = [status EXCEPT ![r] = "asleep"]
        /\ want' = [want EXCEPT ![r] = n]
        /\ UNCHANGED <<data, nread, nwritten, src, buf, panicked>>
    BY <1>1 DEF Read
  <2>2. Used' = Used
    BY <2>1 DEF Used
  <2>. QED  BY <2>1, <2>2 DEF TypeOK
<1>2. CASE ~Empty
  <2>1. nread' \in 0 .. COUNTERS - 1 /\ nwritten' = nwritten /\ data' = data
        /\ Used' = Used - Taken(n)
    BY <1>2, ReadUsed
  <2>2. Used' \in 0 .. PIPESZ
    BY <2>1, TakenValue, Sizing
  <2>3. buf' \in [Readers -> Seq(Bytes)]
    BY <1>2, ReadBuf DEF TypeOK
  <2>4. /\ want' = [want EXCEPT ![r] = 0] /\ status' = Status(r, "idle", Writers)
        /\ UNCHANGED <<src, panicked>>
    BY <1>2 DEF Read
  <2>5. status' \in [Readers \cup Writers -> {"idle", "asleep", "woken"}]
    BY <2>4 DEF TypeOK, Status
  <2>6. want' \in [Readers -> Sizes \cup {0}]
    BY <2>4 DEF TypeOK
  <2>. QED  BY <2>1, <2>2, <2>3, <2>4, <2>5, <2>6 DEF TypeOK
<1>. QED  BY <1>1, <1>2

\* pipe_read keeps what the invariant says of the calls.
LEMMA ReadKeeps ==
  ASSUME Inductive, NEW r \in Readers, NEW n \in Sizes, Read(r, n)
  PROVE  Inductive'
<1>. USE DEF Inductive
<1>. n \in Nat
  BY PipeAssumption
<1>1. TypeOK'
  BY ReadTypes
<1>2. CASE Empty
  <2>1. /\ status' = [status EXCEPT ![r] = "asleep"]
        /\ want' = [want EXCEPT ![r] = n]
        /\ UNCHANGED <<data, nread, nwritten, src, buf, panicked>>
    BY <1>2 DEF Read
  <2>2. Empty' /\ (Full' <=> Full)
    BY <1>2, <2>1 DEF Empty, Full
  <2>3. CallsInProgress'
    BY <2>1, PipeAssumption DEF CallsInProgress, TypeOK
  <2>4. NoLostWakeup'
    BY <2>1, <2>2, PipeAssumption DEF NoLostWakeup, TypeOK
  <2>. QED  BY <1>1, <2>3, <2>4
<1>3. CASE ~Empty
  <2>1. /\ want' = [want EXCEPT ![r] = 0] /\ status' = Status(r, "idle", Writers)
        /\ UNCHANGED <<src, panicked>>
    BY <1>3 DEF Read
  <2>2. \A x \in Readers \cup Writers : status'[x] # "asleep"
    BY <1>3, <2>1, PipeAssumption DEF Status, TypeOK, NoLostWakeup
  <2>3. CallsInProgress'
    BY <2>1, PipeAssumption DEF CallsInProgress, TypeOK, Status
  <2>. QED  BY <1>1, <2>2, <2>3 DEF NoLostWakeup
<1>. QED  BY <1>2, <1>3

\* pipe_read leaves what follows the bytes it takes.
LEMMA ReadContents ==
  ASSUME TypeOK, NEW r \in Readers, NEW n \in Sizes, Read(r, n), ~Empty
  PROVE  Contents' = SubSeq(Contents, Taken(n) + 1, Len(Contents))
<1>. DEFINE t == SubSeq(Contents, Taken(n) + 1, Len(Contents))
<1>. n \in Nat
  BY PipeAssumption
<1>0. Taken(n) \in 0 .. Used /\ Used \in 0 .. PIPESZ
  BY TakenValue
<1>1. Contents \in Seq(Bytes) /\ Len(Contents) = Used
  BY ContentsSeq
<1>2. \A i \in Taken(n) + 1 .. Len(Contents) : Contents[i] \in Bytes
  BY <1>0, <1>1, ElementOfSeq
<1>3. t \in Seq(Bytes)
  BY <1>0, <1>1, <1>2, SubSeqProperties
<1>4. Len(t) = IF Taken(n) + 1 <= Len(Contents)
               THEN Len(Contents) - (Taken(n) + 1) + 1 ELSE 0
  BY <1>0, <1>1, <1>2, SubSeqProperties
<1>5. \A i \in 1 .. Len(Contents) - (Taken(n) + 1) + 1 :
        t[i] = Contents[Taken(n) + 1 + i - 1]
  BY <1>0, <1>1, <1>2, SubSeqProperties
<1>6. (Contents \in Seq(Bytes) /\ Len(Contents) = Used)'
  <2>1. TypeOK'
    BY ReadTypes
  <2>. QED  BY <2>1, ContentsSeq, PTL
<1>7. Used' = Used - Taken(n) /\ nread' = (nread + Taken(n)) % COUNTERS /\ data' = data
  BY ReadUsed
<1>. HIDE DEF t
<1>8. Len(t) = Used'
  BY <1>0, <1>1, <1>4, <1>7
<1>9. ASSUME NEW i \in 1 .. Used' PROVE Contents'[i] = t[i]
  <2>1. Contents'[i] = data[(nread' + i - 1) % PIPESZ]
    BY <1>7 DEF Contents
  <2>2. PICK j \in 1 .. Used : j = Taken(n) + i /\ j = Taken(n) + 1 + i - 1
    BY <1>0, <1>7
  <2>3. t[i] = Contents[j]
    BY <1>0, <1>1, <1>5, <1>7, <2>2
  <2>4. Contents[j] = data[(nread + j - 1) % PIPESZ]
    BY DEF Contents
  <2>5. PICK x \in Nat : x = i - 1
    BY <1>0, <1>7
  <2>6. nread \in Nat /\ nread' \in Nat /\ Taken(n) \in Nat
    <3>1. nread' \in 0 .. COUNTERS - 1
      BY ReadUsed
    <3>. QED  BY <1>0, <3>1, Sizing DEF TypeOK
  <2>7. (((nread + Taken(n)) % COUNTERS) + x) % PIPESZ = (nread + Taken(n) + x) % PIPESZ
    BY <2>6, IndexFrom
  <2>8. nread + Taken(n) + x = nread + j - 1 /\ nread' + x = nread' + i - 1
    BY <2>2, <2>5, <2>6
  <2>. QED  BY <1>7, <2>1, <2>3, <2>4, <2>7, <2>8
<1>. QED  BY <1>3, <1>6, <1>8, <1>9, SeqEqual DEF t

----------------------------------------------------------------------------
(* The invariant *)

\* The arguments of pipe_write are sequences of bytes.
LEMMA TextsAreSeqs == Texts \subseteq Seq(Bytes)
BY SeqDef, PipeAssumption DEF Texts

\* A new pipe is empty.
LEMMA InitEmpty ==
  ASSUME Init PROVE Used = 0
<1>1. Between(0, 0) = 0
  BY BetweenValue, Sizing
<1>. QED  BY <1>1, UsedIsBetween DEF Init

\* A new pipe satisfies the invariant.
LEMMA InductiveInit == Init => Inductive
<1>. SUFFICES ASSUME Init PROVE Inductive
  OBVIOUS
<1>1. TypeOK
  <2>1. <<>> \in Seq(Bytes)
    BY EmptySeq
  <2>2. /\ nread \in 0 .. COUNTERS - 1 /\ nwritten \in 0 .. COUNTERS - 1
        /\ Used \in 0 .. PIPESZ
    <3>1. Used = 0
      BY InitEmpty
    <3>. QED  BY <3>1, Sizing DEF Init
  <2>3. /\ status \in [Readers \cup Writers -> {"idle", "asleep", "woken"}]
        /\ src \in [Writers -> Seq(Bytes)]
        /\ buf \in [Readers -> Seq(Bytes)]
        /\ want \in [Readers -> Sizes \cup {0}]
    BY <2>1 DEF Init
  <2>. QED  BY <2>2, <2>3 DEF Init, TypeOK
<1>. QED  BY <1>1 DEF Init, Inductive, NoLostWakeup, CallsInProgress

\* Every step of a reader or a writer keeps the invariant.
LEMMA InductiveStep == Inductive /\ [Next]_vars => Inductive'
<1>. SUFFICES ASSUME Inductive, [Next]_vars PROVE Inductive'
  OBVIOUS
<1>. USE DEF Inductive
<1>1. ASSUME UNCHANGED <<data, nread, nwritten, status, src, want, buf>>,
             panicked' \in BOOLEAN
      PROVE  Inductive'
  <2>1. Used' = Used /\ (Empty' <=> Empty) /\ (Full' <=> Full)
    BY <1>1 DEF Used, Empty, Full
  <2>. QED  BY <1>1, <2>1 DEF TypeOK, NoLostWakeup, CallsInProgress
<1>2. ASSUME NEW w \in Writers, WriteWoken(w) PROVE Inductive'
  <2>1. src[w] \in Seq(Bytes)
    BY DEF TypeOK
  <2>. QED  BY <1>2, <2>1, WriteKeeps DEF WriteWoken
<1>3. ASSUME NEW w \in Writers, NEW s \in Texts, WriteCall(w, s) PROVE Inductive'
  BY <1>1, <1>3, WriteKeeps, TextsAreSeqs DEF WriteCall, Asserted
<1>4. ASSUME NEW r \in Readers, ReadWoken(r) PROVE Inductive'
  <2>1. want[r] \in Sizes
    BY <1>4 DEF ReadWoken, CallsInProgress
  <2>. QED  BY <1>4, <2>1, ReadKeeps DEF ReadWoken
<1>5. ASSUME NEW r \in Readers, NEW n \in Sizes, ReadCall(r, n) PROVE Inductive'
  BY <1>1, <1>5, ReadKeeps DEF ReadCall, Asserted
<1>6. CASE UNCHANGED vars
  BY <1>1, <1>6 DEF vars, TypeOK
<1>. QED  BY <1>2, <1>3, <1>4, <1>5, <1>6 DEF Next, Halted

\* The invariant of the pipe holds in every state of every execution of
\* pipe_write and pipe_read.
THEOREM PipeInvariant == Spec => []Inductive
BY InductiveInit, InductiveStep, PTL DEF Spec

\* No wakeup of pipe.c is lost, with any number of readers and writers, any size of
\* the ring and any sizes of the calls: whoever sleeps has a reason to.
THEOREM PipeNoLostWakeup == Spec => []NoLostWakeup
<1>1. Inductive => NoLostWakeup
  BY DEF Inductive
<1>. QED  BY <1>1, PipeInvariant, PTL

----------------------------------------------------------------------------
(* The queue *)

\* A new pipe is an empty queue.
LEMMA QueueInit == Init => Queue!QInit
<1>. SUFFICES ASSUME Init PROVE Queue!QInit
  OBVIOUS
<1>1. Contents = <<>>
  BY InitEmpty, ContentsSeq, InductiveInit, EmptySeq DEF Inductive
<1>. QED  BY <1>1 DEF Init, Queue!QInit

\* pipe_write, up to its end or its sleep, enters bytes in the queue.
LEMMA QueuePut ==
  ASSUME Inductive, NEW w \in Writers, NEW s \in Seq(Bytes), Write(w, s)
  PROVE  Queue!Enter(w, s)
<1>1. /\ Copied(s) \in 0 .. Len(s)
      /\ Len(Contents) + Copied(s) <= PIPESZ
  BY CopiedValue, ContentsSeq DEF Inductive
<1>2. Contents' = Contents \o SubSeq(s, 1, Copied(s))
  BY WriteContents DEF Inductive
<1>3. src' = [src EXCEPT ![w] = SubSeq(s, Copied(s) + 1, Len(s))] /\ buf' = buf
  BY DEF Write, Copied
<1>. QED  BY <1>1, <1>2, <1>3 DEF Queue!Enter, Queue!Portion, Queue!Rest

\* pipe_read takes bytes off the queue, or sleeps, which the queue does not see.
LEMMA QueueTake ==
  ASSUME Inductive, NEW r \in Readers, NEW n \in Sizes, Read(r, n)
  PROVE  Queue!Take(r, n) \/ UNCHANGED <<Contents, src, buf>>
<1>. n \in Nat
  BY PipeAssumption
<1>. USE DEF Inductive
<1>1. CASE Empty
  BY <1>1 DEF Read, Contents, Used
<1>2. CASE ~Empty
  <2>1. Taken(n) = IF n < Len(Contents) THEN n ELSE Len(Contents)
    BY ContentsSeq DEF Taken, Min
  <2>2. Contents # <<>>
    BY <1>2, ContentsSeq, UsedValue, EmptySeq
  <2>3. Contents' = SubSeq(Contents, Taken(n) + 1, Len(Contents))
    BY <1>2, ReadContents
  <2>4. buf' = [buf EXCEPT ![r] = SubSeq(Contents, 1, Taken(n))]
    BY <1>2, ReadBuf
  <2>5. src' = src
    BY <1>2 DEF Read
  <2>. QED  BY <2>1, <2>2, <2>3, <2>4, <2>5 DEF Queue!Take, Queue!Portion, Queue!Rest
<1>. QED  BY <1>1, <1>2

\* Every step of the pipe is a step of the queue or leaves the queue alone.
LEMMA QueueStep ==
  Inductive /\ [Next]_vars => [Queue!QNext]_(Queue!qvars)
<1>. SUFFICES ASSUME Inductive, [Next]_vars
              PROVE  Queue!QNext \/ UNCHANGED <<Contents, src, buf>>
  BY DEF Queue!qvars
<1>1. ASSUME UNCHANGED <<data, nread, nwritten, src, buf>>
      PROVE  UNCHANGED <<Contents, src, buf>>
  BY <1>1 DEF Contents, Used
<1>2. ASSUME NEW w \in Writers, WriteWoken(w) PROVE Queue!Put(w)
  <2>1. src[w] \in Seq(Bytes) /\ src[w] # <<>>
    BY <1>2 DEF WriteWoken, Inductive, TypeOK, CallsInProgress
  <2>2. Queue!Enter(w, src[w])
    BY <1>2, <2>1, QueuePut DEF WriteWoken
  <2>. QED  BY <2>1, <2>2 DEF Queue!Put
<1>3. ASSUME NEW w \in Writers, NEW s \in Texts, WriteCall(w, s)
      PROVE  Queue!Put(w) \/ UNCHANGED <<Contents, src, buf>>
  <2>1. CASE nread <= nwritten
    <3>1. src[w] = <<>>
      BY <1>3 DEF WriteCall, Inductive, CallsInProgress
    <3>2. Queue!Enter(w, s)
      BY <1>3, <2>1, QueuePut, TextsAreSeqs DEF WriteCall, Asserted
    <3>. QED  BY <3>1, <3>2 DEF Queue!Put, Queue!Texts, Texts
  <2>2. CASE ~ (nread <= nwritten)
    BY <1>1, <1>3, <2>2 DEF WriteCall, Asserted
  <2>. QED  BY <2>1, <2>2
<1>4. ASSUME NEW r \in Readers, ReadWoken(r)
      PROVE  Queue!QNext \/ UNCHANGED <<Contents, src, buf>>
  <2>1. want[r] \in Sizes
    BY <1>4 DEF ReadWoken, Inductive, CallsInProgress
  <2>. QED  BY <1>4, <2>1, QueueTake DEF ReadWoken, Queue!QNext
<1>5. ASSUME NEW r \in Readers, NEW n \in Sizes, ReadCall(r, n)
      PROVE  Queue!QNext \/ UNCHANGED <<Contents, src, buf>>
  BY <1>1, <1>5, QueueTake DEF ReadCall, Asserted, Queue!QNext
<1>6. CASE UNCHANGED vars
  BY <1>1, <1>6 DEF vars
<1>. QED  BY <1>2, <1>3, <1>4, <1>5, <1>6 DEF Next, Halted, Queue!QNext

\* The ring and its counters implement a queue of PIPESZ bytes: every byte written is
\* read once and in order, also across the wrap of the ring and of the counters.
THEOREM PipeIsQueue == Spec => ImplementsQueue
BY QueueInit, QueueStep, PipeInvariant, PTL DEF Spec, ImplementsQueue, Queue!QSpec
=============================================================================
