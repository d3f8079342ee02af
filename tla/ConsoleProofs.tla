--------------------------- MODULE ConsoleProofs ---------------------------
(***************************************************************************)
(* Proofs about the console: for every size of the line buffer, all readers *)
(* and all sizes of reads, a line that is typed and edited is the line      *)
(* that is read.                                                            *)
(***************************************************************************)
EXTENDS MCConsole, SequenceTheorems, WellFoundedInduction, TLAPS

----------------------------------------------------------------------------
(* Helpers *)

\* The constants.
LEMMA Constants ==
  /\ LINE_BUF_SZ \in Nat /\ LINE_BUF_SZ > 0 /\ Sizes \subseteq Nat
  /\ NULL \notin Readers
BY ConsoleAssumption

\* A printable character is none of the others.
LEMMA PrintableChars ==
  ASSUME NEW c \in Printable
  PROVE  c \notin {"nl", "bs", "ESC", "ctl"}
BY ConsoleAssumption DEF Printable

\* How much the copy loop copies: nothing behind the line or behind the first newline.
LEMMA CopiedValue ==
  ASSUME TypeOK, NEW n \in Nat
  PROVE  /\ Copied(n) \in 0 .. len
         /\ n >= len => \/ Copied(n) = len
                        \/ Copied(n) > 0 /\ data[Copied(n) - 1] = "nl"
<1>. DEFINE top == IF n < len THEN n ELSE len
            ends == {i \in 1 .. top : data[i - 1] = "nl"}
<1>0. len \in Nat /\ top \in 0 .. len /\ (n >= len => top = len)
  BY Constants DEF TypeOK
<1>1. CASE ends = {}
  <2>1. Copied(n) = top
    BY <1>1 DEF Copied
  <2>. QED  BY <1>0, <2>1
<1>2. CASE ends # {}
  <2>1. ends \in SUBSET Nat
    BY <1>0
  <2>2. PICK x \in ends : \A y \in ends : ~ (<<y, x>> \in OpToRel(<, Nat))
    BY <1>2, <2>1, NatLessThanWellFounded, WFMin
  <2>3. \A y \in ends : ~ (y < x)
    BY <2>1, <2>2, Zenon DEF OpToRel
  <2>4. \A y \in ends : x <= y
    BY <2>1, <2>3
  <2>5. Copied(n) = CHOOSE i \in ends : \A j \in ends : i <= j
    BY <1>2 DEF Copied
  <2>. HIDE DEF ends
  <2>6. Copied(n) \in ends
    BY <2>4, <2>5, Zenon
  <2>7. Copied(n) \in 1 .. top /\ data[Copied(n) - 1] = "nl"
    BY <2>6 DEF ends
  <2>. QED  BY <1>0, <2>7
<1>. QED  BY <1>1, <1>2

----------------------------------------------------------------------------
(* Types *)

\* The line discipline keeps the types of the buffer.
LEMMA HandleTypes ==
  ASSUME TypeOK, NEW c \in Chars, Interrupt(c), Line
  PROVE  TypeOK'
<1>. USE Constants
<1>0. /\ len \in Nat /\ len < LINE_BUF_SZ
      /\ UNCHANGED <<held, cpu, want, result>> /\ ninput' \in Nat
      /\ "nl" \in Chars
  <2>1. len \in 0 .. LINE_BUF_SZ /\ len # LINE_BUF_SZ
    BY DEF Interrupt, TypeOK, Line
  <2>2. UNCHANGED <<held, cpu, want, result>> /\ ninput' \in Nat
    BY DEF Interrupt, TypeOK
  <2>3. "nl" \in Chars
    BY DEF Chars
  <2>. QED  BY <2>1, <2>2, <2>3
<1>1. ASSUME Newline PROVE TypeOK'
  <2>1. pc' \in [Readers -> PCs]
    BY <1>1 DEF Newline, Woken, TypeOK, PCs
  <2>2. data' \in [0 .. LINE_BUF_SZ - 1 -> Chars \cup {"nul"}]
    BY <1>0, <1>1 DEF Newline, TypeOK
  <2>. QED  BY <1>0, <1>1, <2>1, <2>2 DEF Newline, TypeOK
<1>2. ASSUME Backspace PROVE TypeOK'
  BY <1>0, <1>2 DEF Backspace, TypeOK
<1>3. ASSUME Insert(c) PROVE TypeOK'
  <2>1. data' \in [0 .. LINE_BUF_SZ - 1 -> Chars \cup {"nul"}]
    BY <1>0, <1>3 DEF Insert, Store, TypeOK
  <2>. QED  BY <1>0, <1>3, <2>1 DEF Insert, TypeOK
<1>4. ASSUME NEW s \in {"NORMAL", "ESC", "ESC_BRACKET"}, EscState(s) PROVE TypeOK'
  BY <1>0, <1>4 DEF EscState, TypeOK
<1>5. ASSUME Arrow(c) PROVE TypeOK'
  <2>1. cursor' \in Int /\ cursor' <= len
    BY <1>0, <1>5 DEF Arrow, TypeOK
  <2>. QED  BY <1>0, <1>5, <2>1 DEF Arrow, TypeOK
<1>6. Handle(c)
  BY DEF Interrupt
<1>7. CASE esc # "NORMAL"
  BY <1>4, <1>5, <1>6, <1>7 DEF Handle, TypeOK
<1>8. CASE esc = "NORMAL"
  BY <1>1, <1>2, <1>3, <1>4, <1>6, <1>8, PrintableChars DEF Handle
<1>. QED  BY <1>7, <1>8

\* The rest of the kernel keeps them too.
LEMMA KernelTypes ==
  ASSUME TypeOK, NEW r \in Readers, KernelStep(r)
  PROVE  TypeOK'
<1>. USE Constants
<1>1. CASE TestFull(r)
  <2>1. want[r] \in Nat
    <3>1. want[r] \in Sizes \cup {0}
      BY DEF TypeOK
    <3>2. \A n \in Sizes \cup {0} : n \in Nat
      OBVIOUS
    <3>. QED  BY <3>1, <3>2
  <2>2. PICK k \in 0 .. len : k = Copied(want[r])
    BY <2>1, CopiedValue
  <2>3. /\ data' = [i \in DOMAIN data |-> IF i + k < len THEN data[i + k] ELSE data[i]]
        /\ len' = len - k /\ cursor' = len - k /\ nnewline' = nnewline - 1
        /\ nnewline # 0
        /\ pc' = [pc EXCEPT ![r] = "user"] /\ held' = {} /\ cpu' = NULL
        /\ result' = [result EXCEPT ![r] = [i \in 1 .. k |-> data[i - 1]]]
        /\ UNCHANGED <<esc, want, ninput, panicked>>
    BY <1>1, <2>2 DEF TestFull, Goto
  <2>4. data' \in [0 .. LINE_BUF_SZ - 1 -> Chars \cup {"nul"}]
    BY <2>3 DEF TypeOK
  <2>5. /\ len' \in 0 .. LINE_BUF_SZ /\ cursor' \in Int /\ cursor' <= len'
        /\ nnewline' \in Nat
    BY <2>3 DEF TypeOK
  <2>6. result' \in [Readers -> Seq(Chars \cup {"nul"})]
    <3>1. \A i \in 1 .. k : data[i - 1] \in Chars \cup {"nul"}
      BY DEF TypeOK
    <3>2. [i \in 1 .. k |-> data[i - 1]] \in Seq(Chars \cup {"nul"})
      BY <3>1
    <3>. QED  BY <2>3, <3>2 DEF TypeOK
  <2>. QED  BY <2>3, <2>4, <2>5, <2>6 DEF TypeOK, PCs
<1>2. CASE ~TestFull(r)
  <2>1. UNCHANGED <<buffer, want, result, ninput, panicked>> /\ \E l \in PCs : Goto(r, l)
    BY <1>2 DEF KernelStep, Lock, TestEmpty, SleepLock, SleepUnlock, SleepCommit,
       Resume, PCs
  <2>2. pc' \in [Readers -> PCs]
    BY <2>1 DEF TypeOK, Goto
  <2>3. held' \subseteq {"line", "ptable"} /\ cpu' \in Readers \cup {NULL}
    BY <1>2 DEF KernelStep, Lock, TestEmpty, SleepLock, SleepUnlock, SleepCommit,
       Resume,
                SleepLocks, TypeOK
  <2>. QED  BY <2>1, <2>2, <2>3 DEF TypeOK, buffer
<1>. QED  BY <1>1, <1>2

----------------------------------------------------------------------------
(* The line *)

\* There is room in the buffer as long as the machine runs.
LEMMA NotFull ==
  ASSUME TypeOK, Line, ~panicked
  PROVE  len \in Nat /\ len < LINE_BUF_SZ
<1>1. len \in 0 .. LINE_BUF_SZ /\ len # LINE_BUF_SZ
  BY DEF TypeOK, Line
<1>. QED  BY <1>1, Constants

\* A panic is the Enter that fills the buffer, and no other character.
LEMMA PanicWhenFull ==
  ASSUME TypeOK, Line, NEW c \in Chars, Interrupt(c)
  PROVE  (panicked' <=> len' = LINE_BUF_SZ)
<1>0. len \in Nat /\ len < LINE_BUF_SZ /\ ~panicked
  BY NotFull DEF Interrupt
<1>1. Handle(c)
  BY DEF Interrupt
<1>2. ASSUME Newline PROVE (panicked' <=> len' = LINE_BUF_SZ)
  BY <1>2 DEF Newline
<1>3. ASSUME Backspace \/ Insert(c) PROVE (panicked' <=> len' = LINE_BUF_SZ)
  <2>1. panicked' = panicked /\ len' # LINE_BUF_SZ
    BY <1>0, <1>3, Constants DEF Backspace, Insert
  <2>. QED  BY <1>0, <2>1
<1>4. ASSUME Arrow(c) \/ \E s : EscState(s) PROVE (panicked' <=> len' = LINE_BUF_SZ)
  <2>1. panicked' = panicked /\ len' = len
    BY <1>4 DEF Arrow, EscState
  <2>2. len' # LINE_BUF_SZ
    BY <1>0, <2>1, Constants
  <2>. QED  BY <1>0, <2>1, <2>2
<1>5. CASE esc # "NORMAL"
  BY <1>1, <1>4, <1>5 DEF Handle, TypeOK
<1>6. CASE esc = "NORMAL"
  BY <1>1, <1>2, <1>3, <1>4, <1>6, PrintableChars DEF Handle
<1>. QED  BY <1>5, <1>6

\* While the line is plain, each character does to the buffer what it does to the
\* line on the screen.
LEMMA InterruptKeepsLine ==
  ASSUME Inductive, NEW c \in Chars, MCInterrupt(c)
  PROVE  Inductive'
<1>0. /\ TypeOK' /\ (panicked' <=> len' = LINE_BUF_SZ) /\ plain' \in BOOLEAN
      /\ len \in Nat /\ len < LINE_BUF_SZ
  <2>1. TypeOK' /\ (panicked' <=> len' = LINE_BUF_SZ)
    BY HandleTypes, PanicWhenFull DEF Inductive, MCInterrupt
  <2>2. plain' \in BOOLEAN
    BY DEF MCInterrupt, Inductive
  <2>3. len \in Nat /\ len < LINE_BUF_SZ
    BY NotFull DEF MCInterrupt, Interrupt, Inductive
  <2>. QED  BY <2>1, <2>2, <2>3
<1>1. CASE ~plain'
  BY <1>0, <1>1 DEF Inductive, Line
<1>2. CASE plain'
  <2>0. /\ plain /\ nnewline = 0 /\ esc = "NORMAL" /\ c # "ESC"
        /\ typed' = Typed(c) /\ Handle(c)
        /\ typed = [i \in 1 .. len |-> data[i - 1]] /\ cursor = len
        /\ \A i \in 0 .. len - 1 : data[i] # "nl"
        /\ DOMAIN data = 0 .. LINE_BUF_SZ - 1
        /\ data \in [0 .. LINE_BUF_SZ - 1 -> Chars \cup {"nul"}]
    BY <1>0, <1>2 DEF MCInterrupt, Interrupt, Inductive, Line, TypeOK
  <2>1. /\ \A i \in 1 .. len : data[i - 1] \in Chars \cup {"nul"}
        /\ typed \in Seq(Chars \cup {"nul"}) /\ Len(typed) = len
    <3>1. \A i \in 1 .. len : data[i - 1] \in Chars \cup {"nul"}
      BY <1>0, <2>0, Constants
    <3>. QED  BY <1>0, <2>0, <3>1
  <2>2. CASE c = "nl"
    <3>1. Newline /\ typed' = Append(typed, "nl")
      BY <2>0, <2>2, PrintableChars DEF Handle, Typed
    <3>2. /\ len' = len + 1 /\ nnewline' = 1 /\ cursor' = len
          /\ data'[len] = "nl" /\ \A i \in 0 .. len - 1 : data'[i] = data[i]
      BY <1>0, <2>0, <3>1, Constants DEF Newline
    <3>3. typed' = [i \in 1 .. len' |-> data'[i - 1]]
      BY <1>0, <2>0, <2>1, <3>1, <3>2
    <3>4. /\ len' - 1 = len /\ len' > 0 /\ cursor' = len' - nnewline'
          /\ data'[len' - 1] = "nl"
      BY <1>0, <3>2
    <3>5. \A i \in 0 .. len' - 2 : data'[i] # "nl"
      BY <1>0, <2>0, <3>2
    <3>. QED  BY <1>0, <3>2, <3>3, <3>4, <3>5 DEF Inductive, Line
  <2>3. CASE c = "bs"
    <3>1. Backspace /\ typed' = SubSeq(typed, 1, len - 1)
      BY <2>0, <2>1, <2>3, PrintableChars DEF Handle, Typed
    <3>2. /\ len' = (IF len > 0 THEN len - 1 ELSE len) /\ cursor' = len'
          /\ data' = data /\ nnewline' = 0
      BY <1>0, <2>0, <3>1 DEF Backspace
    <3>3. typed' = [i \in 1 .. len' |-> data'[i - 1]]
      BY <1>0, <2>0, <2>1, <3>1, <3>2
    <3>4. len' < LINE_BUF_SZ /\ cursor' = len' - nnewline'
      <4>1. len' \in Nat /\ len' <= len
        BY <1>0, <3>2
      <4>. QED  BY <1>0, <3>2, <4>1, Constants
    <3>5. \A i \in 0 .. len' - 1 : data'[i] # "nl"
      BY <1>0, <2>0, <3>2
    <3>. QED  BY <1>0, <3>2, <3>3, <3>4, <3>5 DEF Inductive, Line
  <2>4. CASE c \in Printable
    <3>1. /\ Insert(c) /\ c # "nl"
          /\ typed' = IF len < LINE_BUF_SZ - 1 THEN Append(typed, c) ELSE typed
      BY <2>0, <2>1, <2>4, PrintableChars DEF Handle, Typed
    <3>2. CASE len < LINE_BUF_SZ - 1
      <4>1. /\ len' = len + 1 /\ nnewline' = 0 /\ cursor' = len + 1
            /\ data'[len] = c /\ \A i \in 0 .. len - 1 : data'[i] = data[i]
        BY <1>0, <2>0, <3>1, <3>2, Constants DEF Insert, Store
      <4>2. typed' = [i \in 1 .. len + 1 |-> data'[i - 1]]
        BY <1>0, <2>0, <2>1, <3>1, <3>2, <4>1
      <4>3. \A i \in 0 .. len' - 1 : data'[i] # "nl"
        BY <1>0, <2>0, <3>1, <4>1
      <4>. QED  BY <1>0, <3>2, <4>1, <4>2, <4>3, Constants DEF Inductive, Line
    <3>3. CASE ~ (len < LINE_BUF_SZ - 1)
      <4>1. UNCHANGED <<data, len, nnewline, cursor, typed>>
        BY <3>1, <3>3 DEF Insert
      <4>. QED  BY <1>0, <2>0, <4>1 DEF Inductive, Line
    <3>. QED  BY <3>2, <3>3
  <2>5. CASE c = "ctl"
    <3>1. UNCHANGED <<data, len, nnewline, cursor, typed>>
      BY <2>0, <2>5, PrintableChars DEF Handle, Typed, EscState
    <3>. QED  BY <1>0, <2>0, <3>1 DEF Inductive, Line
  <2>. QED  BY <2>0, <2>2, <2>3, <2>4, <2>5 DEF Chars
<1>. QED  BY <1>0, <1>1, <1>2

\* A plain line that is read as a whole: what the loop copies.
LEMMA PlainRead ==
  ASSUME Inductive, plain, nnewline # 0, NEW n \in Nat, n >= len
  PROVE  Copied(n) = len /\ len > 0
<1>0. /\ len \in Nat /\ data[len - 1] = "nl" /\ len > 0
      /\ \A i \in 0 .. len - 2 : data[i] # "nl"
  BY DEF Inductive, Line, TypeOK
<1>1. /\ Copied(n) \in 0 .. len
      /\ \/ Copied(n) = len
         \/ Copied(n) > 0 /\ data[Copied(n) - 1] = "nl"
  BY CopiedValue DEF Inductive
<1>2. PICK k \in 0 .. len : k = Copied(n)
  BY <1>1
<1>3. ASSUME k > 0, k < len PROVE data[k - 1] # "nl"
  BY <1>0, <1>3
<1>. QED  BY <1>0, <1>1, <1>2, <1>3

\* A reader that takes a line leaves a buffer that is one.
LEMMA ReadKeepsLine ==
  ASSUME Inductive, NEW r \in Readers, MCRead(r)
  PROVE  Inductive'
<1>0. TypeOK' /\ KernelStep(r)
  BY KernelTypes DEF Inductive, MCRead
<1>1. CASE TestFull(r)
  <2>1. want[r] \in Nat
    <3>1. want[r] \in Sizes \cup {0}
      BY DEF Inductive, TypeOK
    <3>2. \A n \in Sizes \cup {0} : n \in Nat
      BY Constants
    <3>. QED  BY <3>1, <3>2
  <2>2. PICK k \in 0 .. len : k = Copied(want[r])
    BY <2>1, CopiedValue DEF Inductive
  <2>3. /\ len' = len - k /\ cursor' = len - k /\ nnewline' = nnewline - 1
        /\ panicked' = panicked /\ ~panicked /\ nnewline \in Nat
    BY <1>1, <2>2 DEF TestFull, Running, Inductive, TypeOK
  <2>4. (panicked' <=> len' = LINE_BUF_SZ)
    <3>1. len \in Nat /\ len < LINE_BUF_SZ
      BY <2>3, NotFull DEF Inductive
    <3>2. len' # LINE_BUF_SZ
      BY <2>3, <3>1, Constants
    <3>. QED  BY <2>3, <3>2
  <2>5. CASE len' = 0 /\ len # 0 /\ nnewline' = 0
    <3>1. typed' = <<>> /\ plain' = TRUE
      BY <2>5 DEF MCRead
    <3>. QED  BY <1>0, <2>3, <2>4, <2>5, <3>1, Constants DEF Inductive, Line
  <2>6. CASE ~ (len' = 0 /\ len # 0 /\ nnewline' = 0)
    <3>0. nnewline' # nnewline
      BY <2>3
    <3>1. plain' = FALSE
      BY <2>6, <3>0, Zenon DEF MCRead
    <3>. QED  BY <1>0, <2>4, <3>1 DEF Inductive, Line
  <2>. QED  BY <2>5, <2>6
<1>2. CASE ~TestFull(r)
  <2>1. UNCHANGED <<data, len, cursor, nnewline, panicked>>
    BY <1>0, <1>2 DEF KernelStep, Lock, TestEmpty, SleepLock, SleepUnlock, SleepCommit,
                      Resume, buffer
  <2>2. typed' = typed /\ plain' = plain
    BY <2>1 DEF MCRead, Inductive
  <2>. QED  BY <1>0, <2>1, <2>2 DEF Inductive, Line
<1>. QED  BY <1>1, <1>2

\* The console starts with an empty line.
LEMMA InductiveInit == MCInit => Inductive
<1>. SUFFICES ASSUME MCInit PROVE Inductive
  OBVIOUS
<1>1. /\ data \in [0 .. LINE_BUF_SZ - 1 -> Chars \cup {"nul"}]
      /\ pc \in [Readers -> PCs]
      /\ result \in [Readers -> Seq(Chars \cup {"nul"})]
  BY EmptySeq DEF MCInit, Init, PCs
<1>2. /\ len \in 0 .. LINE_BUF_SZ /\ cursor \in Int /\ cursor <= len /\ nnewline \in Nat
      /\ ninput \in Nat /\ want \in [Readers -> Sizes \cup {0}]
  BY Constants DEF MCInit, Init
<1>3. TypeOK
  BY <1>1, <1>2 DEF MCInit, Init, TypeOK
<1>4. /\ len # LINE_BUF_SZ /\ len < LINE_BUF_SZ /\ 0 - 0 = 0
      /\ \A i \in 0 .. len - 1 : data[i] # "nl"
      /\ typed = [i \in 1 .. len |-> data[i - 1]] /\ cursor = len - nnewline
  BY Constants DEF MCInit, Init
<1>5. Line
  BY <1>4 DEF MCInit, Init, Line
<1>. QED  BY <1>3, <1>5 DEF MCInit, Inductive

\* All the steps together.
LEMMA InductiveStep == Inductive /\ [MCNext]_mcvars => Inductive'
<1>. SUFFICES ASSUME Inductive, [MCNext]_mcvars PROVE Inductive'
  OBVIOUS
<1>1. ASSUME NEW r \in Readers, NEW n \in Sizes, ReadCall(r, n), UNCHANGED <<typed, plain>>
      PROVE  Inductive'
  <2>1. TypeOK'
    BY <1>1 DEF ReadCall, Goto, PCs, Inductive, TypeOK, buffer
  <2>. QED  BY <1>1, <2>1 DEF ReadCall, Inductive, Line, buffer
<1>2. CASE UNCHANGED mcvars
  BY <1>2 DEF mcvars, vars, buffer, Inductive, TypeOK, Line
<1>. QED  BY <1>1, <1>2, InterruptKeepsLine, ReadKeepsLine
          DEF MCNext, Halted, Quiet, mcvars

\* While nothing is typed after Enter and no arrow is used, the buffer, its cursor and
\* its newline are those of the line as it is typed.
THEOREM ConsoleInvariant == MCSpec => []Inductive
BY InductiveInit, InductiveStep, PTL DEF MCSpec

\* The interrupt handler keeps the line that the user sees, and its cursor inside the
\* buffer.
THEOREM LineKept == MCSpec => []BufferIsLine
<1>1. Inductive => BufferIsLine
  <2>. SUFFICES ASSUME Inductive, plain PROVE BufferIsLine
    BY DEF BufferIsLine
  <2>1. /\ len \in 0 .. LINE_BUF_SZ /\ DOMAIN data = 0 .. LINE_BUF_SZ - 1
        /\ typed = [i \in 1 .. len |-> data[i - 1]] /\ cursor = len - nnewline
        /\ panicked = (len = LINE_BUF_SZ) /\ nnewline \in Nat
        /\ (nnewline = 0 /\ len < LINE_BUF_SZ) \/ (nnewline = 1 /\ len > 0)
    BY DEF Inductive, TypeOK, Line
  <2>2. cursor \in 0 .. LINE_BUF_SZ - 1
    BY <2>1, Constants
  <2>. QED  BY <2>1, <2>2 DEF BufferIsLine
<1>. QED  BY <1>1, ConsoleInvariant, PTL

\* A large enough read returns the line as it was edited, and leaves the buffer empty.
THEOREM LineRead == MCSpec => LineDelivered
<1>1. Inductive /\ [MCNext]_mcvars =>
        [\A r \in Readers : TestFull(r) /\ plain /\ want[r] >= Len(typed) =>
           result'[r] = typed /\ len' = 0]_mcvars
  <2>. SUFFICES ASSUME Inductive, NEW r \in Readers, TestFull(r), plain,
                       want[r] >= Len(typed)
                PROVE  result'[r] = typed /\ len' = 0
    OBVIOUS
  <2>1. len \in Nat /\ typed = [i \in 1 .. len |-> data[i - 1]] /\ Len(typed) = len
    BY DEF Inductive, TypeOK, Line
  <2>2. PICK n \in Nat : n = want[r]
    <3>1. want[r] \in Sizes \cup {0}
      BY DEF Inductive, TypeOK
    <3>2. \A m \in Sizes \cup {0} : m \in Nat
      BY Constants
    <3>. QED  BY <3>1, <3>2
  <2>3. Copied(n) = len
    BY <2>1, <2>2, PlainRead DEF TestFull
  <2>4. /\ result' = [result EXCEPT ![r] = [i \in 1 .. len |-> data[i - 1]]]
        /\ len' = len - len
    BY <2>2, <2>3 DEF TestFull
  <2>. QED  BY <2>1, <2>4 DEF Inductive, TypeOK
<1>. QED  BY <1>1, ConsoleInvariant, PTL DEF MCSpec, LineDelivered
=============================================================================
