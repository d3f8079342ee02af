--------------------------- MODULE ProcessProofs ---------------------------
(***************************************************************************)
(* Proofs about the process table, for every NPROC and every set Chan.     *)
(***************************************************************************)
EXTENDS MCProcess, WellFoundedInduction, TLAPS

----------------------------------------------------------------------------
(* Lemmas *)

\* The scans of the table find a slot when there is one.
LEMMA FirstOfIn ==
  ASSUME NEW S \in SUBSET Nat, S # {}
  PROVE  FirstOf(S) \in S
<1>1. \E x \in S : \A y \in S : ~ (<<y, x>> \in OpToRel(<, Nat))
  BY NatLessThanWellFounded, WFMin, Zenon
<1>2. PICK x \in S : \A y \in S : ~ (<<y, x>> \in OpToRel(<, Nat))
  BY <1>1, Zenon
<1>3. \A y \in S : ~ (y < x)
  BY <1>2, Zenon DEF OpToRel
<1>4. \A y \in S : x <= y
  BY <1>3
<1>. QED  BY <1>4, Zenon DEF FirstOf

\* A slot is neither the null pointer nor a channel.
LEMMA SlotsDistinct ==
  \A s \in Slots : s \in Nat /\ s # NULL /\ s \notin Chan
BY NPROCAssumption, NULLAssumption, ChanAssumption DEF Slots

\* wakeup() changes nothing but sleepers on its channel.
LEMMA WakenedState ==
  ASSUME NEW st \in [Slots -> States], NEW c
  PROVE  /\ Wakened(st, c) \in [Slots -> States]
         /\ \A s \in Slots : Wakened(st, c)[s] =
              IF st[s] = "SLEEPING" /\ chan[s] = c THEN "READY" ELSE st[s]
BY DEF Wakened, States

\* A process on the CPU: what the invariant says about its slot.
LEMMA Running ==
  ASSUME Inductive, proc # NULL
  PROVE  /\ proc \in Slots /\ state[proc] = "RUNNING" /\ scan = proc
         /\ proc \in Alive /\ proc \in Exists
         /\ scan + 1 \in 0 .. NPROC
BY NPROCAssumption, NULLAssumption
   DEF Inductive, TypeOK, SchedInv, OneRunning, ScanAtProc, Slots, Alive, Exists

\* A step that only moves live processes between READY, RUNNING and SLEEPING
\* leaves the tree, the pids and the pages as they are.
LEMMA LiveStep ==
  ASSUME Inductive, state' \in [Slots -> States],
         UNCHANGED <<pid, parent, pages, nextpid, init1>>,
         \A s \in Slots : state'[s] = state[s] \/ (s \in Alive /\ s \in Alive')
  PROVE  TableInv'
<1>1. Alive' = Alive /\ Exists' = Exists
  BY DEF Alive, Exists
<1>2. \A s \in Slots : state'[s] = "UNUSED" <=> state[s] = "UNUSED"
  BY DEF Alive
<1>. QED
  BY <1>1, <1>2 DEF Inductive, TableInv, NoPageLeak, PidsUnique, PidsBelowNext,
     InitLives, HasLiveParent, ParentOlder, ParentOfProcess, Children

----------------------------------------------------------------------------
(* The invariant is inductive *)

\* The table that init_pid1 leaves behind.
LEMMA InitInductive == Init => Inductive
<1>. SUFFICES ASSUME Init PROVE Inductive
  OBVIOUS
<1>. USE NPROCAssumption, NULLAssumption DEF Init, Slots, Alive, Exists
<1>1. TypeOK
  BY DEF TypeOK, States, PCs, Panics
<1>2. TableInv
  BY DEF TableInv, NoPageLeak, PidsUnique, PidsBelowNext, InitLives,
         HasLiveParent, ParentOlder, ParentOfProcess
<1>3. SchedInv
  BY DEF SchedInv, OneRunning, ScanAtProc, ResumePoint, ForkInProgress,
         NoLostExit, NoInternalPanic
<1>. QED  BY <1>1, <1>2, <1>3 DEF Inductive

\* A stuttering step.
LEMMA StutterInductive == Inductive /\ UNCHANGED vars => Inductive'
<1>. SUFFICES ASSUME Inductive, UNCHANGED vars PROVE Inductive'
  OBVIOUS
<1>1. TypeOK'
  BY DEF Inductive, TypeOK, vars
<1>2. TableInv'
  BY LiveStep DEF Inductive, TypeOK, vars
<1>3. SchedInv'
  <2>. SUFFICES ASSUME SchedInv PROVE SchedInv'
    BY Zenon DEF Inductive
  <2>1. OneRunning'
    BY Zenon DEF SchedInv, OneRunning, vars
  <2>2. ScanAtProc' /\ NoInternalPanic'
    BY Zenon DEF SchedInv, ScanAtProc, NoInternalPanic, vars
  <2>3. ResumePoint'
    BY Zenon DEF SchedInv, ResumePoint, vars
  <2>4. ForkInProgress'
    BY Zenon DEF SchedInv, ForkInProgress, vars
  <2>5. NoLostExit'
    BY Zenon DEF SchedInv, NoLostExit, Children, Exists, vars
  <2>. QED  BY <2>1, <2>2, <2>3, <2>4, <2>5, Zenon DEF SchedInv
<1>. QED  BY <1>1, <1>2, <1>3 DEF Inductive

\* panic(): nothing but the message changes.
LEMMA PanicInductive ==
  ASSUME Inductive, NEW msg \in {"allocate_process", "init1 exiting"}, Panic(msg)
  PROVE  Inductive'
<1>1. TypeOK'
  BY Zenon DEF Inductive, TypeOK, Panic, table, Panics
<1>2. TableInv'
  BY LiveStep, Zenon DEF Inductive, TypeOK, Panic, table
<1>3. SchedInv'
  BY ZenonT(30) DEF Inductive, SchedInv, OneRunning, ScanAtProc, ResumePoint,
     ForkInProgress, NoLostExit, NoInternalPanic, Children, Panic, table
<1>. QED  BY <1>1, <1>2, <1>3, Zenon DEF Inductive

\* A step of the kernel code of the running process that changes only its pc,
\* from one place outside fork() to another.
LEMMA GotoInductive ==
  ASSUME Inductive, proc # NULL, pc[proc] # "fork",
         NEW l \in {"user", "syscall", "trap"}, Goto(l),
         UNCHANGED <<table, nextpid, init1, proc, scan, child, panic>>
  PROVE  Inductive'
<1>0. proc \in Slots /\ state[proc] = "RUNNING"
  BY Running
<1>1. TypeOK'
  BY DEF Inductive, TypeOK, Goto, table, PCs
<1>2. TableInv'
  BY LiveStep DEF Inductive, TypeOK, table
<1>3. ResumePoint'
  BY <1>0 DEF Inductive, TypeOK, SchedInv, ResumePoint, Goto, table
<1>4. ForkInProgress'
  BY <1>0 DEF Inductive, TypeOK, SchedInv, ForkInProgress, Goto, table
<1>5. (OneRunning /\ ScanAtProc /\ NoLostExit /\ NoInternalPanic)'
  BY Zenon DEF Inductive, SchedInv, OneRunning, ScanAtProc, NoLostExit,
     NoInternalPanic, Children, table
<1>. QED  BY <1>1, <1>2, <1>3, <1>4, <1>5 DEF Inductive, SchedInv

\* The scheduler's loop.
LEMMA SchedulerInductive ==
  Inductive /\ (SchedulerPass \/ SchedulerSkip \/ SchedulerRun) => Inductive'
<1>. USE NPROCAssumption, NULLAssumption
<1>1. ASSUME Inductive, SchedulerPass \/ SchedulerSkip PROVE Inductive'
  <2>0. scan' \in 0 .. NPROC
    BY <1>1 DEF Inductive, TypeOK, SchedulerPass, SchedulerSkip
  <2>1. TypeOK'
    BY <1>1, <2>0 DEF Inductive, TypeOK, SchedulerPass, SchedulerSkip, table
  <2>2. TableInv'
    BY <1>1, LiveStep DEF Inductive, TypeOK, SchedulerPass, SchedulerSkip, table
  <2>3. SchedInv'
    <3>1. ScanAtProc'
      BY <1>1 DEF ScanAtProc, SchedulerPass, SchedulerSkip
    <3>2. UNCHANGED <<state, pid, parent, chan, pages, pc, nextpid, proc, child,
                      panic>>
      BY <1>1 DEF SchedulerPass, SchedulerSkip, table
    <3>. QED
      BY <1>1, <3>1, <3>2, ZenonT(30) DEF Inductive, SchedInv, OneRunning, ResumePoint,
         ForkInProgress, NoLostExit, NoInternalPanic, Children
  <2>. QED  BY <2>1, <2>2, <2>3 DEF Inductive
<1>2. ASSUME Inductive, SchedulerRun PROVE Inductive'
  <2>0. /\ scan \in Slots /\ proc = NULL /\ proc' = scan
        /\ state[scan] = "READY" /\ state' = [state EXCEPT ![scan] = "RUNNING"]
        /\ UNCHANGED panic
    BY <1>2 DEF Inductive, TypeOK, TableInv, NoPageLeak, SchedulerRun, Exists,
       Slots
  <2>. USE <2>0
  <2>1. TypeOK'
    BY <1>2 DEF Inductive, TypeOK, SchedulerRun, States
  <2>2. TableInv'
    BY <1>2, LiveStep DEF Inductive, TypeOK, SchedulerRun, Alive, States
  <2>3. (OneRunning /\ ScanAtProc /\ NoInternalPanic)'
    BY <1>2 DEF Inductive, TypeOK, SchedInv, OneRunning, ScanAtProc,
       NoInternalPanic, SchedulerRun, Slots
  <2>4. ResumePoint'
    BY <1>2 DEF Inductive, TypeOK, SchedInv, ResumePoint, SchedulerRun
  <2>5. ForkInProgress'
    BY <1>2, Zenon DEF Inductive, TypeOK, SchedInv, ResumePoint, ForkInProgress,
       SchedulerRun, Slots
  <2>6. NoLostExit'
    BY <1>2 DEF Inductive, TypeOK, SchedInv, NoLostExit, Children, SchedulerRun
  <2>. QED  BY <2>1, <2>2, <2>3, <2>4, <2>5, <2>6 DEF Inductive, SchedInv
<1>. QED  BY <1>1, <1>2

\* forkret, the end of yield() and the end of a sleep: the process is running,
\* so its pc is not "zombie" and the panic of exit() is out of reach.
LEMMA SwitchedInductive ==
  Inductive /\ (SwitchedTo \/ SleepReturn) => Inductive'
<1>1. ASSUME Inductive, SwitchedTo PROVE Inductive'
  <2>1. pc[proc] # "zombie" /\ pc[proc] # "fork" /\ proc # NULL
    BY <1>1, Running, Zenon DEF SwitchedTo, At, Inductive, SchedInv, ResumePoint
  <2>2. /\ Goto("user")
        /\ UNCHANGED <<table, nextpid, init1, proc, scan, child, panic>>
    BY <1>1, <2>1 DEF SwitchedTo
  <2>. QED  BY <1>1, <2>1, <2>2, GotoInductive
<1>2. ASSUME Inductive, SleepReturn PROVE Inductive'
  <2>0. proc \in Slots /\ proc # NULL /\ pc[proc] = "sleep" /\ state[proc] = "RUNNING"
    BY <1>2, Running DEF SleepReturn, At
  <2>1. TypeOK'
    BY <1>2, Zenon DEF Inductive, TypeOK, SleepReturn, Goto, PCs
  <2>2. TableInv'
    BY <1>2, LiveStep DEF Inductive, TypeOK, SleepReturn
  <2>3. ResumePoint'
    BY <1>2, <2>0 DEF Inductive, TypeOK, SchedInv, ResumePoint, SleepReturn, Goto
  <2>4. ForkInProgress'
    BY <1>2, <2>0 DEF Inductive, TypeOK, SchedInv, ForkInProgress, SleepReturn,
       Goto
  <2>5. NoLostExit'
    BY <1>2, <2>0 DEF Inductive, TypeOK, SchedInv, NoLostExit, Children,
       SleepReturn
  <2>6. (OneRunning /\ ScanAtProc /\ NoInternalPanic)'
    BY <1>2, Zenon DEF Inductive, SchedInv, OneRunning, ScanAtProc, NoInternalPanic,
       SleepReturn
  <2>. QED  BY <2>1, <2>2, <2>3, <2>4, <2>5, <2>6 DEF Inductive, SchedInv
<1>. QED  BY <1>1, <1>2

\* wakeup(c), in a system call or in an interrupt handler.  Processes in wait()
\* sleep on slots, which are no channels, and so are not disturbed.
LEMMA WakeupInductive ==
  ASSUME Inductive, NEW c \in Chan, state' = Wakened(state, c),
         UNCHANGED <<pid, parent, chan, killed, pages, pc, nextpid, init1, proc,
                     scan, child, panic>>
  PROVE  Inductive'
<1>0. /\ state' \in [Slots -> States]
      /\ \A s \in Slots : state'[s] =
           IF state[s] = "SLEEPING" /\ chan[s] = c THEN "READY" ELSE state[s]
  BY WakenedState DEF Inductive, TypeOK
<1>1. TypeOK'
  BY <1>0 DEF Inductive, TypeOK
<1>2. TableInv'
  BY <1>0, LiveStep DEF Alive
<1>3. ResumePoint'
  BY <1>0 DEF Inductive, SchedInv, ResumePoint
<1>4. ForkInProgress'
  BY <1>0 DEF Inductive, SchedInv, ForkInProgress
<1>5. NoLostExit'
  BY <1>0 DEF Inductive, SchedInv, NoLostExit, Children
<1>6. (OneRunning /\ ScanAtProc /\ NoInternalPanic)'
  BY <1>0, Zenon DEF Inductive, SchedInv, OneRunning, ScanAtProc, NoInternalPanic
<1>. QED  BY <1>1, <1>2, <1>3, <1>4, <1>5, <1>6 DEF Inductive, SchedInv

\* yield(), with the states st that a wakeup before it may have changed.
LEMMA YieldInductive ==
  ASSUME Inductive, proc # NULL, pc[proc] # "fork",
         NEW c, NEW st \in {state, Wakened(state, c)}, Yield(st)
  PROVE  Inductive'
<1>0. /\ st \in [Slots -> States]
      /\ \A s \in Slots : \/ st[s] = state[s]
                          \/ /\ state[s] = "SLEEPING" /\ chan[s] = c
                             /\ st[s] = "READY"
  BY WakenedState DEF Inductive, TypeOK
<1>1. /\ state' = [st EXCEPT ![proc] = "READY"] /\ proc' = NULL
      /\ pc' = [pc EXCEPT ![proc] = "yield"] /\ scan' = scan + 1
      /\ UNCHANGED <<pid, parent, chan, killed, pages, nextpid, init1, child,
                     panic>>
  BY DEF Yield, Goto, Sched
<1>2. /\ proc \in Slots /\ state[proc] = "RUNNING" /\ proc \in Alive
      /\ scan + 1 \in 0 .. NPROC
  BY Running
<1>3. TypeOK'
  BY <1>0, <1>1, <1>2 DEF Inductive, TypeOK, States, PCs
<1>4. TableInv'
  BY <1>0, <1>1, <1>2, <1>3, LiveStep DEF TypeOK, Alive
<1>5. (OneRunning /\ ScanAtProc /\ NoInternalPanic)'
  BY <1>0, <1>1, <1>2, SlotsDistinct, Zenon DEF Inductive, SchedInv, OneRunning,
     ScanAtProc, NoInternalPanic
<1>6. ResumePoint'
  BY <1>0, <1>1, <1>2 DEF Inductive, TypeOK, SchedInv, ResumePoint
<1>7. ForkInProgress'
  BY <1>0, <1>1, <1>2 DEF Inductive, TypeOK, SchedInv, ForkInProgress
<1>8. NoLostExit'
  BY <1>0, <1>1, <1>2 DEF Inductive, TypeOK, SchedInv, NoLostExit, Children
<1>. QED  BY <1>3, <1>4, <1>5, <1>6, <1>7, <1>8 DEF Inductive, SchedInv

\* sleep(c, lk) on a channel.
LEMMA SleepInductive ==
  ASSUME Inductive, NEW c \in Chan, Sleep(c)
  PROVE  Inductive'
<1>1. /\ state' = [state EXCEPT ![proc] = "SLEEPING"] /\ proc' = NULL
      /\ chan' = [chan EXCEPT ![proc] = c]
      /\ pc' = [pc EXCEPT ![proc] = "sleep"] /\ scan' = scan + 1
      /\ UNCHANGED <<pid, parent, killed, pages, nextpid, init1, child, panic>>
      /\ proc # NULL /\ pc[proc] = "syscall"
  BY DEF Sleep, Goto, Sched, At
<1>2. /\ proc \in Slots /\ state[proc] = "RUNNING" /\ proc \in Alive
      /\ scan + 1 \in 0 .. NPROC
  BY <1>1, Running
<1>3. TypeOK'
  BY <1>1, <1>2 DEF Inductive, TypeOK, States, PCs
<1>4. TableInv'
  BY <1>1, <1>2, <1>3, LiveStep DEF Inductive, TypeOK, Alive
<1>5. (OneRunning /\ ScanAtProc /\ NoInternalPanic)'
  BY <1>1, <1>2, SlotsDistinct, Zenon DEF Inductive, TypeOK, SchedInv, OneRunning,
     ScanAtProc, NoInternalPanic
<1>6. ResumePoint'
  BY <1>1, <1>2 DEF Inductive, TypeOK, SchedInv, ResumePoint
<1>7. ForkInProgress'
  BY <1>1, <1>2 DEF Inductive, TypeOK, SchedInv, ForkInProgress
<1>8. NoLostExit'
  BY <1>1, <1>2, SlotsDistinct DEF Inductive, TypeOK, SchedInv, NoLostExit,
     Children
<1>. QED  BY <1>3, <1>4, <1>5, <1>6, <1>7, <1>8 DEF Inductive, SchedInv

\* allocate_process: a slot that was free gets a pid that nobody has.
LEMMA ForkAllocateInductive ==
  ASSUME Inductive, ForkAllocate
  PROVE  Inductive'
<1>0. /\ proc # NULL /\ pc[proc] = "user" /\ proc \in Slots
      /\ state[proc] = "RUNNING"
  BY Running DEF ForkAllocate, At
<1>1. CASE nextpid > NPROC
  BY <1>1, PanicInductive DEF ForkAllocate
<1>2. CASE ~(nextpid > NPROC) /\ UnusedSlots = {}
  BY <1>0, <1>2, GotoInductive DEF ForkAllocate
<1>3. CASE ~(nextpid > NPROC) /\ UnusedSlots # {}
  <2>1. PICK k \in Slots :
          /\ state[k] = "UNUSED" /\ child' = k
          /\ state' = [state EXCEPT ![k] = "CREATED"]
          /\ pid' = [pid EXCEPT ![k] = nextpid] /\ nextpid' = nextpid + 1
          /\ pc' = [pc EXCEPT ![proc] = "fork"]
          /\ UNCHANGED <<parent, chan, killed, pages, init1, proc, scan, panic>>
    <3>1. UnusedSlots \in SUBSET Nat
      BY SlotsDistinct DEF UnusedSlots
    <3>2. FirstOf(UnusedSlots) \in UnusedSlots
      BY <1>3, <3>1, FirstOfIn
    <3>. QED  BY <1>3, <3>2 DEF ForkAllocate, Goto, UnusedSlots
  <2>2. k # proc
    BY <1>0, <2>1
  <2>3. TypeOK'
    BY <1>0, <2>1 DEF Inductive, TypeOK, States, PCs
  <2>4. Alive' = Alive /\ Exists' = Exists /\ k \notin Exists
    BY <2>1 DEF Alive, Exists, Inductive, TypeOK
  <2>5. (InitLives /\ HasLiveParent /\ ParentOfProcess)'
    BY <2>1, <2>4 DEF Inductive, TypeOK, TableInv, InitLives, HasLiveParent,
       ParentOfProcess, Alive, Exists
  <2>6. (PidsUnique /\ PidsBelowNext)'
    <3>1. \A s \in Slots : pid[s] \in Nat /\ pid[s] < nextpid /\ nextpid \in Nat
      BY DEF Inductive, TypeOK, TableInv, PidsBelowNext
    <3>2. \A s \in Slots : pid'[s] = IF s = k THEN nextpid ELSE pid[s]
      BY <2>1 DEF Inductive, TypeOK
    <3>3. PidsUnique'
      BY <3>1, <3>2 DEF Inductive, TableInv, PidsUnique
    <3>4. PidsBelowNext'
      BY <2>1, <3>1, <3>2 DEF Inductive, TypeOK, TableInv, PidsBelowNext
    <3>. QED  BY <3>3, <3>4
  <2>7. ParentOlder'
    <3>1. \A s \in Slots : parent[s] # k
      BY <2>4, SlotsDistinct DEF Inductive, TypeOK, TableInv, HasLiveParent,
         ParentOfProcess, InitLives, Alive, Exists
    <3>2. parent[k] = NULL
      BY <2>1, <2>4 DEF Inductive, TableInv, ParentOfProcess
    <3>. QED
      BY <2>1, <3>1, <3>2 DEF Inductive, TypeOK, TableInv, ParentOlder
  <2>8. NoPageLeak'
    BY <2>1, <2>4 DEF Inductive, TypeOK, TableInv, NoPageLeak
  <2>9. (OneRunning /\ ScanAtProc /\ NoInternalPanic)'
    BY <2>1, <1>0, Zenon DEF Inductive, TypeOK, SchedInv, OneRunning, ScanAtProc,
       NoInternalPanic
  <2>10. ResumePoint'
    BY <2>1, <1>0 DEF Inductive, TypeOK, SchedInv, ResumePoint
  <2>11. ForkInProgress'
    BY <2>1, <2>2, <1>0, SlotsDistinct DEF Inductive, TypeOK, TableInv,
       NoPageLeak, SchedInv, ForkInProgress
  <2>12. NoLostExit'
    BY <2>1 DEF Inductive, TypeOK, SchedInv, NoLostExit, Children
  <2>. QED
    BY <2>3, <2>5, <2>6, <2>7, <2>8, <2>9, <2>10, <2>11, <2>12
       DEF Inductive, TableInv, SchedInv
<1>. QED  BY <1>1, <1>2, <1>3

\* The child that fork() is filling in is no process yet, and nobody's parent.
LEMMA Forking ==
  ASSUME Inductive, At("fork")
  PROVE  /\ proc \in Slots /\ proc # NULL /\ state[proc] = "RUNNING"
         /\ child \in Slots /\ state[child] = "CREATED" /\ child # proc
         /\ child \notin Exists /\ parent[child] = NULL
         /\ \A s \in Slots : parent[s] # child
         /\ \A s \in Slots : state[s] = "CREATED" => s = child
<1>1. /\ proc \in Slots /\ proc # NULL /\ state[proc] = "RUNNING"
      /\ child \in Slots /\ state[child] = "CREATED"
      /\ \A s \in Slots : state[s] = "CREATED" => s = child
  BY Running DEF At, Inductive, TypeOK, SchedInv, ForkInProgress
<1>2. child \notin Exists /\ child \notin Alive
  BY <1>1 DEF Exists, Alive
<1>3. parent[child] = NULL
  BY <1>1, <1>2 DEF Inductive, TableInv, ParentOfProcess
<1>4. \A s \in Slots : parent[s] # child
  BY <1>1, <1>2, SlotsDistinct DEF Inductive, TypeOK, TableInv, HasLiveParent,
     ParentOfProcess, InitLives
<1>. QED  BY <1>1, <1>2, <1>3, <1>4

\* setup_process_stack gets its page.
LEMMA ForkStackInductive ==
  ASSUME Inductive, ForkStack
  PROVE  Inductive'
<1>0. /\ proc \in Slots /\ proc # NULL /\ state[proc] = "RUNNING"
      /\ child \in Slots /\ state[child] = "CREATED" /\ child # proc
      /\ child \notin Exists
  BY Forking DEF ForkStack
<1>1. /\ pages' = [pages EXCEPT ![child] = {"kstack"}]
      /\ pc' = [pc EXCEPT ![child] = "forkret"]
      /\ UNCHANGED <<state, pid, parent, chan, killed, nextpid, init1, proc,
                     scan, child, panic>>
  BY DEF ForkStack
<1>2. TypeOK'
  BY <1>0, <1>1 DEF Inductive, TypeOK, PCs
<1>3. TableInv'
  <2>1. NoPageLeak'
    BY <1>0, <1>1 DEF Inductive, TypeOK, TableInv, NoPageLeak, Exists
  <2>. QED
    BY <1>1, <2>1 DEF Inductive, TableInv, PidsUnique, PidsBelowNext, InitLives,
       HasLiveParent, ParentOlder, ParentOfProcess, Alive, Exists
<1>4. SchedInv'
  <2>1. ResumePoint'
    BY <1>0, <1>1 DEF Inductive, TypeOK, SchedInv, ResumePoint
  <2>2. ForkInProgress'
    BY <1>0, <1>1 DEF Inductive, TypeOK, SchedInv, ForkInProgress
  <2>. QED
    BY <1>1, <2>1, <2>2, Zenon DEF Inductive, SchedInv, OneRunning, ScanAtProc,
       NoLostExit, NoInternalPanic, Children
<1>. QED  BY <1>2, <1>3, <1>4 DEF Inductive

\* The two ways in which fork() gives its slot up: setup_process_stack finds no
\* page, and the pid stays behind, or uvm_copy finds none, and it is cleared.
LEMMA ForkFailsInductive ==
  ASSUME Inductive, ForkNoStack \/ ForkNoMemory
  PROVE  Inductive'
<1>0. /\ proc \in Slots /\ proc # NULL /\ state[proc] = "RUNNING"
      /\ child \in Slots /\ state[child] = "CREATED" /\ child # proc
      /\ child \notin Exists /\ parent[child] = NULL
      /\ \A s \in Slots : parent[s] # child
      /\ \A s \in Slots : state[s] = "CREATED" => s = child
      /\ pc[proc] = "fork"
  BY Forking DEF ForkNoStack, ForkNoMemory, At
<1>1. /\ state' = [state EXCEPT ![child] = "UNUSED"] /\ child' = NULL
      /\ pid' \in {pid, [pid EXCEPT ![child] = 0]}
      /\ pages' = [pages EXCEPT ![child] = {}]
      /\ chan' \in {chan, [chan EXCEPT ![child] = NULL]}
      /\ killed' \in {killed, [killed EXCEPT ![child] = FALSE]}
      /\ pc' \in {[pc EXCEPT ![proc] = "trap"],
                  [pc EXCEPT ![child] = "none", ![proc] = "trap"]}
      /\ UNCHANGED <<parent, nextpid, init1, proc, scan, panic>>
  <2>1. CASE ForkNoStack
    <3>1. pages = [pages EXCEPT ![child] = {}]
      BY <1>0, <2>1 DEF ForkNoStack, Inductive, TypeOK
    <3>. QED  BY <2>1, <3>1 DEF ForkNoStack, Goto
  <2>2. CASE ForkNoMemory
    <3>1. parent = [parent EXCEPT ![child] = NULL]
      BY <1>0 DEF Inductive, TypeOK
    <3>. QED  BY <2>2, <3>1 DEF ForkNoMemory, Deallocate
  <2>. QED  BY <2>1, <2>2
<1>2. TypeOK'
  <2>1. pc' \in [Slots -> PCs] /\ chan' \in [Slots -> Slots \cup Chan \cup {NULL}]
    BY <1>0, <1>1 DEF Inductive, TypeOK, PCs
  <2>2. pid' \in [Slots -> Nat]
    BY <1>0, <1>1 DEF Inductive, TypeOK
  <2>3. killed' \in [Slots -> BOOLEAN]
    BY <1>0, <1>1, Zenon DEF Inductive, TypeOK
  <2>. QED  BY <1>0, <1>1, <2>1, <2>2, <2>3 DEF Inductive, TypeOK, States
<1>3. Alive' = Alive /\ Exists' = Exists
  BY <1>0, <1>1 DEF Alive, Exists, Inductive, TypeOK
<1>4. (InitLives /\ HasLiveParent /\ ParentOfProcess)'
  BY <1>0, <1>1, <1>3 DEF Inductive, TypeOK, TableInv, InitLives, HasLiveParent,
     ParentOfProcess, Alive, Exists
<1>5. (PidsUnique /\ PidsBelowNext)'
  BY <1>0, <1>1 DEF Inductive, TypeOK, TableInv, PidsUnique, PidsBelowNext
<1>6. ParentOlder'
  BY <1>0, <1>1 DEF Inductive, TypeOK, TableInv, ParentOlder
<1>7. NoPageLeak'
  BY <1>0, <1>1, <1>3 DEF Inductive, TypeOK, TableInv, NoPageLeak
<1>8. (OneRunning /\ ScanAtProc /\ NoInternalPanic)'
  BY <1>0, <1>1, Zenon DEF Inductive, TypeOK, SchedInv, OneRunning, ScanAtProc,
     NoInternalPanic
<1>9. ResumePoint'
  BY <1>0, <1>1 DEF Inductive, TypeOK, SchedInv, ResumePoint
<1>10. ForkInProgress'
  BY <1>0, <1>1, SlotsDistinct DEF Inductive, TypeOK, SchedInv, ForkInProgress
<1>11. NoLostExit'
  BY <1>0, <1>1 DEF Inductive, TypeOK, SchedInv, NoLostExit, Children
<1>. QED
  BY <1>2, <1>4, <1>5, <1>6, <1>7, <1>8, <1>9, <1>10, <1>11
     DEF Inductive, TableInv, SchedInv

\* fork() succeeds: the child is the youngest process, and its parent runs.
LEMMA ForkReadyInductive ==
  ASSUME Inductive, ForkReady
  PROVE  Inductive'
<1>0. /\ proc \in Slots /\ proc # NULL /\ state[proc] = "RUNNING"
      /\ child \in Slots /\ state[child] = "CREATED" /\ child # proc
      /\ child \notin Exists /\ parent[child] = NULL
      /\ \A s \in Slots : parent[s] # child
      /\ \A s \in Slots : state[s] = "CREATED" => s = child
      /\ pc[proc] = "fork" /\ pages[child] = {"kstack"} /\ proc \in Alive
  BY Forking, Running DEF ForkReady, At
<1>1. /\ state' = [state EXCEPT ![child] = "READY"] /\ child' = NULL
      /\ pages' = [pages EXCEPT ![child] = {"kstack", "pgdir"}]
      /\ parent' = [parent EXCEPT ![child] = proc]
      /\ pc' = [pc EXCEPT ![proc] = "trap"]
      /\ UNCHANGED <<pid, chan, killed, nextpid, init1, proc, scan, panic>>
  <2>1. pages[child] \cup {"pgdir"} = {"kstack", "pgdir"}
    BY <1>0
  <2>. QED  BY <1>0, <2>1 DEF ForkReady, Goto, Inductive, TypeOK
<1>2. TypeOK'
  BY <1>0, <1>1 DEF Inductive, TypeOK, States, PCs
<1>3. Alive' = Alive \cup {child} /\ Exists' = Exists \cup {child}
  BY <1>0, <1>1 DEF Alive, Exists, Inductive, TypeOK
<1>4. (InitLives /\ HasLiveParent /\ ParentOfProcess)'
  BY <1>0, <1>1, <1>3 DEF Inductive, TypeOK, TableInv, InitLives, HasLiveParent,
     ParentOfProcess, Alive, Exists
<1>5. (PidsUnique /\ PidsBelowNext)'
  BY <1>0, <1>1 DEF Inductive, TypeOK, TableInv, PidsUnique, PidsBelowNext
<1>6. ParentOlder'
  <2>1. pid[proc] < pid[child]
    BY <1>0, SlotsDistinct DEF Inductive, TypeOK, TableInv, PidsUnique,
       PidsBelowNext, SchedInv, ForkInProgress
  <2>. QED  BY <1>0, <1>1, <2>1 DEF Inductive, TypeOK, TableInv, ParentOlder
<1>7. NoPageLeak'
  BY <1>0, <1>1, <1>3 DEF Inductive, TypeOK, TableInv, NoPageLeak
<1>8. (OneRunning /\ ScanAtProc /\ NoInternalPanic)'
  BY <1>0, <1>1, Zenon DEF Inductive, TypeOK, SchedInv, OneRunning, ScanAtProc,
     NoInternalPanic
<1>9. ResumePoint'
  BY <1>0, <1>1 DEF Inductive, TypeOK, SchedInv, ResumePoint, ForkInProgress
<1>10. ForkInProgress'
  BY <1>0, <1>1, SlotsDistinct DEF Inductive, TypeOK, SchedInv, ForkInProgress
<1>11. NoLostExit'
  <2>1. \A s \in Slots : state'[s] = "SLEEPING" =>
          state[s] = "SLEEPING" /\ Children(s)' = Children(s)
    BY <1>0, <1>1, SlotsDistinct DEF Inductive, TypeOK, Children
  <2>2. \A k \in Slots : state'[k] = "ZOMBIE" => state[k] = "ZOMBIE"
    BY <1>0, <1>1 DEF Inductive, TypeOK
  <2>. QED
    BY <1>1, <2>1, <2>2, Zenon DEF Inductive, SchedInv, NoLostExit, Children
<1>. QED
  BY <1>2, <1>4, <1>5, <1>6, <1>7, <1>8, <1>9, <1>10, <1>11
     DEF Inductive, TableInv, SchedInv

\* exit(): its parent is woken, and so is init when it inherits a zombie.
LEMMA ExitInductive ==
  ASSUME Inductive, At("user"), NEW k \in [Slots -> BOOLEAN], ExitWith(k)
  PROVE  Inductive'
<1>0. /\ proc # NULL /\ pc[proc] = "user" /\ proc \in Slots
      /\ state[proc] = "RUNNING" /\ scan + 1 \in 0 .. NPROC
      /\ proc \in Alive /\ proc \in Exists
  BY Running DEF At
<1>1. CASE proc = init1
  BY <1>1, PanicInductive, Zenon DEF ExitWith
<1>2. CASE proc # init1
  <2>. DEFINE woken == Wakened(state, parent[proc])
              st    == IF \E s \in Children(proc) : woken[s] = "ZOMBIE"
                       THEN Wakened(woken, init1) ELSE woken
  <2>1. /\ state' = [st EXCEPT ![proc] = "ZOMBIE"]
        /\ parent' = [s \in Slots |-> IF s \in Children(proc)
                                      THEN init1 ELSE parent[s]]
        /\ killed' = k /\ pc' = [pc EXCEPT ![proc] = "zombie"]
        /\ proc' = NULL /\ scan' = scan + 1
        /\ UNCHANGED <<pid, chan, pages, nextpid, init1, child, panic>>
    BY <1>2 DEF ExitWith, Goto, Sched
  <2>2. /\ woken \in [Slots -> States]
        /\ \A s \in Slots : woken[s] =
             IF state[s] = "SLEEPING" /\ chan[s] = parent[proc]
             THEN "READY" ELSE state[s]
    BY WakenedState DEF Inductive, TypeOK
  <2>3. /\ Wakened(woken, init1) \in [Slots -> States]
        /\ \A s \in Slots : Wakened(woken, init1)[s] =
             IF woken[s] = "SLEEPING" /\ chan[s] = init1
             THEN "READY" ELSE woken[s]
    BY <2>2, WakenedState
  \* What the wakeups do to the others.
  <2>4. /\ st \in [Slots -> States]
        /\ \A s \in Slots : \/ st[s] = state[s]
                            \/ state[s] = "SLEEPING" /\ st[s] = "READY"
        /\ \A s \in Slots : st[s] = "SLEEPING" => chan[s] # parent[proc]
        /\ (\E s \in Children(proc) : state[s] = "ZOMBIE") =>
             \A s \in Slots : st[s] = "SLEEPING" => chan[s] # init1
    BY <2>2, <2>3 DEF Children
  <2>. HIDE DEF st
  <2>5. /\ state' \in [Slots -> States] /\ state'[proc] = "ZOMBIE"
        /\ \A s \in Slots \ {proc} : state'[s] = st[s]
    BY <1>0, <2>1, <2>4, Zenon DEF States
  <2>6. parent[proc] \in Alive /\ parent[proc] # proc /\ parent[init1] = NULL
    BY <1>0, <1>2 DEF Inductive, TypeOK, TableInv, HasLiveParent, ParentOlder,
       InitLives
  <2>7. TypeOK'
    BY <1>0, <2>1, <2>5 DEF Inductive, TypeOK, PCs
  <2>8. /\ Alive' = Alive \ {proc} /\ Exists' = Exists
        /\ \A s \in Slots : state'[s] = "UNUSED" <=> state[s] = "UNUSED"
    BY <1>0, <2>4, <2>5 DEF Alive, Exists
  <2>9. (InitLives /\ HasLiveParent /\ ParentOfProcess)'
    <3>1. InitLives'
      BY <1>0, <1>2, <2>1, <2>6, <2>8 DEF Inductive, TypeOK, TableInv, InitLives, Children
    <3>2. HasLiveParent'
      BY <1>2, <2>1, <2>6, <2>8 DEF Inductive, TypeOK, TableInv, InitLives,
         HasLiveParent, Children, Exists
    <3>3. ParentOfProcess'
      BY <1>0, <2>1, <2>8 DEF Inductive, TypeOK, TableInv, ParentOfProcess, Children
    <3>. QED  BY <3>1, <3>2, <3>3
  <2>10. (PidsUnique /\ PidsBelowNext /\ NoPageLeak)'
    BY <2>1, <2>8 DEF Inductive, TableInv, PidsUnique, PidsBelowNext, NoPageLeak
  <2>11. ParentOlder'
    <3>1. \A s \in Children(proc) : pid[init1] < pid[s]
      <4>1. \A s \in Children(proc) : s \in Slots /\ s # init1 /\ s \in Exists
        BY <1>0, <2>6 DEF Inductive, TableInv, ParentOfProcess, Children
      <4>2. \A s \in Exists : pid[s] >= 1 /\ pid[s] \in Nat
        BY DEF Inductive, TypeOK, TableInv, PidsBelowNext, Exists
      <4>. QED
        BY <4>1, <4>2 DEF Inductive, TypeOK, TableInv, PidsUnique, InitLives
    <3>. QED
      BY <2>1, <3>1 DEF Inductive, TypeOK, TableInv, ParentOlder, Children
  <2>12. (OneRunning /\ ScanAtProc /\ NoInternalPanic)'
    BY <1>0, <2>1, <2>4, <2>5, SlotsDistinct, Zenon DEF Inductive, SchedInv, OneRunning,
       ScanAtProc, NoInternalPanic
  <2>13. ResumePoint'
    BY <1>0, <2>1, <2>4, <2>5 DEF Inductive, TypeOK, SchedInv, ResumePoint
  <2>14. ForkInProgress'
    BY <1>0, <2>1, <2>4, <2>5 DEF Inductive, TypeOK, SchedInv, ForkInProgress
  <2>15. NoLostExit'
    <3>. SUFFICES ASSUME NEW s \in Slots, state'[s] = "SLEEPING", chan[s] = s
                  PROVE  /\ Children(s)' # {}
                         /\ \A c \in Children(s)' : state'[c] # "ZOMBIE"
      BY <2>1, Zenon DEF NoLostExit
    <3>1. /\ s # proc /\ st[s] = "SLEEPING" /\ state[s] = "SLEEPING"
          /\ s # parent[proc]
      BY <2>4, <2>5
    <3>2. /\ Children(s) # {}
          /\ \A c \in Children(s) : state[c] # "ZOMBIE" /\ c # proc /\ c \in Slots
      BY <3>1 DEF Inductive, SchedInv, NoLostExit, Children
    <3>3. \A c \in Slots : state'[c] = "ZOMBIE" => c = proc \/ state[c] = "ZOMBIE"
      BY <2>4, <2>5
    <3>4. CASE s # init1
      <4>1. Children(s)' = Children(s)
        BY <2>1, <3>1, <3>4 DEF Children
      <4>. QED  BY <3>2, <3>3, <4>1
    <3>5. CASE s = init1
      <4>1. Children(s)' = Children(s) \cup Children(proc)
        BY <2>1, <3>1, <3>5 DEF Children
      <4>2. \A c \in Children(proc) : state[c] # "ZOMBIE" /\ c \in Slots
        BY <2>4, <3>1, <3>5 DEF Children
      <4>3. proc \notin Children(proc)
        BY <2>6 DEF Children
      <4>. QED  BY <3>2, <3>3, <4>1, <4>2, <4>3
    <3>. QED  BY <3>4, <3>5
  <2>. QED
    BY <2>7, <2>9, <2>10, <2>11, <2>12, <2>13, <2>14, <2>15
       DEF Inductive, TableInv, SchedInv
<1>. QED  BY <1>1, <1>2

\* wait(): the zombie it takes out of the table is nobody's parent, and it goes
\* to sleep only when it has children and none of them is a zombie.
LEMMA WaitInductive ==
  ASSUME Inductive, Wait
  PROVE  Inductive'
<1>. DEFINE awake   == [chan EXCEPT ![proc] = NULL]
            zombies == {s \in Children(proc) : state[s] = "ZOMBIE"}
<1>0. /\ proc # NULL /\ pc[proc] \in {"user", "wait"} /\ proc \in Slots
      /\ state[proc] = "RUNNING" /\ scan + 1 \in 0 .. NPROC
      /\ proc \in Alive /\ proc \in Exists
  BY Running DEF Wait, At
<1>1. CASE zombies # {}
  <2>1. FirstOf(zombies) \in zombies
    <3>1. zombies \in SUBSET Nat
      BY SlotsDistinct DEF Children
    <3>. QED  BY <1>1, <3>1, FirstOfIn
  <2>2. PICK z \in Slots :
          /\ parent[z] = proc /\ state[z] = "ZOMBIE"
          /\ Deallocate(z, awake)
          /\ pc' = [pc EXCEPT ![z] = "none", ![proc] = "trap"]
          /\ UNCHANGED <<nextpid, init1, proc, scan, child, panic>>
    BY <1>1, <2>1 DEF Wait, Children
  <2>3. /\ z # proc /\ z # init1 /\ z \notin Alive /\ z \in Exists
        /\ \A s \in Slots : parent[s] # z
    <3>1. z # proc /\ z \notin Alive /\ z \in Exists
      BY <1>0, <2>2 DEF Alive, Exists
    <3>2. z # init1
      BY <3>1 DEF Inductive, TableInv, InitLives
    <3>3. \A s \in Slots : parent[s] # z
      BY <3>1, SlotsDistinct DEF Inductive, TypeOK, TableInv, HasLiveParent,
         ParentOfProcess, InitLives
    <3>. QED  BY <3>1, <3>2, <3>3
  <2>4. TypeOK'
    BY <1>0, <2>2 DEF Inductive, TypeOK, Deallocate, States, PCs
  <2>5. Alive' = Alive /\ Exists' = Exists \ {z}
    BY <2>2, <2>3 DEF Alive, Exists, Inductive, TypeOK, Deallocate
  <2>6. (InitLives /\ HasLiveParent /\ ParentOfProcess)'
    BY <2>2, <2>3, <2>5 DEF Inductive, TypeOK, TableInv, InitLives,
       HasLiveParent, ParentOfProcess, Deallocate, Exists
  <2>7. (PidsUnique /\ PidsBelowNext)'
    BY <2>2 DEF Inductive, TypeOK, TableInv, PidsUnique, PidsBelowNext, Deallocate
  <2>8. ParentOlder'
    BY <2>2, <2>3 DEF Inductive, TypeOK, TableInv, ParentOlder, Deallocate
  <2>9. NoPageLeak'
    BY <2>2, <2>5 DEF Inductive, TypeOK, TableInv, NoPageLeak, Deallocate
  <2>10. (OneRunning /\ ScanAtProc /\ NoInternalPanic)'
    BY <2>2, <2>3, Zenon DEF Inductive, TypeOK, SchedInv, OneRunning, ScanAtProc,
       NoInternalPanic, Deallocate
  <2>11. ResumePoint'
    BY <1>0, <2>2, <2>3 DEF Inductive, TypeOK, SchedInv, ResumePoint, Deallocate
  <2>12. ForkInProgress'
    BY <1>0, <2>2, <2>3 DEF Inductive, TypeOK, SchedInv, ForkInProgress, Deallocate
  <2>13. NoLostExit'
    <3>1. \A s \in Slots : state'[s] = "SLEEPING" =>
            /\ state[s] = "SLEEPING" /\ chan'[s] = chan[s]
            /\ Children(s)' = Children(s)
      BY <1>0, <2>2, <2>3, SlotsDistinct DEF Inductive, TypeOK, Children, Deallocate
    <3>2. \A s \in Slots : state'[s] = "ZOMBIE" => state[s] = "ZOMBIE"
      BY <2>2 DEF Inductive, TypeOK, Deallocate
    <3>. QED
      BY <3>1, <3>2 DEF Inductive, SchedInv, NoLostExit, Children
  <2>. QED
    BY <2>4, <2>6, <2>7, <2>8, <2>9, <2>10, <2>11, <2>12, <2>13
       DEF Inductive, TableInv, SchedInv
<1>2. CASE zombies = {} /\ (Children(proc) = {} \/ killed[proc])
  <2>1. /\ chan' = awake /\ pc' = [pc EXCEPT ![proc] = "trap"]
        /\ UNCHANGED <<state, pid, parent, killed, pages, nextpid, init1, proc,
                       scan, child, panic>>
    BY <1>2 DEF Wait, Goto
  <2>2. TypeOK'
    BY <1>0, <2>1 DEF Inductive, TypeOK, PCs
  <2>3. TableInv'
    BY <2>1, LiveStep DEF Inductive, TypeOK
  <2>4. (OneRunning /\ ScanAtProc /\ NoInternalPanic)'
    BY <2>1, Zenon DEF Inductive, SchedInv, OneRunning, ScanAtProc, NoInternalPanic
  <2>5. ResumePoint'
    BY <1>0, <2>1 DEF Inductive, TypeOK, SchedInv, ResumePoint
  <2>6. ForkInProgress'
    BY <1>0, <2>1 DEF Inductive, TypeOK, SchedInv, ForkInProgress
  <2>7. NoLostExit'
    BY <1>0, <2>1 DEF Inductive, TypeOK, SchedInv, NoLostExit, Children
  <2>. QED
    BY <2>2, <2>3, <2>4, <2>5, <2>6, <2>7 DEF Inductive, SchedInv
<1>3. CASE zombies = {} /\ Children(proc) # {} /\ ~killed[proc]
  <2>1. /\ chan' = [chan EXCEPT ![proc] = proc]
        /\ state' = [state EXCEPT ![proc] = "SLEEPING"]
        /\ pc' = [pc EXCEPT ![proc] = "wait"]
        /\ proc' = NULL /\ scan' = scan + 1
        /\ UNCHANGED <<pid, parent, killed, pages, nextpid, init1, child, panic>>
    BY <1>3 DEF Wait, Goto, Sched
  <2>2. TypeOK'
    BY <1>0, <2>1 DEF Inductive, TypeOK, PCs, States
  <2>3. TableInv'
    BY <1>0, <2>1, <2>2, LiveStep, Zenon DEF Inductive, TypeOK, Alive
  <2>4. (OneRunning /\ ScanAtProc /\ NoInternalPanic)'
    BY <1>0, <2>1, SlotsDistinct, Zenon DEF Inductive, TypeOK, SchedInv, OneRunning,
       ScanAtProc, NoInternalPanic
  <2>5. ResumePoint'
    BY <1>0, <2>1 DEF Inductive, TypeOK, SchedInv, ResumePoint
  <2>6. ForkInProgress'
    BY <1>0, <2>1 DEF Inductive, TypeOK, SchedInv, ForkInProgress
  <2>7. NoLostExit'
    <3>1. \A s \in Children(proc) : state[s] # "ZOMBIE"
      BY <1>3
    <3>. QED
      BY <1>0, <1>3, <2>1, <3>1 DEF Inductive, TypeOK, SchedInv, NoLostExit, Children
  <2>. QED
    BY <2>2, <2>3, <2>4, <2>5, <2>6, <2>7 DEF Inductive, SchedInv
<1>. QED  BY <1>1, <1>2, <1>3

\* Every step of the kernel preserves the invariant.
LEMMA NextInductive == Inductive /\ [Next]_vars => Inductive'
<1>. SUFFICES ASSUME Inductive, [Next]_vars PROVE Inductive'
  OBVIOUS
<1>1. CASE SchedulerPass \/ SchedulerSkip \/ SchedulerRun
  BY <1>1, SchedulerInductive
<1>2. CASE SwitchedTo \/ SleepReturn
  BY <1>2, SwitchedInductive
<1>3. CASE TrapYield
  BY <1>3, YieldInductive DEF TrapYield, At
<1>4. CASE SyscallEnter \/ SyscallReturn
  BY <1>4, GotoInductive DEF SyscallEnter, SyscallReturn, At
<1>5. ASSUME NEW c \in Chan, IrqWakeup(c) PROVE Inductive'
  BY <1>5, YieldInductive, WakeupInductive DEF IrqWakeup, At
<1>6. ASSUME NEW c \in Chan, Sleep(c) \/ Wakeup(c) PROVE Inductive'
  BY <1>6, SleepInductive, WakeupInductive DEF Wakeup
<1>7. CASE ForkAllocate
  BY <1>7, ForkAllocateInductive
<1>8. CASE ForkStack
  BY <1>8, ForkStackInductive
<1>9. CASE ForkNoStack \/ ForkNoMemory
  BY <1>9, ForkFailsInductive
<1>10. CASE ForkReady
  BY <1>10, ForkReadyInductive
<1>11. CASE Exit \/ Fault
  <2>1. /\ killed \in [Slots -> BOOLEAN]
        /\ [killed EXCEPT ![proc] = TRUE] \in [Slots -> BOOLEAN]
    BY Zenon DEF Inductive, TypeOK
  <2>. QED  BY <1>11, <2>1, ExitInductive, Zenon DEF Exit, Fault
<1>12. CASE Wait
  BY <1>12, WaitInductive
<1>13. CASE Halted \/ UNCHANGED vars
  BY <1>13, StutterInductive DEF Halted
<1>. QED
  BY <1>1, <1>2, <1>3, <1>4, <1>5, <1>6, <1>7, <1>8, <1>9, <1>10, <1>11, <1>12,
     <1>13 DEF Next

----------------------------------------------------------------------------
(* The theorems *)

\* The invariant holds of every state of the kernel.
THEOREM InductiveInvariant == Spec => []Inductive
BY InitInductive, NextInductive, PTL DEF Spec

\* Type correctness of the process table.
THEOREM TypeCorrect == Spec => []TypeOK
BY InductiveInvariant, PTL DEF Inductive

\* Exactly the process on the CPU is PROC_RUNNING, and the scheduler switches
\* only to processes that have their pages and are not zombies.
THEOREM SchedulingSafe == Spec => [](OneRunning /\ NoInternalPanic)
BY InductiveInvariant, PTL DEF Inductive, SchedInv

\* wait() never sleeps through the exit() of a child, its own or an inherited one.
THEOREM ExitsNotLost == Spec => []NoLostExit
BY InductiveInvariant, PTL DEF Inductive, SchedInv

\* Every process can be waited for, and the parent pointers form a tree: what
\* fork(), exit() and wait() do to parent and pid.
THEOREM ProcessTree == Spec => []WellFormedTree
BY InductiveInvariant, PTL DEF Inductive, TableInv, WellFormedTree

\* fork() and wait() give back the kernel stack and the page directory of every
\* slot they free, and no process is without.
THEOREM PagesAccounted == Spec => []NoPageLeak
BY InductiveInvariant, PTL DEF Inductive, TableInv

\* Only wait(), called by the parent, takes a zombie out of the table.
THEOREM ZombiesReapedByParent == Spec => ReapedByParent
<1>. DEFINE Reaped == \A s \in Slots : state[s] = "ZOMBIE" /\ state'[s] # "ZOMBIE" =>
                         state'[s] = "UNUSED" /\ proc = parent[s]
<1>1. ASSUME Inductive, Next PROVE Reaped
  <2>. SUFFICES ASSUME NEW s \in Slots, state[s] = "ZOMBIE", state'[s] # "ZOMBIE"
                PROVE  state'[s] = "UNUSED" /\ proc = parent[s]
    OBVIOUS
  <2>0. state \in [Slots -> States] /\ (proc # NULL => s # proc)
    BY <1>1, Running DEF Inductive, TypeOK
  <2>1. \A st \in [Slots -> States] : \A c : st[s] = "ZOMBIE" =>
          Wakened(st, c) \in [Slots -> States] /\ Wakened(st, c)[s] = "ZOMBIE"
    <3>. SUFFICES ASSUME NEW st \in [Slots -> States], NEW c, st[s] = "ZOMBIE"
                  PROVE  /\ Wakened(st, c) \in [Slots -> States]
                         /\ Wakened(st, c)[s] = "ZOMBIE"
      OBVIOUS
    <3>1. "READY" \in States /\ \A k \in Slots : st[k] \in States
      BY DEF States
    <3>2. Wakened(st, c) \in [Slots -> States]
      BY <3>1 DEF Wakened
    <3>3. Wakened(st, c)[s] = IF st[s] = "SLEEPING" /\ chan[s] = c THEN "READY" ELSE st[s]
      BY Zenon DEF Wakened
    <3>. QED  BY <3>2, <3>3
  <2>2. CASE Wait
    <3>. DEFINE zombies == {k \in Children(proc) : state[k] = "ZOMBIE"}
    <3>1. zombies # {} => FirstOf(zombies) \in zombies
      <4>1. zombies \in SUBSET Nat
        BY SlotsDistinct DEF Children
      <4>. QED  BY <4>1, FirstOfIn
    <3>2. PICK z : z \in zombies /\ state' = [state EXCEPT ![z] = "UNUSED"]
      BY <2>0, <2>2, <3>1, Zenon DEF Wait, Deallocate, At
    <3>. QED  BY <2>0, <3>2, Zenon DEF Children
  <2>3. CASE Exit \/ Fault
    <3>. DEFINE woken == Wakened(state, parent[proc])
    <3>1. woken \in [Slots -> States] /\ woken[s] = "ZOMBIE"
      BY <2>0, <2>1
    <3>2. /\ Wakened(woken, init1) \in [Slots -> States]
          /\ Wakened(woken, init1)[s] = "ZOMBIE"
      BY <2>1, <3>1
    <3>3. s # proc
      BY <2>0, <2>3 DEF Exit, Fault, At
    <3>. QED  BY <2>3, <3>1, <3>2, <3>3, Zenon DEF Exit, Fault, ExitWith, Panic, table
  <2>4. CASE ForkAllocate
    <3>1. UnusedSlots # {} => FirstOf(UnusedSlots) \in UnusedSlots
      <4>1. UnusedSlots \in SUBSET Nat
        BY SlotsDistinct DEF UnusedSlots
      <4>. QED  BY <4>1, FirstOfIn, Zenon
    <3>. QED
      BY <2>0, <2>4, <3>1 DEF ForkAllocate, UnusedSlots, Panic, table
  <2>5. CASE ForkNoStack \/ ForkNoMemory \/ ForkReady
    <3>1. s # child
      BY <1>1, <2>5, Forking, ZenonT(30) DEF ForkNoStack, ForkNoMemory, ForkReady
    <3>. QED
      BY <2>0, <2>5, <3>1 DEF ForkNoStack, ForkNoMemory, ForkReady, Deallocate
  <2>6. ASSUME NEW c \in Chan, IrqWakeup(c) \/ Sleep(c) \/ Wakeup(c) PROVE FALSE
    <3>1. Wakened(state, c) \in [Slots -> States] /\ Wakened(state, c)[s] = "ZOMBIE"
      BY <2>0, <2>1
    <3>. QED  BY <2>0, <2>6, <3>1, Zenon DEF IrqWakeup, Sleep, Wakeup, Yield, At
  <2>7. CASE SchedulerPass \/ SchedulerSkip \/ SchedulerRun
    BY <2>0, <2>7, Zenon DEF SchedulerPass, SchedulerSkip, SchedulerRun, table
  <2>8. CASE SwitchedTo \/ SleepReturn \/ TrapYield
    BY <2>0, <2>8, Zenon DEF SwitchedTo, SleepReturn, TrapYield, Yield, At, Panic, table
  <2>9. CASE SyscallEnter \/ SyscallReturn \/ ForkStack \/ Halted
    BY <2>9, Zenon DEF SyscallEnter, SyscallReturn, ForkStack, Halted, table, vars
  <2>. QED  BY <1>1, <2>2, <2>3, <2>4, <2>5, <2>6, <2>7, <2>8, <2>9 DEF Next
<1>2. Inductive /\ [Next]_vars => [Reaped]_vars
  BY <1>1
<1>. QED  BY <1>2, InductiveInvariant, PTL DEF Spec, ReapedByParent

----------------------------------------------------------------------------
(* The process table implements the tree of Lifecycle *)

\* The slot of a process is found by its pid.
LEMMA SlotOfPid ==
  Inductive => \A s \in Exists : SlotOf(pid[s]) = s
<1>. SUFFICES ASSUME Inductive, NEW s \in Exists PROVE SlotOf(pid[s]) = s
  OBVIOUS
<1>1. \A t \in Exists : pid[t] = pid[s] => t = s
  BY DEF Inductive, TableInv, PidsUnique, PidsBelowNext, Exists
<1>. QED  BY <1>1 DEF SlotOf

\* The parts of the mapping to the abstract tree: the pid of the parent, the zombies,
\* the slot fork is filling in, and the parents by pid.
ParentPid(s) == IF parent[s] = NULL THEN 0 ELSE pid[parent[s]]
Zombies == {s \in Slots : state[s] = "ZOMBIE"}
Created == {s \in Slots : state[s] = "CREATED"}
PpidOf == [n \in Pids(Exists) |-> LET s == SlotOf(n)
                 IN IF parent[s] = NULL THEN 0 ELSE pid[parent[s]]]

\* By the pid of a process the mapping finds the parent of its slot.
LEMMA PpidValue ==
  Inductive => /\ PpidOf = [n \in Pids(Exists) |-> PpidOf[n]]
               /\ \A s \in Exists : PpidOf[pid[s]] = ParentPid(s)
<1>. SUFFICES ASSUME Inductive
              PROVE  /\ PpidOf = [n \in Pids(Exists) |-> PpidOf[n]]
                     /\ \A s \in Exists : PpidOf[pid[s]] = ParentPid(s)
  OBVIOUS
<1>. QED  BY SlotOfPid DEF PpidOf, ParentPid, Pids

\* The tree at the start is pid 1 alone.
LEMMA TreeInit == Init => Tree!LInit
<1>. SUFFICES ASSUME Init PROVE Tree!LInit
  OBVIOUS
<1>1. Inductive
  BY InitInductive
<1>2. Exists = {1} /\ Zombies = {} /\ Created = {} /\ pid[1] = 1 /\ parent[1] = NULL /\ nextpid = 2
  BY NPROCAssumption DEF Init, Exists, Zombies, Created, Slots
<1>3. Pids(Exists) = {1} /\ Pids(Zombies) = {} /\ Pids(Created) = {}
  BY <1>2 DEF Pids
<1>4. PpidOf = [n \in {1} |-> 0]
  BY <1>1, <1>2, <1>3, PpidValue DEF PpidOf, ParentPid
<1>. QED BY <1>2, <1>3, <1>4 DEF Tree!LInit, Zombies, Created, PpidOf

\* A step that keeps the processes, their pids and their parents keeps the tree.
LEMMA TreeKept ==
  ASSUME Inductive, Inductive', Exists' = Exists,
         \A s \in Exists : pid'[s] = pid[s] /\ ParentPid(s)' = ParentPid(s)
  PROVE  Pids(Exists)' = Pids(Exists) /\ PpidOf' = PpidOf
<1>1. Pids(Exists)' = Pids(Exists)
  BY DEF Pids
<1>2. (/\ PpidOf = [n \in Pids(Exists) |-> PpidOf[n]]
       /\ \A s \in Exists : PpidOf[pid[s]] = ParentPid(s))'
  BY PpidValue, PTL
<1>3. \A n \in Pids(Exists) : PpidOf'[n] = PpidOf[n]
  BY <1>2, PpidValue DEF Pids
<1>. QED  BY <1>1, <1>2, <1>3, PpidValue

\* A step that only moves processes between the states of the living is none of
\* the tree.
LEMMA TreeStutter ==
  ASSUME Inductive, Inductive', UNCHANGED <<pid, parent, nextpid>>,
         \A s \in Slots : state'[s] = state[s] \/ (s \in Alive /\ s \in Alive')
  PROVE  UNCHANGED Tree!lvars
<1>1. Exists' = Exists /\ Zombies' = Zombies /\ Created' = Created
  BY DEF Exists, Zombies, Created, Alive
<1>2. Pids(Zombies)' = Pids(Zombies) /\ Pids(Created)' = Pids(Created)
  BY <1>1 DEF Pids
<1>3. Pids(Exists)' = Pids(Exists) /\ PpidOf' = PpidOf
  BY <1>1, TreeKept DEF ParentPid
<1>. QED  BY <1>2, <1>3, Zenon DEF Tree!lvars, Zombies, Created, PpidOf

\* A parent is a live process.
LEMMA ParentAlive ==
  ASSUME Inductive
  PROVE  \A s \in Slots : parent[s] # NULL => parent[s] \in Alive
<1>. SUFFICES ASSUME NEW s \in Slots, parent[s] # NULL
              PROVE  parent[s] \in Alive
  OBVIOUS
<1>1. s \in Exists
  BY DEF Inductive, TableInv, ParentOfProcess
<1>2. s # init1
  BY DEF Inductive, TableInv, InitLives
<1>. QED  BY <1>1, <1>2 DEF Inductive, TableInv, HasLiveParent

\* The process on the CPU is none of the zombies, and its pid is its own.
LEMMA RunningPid ==
  ASSUME Inductive, proc # NULL
  PROVE  /\ pid[proc] \in Pids(Exists) \ Pids(Zombies)
         /\ \A s \in Slots : pid[s] = pid[proc] => s = proc
         /\ pid[proc] # 0
<1>1. /\ proc \in Slots /\ state[proc] = "RUNNING" /\ proc \in Exists
      /\ pid \in [Slots -> Nat]
  BY Running DEF Inductive, TypeOK
<1>2. pid[proc] # 0
  BY <1>1 DEF Inductive, TableInv, PidsBelowNext
<1>3. \A s \in Slots : pid[s] = pid[proc] => s = proc
  BY <1>1, <1>2 DEF Inductive, TableInv, PidsUnique
<1>4. Zombies \subseteq Slots /\ proc \notin Zombies
  BY <1>1 DEF Zombies
<1>. QED  BY <1>1, <1>2, <1>3, <1>4 DEF Pids

\* allocate_process takes a pid.
LEMMA TreeReserve ==
  ASSUME Inductive, Inductive', ForkAllocate
  PROVE  Tree!Reserve \/ UNCHANGED Tree!lvars
<1>1. CASE nextpid > NPROC \/ UnusedSlots = {}
  <2>. UNCHANGED <<state, pid, parent, nextpid>>
    BY <1>1 DEF ForkAllocate, Panic, table
  <2>. QED  BY TreeStutter
<1>2. CASE ~(nextpid > NPROC) /\ UnusedSlots # {}
  <2>. DEFINE c == FirstOf(UnusedSlots)
  <2>1. c \in Slots /\ state[c] = "UNUSED"
    <3>1. UnusedSlots \in SUBSET Nat
      BY SlotsDistinct DEF UnusedSlots
    <3>. QED  BY <1>2, <3>1, FirstOfIn DEF UnusedSlots
  <2>2. /\ state' = [state EXCEPT ![c] = "CREATED"]
        /\ pid' = [pid EXCEPT ![c] = nextpid]
        /\ nextpid' = nextpid + 1 /\ parent' = parent
    BY <1>2 DEF ForkAllocate
  <2>. HIDE DEF c
  <2>3. /\ Exists' = Exists /\ Zombies' = Zombies /\ c \notin Exists
        /\ c \notin Zombies /\ c \notin Created /\ Created' = Created \cup {c}
    BY <2>1, <2>2, ZenonT(30) DEF Exists, Zombies, Created, Inductive, TypeOK
  <2>4. \A s \in Slots \ {c} : pid'[s] = pid[s] /\ parent[s] # c
    <3>1. \A s \in Slots : parent[s] # c
      BY <2>1, SlotsDistinct, ParentAlive DEF Alive
    <3>2. \A s \in Slots \ {c} : pid'[s] = pid[s]
      BY <2>2 DEF Inductive, TypeOK
    <3>. QED  BY <3>1, <3>2
  <2>5. Pids(Zombies)' = Pids(Zombies)
    BY <2>3, <2>4 DEF Pids, Zombies
  <2>6. Pids(Created)' = Pids(Created) \cup {nextpid}
    <3>1. (\A s \in Created : pid'[s] = pid[s]) /\ pid'[c] = nextpid
      BY <2>1, <2>2, <2>3, <2>4, Zenon DEF Created, Inductive, TypeOK
    <3>. QED  BY <2>3, <3>1 DEF Pids
  <2>7. Pids(Exists)' = Pids(Exists) /\ PpidOf' = PpidOf
    <3>1. \A s \in Exists : ParentPid(s)' = ParentPid(s) /\ pid'[s] = pid[s]
      <4>. SUFFICES ASSUME NEW s \in Exists
                    PROVE  ParentPid(s)' = ParentPid(s) /\ pid'[s] = pid[s]
        OBVIOUS
      <4>1. s \in Slots /\ s # c
        BY <2>3 DEF Exists
      <4>2. pid'[s] = pid[s] /\ parent[s] # c
        BY <2>4, <4>1
      <4>3. parent[s] # NULL => pid'[parent[s]] = pid[parent[s]]
        BY <2>4, <4>1, <4>2 DEF Inductive, TypeOK
      <4>. QED  BY <2>2, <4>2, <4>3 DEF ParentPid
    <3>. QED  BY <2>3, <3>1, TreeKept
  <2>. QED  BY <2>2, <2>5, <2>6, <2>7 DEF Tree!Reserve, Zombies, Created, PpidOf
<1>. QED  BY <1>1, <1>2

\* The pid that a fork in progress has in hand.
LEMMA ReservedPid ==
  ASSUME Inductive, At("fork")
  PROVE  /\ Created = {child} /\ Pids(Created) = {pid[child]}
         /\ \A s \in Exists : pid[s] # pid[child]
<1>1. Created = {child}
  BY Forking DEF Created
<1>2. \A s \in Exists : pid[s] # pid[child]
  BY Forking DEF Inductive, TableInv, PidsUnique, PidsBelowNext, Exists
<1>. QED  BY <1>1, <1>2 DEF Pids

\* A fork that fails gives its pid up.
LEMMA TreeAbandon ==
  ASSUME Inductive, Inductive', ForkNoStack \/ ForkNoMemory
  PROVE  Tree!Abandon(pid[child]) /\ pid[child] \in Pids(Created)
<1>0. At("fork")
  BY DEF ForkNoStack, ForkNoMemory
<1>1. /\ state' = [state EXCEPT ![child] = "UNUSED"] /\ nextpid' = nextpid
      /\ \A s \in Slots \ {child} : pid'[s] = pid[s] /\ parent'[s] = parent[s]
  BY <1>0, Forking DEF ForkNoStack, ForkNoMemory, Deallocate, Inductive, TypeOK
<1>2. Exists' = Exists /\ Zombies' = Zombies /\ Created' = {}
  <2>. PICK c : c = child
    OBVIOUS
  <2>1. /\ c \in Slots /\ state[c] = "CREATED" /\ state'[c] = "UNUSED"
        /\ \A s \in Slots : s # c => state'[s] = state[s] /\ state[s] # "CREATED"
    BY <1>0, <1>1, Forking, Zenon DEF Inductive, TypeOK
  <2>. QED  BY <2>1 DEF Exists, Zombies, Created
<1>3. Pids(Zombies)' = Pids(Zombies) /\ Pids(Created)' = {}
  BY <1>0, <1>1, <1>2, Forking DEF Pids, Zombies
<1>4. Pids(Exists)' = Pids(Exists) /\ PpidOf' = PpidOf
  <2>1. \A s \in Exists : pid'[s] = pid[s] /\ ParentPid(s)' = ParentPid(s)
    <3>. SUFFICES ASSUME NEW s \in Exists
                  PROVE  pid'[s] = pid[s] /\ ParentPid(s)' = ParentPid(s)
      OBVIOUS
    <3>1. s \in Slots /\ s # child /\ parent[s] # child
      BY <1>0, Forking DEF Exists
    <3>2. pid'[s] = pid[s] /\ parent'[s] = parent[s]
      BY <1>1, <3>1
    <3>3. parent[s] # NULL => pid'[parent[s]] = pid[parent[s]]
      BY <1>1, <3>1 DEF Inductive, TypeOK
    <3>. QED  BY <3>2, <3>3 DEF ParentPid
  <2>. QED  BY <1>2, <2>1, TreeKept
<1>. QED
  BY <1>0, <1>1, <1>3, <1>4, ReservedPid, Zenon DEF Tree!Abandon, Zombies, Created, PpidOf

\* A fork that succeeds: the process that called it is the parent.
LEMMA TreeSpawn ==
  ASSUME Inductive, Inductive', ForkReady
  PROVE  /\ Tree!Spawn(pid[proc], pid[child])
         /\ pid[child] \in Pids(Created) /\ pid[proc] \in Pids(Exists) \ Pids(Zombies)
<1>0. At("fork")
  BY DEF ForkReady
<1>. PICK c : c = child
  OBVIOUS
<1>1. /\ state' = [state EXCEPT ![child] = "READY"] /\ pid' = pid
      /\ parent' = [parent EXCEPT ![child] = proc] /\ nextpid' = nextpid
  BY DEF ForkReady
<1>2. Exists' = Exists \cup {child} /\ Zombies' = Zombies /\ Created' = {}
  <2>1. /\ c \in Slots /\ state[c] = "CREATED" /\ state'[c] = "READY"
        /\ \A s \in Slots : s # c => state'[s] = state[s] /\ state[s] # "CREATED"
    BY <1>0, <1>1, Forking, Zenon DEF Inductive, TypeOK, SchedInv, ForkInProgress
  <2>. QED  BY <2>1 DEF Exists, Zombies, Created
<1>3. /\ Pids(Zombies)' = Pids(Zombies) /\ Pids(Created)' = {}
      /\ Pids(Exists)' = Pids(Exists) \cup {pid[child]}
  BY <1>1, <1>2 DEF Pids
<1>4. /\ \A s \in Exists : ParentPid(s)' = ParentPid(s)
      /\ ParentPid(c)' = pid[proc]
  BY <1>0, <1>1, Forking, SlotsDistinct, ZenonT(30) DEF ParentPid, Exists, Inductive, TypeOK
<1>5. PpidOf' = [m \in Pids(Exists)' |->
                   IF m = pid[child] THEN pid[proc] ELSE PpidOf[m]]
  <2>1. (/\ PpidOf = [n \in Pids(Exists) |-> PpidOf[n]]
         /\ \A s \in Exists : PpidOf[pid[s]] = ParentPid(s))'
    BY PpidValue, PTL
  <2>2. PpidOf'[pid[child]] = pid[proc]
    BY <1>1, <1>2, <1>4, <2>1
  <2>3. \A n \in Pids(Exists) : n # pid[child] /\ PpidOf'[n] = PpidOf[n]
    BY <1>0, <1>1, <1>2, <1>4, <2>1, PpidValue, ReservedPid DEF Pids
  <2>. QED  BY <1>3, <2>1, <2>2, <2>3
<1>6. pid[proc] \in Pids(Exists) \ Pids(Zombies)
  BY <1>0, Forking, RunningPid
<1>. QED
  BY <1>0, <1>1, <1>3, <1>5, <1>6, ReservedPid, Zenon DEF Tree!Spawn, Zombies, Created, PpidOf

\* exit(): the children go to pid 1.
LEMMA TreeExit ==
  ASSUME Inductive, Inductive', Exit \/ Fault
  PROVE  \/ UNCHANGED Tree!lvars
         \/ Tree!Exit(pid[proc]) /\ pid[proc] \in Pids(Exists) \ Pids(Zombies)
<1>0. proc # NULL /\ proc \in Slots /\ state[proc] = "RUNNING"
  BY Running DEF Exit, Fault, At
<1>1. CASE proc = init1
  <2>. UNCHANGED <<state, pid, parent, nextpid>>
    BY <1>1, Zenon DEF Exit, Fault, ExitWith, Panic, table
  <2>. QED  BY TreeStutter
<1>2. CASE proc # init1
  <2>. DEFINE woken == Wakened(state, parent[proc])
  <2>1. PICK st : /\ st \in {woken, Wakened(woken, init1)}
                  /\ state' = [st EXCEPT ![proc] = "ZOMBIE"]
    BY <1>2, Zenon DEF Exit, Fault, ExitWith
  <2>2. /\ UNCHANGED <<pid, nextpid>>
        /\ parent' = [s \in Slots |-> IF parent[s] = proc THEN init1 ELSE parent[s]]
    BY <1>2, Zenon DEF Exit, Fault, ExitWith, Children
  <2>3. /\ woken \in [Slots -> States]
        /\ \A s \in Slots : \/ woken[s] = state[s]
                            \/ state[s] = "SLEEPING" /\ woken[s] = "READY"
    BY WakenedState DEF Inductive, TypeOK
  <2>. HIDE DEF woken
  <2>4. /\ st \in [Slots -> States]
        /\ \A s \in Slots : \/ st[s] = state[s]
                            \/ state[s] = "SLEEPING" /\ st[s] = "READY"
    BY <2>1, <2>3, WakenedState
  <2>5. Exists' = Exists /\ Zombies' = Zombies \cup {proc} /\ Created' = Created
    BY <1>0, <2>1, <2>4 DEF Exists, Zombies, Created
  <2>6. /\ Pids(Exists)' = Pids(Exists) /\ Pids(Created)' = Pids(Created)
        /\ Pids(Zombies)' = Pids(Zombies) \cup {pid[proc]}
    BY <2>2, <2>5 DEF Pids
  <2>7. \A s \in Exists : ParentPid(s)' = IF ParentPid(s) = pid[proc] THEN 1 ELSE ParentPid(s)
    <3>. SUFFICES ASSUME NEW s \in Exists
                  PROVE  ParentPid(s)' = IF ParentPid(s) = pid[proc] THEN 1 ELSE ParentPid(s)
      OBVIOUS
    <3>1. s \in Slots /\ parent[s] \in Slots \cup {NULL} /\ pid[init1] = 1 /\ init1 # NULL
      BY SlotsDistinct DEF Exists, Inductive, TypeOK, TableInv, InitLives
    <3>2. CASE parent[s] = proc
      BY <1>0, <2>2, <3>1, <3>2 DEF ParentPid
    <3>3. CASE parent[s] # proc
      BY <1>0, <2>2, <3>1, <3>3, RunningPid DEF ParentPid
    <3>. QED  BY <3>2, <3>3
  <2>8. PpidOf' = [m \in Pids(Exists) |-> IF PpidOf[m] = pid[proc] THEN 1 ELSE PpidOf[m]]
    <3>1. (/\ PpidOf = [n \in Pids(Exists) |-> PpidOf[n]]
           /\ \A s \in Exists : PpidOf[pid[s]] = ParentPid(s))'
      BY PpidValue, PTL
    <3>2. \A n \in Pids(Exists) :
            PpidOf'[n] = IF PpidOf[n] = pid[proc] THEN 1 ELSE PpidOf[n]
      BY <2>2, <2>5, <2>7, <3>1, PpidValue DEF Pids
    <3>. QED  BY <2>6, <3>1, <3>2
  <2>9. pid[proc] # 1
    BY <1>0, <1>2, RunningPid, Zenon DEF Inductive, TypeOK, TableInv, InitLives
  <2>. QED
    BY <1>0, <2>2, <2>6, <2>8, <2>9, RunningPid, ZenonT(30)
       DEF Tree!Exit, Zombies, Created, PpidOf
<1>. QED  BY <1>1, <1>2

\* wait() takes a zombie child of the process that calls it out of the tree.
LEMMA TreeReap ==
  ASSUME Inductive, Inductive', Wait
  PROVE  \/ UNCHANGED Tree!lvars
         \/ \E n \in Pids(Exists) : Tree!Reap(pid[proc], n)
<1>0. proc # NULL /\ proc \in Slots /\ state[proc] = "RUNNING"
  BY Running, Zenon DEF Wait, At
<1>. DEFINE zombies == {s \in Children(proc) : state[s] = "ZOMBIE"}
<1>1. CASE zombies = {}
  <2>1. UNCHANGED <<pid, parent, nextpid>>
        /\ (state' = state \/ state' = [state EXCEPT ![proc] = "SLEEPING"])
    BY <1>1, Zenon DEF Wait
  <2>. QED  BY <1>0, <2>1, TreeStutter, ZenonT(30) DEF Alive, Inductive, TypeOK
<1>2. CASE zombies # {}
  <2>1. zombies \in SUBSET Nat
    BY SlotsDistinct DEF Children
  <2>2. PICK z \in Slots : /\ z = FirstOf(zombies)
                           /\ parent[z] = proc /\ state[z] = "ZOMBIE"
    BY <1>2, <2>1, FirstOfIn DEF Children
  <2>3. /\ state' = [state EXCEPT ![z] = "UNUSED"] /\ pid' = [pid EXCEPT ![z] = 0]
        /\ parent' = [parent EXCEPT ![z] = NULL] /\ nextpid' = nextpid
    BY <1>2, <2>2, ZenonT(30) DEF Wait, Deallocate
  <2>. HIDE DEF zombies
  <2>4. /\ Exists' = Exists \ {z} /\ Zombies' = Zombies \ {z} /\ Created' = Created
        /\ z \in Exists /\ z \in Zombies /\ z \notin Created /\ z \notin Alive
    BY <2>2, <2>3, Zenon DEF Exists, Zombies, Created, Alive, Inductive, TypeOK
  <2>5. \A s \in Slots \ {z} : /\ pid'[s] = pid[s] /\ parent'[s] = parent[s]
                               /\ parent[s] # z
    <3>1. \A s \in Slots : parent[s] # z
      BY <2>4, SlotsDistinct, ParentAlive
    <3>2. \A s \in Slots \ {z} : pid'[s] = pid[s] /\ parent'[s] = parent[s]
      BY <2>3, ZenonT(30) DEF Inductive, TypeOK
    <3>. QED  BY <3>1, <3>2
  <2>6. \A s \in Exists : pid[s] = pid[z] => s = z
    <3>1. pid[z] # 0
      BY <2>2 DEF Inductive, TypeOK, TableInv, PidsBelowNext
    <3>2. Exists \subseteq Slots
      BY DEF Exists
    <3>. QED  BY <2>2, <3>1, <3>2, ZenonT(30) DEF Inductive, TableInv, PidsUnique
  <2>7. /\ Pids(Exists)' = Pids(Exists) \ {pid[z]}
        /\ Pids(Zombies)' = Pids(Zombies) \ {pid[z]}
        /\ Pids(Created)' = Pids(Created)
    <3>1. Zombies \subseteq Exists /\ Exists \subseteq Slots /\ Created \subseteq Slots
      BY DEF Zombies, Exists, Created
    <3>. QED  BY <2>4, <2>5, <2>6, <3>1, Zenon DEF Pids
  <2>8. PpidOf' = [m \in Pids(Exists)' |-> PpidOf[m]]
    <3>1. (/\ PpidOf = [n \in Pids(Exists) |-> PpidOf[n]]
           /\ \A s \in Exists : PpidOf[pid[s]] = ParentPid(s))'
      BY PpidValue, PTL
    <3>2. \A s \in Exists \ {z} : pid'[s] = pid[s] /\ ParentPid(s)' = ParentPid(s)
      <4>. SUFFICES ASSUME NEW s \in Exists \ {z}
                    PROVE  pid'[s] = pid[s] /\ ParentPid(s)' = ParentPid(s)
        OBVIOUS
      <4>1. s \in Slots \ {z}
        BY Zenon DEF Exists
      <4>2. pid'[s] = pid[s] /\ parent'[s] = parent[s] /\ parent[s] # z
        BY <2>5, <4>1, Zenon
      <4>3. parent[s] = NULL \/ parent[s] \in Slots \ {z}
        BY <4>1, <4>2 DEF Inductive, TypeOK
      <4>4. parent[s] # NULL => pid'[parent[s]] = pid[parent[s]]
        BY <2>5, <4>3, Zenon
      <4>. QED  BY <4>2, <4>4, Zenon DEF ParentPid
    <3>3. \A n \in Pids(Exists)' : PpidOf'[n] = PpidOf[n]
      BY <2>4, <3>1, <3>2, PpidValue DEF Pids
    <3>. QED  BY <3>1, <3>3
  <2>9. /\ pid[z] \in Pids(Exists) /\ pid[z] \in Pids(Zombies)
        /\ PpidOf[pid[z]] = pid[proc]
    BY <1>0, <2>2, <2>4, PpidValue DEF Pids, ParentPid
  <2>. QED
    BY <2>3, <2>7, <2>8, <2>9, Zenon DEF Tree!Reap, Zombies, Created, PpidOf
<1>. QED  BY <1>1, <1>2

\* Every step of the kernel is a step of the tree, or none of it.
LEMMA TreeStep ==
  ASSUME Inductive, Inductive', [Next]_vars
  PROVE  [Tree!LNext]_(Tree!lvars)
<1>1. CASE ForkAllocate
  BY <1>1, TreeReserve DEF Tree!LNext
<1>2. CASE ForkNoStack \/ ForkNoMemory
  BY <1>2, TreeAbandon DEF Tree!LNext, Created
<1>3. CASE ForkReady
  BY <1>3, TreeSpawn, Zenon DEF Tree!LNext, Tree!Live, Created, Zombies
<1>4. CASE Exit \/ Fault
  BY <1>4, TreeExit DEF Tree!LNext, Tree!Live, Zombies
<1>5. CASE Wait
  <2>1. pid[proc] \in Pids(Exists) \ Pids(Zombies)
    BY <1>5, RunningPid, Zenon DEF Wait, At
  <2>. QED  BY <1>5, <2>1, TreeReap, Zenon DEF Tree!LNext, Tree!Live, Zombies
<1>6. ASSUME /\ UNCHANGED <<pid, parent, nextpid>>
             /\ \A s \in Slots : state'[s] = state[s] \/ (s \in Alive /\ s \in Alive')
      PROVE  UNCHANGED Tree!lvars
  BY <1>6, TreeStutter
<1>7. state \in [Slots -> States]
  BY DEF Inductive, TypeOK
<1>8. CASE SchedulerPass \/ SchedulerSkip \/ SchedulerRun
  BY <1>6, <1>7, <1>8 DEF SchedulerPass, SchedulerSkip, SchedulerRun, table, Alive
<1>9. CASE SwitchedTo \/ SleepReturn \/ SyscallEnter \/ SyscallReturn \/ ForkStack
  BY <1>6, <1>9, Zenon DEF SwitchedTo, SleepReturn, SyscallEnter, SyscallReturn, ForkStack,
     Panic, table
<1>10. CASE TrapYield
  BY <1>6, <1>7, <1>10, Running DEF TrapYield, Yield, At, Alive
<1>11. ASSUME NEW c \in Chan, IrqWakeup(c) \/ Sleep(c) \/ Wakeup(c)
       PROVE  UNCHANGED Tree!lvars
  <2>1. /\ Wakened(state, c) \in [Slots -> States]
        /\ \A s \in Slots : \/ Wakened(state, c)[s] = state[s]
                            \/ state[s] = "SLEEPING" /\ Wakened(state, c)[s] = "READY"
    BY <1>7, WakenedState
  <2>. QED
    BY <1>6, <1>7, <1>11, <2>1, Running, Zenon DEF IrqWakeup, Sleep, Wakeup, Yield, At, Alive
<1>12. CASE Halted \/ UNCHANGED vars
  BY <1>6, <1>12 DEF Halted, vars
<1>. QED  BY <1>1, <1>2, <1>3, <1>4, <1>5, <1>8, <1>9, <1>10, <1>11, <1>12 DEF Next

\* The process table with its scheduler implements the tree of Lifecycle.
THEOREM LifecycleImplemented == Spec => ImplementsLifecycle
<1>1. Inductive /\ Inductive' /\ [Next]_vars => [Tree!LNext]_(Tree!lvars)
  BY TreeStep
<1>. QED
  BY TreeInit, <1>1, InductiveInvariant, PTL DEF Spec, ImplementsLifecycle, Tree!LSpec

----------------------------------------------------------------------------
(* The scheduler is round robin *)

\* How a step moves the loop of the scheduler.
LEMMA SchedulerMoves ==
  ASSUME Inductive, Inductive', [Next]_vars
  PROVE  \/ UNCHANGED <<proc, scan>>
         \/ proc # NULL /\ proc' = NULL /\ scan' = scan + 1
         \/ UNCHANGED proc /\ proc = NULL /\ scan = NPROC /\ scan' = 0
         \/ /\ UNCHANGED <<proc, state>> /\ proc = NULL /\ scan # NPROC
            /\ state[scan] # "READY" /\ scan' = scan + 1
         \/ proc = NULL /\ proc' = scan /\ scan \in Slots /\ UNCHANGED scan
<1>1. CASE SchedulerPass \/ SchedulerSkip \/ SchedulerRun
  BY <1>1, NPROCAssumption, ZenonT(30) DEF SchedulerPass, SchedulerSkip, SchedulerRun, table, Slots,
     Inductive, TypeOK
<1>2. CASE SwitchedTo \/ SleepReturn \/ SyscallEnter \/ SyscallReturn \/ TrapYield
  BY <1>2, Zenon DEF SwitchedTo, SleepReturn, SyscallEnter, SyscallReturn, TrapYield, Yield, Sched, At,
     Panic
<1>3. ASSUME NEW c \in Chan, IrqWakeup(c) \/ Sleep(c) \/ Wakeup(c)
      PROVE  UNCHANGED <<proc, scan>> \/ (proc # NULL /\ proc' = NULL /\ scan' = scan + 1)
  BY <1>3 DEF IrqWakeup, Sleep, Wakeup, Yield, Sched, At
<1>4. CASE ForkAllocate \/ ForkStack \/ ForkNoStack \/ ForkNoMemory \/ ForkReady
  BY <1>4, ZenonT(30) DEF ForkAllocate, ForkStack, ForkNoStack, ForkNoMemory, ForkReady, Panic
<1>5. CASE Exit \/ Fault \/ Wait
  BY <1>5, Zenon DEF Exit, Fault, ExitWith, Wait, Sched, Panic, At
<1>6. CASE Halted \/ UNCHANGED vars
  BY <1>6 DEF Halted, vars
<1>. QED  BY <1>1, <1>2, <1>3, <1>4, <1>5, <1>6, ZenonT(30) DEF Next

\* The step of RoundRobin.
NotOvertaken ==
  proc = NULL /\ proc' # NULL /\ panic' = "no" /\ state'[Watched] = "READY"
    => proc' \notin overtaken

\* The loop passes the watched slot only by running the watched process.
LEMMA OvertakenStep ==
  ASSUME Inductive, Inductive', Overtaken, MCNext
  PROVE  Overtaken' /\ NotOvertaken
<1>1. [Next]_vars /\ Watched \in Nat /\ Watched < NPROC /\ NPROC \in Nat
  BY WatchedAssumption, NPROCAssumption DEF MCNext, Slots
<1>2. /\ proc \in Slots \cup {NULL} /\ proc' \in Slots \cup {NULL} /\ scan \in 0 .. NPROC
      /\ NULL \notin Nat /\ \A s \in Slots : s \in Nat /\ s < NPROC
      /\ proc # NULL => scan = proc /\ state[proc] = "RUNNING"
  <2>1. proc # NULL => scan = proc /\ state[proc] = "RUNNING"
    BY Running
  <2>2. NULL \notin Nat /\ \A s \in Slots : s \in Nat /\ s < NPROC
    BY NULLAssumption, NPROCAssumption DEF Slots
  <2>. QED  BY <2>1, <2>2 DEF Inductive, TypeOK
<1>3. overtaken' = IF state'[Watched] # "READY" THEN {}
                   ELSE IF proc = NULL /\ proc' # NULL THEN overtaken \cup {proc'}
                   ELSE overtaken
  BY DEF MCNext
<1>4. CASE state'[Watched] # "READY"
  BY <1>3, <1>4 DEF Overtaken, NotOvertaken
<1>5. CASE state'[Watched] = "READY" /\ ~(proc = NULL /\ proc' # NULL)
  <2>1. overtaken' = overtaken /\ NotOvertaken
    BY <1>3, <1>5 DEF NotOvertaken
  <2>. SUFFICES ASSUME NEW x \in overtaken
                PROVE  Behind(x)'
    BY <1>5, <2>1 DEF Overtaken, Behind
  <2>2. x \in Nat /\ x < NPROC /\ Behind(x) /\ state[Watched] = "READY"
    BY <1>2 DEF Overtaken, Behind
  <2>3. proc # Watched
    BY <1>1, <1>2, <2>2
  <2>4. ~(proc = NULL /\ scan \in Slots /\ proc' = scan)
    BY <1>2, <1>5
  <2>. QED  BY <1>1, <1>2, <2>2, <2>3, <2>4, SchedulerMoves DEF Behind
<1>6. CASE state'[Watched] = "READY" /\ proc = NULL /\ proc' # NULL
  <2>1. proc' = scan /\ scan \in Slots /\ scan' = scan /\ overtaken' = overtaken \cup {scan}
    BY <1>1, <1>3, <1>6, SchedulerMoves
  <2>2. scan # Watched
    BY <1>2, <1>6, <2>1 DEF Inductive, SchedInv, OneRunning
  <2>3. \A x \in overtaken : Behind(x) /\ x \in Nat
    BY <1>2 DEF Overtaken, Behind
  <2>4. scan \notin overtaken
    BY <1>1, <1>2, <1>6, <2>2, <2>3 DEF Behind
  <2>5. \A x \in overtaken' : Behind(x)'
    BY <1>1, <1>2, <1>6, <2>1, <2>2, <2>3 DEF Behind
  <2>. QED  BY <1>6, <2>1, <2>4, <2>5 DEF Overtaken, NotOvertaken, Behind
<1>. QED  BY <1>4, <1>5, <1>6

\* The scheduler is round robin, for every number of processes.
THEOREM SchedulerRoundRobin == MCSpec => RoundRobin
<1>1. MCInit => Inductive /\ Overtaken
  BY InitInductive DEF MCInit, Overtaken
<1>2. Inductive /\ [MCNext]_mcvars => Inductive'
  <2>1. [MCNext]_mcvars => [Next]_vars
    BY DEF MCNext, mcvars
  <2>. QED  BY <2>1, NextInductive
<1>3. Inductive /\ Overtaken /\ [MCNext]_mcvars => Overtaken' /\ [NotOvertaken]_mcvars
  <2>1. ASSUME UNCHANGED mcvars, Overtaken PROVE Overtaken'
    BY <2>1 DEF mcvars, vars, Overtaken, Behind
  <2>. QED  BY <1>2, <2>1, OvertakenStep
<1>. QED  BY <1>1, <1>2, <1>3, PTL DEF MCSpec, RoundRobin, NotOvertaken
=============================================================================
