------------------------------ MODULE Process ------------------------------
(***************************************************************************)
(* The process table of the kernel and its scheduler: kernel/process.c,    *)
(* with the parts of kernel/trap.c that call into it.                      *)
(*                                                                         *)
(* There is one CPU.  Kernel code is switched out only where it calls      *)
(* sched(), and it is interrupted only while no spinlock is held (the      *)
(* module Cli checks that discipline instruction by instruction), so each  *)
(* critical section under ptable.lk is one action here, and an interrupt   *)
(* handler that calls wakeup() may run between two actions wherever the    *)
(* interrupts are on.                                                      *)
(***************************************************************************)
EXTENDS Naturals, FiniteSets

CONSTANTS
  NPROC,    \* size of ptable.t, and the largest pid
  Chan,     \* the channels slept on other than a Process pointer
  NULL      \* the null pointer

ASSUME NPROCAssumption == NPROC \in Nat /\ NPROC >= 2
ASSUME NULLAssumption  == NULL \notin Nat /\ NULL \notin Chan
ASSUME ChanAssumption  == Chan \cap Nat = {}

Slots == 0 .. NPROC - 1

VARIABLES
  state,    \* state[s]:  PROC_UNUSED .. PROC_ZOMBIE
  pid,      \* pid[s]:    process id, 0 when there is none
  parent,   \* parent[s]: the slot of the parent, or NULL
  chan,     \* chan[s]:   what the process sleeps on, or NULL
  killed,   \* killed[s]
  pages,    \* pages[s]:  which of "kstack" and "pgdir" the slot owns
  pc,       \* pc[s]:     where the kernel code of the process is
  nextpid,  \* the next pid
  init1,    \* proc_init1
  proc,     \* cpu.proc
  scan,     \* the slot the scheduler's loop is at; NPROC between two passes
  child,    \* the slot fork() is filling in, or NULL
  panic     \* the message of the panic that stopped the kernel, or "no"

table == <<state, pid, parent, chan, killed, pages>>
vars  == <<state, pid, parent, chan, killed, pages, pc, nextpid, init1, proc,
           scan, child, panic>>

States == {"UNUSED", "CREATED", "SLEEPING", "READY", "RUNNING", "ZOMBIE"}

\* "user" is user mode, "syscall" the inside of a system call that may sleep,
\* "trap" the end of trap(); "forkret", "yield", "wait", "sleep" and "zombie"
\* say where the process continues when the scheduler switches to it.
PCs == {"none", "forkret", "user", "syscall", "fork", "trap", "yield", "wait",
        "sleep", "zombie"}

Panics == {"no", "allocate_process", "init1 exiting", "zombie exit", "uvm_switch"}

----------------------------------------------------------------------------
(* Helpers *)

\* ptable_init and init_pid1: what kmain has set up when it calls scheduler().
Init ==
  /\ state   = [s \in Slots |-> IF s = 1 THEN "READY" ELSE "UNUSED"]
  /\ pid     = [s \in Slots |-> IF s = 1 THEN 1 ELSE 0]
  /\ parent  = [s \in Slots |-> NULL]
  /\ chan    = [s \in Slots |-> NULL]
  /\ killed  = [s \in Slots |-> FALSE]
  /\ pages   = [s \in Slots |-> IF s = 1 THEN {"kstack", "pgdir"} ELSE {}]
  /\ pc      = [s \in Slots |-> IF s = 1 THEN "forkret" ELSE "none"]
  /\ nextpid = 2
  /\ init1   = 1
  /\ proc    = NULL
  /\ scan    = NPROC
  /\ child   = NULL
  /\ panic   = "no"

\* wakeup_unlocked on the states st: every sleeper on c becomes ready.
Wakened(st, c) ==
  [s \in Slots |-> IF st[s] = "SLEEPING" /\ chan[s] = c THEN "READY" ELSE st[s]]

\* get_unused_process starts at slot 1.
UnusedSlots == {s \in Slots \ {0} : state[s] = "UNUSED"}

FirstOf(S) == CHOOSE s \in S : \A t \in S : s <= t

Children(p) == {s \in Slots : parent[s] = p}

\* Mutation: the kernel stack is not freed.
DeallocateKeepsStack(p, ch) ==
  /\ state'  = [state  EXCEPT ![p] = "UNUSED"]
  /\ pid'    = [pid    EXCEPT ![p] = 0]
  /\ parent' = [parent EXCEPT ![p] = NULL]
  /\ chan'   = [ch     EXCEPT ![p] = NULL]
  /\ killed' = [killed EXCEPT ![p] = FALSE]
  /\ pages'  = [pages  EXCEPT ![p] = @ \ {"pgdir"}]

\* deallocate_process_unlocked(p); ch is the channels it finds.
Deallocate(p, ch) ==
  /\ state'  = [state  EXCEPT ![p] = "UNUSED"]
  /\ pid'    = [pid    EXCEPT ![p] = 0]
  /\ parent' = [parent EXCEPT ![p] = NULL]
  /\ chan'   = [ch     EXCEPT ![p] = NULL]
  /\ killed' = [killed EXCEPT ![p] = FALSE]
  /\ pages'  = [pages  EXCEPT ![p] = {}]

\* Mutation: the loop starts again at the first slot.
SchedRestarts == proc' = NULL /\ scan' = 0

\* sched(): back into the loop of the scheduler, which moves to the next slot.
Sched ==
  /\ proc' = NULL
  /\ scan' = scan + 1

\* A process is on the CPU and its kernel code is at l.
At(l) == panic = "no" /\ proc # NULL /\ pc[proc] = l

Goto(l) == pc' = [pc EXCEPT ![proc] = l]

Panic(msg) ==
  /\ panic' = msg
  /\ UNCHANGED <<table, pc, nextpid, init1, proc, scan, child>>

----------------------------------------------------------------------------
(* The scheduler *)

\* sti(); lock(&ptable.lk): a new pass over the table.
SchedulerPass ==
  /\ panic = "no" /\ proc = NULL /\ scan = NPROC
  /\ scan' = 0
  /\ UNCHANGED <<table, pc, nextpid, init1, proc, child, panic>>

\* The slot is not ready: continue.
SchedulerSkip ==
  /\ panic = "no" /\ proc = NULL /\ scan # NPROC
  /\ state[scan] # "READY"
  /\ scan' = scan + 1
  /\ UNCHANGED <<table, pc, nextpid, init1, proc, child, panic>>

\* The slot is ready: uvm_switch and swtch to it.
SchedulerRun ==
  /\ panic = "no" /\ proc = NULL /\ scan # NPROC
  /\ state[scan] = "READY"
  /\ proc' = scan
  /\ IF pages[scan] = {"kstack", "pgdir"}
     THEN /\ state' = [state EXCEPT ![scan] = "RUNNING"]
          /\ UNCHANGED panic
     ELSE /\ panic' = "uvm_switch"
          /\ UNCHANGED state
  /\ UNCHANGED <<pid, parent, chan, killed, pages, pc, nextpid, init1, scan,
                 child>>

----------------------------------------------------------------------------
(* The code the scheduler switches to *)

\* forkret, and the end of yield: unlock(&ptable.lk) and back to user mode.
\* What follows sched() in exit is a panic.
SwitchedTo ==
  /\ At("forkret") \/ At("yield") \/ At("zombie")
  /\ IF pc[proc] = "zombie"
     THEN Panic("zombie exit")
     ELSE /\ Goto("user")
          /\ UNCHANGED <<table, nextpid, init1, proc, scan, child, panic>>

\* The end of sleep on a channel of Chan: the caller's loop is resumed.
SleepReturn ==
  /\ At("sleep")
  /\ chan' = [chan EXCEPT ![proc] = NULL]
  /\ Goto("syscall")
  /\ UNCHANGED <<state, pid, parent, killed, pages, nextpid, init1, proc, scan,
                 child, panic>>

----------------------------------------------------------------------------
(* yield, sleep and wakeup *)

\* Mutation: the state is left at PROC_RUNNING.
YieldRunning(st) ==
  /\ state' = st
  /\ Goto("yield")
  /\ Sched
  /\ UNCHANGED <<pid, parent, chan, killed, pages, nextpid, init1, child, panic>>

\* yield() of the states st.
Yield(st) ==
  /\ state' = [st EXCEPT ![proc] = "READY"]
  /\ Goto("yield")
  /\ Sched
  /\ UNCHANGED <<pid, parent, chan, killed, pages, nextpid, init1, child, panic>>

\* A trap that only yields: the timer, a system call that touches none of this
\* state, or the end of trap() after a system call.
TrapYield ==
  /\ At("user") \/ At("trap")
  /\ Yield(state)

\* An interrupt whose handler calls wakeup(c).  From user mode, trap() then
\* yields; from kernel code and from the scheduler's window it just returns.
IrqWakeup(c) ==
  \/ At("user") /\ Yield(Wakened(state, c))
  \/ /\ \/ At("syscall") \/ At("fork") \/ At("trap")
        \/ panic = "no" /\ proc = NULL /\ scan = NPROC
     /\ state' = Wakened(state, c)
     /\ UNCHANGED <<pid, parent, chan, killed, pages, pc, nextpid, init1, proc,
                    scan, child, panic>>

\* A system call that may sleep: a pipe, the console, a mutex.
SyscallEnter ==
  /\ At("user")
  /\ Goto("syscall")
  /\ UNCHANGED <<table, nextpid, init1, proc, scan, child, panic>>

SyscallReturn ==
  /\ At("syscall")
  /\ Goto("trap")
  /\ UNCHANGED <<table, nextpid, init1, proc, scan, child, panic>>

\* sleep(c, lk) called by such a system call.
Sleep(c) ==
  /\ At("syscall")
  /\ chan'  = [chan  EXCEPT ![proc] = c]
  /\ state' = [state EXCEPT ![proc] = "SLEEPING"]
  /\ Goto("sleep")
  /\ Sched
  /\ UNCHANGED <<pid, parent, killed, pages, nextpid, init1, child, panic>>

\* wakeup(c) called by such a system call.
Wakeup(c) ==
  /\ At("syscall")
  /\ state' = Wakened(state, c)
  /\ UNCHANGED <<pid, parent, chan, killed, pages, pc, nextpid, init1, proc,
                 scan, child, panic>>

----------------------------------------------------------------------------
(* fork *)

\* allocate_process up to its unlock.
ForkAllocate ==
  /\ At("user")
  /\ IF nextpid > NPROC
     THEN Panic("allocate_process")
     ELSE IF UnusedSlots = {}
     THEN /\ Goto("trap")
          /\ UNCHANGED <<table, nextpid, init1, proc, scan, child, panic>>
     ELSE /\ child'   = FirstOf(UnusedSlots)
          /\ state'   = [state EXCEPT ![child'] = "CREATED"]
          /\ pid'     = [pid EXCEPT ![child'] = nextpid]
          /\ nextpid' = nextpid + 1
          /\ Goto("fork")
          /\ UNCHANGED <<parent, chan, killed, pages, init1, proc, scan, panic>>

\* setup_process_stack: palloc succeeds ...
ForkStack ==
  /\ At("fork") /\ pages[child] = {}
  /\ pages' = [pages EXCEPT ![child] = {"kstack"}]
  /\ pc'    = [pc EXCEPT ![child] = "forkret"]
  /\ UNCHANGED <<state, pid, parent, chan, killed, nextpid, init1, proc, scan,
                 child, panic>>

\* ... or fails, and fork returns -1.  The pid is left behind.
ForkNoStack ==
  /\ At("fork") /\ pages[child] = {}
  /\ state' = [state EXCEPT ![child] = "UNUSED"]
  /\ child' = NULL
  /\ Goto("trap")
  /\ UNCHANGED <<pid, parent, chan, killed, pages, nextpid, init1, proc, scan,
                 panic>>

\* uvm_copy fails: the child is deallocated, and fork returns -1.
ForkNoMemory ==
  /\ At("fork") /\ pages[child] = {"kstack"}
  /\ Deallocate(child, chan)
  /\ child' = NULL
  /\ pc'    = [pc EXCEPT ![child] = "none", ![proc] = "trap"]
  /\ UNCHANGED <<nextpid, init1, proc, scan, panic>>

\* uvm_copy succeeds: the child is set up and made ready.
ForkReady ==
  /\ At("fork") /\ pages[child] = {"kstack"}
  /\ pages'  = [pages EXCEPT ![child] = @ \cup {"pgdir"}]
  /\ parent' = [parent EXCEPT ![child] = proc]
  /\ state'  = [state EXCEPT ![child] = "READY"]
  /\ child'  = NULL
  /\ Goto("trap")
  /\ UNCHANGED <<pid, chan, killed, nextpid, init1, proc, scan, panic>>

----------------------------------------------------------------------------
(* exit and wait *)

\* Mutations of exit: with the states st, the children go to heir.
ExitVariant(k, st, heir) ==
  IF proc = init1
  THEN Panic("init1 exiting")
  ELSE /\ state'  = [st EXCEPT ![proc] = "ZOMBIE"]
       /\ parent' = [s \in Slots |-> IF s \in Children(proc)
                                     THEN heir ELSE parent[s]]
       /\ killed' = k
       /\ Goto("zombie")
       /\ Sched
       /\ UNCHANGED <<pid, chan, pages, nextpid, init1, child, panic>>
ExitNoInitWakeup(k)   == ExitVariant(k, Wakened(state, parent[proc]), init1)
ExitNoParentWakeup(k) == ExitVariant(k, state, init1)
ExitKeepsChildren(k)  == ExitVariant(k, Wakened(state, parent[proc]), proc)
ExitToGrandparent(k)  == ExitVariant(k, Wakened(state, parent[proc]), parent[proc])

\* exit() of the running process, whose killed flags are k.
ExitWith(k) ==
  IF proc = init1
  THEN Panic("init1 exiting")
  ELSE LET woken == Wakened(state, parent[proc])
           st    == IF \E s \in Children(proc) : woken[s] = "ZOMBIE"
                    THEN Wakened(woken, init1) ELSE woken
       IN  /\ state'  = [st EXCEPT ![proc] = "ZOMBIE"]
           /\ parent' = [s \in Slots |-> IF s \in Children(proc)
                                         THEN init1 ELSE parent[s]]
           /\ killed' = k
           /\ Goto("zombie")
           /\ Sched
           /\ UNCHANGED <<pid, chan, pages, nextpid, init1, child, panic>>

Exit == At("user") /\ ExitWith(killed)

\* A fault in user mode: trap() sets killed and exits the process.
Fault == At("user") /\ ExitWith([killed EXCEPT ![proc] = TRUE])

\* Mutation: any zombie will do.
WaitAny ==
  /\ At("user") \/ At("wait")
  /\ \E z \in Slots : /\ state[z] = "ZOMBIE"
                      /\ Deallocate(z, [chan EXCEPT ![proc] = NULL])
                      /\ pc' = [pc EXCEPT ![z] = "none", ![proc] = "trap"]
  /\ UNCHANGED <<nextpid, init1, proc, scan, child, panic>>

\* One round of the loop of wait(), at its call and after each sleep.
Wait ==
  /\ At("user") \/ At("wait")
  /\ LET awake   == [chan EXCEPT ![proc] = NULL]
         zombies == {s \in Children(proc) : state[s] = "ZOMBIE"}
     IN  IF zombies # {}
         THEN LET z == FirstOf(zombies)
              IN  /\ Deallocate(z, awake)
                  /\ pc' = [pc EXCEPT ![z] = "none", ![proc] = "trap"]
                  /\ UNCHANGED <<nextpid, init1, proc, scan, child, panic>>
         ELSE IF Children(proc) = {} \/ killed[proc]
         THEN /\ chan' = awake
              /\ Goto("trap")
              /\ UNCHANGED <<state, pid, parent, killed, pages, nextpid, init1,
                             proc, scan, child, panic>>
         ELSE /\ chan'  = [chan  EXCEPT ![proc] = proc]
              /\ state' = [state EXCEPT ![proc] = "SLEEPING"]
              /\ Goto("wait")
              /\ Sched
              /\ UNCHANGED <<pid, parent, killed, pages, nextpid, init1, child,
                             panic>>

----------------------------------------------------------------------------

\* panic() never returns.
Halted == panic # "no" /\ UNCHANGED vars

Next ==
  \/ SchedulerPass \/ SchedulerSkip \/ SchedulerRun
  \/ SwitchedTo \/ SleepReturn
  \/ TrapYield \/ SyscallEnter \/ SyscallReturn
  \/ \E c \in Chan : IrqWakeup(c) \/ Sleep(c) \/ Wakeup(c)
  \/ ForkAllocate \/ ForkStack \/ ForkNoStack \/ ForkNoMemory \/ ForkReady
  \/ Exit \/ Fault \/ Wait
  \/ Halted

Spec == Init /\ [][Next]_vars

\* The scheduler's loop and kernel code keep running, and the timer interrupts
\* a process in user mode.  Nothing is assumed of user programs, of device
\* interrupts or of palloc.
Fairness ==
  /\ WF_vars(SchedulerPass) /\ WF_vars(SchedulerSkip) /\ WF_vars(SchedulerRun)
  /\ WF_vars(SwitchedTo) /\ WF_vars(SleepReturn) /\ WF_vars(SyscallReturn)
  /\ WF_vars(TrapYield)
  /\ WF_vars(ForkStack \/ ForkNoStack) /\ WF_vars(ForkReady \/ ForkNoMemory)
  /\ WF_vars(At("wait") /\ Wait)

FairSpec == Spec /\ Fairness

----------------------------------------------------------------------------
(* Properties *)

Alive  == {s \in Slots : state[s] \in {"READY", "RUNNING", "SLEEPING"}}
Exists == {s \in Slots : state[s] \in {"READY", "RUNNING", "SLEEPING", "ZOMBIE"}}

TypeOK ==
  /\ state   \in [Slots -> States]
  /\ pid     \in [Slots -> Nat]
  /\ parent  \in [Slots -> Slots \cup {NULL}]
  /\ chan    \in [Slots -> Slots \cup Chan \cup {NULL}]
  /\ killed  \in [Slots -> BOOLEAN]
  /\ pages   \in [Slots -> SUBSET {"kstack", "pgdir"}]
  /\ pc      \in [Slots -> PCs]
  /\ nextpid \in Nat
  /\ init1   \in Slots
  /\ proc    \in Slots \cup {NULL}
  /\ scan    \in 0 .. NPROC
  /\ child   \in Slots \cup {NULL}
  /\ panic   \in Panics

\* Exactly the process the CPU points to is PROC_RUNNING: every path into the
\* scheduler changes the state first, and nothing else ever clears or sets it.
OneRunning == \A s \in Slots : state[s] = "RUNNING" <=> proc = s

\* The scheduler never switches to a process without a kernel stack and a page
\* table (the panics of uvm_switch) and never back into exit ("zombie exit").
NoInternalPanic == panic \notin {"zombie exit", "uvm_switch"}

\* No wakeup of exit() is lost: a process asleep in wait() has children, and
\* none of them is a zombie it should have been woken for.
NoLostExit ==
  \A s \in Slots : state[s] = "SLEEPING" /\ chan[s] = s =>
    /\ Children(s) # {}
    /\ \A k \in Children(s) : state[k] # "ZOMBIE"

\* Every process but init has a parent that can still wait for it: exit() hands
\* the children over, including those that are zombies already.
HasLiveParent ==
  \A s \in Exists \ {init1} : parent[s] \in Alive

\* No two slots carry the same pid, also after a fork that failed half way.
PidsUnique ==
  \A s, t \in Slots : s # t /\ pid[s] = pid[t] => pid[s] = 0

\* A parent is older than its children, so that the parent pointers form a tree
\* whatever exit() re-parents.
ParentOlder ==
  \A s \in Slots : parent[s] # NULL => pid[parent[s]] < pid[s]

\* The processes form a tree below init: the three together, whatever order fork,
\* exit and wait come in.
WellFormedTree == HasLiveParent /\ PidsUnique /\ ParentOlder

\* A slot owns the pages of a process exactly as long as there is one: no path
\* of fork or wait leaks a kernel stack or a page directory.
NoPageLeak ==
  \A s \in Slots : /\ state[s] = "UNUSED" => pages[s] = {}
                   /\ s \in Exists => pages[s] = {"kstack", "pgdir"}

\* Only its parent, running in wait(), takes a zombie out of the table.
ReapedByParent ==
  [][\A s \in Slots : state[s] = "ZOMBIE" /\ state'[s] # "ZOMBIE" =>
       state'[s] = "UNUSED" /\ proc = parent[s]]_vars

\* The scheduler starves nobody: a ready process gets the CPU.
ReadyRuns ==
  \A s \in Slots : state[s] = "READY" ~> state[s] = "RUNNING" \/ panic # "no"

\* wait() returns once there is a zombie child.
WaitReturns ==
  \A s \in Slots :
    pc[s] = "wait" /\ (\E k \in Children(s) : state[k] = "ZOMBIE")
      ~> pc[s] # "wait" \/ panic # "no"

----------------------------------------------------------------------------
(* The invariant that the proofs of ProcessProofs use: the safety properties
   above, and the facts about the table that make them inductive. *)

\* Where a process continues agrees with its state, and what it sleeps on with
\* where it sleeps.
ResumePoint ==
  \A s \in Slots :
    /\ state[s] = "READY"    => pc[s] \in {"forkret", "yield", "wait", "sleep"}
    /\ state[s] = "RUNNING"  => pc[s] \notin {"none", "zombie"}
    /\ state[s] = "SLEEPING" => \/ pc[s] = "wait"  /\ chan[s] = s
                                \/ pc[s] = "sleep" /\ chan[s] \in Chan
    /\ state[s] = "ZOMBIE"   => pc[s] = "zombie"

\* At most one slot is PROC_CREATED, the one the running fork() is filling in,
\* and it has the youngest pid.
ForkInProgress ==
  /\ child # NULL <=> proc # NULL /\ pc[proc] = "fork"
  /\ \A s \in Slots : state[s] = "CREATED" <=> child = s
  /\ child # NULL => \/ pages[child] = {}
                     \/ pages[child] = {"kstack"} /\ pc[child] = "forkret"
  /\ child # NULL => nextpid = pid[child] + 1

\* Pid 1 lives for ever and is nobody's child.
InitLives ==
  init1 \in Alive /\ parent[init1] = NULL /\ pid[init1] = 1

\* Pids are given out in order, and every process has one.
PidsBelowNext ==
  /\ \A s \in Slots : pid[s] < nextpid
  /\ \A s \in Slots : state[s] # "UNUSED" => pid[s] >= 1
  /\ nextpid >= 2

\* Only a process has a parent, and the scheduler's loop is at the process that
\* is on the CPU.
ParentOfProcess == \A s \in Slots : parent[s] # NULL => s \in Exists
ScanAtProc      == proc # NULL => scan = proc

TableInv ==
  /\ NoPageLeak /\ PidsUnique /\ PidsBelowNext
  /\ InitLives /\ HasLiveParent /\ ParentOlder /\ ParentOfProcess

SchedInv ==
  /\ OneRunning /\ ScanAtProc /\ ResumePoint
  /\ ForkInProgress /\ NoLostExit /\ NoInternalPanic

Inductive == TypeOK /\ TableInv /\ SchedInv

----------------------------------------------------------------------------
(* The abstract process tree *)

\* Processes by pid, and their parents: the tree that Lifecycle is about.
Pids(S) == {pid[s] : s \in S}
SlotOf(n) == CHOOSE s \in Exists : pid[s] = n

Tree == INSTANCE Lifecycle WITH
  procs    <- Pids(Exists),
  zombies  <- Pids({s \in Slots : state[s] = "ZOMBIE"}),
  ppid     <- [n \in Pids(Exists) |-> LET s == SlotOf(n)
                 IN IF parent[s] = NULL THEN 0 ELSE pid[parent[s]]],
  reserved <- Pids({s \in Slots : state[s] = "CREATED"}),
  next     <- nextpid

\* fork, exit and wait over the process table implement the tree of Lifecycle:
\* a process is created, exits and is reaped exactly once, and by its parent.
ImplementsLifecycle == Tree!LSpec
=============================================================================
