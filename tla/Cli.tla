-------------------------------- MODULE Cli --------------------------------
(***************************************************************************)
(* How the kernel keeps its critical sections whole on its one CPU: the    *)
(* interrupt flag, push_cli and pop_cli (trap/ncli.c), the spinlocks       *)
(* (process/spinlock.c), and sched, sleep, wakeup, yield, forkret and the  *)
(* scheduler's loop (process.c) reduced to what they do to locks and to    *)
(* interrupts.  An interrupt may arrive before every single step at which  *)
(* the flag is on.  On top of them is the mutex (process/mutex.c).         *)
(*                                                                         *)
(* A context is the scheduler or a process.  code[c] is what is left to    *)
(* execute on its kernel stack, a sequence of steps; a process whose       *)
(* sequence is empty is in user mode.                                      *)
(***************************************************************************)
EXTENDS Integers, Sequences

CONSTANT Procs

Scheduler == "scheduler"
Contexts  == Procs \cup {Scheduler}

\* ptable.lk, one lock of a device or a pipe that its users sleep with, and the
\* lock in a mutex.
Locks == {"ptable", "dev", "mutex"}

Nobody == "nobody"

\* Neither the scheduler nor Nobody is a process.
ASSUME ProcsAssumption == Procs \cap {Scheduler, Nobody} = {}

VARIABLES
  IF_,      \* the interrupt flag
  ncli,     \* cpu.ncli
  int_on,   \* cpu.int_on
  locked,   \* locked[l]: the spinlock l is held, by this CPU
  ctx,      \* the context on the CPU
  code,     \* code[c]: the rest of what context c executes
  state,    \* state[p] of a process; "MUTEX" is PROC_SLEEPING on the mutex
  owner,    \* the process whose pid is in the mutex, or Nobody
  panicked

vars == <<IF_, ncli, int_on, locked, ctx, code, state, owner, panicked>>

----------------------------------------------------------------------------
(* The routines, as sequences of steps *)

Do(op, arg) == [op |-> op, arg |-> arg]

push_cli == <<Do("readeflags", "none")>>
pop_cli  == <<Do("decrement", "none"), Do("reopen", "none")>>

\* holding(l) followed by the panic of its caller unless the answer is b.
holding(l, b) ==
  push_cli \o <<Do(IF b THEN "assert held" ELSE "assert free", l)>> \o pop_cli

this_proc == push_cli \o pop_cli

\* Mutation: the interrupts are turned off after the lock is taken.
LockThenCli(l) == holding(l, FALSE) \o <<Do("acquire", l)>> \o push_cli

lock(l)   == push_cli \o holding(l, FALSE) \o <<Do("acquire", l)>>
unlock(l) == holding(l, TRUE) \o <<Do("release", l)>> \o pop_cli

\* The rest of sched after it is switched to is the step "restore".
sched == this_proc \o holding("ptable", TRUE) \o <<Do("swtch", Scheduler)>>

sleep(l) ==
  LET own == l = "ptable"
  IN  this_proc \o (IF own THEN <<>> ELSE lock("ptable") \o unlock(l))
      \o <<Do("set", IF l = "mutex" THEN "MUTEX" ELSE "SLEEPING")>> \o sched
      \o (IF own THEN <<>> ELSE unlock("ptable") \o lock(l))

wakeup(chan) == lock("ptable") \o <<Do("wake", chan)>> \o unlock("ptable")

yield == lock("ptable") \o this_proc \o <<Do("set", "READY")>> \o sched
         \o unlock("ptable")

\* One iteration of the scheduler's loop; "scan" is its inner loop.
pass == <<Do("sti", "none")>> \o lock("ptable") \o <<Do("scan", "none")>>
        \o unlock("ptable") \o <<Do("again", "none")>>

\* uvm_switch runs with the lock held and nests another push_cli.
uvm_switch == push_cli \o this_proc \o pop_cli

forkret == unlock("ptable") \o <<Do("iret", "user")>>

lock_mutex ==
  lock("mutex") \o <<Do("while locked", "mutex")>> \o this_proc \o <<Do("own", "none")>>
  \o unlock("mutex")

\* Mutation: the sleepers are not woken.
unlock_mutexNoWakeup == lock("mutex") \o <<Do("disown", "none")>> \o unlock("mutex")

unlock_mutex ==
  lock("mutex") \o <<Do("disown", "none")>> \o wakeup("mutex") \o unlock("mutex")

\* System calls, by the locks they take: one that takes none, one that sleeps
\* with a lock of its own (pipe_read, console_read), one that wakes under such
\* a lock (pipe_write), wait, exit, and one that holds a mutex while it sleeps.
\* The kernel has no call of the last kind yet.
Calls == {"plain", "sleeper", "waker", "wait", "exit", "mutex"}

syscall(k) ==
  CASE k = "plain"   -> <<>>
    [] k = "sleeper" -> lock("dev") \o <<Do("while", "dev")>> \o unlock("dev")
    [] k = "waker"   -> lock("dev") \o wakeup("dev") \o unlock("dev")
    [] k = "wait"    -> lock("ptable") \o <<Do("while", "ptable")>>
                        \o unlock("ptable")
    [] k = "exit"    -> lock("ptable") \o <<Do("set", "ZOMBIE")>> \o sched
                        \o <<Do("zombie exit", "none")>>
    [] k = "mutex"   -> lock_mutex
                        \o lock("dev") \o <<Do("while", "dev")>> \o unlock("dev")
                        \o unlock_mutex

\* Interrupt handlers: the timer's, and one that wakes under a device lock.
Irqs == {"timer", "dev"}

handler(i) == IF i = "dev" THEN lock("dev") \o wakeup("dev") \o unlock("dev") ELSE <<>>

----------------------------------------------------------------------------
(* Steps *)

Init ==
  /\ IF_ = FALSE /\ ncli = 0 /\ int_on = FALSE
  /\ locked = [l \in Locks |-> FALSE]
  /\ ctx = Scheduler
  /\ code = [c \in Contexts |-> IF c = Scheduler THEN pass ELSE forkret]
  /\ state = [p \in Procs |-> "READY"]
  /\ owner = Nobody
  /\ panicked = FALSE

Step(op) == ~panicked /\ code[ctx] # <<>> /\ Head(code[ctx]).op = op

Arg == Head(code[ctx]).arg

\* The current context goes on with the steps s instead of its first one.
Then(s) == code' = [code EXCEPT ![ctx] = s \o Tail(@)]

\* Panics if ok is false, and otherwise goes on.
PanicUnless(ok) ==
  IF ok THEN Then(<<>>) /\ UNCHANGED panicked
        ELSE panicked' = TRUE /\ UNCHANGED code

\* push_cli: eflags = readeflags(), then cli(), then the count.
ReadEflags ==
  /\ Step("readeflags")
  /\ Then(<<Do("cli", IF_)>>)
  /\ UNCHANGED <<IF_, ncli, int_on, locked, ctx, state, owner, panicked>>

ClearIF ==
  /\ Step("cli")
  /\ IF_' = FALSE
  /\ Then(<<Do("count", Arg)>>)
  /\ UNCHANGED <<ncli, int_on, locked, ctx, state, owner, panicked>>

\* this_cpu() panics when the interrupts are on.
Count ==
  /\ Step("count")
  /\ PanicUnless(~IF_)
  /\ int_on' = (IF ncli = 0 THEN Arg ELSE int_on)
  /\ ncli' = ncli + 1
  /\ UNCHANGED <<IF_, locked, ctx, state, owner>>

Decrement ==
  /\ Step("decrement")
  /\ PanicUnless(~IF_ /\ ncli > 0)
  /\ ncli' = ncli - 1
  /\ UNCHANGED <<IF_, int_on, locked, ctx, state, owner>>

Reopen ==
  /\ Step("reopen")
  /\ PanicUnless(~IF_)
  /\ IF_' = (ncli = 0 /\ int_on)
  /\ UNCHANGED <<ncli, int_on, locked, ctx, state, owner>>

\* The panics of lock and unlock, and of sched.
AssertHolding ==
  /\ Step("assert held") \/ Step("assert free")
  /\ PanicUnless(locked[Arg] = (Head(code[ctx]).op = "assert held"))
  /\ UNCHANGED <<IF_, ncli, int_on, locked, ctx, state, owner>>

Acquire ==
  /\ Step("acquire")
  /\ ~locked[Arg]
  /\ locked' = [locked EXCEPT ![Arg] = TRUE]
  /\ Then(<<>>)
  /\ UNCHANGED <<IF_, ncli, int_on, ctx, state, owner, panicked>>

Release ==
  /\ Step("release")
  /\ locked' = [locked EXCEPT ![Arg] = FALSE]
  /\ Then(<<>>)
  /\ UNCHANGED <<IF_, ncli, int_on, ctx, state, owner, panicked>>

\* The checks of sched, and swtch to the scheduler.  int_on is a local variable
\* of sched: its value is on the stack of the process until it is switched to.
Swtch ==
  /\ Step("swtch")
  /\ IF IF_ \/ ncli # 1 \/ state[ctx] = "RUNNING"
     THEN panicked' = TRUE /\ UNCHANGED <<code, ctx>>
     ELSE /\ Then(<<Do("restore", int_on)>>)
          /\ ctx' = Scheduler
          /\ UNCHANGED panicked
  /\ UNCHANGED <<IF_, ncli, int_on, locked, state, owner>>

\* Mutation: int_on stays what the last context has left.
RestoreNothing ==
  /\ Step("restore")
  /\ Then(<<>>)
  /\ UNCHANGED <<IF_, ncli, int_on, locked, ctx, state, owner, panicked>>

Restore ==
  /\ Step("restore")
  /\ int_on' = Arg
  /\ Then(<<>>)
  /\ UNCHANGED <<IF_, ncli, locked, ctx, state, owner, panicked>>

SetState ==
  /\ Step("set")
  /\ state' = [state EXCEPT ![ctx] = Arg]
  /\ Then(<<>>)
  /\ UNCHANGED <<IF_, ncli, int_on, locked, ctx, panicked, owner>>

\* wakeup_unlocked on a channel: of the sleepers, those that sleep on it.  A
\* lock of a device stands for several channels.
Wake ==
  /\ Step("wake")
  /\ LET sleepers == {p \in Procs : state[p] = IF Arg = "mutex" THEN "MUTEX" ELSE "SLEEPING"}
     IN  \E W \in (IF Arg = "mutex" THEN {sleepers} ELSE SUBSET sleepers) :
           state' = [p \in Procs |-> IF p \in W THEN "READY" ELSE state[p]]
  /\ Then(<<>>)
  /\ UNCHANGED <<IF_, ncli, int_on, locked, ctx, owner, panicked>>

\* while (condition) sleep(&chan, l).
While ==
  /\ Step("while")
  /\ \/ Then(<<>>)
     \/ Then(sleep(Arg) \o <<Do("while", Arg)>>)
  /\ UNCHANGED <<IF_, ncli, int_on, locked, ctx, state, owner, panicked>>

\* while (slk->locked) sleep(slk, &slk->lk).
WhileLocked ==
  /\ Step("while locked")
  /\ Then(IF owner = Nobody THEN <<>> ELSE sleep("mutex") \o <<Do("while locked", "mutex")>>)
  /\ UNCHANGED <<IF_, ncli, int_on, locked, ctx, state, owner, panicked>>

\* slk->locked and slk->pid are set, or cleared.
Own ==
  /\ Step("own") \/ Step("disown")
  /\ owner' = IF Step("own") THEN ctx ELSE Nobody
  /\ Then(<<>>)
  /\ UNCHANGED <<IF_, ncli, int_on, locked, ctx, state, panicked>>

\* Mutation: the scheduler does not turn the interrupts on.
StiMissing ==
  /\ Step("sti")
  /\ Then(<<>>)
  /\ UNCHANGED <<IF_, ncli, int_on, locked, ctx, state, owner, panicked>>

Sti ==
  /\ Step("sti")
  /\ IF_' = TRUE
  /\ Then(<<>>)
  /\ UNCHANGED <<ncli, int_on, locked, ctx, state, owner, panicked>>

\* The scheduler finds a ready process ...
ScanFinds ==
  /\ Step("scan")
  /\ \E p \in Procs : /\ state[p] = "READY"
                      /\ state' = [state EXCEPT ![p] = "RUNNING"]
                      /\ Then(uvm_switch \o <<Do("enter", p), Do("scan", "none")>>)
  /\ UNCHANGED <<IF_, ncli, int_on, locked, ctx, panicked, owner>>

\* ... and switches to it, or reaches the end of the table.
Enter ==
  /\ Step("enter")
  /\ ctx' = Arg
  /\ Then(<<>>)
  /\ UNCHANGED <<IF_, ncli, int_on, locked, state, owner, panicked>>

ScanEnds ==
  /\ Step("scan")
  /\ Then(<<>>)
  /\ UNCHANGED <<IF_, ncli, int_on, locked, ctx, state, owner, panicked>>

Again ==
  /\ Step("again")
  /\ Then(pass)
  /\ UNCHANGED <<IF_, ncli, int_on, locked, ctx, state, owner, panicked>>

\* iret restores the flag of the interrupted code, which is on: it was in user
\* mode, or it was interrupted.
Iret ==
  /\ Step("iret")
  /\ IF_' = TRUE
  /\ Then(<<>>)
  /\ UNCHANGED <<ncli, int_on, locked, ctx, state, owner, panicked>>

InUser == ~panicked /\ ctx \in Procs /\ code[ctx] = <<>>

\* A system call enters through a trap gate, which leaves the flag alone; at
\* its end trap() yields.
Syscall ==
  /\ InUser
  /\ \E k \in Calls : code' = [code EXCEPT ![ctx] =
       this_proc \o syscall(k) \o this_proc \o yield \o <<Do("iret", "user")>>]
  /\ UNCHANGED <<IF_, ncli, int_on, locked, ctx, state, owner, panicked>>

\* An interrupt enters through an interrupt gate, which clears the flag.  At
\* its end trap() yields if it came from user mode.
Interrupt ==
  /\ ~panicked /\ IF_
  /\ IF_' = FALSE
  /\ \E i \in Irqs : code' = [code EXCEPT ![ctx] =
       handler(i) \o this_proc \o (IF InUser THEN yield ELSE <<>>)
         \o <<Do("iret", "gate")>> \o @]
  /\ UNCHANGED <<ncli, int_on, locked, ctx, state, owner, panicked>>

KernelStep ==
  \/ ReadEflags \/ ClearIF \/ Count \/ Decrement \/ Reopen
  \/ AssertHolding \/ Acquire \/ Release
  \/ Swtch \/ Restore \/ SetState \/ Wake \/ While \/ WhileLocked \/ Own
  \/ Sti \/ ScanFinds \/ Enter \/ ScanEnds \/ Again \/ Iret

Next == KernelStep \/ Syscall \/ Interrupt

Spec == Init /\ [][Next]_vars

\* The CPU executes: the code it is in goes on, interrupted or not.
FairSpec == Spec /\ WF_vars(KernelStep)

----------------------------------------------------------------------------
(* Properties *)

\* None of the panics of this_cpu, pop_cli, lock, unlock and sched is reachable,
\* whenever interrupts arrive.
NoPanic == ~panicked

\* The context c is inside an interrupt handler.
InHandler(c) == \E i \in 1 .. Len(code[c]) : code[c][i] = Do("iret", "gate")

\* A handler runs with the interrupts off to its end, also when it is switched
\* out by yield and back in after other processes had them on: sched keeps
\* int_on per process.  So handlers never nest on a kernel stack.
HandlersDoNotNest == InHandler(ctx) => ~IF_ \/ panicked

\* The process has a step before it.
Ahead(p, op, arg) == \E i \in 1 .. Len(code[p]) : code[p][i] = Do(op, arg)

\* A process between lock_mutex and unlock_mutex is the only one there, although
\* it may sleep and others run, and one that sleeps on the mutex has somebody to
\* wake it: the owner, or a process that has given the mutex up and is about to.
MutexKept ==
  /\ \A p \in Procs : Ahead(p, "disown", "none") /\ ~Ahead(p, "own", "none") => owner = p
  /\ \A p \in Procs : state[p] = "MUTEX" =>
       owner # Nobody \/ \E q \in Procs : Ahead(q, "wake", "mutex") /\ ~Ahead(q, "disown", "none")

\* The interrupts are never off for good, even when every process sleeps: the
\* scheduler opens a window in each of its passes.
InterruptsReopen == []<>IF_
=============================================================================
