----------------------------- MODULE CliProofs -----------------------------
(***************************************************************************)
(* Proofs about Cli, for every set of processes.                           *)
(*                                                                         *)
(* What a context still has to execute is a sequence of steps.  The        *)
(* invariant is a proof outline of each: a description of the CPU and of   *)
(* the context before every step of the sequence, such that the steps lead *)
(* from one to the next, and the last one is that of user mode (or of the  *)
(* end of the scheduler's pass).  The first description is true now: of    *)
(* the CPU, for the context on it; and of every other context it is the    *)
(* one in which sched and the scheduler switch.                            *)
(***************************************************************************)
EXTENDS Cli, WellFoundedInduction, TLAPS

----------------------------------------------------------------------------
(* Descriptions *)

\* What is known of a flag.
Levels == {"on", "off", "any"}

Is(v, k) == (k = "on" => v) /\ (k = "off" => ~v)

Level(v) == IF v THEN "on" ELSE "off"

\* Where a process is between lock_mutex and unlock_mutex: it wants the mutex, has
\* seen it taken, has seen it free, owns it, has yet to wake the others, or has
\* nothing to do with it.
Stages == {"want", "busy", "free", "own", "waking", "done"}

\* The stages in which a process may be interrupted or switched.
Settled == {"want", "own", "done"}

\* The process whose state is PROC_RUNNING, the stage, and whether an interrupt
\* handler is being executed.
Frames == [run : Procs \cup {Nobody}, mutex : Stages, at : {"task", "handler"}]

F(r, m, at) == [run |-> r, mutex |-> m, at |-> at]

\* The interrupts may be on only outside of critical sections and handlers.
Open(a) == /\ a.ncli = 0 /\ a.int = "any" /\ a.held = {}
           /\ a.f.mutex \in Settled /\ a.f.at = "task"

Descriptions == [on : Levels, ncli : Nat, int : Levels, held : SUBSET Locks, f : Frames]

Abs == {a \in Descriptions : a.on # "off" => Open(a)}

\* After n push_cli, the first of which found the interrupts as k says.
L(n, k, H, f) ==
  [on |-> IF n = 0 THEN k ELSE "off", ncli |-> n,
   int |-> IF n = 0 THEN "any" ELSE k, held |-> H, f |-> f]

Pushed(a) ==
  [on |-> "off", ncli |-> a.ncli + 1, int |-> IF a.ncli = 0 THEN a.on ELSE a.int,
   held |-> a.held, f |-> a.f]

\* In user mode, or between two passes of the scheduler.
Final(c) == IF c = Scheduler THEN L(0, "any", {}, F(Nobody, "done", "task"))
                             ELSE L(0, "on", {}, F(c, "done", "task"))

\* Switched in by sched or by the scheduler, with ptable.lk held.
Switched(c, k, m, at) ==
  L(1, k, {"ptable"}, F(IF c = Scheduler THEN Nobody ELSE c, m, at))

\* A process that has seen the mutex taken looks again after it has slept.
Settle(m) == IF m = "busy" THEN "want" ELSE m

Ops == {"readeflags", "cli", "count", "decrement", "reopen", "assert held", "assert free",
        "acquire", "release", "swtch", "restore", "set", "wake", "while", "while locked",
        "own", "disown", "sti", "scan", "enter", "again", "iret", "zombie exit"}

\* The process c gives up the CPU: its state becomes st, and it is switched out.
Sets(c, a, st, b) ==
  \E k \in Levels, m \in {"busy", "own", "done"}, at \in {"task", "handler"} :
    /\ c \in Procs /\ st \in {"READY", "SLEEPING", "MUTEX", "ZOMBIE"}
    /\ st = "MUTEX" => m = "busy"
    /\ a = L(1, k, {"ptable"}, F(c, m, at))
    /\ b = L(1, k, {"ptable"}, F(Nobody, m, at))

Switches(c, a, b) ==
  \E k \in Levels, m \in {"busy", "own", "done"}, at \in {"task", "handler"} :
    /\ c \in Procs
    /\ a = L(1, k, {"ptable"}, F(Nobody, m, at))
    /\ b = Switched(c, k, Settle(m), at)

\* It is switched in, and int_on is what it was then.
Restores(c, a, v, b) ==
  \E k \in Levels, m \in Settled, at \in {"task", "handler"} :
    /\ c \in Procs /\ v \in BOOLEAN /\ Is(v, k)
    /\ a = Switched(c, "any", m, at) /\ b = Switched(c, k, m, at)

\* The step x of context c leads from a to b.
Fits(c, a, x, b) ==
  /\ x.op \in Ops
  /\ x.op = "readeflags" => a.on # "any" /\ b = Pushed(a)
  /\ x.op = "cli" => x.arg \in BOOLEAN /\ a.on = Level(x.arg) /\ b = Pushed(a)
  /\ x.op = "count" => /\ x.arg \in BOOLEAN /\ a.on = "off"
                       /\ b = Pushed([a EXCEPT !.on = Level(x.arg)])
  /\ x.op = "decrement" => a.on = "off" /\ a.ncli > 0 /\ b = [a EXCEPT !.ncli = @ - 1]
  /\ x.op = "reopen" => /\ a.on = "off"
                        /\ b = IF a.ncli = 0 THEN L(0, a.int, a.held, a.f) ELSE a
  /\ x.op = "assert held" => x.arg \in a.held /\ b = a
  /\ x.op = "assert free" => x.arg \in Locks \ a.held /\ b = a
  /\ x.op = "acquire" => /\ x.arg \in Locks \ a.held
                         /\ b = [a EXCEPT !.held = @ \cup {x.arg}]
  /\ x.op = "release" => x.arg \in Locks /\ b = [a EXCEPT !.held = @ \ {x.arg}]
  /\ x.op = "set" => Sets(c, a, x.arg, b)
  /\ x.op = "swtch" => Switches(c, a, b)
  /\ x.op = "restore" => Restores(c, a, x.arg, b)
  /\ x.op = "wake" =>
       IF x.arg = "mutex"
       THEN /\ c \in Procs /\ a = L(2, "on", {"mutex", "ptable"}, F(c, "waking", "task"))
            /\ b = L(2, "on", {"mutex", "ptable"}, F(c, "done", "task"))
       ELSE b = a
  /\ x.op = "while" =>
       /\ c \in Procs /\ x.arg \in {"dev", "ptable"} /\ b = a
       /\ \E m \in {"own", "done"} : a = L(1, "on", {x.arg}, F(c, m, "task"))
  /\ x.op = "while locked" => /\ c \in Procs
                              /\ a = L(1, "on", {"mutex"}, F(c, "want", "task"))
                              /\ b = L(1, "on", {"mutex"}, F(c, "free", "task"))
  /\ x.op = "own" => /\ c \in Procs /\ x.arg = "none"
                     /\ a = L(1, "on", {"mutex"}, F(c, "free", "task"))
                     /\ b = L(1, "on", {"mutex"}, F(c, "own", "task"))
  /\ x.op = "disown" => /\ a = L(1, "on", {"mutex"}, F(c, "own", "task"))
                        /\ b = L(1, "on", {"mutex"}, F(c, "waking", "task"))
  /\ x.op = "sti" => /\ c = Scheduler /\ a = Final(c)
                     /\ b = L(0, "on", {}, F(Nobody, "done", "task"))
  /\ x.op = "scan" => /\ c = Scheduler /\ b = Switched(c, "any", "done", "task")
                      /\ \E k \in Levels : a = Switched(c, k, "done", "task")
  /\ x.op = "enter" => /\ c = Scheduler /\ x.arg \in Procs
                       /\ a = Switched(x.arg, "any", "done", "task")
                       /\ b = Switched(c, "any", "done", "task")
  /\ x.op = "again" => c = Scheduler /\ a = Final(c) /\ b = a
  /\ x.op = "iret" =>
       IF x.arg = "user"
       THEN /\ c \in Procs /\ b = Final(c)
            /\ \E k \in Levels : a = L(0, k, {}, F(c, "done", "task"))
       ELSE /\ x.arg = "gate" /\ b.on # "off"
            /\ a = L(0, "off", {}, F(b.f.run, b.f.mutex, "handler"))
  /\ x.op = "zombie exit" => /\ c \in Procs /\ a.f = F(c, "done", "task")
                             /\ b = Final(c)

Steps ==
  [op : Ops,
   arg : {"none", "READY", "SLEEPING", "MUTEX", "ZOMBIE", "user", "gate", Scheduler}
           \cup Locks \cup BOOLEAN \cup Procs]

\* The steps s of context c lead from a to b.
Outline(c, s, a, b) ==
  /\ s \in Seq(Steps)
  /\ \E A \in [0 .. Len(s) -> Abs] :
       /\ A[0] = a /\ A[Len(s)] = b
       /\ \A i \in 1 .. Len(s) : Fits(c, A[i - 1], s[i], A[i])

----------------------------------------------------------------------------
(* The inductive invariant *)

\* The description a of the context on the CPU is true.
Matches(a) ==
  /\ Is(IF_, a.on) /\ ncli = a.ncli /\ Is(int_on, a.int)
  /\ \A l \in Locks : locked[l] <=> l \in a.held
  /\ \A p \in Procs : state[p] = "RUNNING" <=> a.f.run = p
  /\ a.f.mutex = "free" => owner = Nobody
  /\ a.f.mutex = "busy" => owner # Nobody
  /\ a.f.mutex = "waking" \/ owner # Nobody \/ \A p \in Procs : state[p] # "MUTEX"

\* The rest of what context c executes has an outline that begins with a, and c
\* owns the mutex if it says so.
Goes(c, a) ==
  /\ a \in Abs
  /\ Outline(c, code[c], a, Final(c))
  /\ owner = c <=> a.f.mutex = "own"

Waits(c) == \E m \in Settled, at \in {"task", "handler"} : Goes(c, Switched(c, "any", m, at))

Flags ==
  /\ IF_ \in BOOLEAN /\ ncli \in Nat /\ int_on \in BOOLEAN
  /\ locked \in [Locks -> BOOLEAN]
  /\ state \in [Procs -> {"READY", "RUNNING", "SLEEPING", "MUTEX", "ZOMBIE"}]
  /\ owner \in Procs \cup {Nobody}

TypeOK == Flags /\ ctx \in Contexts /\ code \in [Contexts -> Seq(Steps)]

Inductive ==
  /\ TypeOK /\ ~panicked
  /\ \E a \in Abs : Matches(a) /\ Goes(ctx, a)
  /\ \A c \in Contexts \ {ctx} : Waits(c)

----------------------------------------------------------------------------
(* Outlines *)

\* The scheduler and nobody are not processes.
LEMMA Constants ==
  /\ Scheduler \notin Procs /\ Nobody \notin Procs /\ Scheduler # Nobody
  /\ \A c \in Contexts : c \in Procs \/ c = Scheduler
BY ProcsAssumption DEF Contexts, Scheduler, Nobody

\* No step at all.
LEMMA Empty ==
  ASSUME NEW c, NEW a \in Abs
  PROVE  Outline(c, <<>>, a, a)
<1>. DEFINE A == [i \in 0 .. 0 |-> a]
<1>1. <<>> \in Seq(Steps) /\ Len(<<>>) = 0
  OBVIOUS
<1>2. A \in [0 .. Len(<<>>) -> Abs] /\ A[0] = a /\ A[Len(<<>>)] = a
  BY <1>1
<1>3. \A i \in 1 .. Len(<<>>) : Fits(c, A[i - 1], <<>>[i], A[i])
  BY <1>1
<1>. HIDE DEF A
<1>. QED  BY <1>1, <1>2, <1>3 DEF Outline

\* One step.
LEMMA Single ==
  ASSUME NEW c, NEW a \in Abs, NEW b \in Abs, NEW x \in Steps, Fits(c, a, x, b)
  PROVE  Outline(c, <<x>>, a, b)
<1>. DEFINE A == [i \in 0 .. 1 |-> IF i = 0 THEN a ELSE b]
<1>1. <<x>> \in Seq(Steps) /\ Len(<<x>>) = 1 /\ <<x>>[1] = x
  OBVIOUS
<1>2. A \in [0 .. Len(<<x>>) -> Abs] /\ A[0] = a /\ A[1] = b
  BY <1>1
<1>3. \A i \in 1 .. Len(<<x>>) : Fits(c, A[i - 1], <<x>>[i], A[i])
  <2>. SUFFICES ASSUME NEW i \in 1 .. Len(<<x>>) PROVE Fits(c, A[i - 1], <<x>>[i], A[i])
    OBVIOUS
  <2>1. i = 1 /\ i - 1 = 0
    BY <1>1
  <2>. QED  BY <1>1, <1>2, <2>1
<1>. HIDE DEF A
<1>. QED  BY <1>1, <1>2, <1>3 DEF Outline

\* One sequence after the other.
LEMMA Compose ==
  ASSUME NEW c, NEW s, NEW t, NEW a, NEW b, NEW d,
         Outline(c, s, a, b), Outline(c, t, b, d)
  PROVE  Outline(c, s \o t, a, d)
<1>1. PICK A \in [0 .. Len(s) -> Abs] :
        /\ A[0] = a /\ A[Len(s)] = b
        /\ \A i \in 1 .. Len(s) : Fits(c, A[i - 1], s[i], A[i])
  BY Zenon DEF Outline
<1>2. PICK B \in [0 .. Len(t) -> Abs] :
        /\ B[0] = b /\ B[Len(t)] = d
        /\ \A i \in 1 .. Len(t) : Fits(c, B[i - 1], t[i], B[i])
  BY DEF Outline
<1>3. s \in Seq(Steps) /\ t \in Seq(Steps)
  BY DEF Outline
<1>4. /\ s \o t \in Seq(Steps) /\ Len(s \o t) = Len(s) + Len(t)
      /\ \A i \in 1 .. Len(s) : (s \o t)[i] = s[i]
      /\ \A i \in 1 .. Len(t) : (s \o t)[Len(s) + i] = t[i]
      /\ Len(s) \in Nat /\ Len(t) \in Nat
  BY <1>3
<1>. DEFINE C == [i \in 0 .. Len(s \o t) |-> IF i <= Len(s) THEN A[i] ELSE B[i - Len(s)]]
<1>5. C \in [0 .. Len(s \o t) -> Abs]
  BY <1>4
<1>6. /\ \A i \in 0 .. Len(s) : C[i] = A[i]
      /\ \A i \in 0 .. Len(t) : C[Len(s) + i] = B[i]
  <2>1. ASSUME NEW i \in 0 .. Len(s) PROVE C[i] = A[i]
    BY <1>4
  <2>2. ASSUME NEW i \in 0 .. Len(t) PROVE C[Len(s) + i] = B[i]
    <3>1. CASE i = 0
      BY <1>1, <1>2, <1>4, <3>1
    <3>2. CASE i # 0
      <4>1. Len(s) + i \in 0 .. Len(s \o t) /\ ~ (Len(s) + i <= Len(s)) /\ Len(s) + i - Len(s) = i
        BY <1>4, <3>2
      <4>. QED  BY <4>1
    <3>. QED  BY <3>1, <3>2
  <2>. QED  BY <2>1, <2>2
<1>. HIDE DEF C
<1>7. C[0] = a /\ C[Len(s \o t)] = d
  BY <1>1, <1>2, <1>4, <1>6
<1>8. ASSUME NEW i \in 1 .. Len(s \o t) PROVE Fits(c, C[i - 1], (s \o t)[i], C[i])
  <2>1. CASE i <= Len(s)
    <3>1. i \in 1 .. Len(s) /\ i - 1 \in 0 .. Len(s) /\ i \in 0 .. Len(s)
      BY <1>4, <2>1
    <3>. QED  BY <1>1, <1>4, <1>6, <3>1, Zenon
  <2>2. CASE ~ (i <= Len(s))
    <3>. DEFINE j == i - Len(s)
    <3>1. /\ j \in 1 .. Len(t) /\ j \in 0 .. Len(t) /\ j - 1 \in 0 .. Len(t)
          /\ i = Len(s) + j /\ i - 1 = Len(s) + (j - 1)
      BY <1>4, <2>2
    <3>. HIDE DEF j
    <3>2. C[i - 1] = B[j - 1] /\ C[i] = B[j] /\ (s \o t)[i] = t[j]
      BY <1>4, <1>6, <3>1
    <3>. QED  BY <1>2, <3>1, <3>2
  <2>. QED  BY <2>1, <2>2
<1>. QED  BY <1>4, <1>5, <1>7, <1>8, Zenon DEF Outline

\* Two steps.
LEMMA Double ==
  ASSUME NEW c, NEW a \in Abs, NEW b \in Abs, NEW d \in Abs, NEW x \in Steps, NEW y \in Steps,
         Fits(c, a, x, b), Fits(c, b, y, d)
  PROVE  Outline(c, <<x, y>>, a, d)
<1>. DEFINE A == [i \in 0 .. 2 |-> IF i = 0 THEN a ELSE IF i = 1 THEN b ELSE d]
<1>1. <<x, y>> \in Seq(Steps) /\ Len(<<x, y>>) = 2 /\ <<x, y>>[1] = x /\ <<x, y>>[2] = y
  OBVIOUS
<1>2. A \in [0 .. 2 -> Abs] /\ A[0] = a /\ A[1] = b /\ A[2] = d
  OBVIOUS
<1>. HIDE DEF A
<1>3. \A i \in 1 .. 2 : Fits(c, A[i - 1], <<x, y>>[i], A[i])
  <2>1. Fits(c, A[0], <<x, y>>[1], A[1]) /\ Fits(c, A[1], <<x, y>>[2], A[2])
    BY <1>1, <1>2, Zenon
  <2>2. \A i \in 1 .. 2 : (i = 1 /\ i - 1 = 0) \/ (i = 2 /\ i - 1 = 1)
    OBVIOUS
  <2>. QED  BY <2>1, <2>2, Zenon
<1>. QED  BY <1>1, <1>2, <1>3 DEF Outline

\* The first step, and the rest.
LEMMA First ==
  ASSUME NEW c, NEW s, NEW a, NEW b, Outline(c, s, a, b), s # <<>>
  PROVE  \E d \in Abs : Fits(c, a, Head(s), d) /\ Outline(c, Tail(s), d, b)
<1>1. PICK A \in [0 .. Len(s) -> Abs] :
        /\ A[0] = a /\ A[Len(s)] = b
        /\ \A i \in 1 .. Len(s) : Fits(c, A[i - 1], s[i], A[i])
  BY DEF Outline
<1>2. s \in Seq(Steps) /\ Len(s) \in Nat \ {0}
  BY DEF Outline
<1>3. /\ Tail(s) \in Seq(Steps) /\ Len(Tail(s)) = Len(s) - 1 /\ Head(s) = s[1]
      /\ \A i \in 1 .. Len(s) - 1 : Tail(s)[i] = s[i + 1]
  BY <1>2
<1>. DEFINE B == [i \in 0 .. Len(Tail(s)) |-> A[i + 1]]
<1>4. /\ B \in [0 .. Len(Tail(s)) -> Abs]
      /\ \A i \in 0 .. Len(s) - 1 : B[i] = A[i + 1]
  BY <1>2, <1>3
<1>. HIDE DEF B
<1>5. B[0] = A[1] /\ B[Len(Tail(s))] = b /\ A[1] \in Abs
  BY <1>1, <1>2, <1>3, <1>4
<1>6. ASSUME NEW i \in 1 .. Len(Tail(s)) PROVE Fits(c, B[i - 1], Tail(s)[i], B[i])
  <2>1. /\ i \in 1 .. Len(s) - 1 /\ i + 1 \in 1 .. Len(s) /\ i + 1 - 1 = i
        /\ i - 1 \in 0 .. Len(s) - 1 /\ i - 1 + 1 = i /\ i \in 0 .. Len(s) - 1
    BY <1>2, <1>3
  <2>2. B[i - 1] = A[i] /\ B[i] = A[i + 1] /\ Tail(s)[i] = s[i + 1]
    BY <1>3, <1>4, <2>1
  <2>. QED  BY <1>1, <2>1, <2>2
<1>7. Outline(c, Tail(s), A[1], b)
  BY <1>3, <1>4, <1>5, <1>6 DEF Outline
<1>8. Fits(c, a, Head(s), A[1])
  <2>1. 1 \in 1 .. Len(s) /\ 1 - 1 = 0
    BY <1>2
  <2>. QED  BY <1>1, <1>3, <2>1
<1>. QED  BY <1>5, <1>7, <1>8

----------------------------------------------------------------------------
(* Outlines of the routines *)

\* L(n, k, H, f) is a description.
Fine(n, k, H, f) ==
  /\ n \in Nat /\ k \in Levels /\ H \in SUBSET Locks /\ f \in Frames
  /\ n = 0 /\ k # "off" => H = {} /\ f.mutex \in Settled /\ f.at = "task"

LEMMA FineIsAbs ==
  ASSUME NEW n, NEW k, NEW H, NEW f, Fine(n, k, H, f)
  PROVE  L(n, k, H, f) \in Abs
<1>1. L(n, k, H, f) \in Descriptions
  BY DEF Fine, L, Descriptions, Levels
<1>2. L(n, k, H, f).on # "off" => Open(L(n, k, H, f))
  BY DEF Fine, L, Open
<1>. QED  BY <1>1, <1>2 DEF Abs

\* With the interrupts off anything may be held.
LEMMA FineUp ==
  ASSUME NEW n, NEW k, NEW H, NEW f, Fine(n, k, H, f)
  PROVE  /\ Fine(n + 1, k, H, f)
         /\ \A l \in Locks : Fine(n + 1, k, H \cup {l}, f)
BY DEF Fine

\* The arguments of the routines' steps.
LEMMA StepTypes ==
  ASSUME NEW op \in Ops
  PROVE  /\ Do(op, "none") \in Steps
         /\ \A l \in Locks : Do(op, l) \in Steps
         /\ \A b \in BOOLEAN : Do(op, b) \in Steps
         /\ \A p \in Procs : Do(op, p) \in Steps
         /\ Do(op, "READY") \in Steps /\ Do(op, "SLEEPING") \in Steps
         /\ Do(op, "MUTEX") \in Steps /\ Do(op, "ZOMBIE") \in Steps
         /\ Do(op, "user") \in Steps /\ Do(op, "gate") \in Steps
         /\ Do(op, Scheduler) \in Steps
BY DEF Do, Steps

\* push_cli counts one more.
LEMMA PushCli ==
  ASSUME NEW c, NEW n, NEW k, NEW H, NEW f, Fine(n, k, H, f), n # 0 \/ k # "any"
  PROVE  Outline(c, push_cli, L(n, k, H, f), L(n + 1, k, H, f))
<1>. DEFINE x == Do("readeflags", "none")
<1>1. L(n, k, H, f) \in Abs /\ L(n + 1, k, H, f) \in Abs
  BY FineIsAbs, FineUp
<1>2. x \in Steps /\ x.op = "readeflags"
  BY StepTypes, Zenon DEF Ops, Do
<1>3. n \in Nat /\ L(n, k, H, f).on # "any" /\ L(n + 1, k, H, f) = Pushed(L(n, k, H, f))
  BY DEF L, Pushed, Fine
<1>4. Fits(c, L(n, k, H, f), x, L(n + 1, k, H, f))
  BY <1>2, <1>3, Zenon DEF Fits, Ops
<1>. HIDE DEF x
<1>5. Outline(c, <<x>>, L(n, k, H, f), L(n + 1, k, H, f))
  BY <1>1, <1>2, <1>4, Single
<1>. QED  BY <1>5 DEF push_cli, x

\* pop_cli counts one less, and leaves the interrupts as the first push_cli found
\* them.
LEMMA PopCli ==
  ASSUME NEW c, NEW n, NEW k, NEW H, NEW f, Fine(n, k, H, f)
  PROVE  Outline(c, pop_cli, L(n + 1, k, H, f), L(n, k, H, f))
<1>. DEFINE x == Do("decrement", "none")
            y == Do("reopen", "none")
            a == [on |-> "off", ncli |-> n, int |-> k, held |-> H, f |-> f]
<1>1. L(n, k, H, f) \in Abs /\ L(n + 1, k, H, f) \in Abs
  BY FineIsAbs, FineUp
<1>2. x \in Steps /\ y \in Steps /\ x.op = "decrement" /\ y.op = "reopen"
  BY StepTypes, Zenon DEF Ops, Do
<1>3. a \in Abs
  BY DEF Fine, Abs, Descriptions, Levels
<1>4. Fits(c, L(n + 1, k, H, f), x, a)
  <2>1. /\ L(n + 1, k, H, f).on = "off" /\ L(n + 1, k, H, f).ncli > 0
        /\ a = [L(n + 1, k, H, f) EXCEPT !.ncli = @ - 1]
    BY DEF L, Fine
  <2>. QED  BY <1>2, <2>1, Zenon DEF Fits, Ops
<1>5. Fits(c, a, y, L(n, k, H, f))
  <2>1. a.on = "off" /\ L(n, k, H, f) = IF a.ncli = 0 THEN L(0, a.int, a.held, a.f) ELSE a
    BY DEF L, Fine
  <2>. QED  BY <1>2, <2>1, Zenon DEF Fits, Ops
<1>. HIDE DEF x, y, a
<1>6. Outline(c, <<x, y>>, L(n + 1, k, H, f), L(n, k, H, f))
  BY <1>1, <1>2, <1>3, <1>4, <1>5, Double
<1>. QED  BY <1>6 DEF pop_cli, x, y

LEMMA ThisProc ==
  ASSUME NEW c, NEW n, NEW k, NEW H, NEW f, Fine(n, k, H, f), n # 0 \/ k # "any"
  PROVE  Outline(c, this_proc, L(n, k, H, f), L(n, k, H, f))
BY PushCli, PopCli, Compose DEF this_proc

\* The assertions of holding's callers are right when the lock is, or is not, held.
LEMMA HoldingHeld ==
  ASSUME NEW c, NEW n, NEW k, NEW H, NEW f, NEW l \in H, Fine(n, k, H, f), n # 0 \/ k # "any"
  PROVE  Outline(c, holding(l, TRUE), L(n, k, H, f), L(n, k, H, f))
<1>. DEFINE x == Do("assert held", l)
<1>1. l \in Locks /\ Fine(n + 1, k, H, f)
  BY FineUp DEF Fine
<1>2. x \in Steps /\ x.op = "assert held" /\ x.arg = l
  BY <1>1, StepTypes, Zenon DEF Ops, Do
<1>3. x.arg \in L(n + 1, k, H, f).held
  BY <1>2, Zenon DEF L
<1>4. Fits(c, L(n + 1, k, H, f), x, L(n + 1, k, H, f))
  BY <1>2, <1>3, Zenon DEF Fits, Ops
<1>. HIDE DEF x
<1>5. Outline(c, <<x>>, L(n + 1, k, H, f), L(n + 1, k, H, f))
  BY <1>1, <1>2, <1>4, Single, FineIsAbs, Zenon
<1>6. Outline(c, push_cli \o <<x>>, L(n, k, H, f), L(n + 1, k, H, f))
  BY <1>5, PushCli, Compose
<1>7. Outline(c, push_cli \o <<x>> \o pop_cli, L(n, k, H, f), L(n, k, H, f))
  BY <1>6, PopCli, Compose
<1>. QED  BY <1>7, Zenon DEF holding, x

LEMMA HoldingFree ==
  ASSUME NEW c, NEW n, NEW k, NEW H, NEW f, NEW l \in Locks \ H,
         Fine(n, k, H, f), n # 0 \/ k # "any"
  PROVE  Outline(c, holding(l, FALSE), L(n, k, H, f), L(n, k, H, f))
<1>. DEFINE x == Do("assert free", l)
<1>1. Fine(n + 1, k, H, f)
  BY FineUp
<1>2. x \in Steps /\ x.op = "assert free" /\ x.arg = l
  BY StepTypes, Zenon DEF Ops, Do
<1>3. x.arg \in Locks \ L(n + 1, k, H, f).held
  BY <1>2, Zenon DEF L
<1>4. Fits(c, L(n + 1, k, H, f), x, L(n + 1, k, H, f))
  BY <1>2, <1>3, Zenon DEF Fits, Ops
<1>. HIDE DEF x
<1>5. Outline(c, <<x>>, L(n + 1, k, H, f), L(n + 1, k, H, f))
  BY <1>1, <1>2, <1>4, Single, FineIsAbs, Zenon
<1>6. Outline(c, push_cli \o <<x>>, L(n, k, H, f), L(n + 1, k, H, f))
  BY <1>5, PushCli, Compose
<1>7. Outline(c, push_cli \o <<x>> \o pop_cli, L(n, k, H, f), L(n, k, H, f))
  BY <1>6, PopCli, Compose
<1>. QED  BY <1>7, Zenon DEF holding, x

\* lock takes a free lock with the interrupts off.
LEMMA Lock ==
  ASSUME NEW c, NEW n, NEW k, NEW H, NEW f, NEW l \in Locks \ H,
         Fine(n, k, H, f), n # 0 \/ k # "any"
  PROVE  Outline(c, lock(l), L(n, k, H, f), L(n + 1, k, H \cup {l}, f))
<1>. DEFINE x == Do("acquire", l)
            a == L(n + 1, k, H, f)
            b == L(n + 1, k, H \cup {l}, f)
<1>1. Fine(n + 1, k, H, f) /\ Fine(n + 1, k, H \cup {l}, f) /\ n + 1 # 0
  BY FineUp DEF Fine
<1>2. x \in Steps /\ x.op = "acquire" /\ x.arg = l
  BY StepTypes, Zenon DEF Ops, Do
<1>3. x.arg \in Locks \ a.held /\ b = [a EXCEPT !.held = @ \cup {x.arg}]
  BY <1>2 DEF L
<1>4. Fits(c, a, x, b)
  BY <1>2, <1>3, Zenon DEF Fits, Ops
<1>5. a \in Abs /\ b \in Abs
  BY <1>1, FineIsAbs
<1>. HIDE DEF x
<1>6. Outline(c, <<x>>, a, b)
  BY <1>2, <1>4, <1>5, Single
<1>7. Outline(c, push_cli \o holding(l, FALSE), L(n, k, H, f), a)
  BY <1>1, PushCli, HoldingFree, Compose, Zenon
<1>8. Outline(c, push_cli \o holding(l, FALSE) \o <<x>>, L(n, k, H, f), b)
  BY <1>6, <1>7, Compose, Zenon
<1>. QED  BY <1>8, Zenon DEF lock, x

\* unlock gives a held lock back, the last of them with nothing left to protect.
LEMMA Unlock ==
  ASSUME NEW c, NEW n, NEW k, NEW H, NEW f, NEW l \in Locks \ H, Fine(n, k, H, f)
  PROVE  Outline(c, unlock(l), L(n + 1, k, H \cup {l}, f), L(n, k, H, f))
<1>. DEFINE x == Do("release", l)
            a == L(n + 1, k, H \cup {l}, f)
            b == L(n + 1, k, H, f)
<1>1. Fine(n + 1, k, H, f) /\ Fine(n + 1, k, H \cup {l}, f) /\ n + 1 # 0 /\ l \in H \cup {l}
  BY FineUp DEF Fine
<1>2. x \in Steps /\ x.op = "release" /\ x.arg = l
  BY StepTypes, Zenon DEF Ops, Do
<1>3. (H \cup {l}) \ {l} = H
  OBVIOUS
<1>4. b = [a EXCEPT !.held = @ \ {x.arg}]
  BY <1>2, <1>3 DEF L
<1>5. Fits(c, a, x, b)
  BY <1>2, <1>4, Zenon DEF Fits, Ops
<1>6. a \in Abs /\ b \in Abs
  BY <1>1, FineIsAbs
<1>. HIDE DEF x
<1>7. Outline(c, <<x>>, a, b)
  BY <1>2, <1>5, <1>6, Single
<1>8. Outline(c, holding(l, TRUE), a, a)
  BY <1>1, HoldingHeld, Zenon
<1>9. Outline(c, holding(l, TRUE) \o <<x>>, a, b)
  BY <1>7, <1>8, Compose, Zenon
<1>10. Outline(c, holding(l, TRUE) \o <<x>> \o pop_cli, a, L(n, k, H, f))
  BY <1>9, PopCli, Compose, Zenon
<1>. QED  BY <1>10, Zenon DEF unlock, x

\* The descriptions between which the routines lead.
LEMMA Frame ==
  ASSUME NEW r \in Procs \cup {Nobody}, NEW m \in Stages, NEW at \in {"task", "handler"}
  PROVE  /\ F(r, m, at) \in Frames
         /\ \A k \in Levels : Fine(1, k, {}, F(r, m, at))
         /\ \A k \in Levels, h \in Locks : Fine(1, k, {h}, F(r, m, at))
         /\ \A k \in Levels, h \in Locks, l \in Locks : Fine(2, k, {h, l}, F(r, m, at))
         /\ Fine(0, "off", {}, F(r, m, at))
         /\ m \in Settled /\ at = "task" => \A k \in Levels : Fine(0, k, {}, F(r, m, at))
BY DEF F, Frames, Fine, Levels

\* The first lock, and the last to be given back.
LEMMA LockFirst ==
  ASSUME NEW c, NEW k, NEW f, NEW l \in Locks, Fine(0, k, {}, f), k # "any"
  PROVE  Outline(c, lock(l), L(0, k, {}, f), L(1, k, {l}, f))
<1>1. l \in Locks \ {} /\ {} \cup {l} = {l} /\ 0 + 1 = 1
  OBVIOUS
<1>2. Outline(c, lock(l), L(0, k, {}, f), L(0 + 1, k, {} \cup {l}, f))
  BY <1>1, Lock
<1>. QED  BY <1>1, <1>2

LEMMA UnlockLast ==
  ASSUME NEW c, NEW k, NEW f, NEW l \in Locks, Fine(0, k, {}, f)
  PROVE  Outline(c, unlock(l), L(1, k, {l}, f), L(0, k, {}, f))
<1>1. l \in Locks \ {} /\ {} \cup {l} = {l} /\ 0 + 1 = 1
  OBVIOUS
<1>2. Outline(c, unlock(l), L(0 + 1, k, {} \cup {l}, f), L(0, k, {}, f))
  BY <1>1, Unlock
<1>. QED  BY <1>1, <1>2

\* A lock taken and given back under another.
LEMMA LockSecond ==
  ASSUME NEW c, NEW k, NEW f, NEW h \in Locks, NEW l \in Locks, h # l, Fine(1, k, {h}, f)
  PROVE  /\ Outline(c, lock(l), L(1, k, {h}, f), L(2, k, {h, l}, f))
         /\ Outline(c, unlock(l), L(2, k, {h, l}, f), L(1, k, {h}, f))
<1>1. l \in Locks \ {h} /\ {h} \cup {l} = {h, l} /\ 1 + 1 = 2 /\ 1 # 0
  OBVIOUS
<1>2. Outline(c, lock(l), L(1, k, {h}, f), L(1 + 1, k, {h} \cup {l}, f))
  BY <1>1, Lock
<1>3. Outline(c, unlock(l), L(1 + 1, k, {h} \cup {l}, f), L(1, k, {h}, f))
  BY <1>1, Unlock
<1>. QED  BY <1>1, <1>2, <1>3

\* A call of wakeup on a device's channel under its lock.
LEMMA Wakeup ==
  ASSUME NEW c, NEW k, NEW f, Fine(1, k, {"dev"}, f)
  PROVE  Outline(c, wakeup("dev"), L(1, k, {"dev"}, f), L(1, k, {"dev"}, f))
<1>. DEFINE x == Do("wake", "dev")
            a == L(2, k, {"dev", "ptable"}, f)
<1>1. "dev" \in Locks /\ "ptable" \in Locks /\ "dev" # "ptable" /\ "dev" # "mutex"
  BY DEF Locks
<1>2. x \in Steps /\ x.op = "wake" /\ x.arg = "dev"
  BY <1>1, StepTypes, Zenon DEF Ops, Do
<1>3. a \in Abs
  <2>1. {"dev"} \cup {"ptable"} = {"dev", "ptable"} /\ 1 + 1 = 2
    OBVIOUS
  <2>2. Fine(1 + 1, k, {"dev"} \cup {"ptable"}, f)
    BY <1>1, FineUp
  <2>. QED  BY <2>1, <2>2, FineIsAbs
<1>4. Fits(c, a, x, a)
  BY <1>1, <1>2, Zenon DEF Fits, Ops
<1>. HIDE DEF x
<1>5. Outline(c, <<x>>, a, a)
  BY <1>2, <1>3, <1>4, Single
<1>6. /\ Outline(c, lock("ptable"), L(1, k, {"dev"}, f), a)
      /\ Outline(c, unlock("ptable"), a, L(1, k, {"dev"}, f))
  BY <1>1, LockSecond
<1>7. Outline(c, lock("ptable") \o <<x>>, L(1, k, {"dev"}, f), a)
  BY <1>5, <1>6, Compose
<1>8. Outline(c, lock("ptable") \o <<x>> \o unlock("ptable"),
              L(1, k, {"dev"}, f), L(1, k, {"dev"}, f))
  BY <1>6, <1>7, Compose
<1>. QED  BY <1>8 DEF wakeup, x

\* A call that wakes under a device's lock, in a handler or not.
LEMMA Waker ==
  ASSUME NEW c, NEW k, NEW f, Fine(0, k, {}, f), k # "any"
  PROVE  Outline(c, lock("dev") \o wakeup("dev") \o unlock("dev"), L(0, k, {}, f), L(0, k, {}, f))
<1>1. "dev" \in Locks /\ Fine(1, k, {"dev"}, f)
  <2>1. {} \cup {"dev"} = {"dev"} /\ 0 + 1 = 1 /\ "dev" \in Locks
    BY DEF Locks
  <2>2. Fine(0 + 1, k, {} \cup {"dev"}, f)
    BY <2>1, FineUp, Zenon
  <2>. QED  BY <2>1, <2>2
<1>2. Outline(c, lock("dev"), L(0, k, {}, f), L(1, k, {"dev"}, f))
  BY <1>1, LockFirst
<1>3. Outline(c, lock("dev") \o wakeup("dev"), L(0, k, {}, f), L(1, k, {"dev"}, f))
  BY <1>1, <1>2, Wakeup, Compose
<1>4. Outline(c, unlock("dev"), L(1, k, {"dev"}, f), L(0, k, {}, f))
  BY <1>1, UnlockLast
<1>. QED  BY <1>3, <1>4, Compose

LEMMA Handler ==
  ASSUME NEW c, NEW f, NEW i \in Irqs, Fine(0, "off", {}, f)
  PROVE  Outline(c, handler(i), L(0, "off", {}, f), L(0, "off", {}, f))
<1>1. Outline(c, <<>>, L(0, "off", {}, f), L(0, "off", {}, f))
  BY FineIsAbs, Empty
<1>. QED  BY <1>1, Waker DEF handler

\* sched, from a process that is no longer running to the same process switched in.
LEMMA Sched ==
  ASSUME NEW c \in Procs, NEW k \in Levels, NEW m \in {"busy", "own", "done"},
         NEW at \in {"task", "handler"}
  PROVE  Outline(c, sched, L(1, k, {"ptable"}, F(Nobody, m, at)),
                           L(1, k, {"ptable"}, F(c, Settle(m), at)))
<1>. DEFINE x == Do("swtch", Scheduler)
            a == L(1, k, {"ptable"}, F(Nobody, m, at))
            b == L(1, k, {"ptable"}, F(c, Settle(m), at))
<1>1. /\ "ptable" \in Locks /\ 1 # 0 /\ "ptable" \in {"ptable"}
      /\ m \in Stages /\ Settle(m) \in Stages
      /\ Nobody \in Procs \cup {Nobody} /\ c \in Procs \cup {Nobody}
  BY DEF Locks, Stages, Settle
<1>2. /\ Fine(1, k, {"ptable"}, F(Nobody, m, at))
      /\ Fine(1, k, {"ptable"}, F(c, Settle(m), at))
  BY <1>1, Frame, Zenon
<1>3. a \in Abs /\ b \in Abs
  BY <1>2, FineIsAbs
<1>4. x \in Steps /\ x.op = "swtch"
  BY StepTypes, Zenon DEF Ops, Do
<1>5. b = Switched(c, k, Settle(m), at)
  BY Constants DEF Switched
<1>6. Fits(c, a, x, b)
  <2>1. Switches(c, a, b)
    BY <1>5 DEF Switches
  <2>. QED  BY <1>4, <2>1, Zenon DEF Fits, Ops
<1>7. Outline(c, <<x>>, a, b)
  BY <1>3, <1>4, <1>6, Single
<1>8. Outline(c, this_proc, a, a) /\ Outline(c, holding("ptable", TRUE), a, a)
  BY <1>1, <1>2, ThisProc, HoldingHeld, Zenon
<1>9. Outline(c, this_proc \o holding("ptable", TRUE), a, a)
  BY <1>8, Compose, Zenon
<1>10. Outline(c, this_proc \o holding("ptable", TRUE) \o <<x>>, a, b)
  BY <1>7, <1>9, Compose, Zenon
<1>. QED  BY <1>10, Zenon DEF sched

\* The assignment to the state of a process that is to be switched out.
LEMMA Set ==
  ASSUME NEW c \in Procs, NEW k \in Levels, NEW m \in {"busy", "own", "done"},
         NEW at \in {"task", "handler"},
         NEW st \in {"READY", "SLEEPING", "MUTEX", "ZOMBIE"}, st = "MUTEX" => m = "busy"
  PROVE  Outline(c, <<Do("set", st)>>, L(1, k, {"ptable"}, F(c, m, at)),
                                       L(1, k, {"ptable"}, F(Nobody, m, at)))
<1>. DEFINE x == Do("set", st)
            a == L(1, k, {"ptable"}, F(c, m, at))
            b == L(1, k, {"ptable"}, F(Nobody, m, at))
<1>1. /\ "ptable" \in Locks /\ m \in Stages
      /\ Nobody \in Procs \cup {Nobody} /\ c \in Procs \cup {Nobody}
  BY DEF Locks, Stages
<1>2. a \in Abs /\ b \in Abs
  BY <1>1, Frame, FineIsAbs
<1>3. "set" \in Ops
  BY DEF Ops
<1>4. x \in Steps /\ x.op = "set" /\ x.arg = st
  BY <1>3, StepTypes, Zenon DEF Do
<1>5. Fits(c, a, x, b)
  <2>1. Sets(c, a, st, b)
    BY DEF Sets
  <2>. QED  BY <1>4, <2>1, Zenon DEF Fits, Ops
<1>. QED  BY <1>2, <1>4, <1>5, Single

LEMMA Yield ==
  ASSUME NEW c \in Procs, NEW k \in {"on", "off"}, NEW m \in {"own", "done"},
         NEW at \in {"task", "handler"}, Fine(0, k, {}, F(c, m, at))
  PROVE  Outline(c, yield, L(0, k, {}, F(c, m, at)), L(0, k, {}, F(c, m, at)))
<1>. DEFINE a == L(0, k, {}, F(c, m, at))
            b == L(1, k, {"ptable"}, F(c, m, at))
            d == L(1, k, {"ptable"}, F(Nobody, m, at))
            x == Do("set", "READY")
<1>1. /\ "ptable" \in Locks /\ m \in Stages /\ c \in Procs \cup {Nobody} /\ 1 # 0
      /\ k \in Levels /\ k # "any" /\ m \in {"busy", "own", "done"} /\ Settle(m) = m
  BY DEF Locks, Stages, Levels, Settle
<1>2. Fine(1, k, {"ptable"}, F(c, m, at))
  BY <1>1, Frame
<1>3. /\ Outline(c, lock("ptable"), a, b) /\ Outline(c, this_proc, b, b)
      /\ Outline(c, unlock("ptable"), b, a)
  BY <1>1, <1>2, LockFirst, UnlockLast, ThisProc
<1>4. Outline(c, <<x>>, b, d)
  <2>1. "READY" \in {"READY", "SLEEPING", "MUTEX", "ZOMBIE"} /\ "READY" # "MUTEX"
    OBVIOUS
  <2>. QED  BY <1>1, <2>1, Set
<1>5. Outline(c, sched, d, b)
  <2>1. Outline(c, sched, d, L(1, k, {"ptable"}, F(c, Settle(m), at)))
    BY <1>1, Sched
  <2>. QED  BY <1>1, <2>1
<1>. HIDE DEF a, b, d, x
<1>6. Outline(c, lock("ptable") \o this_proc, a, b)
  BY <1>3, Compose
<1>7. Outline(c, lock("ptable") \o this_proc \o <<x>>, a, d)
  BY <1>4, <1>6, Compose
<1>8. Outline(c, lock("ptable") \o this_proc \o <<x>> \o sched, a, b)
  BY <1>5, <1>7, Compose
<1>9. Outline(c, lock("ptable") \o this_proc \o <<x>> \o sched \o unlock("ptable"), a, a)
  BY <1>3, <1>8, Compose
<1>. QED  BY <1>9 DEF yield, a, x

\* sleep with the lock l, which the caller holds again when it returns.
LEMMA Sleep ==
  ASSUME NEW c \in Procs, NEW l \in Locks, NEW m \in {"busy", "own", "done"},
         l = "mutex" => m = "busy"
  PROVE  Outline(c, sleep(l), L(1, "on", {l}, F(c, m, "task")),
                              L(1, "on", {l}, F(c, Settle(m), "task")))
<1>. DEFINE own == l = "ptable"
            before == IF own THEN <<>> ELSE lock("ptable") \o unlock(l)
            after == IF own THEN <<>> ELSE unlock("ptable") \o lock(l)
            st == IF l = "mutex" THEN "MUTEX" ELSE "SLEEPING"
            x == Do("set", st)
            a == L(1, "on", {l}, F(c, m, "task"))
            b == L(1, "on", {"ptable"}, F(c, m, "task"))
            d == L(1, "on", {"ptable"}, F(Nobody, m, "task"))
            e == L(1, "on", {"ptable"}, F(c, Settle(m), "task"))
            g == L(1, "on", {l}, F(c, Settle(m), "task"))
<1>1. /\ "ptable" \in Locks /\ m \in Stages /\ Settle(m) \in Stages /\ Settle(m) \in Settled
      /\ c \in Procs \cup {Nobody} /\ 1 # 0 /\ "on" \in Levels /\ "on" # "any"
      /\ "task" \in {"task", "handler"}
  BY DEF Locks, Stages, Settled, Levels, Settle
<1>2. /\ Fine(1, "on", {l}, F(c, m, "task")) /\ Fine(1, "on", {"ptable"}, F(c, m, "task"))
      /\ Fine(1, "on", {"ptable"}, F(c, Settle(m), "task"))
      /\ Fine(0, "on", {}, F(c, Settle(m), "task"))
  BY <1>1, Frame, Zenon
<1>3. Outline(c, this_proc, a, a)
  BY <1>1, <1>2, ThisProc
<1>4. Outline(c, before, a, b)
  <2>1. CASE own
    BY <1>2, <2>1, FineIsAbs, Empty
  <2>2. CASE ~own
    <3>1. {l, "ptable"} = {"ptable", l}
      OBVIOUS
    <3>2. /\ Outline(c, lock("ptable"), a, L(2, "on", {l, "ptable"}, F(c, m, "task")))
          /\ Outline(c, unlock(l), L(2, "on", {"ptable", l}, F(c, m, "task")), b)
      BY <1>1, <1>2, <2>2, LockSecond
    <3>3. Outline(c, lock("ptable") \o unlock(l), a, b)
      BY <3>1, <3>2, Compose
    <3>. QED  BY <2>2, <3>3
  <2>. QED  BY <2>1, <2>2
<1>5. Outline(c, after, e, g)
  <2>1. CASE own
    BY <1>2, <2>1, FineIsAbs, Empty
  <2>2. CASE ~own
    <3>1. /\ Outline(c, unlock("ptable"), e, L(0, "on", {}, F(c, Settle(m), "task")))
          /\ Outline(c, lock(l), L(0, "on", {}, F(c, Settle(m), "task")), g)
      BY <1>1, <1>2, LockFirst, UnlockLast
    <3>2. Outline(c, unlock("ptable") \o lock(l), e, g)
      BY <3>1, Compose
    <3>. QED  BY <2>2, <3>2
  <2>. QED  BY <2>1, <2>2
<1>6. Outline(c, <<x>>, b, d)
  <2>1. st \in {"READY", "SLEEPING", "MUTEX", "ZOMBIE"} /\ (st = "MUTEX" => m = "busy")
    OBVIOUS
  <2>. HIDE DEF st
  <2>. QED  BY <1>1, <2>1, Set
<1>7. Outline(c, sched, d, e)
  BY <1>1, Sched
<1>8. sleep(l) = this_proc \o before \o <<x>> \o sched \o after
  BY DEF sleep
<1>. HIDE DEF before, after, x, a, b, d, e, g
<1>9. Outline(c, this_proc \o before, a, b)
  BY <1>3, <1>4, Compose
<1>10. Outline(c, this_proc \o before \o <<x>>, a, d)
  BY <1>6, <1>9, Compose
<1>11. Outline(c, this_proc \o before \o <<x>> \o sched, a, e)
  BY <1>7, <1>10, Compose
<1>12. Outline(c, this_proc \o before \o <<x>> \o sched \o after, a, g)
  BY <1>5, <1>11, Compose
<1>. QED  BY <1>8, <1>12 DEF a, g

\* The steps of a call that sleeps with the lock l until its condition is true.
LEMMA SleeperParts ==
  ASSUME NEW c \in Procs, NEW l \in {"dev", "ptable"}, NEW m \in {"own", "done"}
  PROVE  \E b : /\ Outline(c, lock(l), L(0, "on", {}, F(c, m, "task")), b)
               /\ Outline(c, <<Do("while", l)>>, b, b)
               /\ Outline(c, unlock(l), b, L(0, "on", {}, F(c, m, "task")))
<1>. DEFINE x == Do("while", l)
            a == L(0, "on", {}, F(c, m, "task"))
            b == L(1, "on", {l}, F(c, m, "task"))
<1>1. /\ l \in Locks /\ m \in Stages /\ m \in Settled /\ c \in Procs \cup {Nobody}
      /\ "on" \in Levels /\ "on" # "any" /\ "task" \in {"task", "handler"}
  BY DEF Locks, Stages, Settled, Levels
<1>2. Fine(0, "on", {}, F(c, m, "task")) /\ Fine(1, "on", {l}, F(c, m, "task"))
  BY <1>1, Frame
<1>3. "while" \in Ops
  BY DEF Ops
<1>4. x \in Steps /\ x.op = "while" /\ x.arg = l
  BY <1>1, <1>3, StepTypes, Zenon DEF Do
<1>5. Fits(c, b, x, b)
  BY <1>4, Zenon DEF Fits, Ops
<1>6. Outline(c, <<x>>, b, b)
  BY <1>2, <1>4, <1>5, Single, FineIsAbs
<1>7. Outline(c, lock(l), a, b) /\ Outline(c, unlock(l), b, a)
  BY <1>1, <1>2, LockFirst, UnlockLast
<1>. QED  BY <1>6, <1>7

LEMMA Sleeper ==
  ASSUME NEW c \in Procs, NEW l \in {"dev", "ptable"}, NEW m \in {"own", "done"}
  PROVE  Outline(c, lock(l) \o <<Do("while", l)>> \o unlock(l),
                 L(0, "on", {}, F(c, m, "task")), L(0, "on", {}, F(c, m, "task")))
<1>. DEFINE x == <<Do("while", l)>>
            a == L(0, "on", {}, F(c, m, "task"))
<1>1. PICK b : Outline(c, lock(l), a, b) /\ Outline(c, x, b, b) /\ Outline(c, unlock(l), b, a)
  BY SleeperParts
<1>. HIDE DEF x, a
<1>2. Outline(c, lock(l) \o x, a, b)
  BY <1>1, Compose
<1>3. Outline(c, lock(l) \o x \o unlock(l), a, a)
  BY <1>1, <1>2, Compose
<1>. QED  BY <1>3 DEF x, a

\* What holds of a process in a system call, at every stage of the mutex.
LEMMA InCall ==
  ASSUME NEW c \in Procs, NEW m \in Stages
  PROVE  /\ Fine(1, "on", {"mutex"}, F(c, m, "task"))
         /\ Fine(2, "on", {"mutex", "ptable"}, F(c, m, "task"))
         /\ m \in Settled => Fine(0, "on", {}, F(c, m, "task"))
         /\ L(1, "on", {"mutex"}, F(c, m, "task")) \in Abs
         /\ L(2, "on", {"mutex", "ptable"}, F(c, m, "task")) \in Abs
<1>1. /\ c \in Procs \cup {Nobody} /\ "on" \in Levels /\ "task" \in {"task", "handler"}
      /\ "mutex" \in Locks /\ "ptable" \in Locks
  BY DEF Levels, Locks
<1>2. /\ Fine(1, "on", {"mutex"}, F(c, m, "task"))
      /\ Fine(2, "on", {"mutex", "ptable"}, F(c, m, "task"))
      /\ m \in Settled => Fine(0, "on", {}, F(c, m, "task"))
  BY <1>1, Frame
<1>. QED  BY <1>2, FineIsAbs

LEMMA LockMutex ==
  ASSUME NEW c \in Procs
  PROVE  Outline(c, lock_mutex, L(0, "on", {}, F(c, "want", "task")),
                                L(0, "on", {}, F(c, "own", "task")))
<1>. DEFINE x == Do("while locked", "mutex")
            y == Do("own", "none")
            a == L(0, "on", {}, F(c, "want", "task"))
            b == L(1, "on", {"mutex"}, F(c, "want", "task"))
            d == L(1, "on", {"mutex"}, F(c, "free", "task"))
            e == L(1, "on", {"mutex"}, F(c, "own", "task"))
            g == L(0, "on", {}, F(c, "own", "task"))
<1>1. /\ "want" \in Stages /\ "free" \in Stages /\ "own" \in Stages
      /\ "want" \in Settled /\ "own" \in Settled
      /\ "mutex" \in Locks /\ "on" # "any" /\ 1 # 0
      /\ "while locked" \in Ops /\ "own" \in Ops
  BY DEF Stages, Settled, Locks, Ops
<1>2. /\ Fine(0, "on", {}, F(c, "want", "task")) /\ Fine(0, "on", {}, F(c, "own", "task"))
      /\ Fine(1, "on", {"mutex"}, F(c, "free", "task"))
      /\ b \in Abs /\ d \in Abs /\ e \in Abs
  BY <1>1, InCall, Zenon
<1>3. /\ x \in Steps /\ x.op = "while locked"
      /\ y \in Steps /\ y.op = "own" /\ y.arg = "none"
  BY <1>1, StepTypes, Zenon DEF Do
<1>4. Fits(c, b, x, d)
  BY <1>3, Zenon DEF Fits, Ops
<1>5. Fits(c, d, y, e)
  BY <1>3, Zenon DEF Fits, Ops
<1>6. Outline(c, <<x>>, b, d) /\ Outline(c, <<y>>, d, e)
  BY <1>2, <1>3, <1>4, <1>5, Single, Zenon
<1>7. /\ Outline(c, lock("mutex"), a, b) /\ Outline(c, this_proc, d, d)
      /\ Outline(c, unlock("mutex"), e, g)
  BY <1>1, <1>2, LockFirst, UnlockLast, ThisProc, Zenon
<1>. HIDE DEF x, y, a, b, d, e, g
<1>8. Outline(c, lock("mutex") \o <<x>>, a, d)
  BY <1>6, <1>7, Compose
<1>9. Outline(c, lock("mutex") \o <<x>> \o this_proc, a, d)
  BY <1>7, <1>8, Compose
<1>10. Outline(c, lock("mutex") \o <<x>> \o this_proc \o <<y>>, a, e)
  BY <1>6, <1>9, Compose
<1>11. Outline(c, lock("mutex") \o <<x>> \o this_proc \o <<y>> \o unlock("mutex"), a, g)
  BY <1>7, <1>10, Compose
<1>. QED  BY <1>11, Zenon DEF lock_mutex, x, y, a, g

LEMMA UnlockMutex ==
  ASSUME NEW c \in Procs
  PROVE  Outline(c, unlock_mutex, L(0, "on", {}, F(c, "own", "task")),
                                  L(0, "on", {}, F(c, "done", "task")))
<1>. DEFINE x == Do("disown", "none")
            y == Do("wake", "mutex")
            a == L(0, "on", {}, F(c, "own", "task"))
            b == L(1, "on", {"mutex"}, F(c, "own", "task"))
            d == L(1, "on", {"mutex"}, F(c, "waking", "task"))
            e == L(2, "on", {"mutex", "ptable"}, F(c, "waking", "task"))
            g == L(2, "on", {"mutex", "ptable"}, F(c, "done", "task"))
            h == L(1, "on", {"mutex"}, F(c, "done", "task"))
            i == L(0, "on", {}, F(c, "done", "task"))
<1>1. /\ "waking" \in Stages /\ "done" \in Stages /\ "own" \in Stages
      /\ "done" \in Settled /\ "own" \in Settled
      /\ "mutex" \in Locks /\ "ptable" \in Locks /\ "mutex" # "ptable" /\ "on" # "any"
      /\ "wake" \in Ops /\ "disown" \in Ops
  BY DEF Stages, Settled, Locks, Ops
<1>2. /\ Fine(0, "on", {}, F(c, "own", "task")) /\ Fine(0, "on", {}, F(c, "done", "task"))
      /\ Fine(1, "on", {"mutex"}, F(c, "waking", "task"))
      /\ Fine(1, "on", {"mutex"}, F(c, "done", "task"))
      /\ b \in Abs /\ d \in Abs /\ e \in Abs /\ g \in Abs
  BY <1>1, InCall
<1>3. /\ x \in Steps /\ x.op = "disown"
      /\ y \in Steps /\ y.op = "wake" /\ y.arg = "mutex"
  BY <1>1, StepTypes, Zenon DEF Do
<1>4. Fits(c, b, x, d)
  BY <1>3, Zenon DEF Fits, Ops
<1>5. Fits(c, e, y, g)
  BY <1>3, Zenon DEF Fits, Ops
<1>6. Outline(c, <<x>>, b, d) /\ Outline(c, <<y>>, e, g)
  BY <1>2, <1>3, <1>4, <1>5, Single
<1>7. Outline(c, lock("mutex"), a, b) /\ Outline(c, unlock("mutex"), h, i)
  BY <1>1, <1>2, LockFirst, UnlockLast
<1>8. Outline(c, lock("ptable"), d, e) /\ Outline(c, unlock("ptable"), g, h)
  BY <1>1, <1>2, LockSecond
<1>. HIDE DEF x, y, a, b, d, e, g, h, i
<1>9. Outline(c, lock("ptable") \o <<y>>, d, g)
  BY <1>6, <1>8, Compose
<1>10. Outline(c, lock("ptable") \o <<y>> \o unlock("ptable"), d, h)
  BY <1>8, <1>9, Compose
<1>11. Outline(c, wakeup("mutex"), d, h)
  BY <1>10 DEF wakeup, y
<1>12. Outline(c, lock("mutex") \o <<x>>, a, d)
  BY <1>6, <1>7, Compose
<1>13. Outline(c, lock("mutex") \o <<x>> \o wakeup("mutex"), a, h)
  BY <1>11, <1>12, Compose
<1>14. Outline(c, lock("mutex") \o <<x>> \o wakeup("mutex") \o unlock("mutex"), a, i)
  BY <1>7, <1>13, Compose
<1>. QED  BY <1>14 DEF unlock_mutex, x, a, i

\* exit does not return from sched.
LEMMA Exit ==
  ASSUME NEW c \in Procs
  PROVE  Outline(c, lock("ptable") \o <<Do("set", "ZOMBIE")>> \o sched
                      \o <<Do("zombie exit", "none")>>,
                 L(0, "on", {}, F(c, "done", "task")), L(0, "on", {}, F(c, "done", "task")))
<1>. DEFINE x == Do("set", "ZOMBIE")
            y == Do("zombie exit", "none")
            a == L(0, "on", {}, F(c, "done", "task"))
            b == L(1, "on", {"ptable"}, F(c, "done", "task"))
            d == L(1, "on", {"ptable"}, F(Nobody, "done", "task"))
<1>1. /\ "done" \in Stages /\ "done" \in Settled /\ "done" \in {"busy", "own", "done"}
      /\ "ptable" \in Locks /\ "on" # "any" /\ "on" \in Levels /\ "zombie exit" \in Ops
      /\ "task" \in {"task", "handler"} /\ c \in Procs \cup {Nobody}
      /\ "ZOMBIE" \in {"READY", "SLEEPING", "MUTEX", "ZOMBIE"} /\ "ZOMBIE" # "MUTEX"
      /\ Settle("done") = "done"
  BY DEF Stages, Settled, Locks, Levels, Ops, Settle
<1>2. Fine(0, "on", {}, F(c, "done", "task")) /\ Fine(1, "on", {"ptable"}, F(c, "done", "task"))
  BY <1>1, Frame, Zenon
<1>3. a \in Abs /\ b \in Abs
  BY <1>2, FineIsAbs
<1>4. y \in Steps /\ y.op = "zombie exit"
  BY <1>1, StepTypes, Zenon DEF Do
<1>5. b.f = F(c, "done", "task") /\ a = Final(c)
  BY Constants DEF L, Final
<1>6. Fits(c, b, y, a)
  BY <1>4, <1>5, Zenon DEF Fits, Ops
<1>7. Outline(c, <<y>>, b, a)
  BY <1>3, <1>4, <1>6, Single, Zenon
<1>8. Outline(c, <<x>>, b, d)
  BY <1>1, Set, Zenon
<1>9. Outline(c, sched, d, b)
  <2>1. Outline(c, sched, d, L(1, "on", {"ptable"}, F(c, Settle("done"), "task")))
    BY <1>1, Sched, Zenon
  <2>. QED  BY <1>1, <2>1, Zenon
<1>10. Outline(c, lock("ptable"), a, b)
  BY <1>1, <1>2, LockFirst, Zenon
<1>. HIDE DEF x, y, a, b, d
<1>11. Outline(c, lock("ptable") \o <<x>>, a, d)
  BY <1>8, <1>10, Compose
<1>12. Outline(c, lock("ptable") \o <<x>> \o sched, a, b)
  BY <1>9, <1>11, Compose
<1>13. Outline(c, lock("ptable") \o <<x>> \o sched \o <<y>>, a, a)
  BY <1>7, <1>12, Compose
<1>. QED  BY <1>13, Zenon DEF x, y, a

\* The stage in which a system call begins.
Enters(k) == IF k = "mutex" THEN "want" ELSE "done"

LEMMA SystemCall ==
  ASSUME NEW c \in Procs, NEW k \in Calls
  PROVE  Outline(c, syscall(k), L(0, "on", {}, F(c, Enters(k), "task")),
                                L(0, "on", {}, F(c, "done", "task")))
<1>. DEFINE a == L(0, "on", {}, F(c, "done", "task"))
            b == L(0, "on", {}, F(c, "own", "task"))
            w == L(0, "on", {}, F(c, "want", "task"))
            sleeper == lock("dev") \o <<Do("while", "dev")>> \o unlock("dev")
<1>1. /\ "done" \in Stages /\ "done" \in Settled /\ "on" # "any"
      /\ "dev" \in {"dev", "ptable"} /\ "ptable" \in {"dev", "ptable"}
      /\ "done" \in {"own", "done"} /\ "own" \in {"own", "done"}
  BY DEF Stages, Settled
<1>2. Fine(0, "on", {}, F(c, "done", "task")) /\ a \in Abs
  BY <1>1, InCall, FineIsAbs
<1>3. CASE k = "plain"
  <2>1. syscall(k) = <<>> /\ Enters(k) = "done"
    BY <1>3 DEF syscall, Enters
  <2>. QED  BY <1>2, <2>1, Empty
<1>4. CASE k = "sleeper"
  <2>1. syscall(k) = sleeper /\ Enters(k) = "done"
    BY <1>4 DEF syscall, Enters
  <2>. QED  BY <1>1, <2>1, Sleeper
<1>5. CASE k = "waker"
  <2>1. syscall(k) = lock("dev") \o wakeup("dev") \o unlock("dev") /\ Enters(k) = "done"
    BY <1>5 DEF syscall, Enters
  <2>. QED  BY <1>1, <1>2, <2>1, Waker
<1>6. CASE k = "wait"
  <2>1. /\ syscall(k) = lock("ptable") \o <<Do("while", "ptable")>> \o unlock("ptable")
        /\ Enters(k) = "done"
    BY <1>6 DEF syscall, Enters
  <2>. QED  BY <1>1, <2>1, Sleeper
<1>7. CASE k = "exit"
  <2>1. /\ syscall(k) = lock("ptable") \o <<Do("set", "ZOMBIE")>> \o sched
                           \o <<Do("zombie exit", "none")>>
        /\ Enters(k) = "done"
    BY <1>7, Zenon DEF syscall, Enters
  <2>. QED  BY <2>1, Exit, Zenon
<1>8. CASE k = "mutex"
  <2>1. /\ syscall(k) = lock_mutex \o lock("dev") \o <<Do("while", "dev")>> \o unlock("dev")
                           \o unlock_mutex
        /\ Enters(k) = "want"
    BY <1>8 DEF syscall, Enters
  <2>. DEFINE x == <<Do("while", "dev")>>
  <2>2. Outline(c, lock_mutex, w, b) /\ Outline(c, unlock_mutex, b, a)
    BY LockMutex, UnlockMutex
  <2>3. PICK d : /\ Outline(c, lock("dev"), b, d) /\ Outline(c, x, d, d)
                 /\ Outline(c, unlock("dev"), d, b)
    BY <1>1, SleeperParts
  <2>. HIDE DEF a, b, w, x
  <2>4. Outline(c, lock_mutex \o lock("dev"), w, d)
    BY <2>2, <2>3, Compose
  <2>5. Outline(c, lock_mutex \o lock("dev") \o x, w, d)
    BY <2>3, <2>4, Compose
  <2>6. Outline(c, lock_mutex \o lock("dev") \o x \o unlock("dev"), w, b)
    BY <2>3, <2>5, Compose
  <2>7. Outline(c, lock_mutex \o lock("dev") \o x \o unlock("dev") \o unlock_mutex, w, a)
    BY <2>2, <2>6, Compose
  <2>. QED  BY <2>1, <2>7 DEF a, w, x
<1>. QED  BY <1>3, <1>4, <1>5, <1>6, <1>7, <1>8 DEF Calls

\* The return to user mode.
LEMMA ToUser ==
  ASSUME NEW c \in Procs, NEW k \in Levels
  PROVE  Outline(c, <<Do("iret", "user")>>, L(0, k, {}, F(c, "done", "task")), Final(c))
<1>. DEFINE x == Do("iret", "user")
            a == L(0, k, {}, F(c, "done", "task"))
<1>1. /\ c \in Procs \cup {Nobody} /\ "done" \in Stages /\ "done" \in Settled
      /\ "task" \in {"task", "handler"} /\ "on" \in Levels /\ "iret" \in Ops
      /\ Final(c) = L(0, "on", {}, F(c, "done", "task"))
  BY Constants DEF Stages, Settled, Levels, Ops, Final
<1>2. a \in Abs /\ Final(c) \in Abs
  BY <1>1, Frame, FineIsAbs
<1>3. x \in Steps /\ x.op = "iret" /\ x.arg = "user"
  BY <1>1, StepTypes, Zenon DEF Do
<1>4. Fits(c, a, x, Final(c))
  <2>. HIDE DEF x
  <2>. QED  BY <1>3 DEF Fits, Ops
<1>. QED  BY <1>2, <1>3, <1>4, Single

\* The path of a system call through trap.
LEMMA Trap ==
  ASSUME NEW c \in Procs, NEW k \in Calls
  PROVE  Outline(c, this_proc \o syscall(k) \o this_proc \o yield \o <<Do("iret", "user")>>,
                 L(0, "on", {}, F(c, Enters(k), "task")), Final(c))
<1>. DEFINE a == L(0, "on", {}, F(c, "done", "task"))
            w == L(0, "on", {}, F(c, Enters(k), "task"))
            x == <<Do("iret", "user")>>
<1>1. /\ Enters(k) \in Stages /\ Enters(k) \in Settled /\ "on" # "any" /\ "on" \in Levels
      /\ "done" \in Stages /\ "done" \in Settled /\ "on" \in {"on", "off"}
      /\ "done" \in {"own", "done"} /\ "task" \in {"task", "handler"}
  BY DEF Enters, Stages, Settled, Levels
<1>2. /\ Fine(0, "on", {}, F(c, Enters(k), "task")) /\ Fine(0, "on", {}, F(c, "done", "task"))
  BY <1>1, InCall
<1>3. Outline(c, this_proc, w, w) /\ Outline(c, this_proc, a, a)
  BY <1>1, <1>2, ThisProc
<1>4. Outline(c, syscall(k), w, a) /\ Outline(c, x, a, Final(c))
  BY <1>1, SystemCall, ToUser
<1>5. Outline(c, yield, a, a)
  BY <1>1, <1>2, Yield
<1>. HIDE DEF a, w, x
<1>6. Outline(c, this_proc \o syscall(k), w, a)
  BY <1>3, <1>4, Compose
<1>7. Outline(c, this_proc \o syscall(k) \o this_proc, w, a)
  BY <1>3, <1>6, Compose
<1>8. Outline(c, this_proc \o syscall(k) \o this_proc \o yield, w, a)
  BY <1>5, <1>7, Compose
<1>9. Outline(c, this_proc \o syscall(k) \o this_proc \o yield \o x, w, Final(c))
  BY <1>4, <1>8, Compose
<1>. QED  BY <1>9 DEF w, x

\* The first return of a new process.
LEMMA Forkret ==
  ASSUME NEW c \in Procs
  PROVE  Outline(c, forkret, Switched(c, "any", "done", "task"), Final(c))
<1>. DEFINE a == L(0, "any", {}, F(c, "done", "task"))
<1>1. /\ c \in Procs \cup {Nobody} /\ "done" \in Stages /\ "done" \in Settled
      /\ "task" \in {"task", "handler"} /\ "any" \in Levels /\ "ptable" \in Locks
      /\ Switched(c, "any", "done", "task") = L(1, "any", {"ptable"}, F(c, "done", "task"))
  BY Constants DEF Stages, Settled, Levels, Locks, Switched
<1>2. Fine(0, "any", {}, F(c, "done", "task"))
  BY <1>1, Frame
<1>3. Outline(c, unlock("ptable"), Switched(c, "any", "done", "task"), a)
  BY <1>1, <1>2, UnlockLast
<1>4. Outline(c, <<Do("iret", "user")>>, a, Final(c))
  BY <1>1, ToUser
<1>. HIDE DEF a
<1>. QED  BY <1>3, <1>4, Compose DEF forkret

\* The scheduler, between two processes.
LEMMA Scheduling ==
  /\ \A k \in Levels : Switched(Scheduler, k, "done", "task") \in Abs
  /\ \A k \in Levels : Switched(Scheduler, k, "done", "task")
                         = L(1, k, {"ptable"}, F(Nobody, "done", "task"))
  /\ \A k \in Levels : Fine(0, k, {}, F(Nobody, "done", "task"))
  /\ Final(Scheduler) = L(0, "any", {}, F(Nobody, "done", "task"))
  /\ Final(Scheduler) \in Abs
<1>1. /\ Nobody \in Procs \cup {Nobody} /\ "done" \in Stages /\ "done" \in Settled
      /\ "task" \in {"task", "handler"} /\ "any" \in Levels /\ "ptable" \in Locks
      /\ Final(Scheduler) = L(0, "any", {}, F(Nobody, "done", "task"))
      /\ \A k : Switched(Scheduler, k, "done", "task")
                 = L(1, k, {"ptable"}, F(Nobody, "done", "task"))
  BY DEF Stages, Settled, Levels, Locks, Switched, Final
<1>2. \A k \in Levels : /\ Fine(0, k, {}, F(Nobody, "done", "task"))
                        /\ Fine(1, k, {"ptable"}, F(Nobody, "done", "task"))
  BY <1>1, Frame
<1>. QED  BY <1>1, <1>2, FineIsAbs

LEMMA Pass == Outline(Scheduler, pass, Final(Scheduler), Final(Scheduler))
<1>. DEFINE c == Scheduler
            x == Do("sti", "none")
            y == Do("scan", "none")
            z == Do("again", "none")
            a == Final(Scheduler)
            b == L(0, "on", {}, F(Nobody, "done", "task"))
            d == Switched(Scheduler, "on", "done", "task")
            e == Switched(Scheduler, "any", "done", "task")
<1>1. /\ "on" \in Levels /\ "any" \in Levels /\ "on" # "any" /\ "ptable" \in Locks
      /\ "sti" \in Ops /\ "scan" \in Ops /\ "again" \in Ops
  BY DEF Levels, Locks, Ops
<1>2. /\ Fine(0, "on", {}, F(Nobody, "done", "task"))
      /\ Fine(0, "any", {}, F(Nobody, "done", "task"))
      /\ a \in Abs /\ b \in Abs /\ d \in Abs /\ e \in Abs
  BY <1>1, Scheduling, FineIsAbs
<1>3. /\ x \in Steps /\ y \in Steps /\ z \in Steps
      /\ x.op = "sti" /\ y.op = "scan" /\ z.op = "again"
  BY <1>1, StepTypes, Zenon DEF Do
<1>4. Fits(c, a, x, b)
  BY <1>3, Zenon DEF Fits, Ops
<1>5. Fits(c, d, y, e)
  BY <1>1, <1>3, Zenon DEF Fits, Ops
<1>6. Fits(c, a, z, a)
  BY <1>3, Zenon DEF Fits, Ops
<1>. HIDE DEF x, y, z
<1>7. Outline(c, <<x>>, a, b) /\ Outline(c, <<y>>, d, e) /\ Outline(c, <<z>>, a, a)
  BY <1>2, <1>3, <1>4, <1>5, <1>6, Single
<1>8. Outline(c, lock("ptable"), b, d)
  <2>1. Outline(c, lock("ptable"), b, L(1, "on", {"ptable"}, F(Nobody, "done", "task")))
    BY <1>1, <1>2, LockFirst
  <2>. QED  BY <1>1, <2>1, Scheduling
<1>9. Outline(c, unlock("ptable"), e, a)
  <2>1. Outline(c, unlock("ptable"), L(1, "any", {"ptable"}, F(Nobody, "done", "task")),
                                     L(0, "any", {}, F(Nobody, "done", "task")))
    BY <1>1, <1>2, UnlockLast
  <2>. QED  BY <1>1, <2>1, Scheduling
<1>. HIDE DEF a, b, d, e
<1>10. Outline(c, <<x>> \o lock("ptable"), a, d)
  BY <1>7, <1>8, Compose
<1>11. Outline(c, <<x>> \o lock("ptable") \o <<y>>, a, e)
  BY <1>7, <1>10, Compose
<1>12. Outline(c, <<x>> \o lock("ptable") \o <<y>> \o unlock("ptable"), a, a)
  BY <1>9, <1>11, Compose
<1>13. Outline(c, <<x>> \o lock("ptable") \o <<y>> \o unlock("ptable") \o <<z>>, a, a)
  BY <1>7, <1>12, Compose
<1>. QED  BY <1>13 DEF pass, x, y, z, a

\* What the scheduler does with a process that it has found: uvm_switch, swtch, and
\* the rest of the table.
LEMMA Found ==
  ASSUME NEW p \in Procs
  PROVE  /\ L(1, "any", {"ptable"}, F(p, "done", "task")) \in Abs
         /\ Outline(Scheduler, uvm_switch \o <<Do("enter", p), Do("scan", "none")>>,
                    L(1, "any", {"ptable"}, F(p, "done", "task")),
                    Switched(Scheduler, "any", "done", "task"))
<1>. DEFINE c == Scheduler
            x == Do("enter", p)
            y == Do("scan", "none")
            f == F(p, "done", "task")
            a == L(1, "any", {"ptable"}, f)
            e == Switched(Scheduler, "any", "done", "task")
<1>1. /\ "any" \in Levels /\ "ptable" \in Locks /\ 1 # 0 /\ 2 # 0 /\ 1 + 1 = 2
      /\ p \in Procs \cup {Nobody} /\ "done" \in Stages /\ "task" \in {"task", "handler"}
      /\ "enter" \in Ops /\ "scan" \in Ops
  BY DEF Levels, Locks, Ops, Stages
<1>2. Fine(1, "any", {"ptable"}, f) /\ a \in Abs /\ e \in Abs
  BY <1>1, Scheduling, Frame, FineIsAbs
<1>3. /\ x \in Steps /\ y \in Steps
      /\ x.op = "enter" /\ x.arg = p /\ y.op = "scan"
  BY <1>1, StepTypes, Zenon DEF Do
<1>4. a = Switched(p, "any", "done", "task")
  BY Constants DEF Switched
<1>5. Fits(c, a, x, e)
  <2>. HIDE DEF a, e
  <2>. QED  BY <1>3, <1>4, Zenon DEF Fits, Ops, e
<1>6. Fits(c, e, y, e)
  BY <1>1, <1>3, Zenon DEF Fits, Ops
<1>7. Outline(c, <<x, y>>, a, e)
  BY <1>2, <1>3, <1>5, <1>6, Double
<1>8. Fine(2, "any", {"ptable"}, f)
  <2>1. Fine(1 + 1, "any", {"ptable"}, f)
    BY <1>2, FineUp
  <2>. QED  BY <1>1, <2>1
<1>. DEFINE b == L(2, "any", {"ptable"}, f)
<1>9. Outline(c, push_cli, a, b) /\ Outline(c, pop_cli, b, a)
  <2>1. /\ Outline(c, push_cli, a, L(1 + 1, "any", {"ptable"}, f))
        /\ Outline(c, pop_cli, L(1 + 1, "any", {"ptable"}, f), a)
    BY <1>1, <1>2, PushCli, PopCli
  <2>. QED  BY <1>1, <2>1
<1>10. Outline(c, this_proc, b, b)
  BY <1>1, <1>8, ThisProc
<1>. HIDE DEF x, y, a, b, e
<1>11. Outline(c, push_cli \o this_proc, a, b)
  BY <1>9, <1>10, Compose
<1>12. Outline(c, push_cli \o this_proc \o pop_cli, a, a)
  BY <1>9, <1>11, Compose
<1>13. Outline(c, uvm_switch, a, a)
  BY <1>12 DEF uvm_switch
<1>14. Outline(c, uvm_switch \o <<x, y>>, a, e)
  BY <1>7, <1>13, Compose
<1>. QED  BY <1>2, <1>14 DEF x, y, a, e

\* An interrupt of code that has the interrupts on leaves it where it was.
LEMMA Gate ==
  ASSUME NEW c, NEW a \in Abs, a.on # "off", NEW i \in Irqs, NEW user \in BOOLEAN,
         user => c \in Procs /\ a.f = F(c, "done", "task")
  PROVE  /\ L(0, "off", {}, F(a.f.run, a.f.mutex, "handler")) \in Abs
         /\ Outline(c, handler(i) \o this_proc \o (IF user THEN yield ELSE <<>>)
                         \o <<Do("iret", "gate")>>,
                    L(0, "off", {}, F(a.f.run, a.f.mutex, "handler")), a)
<1>. DEFINE f == F(a.f.run, a.f.mutex, "handler")
            b == L(0, "off", {}, f)
            x == Do("iret", "gate")
            y == IF user THEN yield ELSE <<>>
<1>1. a.f.run \in Procs \cup {Nobody} /\ a.f.mutex \in Stages /\ "handler" \in {"task", "handler"}
  BY DEF Abs, Descriptions, Frames
<1>2. Fine(0, "off", {}, f)
  BY <1>1, Frame
<1>3. b \in Abs
  BY <1>2, FineIsAbs
<1>4. "iret" \in Ops /\ "off" # "any" /\ "off" \in {"on", "off"} /\ "done" \in {"own", "done"}
  BY DEF Ops
<1>5. x \in Steps /\ x.op = "iret" /\ x.arg = "gate"
  BY <1>4, StepTypes, Zenon DEF Do
<1>6. Fits(c, b, x, a)
  <2>. HIDE DEF x
  <2>. QED  BY <1>5 DEF Fits, Ops
<1>7. Outline(c, <<x>>, b, a)
  BY <1>3, <1>5, <1>6, Single
<1>8. Outline(c, y, b, b)
  <2>1. CASE user
    <3>1. c \in Procs /\ f = F(c, "done", "handler")
      BY <2>1 DEF F
    <3>2. Outline(c, yield, L(0, "off", {}, F(c, "done", "handler")),
                            L(0, "off", {}, F(c, "done", "handler")))
      BY <1>1, <1>2, <1>4, <3>1, Yield, Zenon
    <3>. QED  BY <2>1, <3>1, <3>2
  <2>2. CASE ~user
    BY <1>3, <2>2, Empty
  <2>. QED  BY <2>1, <2>2
<1>9. Outline(c, handler(i), b, b) /\ Outline(c, this_proc, b, b)
  BY <1>2, <1>4, Handler, ThisProc, Zenon
<1>. HIDE DEF b, x, y
<1>10. Outline(c, handler(i) \o this_proc, b, b)
  BY <1>9, Compose
<1>11. Outline(c, handler(i) \o this_proc \o y, b, b)
  BY <1>8, <1>10, Compose
<1>12. Outline(c, handler(i) \o this_proc \o y \o <<x>>, b, a)
  BY <1>7, <1>11, Compose
<1>. QED  BY <1>3, <1>12 DEF b, x, y

----------------------------------------------------------------------------
(* The invariant is kept *)

LEMMA OutlineSeq ==
  ASSUME NEW c, NEW s, NEW a, NEW b, Outline(c, s, a, b)
  PROVE  s \in Seq(Steps)
BY DEF Outline

LEMMA EmptyOutline ==
  ASSUME NEW c, NEW a, NEW b, Outline(c, <<>>, a, b)
  PROVE  a = b
<1>1. Len(<<>>) = 0
  OBVIOUS
<1>. QED  BY <1>1 DEF Outline

LEMMA SwitchedIsAbs ==
  ASSUME NEW c \in Contexts, NEW k \in Levels, NEW m \in Stages, NEW at \in {"task", "handler"}
  PROVE  Switched(c, k, m, at) \in Abs
<1>. DEFINE r == IF c = Scheduler THEN Nobody ELSE c
<1>1. r \in Procs \cup {Nobody} /\ "ptable" \in Locks
  BY DEF Contexts, Locks
<1>. HIDE DEF r
<1>2. L(1, k, {"ptable"}, F(r, m, at)) \in Abs
  BY <1>1, Frame, FineIsAbs
<1>. QED  BY <1>2 DEF Switched, r

LEMMA Start == Init => Inductive
<1>. SUFFICES ASSUME Init PROVE Inductive
  OBVIOUS
<1>1. /\ ctx = Scheduler /\ owner = Nobody /\ code \in [Contexts -> {pass, forkret}]
      /\ code[Scheduler] = pass /\ \A p \in Procs : code[p] = forkret
      /\ Scheduler \in Contexts
  BY Constants DEF Init, Contexts
<1>2. \A p \in Procs : Outline(p, forkret, Switched(p, "any", "done", "task"), Final(p))
  BY Forkret
<1>3. code \in [Contexts -> Seq(Steps)]
  <2>1. code[Scheduler] \in Seq(Steps) /\ \A p \in Procs : code[p] \in Seq(Steps)
    BY <1>1, <1>2, Pass, OutlineSeq
  <2>. QED  BY <1>1, <2>1 DEF Contexts
<1>4. TypeOK /\ ~panicked
  BY <1>1, <1>3, Zenon DEF Init, TypeOK, Flags
<1>5. Matches(Final(Scheduler)) /\ Goes(Scheduler, Final(Scheduler))
  <2>1. Matches(Final(Scheduler))
    BY Scheduling, Constants DEF Init, Matches, L, F, Is
  <2>2. owner # Scheduler /\ Final(Scheduler).f.mutex # "own"
    <3>1. Final(Scheduler) = L(0, "any", {}, F(Nobody, "done", "task"))
      BY Scheduling, Zenon
    <3>2. Final(Scheduler).f.mutex = "done"
      BY <3>1 DEF L, F
    <3>. QED  BY <1>1, <3>2, Constants
  <2>. QED  BY <1>1, <2>1, <2>2, Pass, Scheduling, Zenon DEF Goes
<1>6. ASSUME NEW p \in Contexts \ {ctx} PROVE Waits(p)
  <2>1. p \in Procs /\ p \in Contexts
    BY <1>1 DEF Contexts
  <2>2. /\ "done" \in Settled /\ "done" \in Stages /\ "task" \in {"task", "handler"}
        /\ "any" \in Levels
    BY DEF Settled, Stages, Levels
  <2>3. Switched(p, "any", "done", "task").f.mutex # "own" /\ owner # p
    BY <1>1, <2>1, Constants DEF Switched, L, F
  <2>4. Goes(p, Switched(p, "any", "done", "task"))
    BY <1>1, <1>2, <2>1, <2>2, <2>3, SwitchedIsAbs DEF Goes
  <2>. QED  BY <2>2, <2>4 DEF Waits
<1>. QED  BY <1>1, <1>4, <1>5, <1>6, Scheduling DEF Inductive

\* The description of now and the one after the first step of the context on the CPU.
At(a, b) ==
  /\ a \in Abs /\ b \in Abs /\ Matches(a) /\ (owner = ctx <=> a.f.mutex = "own")
  /\ Head(code[ctx]) \in Steps
  /\ Fits(ctx, a, Head(code[ctx]), b)
  /\ Outline(ctx, Tail(code[ctx]), b, Final(ctx))

LEMMA HeadStep ==
  ASSUME Inductive, code[ctx] # <<>>
  PROVE  \E a, b : At(a, b)
<1>1. PICK a \in Abs : Matches(a) /\ Goes(ctx, a)
  BY DEF Inductive
<1>2. PICK b \in Abs : /\ Fits(ctx, a, Head(code[ctx]), b)
                       /\ Outline(ctx, Tail(code[ctx]), b, Final(ctx))
  BY <1>1, First DEF Goes
<1>3. code[ctx] \in Seq(Steps)
  BY DEF Inductive, TypeOK
<1>4. Head(code[ctx]) \in Steps
  BY <1>3
<1>. QED  BY <1>1, <1>2, <1>4 DEF At, Goes

\* A step after which the same context goes on with the steps s.
LEMMA Stay ==
  ASSUME Inductive, NEW s, NEW a \in Abs,
         ctx' = ctx, code' = [code EXCEPT ![ctx] = s], Outline(ctx, s, a, Final(ctx)),
         Matches(a)', owner' = ctx <=> a.f.mutex = "own",
         \A c \in Contexts \ {ctx} : owner' = c <=> owner = c,
         Flags', panicked' = panicked
  PROVE  Inductive'
<1>1. s \in Seq(Steps)
  BY OutlineSeq
<1>2. /\ ctx \in Contexts /\ code \in [Contexts -> Seq(Steps)]
      /\ code' \in [Contexts -> Seq(Steps)] /\ code'[ctx] = s
      /\ \A c \in Contexts \ {ctx} : code'[c] = code[c]
  BY <1>1, Zenon DEF Inductive, TypeOK
<1>3. TypeOK' /\ ~panicked'
  BY <1>2, Zenon DEF TypeOK, Inductive
<1>4. Matches(a)' /\ Goes(ctx, a)'
  BY <1>2 DEF Goes
<1>5. ASSUME NEW c \in Contexts \ {ctx} PROVE Waits(c)'
  <2>1. PICK m \in Settled, at \in {"task", "handler"} : Goes(c, Switched(c, "any", m, at))
    BY DEF Inductive, Waits
  <2>2. code'[c] = code[c] /\ (owner' = c <=> owner = c)
    BY <1>2
  <2>3. Goes(c, Switched(c, "any", m, at))'
    BY <2>1, <2>2, Zenon DEF Goes
  <2>. QED  BY <2>3 DEF Waits
<1>. QED  BY <1>3, <1>4, <1>5, Zenon DEF Inductive

\* A step that is only its first one.
LEMMA GoOn ==
  ASSUME Inductive, NEW a, NEW b, At(a, b), Then(<<>>), ctx' = ctx, code[ctx] # <<>>,
         Matches(b)', owner' = ctx <=> b.f.mutex = "own",
         \A c \in Contexts \ {ctx} : owner' = c <=> owner = c,
         Flags', panicked' = panicked
  PROVE  Inductive'
<1>1. code[ctx] \in Seq(Steps)
  BY DEF Inductive, TypeOK
<1>2. Tail(code[ctx]) \in Seq(Steps)
  BY <1>1
<1>3. <<>> \o Tail(code[ctx]) = Tail(code[ctx])
  BY <1>2
<1>4. code' = [code EXCEPT ![ctx] = Tail(code[ctx])]
  BY <1>3 DEF Then
<1>. QED  BY <1>4, Stay, Zenon DEF At

\* One lemma for each action.
LEMMA CountKeeps ==
  ASSUME Inductive, Count
  PROVE  Inductive'
<1>1. PICK a, b : At(a, b)
  BY HeadStep DEF Count, Step
<1>2. Arg \in BOOLEAN /\ a.on = "off" /\ b = Pushed([a EXCEPT !.on = Level(Arg)])
  BY <1>1, Zenon DEF At, Fits, Count, Step, Arg
<1>3. a \in Descriptions /\ Matches(a) /\ Flags
  BY <1>1, Zenon DEF At, Abs, Inductive, TypeOK
<1>4. Then(<<>>) /\ panicked' = panicked
  BY <1>2, <1>3 DEF Count, PanicUnless, Matches, Is
<1>5. /\ b.on = "off" /\ b.ncli = a.ncli + 1 /\ b.held = a.held /\ b.f = a.f
      /\ b.int = IF a.ncli = 0 THEN Level(Arg) ELSE a.int
  BY <1>2, <1>3 DEF Pushed, Descriptions
<1>6. Matches(b)'
  BY <1>2, <1>3, <1>5 DEF Count, Matches, Is, Level
<1>7. Flags'
  BY <1>2, <1>3 DEF Count, Flags
<1>. QED  BY <1>1, <1>4, <1>5, <1>6, <1>7, GoOn, Zenon DEF Count, Step, At

LEMMA DecrementKeeps ==
  ASSUME Inductive, Decrement
  PROVE  Inductive'
<1>1. PICK a, b : At(a, b)
  BY HeadStep DEF Decrement, Step
<1>2. a.on = "off" /\ a.ncli > 0 /\ b = [a EXCEPT !.ncli = @ - 1]
  BY <1>1, Zenon DEF At, Fits, Decrement, Step
<1>3. a \in Descriptions /\ Matches(a) /\ Flags
  BY <1>1, Zenon DEF At, Abs, Inductive, TypeOK
<1>4. Then(<<>>) /\ panicked' = panicked
  BY <1>2, <1>3 DEF Decrement, PanicUnless, Matches, Is
<1>5. /\ b.on = a.on /\ b.ncli = a.ncli - 1 /\ b.held = a.held /\ b.f = a.f
      /\ b.int = a.int
  BY <1>2, <1>3 DEF Descriptions
<1>6. Matches(b)'
  BY <1>3, <1>5 DEF Decrement, Matches, Is
<1>7. Flags'
  BY <1>2, <1>3 DEF Decrement, Flags, Matches
<1>. QED  BY <1>1, <1>4, <1>5, <1>6, <1>7, GoOn, Zenon DEF Decrement, Step, At

LEMMA ReopenKeeps ==
  ASSUME Inductive, Reopen
  PROVE  Inductive'
<1>1. PICK a, b : At(a, b)
  BY HeadStep DEF Reopen, Step
<1>2. a.on = "off" /\ b = IF a.ncli = 0 THEN L(0, a.int, a.held, a.f) ELSE a
  BY <1>1, Zenon DEF At, Fits, Reopen, Step
<1>3. a \in Descriptions /\ Matches(a) /\ Flags
  BY <1>1 DEF At, Abs, Inductive, TypeOK
<1>4. Then(<<>>) /\ panicked' = panicked
  BY <1>2, <1>3 DEF Reopen, PanicUnless, Matches, Is
<1>5. /\ b.ncli = a.ncli /\ b.held = a.held /\ b.f = a.f
      /\ IF a.ncli = 0 THEN b.on = a.int /\ b.int = "any" ELSE b.on = "off" /\ b.int = a.int
  BY <1>2, <1>3 DEF L
<1>6. Matches(b)'
  <2>1. /\ IF_ \in BOOLEAN /\ int_on \in BOOLEAN /\ ncli = a.ncli /\ Is(int_on, a.int)
        /\ IF_' = (ncli = 0 /\ int_on) /\ ncli' = ncli /\ int_on' = int_on
    BY <1>3, Zenon DEF Reopen, Matches, Flags
  <2>2. Is(IF_', b.on) /\ Is(int_on', b.int)
    <3>1. CASE a.ncli = 0
      BY <1>5, <2>1, <3>1 DEF Is
    <3>2. CASE a.ncli # 0
      BY <1>5, <2>1, <3>2, Zenon DEF Is
    <3>. QED  BY <3>1, <3>2
  <2>3. /\ \A l \in Locks : locked'[l] <=> l \in b.held
        /\ \A p \in Procs : state'[p] = "RUNNING" <=> b.f.run = p
    BY <1>3, <1>5, Zenon DEF Reopen, Matches
  <2>4. /\ b.f.mutex = "free" => owner' = Nobody
        /\ b.f.mutex = "busy" => owner' # Nobody
        /\ b.f.mutex = "waking" \/ owner' # Nobody \/ \A p \in Procs : state'[p] # "MUTEX"
    BY <1>3, <1>5, Zenon DEF Reopen, Matches
  <2>. QED  BY <1>5, <2>1, <2>2, <2>3, <2>4, Zenon DEF Matches
<1>7. Flags'
  BY <1>3 DEF Reopen, Flags
<1>. QED  BY <1>1, <1>4, <1>5, <1>6, <1>7, GoOn, Zenon DEF Reopen, Step, At

LEMMA AssertKeeps ==
  ASSUME Inductive, AssertHolding
  PROVE  Inductive'
<1>1. PICK a, b : At(a, b)
  BY HeadStep, Zenon DEF AssertHolding, Step
<1>. DEFINE x == Head(code[ctx])
<1>2. b = a /\ locked[x.arg] = (x.op = "assert held")
  <2>1. CASE x.op = "assert held"
    <3>1. x.arg \in a.held /\ b = a
      BY <1>1, <2>1, Zenon DEF At, Fits
    <3>2. x.arg \in Locks
      BY <1>1, <3>1 DEF At, Abs, Descriptions
    <3>3. locked[x.arg]
      BY <1>1, <3>1, <3>2 DEF At, Matches
    <3>4. locked[x.arg] = TRUE
      BY <3>2, <3>3 DEF Inductive, TypeOK, Flags
    <3>. QED  BY <2>1, <3>1, <3>4, Zenon
  <2>2. CASE x.op = "assert free"
    <3>1. x.arg \in Locks \ a.held /\ b = a
      BY <1>1, <2>2, Zenon DEF At, Fits
    <3>2. ~locked[x.arg]
      BY <1>1, <3>1, Zenon DEF At, Matches
    <3>3. locked[x.arg] = FALSE
      BY <3>1, <3>2 DEF Inductive, TypeOK, Flags
    <3>4. (x.op = "assert held") = FALSE
      BY <2>2, Zenon
    <3>. QED  BY <3>1, <3>3, <3>4, Zenon
  <2>. QED  BY <2>1, <2>2, Zenon DEF AssertHolding, Step
<1>3. Then(<<>>) /\ panicked' = panicked
  BY <1>2, Zenon DEF AssertHolding, PanicUnless, Arg
<1>4. Matches(b)' /\ Flags'
  BY <1>1, <1>2, Zenon DEF At, Matches, Inductive, TypeOK, Flags, AssertHolding
<1>. QED  BY <1>1, <1>2, <1>3, <1>4, GoOn, Zenon DEF AssertHolding, Step, At

LEMMA AcquireKeeps ==
  ASSUME Inductive, Acquire
  PROVE  Inductive'
<1>1. PICK a, b : At(a, b)
  BY HeadStep DEF Acquire, Step
<1>2. Arg \in Locks \ a.held /\ b = [a EXCEPT !.held = @ \cup {Arg}]
  BY <1>1, Zenon DEF At, Fits, Acquire, Step, Arg
<1>3. a \in Descriptions /\ Matches(a) /\ Flags
  BY <1>1 DEF At, Abs, Inductive, TypeOK
<1>4. /\ b.on = a.on /\ b.ncli = a.ncli /\ b.held = a.held \cup {Arg} /\ b.f = a.f
      /\ b.int = a.int
  BY <1>2, <1>3 DEF Descriptions
<1>5. PICK l \in Locks : l = Arg
  BY <1>2
<1>6. \A h \in Locks : locked'[h] <=> h \in b.held
  BY <1>3, <1>4, <1>5, Zenon DEF Acquire, Matches, Flags
<1>7. Matches(b)'
  BY <1>3, <1>4, <1>6 DEF Acquire, Matches, Is
<1>8. Flags'
  BY <1>3, <1>5 DEF Acquire, Flags
<1>. QED  BY <1>1, <1>4, <1>7, <1>8, GoOn, Zenon DEF Acquire, Step, At

LEMMA ReleaseKeeps ==
  ASSUME Inductive, Release
  PROVE  Inductive'
<1>1. PICK a, b : At(a, b)
  BY HeadStep DEF Release, Step
<1>2. Arg \in Locks /\ b = [a EXCEPT !.held = @ \ {Arg}]
  BY <1>1, Zenon DEF At, Fits, Release, Step, Arg
<1>3. a \in Descriptions /\ Matches(a) /\ Flags
  BY <1>1 DEF At, Abs, Inductive, TypeOK
<1>4. /\ b.on = a.on /\ b.ncli = a.ncli /\ b.held = a.held \ {Arg} /\ b.f = a.f
      /\ b.int = a.int
  BY <1>2, <1>3 DEF Descriptions
<1>5. PICK l \in Locks : l = Arg
  BY <1>2
<1>6. \A h \in Locks : locked'[h] <=> h \in b.held
  BY <1>3, <1>4, <1>5, Zenon DEF Release, Matches, Flags
<1>7. Matches(b)'
  BY <1>3, <1>4, <1>6, Zenon DEF Release, Matches, Is
<1>8. Flags'
  BY <1>3, <1>5 DEF Release, Flags
<1>. QED  BY <1>1, <1>4, <1>7, <1>8, GoOn, Zenon DEF Release, Step, At

LEMMA RestoreKeeps ==
  ASSUME Inductive, Restore
  PROVE  Inductive'
<1>1. PICK a, b : At(a, b)
  BY HeadStep, Zenon DEF Restore, Step
<1>2. PICK k \in Levels, m \in Settled, at \in {"task", "handler"} :
        /\ ctx \in Procs /\ Arg \in BOOLEAN /\ Is(Arg, k)
        /\ a = Switched(ctx, "any", m, at) /\ b = Switched(ctx, k, m, at)
  <2>1. Restores(ctx, a, Arg, b)
    BY <1>1, Zenon DEF At, Fits, Restore, Step, Arg
  <2>. QED  BY <2>1 DEF Restores
<1>3. Matches(a) /\ Flags
  BY <1>1, Zenon DEF At, Inductive, TypeOK
<1>4. /\ b.on = a.on /\ b.ncli = a.ncli /\ b.held = a.held /\ b.f = a.f
      /\ b.int = k
  BY <1>2 DEF Switched, L
<1>5. Matches(b)'
  <2>1. /\ int_on' = Arg /\ IF_' = IF_ /\ ncli' = ncli /\ locked' = locked
        /\ state' = state /\ owner' = owner
    BY DEF Restore
  <2>2. Is(int_on', b.int)
    BY <1>2, <1>4, <2>1, Zenon
  <2>3. /\ Is(IF_', b.on) /\ ncli' = b.ncli
        /\ \A l \in Locks : locked'[l] <=> l \in b.held
        /\ \A p \in Procs : state'[p] = "RUNNING" <=> b.f.run = p
    BY <1>3, <1>4, <2>1, Zenon DEF Matches
  <2>4. /\ b.f.mutex = "free" => owner' = Nobody
        /\ b.f.mutex = "busy" => owner' # Nobody
        /\ b.f.mutex = "waking" \/ owner' # Nobody \/ \A p \in Procs : state'[p] # "MUTEX"
    BY <1>3, <1>4, <2>1, Zenon DEF Matches
  <2>. QED  BY <2>2, <2>3, <2>4, Zenon DEF Matches
<1>6. Flags'
  BY <1>2, <1>3 DEF Restore, Flags
<1>. QED  BY <1>1, <1>4, <1>5, <1>6, GoOn, Zenon DEF Restore, Step, At

LEMMA SetKeeps ==
  ASSUME Inductive, SetState
  PROVE  Inductive'
<1>1. PICK a, b : At(a, b)
  BY HeadStep DEF SetState, Step
<1>2. PICK k \in Levels, m \in {"busy", "own", "done"}, at \in {"task", "handler"} :
        /\ ctx \in Procs /\ Arg \in {"READY", "SLEEPING", "MUTEX", "ZOMBIE"}
        /\ Arg = "MUTEX" => m = "busy"
        /\ a = L(1, k, {"ptable"}, F(ctx, m, at)) /\ b = L(1, k, {"ptable"}, F(Nobody, m, at))
  <2>1. Sets(ctx, a, Arg, b)
    BY <1>1, Zenon DEF At, Fits, SetState, Step, Arg
  <2>. QED  BY <2>1 DEF Sets
<1>3. Matches(a) /\ Flags
  BY <1>1 DEF At, Inductive, TypeOK
<1>4. /\ b.on = a.on /\ b.ncli = a.ncli /\ b.held = a.held /\ b.int = a.int
      /\ a.f.run = ctx /\ b.f.run = Nobody /\ a.f.mutex = m /\ b.f.mutex = m
  BY <1>2 DEF L, F
<1>5. PICK p \in Procs, st \in {"READY", "SLEEPING", "MUTEX", "ZOMBIE"} : p = ctx /\ st = Arg
  BY <1>2
<1>6. state' = [state EXCEPT ![p] = st]
  BY <1>5 DEF SetState
<1>7. \A q \in Procs : state'[q] = IF q = p THEN st ELSE state[q]
  BY <1>3, <1>6 DEF Flags
<1>8. \A q \in Procs : state'[q] = "RUNNING" <=> b.f.run = q
  <2>1. \A q \in Procs : state[q] = "RUNNING" <=> p = q
    BY <1>3, <1>4, <1>5, Zenon DEF Matches
  <2>2. st # "RUNNING" /\ \A q \in Procs : q # Nobody
    BY Constants
  <2>. QED  BY <1>4, <1>7, <2>1, <2>2, Zenon
<1>9. owner # Nobody \/ \A q \in Procs : state'[q] # "MUTEX"
  <2>1. a.f.mutex # "waking" /\ (m = "busy" => owner # Nobody)
    BY <1>3, <1>4 DEF Matches
  <2>2. CASE owner = Nobody
    <3>1. \A q \in Procs : state[q] # "MUTEX"
      BY <1>3, <2>1, <2>2, Zenon DEF Matches
    <3>2. st # "MUTEX"
      BY <1>2, <1>5, <2>1, <2>2, Zenon
    <3>. QED  BY <1>7, <3>1, <3>2, Zenon
  <2>. QED  BY <2>2
<1>10. Matches(b)'
  BY <1>2, <1>3, <1>4, <1>8, <1>9, Zenon DEF SetState, Matches
<1>11. Flags'
  BY <1>3, <1>6, Zenon DEF SetState, Flags
<1>. QED  BY <1>1, <1>4, <1>10, <1>11, GoOn, Zenon DEF SetState, Step, At

LEMMA WakeKeeps ==
  ASSUME Inductive, Wake
  PROVE  Inductive'
<1>1. PICK a, b : At(a, b)
  BY HeadStep DEF Wake, Step
<1>2. Matches(a) /\ Flags /\ (owner = ctx <=> a.f.mutex = "own")
  BY <1>1 DEF At, Inductive, TypeOK
<1>. DEFINE asleep == IF Arg = "mutex" THEN "MUTEX" ELSE "SLEEPING"
            sleepers == {p \in Procs : state[p] = asleep}
<1>3. PICK W : /\ W \in SUBSET sleepers /\ (Arg = "mutex" => W = sleepers)
               /\ state' = [p \in Procs |-> IF p \in W THEN "READY" ELSE state[p]]
  BY DEF Wake
<1>4. /\ b.on = a.on /\ b.ncli = a.ncli /\ b.held = a.held /\ b.int = a.int /\ b.f.run = a.f.run
      /\ \/ b.f.mutex = a.f.mutex
         \/ a.f.mutex = "waking" /\ b.f.mutex = "done" /\ Arg = "mutex"
  <2>1. CASE Arg = "mutex"
    <3>1. /\ a = L(2, "on", {"mutex", "ptable"}, F(ctx, "waking", "task"))
          /\ b = L(2, "on", {"mutex", "ptable"}, F(ctx, "done", "task"))
      BY <1>1, <2>1, Zenon DEF At, Fits, Wake, Step, Arg
    <3>. QED  BY <2>1, <3>1 DEF L, F
  <2>2. CASE Arg # "mutex"
    BY <1>1, <2>2, Zenon DEF At, Fits, Wake, Step, Arg
  <2>. QED  BY <2>1, <2>2
<1>5. \A p \in Procs : /\ state'[p] = "RUNNING" <=> state[p] = "RUNNING"
                       /\ state'[p] = "MUTEX" => state[p] = "MUTEX" /\ Arg # "mutex"
  BY <1>3
<1>6. Matches(b)'
  BY <1>2, <1>4, <1>5, Zenon DEF Wake, Matches
<1>7. Flags'
  BY <1>2, <1>3 DEF Wake, Flags
<1>8. owner' = ctx <=> b.f.mutex = "own"
  BY <1>2, <1>4 DEF Wake
<1>. QED  BY <1>1, <1>6, <1>7, <1>8, GoOn DEF Wake, Step

LEMMA OwnKeeps ==
  ASSUME Inductive, Own
  PROVE  Inductive'
<1>1. PICK a, b : At(a, b)
  BY HeadStep DEF Own, Step
<1>2. Matches(a) /\ Flags /\ (owner = ctx <=> a.f.mutex = "own")
  BY <1>1 DEF At, Inductive, TypeOK
<1>. DEFINE op == Head(code[ctx]).op
<1>3. CASE op = "own"
  <2>1. /\ ctx \in Procs /\ a = L(1, "on", {"mutex"}, F(ctx, "free", "task"))
        /\ b = L(1, "on", {"mutex"}, F(ctx, "own", "task"))
    BY <1>1, <1>3, Zenon DEF At, Fits
  <2>2. /\ b.on = a.on /\ b.ncli = a.ncli /\ b.held = a.held /\ b.int = a.int /\ b.f.run = a.f.run
        /\ a.f.mutex = "free" /\ b.f.mutex = "own"
    BY <2>1 DEF L, F
  <2>3. owner' = ctx /\ owner = Nobody /\ ctx # Nobody
    BY <1>2, <1>3, <2>1, <2>2, Constants, Zenon DEF Own, Step, Matches
  <2>4. Matches(b)' /\ Flags'
    <3>1. UNCHANGED <<IF_, ncli, int_on, locked, state>>
      BY DEF Own
    <3>2. Flags'
      BY <1>2, <2>1, <2>3, <3>1 DEF Flags
    <3>3. /\ Is(IF_', b.on) /\ ncli' = b.ncli /\ Is(int_on', b.int)
          /\ \A l \in Locks : locked'[l] <=> l \in b.held
          /\ \A p \in Procs : state'[p] = "RUNNING" <=> b.f.run = p
      BY <1>2, <2>2, <3>1, Zenon DEF Matches
    <3>4. b.f.mutex # "free" /\ b.f.mutex # "busy" /\ owner' # Nobody
      BY <2>2, <2>3
    <3>. QED  BY <3>2, <3>3, <3>4, Zenon DEF Matches
  <2>5. \A c \in Contexts \ {ctx} : owner' = c <=> owner = c
    BY <2>3, Constants
  <2>. QED  BY <1>1, <2>2, <2>3, <2>4, <2>5, GoOn DEF Own, Step
<1>4. CASE op = "disown"
  <2>1. /\ a = L(1, "on", {"mutex"}, F(ctx, "own", "task"))
        /\ b = L(1, "on", {"mutex"}, F(ctx, "waking", "task"))
    BY <1>1, <1>4, Zenon DEF At, Fits
  <2>2. /\ b.on = a.on /\ b.ncli = a.ncli /\ b.held = a.held /\ b.int = a.int /\ b.f.run = a.f.run
        /\ a.f.mutex = "own" /\ b.f.mutex = "waking"
    BY <2>1 DEF L, F
  <2>3. owner' = Nobody /\ owner = ctx /\ ctx # Nobody
    BY <1>2, <1>4, <2>2, Constants, Zenon DEF Own, Step, Inductive, TypeOK
  <2>4. Matches(b)' /\ Flags'
    BY <1>2, <2>2, <2>3, Zenon DEF Own, Matches, Flags
  <2>5. \A c \in Contexts \ {ctx} : owner' = c <=> owner = c
    BY <2>3, Constants
  <2>. QED  BY <1>1, <2>2, <2>3, <2>4, <2>5, GoOn DEF Own, Step
<1>. QED  BY <1>3, <1>4 DEF Own, Step

LEMMA StiKeeps ==
  ASSUME Inductive, Sti
  PROVE  Inductive'
<1>1. PICK a, b : At(a, b)
  BY HeadStep DEF Sti, Step
<1>2. Matches(a) /\ Flags /\ (owner = ctx <=> a.f.mutex = "own")
  BY <1>1 DEF At, Inductive, TypeOK
<1>3. ctx = Scheduler /\ a = Final(ctx) /\ b = L(0, "on", {}, F(Nobody, "done", "task"))
  BY <1>1, Zenon DEF At, Fits, Sti, Step
<1>4. a = L(0, "any", {}, F(Nobody, "done", "task"))
  BY <1>3, Scheduling
<1>5. /\ b.on = "on" /\ b.ncli = a.ncli /\ b.held = a.held /\ b.int = a.int /\ b.f = a.f
  BY <1>3, <1>4 DEF L
<1>6. Matches(b)' /\ Flags'
  BY <1>2, <1>5 DEF Sti, Matches, Flags, Is
<1>. QED  BY <1>1, <1>2, <1>5, <1>6, GoOn DEF Sti, Step

LEMMA ScanEndsKeeps ==
  ASSUME Inductive, ScanEnds
  PROVE  Inductive'
<1>1. PICK a, b : At(a, b)
  BY HeadStep, Zenon DEF ScanEnds, Step
<1>2. Matches(a) /\ Flags /\ (owner = ctx <=> a.f.mutex = "own")
  BY <1>1 DEF At, Inductive, TypeOK
<1>3. PICK k \in Levels : /\ a = Switched(ctx, k, "done", "task")
                          /\ b = Switched(ctx, "any", "done", "task")
  BY <1>1, Zenon DEF At, Fits, ScanEnds, Step
<1>4. /\ b.on = a.on /\ b.ncli = a.ncli /\ b.held = a.held /\ b.int = "any" /\ b.f = a.f
  BY <1>3 DEF Switched, L
<1>5. Matches(b)' /\ Flags'
  BY <1>2, <1>4 DEF ScanEnds, Matches, Flags, Is
<1>. QED  BY <1>1, <1>2, <1>4, <1>5, GoOn, Zenon DEF ScanEnds, Step

LEMMA IretKeeps ==
  ASSUME Inductive, Iret
  PROVE  Inductive'
<1>1. PICK a, b : At(a, b)
  BY HeadStep DEF Iret, Step
<1>2. Matches(a) /\ Flags /\ (owner = ctx <=> a.f.mutex = "own") /\ b \in Abs
  BY <1>1, Zenon DEF At, Inductive, TypeOK
<1>3. /\ b.on # "off" /\ b.ncli = 0 /\ b.int = "any" /\ b.held = {} /\ b.f.mutex \in Settled
      /\ a.ncli = 0 /\ a.held = {} /\ a.f.run = b.f.run /\ a.f.mutex = b.f.mutex
  <2>1. CASE Arg = "user"
    <3>1. PICK k \in Levels : /\ ctx \in Procs /\ b = Final(ctx)
                              /\ a = L(0, k, {}, F(ctx, "done", "task"))
      BY <1>1, <2>1, Zenon DEF At, Fits, Iret, Step, Arg
    <3>2. b = L(0, "on", {}, F(ctx, "done", "task"))
      BY <3>1, Constants DEF Final
    <3>. QED  BY <3>1, <3>2 DEF L, F, Settled
  <2>2. CASE Arg # "user"
    <3>1. b.on # "off" /\ a = L(0, "off", {}, F(b.f.run, b.f.mutex, "handler"))
      BY <1>1, <2>2, Zenon DEF At, Fits, Iret, Step, Arg
    <3>2. Open(b)
      BY <1>2, <3>1 DEF Abs
    <3>. QED  BY <3>1, <3>2 DEF L, F, Open
  <2>. QED  BY <2>1, <2>2
<1>4. Matches(b)' /\ Flags'
  BY <1>2, <1>3, Zenon DEF Iret, Matches, Flags, Is, Settled
<1>. QED  BY <1>1, <1>2, <1>3, <1>4, GoOn, Zenon DEF Iret, Step

\* The other steps put new ones in front of the rest.
LEMMA GoOnWith ==
  ASSUME Inductive, NEW a, NEW b, At(a, b), NEW s, NEW d \in Abs, Then(s),
         Outline(ctx, s, d, b), ctx' = ctx, Matches(d)', a.f.mutex = "own" <=> d.f.mutex = "own",
         owner' = owner, Flags', panicked' = panicked
  PROVE  Inductive'
<1>1. Outline(ctx, s \o Tail(code[ctx]), d, Final(ctx))
  BY Compose, Zenon DEF At
<1>2. code' = [code EXCEPT ![ctx] = s \o Tail(code[ctx])]
  BY Zenon DEF Then
<1>3. owner' = ctx <=> d.f.mutex = "own"
  BY Zenon DEF At
<1>. QED  BY <1>1, <1>2, <1>3, Stay, Zenon

LEMMA ReadEflagsKeeps ==
  ASSUME Inductive, ReadEflags
  PROVE  Inductive'
<1>1. PICK a, b : At(a, b)
  BY HeadStep DEF ReadEflags, Step
<1>2. Matches(a) /\ Flags /\ a \in Abs /\ b \in Abs /\ a.on \in Levels
  BY <1>1 DEF At, Inductive, TypeOK, Abs, Descriptions
<1>3. a.on # "any" /\ b = Pushed(a)
  BY <1>1, Zenon DEF At, Fits, ReadEflags, Step
<1>. DEFINE x == Do("cli", IF_)
<1>4. "cli" \in Ops /\ IF_ \in BOOLEAN
  BY <1>2 DEF Ops, Flags
<1>5. x \in Steps /\ x.op = "cli" /\ x.arg = IF_
  BY <1>4, StepTypes, Zenon DEF Do
<1>6. a.on = Level(IF_)
  BY <1>2, <1>3, <1>4 DEF Matches, Is, Level, Levels
<1>7. Fits(ctx, a, x, b)
  <2>. HIDE DEF x
  <2>. QED  BY <1>3, <1>4, <1>5, <1>6 DEF Fits, Ops
<1>8. Outline(ctx, <<x>>, a, b)
  BY <1>2, <1>5, <1>7, Single
<1>9. Matches(a)' /\ Flags'
  BY <1>2, Zenon DEF ReadEflags, Matches, Flags
<1>. QED  BY <1>1, <1>2, <1>8, <1>9, GoOnWith, Zenon DEF ReadEflags

LEMMA ClearIFKeeps ==
  ASSUME Inductive, ClearIF
  PROVE  Inductive'
<1>1. PICK a, b : At(a, b)
  BY HeadStep DEF ClearIF, Step
<1>2. Matches(a) /\ Flags /\ a \in Abs /\ b \in Abs /\ a \in Descriptions
  BY <1>1, Zenon DEF At, Inductive, TypeOK, Abs
<1>3. Arg \in BOOLEAN /\ a.on = Level(Arg) /\ b = Pushed(a)
  BY <1>1, Zenon DEF At, Fits, ClearIF, Step, Arg
<1>. DEFINE x == Do("count", Arg)
            d == [a EXCEPT !.on = "off"]
<1>4. "count" \in Ops
  BY DEF Ops
<1>5. x \in Steps /\ x.op = "count" /\ x.arg = Arg
  BY <1>3, <1>4, StepTypes, Zenon DEF Do
<1>6. /\ d.on = "off" /\ d.ncli = a.ncli /\ d.int = a.int /\ d.held = a.held /\ d.f = a.f
      /\ d \in Abs
  BY <1>2 DEF Abs, Descriptions, Levels
<1>7. b = Pushed([d EXCEPT !.on = Level(Arg)])
  <2>1. [d EXCEPT !.on = Level(Arg)] = a
    BY <1>2, <1>3, Zenon DEF Descriptions
  <2>. QED  BY <1>3, <2>1
<1>8. Fits(ctx, d, x, b)
  <2>. HIDE DEF x, d
  <2>. QED  BY <1>3, <1>5, <1>6, <1>7 DEF Fits, Ops
<1>. HIDE DEF x, d
<1>9. Outline(ctx, <<x>>, d, b)
  BY <1>2, <1>5, <1>6, <1>8, Single
<1>10. Matches(d)' /\ Flags'
  <2>1. ~IF_' /\ IF_' \in BOOLEAN /\ UNCHANGED <<ncli, int_on, locked, state, owner>>
    BY Zenon DEF ClearIF
  <2>2. Flags'
    BY <1>2, <2>1, Zenon DEF Flags
  <2>3. Is(IF_', d.on)
    BY <1>6, <2>1 DEF Is
  <2>4. Is(int_on', d.int)
    BY <1>2, <1>6, <2>1, Zenon DEF Matches
  <2>. QED  BY <1>2, <1>6, <2>1, <2>2, <2>3, <2>4, Zenon DEF Matches
<1>. QED  BY <1>1, <1>2, <1>6, <1>9, <1>10, GoOnWith, Zenon DEF ClearIF, x

LEMMA WhileKeeps ==
  ASSUME Inductive, While
  PROVE  Inductive'
<1>1. PICK a, b : At(a, b)
  BY HeadStep DEF While, Step
<1>2. Matches(a) /\ Flags /\ a \in Abs /\ (owner = ctx <=> a.f.mutex = "own")
  BY <1>1, Zenon DEF At, Inductive, TypeOK
<1>3. PICK m \in {"own", "done"} :
        /\ ctx \in Procs /\ Arg \in {"dev", "ptable"} /\ b = a
        /\ a = L(1, "on", {Arg}, F(ctx, m, "task"))
  BY <1>1, Zenon DEF At, Fits, While, Step, Arg
<1>4. Matches(a)' /\ Flags'
  BY <1>2, Zenon DEF While, Matches, Flags
<1>5. CASE Then(<<>>)
  BY <1>1, <1>2, <1>3, <1>4, <1>5, GoOn, Zenon DEF While, Step
<1>6. CASE Then(sleep(Arg) \o <<Do("while", Arg)>>)
  <2>. DEFINE x == Do("while", Arg)
  <2>1. /\ Arg \in Locks /\ m \in {"busy", "own", "done"} /\ Settle(m) = m /\ Arg # "mutex"
        /\ "while" \in Ops
    BY <1>3 DEF Locks, Settle, Ops
  <2>2. x \in Steps /\ x.op = "while" /\ x.arg = Arg
    BY <2>1, StepTypes, Zenon DEF Do
  <2>3. Fits(ctx, a, x, a)
    <3>. HIDE DEF x
    <3>. QED  BY <1>3, <2>2 DEF Fits, Ops
  <2>4. Outline(ctx, <<x>>, a, a)
    BY <1>2, <2>2, <2>3, Single, Zenon
  <2>5. Outline(ctx, sleep(Arg), a, a)
    <3>1. Outline(ctx, sleep(Arg), L(1, "on", {Arg}, F(ctx, m, "task")),
                                   L(1, "on", {Arg}, F(ctx, Settle(m), "task")))
      BY <1>3, <2>1, Sleep
    <3>. QED  BY <1>3, <2>1, <3>1
  <2>. HIDE DEF x
  <2>6. Outline(ctx, sleep(Arg) \o <<x>>, a, b)
    BY <1>3, <2>4, <2>5, Compose
  <2>. QED  BY <1>1, <1>2, <1>4, <1>6, <2>6, GoOnWith, Zenon DEF While, x
<1>. QED  BY <1>5, <1>6 DEF While

LEMMA WhileLockedKeeps ==
  ASSUME Inductive, WhileLocked
  PROVE  Inductive'
<1>1. PICK a, b : At(a, b)
  BY HeadStep, Zenon DEF WhileLocked, Step
<1>2. Matches(a) /\ Flags /\ a \in Abs /\ b \in Abs /\ (owner = ctx <=> a.f.mutex = "own")
  BY <1>1, Zenon DEF At, Inductive, TypeOK
<1>3. PICK d : d = L(1, "on", {"mutex"}, F(ctx, "busy", "task"))
  OBVIOUS
<1>4. /\ ctx \in Procs /\ a = L(1, "on", {"mutex"}, F(ctx, "want", "task"))
      /\ b = L(1, "on", {"mutex"}, F(ctx, "free", "task"))
  BY <1>1, Zenon DEF At, Fits, WhileLocked, Step
<1>5. /\ b.on = a.on /\ b.ncli = a.ncli /\ b.held = a.held /\ b.int = a.int /\ b.f.run = a.f.run
      /\ d.on = a.on /\ d.ncli = a.ncli /\ d.held = a.held /\ d.int = a.int /\ d.f.run = a.f.run
      /\ a.f.mutex = "want" /\ b.f.mutex = "free" /\ d.f.mutex = "busy"
  BY <1>3, <1>4 DEF L, F
<1>6. Flags'
  BY <1>2, Zenon DEF WhileLocked, Flags
<1>7. CASE owner = Nobody
  <2>1. Then(<<>>)
    BY <1>7, Zenon DEF WhileLocked
  <2>2. Matches(b)'
    BY <1>2, <1>5, <1>7, Zenon DEF WhileLocked, Matches
  <2>. QED  BY <1>1, <1>2, <1>5, <1>6, <2>1, <2>2, GoOn, Zenon DEF WhileLocked, Step
<1>8. CASE owner # Nobody
  <2>. DEFINE x == Do("while locked", "mutex")
  <2>1. Then(sleep("mutex") \o <<x>>)
    BY <1>8, Zenon DEF WhileLocked
  <2>2. Matches(d)'
    BY <1>2, <1>5, <1>8, Zenon DEF WhileLocked, Matches
  <2>3. /\ "mutex" \in Locks /\ "busy" \in {"busy", "own", "done"} /\ Settle("busy") = "want"
        /\ "while locked" \in Ops /\ "busy" \in Stages
    BY DEF Locks, Settle, Ops, Stages
  <2>4. x \in Steps /\ x.op = "while locked"
    BY <2>3, StepTypes, Zenon DEF Do
  <2>5. Fits(ctx, a, x, b)
    <3>. HIDE DEF x
    <3>. QED  BY <1>4, <2>4, Zenon DEF Fits, Ops
  <2>6. Outline(ctx, <<x>>, a, b)
    BY <1>2, <2>4, <2>5, Single, Zenon
  <2>7. Outline(ctx, sleep("mutex"), d, a)
    <3>1. Outline(ctx, sleep("mutex"), d, L(1, "on", {"mutex"}, F(ctx, Settle("busy"), "task")))
      BY <1>3, <1>4, <2>3, Sleep, Zenon
    <3>. QED  BY <1>4, <2>3, <3>1, Zenon
  <2>8. d \in Abs
    BY <1>3, <1>4, <2>3, InCall, Zenon
  <2>. HIDE DEF x
  <2>9. Outline(ctx, sleep("mutex") \o <<x>>, d, b)
    BY <2>6, <2>7, Compose
  <2>10. a.f.mutex = "own" <=> d.f.mutex = "own"
    BY <1>5
  <2>. QED  BY <1>1, <1>6, <2>1, <2>2, <2>8, <2>9, <2>10, GoOnWith, Zenon DEF WhileLocked, x
<1>. QED  BY <1>7, <1>8

LEMMA AgainKeeps ==
  ASSUME Inductive, Again
  PROVE  Inductive'
<1>1. PICK a, b : At(a, b)
  BY HeadStep DEF Again, Step
<1>2. Matches(a) /\ Flags /\ a \in Abs
  BY <1>1, Zenon DEF At, Inductive, TypeOK
<1>3. ctx = Scheduler /\ a = Final(ctx) /\ b = a
  BY <1>1, Zenon DEF At, Fits, Again, Step
<1>4. Outline(ctx, pass, a, b)
  BY <1>3, Pass
<1>5. Matches(a)' /\ Flags'
  BY <1>2 DEF Again, Matches, Flags
<1>. QED  BY <1>1, <1>2, <1>4, <1>5, GoOnWith, Zenon DEF Again

LEMMA ScanFindsKeeps ==
  ASSUME Inductive, ScanFinds
  PROVE  Inductive'
<1>1. PICK a, b : At(a, b)
  BY HeadStep DEF ScanFinds, Step
<1>2. Matches(a) /\ Flags
  BY <1>1, Zenon DEF At, Inductive, TypeOK
<1>3. PICK k \in Levels : /\ ctx = Scheduler /\ b = Switched(Scheduler, "any", "done", "task")
                          /\ a = Switched(Scheduler, k, "done", "task")
  BY <1>1, Zenon DEF At, Fits, ScanFinds, Step
<1>4. PICK p \in Procs : /\ state[p] = "READY" /\ state' = [state EXCEPT ![p] = "RUNNING"]
                         /\ Then(uvm_switch \o <<Do("enter", p), Do("scan", "none")>>)
  BY Zenon DEF ScanFinds
<1>. DEFINE d == L(1, "any", {"ptable"}, F(p, "done", "task"))
<1>5. d \in Abs /\ Outline(ctx, uvm_switch \o <<Do("enter", p), Do("scan", "none")>>, d, b)
  BY <1>3, Found
<1>6. /\ d.on = a.on /\ d.ncli = a.ncli /\ d.held = a.held /\ d.int = "any" /\ d.f.run = p
      /\ a.f.run = Nobody /\ a.f.mutex = "done" /\ d.f.mutex = "done"
  <2>1. a = L(1, k, {"ptable"}, F(Nobody, "done", "task")) /\ 1 # 0
    BY <1>3 DEF Switched
  <2>2. d.on = "off" /\ d.ncli = 1 /\ d.held = {"ptable"} /\ d.int = "any"
    BY DEF L
  <2>3. a.on = "off" /\ a.ncli = 1 /\ a.held = {"ptable"}
    BY <2>1 DEF L
  <2>4. d.f = F(p, "done", "task") /\ a.f = F(Nobody, "done", "task")
    BY <2>1 DEF L
  <2>. HIDE DEF d
  <2>. QED  BY <2>2, <2>3, <2>4 DEF F
<1>. HIDE DEF d
<1>7. \A q \in Procs : state'[q] = IF q = p THEN "RUNNING" ELSE state[q]
  BY <1>2, <1>4 DEF Flags
<1>8. \A q \in Procs : state'[q] = "RUNNING" <=> d.f.run = q
  BY <1>2, <1>6, <1>7, Constants, Zenon DEF Matches
<1>9. owner # Nobody \/ \A q \in Procs : state'[q] # "MUTEX"
  BY <1>2, <1>6, <1>7, Zenon DEF Matches
<1>10. Matches(d)'
  BY <1>2, <1>6, <1>8, <1>9, Zenon DEF ScanFinds, Matches, Is
<1>11. Flags'
  BY <1>2, <1>4 DEF ScanFinds, Flags
<1>. QED  BY <1>1, <1>4, <1>5, <1>6, <1>10, <1>11, GoOnWith, Zenon DEF ScanFinds

\* A process in user mode.
LEMMA UserMode ==
  ASSUME Inductive, InUser
  PROVE  /\ ctx \in Procs /\ Final(ctx) \in Abs /\ Matches(Final(ctx)) /\ owner # ctx
         /\ Final(ctx) = L(0, "on", {}, F(ctx, "done", "task"))
<1>1. PICK a \in Abs : Matches(a) /\ Goes(ctx, a)
  BY DEF Inductive
<1>2. a = Final(ctx)
  BY <1>1, EmptyOutline DEF Goes, InUser
<1>3. ctx \in Procs /\ Final(ctx) = L(0, "on", {}, F(ctx, "done", "task"))
  BY Constants DEF InUser, Final
<1>4. a.f.mutex = "done"
  BY <1>2, <1>3 DEF L, F
<1>. QED  BY <1>1, <1>2, <1>3, <1>4, Zenon DEF Goes

LEMMA SyscallKeeps ==
  ASSUME Inductive, Syscall
  PROVE  Inductive'
<1>1. /\ ctx \in Procs /\ Matches(Final(ctx)) /\ owner # ctx
      /\ Final(ctx) = L(0, "on", {}, F(ctx, "done", "task"))
  BY UserMode DEF Syscall
<1>2. PICK k \in Calls : code' = [code EXCEPT ![ctx] =
        this_proc \o syscall(k) \o this_proc \o yield \o <<Do("iret", "user")>>]
  BY Zenon DEF Syscall
<1>3. PICK s, d :
        /\ code' = [code EXCEPT ![ctx] = s]
        /\ s = this_proc \o syscall(k) \o this_proc \o yield \o <<Do("iret", "user")>>
        /\ d = L(0, "on", {}, F(ctx, Enters(k), "task"))
  BY <1>2, Zenon
<1>4. Outline(ctx, s, d, Final(ctx))
  BY <1>1, <1>3, Trap
<1>5. Enters(k) \in Stages /\ Enters(k) \in Settled
  BY DEF Enters, Stages, Settled
<1>6. d \in Abs
  BY <1>1, <1>3, <1>5, InCall, FineIsAbs
<1>7. PICK a : a = Final(ctx)
  OBVIOUS
<1>8. /\ d.on = a.on /\ d.ncli = a.ncli /\ d.held = a.held /\ d.int = a.int /\ d.f.run = a.f.run
      /\ a.f.mutex = "done" /\ d.f.mutex \in {"want", "done"}
  <2>1. a = L(0, "on", {}, F(ctx, "done", "task"))
    BY <1>1, <1>7, Constants DEF Final
  <2>2. Enters(k) \in {"want", "done"}
    BY DEF Enters
  <2>3. /\ d.on = "on" /\ d.ncli = 0 /\ d.held = {} /\ d.int = "any"
        /\ d.f = F(ctx, Enters(k), "task")
    BY <1>3 DEF L
  <2>4. /\ a.on = "on" /\ a.ncli = 0 /\ a.held = {} /\ a.int = "any"
        /\ a.f = F(ctx, "done", "task")
    BY <2>1 DEF L
  <2>. QED  BY <2>2, <2>3, <2>4 DEF F
<1>9. Matches(d)'
  BY <1>1, <1>7, <1>8, Zenon DEF Syscall, Matches
<1>10. Flags'
  BY DEF Syscall, Flags, Inductive, TypeOK
<1>. QED  BY <1>1, <1>3, <1>4, <1>6, <1>8, <1>9, <1>10, Stay, Zenon DEF Syscall

LEMMA InterruptKeeps ==
  ASSUME Inductive, Interrupt
  PROVE  Inductive'
<1>1. PICK a \in Abs : Matches(a) /\ Goes(ctx, a)
  BY DEF Inductive
<1>2. a.on # "off" /\ Open(a)
  BY <1>1, Zenon DEF Interrupt, Matches, Is, Abs
<1>3. PICK user \in BOOLEAN : user = InUser
  BY Zenon DEF InUser
<1>4. PICK i \in Irqs : code' = [code EXCEPT ![ctx] =
        handler(i) \o this_proc \o (IF user THEN yield ELSE <<>>) \o <<Do("iret", "gate")>> \o @]
  BY <1>3, Zenon DEF Interrupt
<1>5. PICK s :
        /\ s = handler(i) \o this_proc \o (IF user THEN yield ELSE <<>>) \o <<Do("iret", "gate")>>
        /\ code' = [code EXCEPT ![ctx] = s \o code[ctx]]
  BY <1>4, Zenon
<1>6. user => ctx \in Procs /\ a.f = F(ctx, "done", "task")
  <2>1. InUser => code[ctx] = <<>>
    BY DEF InUser
  <2>2. InUser => a = Final(ctx)
    BY <1>1, <2>1, EmptyOutline DEF Goes
  <2>. QED  BY <1>3, <2>2, UserMode DEF L
<1>. DEFINE d == L(0, "off", {}, F(a.f.run, a.f.mutex, "handler"))
<1>7. d \in Abs /\ Outline(ctx, s, d, a)
  BY <1>2, <1>5, <1>6, Gate, Zenon
<1>8. /\ d.on = "off" /\ d.ncli = 0 /\ d.held = {} /\ d.int = "any" /\ d.f.run = a.f.run
      /\ d.f.mutex = a.f.mutex
  BY DEF L, F
<1>. HIDE DEF d
<1>9. Outline(ctx, s \o code[ctx], d, Final(ctx))
  BY <1>1, <1>7, Compose, Zenon DEF Goes
<1>10. Matches(d)'
  BY <1>1, <1>2, <1>8, Zenon DEF Interrupt, Matches, Is, Open
<1>11. Flags'
  BY Zenon DEF Interrupt, Flags, Inductive, TypeOK
<1>12. owner' = ctx <=> d.f.mutex = "own"
  BY <1>1, <1>8, Zenon DEF Goes, Interrupt
<1>. QED  BY <1>5, <1>7, <1>9, <1>10, <1>11, <1>12, Stay, Zenon DEF Interrupt

\* A context that is not concerned waits as before.
LEMMA StillWaits ==
  ASSUME NEW c, Waits(c), code'[c] = code[c], owner' = owner
  PROVE  Waits(c)'
<1>1. PICK m \in Settled, at \in {"task", "handler"} : Goes(c, Switched(c, "any", m, at))
  BY DEF Waits
<1>2. Goes(c, Switched(c, "any", m, at))'
  BY <1>1, Zenon DEF Goes
<1>. QED  BY <1>2 DEF Waits

\* sched: the process waits for the scheduler, which goes on.
LEMMA SwtchKeeps ==
  ASSUME Inductive, Swtch
  PROVE  Inductive'
<1>1. PICK a, b : At(a, b)
  BY HeadStep, Zenon DEF Swtch, Step
<1>2. /\ Matches(a) /\ Flags /\ b \in Abs /\ (owner = ctx <=> a.f.mutex = "own")
      /\ Outline(ctx, Tail(code[ctx]), b, Final(ctx))
  BY <1>1, Zenon DEF At, Inductive, TypeOK
<1>3. PICK p : p = ctx
  OBVIOUS
<1>4. PICK k \in Levels, m \in {"busy", "own", "done"}, at \in {"task", "handler"} :
        /\ p \in Procs /\ a = L(1, k, {"ptable"}, F(Nobody, m, at))
        /\ b = Switched(p, k, Settle(m), at)
  <2>1. Switches(p, a, b)
    BY <1>1, <1>3, Zenon DEF At, Fits, Swtch, Step
  <2>. QED  BY <2>1 DEF Switches
<1>5. /\ a.on = "off" /\ a.ncli = 1 /\ a.int = k /\ a.held = {"ptable"}
      /\ a.f.run = Nobody /\ a.f.mutex = m
  BY <1>4 DEF L, F
<1>6. ~IF_ /\ ncli = 1 /\ state[p] # "RUNNING"
  <2>1. Is(IF_, a.on) /\ ncli = a.ncli /\ (state[p] = "RUNNING" <=> a.f.run = p)
    BY <1>2, <1>4, Zenon DEF Matches
  <2>2. p # Nobody
    BY <1>4, Constants
  <2>. QED  BY <1>5, <2>1, <2>2, Zenon DEF Is
<1>. DEFINE x == Do("restore", int_on)
            s == <<x>> \o Tail(code[p])
            d == Switched(p, "any", Settle(m), at)
<1>7. code' = [code EXCEPT ![p] = s] /\ ctx' = Scheduler /\ panicked' = panicked
  BY <1>3, <1>6 DEF Swtch, Then
<1>8. /\ Settle(m) \in Settled /\ Settle(m) \in Stages /\ (m = "own" <=> Settle(m) = "own")
      /\ "any" \in Levels /\ p \in Contexts /\ Scheduler \in Contexts /\ p # Scheduler
      /\ "restore" \in Ops /\ int_on \in BOOLEAN
  BY <1>2, <1>4, Constants, Zenon DEF Settle, Settled, Stages, Levels, Contexts, Ops, Flags
<1>9. d \in Abs
  BY <1>8, SwitchedIsAbs
<1>10. x \in Steps /\ x.op = "restore" /\ x.arg = int_on
  BY <1>8, StepTypes, Zenon DEF Do
<1>11. Is(int_on, k)
  BY <1>2, <1>5, Zenon DEF Matches
<1>12. Fits(p, d, x, b)
  <2>1. Restores(p, d, int_on, b)
    BY <1>4, <1>8, <1>11 DEF Restores
  <2>. HIDE DEF x, d
  <2>. QED  BY <1>10, <2>1 DEF Fits, Ops
<1>. HIDE DEF x
<1>13. Outline(p, <<x>>, d, b)
  BY <1>2, <1>9, <1>10, <1>12, Single, Zenon
<1>14. Outline(p, s, d, Final(p))
  BY <1>2, <1>3, <1>13, Compose
<1>15. s \in Seq(Steps)
  BY <1>14, OutlineSeq, Zenon
<1>. HIDE DEF s
<1>16. /\ code' \in [Contexts -> Seq(Steps)] /\ code'[p] = s
       /\ \A c \in Contexts \ {p} : code'[c] = code[c]
  BY <1>7, <1>8, <1>15 DEF Inductive, TypeOK
<1>17. Flags' /\ owner' = owner
  BY <1>2, Zenon DEF Swtch, Flags
<1>18. TypeOK' /\ ~panicked'
  BY <1>7, <1>8, <1>16, <1>17 DEF TypeOK, Inductive
<1>19. Waits(p)'
  <2>1. d.f.mutex = Settle(m)
    BY DEF Switched, L, F
  <2>2. owner' = p <=> d.f.mutex = "own"
    BY <1>2, <1>3, <1>5, <1>8, <1>17, <2>1, Zenon
  <2>3. Goes(p, d)'
    BY <1>9, <1>14, <1>16, <2>2, Zenon DEF Goes
  <2>. QED  BY <1>8, <2>3 DEF Waits
<1>20. ASSUME NEW c \in Contexts \ {p} PROVE Waits(c)' \/ c = Scheduler
  BY <1>3, <1>16, <1>17, StillWaits DEF Inductive
<1>21. \E e \in Abs : Matches(e)' /\ Goes(Scheduler, e)'
  <2>1. PICK n \in Settled, g \in {"task", "handler"} :
          Goes(Scheduler, Switched(Scheduler, "any", n, g))
    BY <1>3, <1>8 DEF Inductive, Waits
  <2>2. PICK e : e = Switched(Scheduler, "any", n, g)
    OBVIOUS
  <2>3. /\ e.on = "off" /\ e.ncli = 1 /\ e.int = "any" /\ e.held = {"ptable"}
        /\ e.f.run = Nobody /\ e.f.mutex = n
    BY <2>2 DEF Switched, L, F
  <2>4. Matches(e)'
    <3>1. n # "free" /\ n # "busy" /\ a.f.mutex # "waking"
      BY <1>4, <1>5 DEF Settled
    <3>2. IF_' = IF_ /\ ncli' = ncli /\ locked' = locked /\ state' = state /\ owner' = owner
      BY DEF Swtch
    <3>3. Is(IF_', e.on) /\ ncli' = e.ncli /\ Is(int_on', e.int)
      BY <1>2, <1>5, <2>3, <3>2, Zenon DEF Matches, Is
    <3>4. e.held = a.held /\ e.f.run = a.f.run
      BY <1>5, <2>3
    <3>5. /\ \A l \in Locks : locked'[l] <=> l \in e.held
          /\ \A q \in Procs : state'[q] = "RUNNING" <=> e.f.run = q
      BY <1>2, <3>2, <3>4, Zenon DEF Matches
    <3>6. owner' # Nobody \/ \A q \in Procs : state'[q] # "MUTEX"
      BY <1>2, <3>1, <3>2, Zenon DEF Matches
    <3>7. e.f.mutex # "free" /\ e.f.mutex # "busy"
      BY <2>3, <3>1
    <3>. QED  BY <3>3, <3>5, <3>6, <3>7, Zenon DEF Matches
  <2>5. e \in Abs /\ Goes(Scheduler, e)'
    BY <1>8, <1>16, <1>17, <2>1, <2>2, Zenon DEF Goes
  <2>. QED  BY <2>4, <2>5
<1>22. \A c \in Contexts \ {Scheduler} : Waits(c)'
  BY <1>19, <1>20
<1>. QED  BY <1>7, <1>18, <1>21, <1>22 DEF Inductive

\* The scheduler's swtch: the scheduler waits, and the process goes on.
LEMMA EnterKeeps ==
  ASSUME Inductive, Enter
  PROVE  Inductive'
<1>1. PICK a, b : At(a, b)
  BY HeadStep, Zenon DEF Enter, Step
<1>2. /\ Matches(a) /\ Flags /\ b \in Abs
      /\ Outline(ctx, Tail(code[ctx]), b, Final(ctx))
  BY <1>1, Zenon DEF At, Inductive, TypeOK
<1>3. PICK p : p = Arg
  OBVIOUS
<1>4. /\ ctx = Scheduler /\ p \in Procs /\ a = Switched(p, "any", "done", "task")
      /\ b = Switched(Scheduler, "any", "done", "task")
  BY <1>1, <1>3, Zenon DEF At, Fits, Enter, Step, Arg
<1>5. /\ p # Scheduler /\ p \in Contexts /\ Scheduler \in Contexts
      /\ "done" \in Settled /\ "task" \in {"task", "handler"}
  BY <1>4, Constants DEF Contexts, Settled
<1>6. /\ a.on = "off" /\ a.ncli = 1 /\ a.int = "any" /\ a.held = {"ptable"}
      /\ a.f.run = p /\ a.f.mutex = "done" /\ b.f.mutex = "done"
  BY <1>4, <1>5 DEF Switched, L, F
<1>. DEFINE s == Tail(code[Scheduler])
<1>7. code[Scheduler] \in Seq(Steps) /\ code[Scheduler] # <<>>
  BY <1>4, <1>5 DEF Inductive, TypeOK, Enter, Step
<1>8. s \in Seq(Steps) /\ <<>> \o s = s
  BY <1>7
<1>9. code' = [code EXCEPT ![Scheduler] = s] /\ ctx' = p /\ panicked' = panicked
  BY <1>3, <1>4, <1>8 DEF Enter, Then
<1>. HIDE DEF s
<1>10. /\ code' \in [Contexts -> Seq(Steps)] /\ code'[Scheduler] = s
       /\ \A c \in Contexts \ {Scheduler} : code'[c] = code[c]
  BY <1>5, <1>8, <1>9 DEF Inductive, TypeOK
<1>11. Flags' /\ owner' = owner
  BY <1>2 DEF Enter, Flags
<1>12. TypeOK' /\ ~panicked'
  BY <1>5, <1>9, <1>10, <1>11 DEF TypeOK, Inductive
<1>13. Waits(Scheduler)'
  <2>1. owner # Scheduler
    BY <1>2, Constants DEF Flags
  <2>2. Goes(Scheduler, b)'
    BY <1>2, <1>4, <1>6, <1>10, <1>11, <2>1, Zenon DEF Goes, s
  <2>. QED  BY <1>4, <1>5, <2>2 DEF Waits
<1>14. \A c \in Contexts \ {Scheduler} : Waits(c)'
  BY <1>4, <1>10, <1>11, StillWaits, Zenon DEF Inductive
<1>15. \E e \in Abs : Matches(e)' /\ Goes(p, e)'
  <2>1. PICK n \in Settled, g \in {"task", "handler"} : Goes(p, Switched(p, "any", n, g))
    BY <1>4, <1>5 DEF Inductive, Waits
  <2>2. PICK e : e = Switched(p, "any", n, g)
    OBVIOUS
  <2>3. /\ e.on = "off" /\ e.ncli = 1 /\ e.int = "any" /\ e.held = {"ptable"}
        /\ e.f.run = p /\ e.f.mutex = n
    BY <1>5, <2>2 DEF Switched, L, F
  <2>4. Matches(e)'
    <3>1. n # "free" /\ n # "busy" /\ a.f.mutex # "waking"
      BY <1>6 DEF Settled
    <3>2. IF_' = IF_ /\ ncli' = ncli /\ locked' = locked /\ state' = state /\ owner' = owner
      BY DEF Enter
    <3>3. Is(IF_', e.on) /\ ncli' = e.ncli /\ Is(int_on', e.int)
      BY <1>2, <1>6, <2>3, <3>2 DEF Matches, Is
    <3>4. e.held = a.held /\ e.f.run = a.f.run
      BY <1>6, <2>3
    <3>5. /\ \A l \in Locks : locked'[l] <=> l \in e.held
          /\ \A q \in Procs : state'[q] = "RUNNING" <=> e.f.run = q
      BY <1>2, <3>2, <3>4, Zenon DEF Matches
    <3>6. owner' # Nobody \/ \A q \in Procs : state'[q] # "MUTEX"
      BY <1>2, <3>1, <3>2, Zenon DEF Matches
    <3>7. e.f.mutex # "free" /\ e.f.mutex # "busy"
      BY <2>3, <3>1
    <3>. QED  BY <3>3, <3>5, <3>6, <3>7, Zenon DEF Matches
  <2>5. e \in Abs /\ Goes(p, e)'
    BY <1>5, <1>10, <1>11, <2>1, <2>2, Zenon DEF Goes
  <2>. QED  BY <2>4, <2>5
<1>. QED  BY <1>9, <1>12, <1>13, <1>14, <1>15 DEF Inductive

\* Every step of the kernel, system call or interrupt keeps the outlines.
LEMMA Keeps == Inductive /\ [Next]_vars => Inductive'
<1>. SUFFICES ASSUME Inductive, [Next]_vars PROVE Inductive'
  OBVIOUS
<1>1. CASE KernelStep
  <2>. USE <1>1 DEF KernelStep
  <2>1. CASE ReadEflags \/ ClearIF \/ Count \/ Decrement \/ Reopen
    BY <2>1, ReadEflagsKeeps, ClearIFKeeps, CountKeeps, DecrementKeeps, ReopenKeeps
  <2>2. CASE AssertHolding \/ Acquire \/ Release \/ Swtch \/ Restore
    BY <2>2, AssertKeeps, AcquireKeeps, ReleaseKeeps, SwtchKeeps, RestoreKeeps
  <2>3. CASE SetState \/ Wake \/ While \/ WhileLocked \/ Own
    BY <2>3, SetKeeps, WakeKeeps, WhileKeeps, WhileLockedKeeps, OwnKeeps
  <2>4. CASE Sti \/ ScanFinds \/ Enter \/ ScanEnds \/ Again \/ Iret
    BY <2>4, StiKeeps, ScanFindsKeeps, EnterKeeps, ScanEndsKeeps, AgainKeeps, IretKeeps
  <2>. QED  BY <2>1, <2>2, <2>3, <2>4
<1>2. CASE Syscall
  BY <1>2, SyscallKeeps
<1>3. CASE Interrupt
  BY <1>3, InterruptKeeps
<1>4. CASE UNCHANGED vars
  <2>1. UNCHANGED <<IF_, ncli, int_on, locked, ctx, code, state, owner, panicked>>
    BY <1>4 DEF vars
  <2>2. TypeOK' /\ ~panicked'
    BY <2>1, Zenon DEF Inductive, TypeOK, Flags
  <2>3. ASSUME NEW a PROVE Matches(a) => Matches(a)'
    BY <2>1, Zenon DEF Matches
  <2>4. ASSUME NEW c, NEW a PROVE Goes(c, a) => Goes(c, a)'
    BY <2>1, Zenon DEF Goes
  <2>5. PICK a \in Abs : Matches(a) /\ Goes(ctx, a)
    BY Zenon DEF Inductive
  <2>6. Matches(a)' /\ Goes(ctx, a)'
    <3>1. Matches(a)'
      BY <2>3, <2>5, Zenon
    <3>2. Goes(ctx, a)'
      BY <2>1, <2>5 DEF Goes
    <3>. QED  BY <3>1, <3>2
  <2>7. ASSUME NEW c \in Contexts \ {ctx} PROVE Waits(c)'
    <3>1. PICK m \in Settled, at \in {"task", "handler"} : Goes(c, Switched(c, "any", m, at))
      BY <2>1, Zenon DEF Inductive, Waits
    <3>2. Goes(c, Switched(c, "any", m, at))'
      BY <2>4, <3>1, Zenon
    <3>. QED  BY <3>2, Zenon DEF Waits
  <2>8. \A c \in Contexts \ {ctx'} : Waits(c)'
    BY <2>1, <2>7
  <2>9. \E d \in Abs : Matches(d)' /\ Goes(ctx, d)'
    BY <2>5, <2>6
  <2>. QED  BY <2>2, <2>8, <2>9, Zenon DEF Inductive
<1>. QED  BY <1>1, <1>2, <1>3, <1>4 DEF Next

----------------------------------------------------------------------------
(* What the outlines imply *)

\* What one step does to the frame: only the return through the gate leaves a
\* handler, only the step own makes an owner, only the wakeup ends the stage in which
\* it is owed, and after it nothing is left of the mutex.
Tame(c, a, x, b) ==
  /\ b.f.at = "handler" => a.f.at = "handler"
  /\ x.op = "iret" /\ x.arg = "gate" => a.f.at = "handler"
  /\ b.f.mutex = "own" => a.f.mutex = "own" \/ (x.op = "own" /\ x.arg = "none")
  /\ x.op = "disown" => a.f.mutex = "own"
  /\ a.f.mutex = "waking" =>
       b.f.mutex = "waking" \/ (x.op = "wake" /\ x.arg = "mutex" /\ c \in Procs)
  /\ a.f.mutex \in {"waking", "done"} => b.f.mutex \in {"waking", "done"}

LEMMA FrameStep ==
  ASSUME NEW c, NEW a \in Abs, NEW b \in Abs, NEW x, Fits(c, a, x, b)
  PROVE  Tame(c, a, x, b)
<1>1. x.op \in Ops
  BY Zenon DEF Fits
<1>. DEFINE Same == b.f.at = a.f.at /\ b.f.mutex = a.f.mutex
            Done == a.f.mutex = "done" /\ b.f.mutex = "done" /\ b.f.at = "task"
<1>2. CASE x.op = "readeflags"
  <2>1. b = Pushed(a)
    BY <1>2, Zenon DEF Fits
  <2>2. Same
    BY <2>1 DEF Pushed
  <2>. QED  BY <1>2, <2>2, Zenon DEF Tame
<1>3. CASE x.op = "cli"
  <2>1. b = Pushed(a)
    BY <1>3, Zenon DEF Fits
  <2>2. Same
    BY <2>1 DEF Pushed
  <2>. QED  BY <1>3, <2>2 DEF Tame
<1>4. CASE x.op = "count"
  <2>1. b = Pushed([a EXCEPT !.on = Level(x.arg)])
    BY <1>4, Zenon DEF Fits
  <2>2. Same
    BY <2>1 DEF Pushed, Abs, Descriptions
  <2>. QED  BY <1>4, <2>2 DEF Tame
<1>5. CASE x.op = "decrement"
  <2>1. b = [a EXCEPT !.ncli = @ - 1]
    BY <1>5, Zenon DEF Fits
  <2>2. Same
    BY <2>1 DEF Abs, Descriptions
  <2>. QED  BY <1>5, <2>2 DEF Tame
<1>6. CASE x.op = "reopen"
  <2>1. b = IF a.ncli = 0 THEN L(0, a.int, a.held, a.f) ELSE a
    BY <1>6, Zenon DEF Fits
  <2>2. Same
    BY <2>1 DEF L
  <2>. QED  BY <1>6, <2>2 DEF Tame
<1>7. CASE x.op = "acquire"
  <2>1. b = [a EXCEPT !.held = @ \cup {x.arg}]
    BY <1>7, Zenon DEF Fits
  <2>2. Same
    BY <2>1 DEF Abs, Descriptions
  <2>. QED  BY <1>7, <2>2 DEF Tame
<1>8. CASE x.op = "release"
  <2>1. b = [a EXCEPT !.held = @ \ {x.arg}]
    BY <1>8, Zenon DEF Fits
  <2>2. Same
    BY <2>1 DEF Abs, Descriptions
  <2>. QED  BY <1>8, <2>2 DEF Tame
<1>9. CASE x.op = "assert held"
  <2>1. b = a
    BY <1>9, Zenon DEF Fits
  <2>2. Same
    BY <2>1
  <2>. QED  BY <1>9, <2>2, Zenon DEF Tame
<1>10. CASE x.op = "assert free"
  <2>1. b = a
    BY <1>10, Zenon DEF Fits
  <2>2. Same
    BY <2>1
  <2>. QED  BY <1>10, <2>2, Zenon DEF Tame
<1>11. CASE x.op = "while"
  <2>1. b = a
    BY <1>11, Zenon DEF Fits
  <2>2. Same
    BY <2>1
  <2>. QED  BY <1>11, <2>2 DEF Tame
<1>12. CASE x.op = "again"
  <2>1. b = a
    BY <1>12, Zenon DEF Fits
  <2>2. Same
    BY <2>1
  <2>. QED  BY <1>12, <2>2 DEF Tame
<1>13. CASE x.op = "set"
  <2>1. Sets(c, a, x.arg, b)
    BY <1>13, Zenon DEF Fits
  <2>2. Same
    <3>1. PICK k \in Levels, m \in {"busy", "own", "done"}, at \in {"task", "handler"} :
            a = L(1, k, {"ptable"}, F(c, m, at)) /\ b = L(1, k, {"ptable"}, F(Nobody, m, at))
      BY <2>1 DEF Sets
    <3>2. a.f = F(c, m, at)
      BY <3>1 DEF L
    <3>3. b.f = F(Nobody, m, at)
      BY <3>1 DEF L
    <3>4. a.f.at = at /\ a.f.mutex = m
      BY <3>2 DEF F
    <3>5. b.f.at = at /\ b.f.mutex = m
      BY <3>3 DEF F
    <3>. QED  BY <3>4, <3>5, Zenon
  <2>. QED  BY <1>13, <2>2 DEF Tame
<1>14. CASE x.op = "restore"
  <2>1. Restores(c, a, x.arg, b)
    BY <1>14, Zenon DEF Fits
  <2>2. Same
    <3>1. PICK k, m, at, r : /\ a = L(1, "any", {"ptable"}, F(r, m, at))
                             /\ b = L(1, k, {"ptable"}, F(r, m, at))
      BY <2>1, Zenon DEF Restores, Switched
    <3>2. a.f = F(r, m, at)
      BY <3>1 DEF L
    <3>3. b.f = F(r, m, at)
      BY <3>1 DEF L
    <3>. QED  BY <3>2, <3>3, Zenon
  <2>. QED  BY <1>14, <2>2, Zenon DEF Tame
<1>15. CASE x.op = "sti"
  <2>1. a = Final(c) /\ b = L(0, "on", {}, F(Nobody, "done", "task"))
    BY <1>15, Zenon DEF Fits
  <2>2. Done
    BY <2>1, Zenon DEF Final, L, F
  <2>. QED  BY <1>15, <2>2 DEF Tame
<1>16. CASE x.op = "scan"
  <2>1. b = Switched(c, "any", "done", "task")
    BY <1>16, Zenon DEF Fits
  <2>2. PICK k \in Levels : a = Switched(c, k, "done", "task")
    BY <1>16, Zenon DEF Fits
  <2>3. b.f.mutex = "done" /\ b.f.at = "task"
    BY <2>1 DEF Switched, L, F
  <2>4. a.f.mutex = "done"
    BY <2>2 DEF Switched, L, F
  <2>5. Done
    BY <2>3, <2>4, Zenon
  <2>. QED  BY <1>16, <2>5, Zenon DEF Tame
<1>17. CASE x.op = "enter"
  <2>1. /\ a = Switched(x.arg, "any", "done", "task")
        /\ b = Switched(c, "any", "done", "task")
    BY <1>17, Zenon DEF Fits
  <2>2. Done
    <3>1. b.f.mutex = "done" /\ b.f.at = "task"
      BY <2>1 DEF Switched, L, F
    <3>2. a.f.mutex = "done"
      BY <2>1 DEF Switched, L, F
    <3>. QED  BY <3>1, <3>2, Zenon
  <2>. QED  BY <1>17, <2>2, Zenon DEF Tame
<1>18. CASE x.op = "zombie exit"
  <2>1. a.f = F(c, "done", "task") /\ b = Final(c)
    BY <1>18, Zenon DEF Fits
  <2>2. Done
    <3>1. PICK k, r : b = L(0, k, {}, F(r, "done", "task"))
      BY <2>1, Zenon DEF Final
    <3>2. b.f = F(r, "done", "task")
      BY <3>1 DEF L
    <3>. QED  BY <2>1, <3>2 DEF F
  <2>. QED  BY <1>18, <2>2, Zenon DEF Tame
<1>19. CASE x.op = "swtch"
  <2>1. Switches(c, a, b)
    BY <1>19, Zenon DEF Fits
  <2>2. a.f.at = b.f.at /\ b.f.mutex = Settle(a.f.mutex) /\ a.f.mutex \in {"busy", "own", "done"}
    <3>1. PICK k \in Levels, m \in {"busy", "own", "done"}, at \in {"task", "handler"} :
            /\ c \in Procs
            /\ a = L(1, k, {"ptable"}, F(Nobody, m, at))
            /\ b = Switched(c, k, Settle(m), at)
      BY <2>1, Zenon DEF Switches
    <3>2. a.f = F(Nobody, m, at)
      BY <3>1 DEF L
    <3>3. PICK r : b.f = F(r, Settle(m), at)
      BY <3>1 DEF Switched, L
    <3>4. a.f.at = at /\ a.f.mutex = m
      BY <3>2 DEF F
    <3>5. b.f.at = at /\ b.f.mutex = Settle(m)
      BY <3>3 DEF F
    <3>. QED  BY <3>4, <3>5, Zenon
  <2>. QED  BY <1>19, <2>2 DEF Settle, Tame
<1>20. CASE x.op = "wake"
  <2>1. CASE x.arg = "mutex"
    <3>1. /\ c \in Procs /\ a = L(2, "on", {"mutex", "ptable"}, F(c, "waking", "task"))
          /\ b = L(2, "on", {"mutex", "ptable"}, F(c, "done", "task"))
      BY <1>20, <2>1, Zenon DEF Fits
    <3>2. c \in Procs /\ a.f.mutex = "waking" /\ b.f.mutex = "done" /\ a.f.at = b.f.at
      BY <3>1 DEF L, F
    <3>. QED  BY <1>20, <2>1, <3>2 DEF Tame
  <2>2. CASE x.arg # "mutex"
    <3>1. b = a
      BY <1>20, <2>2, Zenon DEF Fits
    <3>. QED  BY <1>20, <3>1 DEF Tame
  <2>. QED  BY <2>1, <2>2
<1>21. CASE x.op = "while locked"
  <2>1. /\ a = L(1, "on", {"mutex"}, F(c, "want", "task"))
        /\ b = L(1, "on", {"mutex"}, F(c, "free", "task"))
    BY <1>21, Zenon DEF Fits
  <2>2. b.f.at = "task" /\ a.f.mutex = "want" /\ b.f.mutex = "free"
    BY <2>1 DEF L, F
  <2>. QED  BY <1>21, <2>2, Zenon DEF Tame
<1>22. CASE x.op = "own"
  <2>1. /\ x.arg = "none" /\ a = L(1, "on", {"mutex"}, F(c, "free", "task"))
        /\ b = L(1, "on", {"mutex"}, F(c, "own", "task"))
    BY <1>22, Zenon DEF Fits
  <2>2. b.f.at = "task" /\ a.f.mutex = "free" /\ b.f.mutex = "own"
    BY <2>1 DEF L, F
  <2>. QED  BY <1>22, <2>1, <2>2, Zenon DEF Tame
<1>23. CASE x.op = "disown"
  <2>1. /\ a = L(1, "on", {"mutex"}, F(c, "own", "task"))
        /\ b = L(1, "on", {"mutex"}, F(c, "waking", "task"))
    BY <1>23, Zenon DEF Fits
  <2>2. b.f.at = "task" /\ a.f.mutex = "own" /\ b.f.mutex = "waking"
    BY <2>1 DEF L, F
  <2>. QED  BY <1>23, <2>2 DEF Tame
<1>24. CASE x.op = "iret"
  <2>1. CASE x.arg = "user"
    <3>1. b = Final(c) /\ \E k \in Levels : a = L(0, k, {}, F(c, "done", "task"))
      BY <1>24, <2>1, Zenon DEF Fits
    <3>2. Done
      <4>1. PICK k, r : b = L(0, k, {}, F(r, "done", "task"))
        BY <3>1, Zenon DEF Final
      <4>2. PICK l \in Levels : a = L(0, l, {}, F(c, "done", "task"))
        BY <3>1, Zenon
      <4>3. b.f.mutex = "done" /\ b.f.at = "task"
        BY <4>1 DEF L, F
      <4>4. a.f.mutex = "done"
        BY <4>2 DEF L, F
      <4>. QED  BY <4>3, <4>4, Zenon
    <3>. QED  BY <1>24, <2>1, <3>2 DEF Tame
  <2>2. CASE x.arg # "user"
    <3>1. a = L(0, "off", {}, F(b.f.run, b.f.mutex, "handler"))
      BY <1>24, <2>2, Zenon DEF Fits
    <3>2. a.f.mutex = b.f.mutex /\ a.f.at = "handler"
      BY <3>1 DEF L, F
    <3>. QED  BY <1>24, <3>2 DEF Tame
  <2>. QED  BY <2>1, <2>2
<1>. QED
  BY Zenon, <1>1, <1>2, <1>3, <1>4, <1>5, <1>6, <1>7, <1>8, <1>9, <1>10, <1>11, <1>12,
     <1>13, <1>14, <1>15, <1>16, <1>17, <1>18, <1>19, <1>20, <1>21, <1>22, <1>23,
     <1>24 DEF Ops

\* A property of positions that every one has from the one after it holds at the
\* first.
LEMMA Backward ==
  ASSUME NEW n \in Nat, NEW T \in SUBSET (0 .. n), NEW j \in T,
         \A i \in 1 .. n : i \in T => i - 1 \in T
  PROVE  0 \in T
<1>1. T \in SUBSET Nat /\ T # {}
  OBVIOUS
<1>2. PICK x \in T : \A y \in T : ~ (<<y, x>> \in OpToRel(<, Nat))
  BY <1>1, NatLessThanWellFounded, WFMin, Zenon
<1>3. \A y \in T : ~ (y < x)
  BY <1>1, <1>2, Zenon DEF OpToRel
<1>4. x = 0 \/ (x \in 1 .. n /\ x - 1 < x)
  OBVIOUS
<1>. QED  BY <1>3, <1>4

\* The annotations of an outline.
Annotates(A, c, s) ==
  /\ s \in Seq(Steps) /\ A \in [0 .. Len(s) -> Abs]
  /\ \A i \in 1 .. Len(s) : Fits(c, A[i - 1], s[i], A[i])

Spans(A, c, s, a, b) == Annotates(A, c, s) /\ A[0] = a /\ A[Len(s)] = b

LEMMA Annotations ==
  ASSUME NEW c, NEW s, NEW a, NEW b, Outline(c, s, a, b)
  PROVE  \E A : Spans(A, c, s, a, b)
BY DEF Outline, Annotates, Spans

LEMMA AnnotationStep ==
  ASSUME NEW c, NEW s, NEW A, Annotates(A, c, s), NEW i \in 1 .. Len(s)
  PROVE  /\ Len(s) \in Nat /\ i - 1 \in 0 .. Len(s) /\ i \in 0 .. Len(s)
         /\ A[i - 1] \in Abs /\ A[i] \in Abs /\ Tame(c, A[i - 1], s[i], A[i])
<1>1. s \in Seq(Steps) /\ A \in [0 .. Len(s) -> Abs] /\ Fits(c, A[i - 1], s[i], A[i])
  BY DEF Annotates
<1>2. Len(s) \in Nat
  BY <1>1
<1>3. i - 1 \in 0 .. Len(s) /\ i \in 0 .. Len(s)
  BY <1>2
<1>4. A[i - 1] \in Abs /\ A[i] \in Abs
  BY <1>1, <1>3
<1>. QED  BY <1>1, <1>2, <1>3, <1>4, FrameStep

\* Code with an iret through the gate ahead is that of a handler.
LEMMA HandlerOutline ==
  ASSUME NEW c, NEW s, NEW a, NEW b, Outline(c, s, a, b),
         NEW i \in 1 .. Len(s), s[i].op = "iret", s[i].arg = "gate"
  PROVE  a.f.at = "handler"
<1>0. PICK A : Spans(A, c, s, a, b)
  BY Annotations, Zenon
<1>1. Annotates(A, c, s) /\ A[0] = a /\ A[Len(s)] = b
  BY <1>0, Zenon DEF Spans
<1>. DEFINE T == {j \in 0 .. Len(s) : A[j].f.at = "handler"}
<1>2. i - 1 \in T /\ Len(s) \in Nat
  <2>1. Len(s) \in Nat /\ i - 1 \in 0 .. Len(s) /\ Tame(c, A[i - 1], s[i], A[i])
    BY <1>1, AnnotationStep, Zenon
  <2>. QED  BY <2>1 DEF Tame
<1>3. ASSUME NEW j \in 1 .. Len(s), j \in T PROVE j - 1 \in T
  <2>1. j - 1 \in 0 .. Len(s) /\ Tame(c, A[j - 1], s[j], A[j])
    BY <1>1, AnnotationStep, Zenon
  <2>. QED  BY <1>3, <2>1, Zenon DEF Tame
<1>4. T \in SUBSET (0 .. Len(s))
  OBVIOUS
<1>5. 0 \in T
  <2>. HIDE DEF T
  <2>. QED  BY <1>2, <1>3, <1>4, Backward, Zenon
<1>. QED  BY <1>1, <1>5

Gives(s) == \E i \in 1 .. Len(s) : s[i].op = "disown"
Takes(s) == \E i \in 1 .. Len(s) : s[i].op = "own" /\ s[i].arg = "none"

\* Code that gives the mutex up, and does not take it before, is that of its owner.
LEMMA OwnerOutline ==
  ASSUME NEW c, NEW s, NEW a, NEW b, Outline(c, s, a, b), Gives(s), ~Takes(s)
  PROVE  a.f.mutex = "own"
<1>. PICK i \in 1 .. Len(s) : s[i].op = "disown"
  BY Zenon DEF Gives
<1>. \A j \in 1 .. Len(s) : ~ (s[j].op = "own" /\ s[j].arg = "none")
  BY Zenon DEF Takes
<1>0. PICK A : Spans(A, c, s, a, b)
  BY Annotations, Zenon
<1>1. Annotates(A, c, s) /\ A[0] = a /\ A[Len(s)] = b
  BY <1>0, Zenon DEF Spans
<1>. DEFINE T == {j \in 0 .. Len(s) : A[j].f.mutex = "own"}
<1>2. i - 1 \in T /\ Len(s) \in Nat
  <2>1. Len(s) \in Nat /\ i - 1 \in 0 .. Len(s) /\ Tame(c, A[i - 1], s[i], A[i])
    BY <1>1, AnnotationStep, Zenon
  <2>. QED  BY <2>1, Zenon DEF Tame
<1>3. ASSUME NEW j \in 1 .. Len(s), j \in T PROVE j - 1 \in T
  <2>1. j - 1 \in 0 .. Len(s) /\ Tame(c, A[j - 1], s[j], A[j])
    BY <1>1, AnnotationStep, Zenon
  <2>. QED  BY <1>3, <2>1, Zenon DEF Tame
<1>4. T \in SUBSET (0 .. Len(s))
  OBVIOUS
<1>5. 0 \in T
  <2>. HIDE DEF T
  <2>. QED  BY <1>2, <1>3, <1>4, Backward, Zenon
<1>. QED  BY <1>1, <1>5

\* Code that owes a wakeup does it ...
LEMMA WakingOutline ==
  ASSUME NEW c, NEW s, NEW a, NEW b, Outline(c, s, a, b),
         a.f.mutex = "waking", b.f.mutex # "waking"
  PROVE  c \in Procs /\ \E i \in 1 .. Len(s) : s[i].op = "wake" /\ s[i].arg = "mutex"
<1>0. PICK A : Spans(A, c, s, a, b)
  BY Annotations, Zenon
<1>1. Annotates(A, c, s) /\ A[0] = a /\ A[Len(s)] = b
  BY <1>0, Zenon DEF Spans
<1>. DEFINE T == {j \in 0 .. Len(s) : A[j].f.mutex # "waking"}
<1>2. Len(s) \in Nat
  <2>1. s \in Seq(Steps)
    BY <1>1, Zenon DEF Annotates
  <2>. QED  BY <2>1
<1>3. Len(s) \in T /\ 0 \notin T /\ T \in SUBSET (0 .. Len(s))
  BY <1>1, <1>2
<1>4. PICK i \in 1 .. Len(s) : i \in T /\ i - 1 \notin T
  <2>. HIDE DEF T
  <2>. QED  BY <1>2, <1>3, Backward, Zenon
<1>5. i - 1 \in 0 .. Len(s) /\ Tame(c, A[i - 1], s[i], A[i])
  BY <1>1, AnnotationStep, Zenon
<1>6. A[i - 1].f.mutex = "waking" /\ A[i].f.mutex # "waking"
  BY <1>4, <1>5, Zenon
<1>7. c \in Procs /\ s[i].op = "wake" /\ s[i].arg = "mutex"
  BY <1>5, <1>6, Zenon DEF Tame
<1>. QED  BY <1>7

\* ... and has given the mutex up.
LEMMA WakingDisowned ==
  ASSUME NEW c, NEW s, NEW a, NEW b, Outline(c, s, a, b), a.f.mutex = "waking",
         NEW i \in 1 .. Len(s), s[i].op = "disown"
  PROVE  FALSE
<1>0. PICK A : Spans(A, c, s, a, b)
  BY Annotations, Zenon
<1>1. Annotates(A, c, s) /\ A[0] = a /\ A[Len(s)] = b
  BY <1>0, Zenon DEF Spans
<1>. DEFINE T == {j \in 0 .. Len(s) : A[j].f.mutex \notin {"waking", "done"}}
<1>2. i - 1 \in T /\ Len(s) \in Nat
  <2>1. Len(s) \in Nat /\ i - 1 \in 0 .. Len(s) /\ Tame(c, A[i - 1], s[i], A[i])
    BY <1>1, AnnotationStep, Zenon
  <2>. QED  BY <2>1, Zenon DEF Tame
<1>3. ASSUME NEW j \in 1 .. Len(s), j \in T PROVE j - 1 \in T
  <2>1. j - 1 \in 0 .. Len(s) /\ Tame(c, A[j - 1], s[j], A[j])
    BY <1>1, AnnotationStep, Zenon
  <2>. QED  BY <1>3, <2>1, Zenon DEF Tame
<1>4. T \in SUBSET (0 .. Len(s)) /\ 0 \notin T
  BY <1>1, Zenon
<1>. HIDE DEF T
<1>. QED  BY <1>2, <1>3, <1>4, Backward, Zenon

LEMMA HandlersOff == Inductive => HandlersDoNotNest
<1>. SUFFICES ASSUME Inductive, InHandler(ctx) PROVE ~IF_
  BY DEF HandlersDoNotNest
<1>1. PICK a \in Abs : Matches(a) /\ Goes(ctx, a)
  BY DEF Inductive
<1>2. PICK i \in 1 .. Len(code[ctx]) : code[ctx][i].op = "iret" /\ code[ctx][i].arg = "gate"
  <2>1. PICK i \in 1 .. Len(code[ctx]) : code[ctx][i] = Do("iret", "gate")
    BY Zenon DEF InHandler
  <2>2. code[ctx][i].op = "iret" /\ code[ctx][i].arg = "gate"
    BY <2>1 DEF Do
  <2>. QED  BY <2>2
<1>3. a.f.at = "handler"
  BY <1>1, <1>2, HandlerOutline, Zenon DEF Goes
<1>4. a.on = "off"
  BY <1>3 DEF Abs, Open
<1>. QED  BY <1>1, <1>4 DEF Matches, Is

\* A step of a sequence is what its two fields are.
LEMMA StepIs ==
  ASSUME NEW x \in Steps, NEW op, NEW arg
  PROVE  x = Do(op, arg) <=> x.op = op /\ x.arg = arg
<1>1. x = Do(x.op, x.arg)
  BY DEF Steps, Do
<1>2. Do(op, arg).op = op /\ Do(op, arg).arg = arg
  BY DEF Do
<1>. QED  BY <1>1, <1>2, Zenon

\* A step is ahead of a context if it is in its code.
LEMMA AheadIs ==
  ASSUME NEW c, NEW op, NEW arg, code[c] \in Seq(Steps)
  PROVE  Ahead(c, op, arg) <=>
           \E i \in 1 .. Len(code[c]) : code[c][i].op = op /\ code[c][i].arg = arg
<1>1. \A i \in 1 .. Len(code[c]) : code[c][i] \in Steps
  OBVIOUS
<1>2. ASSUME NEW i \in 1 .. Len(code[c])
      PROVE  code[c][i] = Do(op, arg) <=> code[c][i].op = op /\ code[c][i].arg = arg
  <2>1. code[c][i] \in Steps
    BY <1>1
  <2>. QED  BY <2>1, StepIs
<1>. QED  BY <1>2, Zenon DEF Ahead

LEMMA MutexIsKept == Inductive => MutexKept
<1>. SUFFICES ASSUME Inductive PROVE MutexKept
  OBVIOUS
<1>1. PICK a \in Abs : Matches(a) /\ Goes(ctx, a)
  BY DEF Inductive
<1>2. \A c \in Contexts : code[c] \in Seq(Steps)
  BY DEF Inductive, TypeOK
<1>3. ASSUME NEW p \in Procs, Ahead(p, "disown", "none"), ~Ahead(p, "own", "none") PROVE owner = p
  <2>1. p \in Contexts
    BY DEF Contexts
  <2>2. \E d : Goes(p, d)
    BY <1>1, <2>1 DEF Inductive, Waits
  <2>3. PICK d : Goes(p, d)
    BY <2>2
  <2>4. /\ \E i \in 1 .. Len(code[p]) : code[p][i].op = "disown" /\ code[p][i].arg = "none"
        /\ ~ \E i \in 1 .. Len(code[p]) : code[p][i].op = "own" /\ code[p][i].arg = "none"
    <3>1. code[p] \in Seq(Steps)
      BY <1>2, <2>1
    <3>2. Ahead(p, "disown", "none") <=>
            \E i \in 1 .. Len(code[p]) : code[p][i].op = "disown" /\ code[p][i].arg = "none"
      BY <3>1, AheadIs
    <3>3. Ahead(p, "own", "none") <=>
            \E i \in 1 .. Len(code[p]) : code[p][i].op = "own" /\ code[p][i].arg = "none"
      BY <3>1, AheadIs
    <3>. QED  BY <1>3, <3>2, <3>3, Zenon
  <2>5. Outline(p, code[p], d, Final(p))
    BY <2>3 DEF Goes
  <2>6. d.f.mutex = "own"
    <3>1. Gives(code[p]) /\ ~Takes(code[p])
      BY <2>4, Zenon DEF Gives, Takes
    <3>. QED  BY <2>5, <3>1, OwnerOutline, Zenon
  <2>. QED  BY <2>3, <2>6 DEF Goes
<1>4. ASSUME NEW p \in Procs, state[p] = "MUTEX", owner = Nobody
      PROVE  \E q \in Procs : Ahead(q, "wake", "mutex") /\ ~Ahead(q, "disown", "none")
  <2>1. a.f.mutex = "waking" /\ ctx \in Contexts
    BY <1>1, <1>4, Zenon DEF Matches, Inductive, TypeOK
  <2>2. Outline(ctx, code[ctx], a, Final(ctx)) /\ Final(ctx).f.mutex # "waking"
    BY <1>1, Zenon DEF Goes, Final, L, F
  <2>3. /\ ctx \in Procs
        /\ \E i \in 1 .. Len(code[ctx]) : code[ctx][i].op = "wake" /\ code[ctx][i].arg = "mutex"
    BY <2>1, <2>2, WakingOutline, Zenon
  <2>4. ~ \E i \in 1 .. Len(code[ctx]) : code[ctx][i].op = "disown" /\ code[ctx][i].arg = "none"
    BY <2>1, <2>2, WakingDisowned
  <2>5. Ahead(ctx, "wake", "mutex") /\ ~Ahead(ctx, "disown", "none")
    <3>1. code[ctx] \in Seq(Steps)
      BY <1>2, <2>1
    <3>2. Ahead(ctx, "wake", "mutex") <=>
            \E i \in 1 .. Len(code[ctx]) : code[ctx][i].op = "wake" /\ code[ctx][i].arg = "mutex"
      BY <3>1, AheadIs
    <3>3. Ahead(ctx, "disown", "none") <=>
            \E i \in 1 .. Len(code[ctx]) : code[ctx][i].op = "disown" /\ code[ctx][i].arg = "none"
      BY <3>1, AheadIs
    <3>. QED  BY <2>3, <2>4, <3>2, <3>3, Zenon
  <2>. QED  BY <2>3, <2>5
<1>. QED  BY <1>3, <1>4 DEF MutexKept

----------------------------------------------------------------------------
(* Theorems *)

\* What every context still has to execute can be annotated to its end, at every time
\* and whenever interrupts arrive.
THEOREM OutlinesHold == Spec => []Inductive
<1>1. Init => Inductive
  BY Start
<1>2. Inductive /\ [Next]_vars => Inductive'
  BY Keeps
<1>. QED  BY <1>1, <1>2, PTL DEF Spec

\* None of the panics of this_cpu, pop_cli, lock, unlock and sched is reachable, for
\* any number of processes: push_cli and pop_cli are paired on every path, no lock is
\* taken twice or released unheld, and sched runs with one lock.
THEOREM NeverPanics == Spec => []NoPanic
<1>1. Inductive => NoPanic
  BY DEF Inductive, NoPanic
<1>. QED  BY <1>1, OutlinesHold, PTL

\* A handler runs with the interrupts off to its end, across the switches of yield.
THEOREM HandlersStayOff == Spec => []HandlersDoNotNest
BY HandlersOff, OutlinesHold, PTL

\* lock_mutex and unlock_mutex exclude, and whoever sleeps on the mutex is woken by its
\* owner or by the one that has just given it up.
THEOREM MutexExclusive == Spec => []MutexKept
BY MutexIsKept, OutlinesHold, PTL
=============================================================================
