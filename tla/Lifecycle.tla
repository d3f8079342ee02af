----------------------------- MODULE Lifecycle -----------------------------
(***************************************************************************)
(* What fork, exit and wait promise to user programs, by pid and without a *)
(* table, a scheduler or sleeping: a tree of processes rooted at pid 1.    *)
(***************************************************************************)
EXTENDS Naturals

VARIABLES
  procs,     \* the pids of the processes that exist
  zombies,   \* those of them that have exited and are not waited for yet
  ppid,      \* ppid[n]: the pid of the parent of n, 0 for pid 1
  reserved,  \* pids given out to a fork that has not succeeded yet
  next       \* the next pid

lvars == <<procs, zombies, ppid, reserved, next>>

Live == procs \ zombies

LInit ==
  /\ procs = {1} /\ zombies = {} /\ ppid = [n \in {1} |-> 0]
  /\ reserved = {} /\ next = 2

\* A fork takes a pid, and then succeeds or fails.
Reserve ==
  /\ reserved' = reserved \cup {next}
  /\ next' = next + 1
  /\ UNCHANGED <<procs, zombies, ppid>>

Abandon(n) ==
  /\ reserved' = reserved \ {n}
  /\ UNCHANGED <<procs, zombies, ppid, next>>

Spawn(p, n) ==
  /\ procs' = procs \cup {n}
  /\ ppid'  = [m \in procs' |-> IF m = n THEN p ELSE ppid[m]]
  /\ reserved' = reserved \ {n}
  /\ UNCHANGED <<zombies, next>>

\* The children of a process that exits are passed to pid 1.
Exit(p) ==
  /\ p # 1
  /\ zombies' = zombies \cup {p}
  /\ ppid' = [m \in procs |-> IF ppid[m] = p THEN 1 ELSE ppid[m]]
  /\ UNCHANGED <<procs, reserved, next>>

\* wait() by p returns the pid n of one of its zombies.
Reap(p, n) ==
  /\ n \in zombies /\ ppid[n] = p
  /\ procs'   = procs \ {n}
  /\ zombies' = zombies \ {n}
  /\ ppid'    = [m \in procs' |-> ppid[m]]
  /\ UNCHANGED <<reserved, next>>

LNext ==
  \/ Reserve
  \/ \E n \in reserved : Abandon(n) \/ \E p \in Live : Spawn(p, n)
  \/ \E p \in Live : Exit(p) \/ \E n \in procs : Reap(p, n)

LSpec == LInit /\ [][LNext]_lvars
=============================================================================
