----------------------------- MODULE MCProcess -----------------------------
(* Process for TLC, with a history of who ran while one process was ready. *)
EXTENDS Process

CONSTANT Watched  \* the slot whose history is kept

ASSUME WatchedAssumption == Watched \in Slots

\* The slots that got the CPU since the watched one became ready.
VARIABLE overtaken

mcvars == <<vars, overtaken>>

MCInit == Init /\ overtaken = {}

MCNext ==
  /\ Next
  /\ overtaken' = IF state'[Watched] # "READY" THEN {}
                  ELSE IF proc = NULL /\ proc' # NULL THEN overtaken \cup {proc'}
                  ELSE overtaken

MCSpec == MCInit /\ [][MCNext]_mcvars /\ Fairness

\* The scheduler is round robin: while a process is ready, no other process
\* gets the CPU twice.
RoundRobin ==
  [][proc = NULL /\ proc' # NULL /\ panic' = "no" /\ state'[Watched] = "READY"
       => proc' \notin overtaken]_mcvars

\* What makes RoundRobin inductive: those who overtook the watched process are
\* behind the loop of the scheduler, counting from the watched slot on.
Behind(x) ==
  IF Watched < scan THEN Watched < x /\ (x < scan \/ x = proc)
  ELSE x # Watched /\ (Watched < x \/ x < scan \/ x = proc)

Overtaken ==
  /\ overtaken \subseteq Slots
  /\ state[Watched] # "READY" => overtaken = {}
  /\ \A x \in overtaken : Behind(x)
=============================================================================
