----------------------------- MODULE ByteQueue -----------------------------
(***************************************************************************)
(* What a pipe promises its users: a queue of at most Cap bytes.  Bytes of *)
(* a write enter it in order, possibly in several portions; a read takes   *)
(* what is there, up to the size it asks for, and waits for something.     *)
(***************************************************************************)
EXTENDS Naturals, Sequences

CONSTANTS Cap, Readers, Writers, Bytes, Sizes

VARIABLES
  q,      \* the bytes in the queue
  todo,   \* todo[w]: what is left of the write of w
  got     \* got[r]: what the last read of r returned

qvars == <<q, todo, got>>

Texts == UNION {[1 .. n -> Bytes] : n \in Sizes}

Portion(s, k) == SubSeq(s, 1, k)
Rest(s, k)    == SubSeq(s, k + 1, Len(s))

QInit ==
  /\ q = <<>>
  /\ todo = [w \in Writers |-> <<>>]
  /\ got  = [r \in Readers |-> <<>>]

\* Some of s enters the queue, and the write of w keeps the rest.
Enter(w, s) ==
  \E k \in 0 .. Len(s) :
    /\ Len(q) + k <= Cap
    /\ q' = q \o Portion(s, k)
    /\ todo' = [todo EXCEPT ![w] = Rest(s, k)]
    /\ UNCHANGED got

Put(w) ==
  IF todo[w] = <<>> THEN \E s \in Texts : Enter(w, s) ELSE Enter(w, todo[w])

\* A read of n bytes.
Take(r, n) ==
  LET k == IF n < Len(q) THEN n ELSE Len(q)
  IN  /\ q # <<>>
      /\ got' = [got EXCEPT ![r] = Portion(q, k)]
      /\ q' = Rest(q, k)
      /\ UNCHANGED todo

QNext ==
  \/ \E w \in Writers : Put(w)
  \/ \E r \in Readers, n \in Sizes : Take(r, n)

QSpec == QInit /\ [][QNext]_qvars
=============================================================================
