----------------------------- MODULE BlockStore -----------------------------
(* What the buffer cache promises the file system: blocks that keep what was
   last written to them. *)
CONSTANTS Blocks, Vals

VARIABLES
  content,  \* content[k]: what block k contains
  seen      \* the last block that was read, and what was read

bvars == <<content, seen>>

BInit == content \in [Blocks -> Vals] /\ seen[1] \in Blocks /\ seen[2] \notin Vals

Put(k, v) == content' = [content EXCEPT ![k] = v] /\ UNCHANGED seen

Get(k) == seen' = <<k, content[k]>> /\ UNCHANGED content

BNext == \E k \in Blocks : Get(k) \/ \E v \in Vals : Put(k, v)

BSpec == BInit /\ [][BNext]_bvars
=============================================================================
