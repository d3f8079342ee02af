------------------------------ MODULE MCMemory ------------------------------
(* Memory with two programs: one segment of half a page, and two segments of
   which the second ends in the second page. *)
EXTENDS Memory

MCImages == {<<1>>, <<2, 3>>}
=============================================================================
