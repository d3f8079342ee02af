----------------------------- MODULE MCSession ------------------------------
(***************************************************************************)
(* Session for TLC: a small screen and texts with every kind of escape     *)
(* code; paths, numbers and command lines over small alphabets; shells on  *)
(* a console whose line buffer is longer than theirs.                      *)
(***************************************************************************)
EXTENDS Session

Plain(c)      == [kind |-> "char", c |-> c, nums |-> <<>>]
Code(nums, c) == [kind |-> "esc", c |-> c, nums |-> nums]

\* A letter, a newline, colours, the cursor, two numbers for a letter that takes
\* one, more numbers than there is room for, and none.
Items ==
  {Plain(65), Plain(Newln), Code(<<31>>, 109), Code(<<44>>, 109), Code(<<0>>, 109),
   Code(<<2, 1>>, 72), Code(<<31, 44>>, 109), Code(<<1, 2, 3>>, 72), Code(<<>>, 109)}

MCTexts ==
  {<<i>> : i \in Items} \cup {<<i, j, Plain(65)>> : i, j \in Items}
  \cup [1 .. 4 -> {Plain(65), Plain(Newln)}]

MCGarbage == {<<>>, <<32>>}

MCAlphabets ==
  [path    |-> [chars |-> {Slash, 97, 98}, max |-> 7],
   number  |-> [chars |-> {32, Zero, 49, 55, 57, 97, LowerX}, max |-> 4],
   command |-> [chars |-> {"a", " ", "|", ";"}, max |-> 8]]
=============================================================================
