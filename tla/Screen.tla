------------------------------- MODULE Screen -------------------------------
(***************************************************************************)
(* The screen: vga_writec and the printf of the kernel above it            *)
(* (kernel/driver/vga.c), the parser of escape codes (lib/ansi.c), and     *)
(* console_write with putc (kernel/dev/console.c, kernel/print.c), by      *)
(* which programs write.                                                   *)
(*                                                                         *)
(* A colour is the set of its bits.  What is written is a sequence of      *)
(* items: characters and escape codes.  The code sees their characters.    *)
(* What lies behind the text that a program writes reads as NUL.           *)
(***************************************************************************)
EXTENDS Text

CONSTANTS
  VGA_WIDTH, VGA_HEIGHT,
  ANSI_BUFSZ,  \* numbers that an escape code can have
  Texts,       \* what is written: sequences of items
  Garbage      \* numbers that an uninitialised ANSIState can hold

VARIABLES
  screen,  \* row, column, fg, bg; bad: whether memory was left
  put,     \* the characters stored by the last call: row, column, c, fg, bg
  said     \* the call: how, its items, the foreground before it, their characters
           \* and the index of the next

scrvars == <<screen, put, said>>

Esc       == 27
Bracket   == 91
Semicolon == 59

WHITE == {1, 2, 4, 8}

\* VGA_COLOR_*, in the order of the codes 30 to 37.
VgaColors == <<{}, {4}, {2}, {2, 4, 8}, {1}, {1, 4, 8}, {1, 2}, WHITE>>

NoCall == [how |-> "none", items |-> <<>>, fg |-> {}, i |-> 1, s |-> <<>>]

ScreenInit ==
  /\ screen = [row |-> 0, column |-> 0, fg |-> WHITE, bg |-> {}, bad |-> "no"]
  /\ put = <<>>
  /\ said = NoCall

----------------------------------------------------------------------------
(* Characters *)

\* vga_putchar clears the screen one row too late.
Full(row) == row > VGA_HEIGHT

\* The column after the last one: the next row, and the first after the last.
Advanced(scr) ==
  IF scr.column + 1 < VGA_WIDTH THEN [scr EXCEPT !.column = @ + 1]
  ELSE [scr EXCEPT !.column = 0, !.row = IF @ + 1 = VGA_HEIGHT THEN 0 ELSE @ + 1]

\* The screen and what was put on it, after one more character.
vga_putchar(scr0, c) ==
  LET scr == IF Full(scr0.row) THEN [scr0 EXCEPT !.row = 0, !.column = 0] ELSE scr0
  IN  IF c = Newln THEN [scr |-> [scr EXCEPT !.row = @ + 1, !.column = 0], put |-> put]
      ELSE [scr |-> Advanced(scr),
            put |-> Append(put, [row |-> scr.row, column |-> scr.column,
                                 c |-> c, fg |-> scr.fg, bg |-> scr.bg])]

----------------------------------------------------------------------------
(* Escape codes *)

\* The list l with the number n behind it.  errno is never set, so every number
\* counts, also one that is not there.
NumberAdded(s, l, n) ==
  IF ~l.more THEN l
  ELSE IF At(s, n.end) = Semicolon
  THEN [nums |-> Append(l.nums, n.k), i |-> n.end + 1, more |-> TRUE]
  ELSE [nums |-> Append(l.nums, n.k), i |-> n.end, more |-> FALSE]

\* parse_list from index i: the numbers and where they end.
parse_list(s, i) ==
  LET list[k \in 0 .. Len(s)] ==
        IF k = 0 THEN [nums |-> <<>>, i |-> i, more |-> TRUE]
        ELSE LET l == list[k - 1] IN NumberAdded(s, l, strtol(s, l.i))
  IN  list[Len(s)]

\* set_state: whether the letter can have these numbers.
set_state(c, nums) ==
  LET n == Len(nums)
  IN  \/ c = 72 /\ n \in {0, 2}                                           \* H
      \/ c = 102 /\ n = 2                                                 \* f
      \/ c \in {65, 66, 67, 68, 82} /\ n = 1                              \* A B C D R
      \/ c \in {115, 117} /\ n = 0                                        \* s u
      \/ c = 74 /\ (n = 0 \/ (n = 1 /\ nums[n] \in 0 .. 3))               \* J
      \/ c = 75 /\ (n = 0 \/ (n = 1 /\ nums[n] \in 0 .. 2))               \* K
      \/ c = 109 /\ n = 1                                                 \* m

\* The code at index i, with the numbers in list; end is 0 if there is no code.
CodeAt(s, i, list) ==
  LET c  == At(s, i + 2)
      ok == /\ At(s, i + 1) = Bracket
            /\ isalpha(c) \/ isdigit(c)
            /\ set_state(At(s, list.i), list.nums)
  IN  [end   |-> IF ok THEN list.i + 1 ELSE 0,
       color |-> IF ok /\ At(s, list.i) = 109 THEN list.nums[1] ELSE -1,
       bad   |-> ~isalpha(c) /\ isdigit(c) /\ Len(list.nums) > ANSI_BUFSZ]

\* ansi_parse from index i.  Without numbers it looks at a buf_top that nobody has
\* set.
ansi_parse(s, i, garbage) ==
  CodeAt(s, i, IF isalpha(At(s, i + 2)) THEN [nums |-> garbage, i |-> i + 2]
               ELSE parse_list(s, i + 2))

\* ansi_cntl: only the colours have an effect.  set_bg_color adds the bits of
\* the new background to those of the old one.
ansi_cntl(scr, n) ==
  IF n \in 30 .. 37 THEN [scr EXCEPT !.fg = VgaColors[n - 29]]
  ELSE IF n = 39 THEN [scr EXCEPT !.fg = WHITE]
  ELSE IF n \in 40 .. 47 THEN [scr EXCEPT !.bg = @ \cup VgaColors[n - 39]]
  ELSE IF n = 0 THEN [scr EXCEPT !.fg = WHITE, !.bg = {}]
  ELSE scr

\* Mutant: the code is parsed and then printed all the same.
AfterCodeKept(i, code) == i

\* data after the escape code.
AfterCode(i, code) == IF code.end = 0 THEN i ELSE code.end

\* The code at index i takes effect, and the character behind it is written.
Written(s, i, code) ==
  LET p   == IF At(s, i) = Esc THEN AfterCode(i, code) ELSE i
      scr == IF At(s, i) # Esc THEN screen
             ELSE [(IF code.end = 0 THEN screen ELSE ansi_cntl(screen, code.color))
                   EXCEPT !.bad = IF code.bad THEN "numbers" ELSE @]
      w   == vga_putchar(scr, At(s, p))
  IN  [scr |-> w.scr, put |-> w.put, i |-> p + 1]

\* vga_writec from index i: a code if there is one, and then one character.
vga_writec(s, i, garbage) == Written(s, i, ansi_parse(s, i, garbage))

----------------------------------------------------------------------------
(* The calls *)

\* The characters of an item.
Rendered(item) ==
  IF item.kind = "char" THEN <<item.c>>
  ELSE <<Esc, Bracket>>
       \o FlattenSeq([k \in DOMAIN item.nums |->
            (IF k = 1 THEN <<>> ELSE <<Semicolon>>) \o print_uint(item.nums[k], 10, FALSE)])
       \o <<item.c>>

\* printf of the kernel, or write of a program, is called.
Call(how, items) ==
  /\ said.how = "none" /\ screen.bad = "no"
  /\ said' = [how |-> how, items |-> items, fg |-> screen.fg, i |-> 1,
              s |-> FlattenSeq([k \in DOMAIN items |-> Rendered(items[k])])]
  /\ UNCHANGED <<screen, put>>

\* format passes on what vga_writec returns, to the NUL.  A code at the very end
\* takes the NUL with it.
vga_printf ==
  /\ said.how = "printf" /\ screen.bad = "no" /\ At(said.s, said.i) # Nul
  /\ \E g \in Garbage :
       LET w == vga_writec(said.s, said.i, g)
       IN  /\ screen' = IF w.i > Len(said.s) + 1 THEN [w.scr EXCEPT !.bad = "end"] ELSE w.scr
           /\ put' = w.put
           /\ said' = [said EXCEPT !.i = w.i]

\* console_write: putc for each byte, whatever vga_writec has consumed.
console_write ==
  /\ said.how = "write" /\ screen.bad = "no" /\ said.i <= Len(said.s)
  /\ \E g \in Garbage :
       LET w == vga_writec(said.s, said.i, g)
       IN  /\ screen' = w.scr
           /\ put' = w.put
           /\ said' = [said EXCEPT !.i = @ + 1]

Finished == said.i > Len(said.s)

Returned ==
  /\ said.how # "none" /\ Finished /\ screen.bad = "no"
  /\ put' = <<>>
  /\ said' = NoCall
  /\ UNCHANGED screen

\* Memory was left, and the program goes on with what it finds there.
Lost == screen.bad # "no" /\ UNCHANGED scrvars

ScreenNext ==
  \/ \E how \in {"printf", "write"}, items \in Texts : Call(how, items)
  \/ vga_printf
  \/ console_write
  \/ Returned
  \/ Lost

----------------------------------------------------------------------------
(* Properties *)

\* A code with the numbers its letter takes, and at least one.
Proper(item) == item.nums # <<>> /\ set_state(item.c, item.nums)

\* What the call can show as meant: proper codes in the text of a printf, each
\* in front of a character, and none in that of a program.
Showable(how, items) ==
  \A k \in DOMAIN items : items[k].kind = "esc" =>
    how = "printf" /\ Proper(items[k]) /\ k < Len(items) /\ items[k + 1].kind = "char"

\* The foreground that item k is to have.
Foreground(k) ==
  LET set == {j \in 1 .. k : /\ said.items[j].kind = "esc" /\ said.items[j].c = 109
                             /\ said.items[j].nums[1] \in (30 .. 37) \cup {0, 39}}
  IN  IF set = {} THEN said.fg
      ELSE IF said.items[Max(set)].nums[1] \in {0, 39} THEN WHITE
      ELSE VgaColors[said.items[Max(set)].nums[1] - 29]

\* A character goes to the screen or to the row below it, which is written to
\* because the test in vga_putchar comes a row late.
Placed(ch) == ch.row <= VGA_HEIGHT /\ ch.column < VGA_WIDTH

\* Whatever is written and wherever it wraps, nothing goes further than one row
\* below the screen.  The text of a printf is on the screen without its codes,
\* every character in the colour that the code in front of it asks for, and the
\* text of a program as it is: codes are recognised and consumed as a whole, at
\* most one directly in front of each character.
TextShown ==
  /\ \A n \in DOMAIN put : Placed(put[n])
  /\ Finished /\ Showable(said.how, said.items) =>
       LET chars == SelectSeq([k \in DOMAIN said.items |-> k],
                      LAMBDA k : said.items[k].kind = "char" /\ said.items[k].c # Newln)
       IN  /\ screen.bad = "no"
           /\ Len(put) = Len(chars)
           /\ \A n \in DOMAIN chars : /\ put[n].c = said.items[chars[n]].c
                                      /\ put[n].fg = Foreground(chars[n])
=============================================================================
