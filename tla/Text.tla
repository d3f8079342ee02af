-------------------------------- MODULE Text --------------------------------
(***************************************************************************)
(* Routines of lib/ that the kernel and the programs put texts together    *)
(* and take them apart with: lib/string.c, strtol of lib/stdlib.c, format  *)
(* of lib/fmt.c; and dir_pathidx of kernel/fs/dir.c, their main user.      *)
(*                                                                         *)
(* A text is a sequence of character codes without its final NUL, and a    *)
(* pointer into it is an index.                                            *)
(***************************************************************************)
EXTENDS Integers, Sequences, FiniteSets, SequencesExt

CONSTANT DIRNAMESZ  \* size of a name, its NUL included

Nul    == 0
Newln  == 10
Blank  == 32
Minus  == 45
Slash  == 47
Zero   == 48
LowerA == 97
LowerX == 120

isspace(c) == c \in {9, 10, 11, 12, 13, 32}
isdigit(c) == c \in 48 .. 57
isalpha(c) == c \in 65 .. 90 \/ c \in 97 .. 122

\* toupper: its condition is always true.
toupper(c) == c - 32

\* The character at an index; Nul at the end.
At(s, i) == IF i \in 1 .. Len(s) THEN s[i] ELSE Nul

\* The first index from i on that is not in the set.
FirstNotIn(i, good, s) == Min({k \in i .. Max({i, Len(s) + 1}) : k \notin good})

----------------------------------------------------------------------------
(* Words *)

\* spn_helper: strspn counts the characters that are in accept, strcspn those
\* that differ from some character of accept.
spn_helper(s, i, accept, c) ==
  LET good == {k \in 1 .. Len(s) : \E a \in accept : IF c THEN s[k] # a ELSE s[k] = a}
  IN  FirstNotIn(i, good, s) - i

\* Mutant: the delimiters in front are not skipped.
strtokNoSkip(s, delim) ==
  LET from[i \in 1 .. Len(s) + 2] ==
        LET e == i + spn_helper(s, i, delim, TRUE)
        IN  IF i > Len(s) THEN <<>> ELSE <<SubSeq(s, i, e - 1)>> \o from[e + 1]
  IN  from[1]

\* The tokens that calls of strtok_r return one after the other, the first with
\* the text and the others with 0: only the first skips delimiters.
strtok_r(s, delim) ==
  LET from[i \in 1 .. Len(s) + 2] ==
        LET e == i + spn_helper(s, i, delim, TRUE)
        IN  IF i > Len(s) THEN <<>> ELSE <<SubSeq(s, i, e - 1)>> \o from[e + 1]
  IN  from[1 + spn_helper(s, 1, delim, FALSE)]

strrev(s) == [i \in 1 .. Len(s) |-> s[Len(s) + 1 - i]]

\* strncpy: what it stores, at which offsets.  It clears one byte behind the NUL,
\* again and again, and does so too when the NUL is in the last of the n bytes.
strncpy(src, n) ==
  LET k == Min({n, Len(src) + 1})
      z == IF k <= Len(src) \/ n - k = 1 THEN {} ELSE {k}
  IN  [i \in (0 .. k - 1) \cup z |-> At(src, i + 1)]

\* dir_pathidx; <<>> if there is no such component.
dir_pathidx(path, n) ==
  LET toks == strtok_r(IF n < 0 THEN strrev(path) ELSE path, {Slash})
      k    == IF n < 0 THEN 0 - n ELSE n
  IN  IF k \notin 1 .. Len(toks) THEN <<>>
      ELSE LET part == strncpy(toks[k], DIRNAMESZ)
               t    == [i \in 1 .. Len(toks[k]) |-> part[i - 1]]
           IN  IF n < 0 THEN strrev(t) ELSE t

----------------------------------------------------------------------------
(* Numbers *)

Hexdigits == (48 .. 57) \cup (65 .. 70) \cup (97 .. 102)

DigitOf(c) == IF isdigit(c) THEN c - 48 ELSE IF c >= 97 THEN c - 87 ELSE c - 55

\* k = k * base + digit, over the digits from b to e - 1.
Accumulated(s, b, e, base) ==
  LET k[i \in b - 1 .. e - 1] == IF i < b THEN 0 ELSE base * k[i - 1] + DigitOf(s[i])
  IN  k[e - 1]

\* The base of the number at p, and how many characters say so.
Base(s, p)   == IF At(s, p) # Zero THEN 10 ELSE IF At(s, p + 1) = LowerX THEN 16 ELSE 8
Prefix(base) == IF base = 16 THEN 2 ELSE IF base = 8 THEN 1 ELSE 0

\* The number from index b on and where it ends.
Unsigned(s, b, base) ==
  LET digits == IF base = 16 THEN Hexdigits ELSE Zero .. Zero + base - 1
      e      == FirstNotIn(b, {k \in 1 .. Len(s) : s[k] \in digits}, s)
  IN  [k |-> Accumulated(s, b, e, base), end |-> e]

\* The number behind the sign.
AfterSign(s, p) == Unsigned(s, p + Prefix(Base(s, p)), Base(s, p))

\* strtol from index i: the number and where it ends.
strtol(s, i) ==
  LET spaces == {k \in 1 .. Len(s) : isspace(s[k])}
      sign   == FirstNotIn(i, spaces, s)
      p      == IF At(s, sign) \in {43, Minus} THEN FirstNotIn(sign + 1, spaces, s) ELSE sign
  IN  [AfterSign(s, p) EXCEPT !.k = IF At(s, sign) = Minus THEN 0 - @ ELSE @]

Digit(d, upper) ==
  LET c == IF d < 10 THEN Zero + d ELSE LowerA + d - 10 IN IF upper THEN toupper(c) ELSE c

\* print_uint: the digits from the last to the first, and then strrev.
print_uint(n, base, upper) ==
  LET buf[k \in 0 .. n] ==
        <<Digit(k % base, upper)>> \o (IF k < base THEN <<>> ELSE buf[k \div base])
  IN  strrev(buf[n])

\* print_int: the sign is dropped.
print_int(n, base, upper) == print_uint(IF n < 0 THEN 0 - n ELSE n, base, upper)

----------------------------------------------------------------------------
(* format.  A format is a sequence of directives with their arguments: flags,
   width, specifier and number.  Flags that are set stay set. *)

Pads(n, c) == [i \in 1 .. n |-> c]

\* TRY_PAD: the flag - puts the blanks in front.
TRY_PAD(n, flags, s) ==
  IF n <= 0 THEN s
  ELSE IF "0" \in flags THEN Pads(n, Zero) \o s
  ELSE IF "-" \in flags THEN Pads(n, Blank) \o s
  ELSE s \o Pads(n, Blank)

\* What a directive prints, with the flags that are set by then.
Directive(d, flags) ==
  LET hex == IF d.conv = "p" \/ (d.conv \in {"x", "X"} /\ "#" \in flags)
             THEN <<Zero, LowerX>> ELSE <<>>
      num == print_int(d.arg, IF d.conv = "d" THEN 10 ELSE 16, d.conv \in {"X", "p"})
  IN  hex \o TRY_PAD(d.width - Len(num), flags, num)

FlagsAt(fmt, i) == UNION {fmt[k].flags : k \in 1 .. i}

format(fmt) == [i \in 1 .. Len(fmt) |-> Directive(fmt[i], FlagsAt(fmt, i))]

----------------------------------------------------------------------------
(* What a text means *)

\* What is between the separators.
Pieces(s, seps) ==
  LET cuts   == {0, Len(s) + 1} \cup {i \in DOMAIN s : s[i] \in seps}
      cut(k) == CHOOSE c \in cuts : Cardinality({d \in cuts : d < c}) = k
  IN  [k \in 1 .. Cardinality(cuts) - 1 |-> SubSeq(s, cut(k - 1) + 1, cut(k) - 1)]

WordsOf(s, seps) == SelectSeq(Pieces(s, seps), LAMBDA w : w # <<>>)

\* An absolute path that dir_pathidx has room for, without empty components.
PlainPath(path) ==
  /\ 1 <= Len(path) /\ Len(path) < DIRNAMESZ /\ path[1] = Slash
  /\ \A i \in 2 .. Len(path) : path[i - 1] # Slash \/ path[i] # Slash

\* dir_pathidx finds the nth component from either end, and its copy stays in the
\* space that its callers have for it.
PathSplit(path) ==
  LET comps == WordsOf(path, {Slash})
  IN  /\ \A n \in 1 .. Len(comps) + 1 :
           LET there == n <= Len(comps)
           IN  /\ dir_pathidx(path, n) = IF there THEN comps[n] ELSE <<>>
               /\ dir_pathidx(path, 0 - n) = IF there THEN comps[Len(comps) + 1 - n] ELSE <<>>
      /\ \A k \in DOMAIN comps : DOMAIN strncpy(comps[k], DIRNAMESZ) \subseteq 0 .. DIRNAMESZ - 1

\* The value of a sequence of digits.
ValueOf(digits, base) ==
  MapThenSumSet(LAMBDA i : DigitOf(digits[i]) * base ^ (Len(digits) - i), DOMAIN digits)

\* Digits of a number: after 0x, after 0, or decimal.
NumberParts(s) ==
  IF Len(s) > 2 /\ s[1] = Zero /\ s[2] = LowerX THEN [base |-> 16, digits |-> SubSeq(s, 3, Len(s))]
  ELSE IF s[1] = Zero THEN [base |-> 8, digits |-> SubSeq(s, 2, Len(s))]
  ELSE [base |-> 10, digits |-> s]

PlainNumber(s) ==
  /\ s # <<>>
  /\ LET n == NumberParts(s)
     IN  \A i \in DOMAIN n.digits :
           n.digits[i] \in Hexdigits /\ DigitOf(n.digits[i]) < n.base

\* strtol reads a number to its end, with and without a sign; what format prints
\* of it has the width that was asked for, the digits without a gap, at one end
\* of it, which strtol reads again, and zeros only in front.
NumberRead(s) ==
  LET n   == ValueOf(NumberParts(s).digits, NumberParts(s).base)
      neg == <<Minus>> \o s
      num(conv) == IF conv = "d" THEN print_int(n, 10, FALSE) ELSE print_int(n, 16, FALSE)
      out(conv, w, fl) ==
        format(<<[flags |-> fl, width |-> 0, conv |-> "d", arg |-> 0],
                 [flags |-> {}, width |-> w, conv |-> conv, arg |-> n]>>)[2]
  IN  /\ strtol(s, 1) = [k |-> n, end |-> Len(s) + 1]
      /\ strtol(neg, 1) = [k |-> 0 - n, end |-> Len(neg) + 1]
      /\ strtol(num("d"), 1).k = n
      /\ strtol(<<Zero, LowerX>> \o num("x"), 1).k = n
      /\ \A conv \in {"d", "x"}, w \in 0 .. 3, fl \in SUBSET {"0", "-"} :
           LET o == out(conv, w, fl)
               d == num(conv)
               p == Pads(w - Len(d), IF "0" \in fl THEN Zero ELSE Blank)
           IN  Len(o) = Max({w, Len(d)}) /\ (o = p \o d \/ ("0" \notin fl /\ o = d \o p))
=============================================================================
