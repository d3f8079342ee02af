------------------------------ MODULE Session -------------------------------
(***************************************************************************)
(* What a user sees and types: texts go to the screen, lines go through    *)
(* the console to the shell, and the texts they consist of go through the  *)
(* routines of lib/ and the parser of the shell.                           *)
(*                                                                         *)
(* The three share no state in the program, and a behaviour is about one   *)
(* of them: scene says which.                                              *)
(***************************************************************************)
EXTENDS Screen, Shell

CONSTANT Alphabets  \* Alphabets[scene]: the characters of its texts, and their length

VARIABLES
  scene,
  text     \* the text of a scene that is about texts

svars == <<scene, text, scrvars, vars, shvars>>

SessionInit ==
  /\ scene \in DOMAIN Alphabets \cup {"screen", "shell"}
  /\ text = <<>>
  /\ ScreenInit
  /\ ShellInit

\* One more character.
Grow ==
  /\ scene \in DOMAIN Alphabets /\ Len(text) < Alphabets[scene].max
  /\ \E c \in Alphabets[scene].chars : text' = Append(text, c)
  /\ UNCHANGED <<scene, scrvars, vars, shvars>>

TextDone ==
  /\ scene \in DOMAIN Alphabets /\ Len(text) = Alphabets[scene].max
  /\ UNCHANGED svars

SessionNext ==
  \/ Grow
  \/ TextDone
  \/ scene = "screen" /\ ScreenNext /\ UNCHANGED <<scene, text, vars, shvars>>
  \/ scene = "shell" /\ ShellNext /\ UNCHANGED <<scene, text, scrvars>>

SessionSpec == SessionInit /\ [][SessionNext]_svars

----------------------------------------------------------------------------
(* Properties of texts *)

\* The routines of lib/ agree with what texts mean.  The nth component of a
\* plain path, from either end, is what dir_pathidx copies, and it does not
\* leave its buffer; strtol reads every number to its end in all three bases,
\* and reads again what format prints, at any width and after any flags.
LibraryAgrees ==
  /\ scene = "path" /\ PlainPath(text) => PathSplit(text)
  /\ scene = "number" /\ PlainNumber(text) => NumberRead(text)

\* The shell understands a line as the grammar in its comment says, if no symbol
\* follows a word directly or is left without a word: the words are whole, in
\* their pipelines and in order, although parsing overwrites the line with the
\* ends of words, and the parser stays inside the line.
ParsedByGrammar ==
  scene = "command" /\ Regular(text) =>
    LET r == parse_cmd(Append(text, "nl"), Len(text) + 2)
    IN  CharAt(r.c) = "nul" /\ Parsed(r) = Grammar(text)
=============================================================================
