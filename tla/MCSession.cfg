CONSTANTS
  DIRNAMESZ = 7
  VGA_WIDTH = 2
  VGA_HEIGHT = 2
  ANSI_BUFSZ = 2
  Texts <- MCTexts
  Garbage <- MCGarbage
  Alphabets <- MCAlphabets
  LINE_BUF_SZ = 8
  Readers = {1, 2}
  Sizes = {6}
  Letters = {"a", " ", "|", ";"}
  MaxInput = 7
  NULL = NULL
  BUF_SZ = 6
  NARGS = 2
  Keys = {"a", ";", "nl", "bs"}
SPECIFICATION SessionSpec
INVARIANTS
  TextShown
  
  ParsedByGrammar
  OneShellReads
  
  
