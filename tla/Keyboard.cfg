CONSTANTS
  ScanCode <- MCScanCode
  Char <- MCChar
  Backspace = "bs"
  Keymap <- MCKeymap
  RingSize = 4
  NoCode = 256
  NoChar = "none"
SPECIFICATION Spec
INVARIANTS
  TypeOK
  LiveSlotsTyped
PROPERTY ImplementsFifo
