CONSTANTS
  Text <- MCText
  NUL = "NUL"
  Commands <- MCCommands
  LineMax = 3
  NameLen <- MCNameLen
SPECIFICATION Spec
INVARIANTS
  TypeOK
  Terminated
  WholeMessage
PROPERTY ImplementsLine
