CONSTANTS
  Text <- MCText
  Enter = "enter"
  Backspace = "backspace"
  NoChar = "none"
  Deadlock <- MCDeadlock
  Transferir <- MCTransferir
  Help <- MCHelp
  LineMax = 1
  QueueMax = 1
  RxMax = 1
  Keep = 1
SPECIFICATION Spec
INVARIANTS
  TypeOK
  SameTranscript
PROPERTIES
  ImplementsRoom
  KeyReachesHandler
  KeyboardServed
  Delivered
