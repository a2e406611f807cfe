CONSTANTS
  Text <- MCText
  NUL = "NUL"
  Name <- MCName
  FileMax = 3
SPECIFICATION Spec
INVARIANTS
  TypeOK
  FreeWhenIdle
  NeverAfter
PROPERTIES
  ImplementsTransfer
  TransferReturns
