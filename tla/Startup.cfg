CONSTANTS
  TxSize = 2
  UartLeft <- MCUartLeft
  Handler <- MCHandler
  MultiBoot <- MCMultiBoot
  OldCode <- MCOldCode
  OldData <- MCOldData
SPECIFICATION Spec
INVARIANTS
  TypeOK
  Reachable
  NullFaults
  InterruptsServed
  Faithful
PROPERTY Settles
