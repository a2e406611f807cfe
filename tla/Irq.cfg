CONSTANTS
  Device <- MCDevice
  BiosMask <- MCMask
  EarlyKey = FALSE
  Exception <- MCException
  MaxDepth = 3
SPECIFICATION Spec
INVARIANTS
  TypeOK
  NoNesting
  NothingInService
  FrameBalanced
PROPERTIES
  OwnServiceOnly
  KeyboardAlive
