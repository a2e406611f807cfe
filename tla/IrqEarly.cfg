CONSTANTS
  Device <- MCDevice
  BiosMask <- MCMask
  EarlyKey = TRUE
  Exception <- MCException
  MaxDepth = 3
SPECIFICATION Spec
PROPERTY KeyboardAlive
