CONSTANTS
  WordSize = 64
  PageSize = 4
  Maps <- MCMaps
  ModuleLists <- MCModuleLists
  KernelStart = 24
  KernelEnd = 32
SPECIFICATION Spec
INVARIANTS
  TypeOK
  OnlySpareMemory
  EndsWithoutWrap
PROPERTIES
  ImplementsAllocator
  InitialiseEnds
