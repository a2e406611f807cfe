CONSTANTS
  WordSize = 64
  PageSize = 4
  Maps <- MCUnalignedMaps
  ModuleLists <- MCModuleLists
  KernelStart = 24
  KernelEnd = 32
SPECIFICATION Spec
INVARIANT OnlySpareMemory
