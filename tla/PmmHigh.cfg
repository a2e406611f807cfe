CONSTANTS
  WordSize = 64
  PageSize = 4
  Maps <- MCHighMaps
  ModuleLists <- MCModuleLists
  KernelStart = 24
  KernelEnd = 32
SPECIFICATION Spec
INVARIANT OnlySpareMemory
