SPECIFICATION Spec
CONSTANTS
  MaxProcesses = 2
  FdtSize = 4
  DirEntries = 1
INVARIANTS
  TypeOK
  NoInheritedDescriptor
  FreeIffNull
PROPERTIES
  ExecuteKeepsCallerFds
