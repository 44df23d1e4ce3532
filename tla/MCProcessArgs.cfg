SPECIFICATION Spec
CONSTANTS
  MaxProcesses = 3
  ArgsBufferSize = 3
  ExecBufferSize = 6
  ProgLen = 2
  Chars = {a, b}
  MaxNbytes = 3
  NUL = NUL
INVARIANTS
  TypeOK
  ArgsTerminated
  ArgsConsumedOnce
