\* A shell runs a program that faults; halt's uint8_t drops the status 256.
CONSTANTS
  MaxDepth = 2
  Statuses = {0, 1}
  SoftInts = {0, 14}
SPECIFICATION Spec
\* A handler's while(1){} with IF clear stops the machine: no step follows.
CHECK_DEADLOCK FALSE
INVARIANT
  ExceptionStatusReported
