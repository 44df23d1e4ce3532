\* A five-byte file in two-byte blocks (three blocks), read three bytes at a time as cat
\* reads with its fixed buffer.
CONSTANTS
  FileLen = 5
  BlockSize = 2
  Lengths = {3}
  Junk = Junk
SPECIFICATION Spec
CHECK_DEADLOCK FALSE
INVARIANT
  ReadsWholeFile
