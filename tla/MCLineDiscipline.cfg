\* Two terminals; every key, Alt+Fn, tick and terminal_read, no interrupt inside terminal_write's window.
SPECIFICATION Spec
CONSTANTS
  NumTerminals = 2
  MaxBufferSize = 3
  NumHistory = 2
  MaxEnters = 2
  Chars = {a}
  WindowIrqs = {}
  MaxNest = 1
  NUL = NUL
  NL = NL
  None = None
INVARIANTS
  TypeOK
  LineWellFormed
  HistoryBrowsesEntries
PROPERTY
  ReadDeliversOwnLine
