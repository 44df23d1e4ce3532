\* Keys and timer ticks may arrive in terminal_write's window inside keyboard_insert and keyboard_backspace.
SPECIFICATION Spec
CONSTANTS
  NumTerminals = 2
  MaxBufferSize = 3
  NumHistory = 2
  MaxEnters = 2
  Chars = {a}
  WindowIrqs = {"key", "tick"}
  MaxNest = 2
  NUL = NUL
  NL = NL
  None = None
INVARIANT
  LineWellFormed
