\* execute while another terminal is on the screen pushes on the wrong stack.
CONSTANTS
  NumTerminals = 3
  MaxProcesses = 4
  InitTerminals = 2
  MaxSwitches = 2
  BackgroundExecute = TRUE
  PreemptRelaunch = FALSE
  EarlyNewSwitch = FALSE
  None = None
SPECIFICATION Spec
INVARIANT
  StacksMatchTree
