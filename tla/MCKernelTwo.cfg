\* Two running terminals: the terminal_switch wait loop sees an even tick count.
CONSTANTS
  NumTerminals = 2
  MaxProcesses = 3
  InitTerminals = 2
  MaxSwitches = 2
  BackgroundExecute = FALSE
  PreemptRelaunch = FALSE
  EarlyNewSwitch = FALSE
  None = None
SPECIFICATION Spec
PROPERTY
  SwitchReturns
