\* A timer tick between halt's sti() and the relaunch of the shell.
CONSTANTS
  NumTerminals = 1
  MaxProcesses = 2
  InitTerminals = 1
  MaxSwitches = 0
  BackgroundExecute = FALSE
  PreemptRelaunch = TRUE
  EarlyNewSwitch = FALSE
  None = None
SPECIFICATION Spec
INVARIANT
  SchedulerSearchTerminates
