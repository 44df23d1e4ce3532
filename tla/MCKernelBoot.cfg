\* From boot: Alt+Fn launches the shells of terminals 1 and 2 after the first tick.
CONSTANTS
  NumTerminals = 3
  MaxProcesses = 4
  InitTerminals = 1
  MaxSwitches = 3
  BackgroundExecute = FALSE
  PreemptRelaunch = FALSE
  EarlyNewSwitch = FALSE
  None = None
SPECIFICATION Spec
INVARIANTS
  StacksMatchTree
  RunningProcessKnown
  VideoWindowCorrect
PROPERTIES
  SchedulerRefined
  EveryTerminalServed
