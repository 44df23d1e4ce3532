\* Three running shells; execute, halt, exceptions, timer and Alt+Fn between running terminals.
CONSTANTS
  NumTerminals = 3
  MaxProcesses = 4
  InitTerminals = 3
  MaxSwitches = 3
  BackgroundExecute = FALSE
  PreemptRelaunch = FALSE
  EarlyNewSwitch = FALSE
  None = None
SPECIFICATION Spec
INVARIANTS
  TypeOK
  StacksMatchTree
  RunningProcessKnown
  VideoWindowCorrect
PROPERTIES
  SchedulerRefined
  EveryTerminalServed
  SwitchReturns
