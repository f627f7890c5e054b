CONSTANTS
  Process = {1, 2}
  Setup <- Setups
  MaxFaults = 1
  ChanSize = 2
  Advance = {1}
  MaxMsgs = 2
SPECIFICATION Spec
INVARIANTS  OnlyOthersOverwrite StopsPromptly
PROPERTIES  ShutdownEnds
CHECK_DEADLOCK FALSE
