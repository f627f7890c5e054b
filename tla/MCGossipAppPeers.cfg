CONSTANTS
  Process = {1, 2}
  Setup <- JustQuickStart
  MaxFaults = 1
  ChanSize = 2
  Advance = {1}
  MaxMsgs = 2
SPECIFICATION Spec
INVARIANT InstancesCommunicate
CHECK_DEADLOCK FALSE
