CONSTANTS
  CRDTPrintStore = FALSE
  MaxMsgs = 2
SPECIFICATION Spec
INVARIANT GracefulShutdown
CHECK_DEADLOCK FALSE
