SPECIFICATION Spec
CONSTANTS
  None = None
  Works <- MCWorks
  Requests <- MCRequests
INVARIANT SlowHostFallsBack
CHECK_DEADLOCK FALSE
