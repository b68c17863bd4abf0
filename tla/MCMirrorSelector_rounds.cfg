SPECIFICATION Spec
CONSTANTS
  Hosts = {h1, h2}
  NoHost = NoHost
  Callers = {c1, c2}
  NoCaller = NoCaller
  BaseHold = 1
  MaxHold = 1
  FreshFor = 1
  CheckTimeout = 1
  SweepInterval = 1
  RetryAfters = {}
  Modes = {"any", "up"}
PROPERTIES
  RoundsAreShared
  WorkingMirrorIsFound
CHECK_DEADLOCK FALSE
