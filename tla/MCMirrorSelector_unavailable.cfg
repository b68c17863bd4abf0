SPECIFICATION Spec
CONSTANTS
  Hosts = {h1, h2}
  NoHost = NoHost
  Callers = {c1}
  NoCaller = NoCaller
  BaseHold = 3
  MaxHold = 60
  FreshFor = 120
  CheckTimeout = 1
  SweepInterval = 6
  RetryAfters = {}
  Modes = {"any"}
PROPERTY
  RetryInIsExact
CHECK_DEADLOCK FALSE
