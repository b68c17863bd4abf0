SPECIFICATION Spec
CONSTANTS
  Hosts = {h1, h2}
  NoHost = NoHost
  Callers = {c1, c2}
  NoCaller = NoCaller
  BaseHold = 1
  MaxHold = 3
  FreshFor = 2
  CheckTimeout = 1
  SweepInterval = 2
  RetryAfters = {5}
  Modes = {"any"}
SYMMETRY Symmetry
INVARIANTS
  RetryGoesElsewhere
PROPERTIES
  RetryInIsKept
  OnlySuccessForgives
  GivingUpHoldsNobody
CHECK_DEADLOCK FALSE
