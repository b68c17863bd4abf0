SPECIFICATION Spec
CONSTANTS
  Procs = {p1, p2}
  Agents = {g1}
  Hosts = {h1}
  Saved <- MCNothing
  StaleAfter = 2
  MaxHold = 2
  SaveEvery = 2
  Skew = 1
  FirstMoment = 4
  MaxTime = 6
INVARIANT NewerStateWins
CHECK_DEADLOCK FALSE
