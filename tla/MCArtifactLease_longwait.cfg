SPECIFICATION PromptSpec
CONSTANTS
  Calls = {c1, c2, c3}
  NoCall = NoCall
  Beat = 1
  TTL = 3
  MaxWait = 4
  RenameReplacesEmpty = TRUE
SYMMETRY Symmetry
INVARIANTS
  MutualExclusion
CHECK_DEADLOCK FALSE
