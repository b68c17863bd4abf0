SPECIFICATION Spec
CONSTANTS
  Calls = {c1, c2}
  NoCall = NoCall
  Names = {1, 2}
  Foreign = Foreign
  Beat = 1
  TTL = 2
  MaxWait = 3
  RenameReplacesEmpty = FALSE
INVARIANT
  EntryIsIntact
PROPERTY
  LeaseIsReached
CHECK_DEADLOCK FALSE
