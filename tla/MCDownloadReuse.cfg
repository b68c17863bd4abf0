SPECIFICATION Spec
CONSTANTS
  Calls = {c1, c2, c3}
  NoCall = NoCall
  Hashes = {m1, m2}
  NoHash = NoHash
  Tasks <- PagedTasks
INVARIANTS
  NoNeedlessTransfer
PROPERTIES
  HashIsShared
  DownloadsEnd
CHECK_DEADLOCK FALSE
