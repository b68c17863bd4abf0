SPECIFICATION KeptSpec
CONSTANTS
  Calls = {c1, c2}
  NoCall = NoCall
  Names = {1, 2, 3}
  Foreign = Foreign
  Beat = 1
  TTL = 3
  MaxWait = 2
  RenameReplacesEmpty = TRUE
  Accounts = {"k1", "k2"}
  Serials = {1, 2}
  Configs <- TwoAccounts
  SessionFile = TRUE
  RetryInterval = 2
SYMMETRY Symmetry
INVARIANTS
  MutualExclusion
  HolderOwnsLease
  NoNeedlessFetch
  SessionIsOfThisAccount
PROPERTIES
  ReturnsFetchedFile
  SavedSessionIsCurrent
CHECK_DEADLOCK FALSE
