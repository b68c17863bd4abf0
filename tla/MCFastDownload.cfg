SPECIFICATION Spec
CONSTANTS
  MaxPaths = 2
  NumServers = 3
  MaxResumes = 2
  MaxBlocks = 2
  Allowance = 1
INVARIANTS
  DeliversTheFile
  TransferIsContinuous
  FailsAfterTryingAll
  MissingMeansMissing
  AllowanceIsExact
PROPERTIES
  DownloadEnds
CHECK_DEADLOCK FALSE
