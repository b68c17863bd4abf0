SPECIFICATION Spec
CONSTANTS
  Callers = {c1, c2}
  NoCaller = NoCaller
  Accounts = {"k1"}
  Serials = {1, 2, 3}
  Configs <- KeyOrNone
  SessionFile = FALSE
  RetryInterval = 2
PROPERTIES
  RetrySendsAnotherCookie
  SignInsAreShared
  SessionRecovers
CHECK_DEADLOCK FALSE
