SPECIFICATION Spec
CONSTANTS
  Invocations <- MCInvocations
  Reruns <- MCReruns
  MaxRuns = 2
  PgUrl <- MCPgUrl
  WordsIn <- MCWordsIn
  FirstN = 1
  LastN = 1
  MaxRestarts = 5
  CertWarn = 2592000
  SeenFresh = 90
  ServicesStale = 300
  IbStale = 14400
  NvueMinimum <- MCNvue
  FmdsMinimum <- MCFmds
  AlertIds <- MCAlertIds
  Family <- MCFamily
  DhcpStale = 14400
  StuckGrace = 30
  FindingsCap = 5
  LogLimit = 2
  LockWarn = 5
INVARIANT FailuresAreTold
