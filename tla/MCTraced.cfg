CONSTANTS
  NodeCount <- MCNodeCount
  Deps <- MCDeps
  Sources <- MCSources
  UnknownKeys <- MCUnknownKeys
  Value <- MCValue
  ValueOf <- MCValueOf
  Requests <- MCRequests
  Configs <- MCConfigs
  UsizeMax <- MCUsizeMax
  Behaviour <- MCMayFail
  MaxTime <- MCMaxTime
SPECIFICATION TracedSpec
INVARIANTS
  TraceTopological
  TimesOrdered
  CriticalPathIsLongest
  WorkerIdsTrue
PROPERTIES
  FrontierIsPeak
  Implements
