CONSTANTS
  NodeCount <- MCNodeCount
  Deps <- MCDeps
  Sources <- MCSources
  UnknownKeys <- MCUnknownKeys
  Value <- MCValue
  ValueOf <- MCValueOf
  Configs <- MCFewConfigs
  Requests <- MCFewRequests
  Behaviour <- MCMayPanic
  UsizeMax <- MCUsizeMax
SPECIFICATION FairSpec
INVARIANTS
  PanicIsReported
  BlockedOnlyByPanic
PROPERTIES
  LoneWorkerPanicReturns
  EveryStepCounts
CHECK_DEADLOCK FALSE
