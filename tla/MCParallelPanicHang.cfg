CONSTANTS
  NodeCount <- MCNodeCount
  Deps <- MCDeps
  Sources <- MCSources
  UnknownKeys <- MCUnknownKeys
  Value <- MCValue
  ValueOf <- MCValueOf
  Configs <- MCFewConfigs
  Requests <- MCFewRequests
  Behaviour <- MCMayPanic
  UsizeMax <- MCUsizeMax
SPECIFICATION FairSpec
PROPERTIES
  NoHangOnTaskPanic
CHECK_DEADLOCK FALSE
