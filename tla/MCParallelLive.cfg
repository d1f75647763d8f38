CONSTANTS
  NodeCount <- MCNodeCount
  Deps <- MCDeps
  Sources <- MCSources
  UnknownKeys <- MCUnknownKeys
  Value <- MCValue
  ValueOf <- MCValueOf
  Configs <- MCFewConfigs
  Requests <- MCFewRequests
  Behaviour <- MCMayFail
  UsizeMax <- MCUsizeMax
SPECIFICATION FairSpec
PROPERTIES
  Terminates
