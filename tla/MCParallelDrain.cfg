CONSTANTS
  NodeCount <- MCNodeCount
  Deps <- MCDeps
  Sources <- MCSources
  UnknownKeys <- MCUnknownKeys
  Value <- MCValue
  ValueOf <- MCValueOf
  Configs <- MCConfigs
  Requests <- MCRequests
  Behaviour <- MCMayFail
  UsizeMax <- MCUsizeMax
SPECIFICATION Spec
PROPERTIES
  NoTaskStartsAfterClose
