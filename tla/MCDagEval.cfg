CONSTANTS
  NodeCount <- MCNodeCount
  Deps <- MCDeps
  Sources <- MCSources
  UnknownKeys <- MCUnknownKeys
  Value <- MCValue
  ValueOf <- MCValueOf
  Requests <- MCRequests
  Behaviour <- MCMayFail
SPECIFICATION Spec
INVARIANTS
  ValuesDetermined
  CycleExact
