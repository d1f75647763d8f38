CONSTANTS
  NodeCount <- MCNodeCount
  Deps <- MCDeps
  Sources <- MCSources
  UnknownKeys <- MCUnknownKeys
  Value <- MCValue
  ValueOf <- MCValueOf
  Requests <- MCRequests
  Behaviour <- MCMayFailOrPanic
  MaxTime <- MCMaxTime
SPECIFICATION TracedSpec
INVARIANTS
  SameAnswer
PROPERTIES
  Implements
  Terminates
