CONSTANTS
  NodeCount <- MCNodeCount
  Deps <- MCDeps
  Sources <- MCSources
  UnknownKeys <- MCUnknownKeys
  Value <- MCValue
  ValueOf <- MCValueOf
  Requests <- MCRequests
  Behaviour <- MCBehaviour
SPECIFICATION FairSpec
INVARIANTS
  NeededIsCone
  TablesBalance
PROPERTIES
  AnalysedAtOnce
  LinearWork
  Terminates
