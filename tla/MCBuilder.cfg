CONSTANTS
  a = a
  b = b
  c = c
  Keys <- MCKeys
  Values <- MCValues
  Funs <- MCFuns
  MaxDeps <- MCMaxDeps
SPECIFICATION Spec
INVARIANTS
  IndexInverse
  BuildGivesDag
  BuildIsJustified
