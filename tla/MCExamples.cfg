CONSTANTS
  Keys <- MCNone
  Values <- MCNone
  Funs <- MCNone
  MaxDeps <- MCMaxDeps
  Programs <- MCPrograms
SPECIFICATION ExamplesSpec
INVARIANTS
  NoWiringMistake
  PrunedWork
  RootMatchesNaive
  ProofVerifies
