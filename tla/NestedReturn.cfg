CONSTANTS
  Programs <- NestedReturn
  MaxTests = 2
SPECIFICATION Spec
INVARIANTS
  FinallyRuns
