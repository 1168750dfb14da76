CONSTANTS
  Programs <- SupportedPrograms
  MaxTests = 2
SPECIFICATION Spec
INVARIANTS
  FollowsSource
  DisposedOnce
PROPERTIES
  Terminates
