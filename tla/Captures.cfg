SPECIFICATION Spec
CONSTANTS
    Programs <- MCPrograms
INVARIANTS
    RunsAsWritten
    Compiles
    CapturesFound
    NoDanglingCapture
