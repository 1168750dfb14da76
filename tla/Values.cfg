SPECIFICATION Spec
CONSTANTS
    Numbers <- MCNumbers
    NaN = 1000
    Variables <- MCVariables
    Targets <- MCTargets
    Texts = {"", "a", "1", "a1", "1a"}
    MaxInt = 3
INVARIANTS
    KeepsMeaning
    TagsTell
    MergedTypeTakesBoth
CHECK_DEADLOCK FALSE
