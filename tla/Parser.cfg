SPECIFICATION SpecWithTexts
CONSTANTS
    MaxWord = 4
    Inputs <- MCInputs
    Sentences <- MCSentences
    Trees <- Files
INVARIANTS
    NothingLeftBehind
    NothingLost
    TreeOfGrammar
    AcceptsTheLanguage
    ReadsBack
    VisitsInOrder
PROPERTY
    Terminates
