CONSTANTS
  Files <- Tree
  Names = {1, 2, 3, 4, 5, 6, 7, 8, 9}
  Main = "main"
  Lib = "lib"
  UseLib = TRUE
  Refs <- TreeRefs
  Missing = {"gone"}
  Scoped <- StaticFields
  Programs <- MCPrograms
  Texts <- MCTexts
  Words <- MCWords
  IntBits = 31
SPECIFICATION FrontSpec
INVARIANTS
  TypeOK
  GeneratesInOrder
  OutputOrdered
  NothingLost
  GivesUpOnlyWhenStuck
  ReferencesFirst
  TokensOfTheLanguage
  LineBreaksSeen
PROPERTIES
  Terminates
