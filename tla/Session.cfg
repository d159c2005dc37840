CONSTANTS
  Numerals <- MCNumerals
  TooLarge <- MCTooLarge
  Stripped <- MCStripped
  WordLength <- MCWordLength
  Lines <- AllLines
  Ids = {1, 2}
  MaxArticles = 1
  Buffer = 2
SPECIFICATION FairSpec
INVARIANTS
  InStep
  IInv
  CarriedOutAsTyped
  ToldTheTruth
  AnswersReachTheUser
  NothingIsCutUnnoticed
  CrashesOnlyOnLongStrings
PROPERTIES
  EveryCommandEnds
CHECK_DEADLOCK FALSE
