CONSTANTS
  Names <- PlainNames
  Titles <- PlainTitles
  Authors <- OneAuthor
  Texts <- LongText
  PathWords <- MCPathWords
  FdLimit = 6
  MaxGroup = 1
  MaxArticle = 2
SPECIFICATION BudgetSpec
INVARIANTS
  TypeOK
  UniqueNumbers
  NamesUnique
  CounterAhead
  NumbersNotReused
  AckedStored
  StoredIsExplained
PROPERTIES
  OnlyNewestReused
