CONSTANTS
  Names <- OneName
  Titles <- PathTitles
  Authors <- OneAuthor
  Texts <- LongText
  PathWords <- MCPathWords
  FdLimit = 6
  MaxGroup = 1
  MaxArticle = 1
SPECIFICATION OrderlySpec
INVARIANTS
  AckedStored
