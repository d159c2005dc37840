CONSTANTS
  Names <- OneName
  Titles <- PlainTitles
  Authors <- OneAuthor
  Texts <- LongText
  PathWords <- MCPathWords
  FdLimit = 6
  MaxGroup = 1
  MaxArticle = 1
SPECIFICATION Spec
INVARIANTS
  NumbersStartAtOne
