CONSTANTS
  Names <- PlainNames
  Titles <- TwoWordTitles
  Authors <- OneAuthor
  Texts <- LongText
  PathWords <- MCPathWords
  FdLimit = 4
  MaxGroup = 1
  MaxArticle = 1
SPECIFICATION Spec
INVARIANTS
  CrashOnlyWhenExhausted
