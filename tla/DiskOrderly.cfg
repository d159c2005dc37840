CONSTANTS
  Names <- PlainNames
  Titles <- PlainTitles
  Authors <- OneAuthor
  Texts <- LongText
  PathWords <- MCPathWords
  FdLimit = 6
  MaxGroup = 1
  MaxArticle = 2
SPECIFICATION OrderlySpec
PROPERTIES
  ImplementsNewsStore
