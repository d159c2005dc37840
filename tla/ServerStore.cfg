CONSTANTS
  Clients = {c1, c2}
  t1 = t1
  au = au
  tx = tx
  Titles = {t1}
  Authors = {au}
  Texts = {tx}
  Ids = {1}
  Requests <- AllRequests
  NoOne = NoOne
  NoRequest = NoRequest
  Unexpected = Unexpected
  Descriptors = 2
  Kept = {0, 1}
  Room = 1
SYMMETRY ClientSymmetry
SPECIFICATION Spec
INVARIANTS
  TypeOK
  KnownOnce
  NoServerError
  AnswersAreAwaited
PROPERTIES
  ExitsOnlyWhenFull
  ImplementsNewsService
  OnlyCompleteRequests
CHECK_DEADLOCK FALSE
