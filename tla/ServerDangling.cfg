CONSTANTS
  Clients = {c1}
  t1 = t1
  au = au
  tx = tx
  Titles = {t1}
  Authors = {au}
  Texts = {tx}
  Ids = {1}
  Requests <- OneRequest
  NoOne = NoOne
  NoRequest = NoRequest
  Unexpected = Unexpected
  Descriptors = 1
  Kept = {0}
  Room = 1
SPECIFICATION Spec
INVARIANTS
  ServerSurvives
CHECK_DEADLOCK FALSE
