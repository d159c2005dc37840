CONSTANTS
  Clients = {c1, c2}
  t1 = t1
  au = au
  tx = tx
  Titles = {t1}
  Authors = {au}
  Texts = {tx}
  Ids = {1}
  Requests <- GroupRequests
  NoOne = NoOne
  NoRequest = NoRequest
  Unexpected = Unexpected
  Descriptors = 2
  Kept = {0}
  Room = 1
SPECIFICATION FairSpec
PROPERTIES
  ConnectsAreAccepted
  AnsweredUnlessOvertaken
CHECK_DEADLOCK FALSE
