CONSTANTS
  Titles = {t1, t2}
  Authors = {au}
  Texts = {tx}
  MaxId = 2
SPECIFICATION Spec
INVARIANTS
  TypeOK
  NamesUnique
  NoResurrection
  CountersAhead
PROPERTIES
  ReferencesStable
  ImplementsNewsStore
