SPECIFICATION Spec
CONSTANTS
  Clients = {c1, c2}
  Keys = {k1}
  Values = {v1}
  Nil = Nil
  NaN = NaN
  NoDb = NoDb
  DbIndexes = {0, 1}
  Items <- MCItems
  Rests <- MCRests
  HeadLines = 1
  TailLines = 2
  MaxSent = 3
INVARIANT FeedTakesAll
CHECK_DEADLOCK FALSE
