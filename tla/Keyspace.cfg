SPECIFICATION Spec
CONSTANTS
  Keys = {k1, k2}
  Nil = Nil
  NoEntry = NoEntry
  NaN = NaN
  Values <- MCValues
  MaxArgs = 2
  Indexes <- MCIndexes
  Counts <- MCCounts
  MaxLen = 3
  Scores <- MCScores
  ScoreBound = 2
  Bounds <- MCBounds
  Epsilon = 2
  Limits <- MCLimits
  Before <- MCBefore
  MaxEntries = 2
VIEW stores
SYMMETRY Symmetry
INVARIANTS TypeOK HashesAndSetsHoldSomething
PROPERTY KeepsContents
