SPECIFICATION AdapterSpec
CONSTANTS
  Keys = {k1, k2}
  Nil = Nil
  NoEntry = NoEntry
  NaN = NaN
  Values <- MCValues
  MaxArgs = 2
  Indexes <- MCIndexes
  Counts <- MCCounts
  PopCounts <- MCPopCounts
  MaxLen = 2
  Scores <- MCScores
  ScoreBound = 2
  Bounds <- MCBounds
  Epsilon = 2
  Limits <- MCLimits
  Before <- MCBefore
  MaxEntries = 2
  Dbs = {db0, db1}
  MaxStores = 1
VIEW databases
SYMMETRY Symmetry
PROPERTY AdapterKeepsContents
