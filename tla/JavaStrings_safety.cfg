SPECIFICATION Spec
CONSTANTS
  Keys = {k1}
  Clients = {c1, c2}
  Sweeper = sweeper
  EntryIds = {e1, e2, e3, e4}
  Null = Null
  Nil = Nil
  NaN = NaN
  Values <- MCValues
  ParseLong <- MCParseLong
  Str <- MCStr
  Commands <- MapCommands
  Counters <- MCCounters
  IntSpan = 256
  Second = 2
  Epoch = 3
  MaxTime = 4
  MaxIncrements = 2
INVARIANTS TypeOK CounterNeverAhead
PROPERTY OnlyMortalKeysVanish
SYMMETRY Symmetry
