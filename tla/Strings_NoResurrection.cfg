SPECIFICATION Spec
CONSTANTS
  Keys = {k1}
  Nil = Nil
  NoEntry = NoEntry
  NaN = NaN
  Values <- MCValues
  EmptyString = ""
  ParseInt <- MCParseInt
  Str <- MCStr
  Concat <- MCConcat
  Length <- MCLength
  Counters <- MCCounters
  Deltas <- MCDeltas
  Durations <- MCDurations
  Instants <- MCInstants
  SetOptions <- MCSetOptions
  Second = 2
  Epoch = 3
  MaxTime = 5
  MaxArgs = 1
PROPERTIES NoResurrection
