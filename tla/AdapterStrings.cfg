SPECIFICATION AdapterSpec
CONSTANTS
  NaNText = "NaN"
  Ranges <- MCRanges
  Substring <- MCSubstring
  Keys = {k1, k2}
  Nil = Nil
  NoEntry = NoEntry
  NaN = NaN
  Values <- MCValues
  EmptyString = ""
  ParseInt <- MCParseInt
  Str <- MCStr
  Concat <- MCConcat
  Length <- MCLength
  Counters <- MCCounters
  Deltas <- MCDeltas
  Durations <- MCDurations
  Instants <- MCInstants
  SetOptions <- MCSetOptions
  Second = 2
  Epoch = 3
  MaxTime = 5
  MaxArgs = 2
PROPERTY AdapterKeepsPromise
VIEW store
