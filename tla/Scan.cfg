SPECIFICATION FairSpec
CONSTANTS
  Chars <- MCChars
  KeyOrder <- MCKeyOrder
  Patterns <- MCPatterns
  Counts <- MCCounts
  NaN = NaN
  Nil = Nil
  MaxChanges = 2
PROPERTIES MissesAreExplained IterationEnds
