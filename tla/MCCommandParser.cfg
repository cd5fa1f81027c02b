SPECIFICATION Spec
CONSTANTS
  Bytes <- MCBytes
  Seeds <- MCSeeds
  MaxGrowth = 4
INVARIANTS
  AcceptsTheGrammar
  ValuesAreDecimal
CHECK_DEADLOCK FALSE
