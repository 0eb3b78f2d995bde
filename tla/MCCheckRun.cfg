SPECIFICATION Spec
CONSTANTS
  N = 3
  a = a
  b = b
  Labels = {a, b}
  Malformed = Malformed
  NoLabel = NoLabel
  Givens <- MCGivens
INVARIANTS SendsSafe RowsTruthful EachRowOnce ExitTellsTruth
PROPERTIES CheckEnds
