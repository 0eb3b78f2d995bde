SPECIFICATION Execution
CONSTANTS
  NaN = NaN
  Texts <- MCTexts
  Number <- MCNumber
  Inputs <- MCInputs
INVARIANTS JoinExact FilterSound OrderSound DistinctSound
           ShortPageIsLast EachCountedOnce
