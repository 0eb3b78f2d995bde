SPECIFICATION Execution
CONSTANTS
  NaN = NaN
  Texts <- MCTexts
  Number <- MCNumber
  Inputs <- MCInputs
INVARIANTS RightColumnsRight
