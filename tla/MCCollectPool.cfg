SPECIFICATION Spec
CONSTANTS
  N = 4
  Conn = 2
  Invalid <- MCInvalid
INVARIANTS NoSendOnClosed SendNeverBlocks ReportAccounts
PROPERTIES CollectionEnds
