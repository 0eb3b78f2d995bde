SPECIFICATION Analysing
CONSTANTS
  Lower <- MCLower
  NormalType <- MCNormalType
  Flags <- MCFlags
  Scans <- MCCollected
  Compared <- MCCompared
  Caps <- MCCaps
  TimeWords <- MCTimeWords
  Wide = 2
  CoreN = 1
  TopN = 2
  Magnitude <- MCMagnitude
  QueryNorm <- MCQueryNorm
  TableFilter <- MCNone
CHECK_DEADLOCK FALSE
INVARIANT GroupsConnect
INVARIANT LinksRight
INVARIANT MeritOrders
INVARIANT TopologyAgrees
INVARIANT DiffReplays
