SPECIFICATION Spec
CONSTANTS
  d1 = d1
  d2 = d2
  public = public
  s1 = s1
  n1 = n1
  n2 = n2
  NoName = NoName
  Databases <- MCDatabases
  Schemas <- MCSchemas
  Names <- MCNames
  Calls <- MCCalls
  Servers <- MCServers
  Kinds = {"mysql"}
  MaxKeys = 1
  MaxFaults = 1
  MaxDrops = 1
INVARIANTS DatabasesSurvive
CHECK_DEADLOCK FALSE
