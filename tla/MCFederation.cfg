SPECIFICATION Spec
CONSTANTS
  d1 = d1
  d2 = d2
  f1 = f1
  m1 = m1
  n1 = n1
  u1 = u1
  t1 = t1
  t2 = t2
  x = x
  a = a
  NoAlias = NoAlias
  Label = {d1, d2, f1, m1, n1, u1}
  Kind <- MCKind
  Ref <- MCRef
  Raw <- MCRaw
  Alias = {NoAlias, t1, a}
  MaxItems = 3
INVARIANTS FederatedJoinReadsOwn OneLabelReadsOwn
