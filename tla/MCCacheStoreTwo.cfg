SPECIFICATION Spec
CONSTANTS
  k1 = k1
  s1 = s1
  s2 = s2
  s3 = s3
  h1 = h1
  h2 = h2
  k2 = k2
  Key = {k1, k2}
  Schema = {s1, s2, s3}
  Hash = {h1, h2}
  Field = {s1, s2, s3}
  Fp <- MCFp
  Fields <- MCFields
  Label = {v1, v2}
  None = None
  Proc = {p1, p2}
  NoFile = NoFile
  Empty = Empty
  Garbled = Garbled
  MaxScans = 2
INVARIANT CacheAlwaysWhole
CHECK_DEADLOCK FALSE
SYMMETRY Symm
