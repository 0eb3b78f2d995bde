SPECIFICATION Spec
CONSTANTS
  l1 = l1
  f1 = f1
  t1 = t1
  t2 = t2
  Label = {l1, f1}
  File = {f1}
  Table = {t1, t2}
  Source <- MCSource
  Proc = {e1, r1}
  Repl = {r1}
  MaxPipelines = 3
INVARIANTS NeverRefused PrintedIsWhole
PROPERTIES StatementEnds
CHECK_DEADLOCK FALSE
