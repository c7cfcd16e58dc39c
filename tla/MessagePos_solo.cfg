\* One request at a time, long sequences, requested positions above and below the counter.
SPECIFICATION Spec
CONSTANTS
  r1 = r1
  r2 = r2
  c1 = c1  f1 = f1  f2 = f2
  t1 = t1  t2 = t2
  Reqs = {r1}
  ClientIds = {c1}
  FreshIds = {f1, f2}
  NoId = NoId
  NoRow = NoRow
  Texts = {t1, t2}
  Blank = Blank
  EditTexts = {t1, t2}
  Whispers = {FALSE}
  RequestedPos = {8, 9}
  Targets = {}
  DefaultPos = 2
  MaxSends = 3
SYMMETRY Symmetry
INVARIANTS FailsOnlyOnDeletedId
CHECK_DEADLOCK FALSE
