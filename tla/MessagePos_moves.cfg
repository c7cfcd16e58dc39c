\* Moves among the positions the allocator hands out.
SPECIFICATION Spec
CONSTANTS
  r1 = r1
  r2 = r2
  c1 = c1  f1 = f1  f2 = f2
  t1 = t1  t2 = t2
  Reqs = {r1}
  ClientIds = {c1}
  FreshIds = {f1}
  NoId = NoId
  NoRow = NoRow
  Texts = {t1}
  Blank = Blank
  EditTexts = {}
  Whispers = {FALSE}
  RequestedPos = {}
  Targets = {6, 9}
  DefaultPos = 2
  MaxSends = 2
SYMMETRY Symmetry
PROPERTIES NewestIsLast
CHECK_DEADLOCK FALSE
