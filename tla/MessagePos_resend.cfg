\* Two sends of one id racing, with drops, expiry, edits, deletes and whispers.
SPECIFICATION Spec
CONSTANTS
  r1 = r1
  r2 = r2
  c1 = c1  f1 = f1  f2 = f2
  t1 = t1  t2 = t2
  Reqs = {r1, r2}
  ClientIds = {c1}
  FreshIds = {f1, f2}
  NoId = NoId
  NoRow = NoRow
  Texts = {t1, t2}
  Blank = Blank
  EditTexts = {t1, t2}
  Whispers = {TRUE, FALSE}
  RequestedPos = {}
  Targets = {}
  DefaultPos = 2
  MaxSends = 2
SYMMETRY Symmetry
INVARIANTS TypeOK NoDuplicate
PROPERTIES NoDoubleIssue
CHECK_DEADLOCK FALSE
