\* Two requests at a time, three in turn, by the owner and two users.
SPECIFICATION Spec
CONSTANTS
  t1 = t1
  t2 = t2
  Tasks = {t1, t2}
  o = o
  ann = ann
  bob = bob
  Users = {o, ann, bob}
  Owner = o
  c1 = c1
  c2 = c2
  Channels = {c1, c2}
  First = c1
  Space = space1
  None = None
  MaxRequests = 3
SYMMETRY Symmetry
INVARIANTS TypeOK NoneLeftBehind OwnerIsAdmin NoCircle
CHECK_DEADLOCK FALSE
