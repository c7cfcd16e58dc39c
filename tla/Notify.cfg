\* Two requests at a time, three in turn, on one message and one member.
SPECIFICATION FairSpec
CONSTANTS
  r1 = r1
  r2 = r2
  t1 = t1
  t2 = t2
  p1 = p1
  p2 = p2
  ann = ann
  Reqs = {r1, r2}
  Ops = {"edit", "media", "move", "toggle", "delete", "join", "leave"}
  Texts = {t1, t2}
  Places = {p1, p2}
  People = {ann}
  NoReq = NoReq
  Gone = Gone
  MaxReqs = 3
INVARIANTS TypeOK NothingLost ShownIsCurrent MembersCurrent
PROPERTIES EventuallyTold
CHECK_DEADLOCK FALSE
