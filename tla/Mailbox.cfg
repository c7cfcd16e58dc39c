\* Two fires contend for the box with a replay and cleaning; the channel holds one
\* event, so that the connection lags.
SPECIFICATION FairSpec
CONSTANTS
  s1 = s1
  s2 = s2
  p1 = p1
  p2 = p2
  m1 = m1
  m2 = m2
  v1 = v1
  t1 = t1
  t2 = t2
  b1 = b1
  b2 = b2
  b3 = b3
  b4 = b4
  b5 = b5
  b6 = b6
  x1 = x1
  x2 = x2
  x3 = x3
  Subs = {s1}
  Pubs = {p1, p2}
  Messages = {m1, m2}
  Previews = {}
  Transients = {}
  Boxes = {b1, b2, b3, b4, b5, b6}
  Txs = {x1, x2, x3}
  None = None
  Capacity = 1
INVARIANTS NoGap SameOrder CacheComplete
PROPERTIES FireEnds
CHECK_DEADLOCK FALSE
