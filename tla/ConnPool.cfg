\* Three clients on a pool of one; up to two connections alive.
SPECIFICATION FairSpec
CONSTANTS
  a = a
  b = b
  c = c
  k1 = k1
  k2 = k2
  Clients = {a, b, c}
  Conns = {k1, k2}
  None = None
  Num = 1
  MaxWaiters = 3
INVARIANTS TypeOK Exclusive NoIdleWhileWaiting BrokenNotLent SlotsConserved
PROPERTIES FirstComeFirstServed GetEnds LeaseSpec
CHECK_DEADLOCK FALSE
