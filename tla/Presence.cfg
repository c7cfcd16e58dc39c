\* Two users and two connections, which may be of one user; one fault.
SPECIFICATION FairSpec
CONSTANTS
  ann = ann
  bob = bob
  c1 = c1
  c2 = c2
  Users = {ann, bob}
  Conns = {c1, c2}
  NoUser = NoUser
  NoMap = NoMap
  Said = {"Away", "Online"}
  MaxCalls = 3
  MaxFaults = 1
INVARIANTS TypeOK GhostFree
PROPERTIES ChangeIsPushed StatusConverges GoneIsSeen
CHECK_DEADLOCK FALSE
