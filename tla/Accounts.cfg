\* Four requests in all on one user, whose address is typed in two ways: two logins,
\* logouts or resets, and two uploads of one content; one fault.
SPECIFICATION FairSpec
CONSTANTS
  Users = {ann}
  Emails = {plain, other}
  Lower <- OneUser
  Reqs = {1, 2}
  Uploads = {1, 2}
  Contents = {x}
  Addresses = {ip}
  Passwords = {p1, p2}
  NoFile = NoFile
  NoOne = NoOne
  IpLimit = 1
  EmailLimit = 1
  MaxReqs = 4
  MaxFaults = 1
INVARIANTS TypeOK FilesThere DirectoryInOrder GetIsWhole SessionHasHolder MailsPerWindow
PROPERTIES LimitLifts
CHECK_DEADLOCK FALSE
