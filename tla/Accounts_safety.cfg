\* Three requests, or one and an upload of two rows at a time.
SPECIFICATION Spec
CONSTANTS
  ana = ana
  anaTyped = anaTyped
  bea = bea
  p1 = p1
  p2 = p2
  r1 = r1
  r2 = r2
  r3 = r3
  Requests = {r1, r2, r3}
  MaxUsers = 3
  MaxLoad = 3
  Emails = {ana, anaTyped, bea}
  NoEmail = NoEmail
  Lower <- LowerCase
  Phones = {p1, p2}
  NoPhone = NoPhone
  Forms <- AskedFor
  Changes <- ChangedTo
  Rows = 2
  Files <- Uploaded
  Concurrency = 2
  MaxSessions = 1
  MaxSeconds = 1
  MaxLapses = 1
SYMMETRY Senders
INVARIANTS TypeOK ReportsTrue SessionsAccounted
PROPERTIES LogoutEndsAll
CHECK_DEADLOCK FALSE
