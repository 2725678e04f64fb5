\* Two messages, two receivers, lapsing locks and a crash.
SPECIFICATION FairSpec
CONSTANTS
  e1 = e1
  s1 = s1
  p1 = p1
  p2 = p2
  Message = {e1, s1}
  Email = {e1}
  Pod = {p1, p2}
  Nobody = Nobody
  NoMessage = NoMessage
  MaxRetries = 1
  MaxDelivery = 2
  MaxCrashes = 1
INVARIANTS TypeOK DuplicatesNeedLapses
PROPERTIES ImplementsWorkQueue EventuallySettled
CHECK_DEADLOCK FALSE
