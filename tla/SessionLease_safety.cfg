\* Timely pods, no database faults.
SPECIFICATION Spec
CONSTANTS
  p1 = p1
  p2 = p2
  Pod = {p1, p2}
  NoOwner = NoOwner
  TTL = 5
  RefreshInterval = 1
  InitTimeout = 1
  MaxGap = 1
  Skew <- MCSkew
  MaxSkew = 1
  MaxDisturbances = 2
  Faults <- NoFaults
INVARIANTS TypeOK RefreshFollowsClient ClientBackedByLease LeaseCoversWork
PROPERTIES ImplementsExclusiveOwner
