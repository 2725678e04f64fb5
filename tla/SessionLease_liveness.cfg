\* Orphaned leases under fairness, with late pods and failing updates.
SPECIFICATION FairSpec
CONSTANTS
  p1 = p1
  p2 = p2
  Pod = {p1, p2}
  NoOwner = NoOwner
  TTL = 1
  RefreshInterval = 1
  InitTimeout = 1
  MaxGap = 1
  Skew <- MCSkew
  MaxSkew = 1
  MaxDisturbances = 1
  Faults <- AllFaults
PROPERTIES LeaseNotStolen 
