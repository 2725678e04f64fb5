\* Bookkeeping of two concurrent callers.
SPECIFICATION FairSpec
CONSTANTS
  Caller = {c1, c2}
  NoCaller = NoCaller
  MaxClients = 4
CHECK_DEADLOCK FALSE
INVARIANTS TypeOK OneInitialization MapHoldsNewest MarkerOnlyWhileClosing ClosedClientIsSilent
PROPERTY WaitersResume
