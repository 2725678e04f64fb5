\* The early return on cleanupFailed.
SPECIFICATION Spec
CONSTANTS
  Caller = {c1, c2}
  NoCaller = NoCaller
  MaxClients = 4
SYMMETRY Callers
CHECK_DEADLOCK FALSE
INVARIANTS InitLockNotLeaked
