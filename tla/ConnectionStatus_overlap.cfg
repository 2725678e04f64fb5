\* Handlers overlap at their awaits.
SPECIFICATION Spec
CONSTANTS
  MaxInFlight = 3
INVARIANTS ConnectionTypeOK QrMatchesStatus  
