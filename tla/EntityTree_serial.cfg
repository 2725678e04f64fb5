\* Four entities, one request at a time.
SPECIFICATION Spec
CONSTANTS
  e1 = e1
  e2 = e2
  e3 = e3
  e4 = e4
  o1 = o1
  Entity = {e1, e2, e3, e4}
  NoParent = NoParent
  System = System
  Op = {o1}
  MaxStaff = 1
  MaxRemoved = 1
  MaxLevel = 3
SYMMETRY Four
INVARIANTS TypeOK NoOrphan LevelsMatch OnlySelfCycles RightsNested
CHECK_DEADLOCK FALSE
