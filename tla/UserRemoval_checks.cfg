\* Two requests beside the events of two sessions and three messages.
SPECIFICATION Spec
CONSTANTS
  p1 = p1
  p2 = p2
  colleague = colleague
  group = group
  lid = lid
  c1 = c1
  c2 = c2
  Phone = {p1, p2}
  NoPhone = NoPhone
  Other = {colleague, group, lid}
  Call = {c1, c2}
  NoAlias = NoAlias
  Msg <- Seen
SYMMETRY Requests
INVARIANTS TypeOK 
CHECK_DEADLOCK FALSE
