\* Two handlers at a time, errors at every await.
SPECIFICATION Spec
CONSTANTS
  photo1 = photo1
  photo2 = photo2
  call = call
  h1 = h1
  h2 = h2
  Msg = {photo1, photo2, call}
  Inbound = {call}
  Call = {call}
  Twin <- SentInARow
  Slot = {h1, h2}
  NoMsg = NoMsg
  MaxEvents = 3
  MaxAcks = 1
SYMMETRY Handlers
INVARIANTS TypeOK DuplicatesNeedOverlap CountersCovered TwinsNeedOverlap
CHECK_DEADLOCK FALSE
