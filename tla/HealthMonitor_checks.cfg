\* A worker and an API pod, two failed checks in a row are one too many.
SPECIFICATION Spec
CONSTANTS
  w1 = w1
  w2 = w2
  a1 = a1
  Workers = {w1}
  ApiPods = {a1}
  NoPod = NoPod
  Threshold = 1
  MaxCount = 2
  MaxFaults = 1
INVARIANTS TypeOK FlagFollowsCheck AlertsSpaced
PROPERTY WipesFollowFailures
CHECK_DEADLOCK FALSE
