SPECIFICATION Spec
CONSTANTS
  MissedPolicy = "fire_once"
  Durations = {2}
  Delays = {1}
  Cadences = {2}
  None = None
  MaxItems = 1
  MaxTime = 3
  MaxFaults = 0
INVARIANT LookupAnswers
