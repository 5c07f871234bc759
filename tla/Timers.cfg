SPECIFICATION Spec
CONSTANTS
  MissedPolicy = "fire_once"
  Durations = {2}
  Delays = {1}
  Cadences = {2}
  None = None
  MaxItems = 2
  MaxTime = 3
  MaxFaults = 1
INVARIANTS TypeOK TimeConserved FiresOnce
PROPERTIES CancelIsFinal PollLeavesNothingDue
