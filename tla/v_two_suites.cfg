\* A run is cancelled and the next one started.
SPECIFICATION Spec
CONSTANTS
  Runs = {1, 2}
  Keep = 2
  MaxLines = 3
  NoRun = 0
  Panels = {b1}
  MaxClicks = 2
INVARIANTS OneSuite
CHECK_DEADLOCK FALSE
