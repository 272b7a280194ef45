\* Two panels, three runs of which one is kept.
SPECIFICATION Spec
CONSTANTS
  Runs = {1, 2, 3}
  Keep = 1
  MaxLines = 2
  NoRun = 0
  Panels = {b1, b2}
  MaxClicks = 3
INVARIANTS TypeOK Mutex MemoryBounded PanelTruthful
PROPERTIES VerdictFinal MutexReleased PanelSettles
CHECK_DEADLOCK FALSE
