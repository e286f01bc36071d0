SPECIFICATION Spec
CONSTANTS
  Lesson = {l1}
  Req = {r1, r2}
  None = None
  Durations = {0}
  Reports = {8, 9}
PROPERTIES
  WatchedNeverReduced
CHECK_DEADLOCK FALSE
