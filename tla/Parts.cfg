SPECIFICATION PartsSpec
CONSTANTS
  Lesson = {l1}
  Req = {r1, r2, r3}
  None = None
  Durations = {0, 10}
  Reports = {8, 9, 10}
  Duration = 7
  ReportInterval = 3
  MaxLag = 2
  MaxReports = 4
  MaxPlayed = 11
  Bpms = {0, 240}
  Bars = {0, 2}
  Subdivisions = {1, 4}
  DefaultBpm = 240
  DefaultBars = 2
  Lookahead = 2
  MaxIdle = 3
  MaxTime = 7
  MaxRuns = 2
  Press = {p1, p2, p3}
  Note = {n1, n2}
  Cents = {0, 10}
  Nobody = Nobody
  Window = 3
  Role = {"student", "teacher"}
  Handler = {h1, h2}
  MaxRequests = 4
  MaxSeeds = 3
  MaxCopies = 2
  MaxActs = 3
INVARIANTS
  PartsTypeOK
  NoReportLost
  EnoughCompletes
  LessonPlayed
  InTime
  TunerTruthful
  RolesAndLog
PROPERTIES
  CompletionFinal
  GridKept
  SeedRepeatable
CHECK_DEADLOCK FALSE
