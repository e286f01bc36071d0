SPECIFICATION FairSpec
CONSTANTS
  Live = {l1, l2}
  Req = {r1, r2}
  None = None
  MayFail = TRUE
  MaxStreams = 2
  MaxRecordings = 2
INVARIANTS
  TypeOK
  MediaOfSession
PROPERTIES
  KeepsLifecycle
  RecordingKept
  RecordingLinked
