SPECIFICATION FairSpec
CONSTANTS
  User = {u1, u2}
  Plan = {p1}
  Req = {r1, r2}
  Trial = {}
  Edited = {p1}
  None = None
  Simulated = TRUE
  ProviderActs = FALSE
  MaxEvents = 5
  MaxFaults = 1
INVARIANTS
  TypeOK
PROPERTIES
  CanceledIsFinal
  RequestsEnd
  SequentialService
CHECK_DEADLOCK FALSE
