SPECIFICATION Spec
CONSTANTS
  User = {u1}
  Plan = {p1}
  Req = {r1, r2}
  Trial = {p1}
  Edited = {}
  None = None
  Simulated = FALSE
  ProviderActs = TRUE
  MaxEvents = 3
  MaxFaults = 1
INVARIANTS
  RecordTellsTruth
  AccessConfirmed
PROPERTIES
  ConfirmedSpec
SYMMETRY Symmetry
