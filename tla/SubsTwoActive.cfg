SPECIFICATION Spec
CONSTANTS
  User = {u1}
  Plan = {p1}
  Req = {r1, r2}
  Trial = {}
  Edited = {}
  None = None
  Simulated = TRUE
  ProviderActs = FALSE
  MaxEvents = 4
  MaxFaults = 0
INVARIANTS
  OneActivePerUser
