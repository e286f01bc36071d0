SPECIFICATION RetryingSpec
CONSTANTS
  User = {u1}
  Plan = {p1}
  Req = {r1, r2}
  Trial = {}
  Edited = {}
  None = None
  Simulated = FALSE
  ProviderActs = FALSE
  MaxEvents = 2
  MaxFaults = 0
PROPERTIES
  EventsTakeEffect
