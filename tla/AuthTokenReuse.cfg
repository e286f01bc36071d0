SPECIFICATION Spec
CONSTANTS
  User = {u1}
  Req = {r1, r2}
  None = None
  MayFail = FALSE
  MaxRefresh = 3
  MaxMail = 1
  MaxPassword = 1
INVARIANTS
  OneUsePerToken
