SPECIFICATION Spec
CONSTANTS
  User = {u1}
  Req = {r1, r2}
  None = None
  MayFail = TRUE
  MaxRefresh = 3
  MaxMail = 2
  MaxPassword = 2
INVARIANTS
  TypeOK
  Lineage
  VerifiedByMail
  UsedOnce
  RevocationHolds
PROPERTIES
  SpentStaysSpent
SYMMETRY Symmetry
