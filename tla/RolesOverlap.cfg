SPECIFICATION UserRolesSpec
CONSTANTS
  Role = {"student", "teacher", "admin"}
  Handler = {h1, h2}
  MaxRequests = 3
INVARIANTS
  RolesWhole
CHECK_DEADLOCK FALSE
