SPECIFICATION FairSpec
CONSTANTS
  User = {u1, u2}
  Call = {c1, c2}
  None = None
  MaxPairs = 2
  MaxVersion = 3
INVARIANTS
  AppsTypeOK
  StorageMatches
  SavedIsShown
PROPERTIES
  SignedOutForReason
  SavedAsTyped
  AppsEnd
CHECK_DEADLOCK FALSE
