CONSTANTS
  User = {u1}
  Password = {w1, w2}
  u1 = u1
  w1 = w1
  w2 = w2
  NoPassword = none
  AccessTTL = 1
  RefreshTTL = 2
  CodeTTL = 1
  LinkTTL = 1
  MaxRequests = 4
  MaxInFlight = 2
  MaxClock = 2
SPECIFICATION MCSpec
SYMMETRY PasswordSymmetry
INVARIANTS TypeOK EndedTokenRevoked OneSuccessor HeldTokenWorks LinkSetsOnce LinkUsedUpByPatch
CHECK_DEADLOCK FALSE
