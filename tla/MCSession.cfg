SPECIFICATION Spec
CONSTANTS
  Device = {d1, d2}
  NoDevice = nodevice
  Request = {p1, p2}
  Offered = {"login", "refresh", "chpw", "logout", "disable", "enable", "delete"}
  MaxToken = 2
  MaxGen = 1
  MaxEpoch = 2
  MaxFault = 1
  Attempts = 2
  MayExpire = TRUE
CHECK_DEADLOCK FALSE
SYMMETRY SessionSymmetry
INVARIANTS
  SingleRotation
  NoRevokedSurvivor
