SPECIFICATION Spec
CONSTANTS
  Weapons = {1, 2, 3, 4, 5, 6}
  WeapInfo <- MCWeapInfo
  Slots = 6
  MaxShots = 1
  MaxIds = 4
  Outings <- MCOutings
INVARIANT TypeOK
INVARIANT ScopeBacked
INVARIANT ClaimsFollow
INVARIANT RoundCounted
PROPERTY AmmoKept
CHECK_DEADLOCK FALSE
