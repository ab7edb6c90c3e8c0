SPECIFICATION Spec
CONSTANTS
  place = place
  patch = patch
  wipe = wipe
  wording = wording
  Record = {place, patch, wipe}
  Owner <- MCOwner
  Needs <- MCNeeds
  Malformed = {}
  Wipe = {wipe}
  Collected = {place}
  Slot = {1, 2, 3}
  DeliveryLimit = 1
  Prefetch = 2
  MaxFaults = 2
  MaxRepairs = 0
INVARIANTS TypeOK NothingLost PurgeNeverRefused
CHECK_DEADLOCK FALSE
