SPECIFICATION FairSpec
CONSTANTS
  place = place
  patch = patch
  wipe = wipe
  wording = wording
  Record = {wipe, wording}
  Owner <- MCOwner
  Needs <- MCNeeds
  Malformed = {wording}
  Wipe = {wipe}
  Collected = {}
  Slot = {1, 2, 3, 4}
  DeliveryLimit = 1
  Prefetch = 2
  MaxFaults = 2
  MaxRepairs = 1
INVARIANT AppliedOnce
PROPERTIES Settles WipeErasesOutbox Implements
CHECK_DEADLOCK FALSE
