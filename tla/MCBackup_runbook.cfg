SPECIFICATION Spec
CONSTANTS
  Record <- MCRecord
  Owner <- MCOwner
  Wipe = {4}
  Collected = {1}
  Invocation <- MCInvocation
  Histories <- MCHistories
  MaxFaults = 1
  Services <- MCServices
  None = None
INVARIANT ProtectsEverythingAccepted
CHECK_DEADLOCK FALSE
