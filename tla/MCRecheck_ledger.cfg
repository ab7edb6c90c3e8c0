SPECIFICATION Spec
CONSTANTS
  concert = concert
  encore = encore
  day = day
  old = old
  new = new
  None = None
  Event = {concert, encore}
  Field = {day}
  Value = {old, new}
  UrlOf <- MCUrlOf
  Reading <- MCReading
  Version <- MCVersion
  Window = 1
  MaxClock = 2
  MaxProbes = 1
  MaxApplies = 2
INVARIANTS
  OfferedWasLookedAt
  LedgerTellsAll
  SharedPageOneReading
CHECK_DEADLOCK FALSE
