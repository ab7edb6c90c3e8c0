SPECIFICATION FairSpec
CONSTANTS
  walk = walk
  swim = swim
  monday = monday
  tuesday = tuesday
  askWalk = askWalk
  everything = everything
  correct = correct
  wipe = wipe
  Activity = {walk, swim}
  Supported <- MCSupported
  Refused = {}
  Version = {monday, tuesday}
  Patch = {correct}
  Request = {askWalk}
  Reenrich = {everything}
  Wipe = {wipe}
  AsOf <- MCAsOf
  Score <- MCScore
  TopN = 1
  AskedFor <- MCAskedFor
  Selected <- MCSelected
  WithDeferred = {everything}
  MaxInvalid = 2
  Batch = 1
  None = None
  MaxInFlight = 2
  MaxFaults = 1
INVARIANTS
  ScoresFollowForecast
  WordingFitsScore
  AskedForIsQueued
PROPERTIES
  NewestForecastStands
  EverythingSettles
CHECK_DEADLOCK FALSE
