SPECIFICATION Spec
CONSTANTS
  concert = concert
  museum = museum
  sample = sample
  concert1 = concert1
  concert1short = concert1short
  concert2 = concert2
  museum1 = museum1
  museum2 = museum2
  sample1 = sample1
  sample2 = sample2
  cancelled = cancelled
  reworded = reworded
  closed = closed
  fake = fake
  recheck = recheck
  rename = rename
  wipe1 = wipe1
  wipe2 = wipe2
  None = None
  About <- MCAbout
  AsOf <- MCAsOf
  CheckedAt <- MCCheckedAt
  WindowOf <- MCWindowOf
  DecidedAt <- MCDecidedAt
  Wording <- MCWording
  Id = {concert}
  Event = {concert}
  Sample = {}
  Version = {concert1, concert2}
  Retraction = {cancelled, reworded}
  FromApi = {reworded}
  Patch = {}
  Wipe = {}
  Reinstatable = {concert}
  Window = {2}
  MaxBoots = 1
PROPERTY CorrectionStands
CHECK_DEADLOCK FALSE
