SPECIFICATION Spec
CONSTANTS
  concert = concert
  museum = museum
  sample = sample
  concert1 = concert1
  concert1short = concert1short
  concert2 = concert2
  museum1 = museum1
  museum2 = museum2
  sample1 = sample1
  sample2 = sample2
  cancelled = cancelled
  reworded = reworded
  closed = closed
  fake = fake
  recheck = recheck
  rename = rename
  wipe1 = wipe1
  wipe2 = wipe2
  None = None
  About <- MCAbout
  AsOf <- MCAsOf
  CheckedAt <- MCCheckedAt
  WindowOf <- MCWindowOf
  DecidedAt <- MCDecidedAt
  Wording <- MCWording
  Id = {concert, museum, sample}
  Event = {concert, sample}
  Sample = {sample}
  Version = {concert1short, concert2, museum1, sample1}
  Retraction = {cancelled, reworded}
  FromApi = {reworded}
  Patch = {recheck}
  Wipe = {wipe1}
  Reinstatable = {concert, sample}
  Window = {1, 2}
  MaxBoots = 2
INVARIANTS RowFollowsLedger MarkedForAReason NoSampleByDefault
PROPERTIES DateKept RebuildRestores
CHECK_DEADLOCK FALSE
