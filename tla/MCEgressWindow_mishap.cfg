SPECIFICATION FairSpec
CONSTANTS
  r1 = r1
  r2 = r2
  Run = {r1, r2}
  Mix <- MCMix
  Deadline = 2
  Appear = 1
  MaxMishaps = 1
  None = None
INVARIANTS LeftOpenOnlyByAKill ExitTellsTruth BoundedWindow FetchKeepsItsRoute

PROPERTIES SuccessIsWhole WindowCloses
