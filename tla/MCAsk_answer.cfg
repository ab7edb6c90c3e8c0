SPECIFICATION Spec
CONSTANTS
  beachDay = beachDay
  fest = fest
  surfing = surfing
  kite = kite
  bay = bay
  tate = tate
  cup = cup
  gig = gig
  concert = concert
  sport = sport
  festival = festival
  None = None
  Day = {1, 2, 3}
  OtherDays = {1, 2}
  Activity = {beachDay, fest, surfing}
  Supported = {beachDay, fest}
  Typed = {kite}
  Carries <- MCCarries
  Place = {bay, tate}
  Event = {cup, gig}
  Kind = {concert, sport, festival}
  CategoryOf <- MCCategoryOf
  Runs <- MCRuns
  KindOf <- MCKindOf
  At <- MCAt
  Venues <- MCVenues
  Score <- MCScore
  Question <- MCQuestion
  Clause <- MCClause
  MaxClauses = 2
  Wanted = {beachDay, kite}
  MaxForecast = 1
  MaxChanges = 2
  MaxQuestions = 1
INVARIANTS
  NoInventedListing
  NoBorrowedScore
  GapsSurvive
  NoDayBothWays
CHECK_DEADLOCK FALSE
