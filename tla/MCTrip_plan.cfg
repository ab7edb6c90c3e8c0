SPECIFICATION Spec
CONSTANTS
  beachDay = beachDay
  museumDay = museumDay
  bay = bay
  tate = tate
  cup = cup
  museums = museums
  None = None
  surfing = surfing
  kite = kite
  lastDay = 3
  Day <- MCDay
  OtherDays = {1, 3}
  Activity = {beachDay, museumDay, surfing}
  Supported = {beachDay, museumDay}
  Typed = {kite}
  Place = {bay, tate}
  Event = {cup}
  CategoryOf <- MCCategoryOf
  Runs <- MCRuns
  Score <- MCScore
  Wanted = {kite}
  MaxForecast = 2
  MaxChanges = 3
  Interest = {museums}
  Matching <- MCMatching
  Tags <- MCTags
  Venues <- MCVenues
  Request <- MCRequest
  PlaceRank <- MCPlaceRank
  ActivityRank <- MCActivityRank
  InterestBonus = 15
  RepeatPenalty = 18
  MaxVenues = 1
  MaxPicks = 1
  MaxTrips = 1
  MaxRenames = 1
INVARIANTS
  TypeOK
  StalenessTold
  NothingWithdrawnShown
  DaysAccounted
  VenuesOnce
  DeletedStaysDeleted
CHECK_DEADLOCK FALSE
