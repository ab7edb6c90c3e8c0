-------------------------------- MODULE Trip --------------------------------
(***************************************************************************)
(* A trip: the agent plans it from five queries, the traveller saves it,   *)
(* the consumer stores the copy, and it is reopened, renamed and deleted   *)
(* later, while the rows it was copied from move on.                       *)
(*                                                                         *)
(* One traveller, with one browser session.  Module Delivery supplies the  *)
(* write path: an accepted envelope is stored at most once, in any order.  *)
(***************************************************************************)
EXTENDS Published

CONSTANTS
  Interest,      \* what a traveller may tick
  Matching,      \* Matching[i]: the place categories of interest i
  Tags,          \* Tags[a]: the interests activity a appeals to
  Venues,        \* Venues[a]: the place categories that are a venue for a; a typed
                 \* activity has neither
  Request,       \* requests the planner page can send
  PlaceRank,     \* the order of stored places, by category and name
  ActivityRank,  \* the order of activity keys
  InterestBonus, RepeatPenalty,
  MaxVenues,     \* MAX_VENUE_PLACES
  MaxPicks,      \* places a day names besides
  MaxTrips,      \* bound: trips saved; with the last saved, nothing more is built
  MaxRenames     \* bound: renames sent

ASSUME TripAssumption ==
  /\ Request \subseteq [from : Day, to : Day, interests : SUBSET Interest,
                        only : SUBSET Activity, varied : BOOLEAN]
  /\ \A r \in Request : r.from <= r.to
  /\ InterestBonus \in Nat /\ RepeatPenalty \in Nat
  /\ MaxVenues \in Nat \ {0} /\ MaxPicks \in Nat \ {0}
  /\ ActivityRank \in [Name -> Nat]
  /\ \A a, b \in Name : ActivityRank[a] = ActivityRank[b] => a = b
  /\ \A a \in Typed : Tags[a] = {} /\ Venues[a] = {}
  /\ None \notin Name
  /\ MaxTrips \in Nat /\ MaxRenames \in Nat

Id == 1..MaxTrips

\* A planned day: the forecast it is stamped with, the one the score of its activity
\* was made from (0 without a score on show), and what it names.
PlannedDay == [asof : 1..MaxForecast, scored : 0..MaxForecast, pick : Name \cup {None},
               venues : SUBSET Place, places : SUBSET Place, events : SUBSET Event]

\* The days of a plan, None where it has none.
Days   == [Day -> PlannedDay \cup {None}]
NoDays == [d \in Day |-> None]
Planned(days) == {d \in Day : days[d] # None}

ASSUME NoneAssumption == None \notin PlannedDay \cup Days

VARIABLES
  doing,    \* the request under way and what its queries have returned
  screen,   \* the plan in the session, built or reopened
  lane,     \* envelopes accepted by the api and not yet stored
  trips,    \* trips[i]: the days of stored itinerary i, None without a row
  revised,  \* itineraries with rows in record_history
  saved,    \* ids given out by the api
  deleted,  \* deletions stored
  renames

tripVars == <<doing, screen, lane, trips, revised, saved, deleted, renames>>
vars     == <<storeVars, tripVars>>

\* The plan so far: its days, how often each activity was chosen, the venues spent
\* and the places shown.
NoPlan == [days |-> NoDays, chosen |-> [a \in Name |-> 0], venues |-> {}, shown |-> {}]

Idle ==
  [step |-> "idle", request |-> None, held |-> {}, gone |-> {}, forecast |-> NoRows,
   scores |-> NoScores, places |-> {}, city |-> {}, events |-> {}, plan |-> NoPlan,
   trip |-> None, days |-> NoDays, live |-> {}]

NoScreen ==
  [kind |-> "none", trip |-> None, request |-> None, days |-> NoDays, leftOut |-> {},
   told |-> {}, now |-> NoRows, held |-> {}, gone |-> {}]

Trips == {i \in Id : trips[i] # None}
Asked(r) == {d \in Day : r.from <= d /\ d <= r.to}

--------------------------------------------------------------------------
(* The plan, from the rows read. *)

\* The first n of S in the order of rank.
FirstOf(S, n, rank) == {x \in S : Cardinality({y \in S : rank[y] < rank[x]}) < n}

\* plan_day, for the rows of one day: a bonus for a ticked interest, a penalty for
\* every earlier day that chose the activity; ties break on the key.  A row without a
\* score ranks as one of 0.
Adjusted(r, rows, used, a) ==
  ((IF rows[a] = 0 THEN 0 ELSE Score[rows[a]][a])
   + IF Tags[a] \cap r.interests # {} THEN InterestBonus ELSE 0)
  - (IF r.varied THEN RepeatPenalty * used[a] ELSE 0)
Ranked(r, rows) == {a \in Name : rows[a] # None /\ (r.only # {} => a \in r.only)}
Chosen(r, rows, used) ==
  LET better(a, b) == \/ Adjusted(r, rows, used, a) > Adjusted(r, rows, used, b)
                      \/ /\ Adjusted(r, rows, used, a) = Adjusted(r, rows, used, b)
                         /\ ActivityRank[a] < ActivityRank[b]
  IN CHOOSE a \in Ranked(r, rows) : \A b \in Ranked(r, rows) \ {a} : better(a, b)

\* venue_places: stored places that are a venue for the activity, not yet spent on
\* an earlier day.
VenuesFor_Unspent(a, known, spent) ==
  FirstOf({p \in known : CategoryOf[p] \in Venues[a]}, MaxVenues, PlaceRank)
VenuesFor(a, known, spent) ==
  FirstOf({p \in known : CategoryOf[p] \in Venues[a]} \ spent, MaxVenues, PlaceRank)

\* One covered day of build_itinerary, after the plan so far.
PickOf(plan, d, got) ==
  IF Ranked(got.request, got.scores[d]) = {} THEN None
  ELSE Chosen(got.request, got.scores[d], plan.chosen)
ScoredOf(plan, d, got) ==
  IF PickOf(plan, d, got) = None THEN 0 ELSE got.scores[d][PickOf(plan, d, got)]
VenuesOf(plan, d, got) ==
  IF PickOf(plan, d, got) = None THEN {}
  ELSE VenuesFor(PickOf(plan, d, got), got.city, plan.venues)
Listed(got, but) == FirstOf(got.places \ but, MaxPicks, PlaceRank)
Fresh(plan, d, got) == Listed(got, plan.shown \cup VenuesOf(plan, d, got))

\* When every listed place has been on show the rotation starts over, without
\* noting what this day shows.
DayOf(plan, d, got) ==
  [asof |-> got.forecast[d], scored |-> ScoredOf(plan, d, got),
   pick |-> PickOf(plan, d, got),
   venues |-> VenuesOf(plan, d, got),
   places |-> IF Fresh(plan, d, got) = {} THEN Listed(got, VenuesOf(plan, d, got))
              ELSE Fresh(plan, d, got),
   events |-> {e \in got.events : d \in Runs[e]}]
Counted(plan, d, got) ==
  [a \in Name |-> IF a = PickOf(plan, d, got) THEN plan.chosen[a] + 1 ELSE plan.chosen[a]]

Extend(plan, d, got) ==
  [days   |-> [plan.days EXCEPT ![d] = DayOf(plan, d, got)],
   chosen |-> Counted(plan, d, got),
   venues |-> plan.venues \cup VenuesOf(plan, d, got),
   shown  |-> IF Fresh(plan, d, got) = {} THEN {} ELSE plan.shown \cup Fresh(plan, d, got)]

\* stored_forecast_days: the asked days this city has a row for, and the others.
Covered(got) == DaysOf(got.forecast)
LeftOut_OutsideWindow(got) == Asked(got.request) \ Window
LeftOut(got) == Asked(got.request) \ Covered(got)

\* render_day: the copies a day's card names, under the three keys it keeps them in.
NamedOn(day) == day.venues \cup day.places \cup day.events
Names(days) == UNION {NamedOn(days[d]) : d \in Planned(days)}
\* _drop_withdrawn looks the copies up by id, under each of the keys.
KeptDay_WithoutVenues(day, live) ==
  [day EXCEPT !.places = @ \cap live, !.events = @ \cap live]
KeptDay(day, live) ==
  [day EXCEPT !.venues = @ \cap live, !.places = @ \cap live, !.events = @ \cap live]
Kept(days, live) ==
  [d \in Day |-> IF days[d] = None THEN None ELSE KeptDay(days[d], live)]

\* render_plan_staleness: a day's own stamp against the row stored for it now.
Newest(stamps) == {n \in stamps : \A k \in stamps : k <= n}
Refreshed_ByPlanStamp(days, now) ==
  LET stored == {now[d] : d \in Day} \ {0}
  IN stored # {} /\ Newest(stored) # Newest({days[d].asof : d \in Planned(days)})
Refreshed(days, now) == \E d \in Planned(days) : now[d] # 0 /\ now[d] # days[d].asof
Told(days, now) ==
  (IF Refreshed(days, now) THEN {"refreshed"} ELSE {})
  \cup (IF \E d \in Planned(days) : now[d] = 0 THEN {"outside"} ELSE {})

\* plan_from_saved, for the renderer of a built plan.  The count of dropped copies
\* that came with the row, withdrawn_since_saved, is not taken over and never shown.
FromSaved(row, now) ==
  [NoScreen EXCEPT !.kind = "reopened", !.trip = row.trip, !.days = Kept(row.days, row.live),
                   !.told = Told(row.days, now), !.now = now, !.gone = row.gone]

--------------------------------------------------------------------------

Init ==
  /\ PublishedInit
  /\ doing = Idle /\ screen = NoScreen
  /\ lane = {} /\ trips = [i \in Id |-> None]
  /\ revised = {} /\ saved = 0 /\ deleted = {} /\ renames = 0

(* build_itinerary: one query a step, until the rows are all there, and then one   *)
(* day a step.                                                                      *)

Querying(step) == doing.step = step
Untouched == UNCHANGED <<storeVars, lane, trips, revised, saved, deleted, renames>>

\* Without a row for any asked day the answer is 422 and nothing else is read.
Build(r) ==
  /\ doing = Idle /\ saved < MaxTrips
  /\ Held \cap Asked(r) # {}
  /\ doing' = [Idle EXCEPT !.step = "scores", !.request = r, !.held = Held,
                           !.gone = withdrawn, !.forecast = ForecastRows(Asked(r))]
  /\ UNCHANGED screen /\ Untouched

\* The later queries ask from the first covered day to the last.
Span == {d \in Day : \E a, b \in Covered(doing) : a <= d /\ d <= b}

ReadScores ==
  /\ Querying("scores")
  /\ doing' = [doing EXCEPT !.step = "places", !.scores = ScoreRows(Span)]
  /\ UNCHANGED screen /\ Untouched

\* The ticked interests narrow the first list; the second, of the whole city, is
\* another query, and only then.
Categories(r) == UNION {Matching[i] : i \in r.interests}
ReadPlaces ==
  /\ Querying("places")
  /\ \/ /\ Categories(doing.request) = {}
        /\ doing' = [doing EXCEPT !.step = "events", !.places = AllPlaces, !.city = AllPlaces]
     \/ /\ Categories(doing.request) # {}
        /\ doing' = [doing EXCEPT !.step = "city",
                                  !.places = PlacesIn(Categories(doing.request))]
  /\ UNCHANGED screen /\ Untouched

ReadCityPlaces ==
  /\ Querying("city")
  /\ doing' = [doing EXCEPT !.step = "events", !.city = AllPlaces]
  /\ UNCHANGED screen /\ Untouched

ReadEvents ==
  /\ Querying("events")
  /\ doing' = [doing EXCEPT !.step = "days", !.events = CurrentEvents(Span)]
  /\ UNCHANGED screen /\ Untouched

\* The covered days in their order.
Left == Covered(doing) \ Planned(doing.plan.days)
PlanDay(d) ==
  /\ Querying("days")
  /\ d \in Left /\ \A x \in Left : d <= x
  /\ doing' = [doing EXCEPT !.plan = Extend(doing.plan, d, doing)]
  /\ UNCHANGED screen /\ Untouched

Present ==
  /\ Querying("days")
  /\ Left = {}
  /\ screen' = [NoScreen EXCEPT !.kind = "built", !.request = doing.request,
                                !.days = doing.plan.days, !.leftOut = LeftOut(doing),
                                !.held = doing.held, !.gone = doing.gone]
  /\ doing' = Idle
  /\ Untouched

--------------------------------------------------------------------------
(* The traveller, the api and the consumer. *)

Accept(kind, i, days) ==
  lane' = lane \cup {[kind |-> kind, trip |-> i, days |-> days]}

\* render_save: only a built plan is saved; every click is a new itinerary.
Save ==
  /\ doing = Idle /\ screen.kind = "built"
  /\ saved < MaxTrips /\ saved' = saved + 1
  /\ Accept("save", saved + 1, screen.days)
  /\ UNCHANGED <<storeVars, doing, screen, trips, revised, deleted, renames>>

\* GET /itineraries/<id>: the row, then which of its listings and places are live.
Reopen(i) ==
  /\ doing = Idle
  /\ i \in Trips
  /\ doing' = [Idle EXCEPT !.step = "live_events", !.trip = i, !.days = trips[i],
                           !.gone = withdrawn]
  /\ UNCHANGED screen /\ Untouched

LiveEvents ==
  /\ Querying("live_events")
  /\ doing' = [doing EXCEPT !.step = "live_places", !.live = Event \ withdrawn]
  /\ UNCHANGED screen /\ Untouched

LivePlaces ==
  /\ Querying("live_places")
  /\ doing' = [doing EXCEPT !.step = "staleness", !.live = @ \cup (Place \ withdrawn)]
  /\ UNCHANGED screen /\ Untouched

Render ==
  /\ Querying("staleness")
  /\ screen' = FromSaved(doing, ForecastRows(Planned(doing.days)))
  /\ doing' = Idle
  /\ Untouched

\* The page offers what GET /itineraries lists, so a trip that is stored.
Offered_Accepted == 1..saved
Offered == Trips

\* The plan on the screen goes with its row.
Delete(i) ==
  /\ doing = Idle
  /\ i \in Offered
  /\ Accept("delete", i, NoDays)
  /\ screen' = IF screen.trip = i THEN NoScreen ELSE screen
  /\ UNCHANGED <<storeVars, doing, trips, revised, saved, deleted, renames>>

Rename ==
  /\ doing = Idle /\ screen.kind = "reopened"
  /\ renames < MaxRenames /\ renames' = renames + 1
  /\ Accept("rename", screen.trip, NoDays)
  /\ UNCHANGED <<storeVars, doing, screen, trips, revised, saved, deleted>>

Stored(m) == m \in lane /\ lane' = lane \ {m}

StoreSave(m) ==
  /\ m.kind = "save" /\ Stored(m)
  /\ trips' = [trips EXCEPT ![m.trip] = m.days]
  /\ UNCHANGED <<storeVars, doing, screen, revised, saved, deleted, renames>>

\* The row and its history go in one transaction.
Erased_RowOnly(i) == trips' = [trips EXCEPT ![i] = None] /\ UNCHANGED revised
Erased(i) == trips' = [trips EXCEPT ![i] = None] /\ revised' = revised \ {i}
StoreDelete(m) ==
  /\ m.kind = "delete" /\ Stored(m)
  /\ Erased(m.trip)
  /\ deleted' = deleted \cup {m.trip}
  /\ UNCHANGED <<storeVars, doing, screen, saved, renames>>

\* apply_patch: a row that is gone makes the message poison; the trigger files the
\* revision of one that is there.
StoreRename(m) ==
  /\ m.kind = "rename" /\ Stored(m)
  /\ revised' = revised \cup ({m.trip} \cap Trips)
  /\ UNCHANGED <<storeVars, doing, screen, trips, saved, deleted, renames>>

Traveller == \/ \E r \in Request : Build(r)
             \/ Save \/ \E i \in Id : Reopen(i) \/ Delete(i)
             \/ Rename
Agent     == \/ ReadScores \/ ReadPlaces \/ ReadCityPlaces \/ ReadEvents
             \/ \E d \in Day : PlanDay(d)
             \/ Present
Api       == LiveEvents \/ LivePlaces \/ Render
Consumer  == \/ StoreStep /\ UNCHANGED tripVars
             \/ \E m \in lane : StoreSave(m) \/ StoreDelete(m) \/ StoreRename(m)

Next == Traveller \/ Agent \/ Api \/ Consumer
Spec == Init /\ [][Next]_vars

--------------------------------------------------------------------------

Rows == [Day -> 0..MaxForecast]

Plan == [days : Days, chosen : [Name -> Nat], venues : SUBSET Place, shown : SUBSET Place]

Doing ==
  [step : {"idle", "scores", "places", "city", "events", "days",
           "live_events", "live_places", "staleness"},
   request : Request \cup {None}, held : SUBSET Day, gone : SUBSET (Place \cup Event),
   forecast : Rows, scores : [Day -> [Name -> Row]], places : SUBSET Place, city : SUBSET Place,
   events : SUBSET Event, plan : Plan, trip : Id \cup {None}, days : Days,
   live : SUBSET (Place \cup Event)]

Screen ==
  [kind : {"none", "built", "reopened"}, trip : Id \cup {None},
   request : Request \cup {None}, days : Days, leftOut : SUBSET Day,
   told : SUBSET {"refreshed", "outside"}, now : Rows, held : SUBSET Day,
   gone : SUBSET (Place \cup Event)]

Message == [kind : {"save", "delete", "rename"}, trip : Id, days : Days]

TypeOK ==
  /\ PublishedTypeOK
  /\ doing \in Doing
  /\ screen \in Screen
  /\ lane \subseteq Message
  /\ trips \in [Id -> Days \cup {None}]
  /\ revised \subseteq Trips
  /\ saved \in 0..MaxTrips /\ renames \in 0..MaxRenames
  /\ deleted \subseteq 1..saved /\ Trips \subseteq 1..saved

Built    == screen.kind = "built"
Reopened == screen.kind = "reopened"

\* A reopened plan that shows a score the stored forecast no longer gives says that
\* the forecast was refreshed, although build_itinerary read the stamps and the
\* scores in two queries and the plan was saved long ago.  So for every activity of
\* the catalogue; for a typed one, whose score no new forecast replaces, where it was
\* made from the forecast the day is stamped with or a later one.
StalenessTold ==
  Reopened =>
    \A d \in Planned(screen.days) :
      LET day == screen.days[d]
      IN (/\ day.scored # 0 /\ screen.now[d] # 0 /\ day.scored # screen.now[d]
          /\ day.pick \in Activity \/ day.asof <= day.scored)
           => "refreshed" \in screen.told

\* No plan, built or reopened, names a row that was withdrawn when the page asked
\* for it, under any of the keys a day keeps copies in.
NothingWithdrawnShown == Names(screen.days) \cap screen.gone = {}

\* Every asked day is planned or said to be left out, never both; a day is planned
\* if the city had a row for it when the page asked, and only if it has one.
DaysAccounted ==
  Built => LET asked == Asked(screen.request)
               planned == Planned(screen.days)
           IN /\ asked = planned \cup screen.leftOut
              /\ planned \cap screen.leftOut = {}
              /\ asked \cap screen.held \subseteq planned
              /\ planned \subseteq Held

\* A venue is spent on one day of a plan, and no day names a place both as its
\* venue and among its other places, with the two lists read at different times.
VenuesOnce ==
  Built => \A d \in Planned(screen.days) :
             /\ screen.days[d].venues \cap screen.days[d].places = {}
             /\ \A x \in Planned(screen.days) \ {d} :
                  screen.days[d].venues \cap screen.days[x].venues = {}

\* Once a deletion is stored neither the trip nor its history comes back, whatever
\* saves and renames are still on their way.
DeletedStaysDeleted == deleted \cap (Trips \cup revised) = {}
==========================================================================
