----------------------------- MODULE TripProofs -----------------------------
(***************************************************************************)
(* What module Trip's steps keep.  The properties are about the plan on    *)
(* the page; the invariant follows the rows it is made of to where they    *)
(* were read: the request under way, the envelopes on their way to the     *)
(* database and the stored itineraries.                                    *)
(***************************************************************************)
EXTENDS Trip, NaturalsInduction, WellFoundedInduction, TLAPS

Planning == {"scores", "places", "city", "events", "days"}

\* A supported activity is scored from the stored forecast, a typed one from that or
\* an older one; an activity of the catalogue this city is not scored for has no row.
RowInv ==
  \A a \in Name, d \in Day : scored[a][d] # None =>
    /\ a \in Supported \cup Typed
    /\ scored[a][d] <= weather[d]
    /\ a \in Supported => scored[a][d] = weather[d]

\* No score on a plan is newer than the stored row, or, unless a typed activity's,
\* older than the day's stamp.
Timely(days, stored) ==
  \A d \in Planned(days) : days[d].scored # 0 =>
    /\ days[d].scored <= stored[d]
    /\ days[d].pick \in Activity => days[d].asof <= days[d].scored

\* What one plan names it names once, and what it spent it knows of.
Apart(plan) ==
  /\ \A d \in Planned(plan.days) :
       /\ plan.days[d].venues \subseteq plan.venues
       /\ plan.days[d].venues \cap plan.days[d].places = {}
  /\ \A d, x \in Planned(plan.days) :
       d # x => plan.days[d].venues \cap plan.days[x].venues = {}

\* The rows of the request under way: read in this order, none of them withdrawn
\* when the page asked, and only for days that were held then.
ReadInv ==
  /\ doing.gone \subseteq withdrawn
  /\ doing.gone \cap (doing.places \cup doing.city \cup doing.events \cup doing.live) = {}
  /\ \A d \in Day : doing.forecast[d] <= weather[d]
  /\ \A d \in Day, a \in Name : doing.scores[d][a] \notin {None, 0} =>
       /\ doing.scores[d][a] <= weather[d]
       /\ a \in Activity => doing.forecast[d] <= doing.scores[d][a]
  /\ doing.step \in Planning =>
       /\ doing.request \in Request
       /\ Covered(doing) = doing.held \cap Asked(doing.request)
       /\ doing.held \subseteq Held

\* The days planned so far, and those of the row under way.
PlanInv ==
  /\ Planned(doing.plan.days) \subseteq Covered(doing)
  /\ Names(doing.plan.days) \cap doing.gone = {}
  /\ Timely(doing.plan.days, weather) /\ Timely(doing.days, weather)
  /\ Apart(doing.plan)
  /\ doing.step \in {"live_events", "live_places", "staleness"} => doing.trip \in Id

ScreenInv ==
  /\ Reopened => screen.trip \in Id
  /\ Timely(screen.days, weather)
  /\ StalenessTold /\ NothingWithdrawnShown /\ DaysAccounted /\ VenuesOnce

\* An id is given out once, saved once, and deleted after it was stored.
StoredInv ==
  /\ \A i \in Trips : Timely(trips[i], weather)
  /\ \A m \in lane : Timely(m.days, weather)
  /\ \A m \in lane : m.kind = "save" => m.trip \in (1..saved) \ (Trips \cup deleted)
  /\ \A m \in lane : m.kind = "delete" => m.trip \in Trips \cup deleted
  /\ \A m, n \in lane : m.kind = "save" /\ n.kind = "save" /\ m.trip = n.trip => m = n
  /\ deleted \cap Trips = {}

IInv == TypeOK /\ RowInv /\ ReadInv /\ PlanInv /\ ScreenInv /\ StoredInv

--------------------------------------------------------------------------
(* What the operators return. *)

\* What the assumptions say of a request, a score, a listing and the orders.
LEMMA RequestFacts ==
  ASSUME NEW r \in Request
  PROVE  /\ r.from \in Day /\ r.to \in Day /\ r.interests \in SUBSET Interest
         /\ r.only \in SUBSET Activity /\ r.varied \in BOOLEAN
  BY TripAssumption
LEMMA ScoreFacts ==
  ASSUME NEW n \in 1..MaxForecast, NEW a \in Name
  PROVE  Score[n][a] \in 0..100
  BY PublishedAssumption
LEMMA BoundFacts ==
  /\ MaxForecast \in Nat \ {0} /\ MaxTrips \in Nat /\ MaxRenames \in Nat
  /\ InterestBonus \in Nat /\ RepeatPenalty \in Nat
  BY TripAssumption, PublishedAssumption
LEMMA RankFacts ==
  /\ ActivityRank \in [Name -> Nat]
  /\ \A a, b \in Name : ActivityRank[a] = ActivityRank[b] => a = b
  BY TripAssumption
LEMMA NoneFacts == None \notin Nat /\ None \notin Name /\ None \notin PlannedDay
  BY PublishedAssumption, TripAssumption, NoneAssumption
LEMMA NameFacts ==
  /\ Name = Activity \cup Typed /\ Activity \cap Typed = {} /\ Supported \subseteq Activity
  /\ Wanted \subseteq Supported \cup Typed
  BY PublishedAssumption DEF Name

\* A row is missing, failed or scored from one of the forecasts.
LEMMA RowFacts ==
  ASSUME NEW n \in Row
  PROVE  n # None => n \in Nat /\ n \in 0..MaxForecast
  BY BoundFacts DEF Row

\* A set of natural numbers has a least element, through the library's minimal
\* elements of well-founded relations.
LEMMA LeastNatural ==
  ASSUME NEW S \in SUBSET Nat, S # {}
  PROVE  \E n \in S : \A k \in S : n <= k
<1> DEFINE R == OpToRel(<, Nat)
<1>1. PICK n \in S : \A k \in S : ~(<<k, n>> \in R)
  <2>1. IsWellFoundedOn(R, Nat)
    BY NatLessThanWellFounded, Zenon
  <2> HIDE DEF R
  <2> QED BY <2>1, WFMin
<1>2. \A k \in Nat : k < n => <<k, n>> \in R
  BY Zenon DEF OpToRel
<1>3. \A k \in S : ~(k < n)
  BY <1>1, <1>2
<1> QED BY <1>3

\* A score with its bonus and penalty is a number, and at most the bonus over 100.
LEMMA AdjustedType ==
  ASSUME NEW r \in Request, NEW rows \in [Name -> Row], NEW used \in [Name -> Nat],
         NEW a \in Name, rows[a] # None
  PROVE  /\ Adjusted(r, rows, used, a) \in Int
         /\ Adjusted(r, rows, used, a) <= 100 + InterestBonus
<1> DEFINE base    == IF rows[a] = 0 THEN 0 ELSE Score[rows[a]][a]
           bonus   == IF Tags[a] \cap r.interests # {} THEN InterestBonus ELSE 0
           penalty == IF r.varied THEN RepeatPenalty * used[a] ELSE 0
<1>1. bonus \in Nat /\ bonus <= InterestBonus
  BY BoundFacts
<1>2. penalty \in Nat
  <2>1. \A i, j \in Nat : i * j \in Nat
    OBVIOUS
  <2>2. used[a] \in Nat
    OBVIOUS
  <2> QED BY <2>1, <2>2, BoundFacts
<1>3. base \in 0..100
  <2>1. CASE rows[a] = 0
    BY <2>1
  <2>2. CASE rows[a] # 0
    <3>1. rows[a] \in 1..MaxForecast
      BY <2>2, RowFacts, BoundFacts
    <3> QED BY <2>2, <3>1, ScoreFacts
  <2> QED BY <2>1, <2>2
<1>4. Adjusted(r, rows, used, a) = (base + bonus) - penalty
  BY DEF Adjusted
<1> HIDE DEF base, bonus, penalty
<1> QED BY <1>1, <1>2, <1>3, <1>4, BoundFacts

\* One of the activities with a row beats all the others: of those with the best
\* adjusted score, the one first in the order of keys.
LEMMA ChosenType ==
  ASSUME NEW r \in Request, NEW rows \in [Name -> Row], NEW used \in [Name -> Nat],
         Ranked(r, rows) # {}
  PROVE  Chosen(r, rows, used) \in Ranked(r, rows)
<1> DEFINE offered == Ranked(r, rows)
           A(a) == Adjusted(r, rows, used, a)
           better(a, b) == A(a) > A(b) \/ (A(a) = A(b) /\ ActivityRank[a] < ActivityRank[b])
           short(a) == 100 + InterestBonus - A(a)
           best == {a \in offered : \A b \in offered : short(a) <= short(b)}
<1>1. offered \subseteq Name /\ offered # {} /\ \A a \in offered : rows[a] # None
  BY DEF Ranked
<1>2. \A a \in offered : A(a) \in Int /\ short(a) \in Nat
  <2> TAKE a \in offered
  <2>1. A(a) \in Int /\ A(a) <= 100 + InterestBonus
    BY <1>1, AdjustedType
  <2> HIDE DEF A
  <2> QED BY <2>1, BoundFacts
<1> HIDE DEF A
<1>3. best # {}
  <2>1. {short(a) : a \in offered} \in SUBSET Nat /\ {short(a) : a \in offered} # {}
    BY <1>1, <1>2
  <2>2. PICK k \in {short(a) : a \in offered} : \A j \in {short(a) : a \in offered} : k <= j
    BY <2>1, LeastNatural
  <2> QED BY <2>2
<1>4. PICK a \in best : \A b \in best : ActivityRank[a] <= ActivityRank[b]
  <2>1. {ActivityRank[b] : b \in best} \in SUBSET Nat /\ {ActivityRank[b] : b \in best} # {}
    BY <1>1, <1>3, RankFacts
  <2>2. PICK k \in {ActivityRank[b] : b \in best} :
          \A j \in {ActivityRank[b] : b \in best} : k <= j
    BY <2>1, LeastNatural
  <2> QED BY <2>2
<1>5. a \in offered /\ \A b \in offered \ {a} : better(a, b)
  <2> SUFFICES ASSUME NEW b \in offered, b # a PROVE better(a, b)
    BY <1>4
  <2>1. short(a) <= short(b) /\ a \in offered
    BY <1>4
  <2>2. A(a) >= A(b)
    BY <1>2, <2>1, BoundFacts
  <2>3. CASE A(a) > A(b)
    BY <2>3
  <2>4. CASE A(a) = A(b)
    <3>1. b \in best
      BY <2>4, <1>4
    <3>2. ActivityRank[a] <= ActivityRank[b] /\ ActivityRank[a] # ActivityRank[b]
      BY <3>1, <1>1, <1>4, <2>1, RankFacts
    <3>3. ActivityRank[a] \in Nat /\ ActivityRank[b] \in Nat
      BY <1>1, <2>1, RankFacts
    <3> QED BY <2>4, <3>2, <3>3
  <2>5. A(a) \in Int /\ A(b) \in Int
    BY <1>2, <2>1
  <2> QED BY <2>2, <2>3, <2>4, <2>5
<1>6. Chosen(r, rows, used) = CHOOSE x \in offered : \A b \in offered \ {x} : better(x, b)
  BY DEF Chosen, A
<1>7. offered = Ranked(r, rows)
  OBVIOUS
<1> HIDE DEF offered, better
<1> QED BY <1>1, <1>5, <1>6, <1>7

\* The venues of a day are stored places not yet spent.
LEMMA VenuesType ==
  ASSUME NEW plan, NEW d, NEW got
  PROVE  /\ VenuesOf(plan, d, got) \subseteq got.city
         /\ VenuesOf(plan, d, got) \cap plan.venues = {}
  BY DEF VenuesOf, VenuesFor, FirstOf

\* A day's activity is one with a row for it.
LEMMA PickType ==
  ASSUME NEW plan, NEW d, NEW got, got.request \in Request,
         got.scores[d] \in [Name -> Row], plan.chosen \in [Name -> Nat],
         PickOf(plan, d, got) # None
  PROVE  /\ PickOf(plan, d, got) \in Name
         /\ got.scores[d][PickOf(plan, d, got)] \in Row \ {None}
<1>1. Ranked(got.request, got.scores[d]) # {}
  BY DEF PickOf
<1>2. PickOf(plan, d, got) \in Ranked(got.request, got.scores[d])
  BY <1>1, ChosenType DEF PickOf
<1> QED BY <1>2 DEF Ranked

\* What a day lists besides is listed for the city and none of its venues.
LEMMA ListedType ==
  ASSUME NEW plan, NEW d, NEW got
  PROVE  /\ DayOf(plan, d, got).places \subseteq got.places
         /\ DayOf(plan, d, got).places \cap VenuesOf(plan, d, got) = {}
         /\ Fresh(plan, d, got) \subseteq got.places
<1>1. /\ Fresh(plan, d, got) \subseteq got.places \ VenuesOf(plan, d, got)
      /\ Listed(got, VenuesOf(plan, d, got)) \subseteq got.places \ VenuesOf(plan, d, got)
  BY DEF Fresh, Listed, FirstOf
<1> QED BY <1>1 DEF DayOf

\* One more day of a plan is one more day of a plan.
LEMMA ExtendType ==
  ASSUME NEW got \in Doing, NEW d \in Day, got.forecast[d] # 0, got.request \in Request
  PROVE  /\ DayOf(got.plan, d, got) \in PlannedDay
         /\ Extend(got.plan, d, got) \in Plan
<1> DEFINE plan == got.plan
           pick == PickOf(plan, d, got)
<1>1. /\ plan \in Plan /\ got.scores[d] \in [Name -> Row]
      /\ got.forecast[d] \in 0..MaxForecast /\ got.city \in SUBSET Place
      /\ got.places \in SUBSET Place /\ got.events \in SUBSET Event
  BY DEF Doing, Rows
<1>2. /\ plan.days \in Days /\ plan.chosen \in [Name -> Nat]
      /\ plan.venues \in SUBSET Place /\ plan.shown \in SUBSET Place
  BY <1>1 DEF Plan
<1>3. pick \in Name \cup {None} /\ ScoredOf(plan, d, got) \in 0..MaxForecast
  <2>1. PickOf(plan, d, got) # None =>
          /\ PickOf(plan, d, got) \in Name
          /\ got.scores[d][PickOf(plan, d, got)] \in Row \ {None}
    BY <1>1, <1>2, PickType
  <2>2. ScoredOf(plan, d, got) \in 0..MaxForecast
    BY <2>1, RowFacts, BoundFacts DEF ScoredOf
  <2> QED BY <2>1, <2>2
<1>4. VenuesOf(plan, d, got) \in SUBSET Place
  BY <1>1, VenuesType
<1>5. /\ DayOf(plan, d, got).places \in SUBSET Place
      /\ Fresh(plan, d, got) \in SUBSET Place
  BY <1>1, ListedType
<1>6. DayOf(plan, d, got) \in PlannedDay
  <2>1. got.forecast[d] \in 1..MaxForecast
    BY <1>1, BoundFacts
  <2>2. {e \in got.events : d \in Runs[e]} \in SUBSET Event
    BY <1>1
  <2> QED BY <1>1, <1>3, <1>4, <1>5, <2>1, <2>2 DEF DayOf, PlannedDay
<1>7. Counted(plan, d, got) \in [Name -> Nat]
  BY <1>2 DEF Counted
<1>8. [plan.days EXCEPT ![d] = DayOf(plan, d, got)] \in Days
  BY <1>2, <1>6 DEF Days
<1>9. (IF Fresh(plan, d, got) = {} THEN {} ELSE plan.shown \cup Fresh(plan, d, got))
        \in SUBSET Place
  BY <1>2, <1>5
<1> HIDE DEF pick
<1> QED BY <1>2, <1>4, <1>6, <1>7, <1>8, <1>9 DEF Extend, Plan

\* Dropping withdrawn copies leaves a day its stamps.
LEMMA KeptType ==
  ASSUME NEW day \in PlannedDay, NEW live
  PROVE  /\ KeptDay(day, live) \in PlannedDay
         /\ KeptDay(day, live).asof = day.asof /\ KeptDay(day, live).scored = day.scored
         /\ KeptDay(day, live).pick = day.pick
         /\ NamedOn(KeptDay(day, live)) \subseteq live
  BY DEF KeptDay, PlannedDay, NamedOn
LEMMA KeptDays ==
  ASSUME NEW days \in Days, NEW live
  PROVE  /\ Kept(days, live) \in Days
         /\ Planned(Kept(days, live)) = Planned(days)
         /\ Names(Kept(days, live)) \subseteq live
         /\ \A d \in Planned(days) : /\ Kept(days, live)[d].asof = days[d].asof
                                     /\ Kept(days, live)[d].scored = days[d].scored
                                     /\ Kept(days, live)[d].pick = days[d].pick
<1>1. \A d \in Planned(days) : days[d] \in PlannedDay
  BY DEF Days, Planned
<1>2. \A d \in Day : Kept(days, live)[d] = IF d \in Planned(days) THEN KeptDay(days[d], live)
                                           ELSE None
  BY DEF Kept, Planned
<1>3. \A d \in Planned(days) : KeptDay(days[d], live) \in PlannedDay
  BY <1>1, KeptType
<1>4. Kept(days, live) \in Days
  BY <1>2, <1>3 DEF Kept, Planned, Days
<1>5. Planned(Kept(days, live)) = Planned(days)
  BY <1>2, <1>3, NoneFacts DEF Planned
<1>6. \A d \in Planned(days) : Kept(days, live)[d] = KeptDay(days[d], live)
  BY <1>2 DEF Planned
<1>7. Names(Kept(days, live)) \subseteq live
  BY <1>1, <1>5, <1>6, KeptType DEF Names
<1> QED BY <1>1, <1>4, <1>5, <1>6, <1>7, KeptType

--------------------------------------------------------------------------
(* The invariant, step by step. *)

\* A plan of no days keeps every promise a plan makes.
LEMMA EmptyFacts ==
  /\ NoDays \in Days /\ Planned(NoDays) = {} /\ Names(NoDays) = {}
  /\ NoRows \in Rows /\ NoScores \in [Day -> [Name -> Row]]
  /\ NoPlan \in Plan /\ Apart(NoPlan)
  /\ \A stored : Timely(NoDays, stored)
<1>1. NoDays \in Days /\ Planned(NoDays) = {}
  BY DEF NoDays, Days, Planned
<1>2. Names(NoDays) = {} /\ \A stored : Timely(NoDays, stored)
  BY <1>1 DEF Names, Timely
<1>3. NoPlan \in Plan
  <2>1. [a \in Name |-> 0] \in [Name -> Nat]
    OBVIOUS
  <2> QED BY <1>1, <2>1 DEF NoPlan, Plan
<1>4. NoRows \in Rows /\ NoScores \in [Day -> [Name -> Row]]
  BY BoundFacts DEF NoRows, Rows, NoScores, Row
<1>5. Apart(NoPlan)
  BY <1>1 DEF Apart, NoPlan
<1> QED BY <1>1, <1>2, <1>3, <1>4, <1>5
LEMMA IdleType == Idle \in Doing /\ NoScreen \in Screen
  BY EmptyFacts DEF Idle, NoScreen, Doing, Screen

\* A newer forecast leaves a plan's scores no newer than the row.
LEMMA TimelyLater ==
  ASSUME NEW days \in Days, NEW old \in Rows, NEW new \in Rows,
         \A d \in Day : old[d] <= new[d], Timely(days, old)
  PROVE  Timely(days, new)
<1> SUFFICES ASSUME NEW d \in Planned(days), days[d].scored # 0
             PROVE  /\ days[d].scored <= new[d]
                    /\ days[d].pick \in Activity => days[d].asof <= days[d].scored
  BY DEF Timely
<1>1. days[d] \in PlannedDay /\ d \in Day
  BY DEF Days, Planned
<1>2. days[d].scored \in Nat /\ old[d] \in Nat /\ new[d] \in Nat
  BY <1>1, BoundFacts DEF PlannedDay, Rows
<1>3. /\ days[d].scored <= old[d]
      /\ days[d].pick \in Activity => days[d].asof <= days[d].scored
  BY DEF Timely
<1> QED BY <1>1, <1>2, <1>3

\* What the consumer stores moves forecasts on and withdraws rows, never back, and
\* keeps the supported scores with their forecast.
LEMMA StoreMovesOn ==
  ASSUME PublishedTypeOK, RowInv, StoreStep
  PROVE  /\ PublishedTypeOK' /\ RowInv'
         /\ withdrawn \subseteq withdrawn'
         /\ \A d \in Day : weather[d] <= weather'[d]
         /\ Held \subseteq Held'
<1>1. changes' \in 0..MaxChanges
  BY PublishedAssumption
     DEF PublishedTypeOK, StoreStep, StoreForecast, StoreRequest, Withdraw, GoStale,
         CheckAgain, Change
<1>2. ASSUME NEW d \in Day, StoreForecast(d)
      PROVE  /\ PublishedTypeOK' /\ RowInv' /\ withdrawn \subseteq withdrawn'
             /\ \A x \in Day : weather[x] <= weather'[x]
             /\ Held \subseteq Held'
  <2>1. /\ weather' = [weather EXCEPT ![d] = @ + 1] /\ weather[d] < MaxForecast
        /\ scored' = [a \in Name |-> IF a \in Supported
                                     THEN [scored[a] EXCEPT ![d] = weather[d] + 1]
                                     ELSE scored[a]]
        /\ UNCHANGED <<withdrawn, stale>>
    BY <1>2 DEF StoreForecast
  <2>2. weather \in [Day -> 0..MaxForecast] /\ scored \in [Name -> [Day -> Row]]
    BY DEF PublishedTypeOK
  <2>3. /\ weather' \in [Day -> 0..MaxForecast] /\ \A x \in Day : weather[x] <= weather'[x]
        /\ weather'[d] = weather[d] + 1 /\ weather[d] + 1 \in Row
        /\ \A x \in Day \ {d} : weather'[x] = weather[x]
    BY <2>1, <2>2, BoundFacts DEF Row
  <2>4. /\ scored' \in [Name -> [Day -> Row]]
        /\ \A a \in Name, x \in Day :
             scored'[a][x] = IF a \in Supported /\ x = d THEN weather[d] + 1 ELSE scored[a][x]
    BY <2>1, <2>2, <2>3
  <2>5. RowInv'
    <3> SUFFICES ASSUME NEW a \in Name, NEW x \in Day, scored'[a][x] # None
                 PROVE  /\ a \in Supported \cup Typed
                        /\ scored'[a][x] <= weather'[x]
                        /\ a \in Supported => scored'[a][x] = weather'[x]
      BY DEF RowInv
    <3>1. CASE a \in Supported /\ x = d
      BY <2>2, <2>3, <2>4, <3>1
    <3>2. CASE ~(a \in Supported /\ x = d)
      <4>1. /\ scored'[a][x] = scored[a][x] /\ a \in Supported \cup Typed
            /\ scored[a][x] <= weather[x]
            /\ a \in Supported => scored[a][x] = weather[x]
        BY <2>4, <3>2 DEF RowInv
      <4>2. scored[a][x] \in Nat /\ weather[x] \in Nat /\ weather'[x] \in Nat
        BY <2>2, <2>3, <4>1, RowFacts, BoundFacts
      <4>3. weather[x] <= weather'[x] /\ (x # d => weather'[x] = weather[x])
        BY <2>3
      <4> QED BY <3>2, <4>1, <4>2, <4>3
    <3> QED BY <3>1, <3>2
  <2>6. Held \subseteq Held'
    BY <2>2, <2>3, BoundFacts DEF Held
  <2> QED BY <1>1, <2>1, <2>3, <2>4, <2>5, <2>6 DEF PublishedTypeOK
<1>3. ASSUME NEW a \in Wanted, NEW d \in Day, StoreRequest(a, d)
      PROVE  /\ PublishedTypeOK' /\ RowInv' /\ withdrawn \subseteq withdrawn'
             /\ \A x \in Day : weather[x] <= weather'[x]
             /\ Held \subseteq Held'
  <2>1. /\ scored' = [scored EXCEPT ![a][d] = weather[d]] /\ a \in Supported \cup Typed
        /\ UNCHANGED <<weather, withdrawn, stale>> /\ a \in Name
    BY <1>3, NameFacts DEF StoreRequest
  <2>2. weather \in [Day -> 0..MaxForecast] /\ scored \in [Name -> [Day -> Row]]
    BY DEF PublishedTypeOK
  <2>3. weather[d] \in Row /\ \A x \in Day : weather[x] \in Nat
    BY <2>2, BoundFacts DEF Row
  <2>4. /\ scored' \in [Name -> [Day -> Row]]
        /\ \A b \in Name, x \in Day :
             scored'[b][x] = IF b = a /\ x = d THEN weather[d] ELSE scored[b][x]
    BY <2>1, <2>2, <2>3
  <2>5. RowInv'
    BY <2>1, <2>3, <2>4 DEF RowInv
  <2> QED BY <1>1, <2>1, <2>3, <2>4, <2>5 DEF PublishedTypeOK, Held
<1>4. ASSUME UNCHANGED <<weather, scored>>, withdrawn \subseteq withdrawn',
             withdrawn' \subseteq Place \cup Event, stale' \subseteq Event
      PROVE  /\ PublishedTypeOK' /\ RowInv'
             /\ \A x \in Day : weather[x] <= weather'[x]
             /\ Held \subseteq Held'
  BY <1>1, <1>4, BoundFacts DEF PublishedTypeOK, RowInv, Held
<1>5. CASE \E x \in Place \cup Event : x \notin withdrawn /\ Withdraw(x)
  BY <1>4, <1>5 DEF Withdraw, PublishedTypeOK
<1>6. CASE \E e \in Event : GoStale(e) \/ CheckAgain(e)
  BY <1>4, <1>6 DEF GoStale, CheckAgain, PublishedTypeOK
<1> QED BY <1>2, <1>3, <1>5, <1>6 DEF StoreStep

LEMMA StoreKeeps == ASSUME IInv, StoreStep, UNCHANGED tripVars PROVE IInv'
<1>1. /\ PublishedTypeOK /\ doing \in Doing /\ screen \in Screen /\ lane \subseteq Message
      /\ trips \in [Id -> Days \cup {None}]
  BY DEF IInv, TypeOK
<1>2. /\ PublishedTypeOK' /\ RowInv' /\ withdrawn \subseteq withdrawn'
      /\ \A d \in Day : weather[d] <= weather'[d]
      /\ Held \subseteq Held'
  BY <1>1, StoreMovesOn DEF IInv
<1>3. UNCHANGED <<doing, screen, lane, trips, revised, saved, deleted, renames>>
  BY DEF tripVars
<1>4. weather \in Rows /\ weather' \in Rows
  BY <1>1, <1>2 DEF PublishedTypeOK, Rows
<1>5. \A days \in Days : Timely(days, weather) => Timely(days, weather')
  BY <1>2, <1>4, TimelyLater
<1>6. TypeOK'
  BY <1>2, <1>3 DEF IInv, TypeOK, Trips
<1>7. ReadInv'
  <2>1. /\ \A d \in Day : /\ doing.forecast[d] \in Nat
                          /\ weather[d] \in Nat /\ weather'[d] \in Nat
        /\ \A d \in Day, a \in Name : doing.scores[d][a] # None => doing.scores[d][a] \in Nat
    BY <1>1, <1>4, BoundFacts, RowFacts DEF Doing, Rows
  <2>2. ReadInv
    BY DEF IInv
  <2> QED BY <1>2, <1>3, <2>1, <2>2 DEF ReadInv
<1>8. PlanInv'
  <2>1. doing.plan.days \in Days /\ doing.days \in Days
    BY <1>1 DEF Doing, Plan
  <2> QED BY <1>3, <1>5, <2>1 DEF IInv, PlanInv
<1>9. ScreenInv'
  <2>1. screen.days \in Days
    BY <1>1 DEF Screen
  <2> QED BY <1>2, <1>3, <1>5, <2>1
          DEF IInv, ScreenInv, Reopened, Built, StalenessTold, NothingWithdrawnShown,
              DaysAccounted, VenuesOnce
<1>10. StoredInv'
  <2>1. /\ \A i \in Trips : trips[i] \in Days
        /\ \A m \in lane : m.days \in Days
    BY <1>1 DEF Trips, Message
  <2> QED BY <1>3, <1>5, <2>1 DEF IInv, StoredInv, Trips
<1> QED BY <1>2, <1>6, <1>7, <1>8, <1>9, <1>10 DEF IInv

\* The steps of a request leave the page and the itineraries alone.
LEMMA RequestKeeps ==
  ASSUME IInv, UNCHANGED screen, Untouched, doing' \in Doing, ReadInv', PlanInv'
  PROVE  IInv'
<1>1. UNCHANGED <<weather, scored, withdrawn, stale, changes, lane, trips, revised, saved,
                  deleted, renames>>
  BY DEF Untouched, storeVars
<1>2. TypeOK'
  BY <1>1 DEF IInv, TypeOK, PublishedTypeOK, Trips
<1>3. ScreenInv'
  BY <1>1 DEF IInv, ScreenInv, Reopened, Built, StalenessTold, NothingWithdrawnShown,
              DaysAccounted, VenuesOnce, Held
<1>4. StoredInv'
  BY <1>1 DEF IInv, StoredInv, Trips
<1> QED BY <1>1, <1>2, <1>3, <1>4 DEF IInv, RowInv

\* The first query of a plan: the asked days that have a row.
LEMMA BuildKeeps == ASSUME IInv, NEW r \in Request, Build(r) PROVE IInv'
<1>1. /\ doing' = [Idle EXCEPT !.step = "scores", !.request = r, !.held = Held,
                               !.gone = withdrawn, !.forecast = ForecastRows(Asked(r))]
      /\ UNCHANGED screen /\ Untouched /\ UNCHANGED <<weather, withdrawn>>
  BY DEF Build, Untouched, storeVars
<1>2. weather \in Rows /\ withdrawn \in SUBSET (Place \cup Event) /\ Held \in SUBSET Day
  BY DEF IInv, TypeOK, PublishedTypeOK, Rows, Held
<1>3. ForecastRows(Asked(r)) \in Rows
  BY <1>2, BoundFacts DEF ForecastRows, Rows
<1>4. /\ doing' \in Doing /\ doing'.step = "scores" /\ doing'.request = r
      /\ doing'.held = Held /\ doing'.gone = withdrawn
      /\ doing'.forecast = ForecastRows(Asked(r)) /\ doing'.scores = NoScores
      /\ doing'.places = {} /\ doing'.city = {} /\ doing'.events = {} /\ doing'.live = {}
      /\ doing'.plan = NoPlan /\ doing'.days = NoDays
  BY <1>1, <1>2, <1>3, IdleType, EmptyFacts DEF Idle, Doing
<1>5. Covered(doing') = Held \cap Asked(r)
  <2>1. \A d \in Day : weather[d] \in Nat
    BY <1>2, BoundFacts DEF Rows
  <2> QED BY <1>4, <2>1 DEF Covered, DaysOf, ForecastRows, Held, Asked
<1>6. ReadInv'
  <2>1. \A d \in Day : /\ doing'.forecast[d] <= weather[d]
                       /\ \A a \in Name : doing'.scores[d][a] = None
    BY <1>2, <1>4, BoundFacts DEF ForecastRows, Rows, NoScores
  <2> QED BY <1>1, <1>4, <1>5, <2>1 DEF ReadInv, Held
<1>7. PlanInv'
  <2>1. NoPlan.days = NoDays
    BY DEF NoPlan
  <2> QED BY <1>4, <2>1, EmptyFacts DEF PlanInv
<1> QED BY <1>1, <1>4, <1>6, <1>7, RequestKeeps

\* The later queries of a plan leave its days as they are.
LEMMA QueryKeeps ==
  ASSUME IInv, UNCHANGED screen, Untouched, doing' \in Doing, ReadInv',
         UNCHANGED <<doing.gone, doing.forecast, doing.plan, doing.days>>,
         doing'.step \in Planning
  PROVE  IInv'
<1>1. UNCHANGED weather
  BY DEF Untouched, storeVars
<1>2. PlanInv'
  BY <1>1 DEF IInv, PlanInv, Covered, Planning
<1> QED BY <1>2, RequestKeeps

\* The scores of the covered days are read after their rows, so they are no older.
LEMMA ScoresKeeps == ASSUME IInv, ReadScores PROVE IInv'
<1>1. /\ doing' = [doing EXCEPT !.step = "places", !.scores = ScoreRows(Span)]
      /\ UNCHANGED screen /\ Untouched /\ UNCHANGED <<weather, withdrawn>>
      /\ doing.step \in Planning
  BY DEF ReadScores, Untouched, storeVars, Querying, Planning
<1>2. doing \in Doing /\ weather \in Rows
  BY DEF IInv, TypeOK, PublishedTypeOK, Rows
<1>3. ScoreRows(Span) \in [Day -> [Name -> Row]]
  BY DEF IInv, TypeOK, PublishedTypeOK, ScoreRows, Row
<1>4. /\ doing' \in Doing /\ doing'.step = "places" /\ doing'.scores = ScoreRows(Span)
      /\ UNCHANGED <<doing.request, doing.held, doing.gone, doing.forecast, doing.places,
                     doing.city, doing.events, doing.plan, doing.days, doing.live>>
  BY <1>1, <1>2, <1>3 DEF Doing
<1>5. ReadInv'
  <2>1. \A d \in Day : weather[d] \in Nat /\ doing.forecast[d] <= weather[d]
    BY <1>2, BoundFacts DEF Rows, IInv, ReadInv
  <2>2. ASSUME NEW d \in Day, NEW a \in Name, doing'.scores[d][a] # None
        PROVE  /\ doing'.scores[d][a] <= weather[d]
               /\ a \in Activity => doing.forecast[d] <= doing'.scores[d][a]
    <3>1. doing'.scores[d][a] = scored[a][d] /\ scored[a][d] # None
      BY <1>4, <2>2 DEF ScoreRows
    <3>2. /\ a \in Supported \cup Typed /\ scored[a][d] <= weather[d]
          /\ a \in Supported => scored[a][d] = weather[d]
      BY <3>1 DEF IInv, RowInv
    <3> QED BY <2>1, <3>1, <3>2, NameFacts
  <2> QED BY <1>1, <1>4, <2>2 DEF IInv, ReadInv, Covered, Planning, Held
<1> QED BY <1>1, <1>4, <1>5, QueryKeeps DEF Planning

\* The queries for places and listings return what is not withdrawn by then.
LEMMA PlacesKeeps == ASSUME IInv, ReadPlaces PROVE IInv'
<1> DEFINE some == PlacesIn(Categories(doing.request))
<1>1. /\ UNCHANGED screen /\ Untouched /\ UNCHANGED <<weather, withdrawn>>
      /\ doing.step \in Planning
  BY DEF ReadPlaces, Untouched, storeVars, Querying, Planning
<1>2. doing \in Doing /\ doing.gone \subseteq withdrawn
  BY DEF IInv, TypeOK, ReadInv
<1>3. /\ AllPlaces \in SUBSET Place /\ AllPlaces \cap doing.gone = {}
      /\ some \in SUBSET Place /\ some \cap doing.gone = {}
  BY <1>2 DEF AllPlaces, PlacesIn
<1>4. \/ doing' = [doing EXCEPT !.step = "events", !.places = AllPlaces, !.city = AllPlaces]
      \/ doing' = [doing EXCEPT !.step = "city", !.places = some]
  BY DEF ReadPlaces
<1> HIDE DEF some
<1>5. /\ doing' \in Doing /\ doing'.step \in Planning
      /\ doing'.places \cap doing.gone = {} /\ doing'.city \cap doing.gone = {}
      /\ UNCHANGED <<doing.request, doing.held, doing.gone, doing.forecast, doing.scores,
                     doing.events, doing.plan, doing.days, doing.live>>
  <2>1. doing.city \cap doing.gone = {}
    BY DEF IInv, ReadInv
  <2> QED BY <1>2, <1>3, <1>4, <2>1 DEF Doing, Planning
<1>6. ReadInv'
  BY <1>1, <1>5 DEF IInv, ReadInv, Covered, Held
<1> QED BY <1>1, <1>5, <1>6, QueryKeeps

LEMMA CityPlacesKeeps == ASSUME IInv, ReadCityPlaces PROVE IInv'
<1>1. /\ UNCHANGED screen /\ Untouched /\ UNCHANGED <<weather, withdrawn>>
      /\ doing.step \in Planning
      /\ doing' = [doing EXCEPT !.step = "events", !.city = AllPlaces]
  BY DEF ReadCityPlaces, Untouched, storeVars, Querying, Planning
<1>2. doing \in Doing /\ doing.gone \subseteq withdrawn
  BY DEF IInv, TypeOK, ReadInv
<1>3. AllPlaces \in SUBSET Place /\ AllPlaces \cap doing.gone = {}
  BY <1>2 DEF AllPlaces
<1>4. /\ doing' \in Doing /\ doing'.step \in Planning /\ doing'.city = AllPlaces
      /\ UNCHANGED <<doing.request, doing.held, doing.gone, doing.forecast, doing.scores,
                     doing.places, doing.events, doing.plan, doing.days, doing.live>>
  BY <1>1, <1>2, <1>3 DEF Doing, Planning
<1>5. ReadInv'
  BY <1>1, <1>3, <1>4 DEF IInv, ReadInv, Covered, Held
<1> QED BY <1>1, <1>4, <1>5, QueryKeeps

LEMMA EventsKeeps == ASSUME IInv, ReadEvents PROVE IInv'
<1> DEFINE current == CurrentEvents(Span)
<1>1. /\ UNCHANGED screen /\ Untouched /\ UNCHANGED <<weather, withdrawn>>
      /\ doing.step \in Planning
      /\ doing' = [doing EXCEPT !.step = "days", !.events = current]
  BY DEF ReadEvents, Untouched, storeVars, Querying, Planning
<1>2. doing \in Doing /\ doing.gone \subseteq withdrawn
  BY DEF IInv, TypeOK, ReadInv
<1>3. current \in SUBSET Event /\ current \cap doing.gone = {}
  BY <1>2 DEF CurrentEvents, Running
<1> HIDE DEF current
<1>4. /\ doing' \in Doing /\ doing'.step \in Planning /\ doing'.events = current
      /\ UNCHANGED <<doing.request, doing.held, doing.gone, doing.forecast, doing.scores,
                     doing.places, doing.city, doing.plan, doing.days, doing.live>>
  BY <1>1, <1>2, <1>3 DEF Doing, Planning
<1>5. ReadInv'
  BY <1>1, <1>3, <1>4 DEF IInv, ReadInv, Covered, Held
<1> QED BY <1>1, <1>4, <1>5, QueryKeeps

\* One more day of a plan: its venues come from what is not spent, its other places
\* from what is not its venue, its stamps from rows read in order.
LEMMA ExtendKeeps ==
  ASSUME IInv, NEW d \in Day, doing.step \in Planning, doing.forecast[d] # 0,
         d \notin Planned(doing.plan.days), NEW next, next = Extend(doing.plan, d, doing)
  PROVE  /\ next \in Plan
         /\ Planned(next.days) = Planned(doing.plan.days) \cup {d}
         /\ Names(next.days) \cap doing.gone = {}
         /\ Timely(next.days, weather)
         /\ Apart(next)
<1> DEFINE plan == doing.plan
           day == DayOf(plan, d, doing)
<1>1. /\ doing \in Doing /\ plan \in Plan /\ plan.days \in Days /\ doing.request \in Request
  BY DEF IInv, TypeOK, ReadInv, Doing, Plan
<1>2. day \in PlannedDay /\ next \in Plan
  BY <1>1, ExtendType
<1>3. /\ next.days = [plan.days EXCEPT ![d] = day]
      /\ next.venues = plan.venues \cup day.venues
      /\ day.asof = doing.forecast[d] /\ day.scored = ScoredOf(plan, d, doing)
      /\ day.pick = PickOf(plan, d, doing)
      /\ day.events \subseteq doing.events
      /\ day.venues \subseteq doing.city /\ day.venues \cap plan.venues = {}
      /\ day.places \subseteq doing.places /\ day.places \cap day.venues = {}
  BY VenuesType, ListedType DEF Extend, DayOf
<1> HIDE DEF day
<1>4. /\ next.days[d] = day
      /\ \A x \in Day \ {d} : next.days[x] = plan.days[x]
  BY <1>1, <1>3 DEF Days
<1>5. Planned(next.days) = Planned(plan.days) \cup {d}
  BY <1>2, <1>4, NoneFacts DEF Planned
<1>6. Names(next.days) \cap doing.gone = {}
  <2>1. NamedOn(day) \cap doing.gone = {}
    BY <1>3 DEF NamedOn, IInv, ReadInv
  <2>2. \A x \in Planned(plan.days) : NamedOn(plan.days[x]) \cap doing.gone = {}
    BY DEF IInv, PlanInv, Names
  <2>3. \A x \in Planned(next.days) : NamedOn(next.days[x]) \cap doing.gone = {}
    BY <1>4, <1>5, <2>1, <2>2 DEF Planned
  <2> QED BY <2>3 DEF Names
<1>7. Timely(next.days, weather)
  <2>1. ASSUME day.scored # 0
        PROVE  /\ day.scored <= weather[d]
               /\ day.pick \in Activity => day.asof <= day.scored
    <3>1. day.pick # None /\ day.scored = doing.scores[d][day.pick]
      BY <1>3, <2>1 DEF ScoredOf
    <3>2. day.pick \in Name /\ doing.scores[d][day.pick] # None
      BY <1>1, <1>3, <3>1, PickType DEF Doing, Plan
    <3> QED BY <1>3, <2>1, <3>1, <3>2 DEF IInv, ReadInv
  <2>2. Timely(plan.days, weather)
    BY DEF IInv, PlanInv
  <2> QED BY <1>4, <1>5, <2>1, <2>2 DEF Timely, Planned
<1>8. Apart(next)
  <2>1. Apart(plan)
    BY DEF IInv, PlanInv
  <2>2. \A x \in Planned(plan.days) : next.days[x] = plan.days[x]
    BY <1>4 DEF Planned
  <2>3. \A x \in Planned(next.days) : /\ next.days[x].venues \subseteq next.venues
                                      /\ next.days[x].venues \cap next.days[x].places = {}
    BY <1>3, <1>4, <1>5, <2>1, <2>2 DEF Apart
  <2>4. ASSUME NEW x \in Planned(next.days), NEW y \in Planned(next.days), x # y
        PROVE  next.days[x].venues \cap next.days[y].venues = {}
    <3>1. CASE x \in Planned(plan.days) /\ y \in Planned(plan.days)
      BY <2>1, <2>2, <2>4, <3>1 DEF Apart
    <3>2. CASE x = d
      BY <1>3, <1>4, <1>5, <2>1, <2>2, <2>4, <3>2 DEF Apart
    <3>3. CASE y = d
      BY <1>3, <1>4, <1>5, <2>1, <2>2, <2>4, <3>3 DEF Apart
    <3> QED BY <1>5, <3>1, <3>2, <3>3
  <2> QED BY <2>3, <2>4 DEF Apart
<1> QED BY <1>2, <1>5, <1>6, <1>7, <1>8

LEMMA PlanDayKeeps == ASSUME IInv, NEW d \in Day, PlanDay(d) PROVE IInv'
<1> DEFINE next == Extend(doing.plan, d, doing)
<1>1. /\ UNCHANGED screen /\ Untouched /\ UNCHANGED <<weather, withdrawn>>
      /\ doing.step = "days" /\ doing' = [doing EXCEPT !.plan = next]
      /\ d \in Covered(doing) /\ d \notin Planned(doing.plan.days)
  BY DEF PlanDay, Left, Untouched, storeVars, Querying
<1>2. doing \in Doing /\ doing.forecast[d] # 0 /\ doing.step \in Planning
  BY <1>1 DEF IInv, TypeOK, Covered, DaysOf, Planning
<1>3. /\ next \in Plan
      /\ Planned(next.days) = Planned(doing.plan.days) \cup {d}
      /\ Names(next.days) \cap doing.gone = {}
      /\ Timely(next.days, weather) /\ Apart(next)
  BY <1>1, <1>2, ExtendKeeps
<1> HIDE DEF next
<1>4. /\ doing' \in Doing /\ doing'.plan = next
      /\ UNCHANGED <<doing.step, doing.request, doing.held, doing.gone, doing.forecast,
                     doing.scores, doing.places, doing.city, doing.events, doing.days,
                     doing.live>>
  BY <1>1, <1>2, <1>3 DEF Doing
<1>5. ReadInv'
  BY <1>1, <1>4 DEF IInv, ReadInv, Covered, Held
<1>6. PlanInv'
  BY <1>1, <1>3, <1>4 DEF IInv, PlanInv, Covered
<1> QED BY <1>1, <1>4, <1>5, <1>6, RequestKeeps

\* The page shows another plan and nothing is under way.
LEMMA PageKeeps ==
  ASSUME IInv, doing' = Idle, Untouched, screen' \in Screen, ScreenInv'
  PROVE  IInv'
<1>1. UNCHANGED <<weather, scored, withdrawn, stale, changes, lane, trips, revised, saved,
                  deleted, renames>>
  BY DEF Untouched, storeVars
<1>2. TypeOK'
  BY <1>1, IdleType DEF IInv, TypeOK, PublishedTypeOK, Trips
<1>3. weather \in Rows
  BY DEF IInv, TypeOK, PublishedTypeOK, Rows
<1>4. ReadInv'
  BY <1>1, <1>3, BoundFacts DEF ReadInv, Idle, NoRows, NoScores, Planning, Rows
<1>5. PlanInv'
  <2>1. NoPlan.days = NoDays
    BY DEF NoPlan
  <2> QED BY <2>1, EmptyFacts DEF PlanInv, Idle
<1>6. StoredInv'
  BY <1>1 DEF IInv, StoredInv, Trips
<1> QED BY <1>1, <1>2, <1>4, <1>5, <1>6 DEF IInv, RowInv

\* All covered days are planned, and the others are said to be left out.
LEMMA PresentKeeps == ASSUME IInv, Present PROVE IInv'
<1>1. /\ doing' = Idle /\ Untouched /\ UNCHANGED <<weather, withdrawn>>
      /\ doing.step \in Planning /\ Left = {}
      /\ screen' = [NoScreen EXCEPT !.kind = "built", !.request = doing.request,
                                    !.days = doing.plan.days, !.leftOut = LeftOut(doing),
                                    !.held = doing.held, !.gone = doing.gone]
  BY DEF Present, Untouched, storeVars, Querying, Planning
<1>2. /\ doing \in Doing /\ doing.request \in Request /\ doing.plan.days \in Days
      /\ doing.held \in SUBSET Day /\ doing.gone \in SUBSET (Place \cup Event)
  BY <1>1 DEF IInv, TypeOK, ReadInv, Doing, Plan
<1>3. LeftOut(doing) \in SUBSET Day
  BY DEF LeftOut, Asked
<1>4. /\ screen' \in Screen /\ screen'.kind = "built" /\ screen'.request = doing.request
      /\ screen'.days = doing.plan.days /\ screen'.leftOut = LeftOut(doing)
      /\ screen'.held = doing.held /\ screen'.gone = doing.gone
  BY <1>1, <1>2, <1>3, IdleType DEF NoScreen, Screen
<1>5. Covered(doing) = doing.held \cap Asked(doing.request) /\ doing.held \subseteq Held
  BY <1>1 DEF IInv, ReadInv
<1>6. Planned(doing.plan.days) = Covered(doing)
  BY <1>1 DEF IInv, PlanInv, Left
<1>7. DaysAccounted'
  BY <1>1, <1>4, <1>5, <1>6 DEF DaysAccounted, LeftOut, Held
<1>8. Apart(doing.plan)
  BY DEF IInv, PlanInv
<1>9. VenuesOnce'
  BY <1>4, <1>8 DEF VenuesOnce, Apart
<1>10. ScreenInv'
  BY <1>1, <1>4, <1>7, <1>9
     DEF IInv, PlanInv, ScreenInv, Reopened, StalenessTold, NothingWithdrawnShown
<1> QED BY <1>1, <1>4, <1>10, PageKeeps

--------------------------------------------------------------------------
(* A saved trip. *)

\* Reopening reads the copy as it was stored.
LEMMA ReopenKeeps == ASSUME IInv, NEW i \in Id, Reopen(i) PROVE IInv'
<1>1. /\ UNCHANGED screen /\ Untouched /\ UNCHANGED <<weather, withdrawn>> /\ i \in Trips
      /\ doing' = [Idle EXCEPT !.step = "live_events", !.trip = i, !.days = trips[i],
                               !.gone = withdrawn]
  BY DEF Reopen, Untouched, storeVars
<1>2. /\ trips[i] \in Days /\ withdrawn \in SUBSET (Place \cup Event) /\ weather \in Rows
      /\ Timely(trips[i], weather)
  BY <1>1 DEF IInv, TypeOK, PublishedTypeOK, Trips, Rows, StoredInv
<1>3. /\ doing' \in Doing /\ doing'.step = "live_events" /\ doing'.trip = i
      /\ doing'.days = trips[i] /\ doing'.gone = withdrawn /\ doing'.forecast = NoRows
      /\ doing'.scores = NoScores /\ doing'.places = {} /\ doing'.city = {}
      /\ doing'.events = {} /\ doing'.live = {} /\ doing'.plan = NoPlan
  BY <1>1, <1>2, IdleType DEF Idle, Doing
<1>4. ReadInv'
  BY <1>1, <1>2, <1>3, BoundFacts DEF ReadInv, NoRows, NoScores, Planning, Rows
<1>5. PlanInv'
  <2>1. NoPlan.days = NoDays
    BY DEF NoPlan
  <2> QED BY <1>1, <1>2, <1>3, <2>1, EmptyFacts DEF PlanInv
<1> QED BY <1>1, <1>3, <1>4, <1>5, RequestKeeps

\* Only what is not withdrawn by then is live.
LEMMA LiveKeeps ==
  ASSUME IInv, UNCHANGED screen, Untouched, NEW s \in {"live_places", "staleness"},
         doing.step \in {"live_events", "live_places"},
         \E live \in SUBSET (Place \cup Event) :
           /\ live \cap doing.gone = {}
           /\ doing' = [doing EXCEPT !.step = s, !.live = live]
  PROVE  IInv'
<1>1. UNCHANGED <<weather, withdrawn>> /\ doing \in Doing
  BY DEF Untouched, storeVars, IInv, TypeOK
<1>2. PICK live \in SUBSET (Place \cup Event) :
        /\ live \cap doing.gone = {}
        /\ doing' = [doing EXCEPT !.step = s, !.live = live]
  OBVIOUS
<1>3. /\ doing' \in Doing /\ doing'.step = s /\ doing'.live \cap doing.gone = {}
      /\ UNCHANGED <<doing.request, doing.held, doing.gone, doing.forecast, doing.scores,
                     doing.places, doing.city, doing.events, doing.plan, doing.trip,
                     doing.days>>
  BY <1>1, <1>2 DEF Doing
<1>4. ReadInv'
  BY <1>1, <1>3 DEF IInv, ReadInv, Planning
<1>5. PlanInv'
  BY <1>1, <1>3 DEF IInv, PlanInv, Covered
<1> QED BY <1>3, <1>4, <1>5, RequestKeeps

LEMMA LiveEventsKeeps == ASSUME IInv, LiveEvents PROVE IInv'
<1>1. /\ UNCHANGED screen /\ Untouched /\ doing.step = "live_events"
      /\ doing' = [doing EXCEPT !.step = "live_places", !.live = Event \ withdrawn]
  BY DEF LiveEvents, Querying
<1>2. (Event \ withdrawn) \cap doing.gone = {}
  BY DEF IInv, ReadInv
<1> QED BY <1>1, <1>2, LiveKeeps
LEMMA LivePlacesKeeps == ASSUME IInv, LivePlaces PROVE IInv'
<1> DEFINE live == doing.live \cup (Place \ withdrawn)
<1>1. /\ UNCHANGED screen /\ Untouched /\ doing.step = "live_places"
      /\ doing' = [doing EXCEPT !.step = "staleness", !.live = live]
  BY DEF LivePlaces, Querying
<1>2. live \in SUBSET (Place \cup Event) /\ live \cap doing.gone = {}
  BY DEF IInv, TypeOK, ReadInv, Doing
<1> QED BY <1>1, <1>2, LiveKeeps

\* The stamps are compared with the rows stored now.  A score the rows no longer give
\* is older than its day's row, and the day's stamp is no newer than the score.
LEMMA RenderKeeps == ASSUME IInv, Render PROVE IInv'
<1> DEFINE now == ForecastRows(Planned(doing.days))
<1>1. /\ doing' = Idle /\ Untouched /\ UNCHANGED <<weather, withdrawn>>
      /\ doing.step = "staleness" /\ screen' = FromSaved(doing, now)
  BY DEF Render, Untouched, storeVars, Querying
<1>2. /\ doing \in Doing /\ doing.days \in Days /\ doing.trip \in Id /\ weather \in Rows
      /\ doing.gone \in SUBSET (Place \cup Event) /\ Timely(doing.days, weather)
      /\ doing.live \cap doing.gone = {}
  BY <1>1 DEF IInv, TypeOK, PublishedTypeOK, Rows, PlanInv, ReadInv, Doing
<1>3. now \in Rows
  BY <1>2, BoundFacts DEF ForecastRows, Rows
<1>4. \A d \in Planned(doing.days) : now[d] = weather[d]
  BY DEF ForecastRows, Planned
<1> HIDE DEF now
<1>5. Told(doing.days, now) \in SUBSET {"refreshed", "outside"}
  BY DEF Told
<1>6. /\ Kept(doing.days, doing.live) \in Days
      /\ Planned(Kept(doing.days, doing.live)) = Planned(doing.days)
      /\ Names(Kept(doing.days, doing.live)) \subseteq doing.live
      /\ \A d \in Planned(doing.days) :
           /\ Kept(doing.days, doing.live)[d].asof = doing.days[d].asof
           /\ Kept(doing.days, doing.live)[d].scored = doing.days[d].scored
           /\ Kept(doing.days, doing.live)[d].pick = doing.days[d].pick
  BY <1>2, KeptDays
<1>7. /\ screen' \in Screen /\ screen'.kind = "reopened" /\ screen'.trip = doing.trip
      /\ screen'.days = Kept(doing.days, doing.live) /\ screen'.now = now
      /\ screen'.told = Told(doing.days, now) /\ screen'.gone = doing.gone
  BY <1>1, <1>2, <1>3, <1>5, <1>6, IdleType DEF FromSaved, NoScreen, Screen
<1>8. Timely(screen'.days, weather)
  BY <1>2, <1>6, <1>7 DEF Timely
<1>9. StalenessTold'
  <2> SUFFICES ASSUME NEW d \in Planned(doing.days), doing.days[d].scored # 0,
                      now[d] # 0, doing.days[d].scored # now[d],
                      \/ doing.days[d].pick \in Activity
                      \/ doing.days[d].asof <= doing.days[d].scored
               PROVE  "refreshed" \in Told(doing.days, now)
    BY <1>6, <1>7 DEF StalenessTold
  <2>1. doing.days[d] \in PlannedDay /\ weather[d] \in Nat
    BY <1>2, BoundFacts DEF Days, Planned, Rows
  <2>2. /\ doing.days[d].asof <= doing.days[d].scored
        /\ doing.days[d].scored <= weather[d] /\ now[d] = weather[d]
    BY <1>2, <1>4 DEF Timely
  <2>3. doing.days[d].asof \in Nat /\ doing.days[d].scored \in Nat
    BY <2>1, BoundFacts DEF PlannedDay
  <2>4. now[d] # doing.days[d].asof
    BY <2>1, <2>2, <2>3
  <2>5. Refreshed(doing.days, now)
    BY <2>4 DEF Refreshed
  <2> QED BY <2>5 DEF Told
<1>10. NothingWithdrawnShown'
  BY <1>2, <1>6, <1>7 DEF NothingWithdrawnShown
<1>11. DaysAccounted' /\ VenuesOnce'
  BY <1>7 DEF DaysAccounted, VenuesOnce, Built
<1>12. ScreenInv'
  BY <1>1, <1>2, <1>7, <1>8, <1>9, <1>10, <1>11 DEF ScreenInv
<1> QED BY <1>1, <1>7, <1>12, PageKeeps

\* The traveller and the consumer leave the request under way alone.
LEMMA StoredKeeps ==
  ASSUME IInv, UNCHANGED <<storeVars, doing>>, TypeOK', ScreenInv', StoredInv'
  PROVE  IInv'
<1>1. UNCHANGED <<weather, scored, withdrawn, doing>>
  BY DEF storeVars
<1>2. ReadInv' /\ PlanInv'
  BY <1>1 DEF IInv, ReadInv, PlanInv, Covered, Held
<1> QED BY <1>1, <1>2 DEF IInv, RowInv
LEMMA ScreenStays ==
  ASSUME IInv, UNCHANGED <<weather, screen>>
  PROVE  ScreenInv'
  BY DEF IInv, ScreenInv, Reopened, Built, StalenessTold, NothingWithdrawnShown,
         DaysAccounted, VenuesOnce, Held

\* A save is for an id nobody has used.
LEMMA SaveKeeps == ASSUME IInv, Save PROVE IInv'
<1> DEFINE m == [kind |-> "save", trip |-> saved + 1, days |-> screen.days]
<1>1. /\ UNCHANGED <<weather, scored, withdrawn, stale, changes>>
      /\ UNCHANGED <<doing, screen, trips, revised, deleted, renames>>
      /\ lane' = lane \cup {m} /\ saved' = saved + 1 /\ saved < MaxTrips
  BY DEF Save, Accept, storeVars
<1>2. /\ TypeOK /\ saved \in Nat /\ screen.days \in Days /\ Timely(screen.days, weather)
      /\ StoredInv
  BY BoundFacts DEF IInv, TypeOK, Screen, ScreenInv
<1>3. m \in Message /\ saved + 1 \in 1..saved' /\ 1..saved \subseteq 1..saved'
  BY <1>1, <1>2, BoundFacts DEF Message, Id
<1>4. m.kind = "save" /\ m.trip = saved + 1 /\ m.days = screen.days
  OBVIOUS
<1> HIDE DEF m
<1>5. TypeOK'
  <2>1. deleted' \subseteq 1..saved' /\ Trips' \subseteq 1..saved'
    BY <1>1, <1>2, <1>3 DEF TypeOK, Trips
  <2>2. saved' \in 0..MaxTrips
    BY <1>1, <1>2, BoundFacts
  <2>3. lane' \subseteq Message
    BY <1>1, <1>2, <1>3 DEF TypeOK
  <2> QED BY <1>1, <1>2, <2>1, <2>2, <2>3 DEF TypeOK, PublishedTypeOK, Trips
<1>6. saved + 1 \notin 1..saved
  BY <1>2
<1>7. StoredInv'
  <2>1. Trips \subseteq 1..saved /\ deleted \subseteq 1..saved /\ Trips' = Trips
    BY <1>1, <1>2 DEF TypeOK, Trips
  <2>2. \A n \in lane' : Timely(n.days, weather)
    BY <1>1, <1>2, <1>4 DEF StoredInv
  <2>3. \A n \in lane' : n.kind = "save" => n.trip \in (1..saved') \ (Trips \cup deleted)
    BY <1>1, <1>2, <1>3, <1>4, <1>6, <2>1 DEF StoredInv
  <2>4. \A n \in lane' : n.kind = "delete" => n.trip \in Trips \cup deleted
    BY <1>1, <1>2, <1>4 DEF StoredInv
  <2>5. \A n, k \in lane' : n.kind = "save" /\ k.kind = "save" /\ n.trip = k.trip => n = k
    BY <1>1, <1>2, <1>4, <1>6 DEF StoredInv
  <2> QED BY <1>1, <1>2, <2>1, <2>2, <2>3, <2>4, <2>5 DEF StoredInv
<1>8. ScreenInv'
  BY <1>1, ScreenStays
<1> QED BY <1>1, <1>5, <1>7, <1>8, StoredKeeps DEF storeVars

\* A deletion or a rename names an itinerary that was stored when it was asked for.
LEMMA AskedOfStored ==
  ASSUME IInv, UNCHANGED <<storeVars, doing, trips, revised, saved, deleted>>,
         renames' \in 0..MaxRenames, screen' \in Screen, ScreenInv',
         NEW m \in Message, lane' = lane \cup {m}, m.days = NoDays,
         m.kind = "rename" \/ (m.kind = "delete" /\ m.trip \in Trips)
  PROVE  IInv'
<1>1. UNCHANGED <<weather, scored, withdrawn, stale, changes, doing, trips, revised, saved,
                  deleted>>
  BY DEF storeVars
<1>2. TypeOK /\ StoredInv
  BY DEF IInv
<1>3. TypeOK'
  BY <1>1, <1>2 DEF TypeOK, PublishedTypeOK, Trips
<1>4. StoredInv'
  BY <1>1, <1>2, EmptyFacts DEF StoredInv, Trips
<1> QED BY <1>3, <1>4, StoredKeeps

LEMMA DeleteKeeps == ASSUME IInv, NEW i \in Id, Delete(i) PROVE IInv'
<1> DEFINE m == [kind |-> "delete", trip |-> i, days |-> NoDays]
<1>1. /\ UNCHANGED <<storeVars, doing, trips, revised, saved, deleted, renames>>
      /\ lane' = lane \cup {m} /\ i \in Trips
      /\ screen' = IF screen.trip = i THEN NoScreen ELSE screen
  BY DEF Delete, Accept, Offered
<1>2. m \in Message /\ m.days = NoDays /\ m.trip = i /\ m.kind = "delete"
  BY EmptyFacts DEF Message
<1>3. /\ screen \in Screen /\ renames \in 0..MaxRenames
      /\ UNCHANGED <<weather, withdrawn>>
  BY <1>1 DEF IInv, TypeOK, storeVars
<1> HIDE DEF m
<1>4. screen' \in Screen /\ ScreenInv'
  <2>1. CASE screen.trip = i
    <3>1. screen' = NoScreen
      BY <1>1, <2>1
    <3> QED BY <3>1, IdleType, EmptyFacts
            DEF NoScreen, ScreenInv, Reopened, Built, StalenessTold, NothingWithdrawnShown,
                DaysAccounted, VenuesOnce
  <2>2. CASE screen.trip # i
    BY <1>1, <1>3, <2>2, ScreenStays
  <2> QED BY <2>1, <2>2
<1> QED BY <1>1, <1>2, <1>3, <1>4, AskedOfStored

LEMMA RenameKeeps == ASSUME IInv, Rename PROVE IInv'
<1> DEFINE m == [kind |-> "rename", trip |-> screen.trip, days |-> NoDays]
<1>1. /\ UNCHANGED <<storeVars, doing, screen, trips, revised, saved, deleted>>
      /\ lane' = lane \cup {m} /\ Reopened
      /\ renames < MaxRenames /\ renames' = renames + 1
  BY DEF Rename, Accept, Reopened
<1>2. screen.trip \in Id
  BY <1>1 DEF IInv, ScreenInv
<1>3. m \in Message /\ m.days = NoDays /\ m.kind = "rename"
  BY <1>2, EmptyFacts DEF Message
<1>4. screen' \in Screen /\ renames' \in 0..MaxRenames /\ UNCHANGED weather
  BY <1>1, BoundFacts DEF IInv, TypeOK, storeVars
<1> HIDE DEF m
<1>5. ScreenInv'
  BY <1>1, <1>4, ScreenStays
<1> QED BY <1>1, <1>3, <1>4, <1>5, AskedOfStored

\* The saved copy becomes the row; no other save for it is on its way.
LEMMA StoreSaveKeeps == ASSUME IInv, NEW m \in lane, StoreSave(m) PROVE IInv'
<1>1. /\ UNCHANGED <<weather, scored, withdrawn, stale, changes>>
      /\ UNCHANGED <<doing, screen, revised, saved, deleted, renames>>
      /\ m.kind = "save" /\ lane' = lane \ {m} /\ trips' = [trips EXCEPT ![m.trip] = m.days]
  BY DEF StoreSave, Stored, storeVars
<1>2. TypeOK /\ StoredInv /\ m \in Message
  BY DEF IInv, TypeOK
<1>3. /\ m.trip \in Id /\ m.days \in Days /\ Timely(m.days, weather)
      /\ m.trip \in 1..saved /\ m.trip \notin Trips /\ m.trip \notin deleted
      /\ trips \in [Id -> Days \cup {None}]
  BY <1>1, <1>2 DEF Message, StoredInv, TypeOK
<1>4. /\ trips' \in [Id -> Days \cup {None}] /\ trips'[m.trip] = m.days
      /\ \A i \in Id \ {m.trip} : trips'[i] = trips[i]
      /\ Trips' = Trips \cup {m.trip}
  <2>1. m.days # None
    BY <1>3, NoneAssumption
  <2> QED BY <1>1, <1>3, <2>1 DEF Trips
<1>5. TypeOK'
  BY <1>1, <1>2, <1>3, <1>4 DEF TypeOK, PublishedTypeOK
<1>6. StoredInv'
  <2>1. \A i \in Trips' : Timely(trips'[i], weather)
    BY <1>2, <1>3, <1>4 DEF StoredInv, Trips
  <2>2. \A n \in lane' : n.kind = "save" => n.trip \in (1..saved) \ (Trips' \cup deleted)
    BY <1>1, <1>2, <1>4 DEF StoredInv
  <2> QED BY <1>1, <1>2, <1>3, <1>4, <2>1, <2>2 DEF StoredInv
<1>7. ScreenInv'
  BY <1>1, ScreenStays
<1> QED BY <1>1, <1>5, <1>6, <1>7, StoredKeeps DEF storeVars

\* A deletion takes the row and its history; what is still on its way is for others.
LEMMA StoreDeleteKeeps == ASSUME IInv, NEW m \in lane, StoreDelete(m) PROVE IInv'
<1>1. /\ UNCHANGED <<weather, scored, withdrawn, stale, changes>>
      /\ UNCHANGED <<doing, screen, saved, renames>>
      /\ m.kind = "delete" /\ lane' = lane \ {m}
      /\ trips' = [trips EXCEPT ![m.trip] = None] /\ revised' = revised \ {m.trip}
      /\ deleted' = deleted \cup {m.trip}
  BY DEF StoreDelete, Stored, Erased, storeVars
<1>2. TypeOK /\ StoredInv /\ m \in Message
  BY DEF IInv, TypeOK
<1>3. /\ m.trip \in Id /\ m.trip \in Trips \cup deleted
      /\ trips \in [Id -> Days \cup {None}] /\ Trips \subseteq 1..saved
      /\ deleted \subseteq 1..saved /\ revised \subseteq Trips
  BY <1>1, <1>2 DEF Message, StoredInv, TypeOK
<1>4. /\ trips' \in [Id -> Days \cup {None}]
      /\ \A i \in Id \ {m.trip} : trips'[i] = trips[i]
      /\ Trips' = Trips \ {m.trip}
  BY <1>1, <1>3 DEF Trips
<1>5. TypeOK'
  BY <1>1, <1>2, <1>3, <1>4 DEF TypeOK, PublishedTypeOK
<1>6. StoredInv'
  <2>1. \A i \in Trips' : Timely(trips'[i], weather)
    BY <1>2, <1>4 DEF StoredInv, Trips
  <2>2. Trips' \cup deleted' = Trips \cup deleted
    BY <1>1, <1>3, <1>4
  <2>3. deleted' \cap Trips' = {}
    BY <1>1, <1>2, <1>4 DEF StoredInv
  <2> QED BY <1>1, <1>2, <2>1, <2>2, <2>3 DEF StoredInv
<1>7. ScreenInv'
  BY <1>1, ScreenStays
<1> QED BY <1>1, <1>5, <1>6, <1>7, StoredKeeps DEF storeVars

\* A revision is filed for a row that is there.
LEMMA StoreRenameKeeps == ASSUME IInv, NEW m \in lane, StoreRename(m) PROVE IInv'
<1>1. /\ UNCHANGED <<weather, scored, withdrawn, stale, changes>>
      /\ UNCHANGED <<doing, screen, trips, saved, deleted, renames>>
      /\ lane' = lane \ {m} /\ revised' = revised \cup ({m.trip} \cap Trips)
  BY DEF StoreRename, Stored, storeVars
<1>2. TypeOK'
  BY <1>1 DEF IInv, TypeOK, PublishedTypeOK, Trips
<1>3. StoredInv'
  BY <1>1 DEF IInv, StoredInv, Trips
<1>4. ScreenInv'
  BY <1>1, ScreenStays
<1> QED BY <1>1, <1>2, <1>3, <1>4, StoredKeeps DEF storeVars

--------------------------------------------------------------------------

LEMMA InitHolds == ASSUME Init PROVE IInv
<1>1. /\ weather \in [Day -> 0..1]
      /\ scored = [a \in Name |-> [d \in Day |->
                     IF a \in Supported /\ weather[d] # 0 THEN weather[d] ELSE None]]
      /\ withdrawn = {} /\ stale = {} /\ changes = 0
      /\ doing = Idle /\ screen = NoScreen /\ lane = {} /\ trips = [i \in Id |-> None]
      /\ revised = {} /\ saved = 0 /\ deleted = {} /\ renames = 0
  BY DEF Init, PublishedInit
<1>2. PublishedTypeOK
  <2>1. weather \in [Day -> 0..MaxForecast]
    BY <1>1, BoundFacts
  <2>2. MaxChanges \in Nat
    BY PublishedAssumption
  <2>3. scored \in [Name -> [Day -> Row]]
    BY <1>1, <2>1 DEF Row
  <2> QED BY <1>1, <2>1, <2>2, <2>3 DEF PublishedTypeOK
<1>3. trips \in [Id -> Days \cup {None}] /\ Trips = {}
  BY <1>1 DEF Trips
<1>4. TypeOK
  BY <1>1, <1>2, <1>3, IdleType, BoundFacts DEF TypeOK
<1>5. ReadInv
  <2>1. \A d \in Day : /\ NoRows[d] = 0 /\ weather[d] \in Nat
                       /\ \A a \in Name : NoScores[d][a] = None
    BY <1>1 DEF NoRows, NoScores
  <2> QED BY <1>1, <2>1 DEF ReadInv, Idle, Planning
<1>6. PlanInv
  <2>1. NoPlan.days = NoDays
    BY DEF NoPlan
  <2> QED BY <1>1, <2>1, EmptyFacts DEF PlanInv, Idle
<1>7. ScreenInv
  BY <1>1, EmptyFacts
     DEF NoScreen, ScreenInv, Reopened, Built, StalenessTold, NothingWithdrawnShown,
         DaysAccounted, VenuesOnce
<1>8. StoredInv
  BY <1>1, <1>3 DEF StoredInv
<1>9. RowInv
  <2>1. \A d \in Day : weather[d] \in Nat
    BY <1>1
  <2> QED BY <1>1, <2>1 DEF RowInv
<1> QED BY <1>4, <1>5, <1>6, <1>7, <1>8, <1>9 DEF IInv

LEMMA NextKeeps == IInv /\ [Next]_vars => IInv'
<1> SUFFICES ASSUME IInv, [Next]_vars PROVE IInv'
  OBVIOUS
<1>1. CASE Traveller
  BY <1>1, BuildKeeps, SaveKeeps, ReopenKeeps, DeleteKeeps, RenameKeeps DEF Traveller
<1>2. CASE Agent
  BY <1>2, ScoresKeeps, PlacesKeeps, CityPlacesKeeps, EventsKeeps, PlanDayKeeps, PresentKeeps
     DEF Agent
<1>3. CASE Api
  BY <1>3, LiveEventsKeeps, LivePlacesKeeps, RenderKeeps DEF Api
<1>4. CASE Consumer
  BY <1>4, StoreKeeps, StoreSaveKeeps, StoreDeleteKeeps, StoreRenameKeeps DEF Consumer
<1>5. CASE UNCHANGED vars
  <2>1. UNCHANGED <<weather, scored, withdrawn, stale, changes, doing, screen, lane, trips,
                    revised, saved, deleted, renames>>
    BY <1>5 DEF vars, storeVars, tripVars
  <2>2. TypeOK'
    BY <2>1 DEF IInv, TypeOK, PublishedTypeOK, Trips
  <2>3. ScreenInv' /\ StoredInv'
    BY <2>1, ScreenStays DEF IInv, StoredInv, Trips
  <2> QED BY <2>1, <2>2, <2>3, StoredKeeps DEF storeVars
<1> QED BY <1>1, <1>2, <1>3, <1>4, <1>5 DEF Next

LEMMA Invariant == Spec => []IInv
  BY InitHolds, NextKeeps, PTL DEF Spec

\* The trips, the page and the request under way have their types; no revision
\* outlives its row and no id is stored that was not given out.
THEOREM TypeCorrect == Spec => []TypeOK
<1>1. IInv => TypeOK
  BY DEF IInv
<1> QED BY <1>1, Invariant, PTL

\* A reopened plan that shows an activity of the catalogue with a score the stored
\* forecast no longer gives, or a typed one with a score of the stamped forecast or a
\* later, says that the forecast was refreshed (render_plan_staleness), whatever was
\* stored between the query for the stamps and the one for the scores, and since it was
\* saved.  A typed score older than its day's stamp is not told: score_defaults left it
\* behind.
THEOREM StaleScoresAreTold == Spec => []StalenessTold
<1>1. IInv => StalenessTold
  BY DEF IInv, ScreenInv
<1> QED BY <1>1, Invariant, PTL

\* No plan names a row that was withdrawn when the page asked for the plan: every
\* query leaves withdrawn rows out, and _drop_withdrawn the copies of a saved one.
THEOREM WithdrawnStaysOut == Spec => []NothingWithdrawnShown
<1>1. IInv => NothingWithdrawnShown
  BY DEF IInv, ScreenInv
<1> QED BY <1>1, Invariant, PTL

\* build_itinerary plans every asked day the city had a row for and says of the
\* others that they are left out.
THEOREM EveryDayAccounted == Spec => []DaysAccounted
<1>1. IInv => DaysAccounted
  BY DEF IInv, ScreenInv
<1> QED BY <1>1, Invariant, PTL

\* build_itinerary spends a venue on one day, and never lists it among the other
\* places of that day.
THEOREM VenueSpentOnce == Spec => []VenuesOnce
<1>1. IInv => VenuesOnce
  BY DEF IInv, ScreenInv
<1> QED BY <1>1, Invariant, PTL

\* After delete_itinerary neither the row nor its history comes back, whatever saves
\* and renames are still on their way.
THEOREM DeletionsStand == Spec => []DeletedStaysDeleted
<1>1. IInv => DeletedStaysDeleted
  BY DEF IInv, TypeOK, StoredInv, DeletedStaysDeleted
<1> QED BY <1>1, Invariant, PTL
=============================================================================
