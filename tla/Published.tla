----------------------------- MODULE Published -----------------------------
(***************************************************************************)
(* What the read side sees of one city: the forecast days with the scores  *)
(* made from them, the places and the listings.  The api's and the agent's *)
(* pools are autocommit, so every query is a snapshot of its own, and the  *)
(* consumer may store anything between two queries of one request.         *)
(*                                                                         *)
(* Modules Wording and Collected say how the rows come to be.  Here only   *)
(* their effect on a reader is kept: a forecast is replaced by a newer one *)
(* with the scores of the supported activities in one transaction, a score *)
(* is stored on request, a listing goes stale or is checked again, a       *)
(* withdrawn row leaves every read.                                        *)
(***************************************************************************)
EXTENDS Integers, FiniteSets

CONSTANTS
  Day,         \* calendar days of the city, as numbers
  OtherDays,   \* the days other cities hold a forecast for
  Activity,    \* activities of the catalogue
  Supported,   \* those this city is scored for (activities_for_city)
  Typed,       \* activities a traveller typed, which the catalogue does not hold
  Place, Event,
  CategoryOf,  \* CategoryOf[p]: the category of a place
  Runs,        \* Runs[e]: the local days listing e is active on
  Score,       \* Score[n][a]: the score of activity a under the n-th forecast
  None,
  Wanted,      \* bound: activities requested by name
  MaxForecast, \* bound: forecasts brought for a day
  MaxChanges   \* bound: rows stored, withdrawn, gone stale or re-checked

Name == Activity \cup Typed

ASSUME PublishedAssumption ==
  /\ Day \subseteq Nat /\ IsFiniteSet(Day)
  /\ OtherDays \subseteq Day
  /\ Supported \subseteq Activity /\ Activity \cap Typed = {}
  /\ Wanted \subseteq Supported \cup Typed
  /\ None \notin Nat
  /\ Place \cap Event = {}
  /\ Runs \in [Event -> SUBSET Day]
  /\ MaxForecast \in Nat \ {0} /\ MaxChanges \in Nat
  /\ \A n \in 1..MaxForecast : Score[n] \in [Name -> 0..100]

VARIABLES
  weather,    \* weather[d]: the forecast stored for the day, 0 without a row
  scored,     \* scored[a][d]: the forecast the stored score of activity a was made
              \* from, 0 in a failed row, None without a row
  withdrawn,  \* rows with retracted_at
  stale,      \* listings past valid_until
  changes

storeVars == <<weather, scored, withdrawn, stale, changes>>

Row == 0..MaxForecast \cup {None}

PublishedTypeOK ==
  /\ weather \in [Day -> 0..MaxForecast]
  /\ scored \in [Name -> [Day -> Row]]
  /\ withdrawn \subseteq Place \cup Event
  /\ stale \subseteq Event
  /\ changes \in 0..MaxChanges

\* A fetch covered some of the days, maybe with one missing in the middle.
PublishedInit ==
  /\ weather \in [Day -> 0..1]
  /\ scored = [a \in Name |-> [d \in Day |->
                 IF a \in Supported /\ weather[d] # 0 THEN weather[d] ELSE None]]
  /\ withdrawn = {} /\ stale = {} /\ changes = 0

--------------------------------------------------------------------------
(* What the consumer stores meanwhile. *)

Change == changes < MaxChanges /\ changes' = changes + 1

\* upsert_weather and score_defaults: a newer forecast replaces the row and the scores
\* of the supported activities.  A typed one keeps the score it has.
StoreForecast(d) ==
  /\ Change
  /\ weather[d] < MaxForecast
  /\ weather' = [weather EXCEPT ![d] = @ + 1]
  /\ scored' = [a \in Name |-> IF a \in Supported
                                THEN [scored[a] EXCEPT ![d] = weather[d] + 1]
                                ELSE scored[a]]
  /\ UNCHANGED <<withdrawn, stale>>

\* store_recommendation_request: a score if the day has weather, else a failed row
\* where there is none yet.  What needs a coast the city has not is refused.  One that
\* finds the row as it would leave it changes nothing a reader sees, and is left out.
StoreRequest(a, d) ==
  /\ Change
  /\ scored[a][d] # weather[d] /\ (weather[d] = 0 => scored[a][d] = None)
  /\ scored' = [scored EXCEPT ![a][d] = weather[d]]
  /\ UNCHANGED <<weather, withdrawn, stale>>

\* apply_retraction.  There is no un-retract route.
Withdraw(x) ==
  /\ Change
  /\ withdrawn' = withdrawn \cup {x}
  /\ UNCHANGED <<weather, scored, stale>>

\* valid_until passes.
GoStale(e) ==
  /\ Change
  /\ e \notin stale /\ stale' = stale \cup {e}
  /\ UNCHANGED <<weather, scored, withdrawn>>

\* A patch of checked_at moves valid_until on.
CheckAgain(e) ==
  /\ Change
  /\ e \in stale /\ stale' = stale \ {e}
  /\ UNCHANGED <<weather, scored, withdrawn>>

StoreStep ==
  \/ \E d \in Day : StoreForecast(d)
  \/ \E a \in Wanted, d \in Day : StoreRequest(a, d)
  \/ \E x \in Place \cup Event : x \notin withdrawn /\ Withdraw(x)
  \/ \E e \in Event : GoStale(e) \/ CheckAgain(e)

--------------------------------------------------------------------------
(* Queries, each of one snapshot. *)

Held == {d \in Day : weather[d] > 0}

\* coverage: first and last forecast date over every city, not only this one.
Window    == LET all == Held \cup OtherDays
             IN {d \in Day : \E a, b \in all : a <= d /\ d <= b}

\* Rows by day are 0 where there is none.
NoRows == [d \in Day |-> 0]
DaysOf(rows) == {d \in Day : rows[d] # 0}

\* forecast: the rows of the asked days; the value is the row's as_of.
ForecastRows(days) == [d \in Day |-> IF d \in days THEN weather[d] ELSE 0]

\* recommendations: every row of the asked days, whatever its status, typed
\* activities' with the others; the value is the forecast the score was made from.
ScoreRows(days) ==
  [d \in Day |-> [a \in Name |-> IF d \in days THEN scored[a][d] ELSE None]]
NoScores == [d \in Day |-> [a \in Name |-> None]]
PlacesIn(categories) == {p \in Place \ withdrawn : CategoryOf[p] \in categories}
AllPlaces == Place \ withdrawn

\* events: a listing comes back if any day it runs on is asked for.
Running(days)     == {e \in Event \ withdrawn : Runs[e] \cap days # {}}
CurrentEvents(days) == Running(days) \ stale
ExpiredEvents(days) == Running(days) \cap stale
==========================================================================
