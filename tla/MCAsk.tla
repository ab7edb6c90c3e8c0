------------------------------- MODULE MCAsk -------------------------------
(* A small instance of Ask: a beach town without surf, a music festival    *)
(* that is an activity, a cup over two days, a concert.                    *)
EXTENDS Ask, Dates, TLC

CONSTANTS beachDay, fest, surfing, kite, bay, tate, cup, gig, concert, sport, festival

MCCategoryOf == bay :> "beach" @@ tate :> "museum"
MCRuns   == cup :> {2, 3} @@ gig :> {1}
MCKindOf == cup :> sport @@ gig :> concert
MCAt     == cup :> None @@ gig :> tate
MCVenues == beachDay :> {"beach"} @@ fest :> {} @@ surfing :> {}
MCScore  == <<[a \in Name |-> 90]>>
MCCarries == kite :> surfing

Today   == 1
TheDays == Days(Resolve([Nothing EXCEPT !.days = {3}], Today))
Day3    == Days(Resolve([Nothing EXCEPT !.dates = {3}], Today))

Plainly == [days |-> TheDays, words |-> {}, names |-> {}, kinds |-> {}, scheduled |-> FALSE,
            categories |-> {}, where |-> FALSE, when |-> FALSE]

\* Is it good for the beach and for surfing; where can I go to the beach on these days;
\* is it good for kite surfing; what is on, and is it good for kite surfing; the weather,
\* the concerts and the matches; what museums are there, and any concerts.
Questions ==
  {[Plainly EXCEPT !.names = {beachDay, surfing}],
   [Plainly EXCEPT !.names = {beachDay}, !.where = TRUE, !.when = TRUE],
   [Plainly EXCEPT !.names = {kite}, !.days = Day3],
   [Plainly EXCEPT !.names = {kite}, !.words = {"events"}],
   [Plainly EXCEPT !.words = {"weather"}, !.kinds = {concert, sport}, !.scheduled = TRUE],
   [Plainly EXCEPT !.kinds = {concert}, !.scheduled = TRUE, !.categories = {"museum"}]}

\* A concert is on, on the 2nd, and the 2nd is dry and a concert on; the cup is on the
\* 3rd; it is a day for the open-air music festival, and one to attend it; no concert is
\* on, is on record.
C(of, what, day, words) ==
  [of |-> of, what |-> what, day |-> day, words |-> words, label |-> None,
   negated |-> FALSE, onRecord |-> FALSE]
MCClause ==
  {C("event", concert, None, {}), C("event", concert, 2, {"tail"}), C("event", concert, 2, {}),
   C("event", sport, 3, {"tail"}),
   [C("event", festival, None, {}) EXCEPT !.label = fest],
   [C("event", festival, None, {"predicate"}) EXCEPT !.label = fest],
   [C("event", concert, None, {"world"}) EXCEPT !.negated = TRUE],
   [C("event", concert, None, {"world"}) EXCEPT !.negated = TRUE, !.onRecord = TRUE],
   C("score", beachDay, 2, {"verdict"}), C("score", surfing, None, {"verdict"}),
   C("score", surfing, None, {"band"}), C("score", kite, None, {"band"}),
   [C("score", kite, None, {"verdict"}) EXCEPT !.negated = TRUE],
   C("weather", None, 2, {}), C("whole_period", None, None, {}),
   C("place_as_event", tate, None, {}), C("described_place", tate, None, {}),
   C("scheduled_activity", beachDay, None, {"predicate"})}

\* Evaluated once.
MCQuestion == Questions

--------------------------------------------------------------------------
Sayings ==
  [dates : SUBSET {0, 3, 400}, phrases : {{}} \cup {{x} : x \in Phrases} \cup
     {{"day_after_tomorrow", "tomorrow"}, {"yesterday", "weekend"}},
   weekdays : {{}, {0}, {2, 6}}, weeks : {{}, {3}, {9999}}, days : {{}, {0}, {5}, {40}}]

ASSUME DatesHold ==
  \A today \in 100 .. 106 : OnTheDay(today) /\ \A said \in Sayings : WellFormed(said, today)
==========================================================================
