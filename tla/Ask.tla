-------------------------------- MODULE Ask --------------------------------
(***************************************************************************)
(* One question to the agent: it is resolved, the rows are read query by   *)
(* query, and the answer is written by code or by the local model, whose   *)
(* wording is checked clause by clause against the rows read.              *)
(*                                                                         *)
(* A question is the names, kinds, days and intent words read in it; a     *)
(* clause is what it says of which row and day, and with which of the      *)
(* words the checks look for.  A clause that says two things is two of     *)
(* them; none names a listing by its title.  The model may write any of    *)
(* Clause.                                                                 *)
(***************************************************************************)
EXTENDS Published

CONSTANTS
  Carries,    \* Carries[a]: the activity whose keyword is inside a (distinct_names)
  Kind,       \* events.category
  KindOf,     \* KindOf[e]: the kind of listing e
  At,         \* At[e]: the stored place listing e is at, or None
  Venues,     \* Venues[a]: place_categories of activity a
  Question,
  Clause,     \* what a clause of the model may say
  MaxClauses, \* bound: clauses of one answer
  MaxQuestions

Intent == {"weather", "activities", "places", "events"}
Shadowing == DOMAIN Carries

\* A statement: of a row or of its absence, about an activity, kind or place, for a
\* day or undated.  A clause of the model is one, plain or negated, and scoped to the
\* record or not; the word for a kind in it may be part of an activity's label.
Says(of, what, day) == [of |-> of, what |-> what, day |-> day]

\* VERDICT_WORDS, BAND_WORDS, SCHEDULE_PREDICATES and WORLD_SCHEDULE_WORDS; in a
\* "tail" the day stands after the word for a kind and before any weather word.
Wordings == {"verdict", "band", "predicate", "world", "tail"}

ASSUME AskAssumption ==
  /\ Shadowing \subseteq Typed /\ Carries \in [Shadowing -> Activity]
  /\ KindOf \in [Event -> Kind] /\ At \in [Event -> Place \cup {None}]
  /\ Question # {}
  /\ Question \subseteq [days : SUBSET Day, words : SUBSET Intent, names : SUBSET Name,
                         kinds : SUBSET Kind, scheduled : BOOLEAN,
                         categories : SUBSET {CategoryOf[p] : p \in Place},
                         where : BOOLEAN, when : BOOLEAN]
  /\ \A q \in Question : q.days # {} /\ (q.scheduled => q.kinds # {})
  /\ \A c \in Clause : /\ c.of \in {"event", "score", "weather", "whole_period",
                                    "scheduled_activity", "place_as_event", "described_place"}
                       /\ c.day \in Day \cup {None}
                       /\ c.negated \in BOOLEAN /\ c.onRecord \in BOOLEAN
                       /\ c.label \in Activity \cup {None} /\ c.words \subseteq Wordings
  /\ None \notin Name
  /\ MaxClauses \in Nat \ {0} /\ MaxQuestions \in Nat

VARIABLES
  step,    \* the query or composition that is next
  ask,     \* the last question and what its queries have returned
  reply,   \* its answer, once there is one
  asked

askVars == <<step, ask, reply, asked>>
vars    == <<storeVars, askVars>>

\* A question with none of its queries run but some names to look up, and no answer.
Unread(q, left) ==
  [q |-> q, left |-> left, named |-> {}, unknown |-> {}, intents |-> {}, gone |-> withdrawn,
   span |-> {}, covered |-> {}, scores |-> {}, places |-> {},
   venues |-> [a \in Name |-> {}], events |-> {}, expired |-> {}]
Unanswered == [route |-> "none", said |-> {}, clauses |-> {}]

--------------------------------------------------------------------------
(* resolve. *)

\* _stored_rows: any row of any asked day will do, whatever its status.
Stored(a, days) == \E d \in days : scored[a][d] # None

\* The keyword loop over the text without the names that carry a keyword; a question
\* about listings keeps their keywords, but is about activities only if it says so.
Keyed(r) ==
  IF ~r.q.scheduled THEN r.named \cup (r.q.names \cap Activity)
  ELSE IF "activities" \in r.q.words
  THEN (r.q.names \cap Activity) \cup {Carries[a] : a \in r.q.names \cap Shadowing}
  ELSE {}

\* Whatever was named before the default was applied decides the intents.
Intents(q, named) ==
  LET found == q.words \cup (IF q.where THEN {"places"} ELSE {})
               \cup (IF q.scheduled THEN {"events"} ELSE {})
               \cup (IF named # {} THEN {"activities"} ELSE {})
  IN IF found = {} THEN {"weather", "activities"} ELSE found

Timed(q)     == q.when \/ "weather" \in q.words
WhereOnly(q) == q.where /\ ~Timed(q)

Weathered(r) == r.intents \cap {"weather", "activities"} # {} /\ ~WhereOnly(r.q)

--------------------------------------------------------------------------
(* The brief: what the rows read say and what they leave open. *)

Uncovered(r) == IF Weathered(r) THEN r.q.days \ r.covered ELSE {}
Scored(r)    == {s.what : s \in r.scores}
Unscored(r)  == (IF Weathered(r) THEN r.named \ Scored(r) ELSE {}) \cup r.unknown
Present(r)   == {KindOf[e] : e \in r.events}
Daily(of, days) == {Says(of, None, d) : d \in days}

\* _gaps, of which gap_block appends all but the ones about activities.
ActivityGaps(r) == {Says("no_score", a, None) : a \in Unscored(r)}
OtherGaps(r) ==
  (IF "events" \notin r.intents THEN {}
   ELSE IF r.q.kinds # {} THEN {Says("no_event", k, None) : k \in r.q.kinds \ Present(r)}
   ELSE IF r.events = {} THEN {Says("no_event", None, None)} ELSE {})
  \cup Daily("no_weather", Uncovered(r))
  \cup (IF r.q.categories # {} /\ r.places = {} THEN {Says("no_place", None, None)} ELSE {})

\* _stale_feed_sentence: a gap that is an outdated feed says so, of its own kind.
StaleFeed(r) ==
  {Says("stale", g.what, None) :
     g \in {x \in OtherGaps(r) : /\ x.of = "no_event"
                                 /\ x.what = None => r.expired # {}
                                 /\ x.what # None => x.what \in {KindOf[e] : e \in r.expired}}}
GapBlock(r) == OtherGaps(r) \cup StaleFeed(r)

--------------------------------------------------------------------------
(* The answers written by code. *)

\* unscored_date_lines: the covered days a named activity has no row for.
UnscoredDates(r) ==
  {Says("no_score", a, d) : a \in r.named \cap Scored(r), d \in r.covered}
  \ {Says("no_score", s.what, s.day) : s \in r.scores}

VenueLines(r, a) == IF r.venues[a] = {} THEN {Says("no_venue", a, None)}
                    ELSE {Says("venue", p, None) : p \in r.venues[a]}
WhereAnswer(r) ==
  (UNION {VenueLines(r, a) : a \in r.named})
  \cup r.scores \cup UnscoredDates(r) \cup ActivityGaps(r)

\* dated_gap_brief: a day just reported with a score is not denied below it.
Undenied_Denied(r, gaps) == gaps
Undenied(r, gaps) == gaps \ Daily("no_weather", {s.day : s \in r.scores})
NamedAnswer(r) ==
  r.scores \cup ActivityGaps(r) \cup UnscoredDates(r) \cup Undenied(r, GapBlock(r))

\* render: every line is a row, and of the scores nobody asked for one a day.
OneADay(scores) ==
  {CHOOSE s \in scores : s.day = d : d \in {s.day : s \in {x \in scores : x.of = "score"}}}
EventLines(e) == {Says("event", KindOf[e], d) : d \in Runs[e]}
Rendered(r) ==
  Daily("weather", r.covered)
  \cup (IF r.named # {} THEN r.scores ELSE OneADay(r.scores))
  \cup {Says("place", p, None) : p \in r.places}
  \cup (UNION {EventLines(e) : e \in r.events})
  \cup ActivityGaps(r) \cup GapBlock(r)

--------------------------------------------------------------------------
(* The wording of the model, and the check of it. *)

AllowedDates(r) ==
  r.covered \cup (UNION {Runs[e] : e \in r.events}) \cup {s.day : s \in r.scores}
  \cup (IF Weathered(r) THEN {} ELSE r.q.days)

Plain(c) == ~c.negated /\ ~c.onRecord

\* A word inside the label of an activity scored here claims no listing.
Masked(c, r) == c.label \in Scored(r)

\* violations, by the number of the check, for a clause of each form.
EventBroken_AnyDay(c, r) == ~Masked(c, r) /\ ~c.negated /\ c.what \notin Present(r)
EventBroken(c, r) ==
  \/ ~Masked(c, r) /\ ~c.negated /\ c.what \notin Present(r)                  \* 1
  \/ /\ ~Masked(c, r) /\ Plain(c) /\ c.what \in Present(r)                    \* 3b
     /\ "tail" \in c.words /\ c.day # None
     /\ \A e \in r.events : KindOf[e] = c.what => c.day \notin Runs[e]
  \/ /\ c.negated /\ ~c.onRecord /\ "world" \in c.words                      \* 6b
     /\ c.what # None \/ r.q.kinds # {} \/ r.events # {}
ScoreBroken(c, r) ==
  \/ "verdict" \in c.words /\ r.scores = {}                                   \* 4
  \/ /\ c.what \in Unscored(r) /\ ~c.negated                                 \* 5
     /\ c.words \cap {"verdict", "band"} # {}
  \/ /\ "verdict" \in c.words /\ r.scores # {} /\ Plain(c)                   \* 10
     /\ c.what \in Activity \ (Scored(r) \cup Unscored(r))
\* A score told as an arrangement, whether the activity is named or its label.
Arranged(c, r) ==                                                              \* 11
  /\ Plain(c) /\ "predicate" \in c.words
  /\ \/ c.of = "scheduled_activity" /\ c.what \in Scored(r)
     \/ c.of = "event" /\ Masked(c, r)
DayBroken(c, r) ==                                                             \* 7
  /\ c.day # None /\ c.day \notin AllowedDates(r)
  /\ ~(c.of = "weather" /\ c.negated /\ c.onRecord /\ c.day \in Uncovered(r))
Broken(c, r) ==
  \/ c.of = "event" /\ EventBroken(c, r)
  \/ c.of = "score" /\ ScoreBroken(c, r)
  \/ c.of = "weather" /\ r.covered = {} /\ Plain(c)                           \* 4b
  \/ c.of = "whole_period" /\ Uncovered(r) # {} /\ Plain(c) /\ c.day = None
  \/ Arranged(c, r)
  \/ c.of = "place_as_event"                                                   \* 2
     /\ c.what \in r.places /\ \A e \in r.events : At[e] # c.what
  \/ c.of = "described_place" /\ c.what \in r.places                           \* 6
  \/ DayBroken(c, r)

\* unstated_activity_gaps: the ones the model was asked to state and did not name.
Unstated_Never(r, answer) == {}
Unstated(r, answer) == {g \in ActivityGaps(r) : \A c \in answer : c.what # g.what}

--------------------------------------------------------------------------

Init ==
  /\ PublishedInit
  /\ step = "idle" /\ reply = Unanswered /\ asked = 0
  /\ ask = Unread(CHOOSE q \in Question : TRUE, {})

(* resolve and retrieve: one query a step. *)

Untouched == UNCHANGED <<storeVars, asked>>
From(a, b) == step = a /\ step' = b /\ Untouched

AskAgent(q) ==
  /\ step \in {"idle", "answered"} /\ step' = "shadowing"
  /\ asked < MaxQuestions /\ asked' = asked + 1
  /\ ask' = Unread(q, IF q.scheduled THEN {} ELSE q.names \cap Shadowing)
  /\ reply' = Unanswered
  /\ UNCHANGED storeVars

\* One name of shadowing_activities or of typed_activities is looked up.  A query that
\* fails finds nothing.
LookUp(a, found) ==
  /\ step \in {"shadowing", "typed"} /\ a \in ask.left
  /\ found => Stored(a, ask.q.days)
  /\ ask' = [ask EXCEPT !.left = @ \ {a},
                        !.named = IF found THEN @ \cup {a} ELSE @,
                        !.unknown = IF found THEN @ ELSE @ \cup {a}]
  /\ UNCHANGED <<storeVars, step, reply, asked>>

\* Typed names are looked up when nothing was found so far: all of them, so that one
\* without a row the first time is looked up again.
ReadKeywords ==
  /\ From("shadowing", "typed") /\ ask.left = {}
  /\ ask' = [ask EXCEPT !.named = Keyed(ask),
                        !.intents = Intents(ask.q, Keyed(ask)),
                        !.left = IF Keyed(ask) = {} /\ ~ask.q.scheduled
                                 THEN ask.q.names \cap Typed ELSE {}]
  /\ UNCHANGED reply

Answer(route, said, clauses) ==
  /\ reply' = [route |-> route, said |-> said, clauses |-> clauses]
  /\ UNCHANGED ask

\* The gate of the days: without one inside the window weather is refused.
Inside == ask.q.days \cap Window
Refused == Weathered(ask) /\ Inside = {}

Resolved == ask.left = {}

Refuse == From("typed", "answered") /\ Resolved /\ Refused /\ Answer("refusal", {}, {})

ReadCoverage ==
  /\ From("typed", "forecast") /\ Resolved /\ ~Refused
  /\ ask' = [ask EXCEPT !.span = IF Inside = {} THEN ask.q.days ELSE Inside]
  /\ UNCHANGED reply

ReadForecast ==
  /\ From("forecast", "scores")
  /\ ask' = [ask EXCEPT !.covered = IF Weathered(ask) THEN DaysOf(ForecastRows(ask.span))
                                     ELSE {}]
  /\ UNCHANGED reply

\* A failed row comes back as a score without a number.
ScoresOf(days) ==
  LET rows == ScoreRows(days)
  IN {s \in [of : {"score", "null_score"}, what : Name, day : days] :
        /\ rows[s.day][s.what] # None
        /\ s.of = IF rows[s.day][s.what] = 0 THEN "null_score" ELSE "score"}

\* A question's own activities, none of the others', and none if all are unknown.
OfTheNamed_Catalogue(rows) ==
  IF ask.named = {} THEN rows ELSE {s \in rows : s.what \in ask.named}
OfTheNamed(rows) ==
  IF ask.named # {} THEN {s \in rows : s.what \in ask.named}
  ELSE IF ask.unknown # {} THEN {} ELSE rows

ReadScores ==
  /\ From("scores", "places")
  /\ ask' = [ask EXCEPT !.scores = IF Weathered(ask) THEN OfTheNamed(ScoresOf(ask.span))
                                    ELSE {}]
  /\ UNCHANGED reply

Located(r) == r.q.where /\ r.named # {}

\* venues_for the named activities, or the places of the categories asked for.
ReadVenues ==
  /\ From("places", "events") /\ Located(ask)
  /\ ask' = [ask EXCEPT !.venues =
                [a \in Name |-> IF a \in ask.named \cap Activity THEN PlacesIn(Venues[a])
                                ELSE {}]]
  /\ UNCHANGED reply

ReadPlaces ==
  /\ From("places", "events") /\ ~Located(ask)
  /\ ask' = [ask EXCEPT !.places =
                IF ask.q.categories # {} THEN PlacesIn(ask.q.categories)
                ELSE IF "places" \in ask.intents THEN AllPlaces ELSE {}]
  /\ UNCHANGED reply

\* Without a kind in the question every listing is read.
OfTheKinds(events) ==
  IF ask.q.kinds = {} THEN events ELSE {e \in events : KindOf[e] \in ask.q.kinds}

\* The expired listings are asked for only when nothing current came back.
ReadEvents ==
  LET wanted == \/ "events" \in ask.intents
                \/ "activities" \in ask.intents /\ ~WhereOnly(ask.q)
      found  == IF wanted THEN OfTheKinds(CurrentEvents(ask.q.days)) ELSE {}
  IN /\ From("events", IF wanted /\ found = {} THEN "expired" ELSE "compose")
     /\ ask' = [ask EXCEPT !.events = found]
     /\ UNCHANGED reply

ReadExpired ==
  /\ From("expired", "compose")
  /\ ask' = [ask EXCEPT !.expired = OfTheKinds(ExpiredEvents(ask.q.days))]
  /\ UNCHANGED reply

--------------------------------------------------------------------------
(* ask: which way the answer is written. *)

Empty(r)   == /\ r.covered = {} /\ r.scores = {} /\ r.places = {} /\ r.events = {}
              /\ \A a \in Name : r.venues[a] = {}
\* The named-activity route: only what is asked about nothing else.
InCode(r)  ==
  \/ r.named # {}
  \/ /\ r.unknown # {} /\ ~r.q.where /\ "weather" \notin r.q.words
     /\ r.intents \cap {"events", "places"} = {} /\ r.q.categories = {}

Composes == From("compose", "answered")
ByCode ==
  /\ Composes
  /\ \/ Located(ask) /\ Answer("where", WhereAnswer(ask), {})
     \/ ~Located(ask) /\ Empty(ask) /\ Answer("empty", GapBlock(ask), {})
     \/ ~Located(ask) /\ ~Empty(ask) /\ InCode(ask) /\ Answer("named", NamedAnswer(ask), {})

ByModel == Composes /\ ~Located(ask) /\ ~Empty(ask) /\ ~InCode(ask)

\* The model is away, or what it sent is unusable.
ModelFails == ByModel /\ Answer("rendered", Rendered(ask), {})
ModelAnswers(answer) ==
  /\ ByModel
  /\ \/ /\ \E c \in answer : Broken(c, ask)
        /\ Answer("rendered", Rendered(ask), {})
     \/ /\ \A c \in answer : ~Broken(c, ask)
        /\ Answer("model", GapBlock(ask) \cup Unstated(ask, answer), answer)

Agent ==
  \/ \E a \in Typed, found \in BOOLEAN : LookUp(a, found)
  \/ ReadKeywords \/ Refuse \/ ReadCoverage \/ ReadForecast \/ ReadScores
  \/ ReadVenues \/ ReadPlaces \/ ReadEvents \/ ReadExpired
  \/ ByCode \/ ModelFails
  \/ \E c \in [1..MaxClauses -> Clause] : ModelAnswers({c[i] : i \in 1..MaxClauses})

Next ==
  \/ \E q \in Question : AskAgent(q)
  \/ Agent
  \/ StoreStep /\ UNCHANGED askVars

Spec == Init /\ [][Next]_vars

--------------------------------------------------------------------------

Answered == step = "answered"
Rows     == ask

TypeOK ==
  /\ PublishedTypeOK
  /\ step \in {"idle", "shadowing", "typed", "forecast", "scores", "places", "events",
              "expired", "compose", "answered"}
  /\ asked \in 0..MaxQuestions
  /\ ask.q \in Question /\ ask.intents \subseteq Intent
  /\ ask.left \subseteq Typed /\ ask.named \subseteq Name /\ ask.unknown \subseteq Typed
  /\ ask.span \subseteq Day /\ ask.covered \subseteq ask.span
  /\ ask.scores \subseteq [of : {"score", "null_score"}, what : Name, day : ask.span]
  /\ ask.places \subseteq Place /\ ask.venues \in [Name -> SUBSET Place]
  /\ ask.events \subseteq Event /\ ask.expired \subseteq Event
  /\ reply.clauses \subseteq Clause
  /\ reply.clauses # {} => reply.route = "model"

\* However the model worded it, an answer that says something of a kind is on has a
\* listing of that kind behind it, running on the day the claim is followed by.  Only
\* words that are the label of an activity scored here need none, and those are not
\* told as an arrangement.  Neither the listing nor a place in the answer was withdrawn
\* when the question came.
NoInventedListing ==
  Answered =>
    /\ \A c \in reply.clauses :
         (c.of = "event" /\ ~c.negated) =>
           \/ Masked(c, Rows) /\ ("predicate" \in c.words => c.onRecord)
           \/ \E e \in Event \ Rows.gone :
                /\ KindOf[e] = c.what
                /\ (c.day # None /\ "tail" \in c.words /\ Plain(c)) => c.day \in Runs[e]
    /\ \A s \in reply.said : s.of \in {"venue", "place"} => s.what \notin Rows.gone

\* No activity is given another one's score: a question that names activities gets
\* theirs alone; the model passes no verdict on an activity without a row, be it of
\* the catalogue or a name the question was resolved to, and puts in no band one it
\* was told has none.  (A question about listings has its typed names not looked at.)
NoBorrowedScore ==
  Answered =>
    /\ (Rows.q.names # {} /\ ~Rows.q.scheduled) =>
         \A s \in reply.said : s.of \in {"score", "null_score"} => s.what \in Rows.q.names
    /\ \A c \in reply.clauses : c.of = "score" =>
         /\ (/\ Plain(c) /\ "verdict" \in c.words
             /\ c.what \in Activity \cup Rows.named \cup Rows.unknown)
              => c.what \in Scored(Rows)
         /\ (~c.negated /\ c.words \cap {"verdict", "band"} # {})
              => c.what \notin Unscored(Rows)

\* What was asked about and has no row is said: each day without weather, unless a
\* score of it is given, and each kind without a listing, save in an answer about where
\* (where_answer says neither); each activity without a score, at the least by naming
\* it, save in an answer made of no row (gap_block leaves activities out).  A refusal
\* says the window alone.
GapsSurvive ==
  Answered =>
    /\ reply.route \in {"empty", "named", "rendered", "model"} =>
         /\ \A d \in Uncovered(Rows) :
              \/ Says("no_weather", None, d) \in reply.said
              \/ \E s \in reply.said : s.of \in {"score", "null_score"} /\ s.day = d
         /\ "events" \in Rows.intents =>
              \A k \in Rows.q.kinds \ Present(Rows) : Says("no_event", k, None) \in reply.said
    /\ reply.route \in {"where", "named", "rendered", "model"} =>
         \A a \in Unscored(Rows) : \E s \in reply.said \cup reply.clauses : s.what = a

\* The answer about named activities never denies the weather of a day it has just
\* scored, though the forecast and the scores are read by two queries.
NoDayBothWays ==
  (Answered /\ reply.route = "named") =>
    \A s \in reply.said : s.of \in {"score", "null_score"}
                            => Says("no_weather", None, s.day) \notin reply.said

\* store_recommendation_request: no answer reads "is None (None/100)".
ScoresAreNumbers == Answered => \A s \in reply.said : s.of # "null_score"
==========================================================================
