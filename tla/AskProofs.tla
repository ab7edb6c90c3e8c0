----------------------------- MODULE AskProofs -----------------------------
(***************************************************************************)
(* What every answer of the agent promises, for every question, every city *)
(* and whatever the consumer stores between two queries of it.             *)
(*                                                                         *)
(* The properties speak of an answer and of the rows it was made from, so  *)
(* the strengthening says which rows those may be (RowsInv), whom their    *)
(* scores belong to (ScoresInv), and that an answer is the composition of  *)
(* its route over just these rows (ReplyInv).                              *)
(***************************************************************************)
EXTENDS Ask, Dates, NaturalsInduction, WellFoundedInduction, TLAPS

Statement == [of : {"score", "null_score"}, what : Name, day : Day]

\* The record of a question, field by field.
Asks == [q : Question, left : SUBSET Typed, named : SUBSET Name, unknown : SUBSET Typed,
         intents : SUBSET Intent, gone : SUBSET (Place \cup Event),
         span : SUBSET Day, covered : SUBSET Day, scores : SUBSET Statement,
         places : SUBSET Place, venues : [Name -> SUBSET Place],
         events : SUBSET Event, expired : SUBSET Event]

\* Nothing was read before it was asked for.
Fresh == step \in {"idle", "shadowing", "typed"} => ask.covered = {} /\ ask.scores = {}

AskType == TypeOK /\ ask \in Asks

\* What was withdrawn when the question came is in none of its rows.
RowsInv ==
  /\ ask.gone \subseteq withdrawn
  /\ ask.events \cap ask.gone = {}
  /\ ask.places \cap ask.gone = {}
  /\ \A a \in Name : ask.venues[a] \cap ask.gone = {}

\* A question of names resolves to some of them, or to names without a row, once every
\* name was looked up.
NamesInv ==
  /\ step \notin {"shadowing", "typed"} => ask.left = {}
  /\ ~ask.q.scheduled =>
       /\ ask.named \cup ask.unknown \cup ask.left \subseteq ask.q.names
       /\ ask.q.names # {} /\ step \notin {"idle", "shadowing"}
            => ask.named \cup ask.unknown \cup ask.left # {}

\* Scores are those of the activities named.
ScoresInv ==
  /\ ask.named # {} => \A s \in ask.scores : s.what \in ask.named
  /\ ask.named = {} /\ ask.unknown # {} => ask.scores = {}

\* An answer is what its route makes of the rows.
ByRoute(route, said, clauses) ==
  /\ reply.route = route /\ reply.said = said /\ reply.clauses = clauses
ReplyInv ==
  Answered =>
    \/ ByRoute("refusal", {}, {})
    \/ ByRoute("where", WhereAnswer(ask), {})
    \/ ByRoute("empty", GapBlock(ask), {})
    \/ ByRoute("named", NamedAnswer(ask), {})
    \/ ByRoute("rendered", Rendered(ask), {})
    \/ /\ ~InCode(ask)
       /\ \A c \in reply.clauses : ~Broken(c, ask)
       /\ ByRoute("model", GapBlock(ask) \cup Unstated(ask, reply.clauses), reply.clauses)

IInv == AskType /\ Fresh /\ RowsInv /\ NamesInv /\ ScoresInv /\ ReplyInv

--------------------------------------------------------------------------
(* What the operators return. *)

\* What the assumptions say of a name, a question and the bounds.
LEMMA NameFacts ==
  /\ Activity \cap Typed = {} /\ Name = Activity \cup Typed /\ Shadowing \subseteq Typed
  /\ \A a \in Shadowing : Carries[a] \in Activity
  BY AskAssumption, PublishedAssumption DEF Name
LEMMA QuestionFacts ==
  ASSUME NEW q \in Question
  PROVE  /\ q.days \in SUBSET Day /\ q.words \in SUBSET Intent /\ q.names \in SUBSET Name
         /\ q.scheduled \in BOOLEAN
  BY AskAssumption
LEMMA BoundFacts == MaxQuestions \in Nat /\ MaxClauses \in Nat \ {0} /\ Question # {}
  BY AskAssumption

\* The keyword loop finds names, and all of the catalogue's outside a question about
\* listings.
LEMMA KeyedType ==
  ASSUME NEW r \in Asks
  PROVE  /\ Keyed(r) \in SUBSET Name
         /\ Intents(r.q, Keyed(r)) \in SUBSET Intent
         /\ ~r.q.scheduled => /\ r.named \subseteq Keyed(r)
                              /\ r.q.names \cap Activity \subseteq Keyed(r)
                              /\ Keyed(r) \subseteq r.named \cup r.q.names
<1>1. r.q \in Question /\ r.named \subseteq Name
  BY DEF Asks
<1>2. r.q.names \subseteq Name /\ r.q.words \subseteq Intent
  BY <1>1, QuestionFacts
<1>3. {Carries[a] : a \in r.q.names \cap Shadowing} \subseteq Name
  BY NameFacts
<1>4. Intents(r.q, Keyed(r)) \subseteq Intent
  BY <1>2 DEF Intents, Intent
<1> QED BY <1>1, <1>2, <1>3, <1>4 DEF Keyed

\* Every row of a score is about a name, for one of the days read.
LEMMA ScoresOfType ==
  ASSUME NEW days \in SUBSET Day
  PROVE  ScoresOf(days) \subseteq [of : {"score", "null_score"}, what : Name, day : days]
  BY DEF ScoresOf

--------------------------------------------------------------------------
(* The invariant, query by query. *)

\* A new question has no rows yet and, maybe, names to look up.
LEMMA NewQuestion ==
  ASSUME IInv, NEW q \in Question, AskAgent(q)
  PROVE  IInv'
<1> DEFINE left == IF q.scheduled THEN {} ELSE q.names \cap Shadowing
<1>1. left \in SUBSET Typed /\ left \subseteq q.names
  BY NameFacts
<1>2. ask' = Unread(q, left) /\ step' = "shadowing"
  BY DEF AskAgent
<1> HIDE DEF left
<1>3. UNCHANGED storeVars /\ withdrawn \in SUBSET (Place \cup Event)
  BY DEF AskAgent, IInv, AskType, TypeOK, PublishedTypeOK
<1>4. ask' \in Asks
  <2>1. [a \in Name |-> {}] \in [Name -> SUBSET Place]
    OBVIOUS
  <2> QED BY <1>1, <1>2, <1>3, <2>1 DEF Unread, Asks
<1>5. reply' = Unanswered /\ asked' \in 0 .. MaxQuestions
  <2>1. asked \in 0 .. MaxQuestions /\ asked < MaxQuestions /\ asked' = asked + 1
    BY DEF AskAgent, IInv, AskType, TypeOK
  <2> QED BY <2>1, BoundFacts DEF AskAgent
<1>6. TypeOK'
  BY <1>1, <1>2, <1>3, <1>4, <1>5
     DEF IInv, AskType, TypeOK, PublishedTypeOK, storeVars, Unread, Unanswered
<1>7. Fresh' /\ RowsInv' /\ NamesInv' /\ ScoresInv' /\ ReplyInv'
  BY <1>1, <1>2, <1>3
     DEF Unread, Fresh, RowsInv, NamesInv, ScoresInv, ReplyInv, Answered, storeVars
<1> QED BY <1>4, <1>6, <1>7 DEF IInv, AskType

\* A name looked up is among those of the question, found or not.
LEMMA LookUpKeeps ==
  ASSUME IInv, NEW a \in Typed, NEW found \in BOOLEAN, LookUp(a, found)
  PROVE  IInv'
<1> DEFINE named == IF found THEN ask.named \cup {a} ELSE ask.named
           unknown == IF found THEN ask.unknown ELSE ask.unknown \cup {a}
           left == ask.left \ {a}
<1>1. /\ TypeOK /\ ask \in Asks /\ RowsInv /\ NamesInv
      /\ ask.covered = {} /\ ask.scores = {}
  BY DEF IInv, AskType, Fresh, LookUp
<1>2. /\ named \in SUBSET Name /\ unknown \in SUBSET Typed /\ left \in SUBSET Typed
      /\ a \in ask.left
      /\ named \cup unknown \cup left = ask.named \cup ask.unknown \cup ask.left
  <2>1. ask.named \subseteq Name /\ ask.unknown \subseteq Typed /\ ask.left \subseteq Typed
    BY <1>1 DEF Asks
  <2> QED BY <2>1, NameFacts DEF LookUp
<1>3. ask' = [ask EXCEPT !.left = left, !.named = named, !.unknown = unknown]
  BY <1>1 DEF LookUp, Asks
<1> HIDE DEF named, unknown, left
<1>4. /\ ask' \in Asks
      /\ ask'.left = left /\ ask'.named = named /\ ask'.unknown = unknown
      /\ ask'.q = ask.q /\ ask'.intents = ask.intents /\ ask'.gone = ask.gone
      /\ ask'.span = ask.span /\ ask'.covered = ask.covered /\ ask'.scores = ask.scores
      /\ ask'.places = ask.places /\ ask'.venues = ask.venues
      /\ ask'.events = ask.events /\ ask'.expired = ask.expired
  BY <1>1, <1>2, <1>3 DEF Asks
<1>5. /\ UNCHANGED <<storeVars, asked, reply, step>> /\ step \in {"shadowing", "typed"}
  BY DEF LookUp
<1>6. TypeOK'
  BY <1>1, <1>2, <1>4, <1>5 DEF TypeOK, PublishedTypeOK, storeVars
<1>7. RowsInv' /\ NamesInv' /\ ScoresInv'
  BY <1>1, <1>2, <1>4, <1>5 DEF RowsInv, NamesInv, ScoresInv, storeVars
<1> QED BY <1>1, <1>4, <1>5, <1>6, <1>7 DEF IInv, AskType, Fresh, ReplyInv, Answered

\* The keywords are found, or the typed names are to be looked up.
LEMMA KeywordsKeep == ASSUME IInv, ReadKeywords PROVE IInv'
<1> DEFINE named == Keyed(ask)
           intents == Intents(ask.q, Keyed(ask))
           left == IF Keyed(ask) = {} /\ ~ask.q.scheduled THEN ask.q.names \cap Typed ELSE {}
<1>1. /\ TypeOK /\ ask \in Asks /\ RowsInv /\ NamesInv /\ ask.left = {}
      /\ ask.covered = {} /\ ask.scores = {}
  BY DEF IInv, AskType, Fresh, ReadKeywords, From
<1>2. /\ named \in SUBSET Name /\ intents \in SUBSET Intent /\ left \in SUBSET Typed
      /\ ~ask.q.scheduled =>
           /\ named \cup ask.unknown \cup left \subseteq ask.q.names
           /\ ask.q.names # {} => named \cup left # {}
  <2>1. ask.q.names \subseteq Activity \cup Typed
    BY <1>1, QuestionFacts, NameFacts DEF Asks
  <2> QED BY <1>1, <2>1, KeyedType DEF NamesInv
<1>3. ask' = [ask EXCEPT !.named = named, !.intents = intents, !.left = left]
  BY DEF ReadKeywords
<1> HIDE DEF named, intents, left
<1>4. /\ ask' \in Asks
      /\ ask'.left = left /\ ask'.named = named /\ ask'.intents = intents
      /\ ask'.q = ask.q /\ ask'.unknown = ask.unknown /\ ask'.gone = ask.gone
      /\ ask'.span = ask.span /\ ask'.covered = ask.covered /\ ask'.scores = ask.scores
      /\ ask'.places = ask.places /\ ask'.venues = ask.venues
      /\ ask'.events = ask.events /\ ask'.expired = ask.expired
  BY <1>1, <1>2, <1>3 DEF Asks
<1>5. /\ UNCHANGED <<storeVars, asked, reply>> /\ step = "shadowing" /\ step' = "typed"
  BY DEF ReadKeywords, From, Untouched
<1>6. TypeOK'
  BY <1>1, <1>2, <1>4, <1>5 DEF TypeOK, PublishedTypeOK, storeVars
<1>7. RowsInv' /\ NamesInv' /\ ScoresInv'
  BY <1>1, <1>2, <1>4, <1>5 DEF RowsInv, NamesInv, ScoresInv, storeVars
<1> QED BY <1>1, <1>4, <1>5, <1>6, <1>7 DEF IInv, AskType, Fresh, ReplyInv, Answered

\* The gate of the days fixes what the queries are about.
LEMMA CoverageKeeps == ASSUME IInv, ReadCoverage PROVE IInv'
<1> DEFINE days == IF Inside = {} THEN ask.q.days ELSE Inside
<1>1. TypeOK /\ ask \in Asks
  BY DEF IInv, AskType
<1>2. days \in SUBSET Day
  BY <1>1, QuestionFacts DEF TypeOK, Inside, Window
<1>3. ask' = [ask EXCEPT !.span = days] /\ ask.covered = {}
      /\ ask.scores = {} /\ ask.left = {}
  BY DEF ReadCoverage, From, IInv, Fresh, Resolved
<1> HIDE DEF days
<1>4. /\ ask' \in Asks
      /\ ask'.span = days
      /\ ask'.q = ask.q /\ ask'.left = ask.left
      /\ ask'.named = ask.named /\ ask'.unknown = ask.unknown
      /\ ask'.intents = ask.intents /\ ask'.gone = ask.gone /\ ask'.covered = ask.covered
      /\ ask'.scores = ask.scores /\ ask'.places = ask.places /\ ask'.venues = ask.venues
      /\ ask'.events = ask.events /\ ask'.expired = ask.expired
  BY <1>1, <1>2, <1>3 DEF Asks
<1>5. /\ UNCHANGED <<storeVars, asked, reply>> /\ step = "typed" /\ step' = "forecast"
  BY DEF ReadCoverage, From, Untouched
<1>6. TypeOK'
  BY <1>1, <1>2, <1>3, <1>4, <1>5 DEF TypeOK, PublishedTypeOK, storeVars
<1>7. RowsInv' /\ NamesInv' /\ ScoresInv'
  BY <1>3, <1>4, <1>5 DEF IInv, RowsInv, NamesInv, ScoresInv, storeVars
<1> QED BY <1>4, <1>5, <1>6, <1>7 DEF IInv, AskType, Fresh, ReplyInv, Answered

\* The days with weather are some of the days asked about.
LEMMA ForecastKeeps == ASSUME IInv, ReadForecast PROVE IInv'
<1> DEFINE found == IF Weathered(ask) THEN DaysOf(ForecastRows(ask.span)) ELSE {}
<1>1. TypeOK /\ ask \in Asks /\ RowsInv /\ NamesInv /\ ScoresInv
  BY DEF IInv, AskType
<1>2. found \subseteq ask.span /\ ask.span \in SUBSET Day
  BY <1>1 DEF TypeOK, ForecastRows, DaysOf
<1>3. ask' = [ask EXCEPT !.covered = found]
  BY DEF ReadForecast
<1> HIDE DEF found
<1>4. /\ ask' \in Asks /\ ask'.covered = found
      /\ ask'.q = ask.q /\ ask'.left = ask.left
      /\ ask'.named = ask.named /\ ask'.unknown = ask.unknown
      /\ ask'.intents = ask.intents /\ ask'.gone = ask.gone /\ ask'.span = ask.span
      /\ ask'.scores = ask.scores /\ ask'.places = ask.places /\ ask'.venues = ask.venues
      /\ ask'.events = ask.events /\ ask'.expired = ask.expired
  BY <1>1, <1>2, <1>3 DEF Asks
<1>5. /\ UNCHANGED <<storeVars, asked, reply>> /\ step = "forecast"
      /\ step' = "scores"
  BY DEF ReadForecast, From, Untouched
<1>6. TypeOK'
  BY <1>1, <1>2, <1>4, <1>5 DEF TypeOK, PublishedTypeOK, storeVars
<1>7. RowsInv' /\ NamesInv' /\ ScoresInv'
  BY <1>1, <1>2, <1>4, <1>5 DEF RowsInv, NamesInv, ScoresInv, storeVars
<1> QED BY <1>4, <1>5, <1>6, <1>7 DEF IInv, AskType, Fresh, ReplyInv, Answered

\* The scores are those of the activities named, and none if every name is unknown.
LEMMA ScoresKeeps == ASSUME IInv, ReadScores PROVE IInv'
<1> DEFINE found == IF Weathered(ask) THEN OfTheNamed(ScoresOf(ask.span)) ELSE {}
<1>1. TypeOK /\ ask \in Asks /\ RowsInv /\ NamesInv /\ ScoresInv
  BY DEF IInv, AskType
<1>2. /\ found \subseteq [of : {"score", "null_score"}, what : Name, day : ask.span]
      /\ found \in SUBSET Statement
      /\ ask.named # {} => \A s \in found : s.what \in ask.named
      /\ ask.named = {} /\ ask.unknown # {} => found = {}
  <2>1. ask.span \in SUBSET Day
    BY <1>1 DEF TypeOK
  <2>2. found \subseteq ScoresOf(ask.span)
    BY DEF OfTheNamed
  <2>3. found \subseteq [of : {"score", "null_score"}, what : Name, day : ask.span]
    BY <2>1, <2>2, ScoresOfType
  <2>4. [of : {"score", "null_score"}, what : Name, day : ask.span] \subseteq Statement
    BY <2>1 DEF Statement
  <2> QED BY <2>3, <2>4 DEF OfTheNamed
<1>3. ask' = [ask EXCEPT !.scores = found]
  BY DEF ReadScores
<1> HIDE DEF found
<1>4. /\ ask' \in Asks /\ ask'.scores = found
      /\ ask'.q = ask.q /\ ask'.left = ask.left
      /\ ask'.named = ask.named /\ ask'.unknown = ask.unknown
      /\ ask'.intents = ask.intents /\ ask'.gone = ask.gone /\ ask'.span = ask.span
      /\ ask'.covered = ask.covered /\ ask'.places = ask.places /\ ask'.venues = ask.venues
      /\ ask'.events = ask.events /\ ask'.expired = ask.expired
  BY <1>1, <1>2, <1>3 DEF Asks
<1>5. /\ UNCHANGED <<storeVars, asked, reply>> /\ step = "scores"
      /\ step' = "places"
  BY DEF ReadScores, From, Untouched
<1>6. TypeOK'
  BY <1>1, <1>2, <1>4, <1>5 DEF TypeOK, PublishedTypeOK, storeVars
<1>7. RowsInv' /\ NamesInv' /\ ScoresInv'
  BY <1>1, <1>2, <1>4, <1>5 DEF RowsInv, NamesInv, ScoresInv, storeVars
<1> QED BY <1>4, <1>5, <1>6, <1>7 DEF IInv, AskType, Fresh, ReplyInv, Answered

\* No venue was withdrawn when it is read.
LEMMA VenuesKeeps == ASSUME IInv, ReadVenues PROVE IInv'
<1> DEFINE found == [a \in Name |-> IF a \in ask.named \cap Activity THEN PlacesIn(Venues[a])
                                   ELSE {}]
<1>1. TypeOK /\ ask \in Asks /\ RowsInv /\ NamesInv /\ ScoresInv
  BY DEF IInv, AskType
<1>2. /\ found \in [Name -> SUBSET Place]
      /\ \A a \in Name : found[a] \cap ask.gone = {}
  BY <1>1 DEF PlacesIn, RowsInv
<1>3. ask' = [ask EXCEPT !.venues = found]
  BY DEF ReadVenues
<1> HIDE DEF found
<1>4. /\ ask' \in Asks /\ ask'.venues = found
      /\ ask'.q = ask.q /\ ask'.left = ask.left
      /\ ask'.named = ask.named /\ ask'.unknown = ask.unknown
      /\ ask'.intents = ask.intents /\ ask'.gone = ask.gone /\ ask'.span = ask.span
      /\ ask'.covered = ask.covered /\ ask'.scores = ask.scores /\ ask'.places = ask.places
      /\ ask'.events = ask.events /\ ask'.expired = ask.expired
  BY <1>1, <1>2, <1>3 DEF Asks
<1>5. /\ UNCHANGED <<storeVars, asked, reply>> /\ step = "places"
      /\ step' = "events"
  BY DEF ReadVenues, From, Untouched
<1>6. TypeOK'
  BY <1>1, <1>2, <1>4, <1>5 DEF TypeOK, PublishedTypeOK, storeVars
<1>7. RowsInv' /\ NamesInv' /\ ScoresInv'
  BY <1>1, <1>2, <1>4, <1>5 DEF RowsInv, NamesInv, ScoresInv, storeVars
<1> QED BY <1>4, <1>5, <1>6, <1>7 DEF IInv, AskType, Fresh, ReplyInv, Answered

\* Nor was a place.
LEMMA PlacesKeeps == ASSUME IInv, ReadPlaces PROVE IInv'
<1> DEFINE found == IF ask.q.categories # {} THEN PlacesIn(ask.q.categories)
                    ELSE IF "places" \in ask.intents THEN AllPlaces ELSE {}
<1>1. TypeOK /\ ask \in Asks /\ RowsInv /\ NamesInv /\ ScoresInv
  BY DEF IInv, AskType
<1>2. found \in SUBSET Place /\ found \cap ask.gone = {}
  BY <1>1 DEF PlacesIn, AllPlaces, RowsInv
<1>3. ask' = [ask EXCEPT !.places = found]
  BY DEF ReadPlaces
<1> HIDE DEF found
<1>4. /\ ask' \in Asks /\ ask'.places = found
      /\ ask'.q = ask.q /\ ask'.left = ask.left
      /\ ask'.named = ask.named /\ ask'.unknown = ask.unknown
      /\ ask'.intents = ask.intents /\ ask'.gone = ask.gone /\ ask'.span = ask.span
      /\ ask'.covered = ask.covered /\ ask'.scores = ask.scores /\ ask'.venues = ask.venues
      /\ ask'.events = ask.events /\ ask'.expired = ask.expired
  BY <1>1, <1>2, <1>3 DEF Asks
<1>5. /\ UNCHANGED <<storeVars, asked, reply>> /\ step = "places"
      /\ step' = "events"
  BY DEF ReadPlaces, From, Untouched
<1>6. TypeOK'
  BY <1>1, <1>2, <1>4, <1>5 DEF TypeOK, PublishedTypeOK, storeVars
<1>7. RowsInv' /\ NamesInv' /\ ScoresInv'
  BY <1>1, <1>2, <1>4, <1>5 DEF RowsInv, NamesInv, ScoresInv, storeVars
<1> QED BY <1>4, <1>5, <1>6, <1>7 DEF IInv, AskType, Fresh, ReplyInv, Answered

\* The expired listings are not part of the answer.
LEMMA ExpiredKeeps == ASSUME IInv, ReadExpired PROVE IInv'
<1> DEFINE found == OfTheKinds(ExpiredEvents(ask.q.days))
<1>1. TypeOK /\ ask \in Asks /\ RowsInv /\ NamesInv /\ ScoresInv
  BY DEF IInv, AskType
<1>2. found \in SUBSET Event
  BY DEF OfTheKinds, ExpiredEvents, Running
<1>3. ask' = [ask EXCEPT !.expired = found]
  BY DEF ReadExpired
<1> HIDE DEF found
<1>4. /\ ask' \in Asks /\ ask'.expired = found
      /\ ask'.q = ask.q /\ ask'.left = ask.left
      /\ ask'.named = ask.named /\ ask'.unknown = ask.unknown
      /\ ask'.intents = ask.intents /\ ask'.gone = ask.gone /\ ask'.span = ask.span
      /\ ask'.covered = ask.covered /\ ask'.scores = ask.scores /\ ask'.places = ask.places
      /\ ask'.venues = ask.venues /\ ask'.events = ask.events
  BY <1>1, <1>2, <1>3 DEF Asks
<1>5. /\ UNCHANGED <<storeVars, asked, reply>> /\ step = "expired"
      /\ step' = "compose"
  BY DEF ReadExpired, From, Untouched
<1>6. TypeOK'
  BY <1>1, <1>2, <1>4, <1>5 DEF TypeOK, PublishedTypeOK, storeVars
<1>7. RowsInv' /\ NamesInv' /\ ScoresInv'
  BY <1>1, <1>2, <1>4, <1>5 DEF RowsInv, NamesInv, ScoresInv, storeVars
<1> QED BY <1>4, <1>5, <1>6, <1>7 DEF IInv, AskType, Fresh, ReplyInv, Answered

\* The listings read were not withdrawn.
LEMMA EventsKeeps == ASSUME IInv, ReadEvents PROVE IInv'
<1>1. TypeOK /\ ask \in Asks /\ RowsInv /\ NamesInv /\ ScoresInv
  BY DEF IInv, AskType
<1>2. PICK found \in SUBSET (Event \ withdrawn) : ask' = [ask EXCEPT !.events = found]
  BY DEF ReadEvents, OfTheKinds, CurrentEvents, Running
<1>3. found \in SUBSET Event /\ found \cap ask.gone = {}
  BY <1>1, <1>2 DEF RowsInv
<1>4. /\ ask' \in Asks /\ ask'.events = found
      /\ ask'.q = ask.q /\ ask'.left = ask.left
      /\ ask'.named = ask.named /\ ask'.unknown = ask.unknown
      /\ ask'.intents = ask.intents /\ ask'.gone = ask.gone /\ ask'.span = ask.span
      /\ ask'.covered = ask.covered /\ ask'.scores = ask.scores /\ ask'.places = ask.places
      /\ ask'.venues = ask.venues /\ ask'.expired = ask.expired
  BY <1>1, <1>2, <1>3 DEF Asks
<1>5. /\ UNCHANGED <<storeVars, asked, reply>> /\ step = "events"
      /\ step' \in {"expired", "compose"}
  BY DEF ReadEvents, From, Untouched
<1>6. TypeOK'
  BY <1>1, <1>3, <1>4, <1>5 DEF TypeOK, PublishedTypeOK, storeVars
<1>7. RowsInv' /\ NamesInv' /\ ScoresInv'
  BY <1>1, <1>3, <1>4, <1>5 DEF RowsInv, NamesInv, ScoresInv, storeVars
<1> QED BY <1>4, <1>5, <1>6, <1>7 DEF IInv, AskType, Fresh, ReplyInv, Answered

\* An answer leaves the rows alone.
LEMMA AnswerKeeps ==
  ASSUME IInv, UNCHANGED <<storeVars, asked, ask>>, step' = "answered",
         ask.left = {}, step \notin {"idle", "shadowing"},
         reply'.clauses \subseteq Clause, reply'.clauses # {} => reply'.route = "model"
  PROVE  AskType' /\ Fresh' /\ RowsInv' /\ NamesInv' /\ ScoresInv'
<1>1. TypeOK'
  BY DEF IInv, AskType, TypeOK, PublishedTypeOK, storeVars
<1>2. RowsInv' /\ NamesInv' /\ ScoresInv'
  BY DEF IInv, RowsInv, NamesInv, ScoresInv, storeVars
<1> QED BY <1>1, <1>2 DEF IInv, AskType, Fresh

\* Each way to answer is the composition of its route.
LEMMA ComposeKeeps ==
  ASSUME IInv, \/ Refuse \/ ByCode \/ ModelFails
               \/ \E c \in [1..MaxClauses -> Clause] : ModelAnswers({c[i] : i \in 1..MaxClauses})
  PROVE  IInv'
<1>1. /\ UNCHANGED <<storeVars, asked, ask>>
      /\ step' = "answered" /\ step \notin {"idle", "shadowing"} /\ ask.left = {}
  <2>1. CASE Refuse
    BY <2>1 DEF Refuse, Resolved, From, Untouched, Answer
  <2>2. CASE ByCode \/ ModelFails
    BY <2>2 DEF IInv, NamesInv, ByCode, ModelFails, ByModel, Composes, From, Untouched, Answer
  <2>3. ASSUME NEW answer, ModelAnswers(answer)
        PROVE  /\ UNCHANGED <<storeVars, asked, ask>>
               /\ step' = "answered" /\ step \notin {"idle", "shadowing"} /\ ask.left = {}
    BY <2>3 DEF IInv, NamesInv, ModelAnswers, ByModel, Composes, From, Untouched, Answer
  <2> QED BY <2>1, <2>2, <2>3
<1>2. CASE Refuse
  <2>1. ByRoute("refusal", {}, {})'
    BY <1>2 DEF Refuse, Answer, ByRoute
  <2> QED BY <1>1, <2>1, AnswerKeeps DEF IInv, ReplyInv, ByRoute
<1>3. CASE ByCode
  <2>1. \/ ByRoute("where", WhereAnswer(ask), {})'
        \/ ByRoute("empty", GapBlock(ask), {})'
        \/ ByRoute("named", NamedAnswer(ask), {})'
    BY <1>1, <1>3 DEF ByCode, Answer, ByRoute
  <2> QED BY <1>1, <2>1, AnswerKeeps DEF IInv, ReplyInv, ByRoute
<1>4. ASSUME Answer("rendered", Rendered(ask), {}) PROVE IInv'
  <2>1. ByRoute("rendered", Rendered(ask), {})'
    BY <1>1, <1>4 DEF Answer, ByRoute
  <2> QED BY <1>1, <2>1, AnswerKeeps DEF IInv, ReplyInv, ByRoute
<1>5. ASSUME NEW answer \in SUBSET Clause, ModelAnswers(answer) PROVE IInv'
  <2>1. CASE Answer("rendered", Rendered(ask), {})
    BY <1>4, <2>1
  <2>2. CASE /\ \A c \in answer : ~Broken(c, ask)
             /\ Answer("model", GapBlock(ask) \cup Unstated(ask, answer), answer)
    <3>1. /\ reply'.clauses = answer /\ reply'.route = "model"
          /\ reply'.said = GapBlock(ask) \cup Unstated(ask, answer)
      BY <2>2 DEF Answer
    <3>2. ~InCode(ask)
      BY <1>5 DEF ModelAnswers, ByModel
    <3>3. ReplyInv'
      BY <1>1, <2>2, <3>1, <3>2 DEF ReplyInv, ByRoute
    <3> QED BY <1>1, <3>1, <3>3, AnswerKeeps DEF IInv
  <2> QED BY <1>5, <2>1, <2>2 DEF ModelAnswers
<1>6. \A c \in [1..MaxClauses -> Clause] : {c[i] : i \in 1..MaxClauses} \in SUBSET Clause
  OBVIOUS
<1> QED BY <1>2, <1>3, <1>4, <1>5, <1>6 DEF ModelFails

\* Whatever the consumer stores meanwhile, a row withdrawn stays withdrawn.
LEMMA StoreKeeps == ASSUME IInv, StoreStep, UNCHANGED askVars PROVE IInv'
<1>1. PublishedTypeOK
  BY DEF IInv, AskType, TypeOK
<1>2. changes' \in 0 .. MaxChanges
  BY <1>1, PublishedAssumption
     DEF StoreStep, StoreForecast, StoreRequest, Withdraw, GoStale, CheckAgain, Change,
         PublishedTypeOK
<1>3. weather' \in [Day -> 0 .. MaxForecast] /\ scored' \in [Name -> [Day -> Row]]
  <2>1. CASE UNCHANGED <<weather, scored>>
    BY <1>1, <2>1 DEF PublishedTypeOK
  <2>2. ASSUME NEW d \in Day, StoreForecast(d)
        PROVE  weather' \in [Day -> 0 .. MaxForecast] /\ scored' \in [Name -> [Day -> Row]]
    <3>1. weather[d] + 1 \in 0 .. MaxForecast /\ 0 .. MaxForecast \subseteq Row
      BY <1>1, <2>2, PublishedAssumption DEF StoreForecast, PublishedTypeOK, Row
    <3>2. \A a \in Name : [scored[a] EXCEPT ![d] = weather[d] + 1] \in [Day -> Row]
      BY <1>1, <3>1 DEF PublishedTypeOK
    <3> QED BY <1>1, <2>2, <3>1, <3>2 DEF StoreForecast, PublishedTypeOK
  <2>3. ASSUME NEW a \in Wanted, NEW d \in Day, StoreRequest(a, d)
        PROVE  weather' = weather /\ scored' \in [Name -> [Day -> Row]]
    <3>1. weather[d] \in Row
      BY <1>1 DEF PublishedTypeOK, Row
    <3> QED BY <1>1, <2>3, <3>1 DEF StoreRequest, PublishedTypeOK
  <2> QED BY <1>1, <2>1, <2>2, <2>3
          DEF StoreStep, Withdraw, GoStale, CheckAgain, PublishedTypeOK
<1>4. /\ withdrawn \subseteq withdrawn' /\ withdrawn' \subseteq Place \cup Event
      /\ stale' \subseteq Event
  BY <1>1 DEF StoreStep, StoreForecast, StoreRequest, Withdraw, GoStale, CheckAgain,
              PublishedTypeOK
<1>5. TypeOK'
  BY <1>2, <1>3, <1>4 DEF IInv, AskType, TypeOK, PublishedTypeOK, askVars
<1>6. RowsInv' /\ NamesInv' /\ ScoresInv' /\ Fresh' /\ ReplyInv'
  BY <1>4 DEF IInv, RowsInv, NamesInv, ScoresInv, Fresh, ReplyInv, Answered, ByRoute, askVars
<1> QED BY <1>5, <1>6 DEF IInv, AskType, askVars

LEMMA InitIInv == Init => IInv
<1> SUFFICES ASSUME Init PROVE IInv
  OBVIOUS
<1> DEFINE first == CHOOSE q \in Question : TRUE
<1>1. first \in Question
  BY BoundFacts
<1>2. ask = Unread(first, {}) /\ withdrawn = {}
  BY DEF Init, PublishedInit
<1> HIDE DEF first
<1>3. ask \in Asks
  <2>1. [a \in Name |-> {}] \in [Name -> SUBSET Place]
    OBVIOUS
  <2> QED BY <1>1, <1>2, <2>1 DEF Unread, Asks
<1>4. PublishedTypeOK
  <2>1. weather \in [Day -> 0 .. MaxForecast]
    BY PublishedAssumption DEF Init, PublishedInit
  <2>2. \A d \in Day : weather[d] \in Row /\ None \in Row
    BY <2>1 DEF Row
  <2>3. scored \in [Name -> [Day -> Row]]
    BY <2>2 DEF Init, PublishedInit
  <2> QED BY <2>1, <2>3, PublishedAssumption DEF Init, PublishedInit, PublishedTypeOK
<1>5. TypeOK
  BY <1>1, <1>2, <1>3, <1>4, BoundFacts DEF Init, TypeOK, Unread, Unanswered
<1>6. Fresh /\ RowsInv /\ NamesInv /\ ScoresInv /\ ReplyInv
  BY <1>2 DEF Init, Unread, Fresh, RowsInv, NamesInv, ScoresInv, ReplyInv, Answered
<1> QED BY <1>3, <1>5, <1>6 DEF IInv, AskType

LEMMA StepIInv == IInv /\ [Next]_vars => IInv'
<1> SUFFICES ASSUME IInv, [Next]_vars PROVE IInv'
  OBVIOUS
<1>1. CASE UNCHANGED vars
  <2>1. UNCHANGED <<storeVars, step, ask, reply, asked>>
    BY <1>1 DEF vars, askVars
  <2>2. TypeOK'
    BY <2>1 DEF IInv, AskType, TypeOK, PublishedTypeOK, storeVars
  <2>3. RowsInv' /\ NamesInv' /\ ScoresInv' /\ Fresh' /\ ReplyInv'
    BY <2>1 DEF IInv, RowsInv, NamesInv, ScoresInv, Fresh, ReplyInv, Answered, ByRoute, storeVars
  <2> QED BY <2>1, <2>2, <2>3 DEF IInv, AskType
<1>2. CASE Agent
  BY <1>2, LookUpKeeps, KeywordsKeep, CoverageKeeps, ForecastKeeps, ScoresKeeps, VenuesKeeps,
     PlacesKeeps, EventsKeeps, ExpiredKeeps, ComposeKeeps DEF Agent
<1> QED BY <1>1, <1>2, NewQuestion, StoreKeeps DEF Next

LEMMA SpecIInv == Spec => []IInv
  BY InitIInv, StepIInv, PTL DEF Spec

\* Every variable keeps its type; in particular, only an answer of the model has
\* clauses of the model (ask).
THEOREM TypeCorrect == Spec => []TypeOK
  BY SpecIInv, PTL DEF IInv, AskType

--------------------------------------------------------------------------
(* What an answer says, by the operators that write it. *)

\* Every gap is a gap, a stale feed or a place that is not there.
LEMMA GapKinds ==
  ASSUME NEW r, NEW s \in GapBlock(r)
  PROVE  s.of \in {"no_event", "no_weather", "no_place", "stale"}
  BY DEF GapBlock, OtherGaps, StaleFeed, Daily, Says
LEMMA ActivityGapKinds ==
  ASSUME NEW r, NEW s \in ActivityGaps(r) \cup UnscoredDates(r)
  PROVE  s.of = "no_score"
  BY DEF ActivityGaps, UnscoredDates, Says

\* A line about the days, the venues or the listings is of its own kind.
LEMMA LineKinds ==
  /\ \A of, days : \A s \in Daily(of, days) : s.of = of
  /\ \A e : \A s \in EventLines(e) : s.of = "event"
  /\ \A r, a : \A s \in VenueLines(r, a) : \/ s.of = "no_venue"
                                           \/ s.of = "venue" /\ s.what \in r.venues[a]
<1>1. \A of, days : \A s \in Daily(of, days) : s.of = of
  BY DEF Daily, Says
<1>2. \A e : \A s \in EventLines(e) : s.of = "event"
  BY DEF EventLines, Says
<1>3. ASSUME NEW r, NEW a, NEW s \in VenueLines(r, a)
      PROVE  s.of = "no_venue" \/ (s.of = "venue" /\ s.what \in r.venues[a])
  <2>1. CASE r.venues[a] = {}
    <3>1. s = Says("no_venue", a, None)
      BY <1>3, <2>1 DEF VenueLines
    <3>2. s.of = "no_venue"
      BY <3>1 DEF Says
    <3> QED BY <3>2
  <2>2. CASE r.venues[a] # {}
    <3>1. VenueLines(r, a) = {Says("venue", p, None) : p \in r.venues[a]}
      BY <2>2 DEF VenueLines
    <3>2. PICK p \in r.venues[a] : s = Says("venue", p, None)
      BY <1>3, <3>1
    <3> QED BY <3>2 DEF Says
  <2> QED BY <2>1, <2>2
<1> QED BY <1>1, <1>2, <1>3

\* A line of an answer written by code: where it comes from, by its route.
LEMMA WhereLines ==
  ASSUME NEW r, NEW s \in WhereAnswer(r)
  PROVE  \/ \E a \in r.named : s \in VenueLines(r, a)
         \/ s \in r.scores \/ s.of = "no_score"
<1>1. \/ \E a \in r.named : s \in VenueLines(r, a)
      \/ s \in r.scores \/ s \in ActivityGaps(r) \cup UnscoredDates(r)
  BY DEF WhereAnswer
<1> QED BY <1>1, ActivityGapKinds
LEMMA NamedLines ==
  ASSUME NEW r, NEW s \in NamedAnswer(r)
  PROVE  s \in r.scores \/ s.of = "no_score" \/ s \in GapBlock(r)
<1>1. s \in r.scores \/ s \in ActivityGaps(r) \cup UnscoredDates(r) \/ s \in GapBlock(r)
  BY DEF NamedAnswer, Undenied
<1> QED BY <1>1, ActivityGapKinds
\* One row a day is a row.
LEMMA OneADayRows ==
  ASSUME NEW scores PROVE OneADay(scores) \subseteq scores
<1> SUFFICES ASSUME NEW s \in OneADay(scores) PROVE s \in scores
  OBVIOUS
<1>1. PICK d \in {x.day : x \in {x \in scores : x.of = "score"}} :
        s = CHOOSE x \in scores : x.day = d
  BY DEF OneADay
<1>2. \E x \in scores : x.day = d
  OBVIOUS
<1> QED BY <1>1, <1>2
LEMMA RenderedLines ==
  ASSUME NEW r, NEW s \in Rendered(r)
  PROVE  \/ s.of \in {"weather", "event", "no_score"}
         \/ s.of = "place" /\ s.what \in r.places
         \/ s \in r.scores \/ s \in GapBlock(r)
<1>1. \/ s \in Daily("weather", r.covered)
      \/ s \in (IF r.named # {} THEN r.scores ELSE OneADay(r.scores))
      \/ s \in {Says("place", p, None) : p \in r.places}
      \/ s \in UNION {EventLines(e) : e \in r.events}
      \/ s \in ActivityGaps(r) \/ s \in GapBlock(r)
  BY DEF Rendered
<1>2. CASE s \in (IF r.named # {} THEN r.scores ELSE OneADay(r.scores))
  BY <1>2, OneADayRows
<1>3. CASE s \in {Says("place", p, None) : p \in r.places}
  BY <1>3 DEF Says
<1> QED BY <1>1, <1>2, <1>3, LineKinds, ActivityGapKinds

\* A statement of a score is one of the rows.
LEMMA ScoresAreRows ==
  ASSUME NEW r, NEW s, s.of \in {"score", "null_score"}
  PROVE  /\ s \notin GapBlock(r)
         /\ s \in WhereAnswer(r) \cup NamedAnswer(r) \cup Rendered(r) => s \in r.scores
<1>1. s \notin GapBlock(r)
  BY GapKinds
<1>2. s \in WhereAnswer(r) => s \in r.scores
  BY WhereLines, LineKinds
<1>3. s \in NamedAnswer(r) => s \in r.scores
  BY <1>1, NamedLines
<1>4. s \in Rendered(r) => s \in r.scores
  BY <1>1, RenderedLines
<1> QED BY <1>1, <1>2, <1>3, <1>4

\* A statement of a venue or a place is one of those read.
LEMMA PlacesAreRows ==
  ASSUME NEW r, NEW s, s.of \in {"venue", "place"}, r.scores \subseteq Statement
  PROVE  /\ s \notin GapBlock(r) /\ s \notin NamedAnswer(r)
         /\ s \in WhereAnswer(r) => \E a \in r.named : s.what \in r.venues[a]
         /\ s \in Rendered(r) => s.what \in r.places
<1>1. s \notin GapBlock(r) /\ s \notin r.scores
  BY GapKinds DEF Statement
<1>2. s \notin NamedAnswer(r)
  BY <1>1, NamedLines
<1>3. s \in WhereAnswer(r) => \E a \in r.named : s.what \in r.venues[a]
  BY <1>1, WhereLines, LineKinds
<1>4. s \in Rendered(r) => s.what \in r.places
  BY <1>1, RenderedLines
<1> QED BY <1>1, <1>2, <1>3, <1>4

--------------------------------------------------------------------------
(* The promises. *)

\* An answer that says something of a kind is on has a listing of that kind behind it,
\* running on the day said after it, or the words are the label of a scored activity, not
\* told as an arrangement; and neither the listing nor a place in the answer was withdrawn
\* when the question came, whatever the model writes (grounding.violations, checks 1, 3b
\* and 11, Router.retrieve).
THEOREM NothingInvented == Spec => []NoInventedListing
<1>1. IInv => NoInventedListing
  <2> DEFINE Listed(c) == \E e \in Event \ ask.gone :
                 /\ KindOf[e] = c.what
                 /\ (c.day # None /\ "tail" \in c.words /\ Plain(c)) => c.day \in Runs[e]
             Labelled(c) == Masked(c, ask) /\ ("predicate" \in c.words => c.onRecord)
  <2> SUFFICES ASSUME IInv, Answered PROVE
        /\ \A c \in reply.clauses : (c.of = "event" /\ ~c.negated) => Labelled(c) \/ Listed(c)
        /\ \A s \in reply.said : s.of \in {"venue", "place"} => s.what \notin ask.gone
    BY DEF NoInventedListing, Rows
  <2>1. /\ TypeOK /\ ask \in Asks /\ RowsInv /\ ReplyInv
        /\ ask.events \subseteq Event /\ ask.named \subseteq Name
    BY DEF IInv, AskType, TypeOK
  <2>2. ASSUME NEW c \in reply.clauses, c.of = "event", ~c.negated
        PROVE  Labelled(c) \/ Listed(c)
    <3>1. ~Broken(c, ask)
      BY <2>1, <2>2 DEF ReplyInv, ByRoute
    <3>2. ~EventBroken(c, ask) /\ ~Arranged(c, ask)
      BY <2>2, <3>1 DEF Broken
    <3>3. CASE Masked(c, ask)
      BY <2>2, <3>2, <3>3 DEF Arranged, Plain
    <3>4. CASE ~Masked(c, ask)
      <4>1. /\ c.what \in Present(ask)
            /\ Plain(c) /\ "tail" \in c.words /\ c.day # None =>
                 \E e \in ask.events : KindOf[e] = c.what /\ c.day \in Runs[e]
        BY <2>2, <3>2, <3>4 DEF EventBroken
      <4>2. PICK e \in ask.events : KindOf[e] = c.what
        BY <4>1 DEF Present
      <4> QED BY <2>1, <4>1, <4>2 DEF RowsInv
    <3> QED BY <3>3, <3>4
  <2>3. ASSUME NEW s \in reply.said, s.of \in {"venue", "place"} PROVE s.what \notin ask.gone
    <3>1. ask.scores \subseteq Statement
      BY <2>1 DEF Asks
    <3>2. s \in WhereAnswer(ask) \/ s \in Rendered(ask)
      <4>1. \A g \in ActivityGaps(ask) : g.of = "no_score"
        BY ActivityGapKinds
      <4>2. s \notin Unstated(ask, reply.clauses)
        BY <2>3, <4>1 DEF Unstated
      <4> QED BY <2>1, <2>3, <3>1, <4>2, PlacesAreRows DEF ReplyInv, ByRoute
    <3>3. CASE s \in WhereAnswer(ask)
      <4>1. PICK a \in ask.named : s.what \in ask.venues[a]
        BY <2>3, <3>1, <3>3, PlacesAreRows
      <4> QED BY <2>1, <4>1 DEF RowsInv
    <3>4. CASE s \in Rendered(ask)
      BY <2>1, <2>3, <3>1, <3>4, PlacesAreRows DEF RowsInv
    <3> QED BY <3>2, <3>3, <3>4
  <2> QED BY <2>2, <2>3
<1> QED BY <1>1, SpecIInv, PTL

\* A question of names gets their scores alone, and the model passes no verdict on an
\* activity without a row, and puts in no band one it was told has none (Router.retrieve,
\* grounding.violations, checks 4, 5 and 10).
THEOREM NothingBorrowed == Spec => []NoBorrowedScore
<1>1. IInv => NoBorrowedScore
  <2> SUFFICES ASSUME IInv, Answered PROVE
        /\ (ask.q.names # {} /\ ~ask.q.scheduled) =>
             \A s \in reply.said : s.of \in {"score", "null_score"} => s.what \in ask.q.names
        /\ \A c \in reply.clauses : c.of = "score" =>
             /\ (/\ Plain(c) /\ "verdict" \in c.words
                 /\ c.what \in Activity \cup ask.named \cup ask.unknown)
                  => c.what \in Scored(ask)
             /\ (~c.negated /\ c.words \cap {"verdict", "band"} # {})
                  => c.what \notin Unscored(ask)
    BY DEF NoBorrowedScore, Rows
  <2>1. NamesInv /\ ScoresInv /\ ReplyInv
    BY DEF IInv
  <2>2. ASSUME ask.q.names # {}, ~ask.q.scheduled,
               NEW s \in reply.said, s.of \in {"score", "null_score"}
        PROVE  s.what \in ask.q.names
    <3>1. \A g \in ActivityGaps(ask) : g.of = "no_score"
      BY ActivityGapKinds
    <3>2. s \notin Unstated(ask, reply.clauses)
      BY <2>2, <3>1 DEF Unstated
    <3>3. s \in ask.scores
      BY <2>1, <2>2, <3>2, ScoresAreRows DEF ReplyInv, ByRoute
    <3>4. ask.named # {} \/ ask.unknown # {}
      BY <2>1, <2>2 DEF NamesInv, Answered
    <3> QED BY <2>1, <2>2, <3>3, <3>4 DEF NamesInv, ScoresInv
  <2>3. ASSUME NEW c \in reply.clauses, c.of = "score"
        PROVE  ~ScoreBroken(c, ask) /\ ask.named = {}
    <3>1. ~Broken(c, ask) /\ ask.named = {}
      BY <2>1, <2>3 DEF ReplyInv, ByRoute, InCode
    <3> QED BY <2>3, <3>1 DEF Broken
  <2>4. ASSUME NEW c \in reply.clauses, c.of = "score",
               ~c.negated, c.words \cap {"verdict", "band"} # {}
        PROVE  c.what \notin Unscored(ask)
    BY <2>3, <2>4 DEF ScoreBroken
  <2>5. ASSUME NEW c \in reply.clauses, c.of = "score", Plain(c), "verdict" \in c.words,
               c.what \in Activity \cup ask.named \cup ask.unknown
        PROVE  c.what \in Scored(ask)
    <3>1. c.what \notin Unscored(ask) /\ ask.named = {}
      BY <2>3, <2>4, <2>5 DEF Plain
    <3>2. c.what \in Activity
      BY <2>5, <3>1 DEF Unscored
    <3>3. ask.scores # {} /\ c.what \notin Activity \ (Scored(ask) \cup Unscored(ask))
      BY <2>3, <2>5 DEF ScoreBroken
    <3> QED BY <3>1, <3>2, <3>3
  <2> QED BY <2>2, <2>4, <2>5
<1> QED BY <1>1, SpecIInv, PTL

\* The answer about named activities never denies the weather of a day it has just
\* scored, though the two were read by two queries (dated_gap_brief).
THEOREM OneStoryADay == Spec => []NoDayBothWays
<1>1. IInv => NoDayBothWays
  <2> SUFFICES ASSUME IInv, Answered, reply.route = "named",
                      NEW s \in reply.said, s.of \in {"score", "null_score"},
                      Says("no_weather", None, s.day) \in reply.said
               PROVE  FALSE
    BY DEF NoDayBothWays
  <2> DEFINE denial == Says("no_weather", None, s.day)
  <2>1. reply.said = NamedAnswer(ask) /\ ask.scores \subseteq Statement
    BY DEF IInv, AskType, ReplyInv, ByRoute, Asks
  <2>2. s \in ask.scores
    BY <2>1, ScoresAreRows
  <2>3. denial.of = "no_weather"
    BY DEF Says
  <2>4. denial \notin ask.scores /\ denial \notin ActivityGaps(ask) \cup UnscoredDates(ask)
    BY <2>1, <2>3, ActivityGapKinds DEF Statement
  <2>5. denial \in Undenied(ask, GapBlock(ask))
    BY <2>1, <2>4 DEF NamedAnswer
  <2>6. denial \in Daily("no_weather", {x.day : x \in ask.scores})
    BY <2>2 DEF Daily
  <2> QED BY <2>5, <2>6 DEF Undenied
<1> QED BY <1>1, SpecIInv, PTL

\* What was asked about and has no row is said, by every route that has a place for it:
\* gap_block is all of an empty answer and the end of the others but where_answer, which
\* states the activities alone, and unstated_activity_gaps adds to the wording of the
\* model the activities it did not name.
THEOREM GapsAreSaid == Spec => []GapsSurvive
<1>1. IInv => GapsSurvive
  <2> DEFINE Daylong == reply.route \in {"empty", "named", "rendered", "model"}
             Listing == reply.route \in {"where", "named", "rendered", "model"}
  <2> SUFFICES ASSUME IInv, Answered PROVE
        /\ Daylong =>
             /\ \A d \in Uncovered(ask) :
                  \/ Says("no_weather", None, d) \in reply.said
                  \/ \E s \in reply.said : s.of \in {"score", "null_score"} /\ s.day = d
             /\ "events" \in ask.intents =>
                  \A k \in ask.q.kinds \ Present(ask) : Says("no_event", k, None) \in reply.said
        /\ Listing =>
             \A a \in Unscored(ask) : \E s \in reply.said \cup reply.clauses : s.what = a
    BY DEF GapsSurvive, Rows
  <2>1. /\ ask.scores \subseteq Statement
        /\ Daylong => \/ reply.said = GapBlock(ask)
                      \/ reply.said = NamedAnswer(ask)
                      \/ reply.said = Rendered(ask)
                      \/ reply.said = GapBlock(ask) \cup Unstated(ask, reply.clauses)
        /\ Listing => \/ reply.said = WhereAnswer(ask)
                      \/ reply.said = NamedAnswer(ask)
                      \/ reply.said = Rendered(ask)
                      \/ reply.said = GapBlock(ask) \cup Unstated(ask, reply.clauses)
    BY DEF IInv, AskType, ReplyInv, ByRoute, Asks
  <2>2. Daylong =>
          \/ GapBlock(ask) \subseteq reply.said
          \/ /\ ask.scores \subseteq reply.said
             /\ GapBlock(ask) \ Daily("no_weather", {x.day : x \in ask.scores}) \subseteq reply.said
    BY <2>1 DEF NamedAnswer, Rendered, Undenied
  <2>3. ASSUME Daylong, NEW d \in Uncovered(ask)
        PROVE  \/ Says("no_weather", None, d) \in reply.said
               \/ \E s \in reply.said : s.of \in {"score", "null_score"} /\ s.day = d
    <3>1. Says("no_weather", None, d) \in GapBlock(ask)
      BY <2>3 DEF GapBlock, OtherGaps, Daily
    <3>2. ASSUME Says("no_weather", None, d) \in Daily("no_weather", {x.day : x \in ask.scores})
          PROVE  \E x \in ask.scores : x.day = d
      BY <3>2 DEF Daily, Says
    <3> QED BY <2>1, <2>2, <2>3, <3>1, <3>2 DEF Statement
  <2>4. ASSUME Daylong, "events" \in ask.intents, NEW k \in ask.q.kinds \ Present(ask)
        PROVE  Says("no_event", k, None) \in reply.said
    <3>1. Says("no_event", k, None) \in GapBlock(ask)
      BY <2>4 DEF GapBlock, OtherGaps
    <3>2. Says("no_event", k, None).of = "no_event"
      BY DEF Says
    <3>3. Says("no_event", k, None) \notin Daily("no_weather", {x.day : x \in ask.scores})
      BY <3>2, LineKinds
    <3> QED BY <2>2, <2>4, <3>1, <3>3
  <2>5. ASSUME Listing, NEW a \in Unscored(ask)
        PROVE  \E s \in reply.said \cup reply.clauses : s.what = a
    <3> DEFINE gap == Says("no_score", a, None)
    <3>1. gap \in ActivityGaps(ask) /\ gap.what = a
      BY <2>5 DEF ActivityGaps, Says
    <3> HIDE DEF gap
    <3>2. \/ ActivityGaps(ask) \subseteq reply.said
          \/ Unstated(ask, reply.clauses) \subseteq reply.said
      BY <2>1, <2>5 DEF WhereAnswer, NamedAnswer, Rendered
    <3> QED BY <3>1, <3>2 DEF Unstated
  <2> QED BY <2>3, <2>4, <2>5
<1> QED BY <1>1, SpecIInv, PTL

--------------------------------------------------------------------------
(* The days a question is about. *)

\* A set of dates has a first, through the library's minimal elements of
\* well-founded relations, and a last, which is the first counted backwards.
LEMMA LeastNatural ==
  ASSUME NEW S \in SUBSET Nat, S # {}
  PROVE  \E n \in S : \A k \in S : n <= k
<1> DEFINE R == OpToRel(<, Nat)
<1>1. PICK n \in S : \A k \in S : ~(<<k, n>> \in R)
  <2>1. IsWellFoundedOn(R, Nat)
    BY NatLessThanWellFounded, Zenon
  <2> HIDE DEF R
  <2> QED  BY <2>1, WFMin
<1>2. \A k \in Nat : k < n => <<k, n>> \in R
  BY Zenon DEF OpToRel
<1>3. \A k \in S : ~(k < n)
  BY <1>1, <1>2
<1> QED  BY <1>3

LEMMA FirstOf ==
  ASSUME NEW S \in SUBSET Nat, S # {}
  PROVE  First(S) \in S /\ \A k \in S : First(S) <= k
BY LeastNatural DEF First

LEMMA DatesAreNatural == LastDate \in Nat /\ 0 .. LastDate \subseteq Nat
<1>1. 9999 * 365 \in Nat /\ \A n \in Nat : n + 2424 - 1 \in Nat
  OBVIOUS
<1>2. LastDate \in Nat
  BY <1>1 DEF LastDate
<1> QED  BY <1>2

LEMMA LastOf ==
  ASSUME NEW S \in SUBSET (0 .. LastDate), S # {}
  PROVE  Last(S) \in S /\ \A k \in S : k <= Last(S)
<1> DEFINE T == {LastDate - k : k \in S}
<1>0. LastDate \in Nat
  BY DatesAreNatural
<1>1. T \in SUBSET Nat /\ T # {}
  <2>1. \A k \in S : k \in Nat /\ k <= LastDate
    BY <1>0
  <2>2. \A k \in S : LastDate - k \in Nat
    BY <1>0, <2>1
  <2> QED  BY <2>2
<1>2. PICK n \in T : \A k \in T : n <= k
  <2> HIDE DEF T
  <2> QED  BY <1>1, LeastNatural
<1>3. PICK m \in S : n = LastDate - m
  BY <1>2
<1>4. \A k \in S : k <= m
  <2> TAKE k \in S
  <2>1. n <= LastDate - k
    BY <1>2
  <2> QED  BY <1>0, <1>3, <2>1
<1> QED  BY <1>3, <1>4 DEF Last

\* Written dates: from the first on, to the last or for a year.
LEMMA WrittenOut ==
  ASSUME NEW S \in SUBSET (0 .. LastDate), S # {}
  PROVE  /\ First(S) \in Days(Explicit(S))
         /\ Days(Explicit(S)) \subseteq First(S) .. Last(S)
<1>1. First(S) \in Nat /\ Last(S) \in Nat /\ First(S) <= Last(S)
  <2>1. S \in SUBSET Nat
    BY DatesAreNatural
  <2> QED  BY <2>1, FirstOf, LastOf
<1> DEFINE used == Bounded(1, Last(S) - First(S) + 1, MaxExplicitDays)
<1>2. used \in Nat /\ 1 <= used /\ used <= Last(S) - First(S) + 1
  BY <1>1 DEF Bounded, MaxExplicitDays
<1>3. Explicit(S) = [start |-> First(S), end |-> First(S) + used - 1]
  BY DEF Explicit, Period
<1> HIDE DEF used
<1> QED  BY <1>1, <1>2, <1>3 DEF Days

\* So many days ahead: from today, for a month at most.
LEMMA DaysAhead ==
  ASSUME NEW today \in Nat, NEW span \in Nat
  PROVE  /\ Ahead(today, span).start = today
         /\ Ahead(today, span).end \in today .. (today + 30)
BY DEF Ahead, Period, Bounded, MaxRelativeDays

\* A named weekday comes within a week.
LEMMA ComingOf ==
  ASSUME NEW today \in Nat, NEW n \in 0 .. 6
  PROVE  Coming(today, n) \in (today + 1) .. (today + 7) /\ Weekday(Coming(today, n)) = n
BY DEF Coming, Weekday

\* What a question without a date is about, counted from today.
LEMMA CountedFromToday ==
  ASSUME NEW today \in Nat, NEW said \in Saying, said.dates = {}
  PROVE  LET r == Resolve(said, today)
         IN /\ r.start \in Int /\ r.end \in Int /\ r.start <= r.end
            /\ today - 1 <= r.start /\ r.end <= today + 30
            /\ "yesterday" \notin said.phrases => today <= r.start
<1> DEFINE r == Resolve(said, today)
           Good(q) == /\ q.start \in Int /\ q.end \in Int /\ q.start <= q.end
                      /\ today - 1 <= q.start /\ q.end <= today + 30
                      /\ "yesterday" \notin said.phrases => today <= q.start
           saturday == today + ((5 - Weekday(today)) % 7)
           monday == today + (7 - Weekday(today))
<1>1. /\ said.weekdays \in SUBSET (0 .. 6)
      /\ said.weeks \in SUBSET Nat /\ said.days \in SUBSET Nat
  BY DEF Saying
<1>2. /\ saturday \in Int /\ today <= saturday /\ saturday <= today + 6
      /\ monday \in Int /\ today <= monday /\ monday <= today + 7
  BY DEF Weekday
<1>3. \A q \in (today - 1) .. (today + 7) :
        (q < today => "yesterday" \in said.phrases) => Good(One(q))
  BY DEF One, Period
<1>4. \A q \in today .. (today + 7) : Good(Period(q, q + 1)) /\ Good(Period(q, q + 6))
  BY DEF Period
<1>5. \A span \in Nat : Good(Ahead(today, span))
  <2> TAKE span \in Nat
  <2>1. /\ Ahead(today, span).start = today
        /\ Ahead(today, span).end \in today .. (today + 30)
    BY DaysAhead
  <2> QED  BY <2>1
<1>6. said.weekdays # {} => Good(One(Coming(today, First(said.weekdays))))
  <2> SUFFICES ASSUME said.weekdays # {}
               PROVE  Good(One(Coming(today, First(said.weekdays))))
    OBVIOUS
  <2>1. First(said.weekdays) \in 0 .. 6
    BY <1>1, FirstOf
  <2>2. Coming(today, First(said.weekdays)) \in (today + 1) .. (today + 7)
    BY <2>1, ComingOf
  <2> QED  BY <1>3, <2>2
<1>7. said.weeks # {} => Good(Ahead(today, 7 * First(said.weeks)))
  <2>1. said.weeks # {} => 7 * First(said.weeks) \in Nat
    BY <1>1, FirstOf
  <2> HIDE DEF Good
  <2> QED  BY <1>5, <2>1
<1>8. said.days # {} => Good(Ahead(today, First(said.days)))
  <2>1. said.days # {} => First(said.days) \in Nat
    BY <1>1, FirstOf
  <2> HIDE DEF Good
  <2> QED  BY <1>5, <2>1
<1>9. /\ Good(One(today + 2)) /\ Good(One(today + 1)) /\ Good(One(today))
      /\ "yesterday" \in said.phrases => Good(One(today - 1))
      /\ Good(Period(saturday, saturday + 1)) /\ Good(Period(monday, monday + 6))
      /\ Good(Period(today, today + 6))
  <2>1. /\ saturday \in today .. (today + 7) /\ monday \in today .. (today + 7)
        /\ {today, today + 1, today + 2, today - 1} \subseteq (today - 1) .. (today + 7)
    BY <1>2
  <2> HIDE DEF saturday, monday
  <2>2. Good(Period(saturday, saturday + 1)) /\ Good(Period(monday, monday + 6))
    BY <1>4, <2>1
  <2>3. today \in today .. (today + 7) /\ ~(today < today) /\ ~(today + 1 < today)
        /\ ~(today + 2 < today)
    OBVIOUS
  <2> HIDE DEF Good
  <2> QED  BY <1>3, <1>4, <2>1, <2>2, <2>3
<1>10. Good(r)
  <2> HIDE DEF Good
  <2> QED  BY <1>6, <1>7, <1>8, <1>9 DEF Resolve
<1> QED  BY <1>10

\* dates.py's _resolve, for every question and every day: an answer is about one
\* day at least, a month at most when it counts from today and a year when the
\* dates are written out, and looks back only when the question does.
THEOREM QuestionsAreAboutDays ==
  ASSUME NEW today \in Nat, NEW said \in Saying
  PROVE  WellFormed(said, today)
<1>1. CASE said.dates # {}
  <2>1. Resolve(said, today) = Explicit(said.dates)
    BY <1>1 DEF Resolve
  <2>2. said.dates \in SUBSET (0 .. LastDate)
    BY DEF Saying
  <2> QED  BY <1>1, <2>1, <2>2, WrittenOut DEF WellFormed
<1>2. CASE said.dates = {}
  <2> DEFINE r == Resolve(said, today)
  <2>1. /\ r.start \in Int /\ r.end \in Int /\ r.start <= r.end
        /\ today - 1 <= r.start /\ r.end <= today + 30
        /\ "yesterday" \notin said.phrases => today <= r.start
    BY <1>2, CountedFromToday
  <2> HIDE DEF r
  <2>2. /\ r.start .. r.end # {}
        /\ r.start .. r.end \subseteq (today - 1) .. (today + MaxRelativeDays - 1)
        /\ "yesterday" \notin said.phrases => r.start .. r.end \subseteq today .. (today + 30)
    <3>1. r.start \in r.start .. r.end
      BY <2>1
    <3> QED  BY <2>1, <3>1 DEF MaxRelativeDays
  <2> QED  BY <1>2, <2>2 DEF WellFormed, Days, r
<1> QED  BY <1>1, <1>2

\* dates.py's _resolve: a named weekday is that weekday, one of the next seven days
\* and never today, the weekend a Saturday and the Sunday after it, and next week a
\* Monday to a Sunday still to come, whatever day it is today.
THEOREM NamedDaysAreThose ==
  ASSUME NEW today \in Nat
  PROVE  OnTheDay(today)
<1> DEFINE about(phrase) == Days(Resolve([Nothing EXCEPT !.phrases = {phrase}], today))
           saturday == today + ((5 - Weekday(today)) % 7)
           monday == today + (7 - Weekday(today))
<1>1. about("weekend") = saturday .. (saturday + 1)
  BY DEF Resolve, Nothing, Days, Period
<1>2. about("next_week") = monday .. (monday + 6)
  BY DEF Resolve, Nothing, Days, Period
<1>3. ASSUME NEW n \in 0 .. 6
      PROVE  Days(Resolve([Nothing EXCEPT !.weekdays = {n}], today)) = {Coming(today, n)}
  <2>1. First({n}) = n
    <3>1. {n} \in SUBSET Nat
      OBVIOUS
    <3>2. First({n}) \in {n}
      BY <3>1, FirstOf
    <3> QED  BY <3>2
  <2>2. Resolve([Nothing EXCEPT !.weekdays = {n}], today) = One(Coming(today, n))
    BY <2>1 DEF Resolve, Nothing
  <2>3. Coming(today, n) \in Int
    <3>1. Coming(today, n) \in (today + 1) .. (today + 7)
      BY ComingOf
    <3> QED  BY <3>1
  <2> QED  BY <2>2, <2>3 DEF Days, One, Period
<1>4. \A n \in 0 .. 6 :
        \E d \in (today + 1) .. (today + 7) :
          /\ Weekday(d) = n
          /\ Days(Resolve([Nothing EXCEPT !.weekdays = {n}], today)) = {d}
  BY <1>3, ComingOf
<1>5. /\ saturday \in Nat /\ today <= saturday
      /\ Weekday(saturday) = 5 /\ Weekday(saturday + 1) = 6
  BY DEF Weekday
<1>6. /\ monday \in Nat /\ today < monday
      /\ \A k \in 0 .. 6 : Weekday(monday + k) = k
  BY DEF Weekday
<1> HIDE DEF about, saturday, monday
<1>7. {Weekday(d) : d \in about("weekend")} = {5, 6} /\ \A d \in about("weekend") : d >= today
  <2>1. saturday .. (saturday + 1) = {saturday, saturday + 1}
    BY <1>5
  <2> QED  BY <1>1, <1>5, <2>1
<1>8. {Weekday(d) : d \in about("next_week")} = 0 .. 6
      /\ \A d \in about("next_week") : d > today
  <2>1. \A d \in about("next_week") : d - monday \in 0 .. 6 /\ d = monday + (d - monday)
    BY <1>2, <1>6
  <2>2. \A d \in about("next_week") : Weekday(d) \in 0 .. 6 /\ d > today
    BY <1>2, <1>6, <2>1
  <2>3. \A k \in 0 .. 6 : monday + k \in about("next_week")
    BY <1>2, <1>6
  <2> QED  BY <1>6, <2>2, <2>3
<1> QED  BY <1>4, <1>7, <1>8 DEF OnTheDay, about
==========================================================================
