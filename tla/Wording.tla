------------------------------ MODULE Wording ------------------------------
(***************************************************************************)
(* The recommendations of one city and day: the forecast, the score of     *)
(* each activity, and the sentence the enricher has a model write about    *)
(* it.  The consumer's handlers are one transaction, so one step, each;    *)
(* the enricher is a loop that reads rows, calls the model for each, and   *)
(* sends what it said through its own outbox and the queue.                *)
(*                                                                         *)
(* Module Delivery supplies what this one assumes of the write path: an    *)
(* accepted envelope is stored at most once and in any order.              *)
(***************************************************************************)
EXTENDS Naturals, FiniteSets

CONSTANTS
  Activity,
  Supported,     \* activities_for_city: the catalogue's that the city has
  Refused,       \* activities that need a coast the city does not have
  Version,       \* envelopes carrying a forecast for the day
  Patch,         \* record.patch envelopes for the day's weather
  Request,       \* recommendation.request envelopes
  Reenrich,      \* recommendation.reenrich envelopes
  Wipe,          \* user_data.wipe envelopes
  AsOf,          \* AsOf[v]: when the provider produced forecast v
  Score,         \* Score[v][a]: what the rules make of activity a under v
  TopN,          \* ENRICH_TOP_N
  AskedFor,      \* AskedFor[q]: the activity request q names
  Selected,      \* Selected[e]: the activities re-enrichment e covers
  WithDeferred,  \* the re-enrichments with include_deferred
  MaxInvalid,    \* ENRICH_MAX_INVALID_ATTEMPTS
  Batch,         \* ENRICH_BATCH
  None,
  MaxInFlight,   \* bound: model results in the queue
  MaxFaults      \* bound: crashes, outages of the broker, database or model

\* What the enricher reads of a pending row: the forecast it was scored from, if
\* any, and the weather joined to it.  A text keeps both.
Forecast == [version : Version, patched : BOOLEAN]
Snapshot == [activity : Activity, scored : Version \cup {None},
             weather : Forecast \cup {None}]
Result   == [row : Snapshot, status : {"ready", "invalid"}]
Text     == [scored : Version \cup {None}, weather : Forecast \cup {None}]

\* Two forecasts of one day with the same as_of are one envelope, and the ties of
\* scores are broken by key, the same way for every forecast.
ASSUME WordingAssumption ==
  /\ Supported \subseteq Activity /\ Refused \subseteq Activity
  /\ Supported \cap Refused = {}
  /\ IsFiniteSet(Version) /\ IsFiniteSet(Activity)
  /\ AsOf \in [Version -> Nat]
  /\ \A v, w \in Version : AsOf[v] = AsOf[w] => v = w
  /\ Score \in [Version -> [Activity -> Nat]]
  /\ \A v \in Version : \A a, b \in Supported : Score[v][a] = Score[v][b] => a = b
  /\ AskedFor \in [Request -> Activity]
  /\ Selected \in [Reenrich -> SUBSET Activity]
  /\ None \notin Version \cup Wipe \cup Forecast \cup Result \cup Text
  /\ Version \cap (Patch \cup Request \cup Reenrich \cup Wipe) = {}
  /\ Wipe \cap (Patch \cup Request \cup Reenrich) = {}
  /\ TopN \in Nat /\ MaxInvalid \in Nat \ {0} /\ Batch \in Nat \ {0}
  /\ MaxInFlight \in Nat /\ MaxFaults \in Nat

VARIABLES
  stored,     \* message_ids of ingest_log, model results aside
  weather,    \* the row of weather_daily: a forecast, patched or not
  rec,        \* the recommendations: rec[a] for each activity with a row
  latest,     \* the wipe stored last
  pc,         \* where the enricher's loop is
  seen,       \* last_wipe_id
  batch,      \* rows it has read and not yet sent to the model
  draft,      \* what the model said, checked against wipes and not yet accepted
  owed,       \* the unpublished row of its outbox
  outdated,   \* owed was accepted before the latest wipe
  sent,       \* results in the queue
  faults

tables   == <<stored, weather, rec, latest>>
enricher == <<pc, seen, batch, draft, owed, outdated>>
vars     == <<tables, enricher, sent, faults>>

Status == {"pending", "deferred", "ready", "failed"}

Scored(a)  == rec[a].scored # None
Pending    == {a \in DOMAIN rec : rec[a].status = "pending"}
Newest(V)  == CHOOSE v \in V : \A w \in V : AsOf[w] <= AsOf[v]

\* score_defaults asks for wording of the best scores of the day only.
Top(v) ==
  {a \in Supported : Cardinality({b \in Supported : Score[v][b] > Score[v][a]}) < TopN}

\* A row as scoring leaves it, without wording or attempts.
Row(status, requested, v) ==
  [status |-> status, requested |-> requested, scored |-> v, text |-> None, invalid |-> 0]

Asked(rows, a) == a \in DOMAIN rows /\ rows[a].requested

\* Every supported activity is scored again, and what a user asked for by name
\* keeps its place in the queue.
Rescored_AskedKept(rows, v) ==
  [a \in DOMAIN rows \cup Supported |->
     IF a \notin Supported \/ Asked(rows, a) THEN rows[a]
     ELSE Row(IF a \in Top(v) THEN "pending" ELSE "deferred", FALSE, v)]
Rescored_Demoted(rows, v) ==
  [a \in DOMAIN rows \cup Supported |->
     IF a \notin Supported THEN rows[a]
     ELSE Row(IF a \in Top(v) THEN "pending" ELSE "deferred", Asked(rows, a), v)]
Rescored(rows, v) ==
  [a \in DOMAIN rows \cup Supported |->
     IF a \notin Supported THEN rows[a]
     ELSE Row(IF a \in Top(v) \/ Asked(rows, a) THEN "pending" ELSE "deferred",
              Asked(rows, a), v)]

Init ==
  /\ stored = {} /\ weather = None /\ rec = [a \in {} |-> None] /\ latest = None
  /\ pc = "head" /\ seen = None /\ batch = {} /\ draft = None
  /\ owed = None /\ outdated = FALSE
  /\ sent = [n \in {} |-> None]
  /\ faults = 0

(***************************************************************************)
(* The consumer.                                                           *)
(***************************************************************************)

Storing(m) == m \notin stored /\ stored' = stored \cup {m}

\* The upsert's guard.
Newer_Always(v) == TRUE
Newer(v) == weather = None \/ AsOf[v] > AsOf[weather.version]

\* A forecast that replaces the row is scored in the same transaction.
StoreForecast(v) ==
  /\ v \in Version /\ Storing(v)
  /\ IF Newer(v)
     THEN weather' = [version |-> v, patched |-> FALSE] /\ rec' = Rescored(rec, v)
     ELSE UNCHANGED <<weather, rec>>
  /\ UNCHANGED <<latest, enricher, sent, faults>>

\* A correction changes the measurements: neither as_of nor any score.  Without a
\* row it dead-letters.
StorePatch(p) ==
  /\ p \in Patch /\ Storing(p)
  /\ weather # None
  /\ weather' = [weather EXCEPT !.patched = TRUE]
  /\ UNCHANGED <<rec, latest, enricher, sent, faults>>

\* What a request for activity a leaves of the rows.
Requested(a) ==
  CASE a \in Refused -> rec
    [] a \notin Refused /\ weather # None ->
         [b \in DOMAIN rec \cup {a} |->
            IF b = a THEN Row("pending", TRUE, weather.version) ELSE rec[b]]
    [] OTHER ->
         [b \in DOMAIN rec \cup {a} |->
            IF b \in DOMAIN rec THEN rec[b] ELSE Row("failed", TRUE, None)]

StoreRequest(q) ==
  /\ q \in Request /\ Storing(q)
  /\ rec' = Requested(AskedFor[q])
  /\ UNCHANGED <<weather, latest, enricher, sent, faults>>
Reset(row) == [row EXCEPT !.status = "pending", !.text = None, !.invalid = 0]

StoreReenrich(e) ==
  /\ e \in Reenrich /\ Storing(e)
  /\ rec' = [a \in DOMAIN rec |->
               IF /\ a \in Selected[e]
                  /\ \/ rec[a].status \in {"ready", "failed"}
                     \/ rec[a].status = "deferred" /\ e \in WithDeferred
               THEN Reset(rec[a]) ELSE rec[a]]
  /\ UNCHANGED <<weather, latest, enricher, sent, faults>>
Counted_NoAttempt(row) == row
Counted(row) ==
  [row EXCEPT !.invalid = @ + 1,
              !.status = IF row.invalid + 1 >= MaxInvalid THEN "failed" ELSE "pending"]

\* The row has not been scored from a newer forecast than the wording's, if the
\* wording names one.
Current_Unchecked(snapshot, row) == TRUE
Current(snapshot, row) ==
  \/ snapshot.scored = None
  \/ row.scored # None /\ AsOf[row.scored] <= AsOf[snapshot.scored]

Worded(snapshot, row) ==
  [row EXCEPT !.status = "ready",
              !.text = [scored |-> snapshot.scored, weather |-> snapshot.weather]]

\* store_llm_recommendation on the row of the result's activity.
Told(r, row) ==
  CASE r.status = "invalid" /\ row.status = "pending" -> Counted(row)
    [] r.status = "ready" /\ Current(r.row, row)      -> Worded(r.row, row)
    [] OTHER                                          -> row

Taken(n) == n \in DOMAIN sent /\ sent' = [k \in DOMAIN sent \ {n} |-> sent[k]]

StoreResult(n) ==
  /\ Taken(n)
  /\ rec' = [a \in DOMAIN rec |->
               IF a = sent[n].row.activity THEN Told(sent[n], rec[a]) ELSE rec[a]]
  /\ UNCHANGED <<stored, weather, latest, enricher, faults>>

\* The guard tests an untyped parameter for null.  The driver binds it on the server,
\* which may refuse the statement; such a result ends in the dead-letter queue.
RefuseResult(n) ==
  /\ Taken(n)
  /\ sent[n].status = "ready" /\ sent[n].row.scored = None
  /\ UNCHANGED <<tables, enricher, faults>>

\* The rebuild replays the stored forecasts into empty tables; in whatever order
\* they were accepted, the newest stands and has been scored last.  A result the
\* enricher accepts while the transaction runs is later than its processed_at.
StoreWipe(w) ==
  /\ w \in Wipe /\ Storing(w)
  /\ LET V == stored \cap Version
     IN  IF V = {}
         THEN weather' = None /\ rec' = [a \in {} |-> None]
         ELSE /\ weather' = [version |-> Newest(V), patched |-> FALSE]
              /\ rec' = Rescored([a \in {} |-> None], Newest(V))
  /\ latest' = w
  /\ outdated' \in {outdated, owed # None}
  /\ UNCHANGED <<pc, seen, batch, draft, owed, sent, faults>>

(***************************************************************************)
(* The enricher.                                                           *)
(***************************************************************************)

\* The head of the loop: after a wipe, what was accepted before it is discarded.
CheckWipe ==
  /\ pc = "head" /\ pc' = "drain"
  /\ seen' = latest
  /\ owed' = IF latest # seen /\ outdated THEN None ELSE owed
  /\ outdated' = (outdated /\ owed' # None)
  /\ UNCHANGED <<tables, batch, draft, sent, faults>>

\* What is owed is published before the next rows are read and after each call.
Free == CHOOSE n \in 1..MaxInFlight : n \notin DOMAIN sent

AfterDrain ==
  CASE pc = "drain" -> "poll"
    [] pc # "drain" /\ batch = {} -> "head"
    [] OTHER -> "word"

Drain ==
  /\ pc \in {"drain", "redrain"} /\ pc' = AfterDrain
  /\ sent' = IF owed = None THEN sent
             ELSE [n \in DOMAIN sent \cup {Free} |-> IF n = Free THEN owed ELSE sent[n]]
  /\ owed' = None /\ outdated' = FALSE
  /\ UNCHANGED <<tables, seen, batch, draft, faults>>

\* The rows ordered before another: by score, a row without one last.
Rank(s)     == IF s.scored = None THEN 0 ELSE Score[s.scored][s.activity] + 1
ReadRow(a)  == [activity |-> a, scored |-> rec[a].scored, weather |-> weather]

Poll ==
  /\ pc = "poll"
  /\ Cardinality(DOMAIN sent) + Batch <= MaxInFlight
  /\ \E A \in SUBSET Pending :
       /\ Cardinality(A) = Batch \/ (A = Pending /\ Cardinality(A) < Batch)
       /\ \A a \in A, b \in Pending \ A : Rank(ReadRow(a)) >= Rank(ReadRow(b))
       /\ batch' = {ReadRow(a) : a \in A}
       /\ pc' = IF A = {} THEN "head" ELSE "word"
  /\ UNCHANGED <<tables, seen, draft, owed, outdated, sent, faults>>

\* The model's answer about the next row, which is dropped when a wipe was stored
\* since the head of the loop.
NextRow(s) == pc = "word" /\ s \in batch /\ \A t \in batch : Rank(s) >= Rank(t)

Word(s, status) ==
  /\ NextRow(s)
  /\ batch' = batch \ {s}
  /\ IF latest = seen
     THEN draft' = [row |-> s, status |-> status] /\ pc' = "accept"
     ELSE draft' = None /\ pc' = "redrain"
  /\ UNCHANGED <<tables, seen, owed, outdated, sent, faults>>

Accept ==
  /\ pc = "accept" /\ pc' = "redrain"
  /\ owed' = draft /\ draft' = None /\ outdated' = FALSE
  /\ UNCHANGED <<tables, seen, batch, sent, faults>>

\* Failures: bounded, and none of them consumes an attempt.
Fault == faults < MaxFaults /\ faults' = faults + 1

\* The rows cannot be read, or the model is unavailable: back to the head with the
\* rows as they are.
BatchAbandoned ==
  /\ Fault
  /\ pc \in {"poll", "word"} /\ pc' = "head" /\ batch' = {}
  /\ UNCHANGED <<tables, seen, draft, owed, outdated, sent>>

\* The broker does not confirm: the rest of the batch waits too.
DrainFails ==
  /\ Fault
  /\ pc \in {"drain", "redrain"} /\ owed # None
  /\ pc' = "head" /\ batch' = {}
  /\ UNCHANGED <<tables, seen, draft, owed, outdated, sent>>

\* The check for a wipe fails, and an unchecked result is not kept.
CheckFails(s) ==
  /\ Fault
  /\ NextRow(s) /\ batch' = batch \ {s} /\ pc' = "redrain"
  /\ UNCHANGED <<tables, seen, draft, owed, outdated, sent>>

\* A restart: last_wipe_id is forgotten, the outbox is not.
Crash ==
  /\ Fault
  /\ pc' = "head" /\ seen' = None /\ batch' = {} /\ draft' = None
  /\ UNCHANGED <<tables, owed, outdated, sent>>

--------------------------------------------------------------------------

EnricherStep ==
  \/ CheckWipe \/ Drain \/ Poll \/ Accept
  \/ \E s \in batch, status \in {"ready", "invalid"} : Word(s, status)

ConsumerStep == \E n \in DOMAIN sent : StoreResult(n) \/ RefuseResult(n)

Next ==
  \/ EnricherStep \/ ConsumerStep
  \/ BatchAbandoned \/ DrainFails \/ Crash
  \/ \E s \in batch : CheckFails(s)
  \/ \E v \in Version : StoreForecast(v)
  \/ \E p \in Patch : StorePatch(p)
  \/ \E q \in Request : StoreRequest(q)
  \/ \E e \in Reenrich : StoreReenrich(e)
  \/ \E w \in Wipe : StoreWipe(w)

Spec == Init /\ [][Next]_vars

\* Both loops run for ever and retry; users and providers need not do anything.
Fairness == WF_vars(EnricherStep) /\ WF_vars(ConsumerStep)
FairSpec == Spec /\ Fairness

(***************************************************************************)
(* Properties.                                                             *)
(***************************************************************************)

TypeOK ==
  /\ stored \subseteq Version \cup Patch \cup Request \cup Reenrich \cup Wipe
  /\ weather \in Forecast \cup {None}
  /\ DOMAIN rec \subseteq Activity
  /\ \A a \in DOMAIN rec :
       rec[a] \in [status : Status, requested : BOOLEAN, scored : Version \cup {None},
                   text : Text \cup {None}, invalid : 0..MaxInvalid]
  /\ latest \in Wipe \cup {None} /\ seen \in Wipe \cup {None}
  /\ pc \in {"head", "drain", "poll", "word", "accept", "redrain"}
  /\ batch \subseteq Snapshot
  /\ draft \in Result \cup {None} /\ owed \in Result \cup {None}
  /\ outdated \in BOOLEAN
  /\ DOMAIN sent \subseteq 1..MaxInFlight /\ \A n \in DOMAIN sent : sent[n] \in Result
  /\ faults \in 0..MaxFaults

\* "Storing weather immediately computes and stores the score for every supported
\* activity" (README): whatever was requested, re-worded, wiped or redelivered in
\* between, each has a row, scored from the forecast that is stored.
ScoresFollowForecast ==
  weather # None =>
    \A a \in Supported : a \in DOMAIN rec /\ rec[a].scored = weather.version

\* A wording that names a forecast was written about the score beside it, and about
\* the forecast stored now when the activity is a supported one, however long the
\* model thought and whatever overtook its answer in the queue.
WordingFitsScore ==
  \A a \in DOMAIN rec :
    rec[a].text # None /\ rec[a].text.scored # None =>
      /\ rec[a].text.scored = rec[a].scored
      /\ a \in Supported => rec[a].text.weather.version = weather.version

\* A sentence is shown with a ready row and no other.
TextIffReady == \A a \in DOMAIN rec : rec[a].text # None <=> rec[a].status = "ready"

\* "Asking for one by name flips it back to pending": a requested row is not left
\* out of the queue by a later ranking.
AskedForIsQueued ==
  \A a \in DOMAIN rec : rec[a].requested => rec[a].status # "deferred"

\* "Gives up only once the count is reached": a row that failed has no forecast or
\* has used its attempts, and one that has used them is not handed out again.
GivesUpAtTheCap ==
  \A a \in DOMAIN rec :
    /\ rec[a].status = "failed" /\ Scored(a) => rec[a].invalid = MaxInvalid
    /\ rec[a].status = "pending" => rec[a].invalid < MaxInvalid

\* "An older record redelivered late does not overwrite a newer one, which also stops
\* a stale re-score" (README): the forecast only gets newer, across wipes too, and an
\* older one leaves every recommendation alone.
NewestForecastStands ==
  [][weather # None =>
       /\ weather' # None /\ AsOf[weather'.version] >= AsOf[weather.version]
       /\ \A v \in Version :
            v \in stored' \ stored /\ AsOf[v] < AsOf[weather.version]
              => rec' = rec]_vars

\* "Nothing is lost and nothing blocks" (enricher): however the model, the broker and
\* the enricher fail in between, every score that waits for wording gets it or is
\* given up, behind whatever rows without a score.
EverythingSettles == <>[](\A a \in Pending : ~Scored(a))
==========================================================================
