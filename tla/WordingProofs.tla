--------------------------- MODULE WordingProofs ---------------------------
(***************************************************************************)
(* Proofs about Wording, for every set of activities and forecasts, every  *)
(* scoring, and every cap, batch and bound.                                *)
(*                                                                         *)
(* That a wording fits its score is not inductive: the answer that arrives *)
(* was read long before.  The strengthening speaks of every row the        *)
(* enricher holds or has sent (Held): it is no newer than the stored       *)
(* forecast, nor than the row it is about (HeldInv).                       *)
(***************************************************************************)
EXTENDS Wording, Rules, FiniteSetTheorems, TLAPS

RowType ==
  [status : Status, requested : BOOLEAN, scored : Version \cup {None},
   text : Text \cup {None}, invalid : 0..MaxInvalid]

Results == {draft, owed} \cup {sent[n] : n \in DOMAIN sent}
Held    == batch \cup {r.row : r \in Results \ {None}}

\* The types of the forecast and of what the enricher holds.
Types ==
  /\ weather \in Forecast \cup {None}
  /\ Held \subseteq Snapshot
  /\ Results \subseteq Result \cup {None}
  /\ \A n \in DOMAIN sent : sent[n] # None

\* The stored row is the newest of the stored forecasts.
NewestInv ==
  /\ weather # None => weather.version \in stored
  /\ \A v \in stored \cap Version :
       weather # None /\ AsOf[v] <= AsOf[weather.version]

ScoreInv ==
  \A a \in DOMAIN rec :
    Scored(a) => weather # None /\ AsOf[rec[a].scored] <= AsOf[weather.version]

HeldInv ==
  \A s \in Held : s.scored # None =>
    /\ weather # None /\ AsOf[s.scored] <= AsOf[weather.version]
    /\ s.activity \in DOMAIN rec /\ Scored(s.activity) =>
         AsOf[s.scored] <= AsOf[rec[s.activity].scored]
    /\ s.activity \in Supported => s.weather # None /\ s.weather.version = s.scored

TextInv ==
  \A a \in DOMAIN rec : rec[a].text # None /\ rec[a].text.scored # None =>
    /\ rec[a].text.scored = rec[a].scored
    /\ a \in Supported =>
         rec[a].text.weather # None /\ rec[a].text.weather.version = rec[a].text.scored

\* What the other invariants say of one row.
RowOK(row) ==
  /\ row \in RowType
  /\ row.text # None <=> row.status = "ready"
  /\ row.requested => row.status # "deferred"
  /\ row.status = "failed" /\ row.scored # None => row.invalid = MaxInvalid
  /\ row.status = "pending" => row.invalid < MaxInvalid

RowsInv == DOMAIN rec \subseteq Activity /\ \A a \in DOMAIN rec : RowOK(rec[a])

IInv ==
  /\ Types /\ RowsInv
  /\ NewestInv /\ ScoreInv /\ ScoresFollowForecast /\ HeldInv /\ TextInv

---------------------------------------------------------------------------
(* The operators on one row keep it in order. *)

\* A row that has just been scored, or a request that found no forecast.
LEMMA ScoredRow ==
  ASSUME NEW status \in {"pending", "deferred", "failed"}, NEW requested \in BOOLEAN,
         NEW v \in Version \cup {None},
         requested => status # "deferred",
         status = "failed" => v = None
  PROVE  RowOK(Row(status, requested, v))
  BY WordingAssumption DEF Row, RowOK, RowType, Status

\* Re-wording resets the text and the attempts.
LEMMA ResetRow ==
  ASSUME NEW row, RowOK(row)
  PROVE  RowOK(Reset(row)) /\ Reset(row).scored = row.scored /\ Reset(row).text = None
<1>1. row \in RowType /\ 0 \in 0..MaxInvalid /\ 0 < MaxInvalid
  BY WordingAssumption DEF RowOK
<1>2. Reset(row) \in RowType
  BY <1>1 DEF Reset, RowType, Status
<1>3. /\ Reset(row).status = "pending" /\ Reset(row).text = None
      /\ Reset(row).invalid = 0 /\ Reset(row).scored = row.scored
  BY <1>1 DEF Reset, RowType
<1> QED
  BY <1>1, <1>2, <1>3 DEF RowOK

\* An attempt is counted on a pending row, up to the cap.
LEMMA CountedRow ==
  ASSUME NEW row, RowOK(row), row.status = "pending"
  PROVE  RowOK(Counted(row)) /\ Counted(row).scored = row.scored
           /\ Counted(row).text = None
<1>1. /\ row \in RowType /\ row.text = None /\ MaxInvalid \in Nat
      /\ row.invalid + 1 \in 0..MaxInvalid
      /\ row.invalid + 1 >= MaxInvalid => row.invalid + 1 = MaxInvalid
      /\ ~(row.invalid + 1 >= MaxInvalid) => row.invalid + 1 < MaxInvalid
  <2>1. row \in RowType /\ row.text = None /\ row.invalid < MaxInvalid
    BY DEF RowOK
  <2>2. row.invalid \in 0..MaxInvalid /\ MaxInvalid \in Nat
    BY <2>1, WordingAssumption DEF RowType
  <2> QED
    BY <2>1, <2>2
<1>2. /\ Counted(row).scored = row.scored /\ Counted(row).text = row.text
      /\ Counted(row).invalid = row.invalid + 1
      /\ Counted(row).requested = row.requested
      /\ Counted(row).status =
           IF row.invalid + 1 >= MaxInvalid THEN "failed" ELSE "pending"
  BY <1>1 DEF Counted, RowType
<1>3. Counted(row) \in RowType
  <2>1. (IF row.invalid + 1 >= MaxInvalid THEN "failed" ELSE "pending") \in Status
    BY DEF Status
  <2> QED
    BY <1>1, <2>1 DEF Counted, RowType
<1> QED
  BY <1>1, <1>2, <1>3 DEF RowOK

\* Wording makes a row ready and leaves its score.
LEMMA WordedRow ==
  ASSUME NEW row, RowOK(row), NEW s \in Snapshot
  PROVE  /\ RowOK(Worded(s, row)) /\ Worded(s, row).scored = row.scored
         /\ Worded(s, row).text = [scored |-> s.scored, weather |-> s.weather]
<1>1. [scored |-> s.scored, weather |-> s.weather] \in Text
  BY DEF Text, Snapshot
<1>2. [scored |-> s.scored, weather |-> s.weather] # None
  BY <1>1, WordingAssumption
<1> QED
  BY <1>1, <1>2 DEF Worded, RowOK, RowType, Status

\* A rescored table: every supported activity from the new forecast, the others as
\* they were.
LEMMA RescoredRows ==
  ASSUME NEW rows, DOMAIN rows \subseteq Activity,
         \A a \in DOMAIN rows : RowOK(rows[a]), NEW v \in Version
  PROVE  /\ DOMAIN Rescored(rows, v) = DOMAIN rows \cup Supported
         /\ DOMAIN Rescored(rows, v) \subseteq Activity
         /\ \A a \in DOMAIN Rescored(rows, v) :
              /\ RowOK(Rescored(rows, v)[a])
              /\ a \in Supported => /\ Rescored(rows, v)[a].scored = v
                                    /\ Rescored(rows, v)[a].text = None
              /\ a \notin Supported => /\ a \in DOMAIN rows
                                       /\ Rescored(rows, v)[a] = rows[a]
<1> DEFINE R == Rescored(rows, v)
<1>1. DOMAIN R = DOMAIN rows \cup Supported /\ DOMAIN R \subseteq Activity
  BY WordingAssumption DEF Rescored
<1>2. ASSUME NEW a \in Supported
      PROVE  RowOK(R[a]) /\ R[a].scored = v /\ R[a].text = None
  <2>1. PICK status \in {"pending", "deferred"} :
          /\ R[a] = Row(status, Asked(rows, a), v)
          /\ Asked(rows, a) => status = "pending"
    BY DEF Rescored
  <2>2. Asked(rows, a) \in BOOLEAN
    BY DEF Asked, RowOK, RowType
  <2>3. RowOK(R[a])
    BY <2>1, <2>2, ScoredRow
  <2> QED
    BY <2>1, <2>3 DEF Row
<1>3. ASSUME NEW a \in DOMAIN R, a \notin Supported
      PROVE  a \in DOMAIN rows /\ R[a] = rows[a]
  BY <1>1, <1>3 DEF Rescored
<1> QED
  BY <1>1, <1>2, <1>3

---------------------------------------------------------------------------
(* What the enricher holds. *)

EnricherMove ==
  \/ EnricherStep \/ BatchAbandoned \/ DrainFails \/ Crash
  \/ \E s \in batch : CheckFails(s)

\* The enricher writes no table, and holds nothing but what it held and rows that are
\* pending now.
LEMMA EnricherHolds ==
  ASSUME Types, EnricherMove
  PROVE  /\ UNCHANGED tables
         /\ Results' \subseteq Result \cup {None}
         /\ \A n \in DOMAIN sent' : sent'[n] # None
         /\ Held' \subseteq Held \cup {ReadRow(a) : a \in Pending}
<1>0. /\ draft \in Result \cup {None} /\ owed \in Result \cup {None}
      /\ \A n \in DOMAIN sent : sent[n] \in Result /\ sent[n] # None
      /\ batch \subseteq Held /\ batch \subseteq Snapshot
      /\ \A r \in Results : r # None => r.row \in Held
  BY DEF Types, Results, Held
<1>1. CASE UNCHANGED <<tables, sent>> /\ batch' \subseteq batch
           /\ {draft', owed'} \subseteq Results \cup {None}
  BY <1>0, <1>1 DEF Results, Held
<1>2. CASE Drain
  <2>1. {sent'[n] : n \in DOMAIN sent'} \subseteq {owed} \cup {sent[n] : n \in DOMAIN sent}
    BY <1>2 DEF Drain
  <2>2. UNCHANGED <<tables, batch, draft>> /\ owed' = None
        /\ \A n \in DOMAIN sent' : sent'[n] # None
    BY <1>0, <1>2 DEF Drain, tables
  <2>3. Results' \subseteq Results \cup {None}
    BY <2>1, <2>2 DEF Results
  <2> QED
    BY <1>0, <2>2, <2>3 DEF Results, Held
<1>3. CASE Poll
  <2>1. UNCHANGED <<tables, draft, owed, sent>> /\ batch' \subseteq {ReadRow(a) : a \in Pending}
    BY <1>3 DEF Poll, tables
  <2> QED
    BY <1>0, <2>1 DEF Results, Held
<1>4. ASSUME NEW s \in batch, NEW status \in {"ready", "invalid"}, Word(s, status)
      PROVE  /\ UNCHANGED tables
             /\ Results' \subseteq Result \cup {None}
             /\ \A n \in DOMAIN sent' : sent'[n] # None
             /\ Held' \subseteq Held
  <2>1. UNCHANGED <<tables, owed, sent>> /\ batch' \subseteq batch
        /\ draft' \in {None, [row |-> s, status |-> status]}
    BY <1>4 DEF Word, tables
  <2>2. [row |-> s, status |-> status] \in Result
    BY <1>0 DEF Result
  <2> QED
    BY <1>0, <2>1, <2>2 DEF Results, Held
<1> QED
  BY <1>1, <1>2, <1>3, <1>4
  DEF EnricherMove, EnricherStep, CheckWipe, Accept, BatchAbandoned, DrainFails,
      Crash, CheckFails, Results, tables

\* Whatever the consumer stores, the enricher holds no more than before.
LEMMA ConsumerHolds ==
  ASSUME Types, UNCHANGED <<batch, draft, owed>>,
         sent' = sent \/ \E n : Taken(n)
  PROVE  /\ Results' \subseteq Results /\ Held' \subseteq Held
         /\ \A n \in DOMAIN sent' : sent'[n] # None
<1>1. {sent'[n] : n \in DOMAIN sent'} \subseteq {sent[n] : n \in DOMAIN sent}
  BY DEF Taken
<1>2. \A n \in DOMAIN sent' : sent'[n] # None
  BY DEF Taken, Types
<1> QED
  BY <1>1, <1>2 DEF Results, Held

---------------------------------------------------------------------------
(* What a step must do to the tables to keep the invariant. *)

\* The stored forecast only gets newer.
NoOlder(w1, w2) == w1 # None => w2 # None /\ AsOf[w1.version] <= AsOf[w2.version]

\* A row keeps its score, or has none, or is scored from the forecast that now stands.
ScoreMoves ==
  \A a \in DOMAIN rec' :
    \/ a \in DOMAIN rec /\ rec'[a].scored = rec[a].scored
    \/ rec'[a].scored = None
    \/ weather' # None /\ rec'[a].scored = weather'.version

\* A wording is dropped, or stays beside the score it was written about.
TextMoves ==
  \A a \in DOMAIN rec' :
    \/ rec'[a].text = None
    \/ /\ a \in DOMAIN rec /\ rec'[a].scored = rec[a].scored
       /\ rec'[a].text = rec[a].text

LEMMA ForecastType ==
  ASSUME Types, weather # None
  PROVE  weather \in Forecast /\ weather.version \in Version /\ AsOf[weather.version] \in Nat
  BY WordingAssumption DEF Types, Forecast

LEMMA ScoreMovesKeeps ==
  ASSUME Types, Types', RowsInv, ScoreInv, NoOlder(weather, weather'), ScoreMoves
  PROVE  ScoreInv'
<1> SUFFICES ASSUME NEW a \in DOMAIN rec', rec'[a].scored # None
             PROVE  weather' # None /\ AsOf[rec'[a].scored] <= AsOf[weather'.version]
  BY DEF ScoreInv, Scored
<1>1. CASE a \in DOMAIN rec /\ rec'[a].scored = rec[a].scored
  <2>1. weather # None /\ AsOf[rec[a].scored] <= AsOf[weather.version]
    BY <1>1 DEF ScoreInv, Scored
  <2>2. weather' # None /\ AsOf[weather.version] <= AsOf[weather'.version]
    BY <2>1 DEF NoOlder
  <2>3. rec[a].scored \in Version
    BY <1>1 DEF RowsInv, RowOK, RowType
  <2>4. weather.version \in Version /\ weather'.version \in Version
    BY <2>1, <2>2 DEF Types, Forecast
  <2> QED
    BY <1>1, <2>1, <2>2, <2>3, <2>4, WordingAssumption
<1>2. CASE weather' # None /\ rec'[a].scored = weather'.version
  <2>1. AsOf[weather'.version] \in Nat
    BY <1>2, WordingAssumption DEF Types, Forecast
  <2> QED
    BY <1>2, <2>1
<1> QED
  BY <1>1, <1>2 DEF ScoreMoves

LEMMA HeldMovesKeeps ==
  ASSUME Types, Types', RowsInv, HeldInv, NoOlder(weather, weather'), ScoreMoves,
         Held' \subseteq Held
  PROVE  HeldInv'
<1> SUFFICES ASSUME NEW s \in Held, s.scored # None
             PROVE  /\ weather' # None /\ AsOf[s.scored] <= AsOf[weather'.version]
                    /\ s.activity \in DOMAIN rec' /\ rec'[s.activity].scored # None =>
                         AsOf[s.scored] <= AsOf[rec'[s.activity].scored]
                    /\ s.activity \in Supported =>
                         s.weather # None /\ s.weather.version = s.scored
  BY DEF HeldInv, Scored
<1>1. /\ weather # None /\ AsOf[s.scored] <= AsOf[weather.version]
      /\ s.activity \in DOMAIN rec /\ rec[s.activity].scored # None =>
           AsOf[s.scored] <= AsOf[rec[s.activity].scored]
      /\ s.activity \in Supported => s.weather # None /\ s.weather.version = s.scored
  BY DEF HeldInv, Scored
<1>2. weather' # None /\ AsOf[weather.version] <= AsOf[weather'.version]
  BY <1>1 DEF NoOlder
<1>3. s.scored \in Version /\ weather.version \in Version /\ weather'.version \in Version
  BY <1>1, <1>2 DEF Types, Forecast, Snapshot
<1>4. AsOf[s.scored] <= AsOf[weather'.version]
  BY <1>1, <1>2, <1>3, WordingAssumption
<1> QED
  BY <1>1, <1>2, <1>4 DEF ScoreMoves

LEMMA TextMovesKeeps ==
  ASSUME TextInv, TextMoves
  PROVE  TextInv'
  BY DEF TextInv, TextMoves

---------------------------------------------------------------------------
(* Each step keeps the invariant. *)

LEMMA EnricherKeeps ==
  ASSUME IInv, EnricherMove
  PROVE  IInv'
<1>1. /\ weather' = weather /\ rec' = rec /\ stored' = stored
      /\ Results' \subseteq Result \cup {None}
      /\ \A n \in DOMAIN sent' : sent'[n] # None
      /\ Held' \subseteq Held \cup {ReadRow(a) : a \in Pending}
  BY EnricherHolds DEF IInv, tables
<1>2. ASSUME NEW a \in Pending
      PROVE  /\ ReadRow(a) \in Snapshot
             /\ ReadRow(a).activity = a /\ ReadRow(a).weather = weather
             /\ ReadRow(a).scored = rec[a].scored
  BY DEF ReadRow, Pending, Snapshot, IInv, Types, RowsInv, RowOK, RowType
<1>3. Types' /\ RowsInv' /\ NewestInv' /\ ScoreInv' /\ ScoresFollowForecast' /\ TextInv'
  <2>1. Held' \subseteq Snapshot
    BY <1>1, <1>2 DEF IInv, Types
  <2>2. Types'
    BY <1>1, <2>1 DEF IInv, Types
  <2> QED
    BY <1>1, <2>2
    DEF IInv, RowsInv, NewestInv, ScoreInv, Scored, ScoresFollowForecast, TextInv
<1>4. HeldInv'
  <2> SUFFICES ASSUME NEW s \in Held', s.scored # None
               PROVE  /\ weather # None /\ AsOf[s.scored] <= AsOf[weather.version]
                      /\ s.activity \in DOMAIN rec /\ Scored(s.activity) =>
                           AsOf[s.scored] <= AsOf[rec[s.activity].scored]
                      /\ s.activity \in Supported =>
                           s.weather # None /\ s.weather.version = s.scored
    BY <1>1 DEF HeldInv, Scored
  <2>1. CASE s \in Held
    BY <2>1 DEF IInv, HeldInv
  <2>2. ASSUME NEW a \in Pending, s = ReadRow(a)
        PROVE  /\ weather # None /\ AsOf[s.scored] <= AsOf[weather.version]
               /\ AsOf[s.scored] <= AsOf[rec[s.activity].scored]
               /\ s.activity \in Supported =>
                    s.weather # None /\ s.weather.version = s.scored
    <3>1. s.activity = a /\ s.weather = weather /\ s.scored = rec[a].scored
          /\ a \in DOMAIN rec /\ s.scored \in Version
      BY <1>2, <2>2 DEF Pending, Snapshot
    <3>2. weather # None /\ AsOf[s.scored] <= AsOf[weather.version]
      BY <3>1 DEF IInv, ScoreInv, Scored
    <3>3. AsOf[s.scored] <= AsOf[rec[a].scored]
      BY <3>1, WordingAssumption
    <3> QED
      BY <3>1, <3>2, <3>3 DEF IInv, ScoresFollowForecast
  <2> QED
    BY <1>1, <2>1, <2>2
<1> QED
  BY <1>3, <1>4 DEF IInv

\* A result is stored, or refused, as far as its row allows.
LEMMA ToldRow ==
  ASSUME IInv, NEW n \in DOMAIN sent, NEW a \in DOMAIN rec, a = sent[n].row.activity
  PROVE  LET row == Told(sent[n], rec[a])
         IN  /\ RowOK(row) /\ row.scored = rec[a].scored
             /\ \/ row.text = None
                \/ row.text = rec[a].text
                \/ /\ row.text = [scored  |-> sent[n].row.scored,
                                  weather |-> sent[n].row.weather]
                   /\ Current(sent[n].row, rec[a])
<1>1. sent[n] \in Result
  BY DEF IInv, Types, Results
<1>2. RowOK(rec[a])
  BY DEF IInv, RowsInv
<1>3. CASE sent[n].status = "invalid" /\ rec[a].status = "pending"
  BY <1>2, <1>3, CountedRow DEF Told
<1>4. CASE sent[n].status = "ready" /\ Current(sent[n].row, rec[a])
  <2>1. sent[n].row \in Snapshot
    BY <1>1 DEF Result
  <2>2. Told(sent[n], rec[a]) = Worded(sent[n].row, rec[a])
    BY <1>4 DEF Told
  <2> QED
    BY <1>2, <1>4, <2>1, <2>2, WordedRow
<1>5. CASE Told(sent[n], rec[a]) = rec[a]
  BY <1>2, <1>5
<1> QED
  BY <1>1, <1>3, <1>4, <1>5 DEF Told

LEMMA ResultKeeps ==
  ASSUME IInv, NEW n \in DOMAIN sent, StoreResult(n)
  PROVE  IInv'
<1>1. /\ weather' = weather /\ stored' = stored /\ DOMAIN rec' = DOMAIN rec
      /\ Results' \subseteq Results /\ Held' \subseteq Held
      /\ \A m \in DOMAIN sent' : sent'[m] # None
  BY ConsumerHolds DEF IInv, StoreResult, enricher
<1>2. ASSUME NEW a \in DOMAIN rec
      PROVE  /\ RowOK(rec'[a]) /\ rec'[a].scored = rec[a].scored
             /\ \/ rec'[a].text = None
                \/ rec'[a].text = rec[a].text
                \/ /\ a = sent[n].row.activity
                   /\ rec'[a].text = [scored  |-> sent[n].row.scored,
                                      weather |-> sent[n].row.weather]
                   /\ Current(sent[n].row, rec[a])
  <2>1. CASE a = sent[n].row.activity
    <3>1. rec'[a] = Told(sent[n], rec[a])
      BY <2>1 DEF StoreResult
    <3> QED
      BY <2>1, <3>1, ToldRow
  <2>2. CASE a # sent[n].row.activity
    <3>1. rec'[a] = rec[a]
      BY <2>2 DEF StoreResult
    <3> QED
      BY <3>1 DEF IInv, RowsInv
  <2> QED
    BY <2>1, <2>2
<1>3. Types' /\ RowsInv' /\ NewestInv' /\ ScoresFollowForecast'
  <2>1. Types'
    BY <1>1 DEF IInv, Types
  <2>2. RowsInv'
    BY <1>1, <1>2 DEF IInv, RowsInv
  <2>3. NewestInv'
    BY <1>1 DEF IInv, NewestInv
  <2>4. ScoresFollowForecast'
    BY <1>1, <1>2 DEF IInv, ScoresFollowForecast
  <2> QED
    BY <2>1, <2>2, <2>3, <2>4
<1>4. NoOlder(weather, weather') /\ ScoreMoves
  <2>1. weather # None => AsOf[weather.version] <= AsOf[weather.version]
    BY ForecastType DEF IInv
  <2> QED
    BY <1>1, <1>2, <2>1 DEF NoOlder, ScoreMoves
<1>5. ScoreInv' /\ HeldInv'
  BY <1>1, <1>3, <1>4, ScoreMovesKeeps, HeldMovesKeeps DEF IInv
<1>6. TextInv'
  <2> SUFFICES ASSUME NEW a \in DOMAIN rec, rec'[a].text # None,
                      rec'[a].text.scored # None
               PROVE  /\ rec'[a].text.scored = rec'[a].scored
                      /\ a \in Supported => /\ rec'[a].text.weather # None
                                            /\ rec'[a].text.weather.version =
                                                 rec'[a].text.scored
    BY <1>1 DEF TextInv
  <2>1. CASE rec'[a].text = rec[a].text
    BY <1>2, <2>1 DEF IInv, TextInv
  <2>2. CASE /\ a = sent[n].row.activity
             /\ rec'[a].text = [scored  |-> sent[n].row.scored,
                                weather |-> sent[n].row.weather]
             /\ Current(sent[n].row, rec[a])
    <3> DEFINE s == sent[n].row
    <3>1. s \in Held /\ s \in Snapshot
      BY DEF IInv, Types, Held, Results
    <3>2. /\ rec'[a].text.scored = s.scored /\ rec'[a].text.weather = s.weather
          /\ s.scored # None /\ s.scored \in Version /\ s.activity = a
      BY <2>2, <3>1 DEF Snapshot
    <3>3. rec[a].scored # None /\ AsOf[rec[a].scored] <= AsOf[s.scored]
      BY <2>2, <3>2 DEF Current
    <3>4. /\ AsOf[s.scored] <= AsOf[rec[a].scored]
          /\ a \in Supported => s.weather # None /\ s.weather.version = s.scored
      BY <3>1, <3>2, <3>3 DEF IInv, HeldInv, Scored
    <3>5. rec[a].scored \in Version
      BY <3>3 DEF IInv, RowsInv, RowOK, RowType
    <3>6. rec[a].scored = s.scored
      <4>1. AsOf[rec[a].scored] \in Nat /\ AsOf[s.scored] \in Nat
        BY <3>2, <3>5, WordingAssumption
      <4>2. AsOf[rec[a].scored] = AsOf[s.scored]
        BY <3>3, <3>4, <4>1
      <4> QED
        BY <3>2, <3>5, <4>2, WordingAssumption
    <3> QED
      BY <1>2, <3>2, <3>4, <3>6
  <2> QED
    BY <1>2, <2>1, <2>2
<1> QED
  BY <1>3, <1>5, <1>6 DEF IInv

\* A refused result leaves the tables as they are.
LEMMA RefusedKeeps ==
  ASSUME IInv, NEW n \in DOMAIN sent, RefuseResult(n)
  PROVE  IInv'
<1>1. /\ UNCHANGED <<weather, rec, stored>>
      /\ Results' \subseteq Results /\ Held' \subseteq Held
      /\ \A m \in DOMAIN sent' : sent'[m] # None
  BY ConsumerHolds DEF IInv, RefuseResult, enricher, tables
<1>2. Types'
  BY <1>1 DEF IInv, Types
<1> QED
  BY <1>1, <1>2
  DEF IInv, RowsInv, NewestInv, ScoreInv, Scored, ScoresFollowForecast, HeldInv, TextInv

\* The part of the invariant that every other envelope keeps in one way.
LEMMA StoringKeeps ==
  ASSUME IInv, UNCHANGED <<enricher, sent>> \/ UNCHANGED <<batch, draft, owed, sent>>,
         weather' \in Forecast \cup {None}, NoOlder(weather, weather'),
         ScoreMoves, TextMoves
  PROVE  Types' /\ ScoreInv' /\ HeldInv' /\ TextInv'
<1>1. /\ Results' \subseteq Results /\ Held' \subseteq Held
      /\ \A n \in DOMAIN sent' : sent'[n] # None
  BY ConsumerHolds DEF IInv, enricher
<1>2. Types'
  BY <1>1 DEF IInv, Types
<1> QED
  BY <1>1, <1>2, ScoreMovesKeeps, HeldMovesKeeps, TextMovesKeeps DEF IInv

LEMMA ForecastKeeps ==
  ASSUME IInv, NEW v \in Version, StoreForecast(v)
  PROVE  IInv'
<1>1. stored' = stored \cup {v} /\ UNCHANGED <<enricher, sent>>
  BY DEF StoreForecast, Storing
<1>2. CASE ~Newer(v)
  <2>1. UNCHANGED <<weather, rec>> /\ weather # None /\ AsOf[v] <= AsOf[weather.version]
    <3>1. weather # None /\ ~(AsOf[v] > AsOf[weather.version])
      BY <1>2 DEF Newer
    <3>2. AsOf[weather.version] \in Nat /\ AsOf[v] \in Nat
      BY <3>1, ForecastType, WordingAssumption DEF IInv
    <3> QED
      BY <1>2, <3>1, <3>2 DEF StoreForecast
  <2>2. NoOlder(weather, weather') /\ ScoreMoves /\ TextMoves
    BY <2>1, ForecastType DEF IInv, NoOlder, ScoreMoves, TextMoves
  <2>3. Types' /\ ScoreInv' /\ HeldInv' /\ TextInv'
    BY <1>1, <2>1, <2>2, StoringKeeps DEF IInv, Types
  <2>4. RowsInv' /\ ScoresFollowForecast'
    BY <2>1 DEF IInv, RowsInv, ScoresFollowForecast
  <2>5. NewestInv'
    BY <1>1, <2>1 DEF IInv, NewestInv
  <2> QED
    BY <2>3, <2>4, <2>5 DEF IInv
<1>3. CASE Newer(v)
  <2>1. /\ weather' = [version |-> v, patched |-> FALSE]
        /\ rec' = Rescored(rec, v)
    BY <1>3 DEF StoreForecast
  <2>2. weather' \in Forecast /\ weather' # None /\ weather'.version = v
    <3>1. weather' \in Forecast /\ weather'.version = v
      BY <2>1 DEF Forecast
    <3> QED
      BY <3>1, WordingAssumption
  <2>3. weather # None => AsOf[weather.version] < AsOf[v]
    <3>1. weather # None => AsOf[v] > AsOf[weather.version]
      BY <1>3 DEF Newer
    <3>2. weather # None => AsOf[weather.version] \in Nat /\ AsOf[v] \in Nat
      BY ForecastType, WordingAssumption DEF IInv
    <3> QED
      BY <3>1, <3>2
  <2>4. /\ DOMAIN rec' = DOMAIN rec \cup Supported /\ DOMAIN rec' \subseteq Activity
        /\ \A a \in DOMAIN rec' :
              /\ RowOK(rec'[a])
              /\ a \in Supported => rec'[a].scored = v /\ rec'[a].text = None
              /\ a \notin Supported => a \in DOMAIN rec /\ rec'[a] = rec[a]
    <3>1. DOMAIN rec \subseteq Activity /\ \A a \in DOMAIN rec : RowOK(rec[a])
      BY DEF IInv, RowsInv
    <3> QED
      BY ONLY <2>1, <3>1, RescoredRows, v \in Version
  <2>5. NoOlder(weather, weather')
    <3>1. weather # None => AsOf[weather.version] \in Nat /\ AsOf[v] \in Nat
      BY ForecastType, WordingAssumption DEF IInv
    <3> QED
      BY <2>2, <2>3, <3>1 DEF NoOlder
  <2>6. ScoreMoves /\ TextMoves
    BY <2>2, <2>4 DEF ScoreMoves, TextMoves
  <2>7. Types' /\ ScoreInv' /\ HeldInv' /\ TextInv'
    BY <1>1, <2>2, <2>5, <2>6, StoringKeeps
  <2>8. RowsInv' /\ ScoresFollowForecast'
    BY <2>2, <2>4 DEF RowsInv, ScoresFollowForecast
  <2>9. NewestInv'
    <3>1. ASSUME NEW w \in stored' \cap Version
          PROVE  AsOf[w] <= AsOf[v]
      <4>1. AsOf[w] \in Nat /\ AsOf[v] \in Nat
        BY WordingAssumption
      <4>2. CASE w = v
        BY <4>1, <4>2
      <4>3. CASE w \in stored
        <5>1. weather # None /\ AsOf[w] <= AsOf[weather.version]
          BY <4>3 DEF IInv, NewestInv
        <5>2. AsOf[weather.version] \in Nat
          BY <5>1, ForecastType DEF IInv
        <5> QED
          BY <2>3, <4>1, <5>1, <5>2
      <4> QED
        BY <1>1, <4>2, <4>3
    <3> QED
      BY <1>1, <2>2, <3>1 DEF NewestInv
  <2> QED
    BY <2>7, <2>8, <2>9 DEF IInv
<1> QED
  BY <1>2, <1>3

\* No envelope but a forecast adds to the stored forecasts.
LEMMA NewestStays ==
  ASSUME IInv, NEW m \in Patch \cup Request \cup Reenrich \cup Wipe,
         stored' = stored \cup {m}, weather # None <=> weather' # None,
         weather # None => weather'.version = weather.version
  PROVE  NewestInv' /\ NoOlder(weather, weather')
<1>1. stored' \cap Version = stored \cap Version /\ stored \subseteq stored'
  BY WordingAssumption
<1>2. NoOlder(weather, weather')
  BY ForecastType DEF IInv, NoOlder
<1> QED
  BY <1>1, <1>2 DEF IInv, NewestInv

LEMMA PatchKeeps ==
  ASSUME IInv, NEW p \in Patch, StorePatch(p)
  PROVE  IInv'
<1>1. /\ stored' = stored \cup {p} /\ UNCHANGED <<rec, enricher, sent>>
      /\ weather # None /\ weather' = [weather EXCEPT !.patched = TRUE]
  BY DEF StorePatch, Storing
<1>2. weather' \in Forecast /\ weather' # None /\ weather'.version = weather.version
  <2>1. weather \in Forecast
    BY <1>1, ForecastType DEF IInv
  <2>2. weather' \in Forecast /\ weather'.version = weather.version
    BY <1>1, <2>1 DEF Forecast
  <2> QED
    BY <2>2, WordingAssumption
<1>3. NewestInv' /\ NoOlder(weather, weather')
  BY <1>1, <1>2, NewestStays
<1>4. ScoreMoves /\ TextMoves
  BY <1>1 DEF ScoreMoves, TextMoves
<1>5. Types' /\ ScoreInv' /\ HeldInv' /\ TextInv'
  BY <1>1, <1>2, <1>3, <1>4, StoringKeeps
<1>6. RowsInv' /\ ScoresFollowForecast'
  BY <1>1, <1>2 DEF IInv, RowsInv, ScoresFollowForecast
<1> QED
  BY <1>3, <1>5, <1>6 DEF IInv

\* A request scores the activity it names from the stored forecast, if there is one,
\* and touches no other row.
LEMMA RequestedRows ==
  ASSUME IInv, NEW a \in Activity
  PROVE  /\ DOMAIN rec \subseteq DOMAIN Requested(a) /\ DOMAIN Requested(a) \subseteq Activity
         /\ \A b \in DOMAIN Requested(a) :
              \/ b \in DOMAIN rec /\ Requested(a)[b] = rec[b]
              \/ /\ RowOK(Requested(a)[b]) /\ Requested(a)[b].text = None
                 /\ \/ weather # None /\ Requested(a)[b].scored = weather.version
                    \/ weather = None /\ Requested(a)[b].scored = None
<1> DEFINE R == Requested(a)
<1>1. DOMAIN rec \subseteq Activity
  BY DEF IInv, RowsInv
<1>2. CASE a \in Refused
  BY <1>1, <1>2 DEF Requested
<1>3. CASE a \notin Refused /\ weather # None
  <2>1. R = [b \in DOMAIN rec \cup {a} |->
               IF b = a THEN Row("pending", TRUE, weather.version) ELSE rec[b]]
    BY <1>3 DEF Requested
  <2>2. /\ RowOK(Row("pending", TRUE, weather.version))
        /\ Row("pending", TRUE, weather.version).text = None
        /\ Row("pending", TRUE, weather.version).scored = weather.version
    <3>1. weather.version \in Version
      BY <1>3, ForecastType DEF IInv
    <3>2. RowOK(Row("pending", TRUE, weather.version))
      BY <3>1, ScoredRow
    <3> QED
      BY <3>2 DEF Row
  <2> QED
    BY <1>1, <1>3, <2>1, <2>2
<1>4. CASE a \notin Refused /\ weather = None
  <2>1. R = [b \in DOMAIN rec \cup {a} |->
               IF b \in DOMAIN rec THEN rec[b] ELSE Row("failed", TRUE, None)]
    BY <1>4 DEF Requested
  <2>2. /\ RowOK(Row("failed", TRUE, None))
        /\ Row("failed", TRUE, None).text = None
        /\ Row("failed", TRUE, None).scored = None
    <3>1. RowOK(Row("failed", TRUE, None))
      BY ScoredRow
    <3> QED
      BY <3>1 DEF Row
  <2> QED
    BY <1>1, <1>4, <2>1, <2>2
<1> QED
  BY <1>2, <1>3, <1>4

LEMMA RequestKeeps ==
  ASSUME IInv, NEW q \in Request, StoreRequest(q)
  PROVE  IInv'
<1> DEFINE a == AskedFor[q]
<1>1. /\ stored' = stored \cup {q} /\ UNCHANGED <<weather, enricher, sent>>
      /\ rec' = Requested(a)
  BY DEF StoreRequest, Storing
<1>2. a \in Activity
  BY WordingAssumption
<1>3. /\ DOMAIN rec \subseteq DOMAIN rec' /\ DOMAIN rec' \subseteq Activity
      /\ \A b \in DOMAIN rec' :
           \/ b \in DOMAIN rec /\ rec'[b] = rec[b]
           \/ /\ RowOK(rec'[b]) /\ rec'[b].text = None
              /\ \/ weather # None /\ rec'[b].scored = weather.version
                 \/ weather = None /\ rec'[b].scored = None
  BY <1>1, <1>2, RequestedRows
<1>4. NewestInv' /\ NoOlder(weather, weather')
  BY <1>1, NewestStays
<1>5. ScoreMoves /\ TextMoves
  BY <1>1, <1>3 DEF ScoreMoves, TextMoves
<1>6. Types' /\ ScoreInv' /\ HeldInv' /\ TextInv'
  <2>1. weather' \in Forecast \cup {None}
    BY <1>1 DEF IInv, Types
  <2> QED
    BY <1>1, <1>4, <1>5, <2>1, StoringKeeps
<1>7. RowsInv'
  BY <1>3 DEF IInv, RowsInv
<1>8. ScoresFollowForecast'
  BY <1>1, <1>3 DEF IInv, ScoresFollowForecast
<1> QED
  BY <1>4, <1>6, <1>7, <1>8 DEF IInv

LEMMA ReenrichKeeps ==
  ASSUME IInv, NEW e \in Reenrich, StoreReenrich(e)
  PROVE  IInv'
<1>1. stored' = stored \cup {e} /\ UNCHANGED <<weather, enricher, sent>>
  BY DEF StoreReenrich, Storing
<1>2. /\ DOMAIN rec' = DOMAIN rec
      /\ \A a \in DOMAIN rec : rec'[a] = rec[a] \/ rec'[a] = Reset(rec[a])
  BY DEF StoreReenrich
<1>3. /\ DOMAIN rec' \subseteq Activity
      /\ \A a \in DOMAIN rec :
           /\ RowOK(rec'[a]) /\ rec'[a].scored = rec[a].scored
           /\ rec'[a] = rec[a] \/ rec'[a].text = None
  <2>1. DOMAIN rec \subseteq Activity /\ \A a \in DOMAIN rec : RowOK(rec[a])
    BY DEF IInv, RowsInv
  <2> QED
    BY <1>2, <2>1, ResetRow
<1>4. NewestInv' /\ NoOlder(weather, weather')
  BY <1>1, NewestStays
<1>5. ScoreMoves /\ TextMoves
  BY <1>2, <1>3 DEF ScoreMoves, TextMoves
<1>6. Types' /\ ScoreInv' /\ HeldInv' /\ TextInv'
  <2>1. weather' \in Forecast \cup {None}
    BY <1>1 DEF IInv, Types
  <2> QED
    BY <1>1, <1>4, <1>5, <2>1, StoringKeeps
<1>7. RowsInv' /\ ScoresFollowForecast'
  BY <1>1, <1>2, <1>3 DEF IInv, RowsInv, ScoresFollowForecast
<1> QED
  BY <1>4, <1>6, <1>7 DEF IInv

\* The forecast a wipe rebuilds is the one that stood.
LEMMA WipeKeepsVersion ==
  ASSUME IInv, NEW w \in Wipe, StoreWipe(w)
  PROVE  /\ weather' \in Forecast \cup {None}
         /\ weather # None <=> weather' # None
         /\ weather = None => DOMAIN rec' = {}
         /\ weather # None =>
              /\ weather'.version = weather.version
              /\ \E R : DOMAIN R = {} /\ rec' = Rescored(R, weather.version)
<1> DEFINE V == stored \cap Version
<1>1. CASE weather = None
  <2>1. V = {}
    BY <1>1 DEF IInv, NewestInv
  <2>2. weather' = None /\ rec' = [a \in {} |-> None]
    BY <2>1 DEF StoreWipe
  <2> QED
    BY <1>1, <2>2
<1>2. CASE weather # None
  <2>1. weather.version \in V
    BY <1>2, ForecastType DEF IInv, NewestInv
  <2>2. \A v \in V : AsOf[v] <= AsOf[weather.version]
    BY DEF IInv, NewestInv
  <2>3. Newest(V) = weather.version
    <3>1. Newest(V) \in V /\ \A v \in V : AsOf[v] <= AsOf[Newest(V)]
      BY <2>1, <2>2 DEF Newest
    <3>2. /\ AsOf[Newest(V)] <= AsOf[weather.version]
          /\ AsOf[weather.version] <= AsOf[Newest(V)]
      BY <2>1, <2>2, <3>1
    <3>3. AsOf[Newest(V)] \in Nat /\ AsOf[weather.version] \in Nat
      BY <2>1, <3>1, WordingAssumption
    <3>4. AsOf[Newest(V)] = AsOf[weather.version]
      BY <3>2, <3>3
    <3> QED
      BY <2>1, <3>1, <3>4, WordingAssumption
  <2>4. /\ weather' = [version |-> weather.version, patched |-> FALSE]
        /\ rec' = Rescored([a \in {} |-> None], weather.version)
    BY <2>1, <2>3 DEF StoreWipe
  <2>5. weather' \in Forecast /\ weather'.version = weather.version
    BY <2>1, <2>4 DEF Forecast
  <2>6. weather' # None
    BY <2>5, WordingAssumption
  <2>7. DOMAIN [a \in {} |-> None] = {}
    OBVIOUS
  <2> QED
    BY <1>2, <2>4, <2>5, <2>6, <2>7
<1> QED
  BY <1>1, <1>2

LEMMA WipeKeeps ==
  ASSUME IInv, NEW w \in Wipe, StoreWipe(w)
  PROVE  IInv'
<1>1. stored' = stored \cup {w} /\ UNCHANGED <<batch, draft, owed, sent>>
  BY DEF StoreWipe, Storing
<1>2. /\ DOMAIN rec' \subseteq Activity
      /\ \A a \in DOMAIN rec' :
           /\ RowOK(rec'[a]) /\ rec'[a].text = None
           /\ weather # None /\ rec'[a].scored = weather.version
      /\ weather # None => Supported \subseteq DOMAIN rec'
  <2>1. CASE weather = None
    BY <2>1, WipeKeepsVersion
  <2>2. CASE weather # None
    <3>1. PICK R : DOMAIN R = {} /\ rec' = Rescored(R, weather.version)
      BY <2>2, WipeKeepsVersion
    <3>2. weather.version \in Version
      BY <2>2, ForecastType DEF IInv
    <3>3. DOMAIN R \subseteq Activity /\ \A a \in DOMAIN R : RowOK(R[a])
      BY <3>1
    <3>4. /\ DOMAIN rec' = DOMAIN R \cup Supported /\ DOMAIN rec' \subseteq Activity
          /\ \A a \in DOMAIN rec' :
               /\ RowOK(rec'[a])
               /\ a \in Supported => /\ rec'[a].scored = weather.version
                                     /\ rec'[a].text = None
      <4>1. PICK v \in Version : v = weather.version
        BY <3>2
      <4>2. /\ DOMAIN Rescored(R, v) = DOMAIN R \cup Supported
            /\ DOMAIN Rescored(R, v) \subseteq Activity
            /\ \A a \in DOMAIN Rescored(R, v) :
                 /\ RowOK(Rescored(R, v)[a])
                 /\ a \in Supported => /\ Rescored(R, v)[a].scored = v
                                       /\ Rescored(R, v)[a].text = None
        BY <3>3, RescoredRows
      <4> QED
        BY ONLY <3>1, <4>1, <4>2
    <3> QED
      BY ONLY <2>2, <3>1, <3>4
  <2> QED
    BY <2>1, <2>2
<1>3. NewestInv' /\ NoOlder(weather, weather')
  BY <1>1, WipeKeepsVersion, NewestStays
<1>4. ScoreMoves /\ TextMoves
  BY <1>2, WipeKeepsVersion DEF ScoreMoves, TextMoves
<1>5. Types' /\ ScoreInv' /\ HeldInv' /\ TextInv'
  BY <1>1, <1>3, <1>4, WipeKeepsVersion, StoringKeeps
<1>6. RowsInv' /\ ScoresFollowForecast'
  BY <1>2, WipeKeepsVersion DEF RowsInv, ScoresFollowForecast
<1> QED
  BY <1>3, <1>5, <1>6 DEF IInv

---------------------------------------------------------------------------

LEMMA InitIInv == Init => IInv
<1> SUFFICES ASSUME Init PROVE IInv
  OBVIOUS
<1>1. /\ weather = None /\ stored = {} /\ DOMAIN rec = {} /\ DOMAIN sent = {}
      /\ batch = {} /\ draft = None /\ owed = None
  BY DEF Init
<1>2. Results = {None} /\ Held = {}
  BY <1>1 DEF Results, Held
<1> QED
  BY <1>1, <1>2
  DEF IInv, Types, RowsInv, NewestInv, ScoreInv, ScoresFollowForecast, HeldInv, TextInv

LEMMA StepIInv == IInv /\ [Next]_vars => IInv'
<1> SUFFICES ASSUME IInv, [Next]_vars PROVE IInv'
  OBVIOUS
<1>1. CASE EnricherMove
  BY <1>1, EnricherKeeps
<1>2. CASE ConsumerStep
  BY <1>2, ResultKeeps, RefusedKeeps DEF ConsumerStep
<1>3. CASE \E v \in Version : StoreForecast(v)
  BY <1>3, ForecastKeeps
<1>4. CASE \E p \in Patch : StorePatch(p)
  BY <1>4, PatchKeeps
<1>5. CASE \E q \in Request : StoreRequest(q)
  BY <1>5, RequestKeeps
<1>6. CASE \E e \in Reenrich : StoreReenrich(e)
  BY <1>6, ReenrichKeeps
<1>7. CASE \E w \in Wipe : StoreWipe(w)
  BY <1>7, WipeKeeps
<1>8. CASE UNCHANGED vars
  BY <1>8
  DEF vars, tables, enricher, IInv, Types, Results, Held, RowsInv, NewestInv, ScoreInv,
      Scored, ScoresFollowForecast, HeldInv, TextInv
<1> QED
  BY <1>1, <1>2, <1>3, <1>4, <1>5, <1>6, <1>7, <1>8 DEF Next, EnricherMove

LEMMA SpecIInv == Spec => []IInv
  BY InitIInv, StepIInv, PTL DEF Spec

\* Every supported activity is scored from the forecast that is stored.
THEOREM ScoresFollow == Spec => []ScoresFollowForecast
<1>1. IInv => ScoresFollowForecast
  BY DEF IInv
<1> QED
  BY SpecIInv, <1>1, PTL

\* A wording that names a forecast was written about the score beside it, and about
\* the forecast stored now.
THEOREM WordingFits == Spec => []WordingFitsScore
<1>1. IInv => WordingFitsScore
  <2> SUFFICES ASSUME IInv, NEW a \in DOMAIN rec, rec[a].text # None,
                      rec[a].text.scored # None
               PROVE  /\ rec[a].text.scored = rec[a].scored
                      /\ a \in Supported => rec[a].text.weather.version = weather.version
    BY DEF WordingFitsScore
  <2>1. /\ rec[a].text.scored = rec[a].scored
        /\ a \in Supported => rec[a].text.weather.version = rec[a].text.scored
    BY DEF IInv, TextInv
  <2>2. weather # None
    BY <2>1 DEF IInv, ScoreInv, Scored
  <2> QED
    BY <2>1, <2>2 DEF IInv, ScoresFollowForecast
<1> QED
  BY SpecIInv, <1>1, PTL

\* A sentence is shown with a ready row and no other; a requested row is not left out
\* of the queue; and a row that has used its attempts is not handed out again.
THEOREM RowsInOrder == Spec => [](TextIffReady /\ AskedForIsQueued /\ GivesUpAtTheCap)
<1>1. IInv => TextIffReady /\ AskedForIsQueued /\ GivesUpAtTheCap
  BY DEF IInv, RowsInv, RowOK, TextIffReady, AskedForIsQueued, GivesUpAtTheCap, Scored
<1> QED
  BY SpecIInv, <1>1, PTL

\* The forecast only gets newer, across wipes too, and an older one leaves every
\* recommendation alone.
THEOREM NewestStands == Spec => NewestForecastStands
<1> DEFINE Stands ==
      weather # None =>
        /\ weather' # None /\ AsOf[weather'.version] >= AsOf[weather.version]
        /\ \A v \in Version :
             v \in stored' \ stored /\ AsOf[v] < AsOf[weather.version] => rec' = rec
<1>1. ASSUME IInv, [Next]_vars, weather # None
      PROVE  /\ weather' # None /\ AsOf[weather'.version] >= AsOf[weather.version]
             /\ \A v \in Version :
                  v \in stored' \ stored /\ AsOf[v] < AsOf[weather.version] => rec' = rec
  <2>0. AsOf[weather.version] \in Nat /\ weather.version \in Version
    BY <1>1, ForecastType DEF IInv
  <2>1. CASE UNCHANGED <<stored, weather>>
    BY <1>1, <2>0, <2>1
  <2>2. ASSUME NEW v \in Version, StoreForecast(v)
        PROVE  /\ weather' # None /\ AsOf[weather'.version] >= AsOf[weather.version]
               /\ stored' \ stored = {v}
               /\ AsOf[v] < AsOf[weather.version] => rec' = rec
    <3>1. stored' \ stored = {v} /\ AsOf[v] \in Nat
      BY <2>2, WordingAssumption DEF StoreForecast, Storing
    <3>2. CASE Newer(v)
      <4>1. AsOf[v] > AsOf[weather.version]
        BY <1>1, <3>2 DEF Newer
      <4>2. weather' = [version |-> v, patched |-> FALSE]
        BY <2>2, <3>2 DEF StoreForecast
      <4>3. weather' \in Forecast /\ weather'.version = v
        BY <4>2 DEF Forecast
      <4>4. weather' # None
        BY <4>3, WordingAssumption
      <4> QED
        BY <2>0, <3>1, <4>1, <4>3, <4>4
    <3>3. CASE ~Newer(v)
      BY <1>1, <2>0, <2>2, <3>1, <3>3 DEF StoreForecast
    <3> QED
      BY <3>2, <3>3
  <2>3. ASSUME NEW m \in Patch \cup Request \cup Reenrich \cup Wipe,
               stored' = stored \cup {m}
        PROVE  (stored' \ stored) \cap Version = {}
    BY <2>3, WordingAssumption
  <2>4. CASE \E p \in Patch : StorePatch(p)
    <3>1. weather \in Forecast /\ weather' = [weather EXCEPT !.patched = TRUE]
      BY <1>1, <2>4, ForecastType DEF IInv, StorePatch
    <3>2. weather' \in Forecast /\ weather'.version = weather.version
      BY <3>1 DEF Forecast
    <3>3. weather' # None
      BY <3>2, WordingAssumption
    <3>4. rec' = rec
      BY <2>4 DEF StorePatch
    <3> QED
      BY <2>0, <3>2, <3>3, <3>4
  <2>5. CASE \E q \in Request : StoreRequest(q)
    <3>1. weather' = weather /\ (stored' \ stored) \cap Version = {}
      BY <2>3, <2>5 DEF StoreRequest, Storing
    <3> QED
      BY <1>1, <2>0, <3>1
  <2>6. CASE \E e \in Reenrich : StoreReenrich(e)
    <3>1. weather' = weather /\ (stored' \ stored) \cap Version = {}
      BY <2>3, <2>6 DEF StoreReenrich, Storing
    <3> QED
      BY <1>1, <2>0, <3>1
  <2>7. CASE \E w \in Wipe : StoreWipe(w)
    <3>1. weather' # None /\ weather'.version = weather.version
          /\ (stored' \ stored) \cap Version = {}
      BY <1>1, <2>3, <2>7, WipeKeepsVersion DEF StoreWipe, Storing
    <3> QED
      BY <2>0, <3>1
  <2>8. CASE EnricherMove
    <3>1. UNCHANGED tables
      BY <1>1, <2>8, EnricherHolds DEF IInv
    <3> QED
      BY <2>1, <3>1, <1>1, <2>0 DEF tables
  <2>9. CASE ConsumerStep \/ UNCHANGED vars
    <3>1. UNCHANGED <<stored, weather>>
      BY <2>9 DEF ConsumerStep, StoreResult, RefuseResult, vars, tables
    <3> QED
      BY <1>1, <2>0, <3>1
  <2> QED
    BY <1>1, <2>2, <2>4, <2>5, <2>6, <2>7, <2>8, <2>9 DEF Next, EnricherMove
<1>2. IInv /\ [Next]_vars => [Stands]_vars
  BY <1>1
<1> QED
  BY SpecIInv, <1>2, PTL DEF Spec, NewestForecastStands

---------------------------------------------------------------------------
(***************************************************************************)
(* Types.  What needs an argument is that a result that is published finds *)
(* a free slot: Poll waits until its whole batch fits, and from then on a  *)
(* row read, its answer and the outbox row are counted with the queue.     *)
(***************************************************************************)

Some(x) == IF x = None THEN 0 ELSE 1

QueueInv ==
  /\ DOMAIN sent \subseteq 1..MaxInFlight /\ IsFiniteSet(batch)
  /\ Cardinality(DOMAIN sent) + Cardinality(batch) + Some(draft) + Some(owed) <= MaxInFlight
  /\ pc \in {"head", "drain", "poll"} => batch = {}
  /\ pc # "accept" => draft = None
  /\ pc \in {"poll", "word", "accept"} => owed = None

LoopType ==
  /\ stored \subseteq Version \cup Patch \cup Request \cup Reenrich \cup Wipe
  /\ latest \in Wipe \cup {None} /\ seen \in Wipe \cup {None}
  /\ pc \in {"head", "drain", "poll", "word", "accept", "redrain"}
  /\ outdated \in BOOLEAN /\ faults \in 0..MaxFaults

LEMMA QueueCounts ==
  ASSUME QueueInv
  PROVE  /\ MaxInFlight \in Nat /\ IsFiniteSet(DOMAIN sent)
         /\ Cardinality(DOMAIN sent) \in Nat /\ Cardinality(batch) \in Nat
         /\ Some(draft) \in {0, 1} /\ Some(owed) \in {0, 1}
<1>1. MaxInFlight \in Nat
  BY WordingAssumption
<1>2. IsFiniteSet(1..MaxInFlight)
  BY <1>1, FS_Interval
<1>3. IsFiniteSet(DOMAIN sent)
  BY <1>2, FS_Subset DEF QueueInv
<1> QED
  BY <1>1, <1>3, FS_CardinalityType DEF QueueInv, Some

\* Fewer rows in hand, no more results: room is only gained.
LEMMA RoomIsKept ==
  ASSUME QueueInv, NEW b \in SUBSET batch, NEW D \in SUBSET (DOMAIN sent)
  PROVE  /\ IsFiniteSet(b) /\ Cardinality(b) \in Nat /\ Cardinality(b) <= Cardinality(batch)
         /\ IsFiniteSet(D) /\ Cardinality(D) \in Nat
         /\ Cardinality(D) <= Cardinality(DOMAIN sent)
BY QueueCounts, FS_Subset, FS_CardinalityType DEF QueueInv

LEMMA DrainFits ==
  ASSUME QueueInv, LoopType, Drain
  PROVE  QueueInv'
<1>1. /\ pc \in {"drain", "redrain"} /\ pc' = AfterDrain
      /\ batch' = batch /\ draft' = draft /\ owed' = None
      /\ sent' = IF owed = None THEN sent
                 ELSE [n \in DOMAIN sent \cup {Free} |-> IF n = Free THEN owed ELSE sent[n]]
  BY DEF Drain
<1>2. Some(owed') = 0 /\ Some(draft') = Some(draft)
  BY <1>1 DEF Some
<1>3. DOMAIN sent' \subseteq 1..MaxInFlight
        /\ Cardinality(DOMAIN sent') <= Cardinality(DOMAIN sent) + Some(owed)
        /\ Cardinality(DOMAIN sent') \in Nat
  <2>1. CASE owed = None
    <3>1. Some(owed) = 0
      BY <2>1 DEF Some
    <3> QED
      BY <1>1, <2>1, <3>1, QueueCounts DEF QueueInv
  <2>2. CASE owed # None
    <3>1. Some(owed) = 1
      BY <2>2 DEF Some
    <3>2. Cardinality(DOMAIN sent) < MaxInFlight
      BY <3>1, QueueCounts DEF QueueInv
    <3>3. Cardinality(1..MaxInFlight) = MaxInFlight
      BY QueueCounts, FS_Interval
    <3>4. \E n \in 1..MaxInFlight : n \notin DOMAIN sent
      <4> SUFFICES ASSUME \A n \in 1..MaxInFlight : n \in DOMAIN sent PROVE FALSE
        OBVIOUS
      <4>1. DOMAIN sent = 1..MaxInFlight
        BY DEF QueueInv
      <4>2. Cardinality(DOMAIN sent) = MaxInFlight
        BY <4>1, <3>3
      <4> QED
        BY <3>2, <4>2, QueueCounts
    <3>5. Free \in 1..MaxInFlight /\ Free \notin DOMAIN sent
      BY <3>4 DEF Free
    <3>6. DOMAIN sent' = DOMAIN sent \cup {Free}
      BY <1>1, <2>2
    <3>7. Cardinality(DOMAIN sent') = Cardinality(DOMAIN sent) + 1
      BY <3>5, <3>6, QueueCounts, FS_AddElement
    <3> QED
      BY <3>1, <3>5, <3>6, <3>7, QueueCounts DEF QueueInv
  <2> QED
    BY <2>1, <2>2
<1>4. /\ pc' \in {"head", "drain", "poll"} => batch' = {}
      /\ pc' # "accept" => draft' = None
  BY <1>1 DEF QueueInv, AfterDrain
<1> QED
  BY <1>1, <1>2, <1>3, <1>4, QueueCounts DEF QueueInv

\* Each row read stands for one pending row, so there are a batch of them at most.
LEMMA PollFits ==
  ASSUME IInv, QueueInv, Poll
  PROVE  QueueInv'
<1>1. PICK A \in SUBSET Pending :
        /\ Cardinality(A) = Batch \/ (A = Pending /\ Cardinality(A) < Batch)
        /\ batch' = {ReadRow(a) : a \in A}
        /\ pc' = IF A = {} THEN "head" ELSE "word"
  BY DEF Poll
<1>2. /\ pc = "poll" /\ Cardinality(DOMAIN sent) + Batch <= MaxInFlight
      /\ draft' = draft /\ owed' = owed /\ sent' = sent
  BY DEF Poll
<1>3. IsFiniteSet(A)
  <2>1. A \subseteq Activity
    BY DEF IInv, RowsInv, Pending
  <2> QED
    BY <2>1, FS_Subset, WordingAssumption
<1>4. Cardinality(A) <= Batch /\ Cardinality(A) \in Nat /\ Batch \in Nat
  BY <1>1, <1>3, FS_CardinalityType, WordingAssumption
<1>5. IsFiniteSet(batch') /\ Cardinality(batch') <= Cardinality(A)
  <2> DEFINE f == [a \in A |-> ReadRow(a)]
             B == {ReadRow(a) : a \in A}
  <2>1. f \in Surjection(A, B)
    BY DEF Surjection
  <2> HIDE DEF f, B
  <2>2. IsFiniteSet(B) /\ Cardinality(B) <= Cardinality(A)
    BY <1>3, <2>1, FS_Surjection
  <2> QED
    BY <1>1, <2>2 DEF B
<1>6. Cardinality(batch') \in Nat
  BY <1>5, FS_CardinalityType
<1>7. draft' = None /\ owed' = None /\ Some(draft') = 0 /\ Some(owed') = 0
  BY <1>2 DEF QueueInv, Some
<1>8. pc' \in {"head", "drain", "poll"} => batch' = {}
  BY <1>1
<1> QED
  BY <1>2, <1>4, <1>5, <1>6, <1>7, <1>8, QueueCounts DEF QueueInv

LEMMA WordFits ==
  ASSUME QueueInv, NEW s \in batch, NEW status, Word(s, status)
  PROVE  QueueInv'
<1>1. /\ pc = "word" /\ batch' = batch \ {s} /\ owed' = owed /\ sent' = sent
      /\ pc' \in {"accept", "redrain"} /\ (pc' = "redrain" => draft' = None)
  BY DEF Word, NextRow
<1>2. Cardinality(batch') = Cardinality(batch) - 1 /\ IsFiniteSet(batch')
  BY <1>1, FS_RemoveElement DEF QueueInv
<1>3. Some(draft) = 0 /\ Some(draft') \in {0, 1} /\ owed' = None /\ Some(owed') = Some(owed)
  BY <1>1 DEF QueueInv, Some
<1> QED
  BY <1>1, <1>2, <1>3, QueueCounts DEF QueueInv

\* Steps that add nothing to what is in hand, in the outbox or in the queue.
LEMMA OthersFit ==
  ASSUME QueueInv, batch' \subseteq batch, DOMAIN sent' \subseteq DOMAIN sent,
         Some(draft') + Some(owed') <= Some(draft) + Some(owed),
         Some(draft') \in Nat, Some(owed') \in Nat,
         pc' \in {"head", "drain", "poll"} => batch' = {},
         pc' # "accept" => draft' = None,
         pc' \in {"poll", "word", "accept"} => owed' = None
  PROVE  QueueInv'
<1>1. /\ IsFiniteSet(batch') /\ Cardinality(batch') \in Nat
      /\ Cardinality(batch') <= Cardinality(batch)
      /\ Cardinality(DOMAIN sent') \in Nat
      /\ Cardinality(DOMAIN sent') <= Cardinality(DOMAIN sent)
  BY RoomIsKept
<1> QED
  BY <1>1, QueueCounts DEF QueueInv

LEMMA QueueNext ==
  IInv /\ LoopType /\ QueueInv /\ [Next]_vars => QueueInv'
<1> SUFFICES ASSUME IInv, LoopType, QueueInv, [Next]_vars
             PROVE  QueueInv'
  OBVIOUS
<1>0. Some(None) = 0 /\ \A x : Some(x) \in {0, 1}
  BY DEF Some
<1>1. ASSUME UNCHANGED <<pc, batch, draft, owed>>, DOMAIN sent' \subseteq DOMAIN sent
      PROVE  QueueInv'
  <2>1. Some(draft') = Some(draft) /\ Some(owed') = Some(owed)
    BY <1>1
  <2> QED
    BY <1>1, <2>1, OthersFit, QueueCounts DEF QueueInv
<1>2. CASE CheckWipe
  <2>1. /\ pc = "head" /\ pc' = "drain" /\ batch' = batch /\ draft' = draft /\ sent' = sent
        /\ owed' \in {owed, None}
    BY <1>2 DEF CheckWipe
  <2>2. Some(draft') = Some(draft) /\ Some(owed') <= Some(owed)
    BY <1>0, <2>1, QueueCounts
  <2> QED
    BY <1>0, <2>1, <2>2, OthersFit, QueueCounts DEF QueueInv
<1>3. CASE Drain
  BY <1>3, DrainFits
<1>4. CASE Poll
  BY <1>4, PollFits
<1>5. CASE Accept
  <2>1. /\ pc = "accept" /\ pc' = "redrain" /\ batch' = batch /\ sent' = sent
        /\ owed' = draft /\ draft' = None
    BY <1>5 DEF Accept
  <2>2. Some(owed') = Some(draft) /\ Some(draft') = 0 /\ Some(owed) = 0
    BY <1>0, <2>1 DEF QueueInv
  <2> QED
    BY <1>0, <2>1, <2>2, OthersFit, QueueCounts DEF QueueInv
<1>6. ASSUME NEW s \in batch, NEW status, Word(s, status)
      PROVE  QueueInv'
  BY <1>6, WordFits
<1>7. CASE BatchAbandoned \/ DrainFails \/ Crash
  <2>1. /\ pc' = "head" /\ batch' = {} /\ owed' = owed /\ sent' = sent
        /\ draft' \in {draft, None} /\ (pc = "accept" => draft' = None)
    BY <1>7 DEF BatchAbandoned, DrainFails, Crash
  <2>2. Some(owed') = Some(owed) /\ Some(draft') <= Some(draft) /\ draft' = None
    BY <1>0, <2>1, QueueCounts DEF QueueInv
  <2> QED
    BY <1>0, <2>1, <2>2, OthersFit, QueueCounts DEF QueueInv
<1>8. ASSUME NEW s \in batch, CheckFails(s)
      PROVE  QueueInv'
  <2>1. /\ pc = "word" /\ pc' = "redrain" /\ batch' = batch \ {s}
        /\ UNCHANGED <<draft, owed, sent>>
    BY <1>8 DEF CheckFails, NextRow
  <2>2. Some(draft') = Some(draft) /\ Some(owed') = Some(owed)
    BY <2>1
  <2> QED
    BY <1>0, <2>1, <2>2, OthersFit, QueueCounts DEF QueueInv
<1>9. CASE ConsumerStep
  <2>1. PICK n \in DOMAIN sent : StoreResult(n) \/ RefuseResult(n)
    BY <1>9 DEF ConsumerStep
  <2>2. sent' = [k \in DOMAIN sent \ {n} |-> sent[k]] /\ UNCHANGED enricher
    BY <2>1 DEF StoreResult, RefuseResult, Taken
  <2>3. DOMAIN sent' \subseteq DOMAIN sent
    BY <2>2
  <2> QED
    BY <1>1, <2>2, <2>3 DEF enricher
<1>10. ASSUME NEW m, StoreForecast(m) \/ StorePatch(m) \/ StoreRequest(m) \/ StoreReenrich(m)
                     \/ StoreWipe(m)
       PROVE  QueueInv'
  BY <1>1, <1>10
  DEF StoreForecast, StorePatch, StoreRequest, StoreReenrich, StoreWipe, enricher
<1>11. CASE UNCHANGED vars
  BY <1>1, <1>11 DEF vars, enricher
<1> QED
  BY <1>2, <1>3, <1>4, <1>5, <1>6, <1>7, <1>8, <1>9, <1>10, <1>11
  DEF Next, EnricherStep

LEMMA LoopNext == LoopType /\ [Next]_vars => LoopType'
<1> SUFFICES ASSUME LoopType, [Next]_vars PROVE LoopType'
  OBVIOUS
<1>0. \A n \in 0..MaxFaults : n < MaxFaults => n + 1 \in 0..MaxFaults
  BY WordingAssumption
<1>1. CASE EnricherStep
  BY <1>1
  DEF EnricherStep, CheckWipe, Drain, AfterDrain, Poll, Word, Accept, NextRow, LoopType, tables
<1>2. CASE BatchAbandoned \/ DrainFails \/ Crash
  BY <1>0, <1>2 DEF BatchAbandoned, DrainFails, Crash, Fault, LoopType, tables
<1>3. ASSUME NEW s \in batch, CheckFails(s)
      PROVE  LoopType'
  BY <1>0, <1>3 DEF CheckFails, Fault, LoopType, tables
<1>4. CASE ConsumerStep
  <2>1. UNCHANGED <<stored, latest, seen, pc, outdated, faults>>
    BY <1>4 DEF ConsumerStep, StoreResult, RefuseResult, tables, enricher
  <2> QED
    BY <2>1 DEF LoopType
<1>5. ASSUME NEW m \in Version \cup Patch \cup Request \cup Reenrich \cup Wipe, Storing(m),
             UNCHANGED <<seen, pc, faults>>, latest' \in Wipe \cup {None},
             outdated' \in BOOLEAN
      PROVE  LoopType'
  BY <1>5 DEF Storing, LoopType
<1>6. ASSUME NEW m, StoreForecast(m) \/ StorePatch(m) \/ StoreRequest(m) \/ StoreReenrich(m)
      PROVE  LoopType'
  BY <1>5, <1>6
  DEF StoreForecast, StorePatch, StoreRequest, StoreReenrich, enricher, LoopType
<1>7. ASSUME NEW w, StoreWipe(w)
      PROVE  LoopType'
  <2>1. w \in Wipe /\ Storing(w) /\ latest' = w /\ outdated' \in {outdated, owed # None}
        /\ UNCHANGED <<seen, pc, faults>>
    BY <1>7 DEF StoreWipe
  <2>2. outdated' \in BOOLEAN
    BY <2>1 DEF LoopType
  <2> QED
    BY <1>5, <2>1, <2>2
<1>8. CASE UNCHANGED vars
  BY <1>8 DEF vars, tables, enricher, LoopType
<1> QED
  BY <1>1, <1>2, <1>3, <1>4, <1>6, <1>7, <1>8 DEF Next

\* Every reachable state of a day's rows and of the enricher's loop has its types,
\* and a result that drain_outbox publishes never takes the place of another.
THEOREM TypeCorrect == Spec => []TypeOK
<1>1. Init => LoopType /\ QueueInv
  <2> SUFFICES ASSUME Init PROVE LoopType /\ QueueInv
    OBVIOUS
  <2>1. DOMAIN sent = {} /\ batch = {} /\ draft = None /\ owed = None
    BY DEF Init
  <2>2. LoopType
    <3>1. /\ stored = {} /\ latest = None /\ seen = None /\ pc = "head"
          /\ outdated \in BOOLEAN /\ faults = 0
      BY DEF Init
    <3> QED
      BY <3>1, WordingAssumption DEF LoopType
  <2>3. IsFiniteSet({}) /\ Cardinality({}) = 0
    BY FS_EmptySet
  <2>4. QueueInv
    BY <2>1, <2>3, WordingAssumption DEF QueueInv, Some
  <2> QED
    BY <2>2, <2>4
<1>2. IInv /\ LoopType /\ QueueInv => TypeOK
  <2> SUFFICES ASSUME IInv, LoopType, QueueInv PROVE TypeOK
    OBVIOUS
  <2>1. /\ draft \in Result \cup {None} /\ owed \in Result \cup {None}
        /\ \A n \in DOMAIN sent : sent[n] \in Result
        /\ batch \subseteq Snapshot
    BY DEF IInv, Types, Results, Held
  <2>2. \A a \in DOMAIN rec : rec[a] \in RowType
    BY DEF IInv, RowsInv, RowOK
  <2> QED
    BY <2>1, <2>2 DEF TypeOK, IInv, Types, RowsInv, RowType, LoopType, QueueInv
<1>3. IInv /\ LoopType /\ QueueInv /\ [Next]_vars => (LoopType /\ QueueInv)'
  BY LoopNext, QueueNext
<1> QED
  BY <1>1, <1>2, <1>3, SpecIInv, PTL DEF Spec

--------------------------------------------------------------------------
(***************************************************************************)
(* The promises of module Rules, for every block of the catalogue and      *)
(* every forecast.  Points grow with the excess, every excess grows as the *)
(* day gets worse, so the penalty and the discomfort do, and the clamps,   *)
(* the rounding and the ceiling keep the order.                            *)
(***************************************************************************)
\* A forecast of numbers, and an activity's block with its limits.
Readings(w) == \A r \in DOMAIN w : w[r] \in Int

Limits == {"low", "high", "max_precip_mm", "max_precip_prob", "max_wind_kmh", "max_uv",
           "min_sunshine_hours"}
Block(cfg) ==
  /\ cfg.indoor \in BOOLEAN
  /\ \A key \in DOMAIN cfg \cap Limits : cfg[key] \in Int
  /\ cfg.indoor => cfg.indoor_floor \in Nat /\ cfg.indoor_weight \in Nat
  /\ "score_ceiling" \in DOMAIN cfg => cfg.score_ceiling \in 0 .. 100

--------------------------------------------------------------------------
(* Arithmetic. *)

\* A clamped number is a percentage, and clamping keeps the order.
LEMMA ClampRange == \A v \in Int : Clamp(v) \in 0 .. 100
  BY DEF Clamp, Least
LEMMA ClampOrder == \A u, v \in Int : u <= v => Clamp(u) <= Clamp(v)
  BY DEF Clamp, Least

\* Multiplying by a natural number keeps the order.
LEMMA TimesOrder ==
  ASSUME NEW a \in Int, NEW b \in Int, NEW k \in Nat, a <= b
  PROVE  a * k <= b * k
<1>1. (b - a) * k >= 0  OBVIOUS
<1>2. (b - a) * k = b * k - a * k  OBVIOUS
<1> QED  BY <1>1, <1>2

LEMMA QuarterOrder ==
  ASSUME NEW a \in Int, NEW b \in Int, a <= b
  PROVE  a \div 4 <= b \div 4
  OBVIOUS

\* The points for an excess are a natural number, and grow with it.
LEMMA PointsType ==
  ASSUME NEW e \in Nat, NEW base \in Nat, NEW rate \in Nat, NEW most \in Nat
  PROVE  Points(e, base, rate, most) \in Nat
<1>1. e * rate \in Nat  OBVIOUS
<1>2. (e * rate) \div 4 \in Nat  BY <1>1
<1> QED  BY <1>2 DEF Points, Least

LEMMA PointsOrder ==
  ASSUME NEW e \in Nat, NEW f \in Nat, NEW base \in Nat, NEW rate \in Nat, NEW most \in Nat,
         e <= f
  PROVE  Points(e, base, rate, most) <= Points(f, base, rate, most)
<1>1. e * rate <= f * rate  BY TimesOrder
<1>2. e * rate \in Int /\ f * rate \in Int  OBVIOUS
<1>3. (e * rate) \div 4 <= (f * rate) \div 4  BY <1>1, <1>2, QuarterOrder
<1>4. (e * rate) \div 4 \in Int /\ (f * rate) \div 4 \in Int  BY <1>2
<1>5. Points(f, base, rate, most) \in Nat  BY PointsType
<1> QED  BY <1>3, <1>4, <1>5 DEF Points, Least

\* Rounding gives a whole number and keeps the order.
LEMMA RoundType ==
  ASSUME NEW n \in Int
  PROVE  Round(n) \in {n \div 100, n \div 100 + 1} /\ n \div 100 \in Int
  BY DEF Round
LEMMA RoundOrder ==
  ASSUME NEW m \in Int, NEW n \in Int, m <= n
  PROVE  Round(m) <= Round(n)
<1>1. m \div 100 \in Int /\ n \div 100 \in Int /\ m % 100 \in 0 .. 99 /\ n % 100 \in 0 .. 99
  OBVIOUS
<1>2. m = 100 * (m \div 100) + (m % 100) /\ n = 100 * (n \div 100) + (n % 100)  OBVIOUS
<1>3. CASE m \div 100 = n \div 100
  BY <1>1, <1>2, <1>3 DEF Round
<1>4. CASE m \div 100 < n \div 100
  <2>1. Round(m) <= m \div 100 + 1 /\ n \div 100 <= Round(n)  BY <1>1, RoundType
  <2> QED  BY <2>1, <1>1, <1>4, RoundType
<1> QED  BY <1>1, <1>2, <1>3, <1>4

--------------------------------------------------------------------------
(* Excesses. *)

LEMMA OverType ==
  ASSUME NEW cfg, NEW w, NEW r, NEW key,
         r \in DOMAIN w => w[r] \in Int, key \in DOMAIN cfg => cfg[key] \in Int
  PROVE  Over(cfg, w, r, key) \in Nat /\ Under(cfg, w, r, key) \in Nat
  BY DEF Over, Under, Known

\* A reading that is missing or lower is over a limit by no more ...
LEMMA OverOrder ==
  ASSUME NEW cfg, NEW v, NEW w, NEW r, NEW key,
         key \in DOMAIN cfg => cfg[key] \in Int,
         r \in DOMAIN v => r \in DOMAIN w /\ v[r] \in Int /\ w[r] \in Int /\ v[r] <= w[r],
         r \in DOMAIN w => w[r] \in Int
  PROVE  Over(cfg, v, r, key) <= Over(cfg, w, r, key)
  BY DEF Over, Known

\* ... and one that is missing or higher is under it by no more.
LEMMA UnderOrder ==
  ASSUME NEW cfg, NEW v, NEW w, NEW r, NEW key,
         key \in DOMAIN cfg => cfg[key] \in Int,
         r \in DOMAIN v => r \in DOMAIN w /\ v[r] \in Int /\ w[r] \in Int /\ v[r] >= w[r],
         r \in DOMAIN w => w[r] \in Int
  PROVE  Under(cfg, v, r, key) <= Under(cfg, w, r, key)
  BY DEF Under, Known

--------------------------------------------------------------------------
(* The two sums. *)

LEMMA PleasantType == \A key \in DOMAIN Pleasant : Pleasant[key] \in Int
  BY DEF Pleasant

\* A milder day's readings, one by one.
LEMMA MilderReadings ==
  ASSUME NEW v, NEW w, Readings(v), Readings(w), Milder(v, w), NEW r \in DOMAIN v
  PROVE  /\ r \in DOMAIN w /\ v[r] \in Int /\ w[r] \in Int
         /\ r = "temp_max_c" => v[r] = w[r]
         /\ r = "sunshine_hours" => v[r] >= w[r]
         /\ r \notin {"temp_max_c", "sunshine_hours"} => v[r] <= w[r]
  BY DEF Readings, Milder

\* The outdoors are a percentage of comfort, and no less comfortable on a milder day.
LEMMA ComfortRange ==
  ASSUME NEW w, Readings(w)
  PROVE  Discomfort(w) \in Nat /\ Comfort(w) \in 0 .. 100
<1> DEFINE cold == Under(Pleasant, w, "temp_max_c", "low")
           hot  == Over(Pleasant, w, "temp_max_c", "high")
           wet  == Over(Pleasant, w, "precip_mm", "max_precip_mm")
           wind == Over(Pleasant, w, "wind_kmh", "max_wind_kmh")
<1>1. cold \in Nat /\ hot \in Nat /\ wet \in Nat /\ wind \in Nat
  BY OverType, PleasantType DEF Readings
<1> HIDE DEF cold, hot, wet, wind
<1>2. /\ Points(cold, 0, 6, 40) \in Nat /\ Points(hot, 0, 6, 40) \in Nat
      /\ Points(wet, 15, 10, 45) \in Nat /\ Points(wind, 0, 3, 30) \in Nat
  BY <1>1, PointsType
<1>3. Discomfort(w) \in Nat  BY <1>2 DEF Discomfort, cold, hot, wet, wind
<1> QED  BY <1>3, ClampRange DEF Comfort

LEMMA ComfortOrder ==
  ASSUME NEW v, NEW w, Readings(v), Readings(w), Milder(v, w)
  PROVE  Comfort(v) >= Comfort(w)
<1> DEFINE cold(x) == Under(Pleasant, x, "temp_max_c", "low")
           hot(x)  == Over(Pleasant, x, "temp_max_c", "high")
           wet(x)  == Over(Pleasant, x, "precip_mm", "max_precip_mm")
           wind(x) == Over(Pleasant, x, "wind_kmh", "max_wind_kmh")
<1>1. /\ cold(v) \in Nat /\ hot(v) \in Nat /\ wet(v) \in Nat /\ wind(v) \in Nat
      /\ cold(w) \in Nat /\ hot(w) \in Nat /\ wet(w) \in Nat /\ wind(w) \in Nat
  BY OverType, PleasantType DEF Readings
<1>2. cold(v) <= cold(w) /\ hot(v) <= hot(w)
  <2>1. "temp_max_c" \in DOMAIN v =>
          /\ "temp_max_c" \in DOMAIN w
          /\ v["temp_max_c"] \in Int /\ v["temp_max_c"] = w["temp_max_c"]
    BY MilderReadings
  <2> QED  BY <2>1, OverOrder, UnderOrder, PleasantType DEF Readings
<1>3. wet(v) <= wet(w)
  BY MilderReadings, OverOrder, PleasantType DEF Readings
<1>4. wind(v) <= wind(w)
  BY MilderReadings, OverOrder, PleasantType DEF Readings
<1> HIDE DEF cold, hot, wet, wind
<1>5. /\ Points(cold(v), 0, 6, 40) <= Points(cold(w), 0, 6, 40)
      /\ Points(hot(v), 0, 6, 40) <= Points(hot(w), 0, 6, 40)
      /\ Points(wet(v), 15, 10, 45) <= Points(wet(w), 15, 10, 45)
      /\ Points(wind(v), 0, 3, 30) <= Points(wind(w), 0, 3, 30)
  BY <1>1, <1>2, <1>3, <1>4, PointsOrder
<1>6. /\ Points(cold(v), 0, 6, 40) \in Nat /\ Points(hot(v), 0, 6, 40) \in Nat
      /\ Points(wet(v), 15, 10, 45) \in Nat /\ Points(wind(v), 0, 3, 30) \in Nat
      /\ Points(cold(w), 0, 6, 40) \in Nat /\ Points(hot(w), 0, 6, 40) \in Nat
      /\ Points(wet(w), 15, 10, 45) \in Nat /\ Points(wind(w), 0, 3, 30) \in Nat
  BY <1>1, PointsType
<1>7. Discomfort(v) <= Discomfort(w)
  BY <1>5, <1>6 DEF Discomfort, cold, hot, wet, wind
<1>8. Discomfort(v) \in Nat /\ Discomfort(w) \in Nat  BY ComfortRange
<1>9. 100 - Discomfort(w) <= 100 - Discomfort(v)  BY <1>7, <1>8
<1> QED  BY <1>8, <1>9, ClampOrder DEF Comfort

\* The same of an outdoor activity's penalty.
LEMMA PenaltyType ==
  ASSUME NEW cfg, NEW w, Block(cfg), Readings(w)
  PROVE  Penalty(cfg, w) \in Nat
<1>1. \A r, key : key \in Limits => Over(cfg, w, r, key) \in Nat /\ Under(cfg, w, r, key) \in Nat
  BY OverType DEF Readings, Block
<1>2. /\ Points(Under(cfg, w, "temp_max_c", "low"), 0, 12, 45) \in Nat
      /\ Points(Over(cfg, w, "temp_max_c", "high"), 0, 12, 45) \in Nat
      /\ Points(Over(cfg, w, "precip_mm", "max_precip_mm"), 20, 12, 50) \in Nat
      /\ Points(Over(cfg, w, "precip_prob", "max_precip_prob"), 0, 1, 25) \in Nat
      /\ Points(Over(cfg, w, "wind_kmh", "max_wind_kmh"), 0, 3, 30) \in Nat
      /\ Points(Over(cfg, w, "uv_index", "max_uv"), 0, 10, 15) \in Nat
      /\ Points(Under(cfg, w, "sunshine_hours", "min_sunshine_hours"), 0, 12, 30) \in Nat
  BY <1>1, PointsType DEF Limits
<1> QED  BY <1>2 DEF Penalty

LEMMA PenaltyOrder ==
  ASSUME NEW cfg, NEW v, NEW w, Block(cfg), Readings(v), Readings(w), Milder(v, w)
  PROVE  Penalty(cfg, v) <= Penalty(cfg, w)
<1>1. /\ \A x \in {v, w} : \A r, key : key \in Limits =>
            Over(cfg, x, r, key) \in Nat /\ Under(cfg, x, r, key) \in Nat
  BY OverType DEF Readings, Block
<1>2. \A r, key : key \in Limits /\ r # "sunshine_hours" => Over(cfg, v, r, key) <= Over(cfg, w, r, key)
  <2> SUFFICES ASSUME NEW r, NEW key, key \in Limits, r # "sunshine_hours"
               PROVE  Over(cfg, v, r, key) <= Over(cfg, w, r, key)
    OBVIOUS
  <2>1. r \in DOMAIN v => r \in DOMAIN w /\ v[r] \in Int /\ w[r] \in Int /\ v[r] <= w[r]
    BY MilderReadings
  <2> QED  BY <2>1, OverOrder DEF Block, Readings
<1>3. \A r \in {"temp_max_c", "sunshine_hours"}, key \in Limits :
         Under(cfg, v, r, key) <= Under(cfg, w, r, key)
  <2> SUFFICES ASSUME NEW r \in {"temp_max_c", "sunshine_hours"}, NEW key \in Limits
               PROVE  Under(cfg, v, r, key) <= Under(cfg, w, r, key)
    OBVIOUS
  <2>1. r \in DOMAIN v => r \in DOMAIN w /\ v[r] \in Int /\ w[r] \in Int /\ v[r] >= w[r]
    BY MilderReadings
  <2> QED  BY <2>1, UnderOrder DEF Block, Readings
<1> DEFINE P1(x) == Points(Under(cfg, x, "temp_max_c", "low"), 0, 12, 45)
           P2(x) == Points(Over(cfg, x, "temp_max_c", "high"), 0, 12, 45)
           P3(x) == Points(Over(cfg, x, "precip_mm", "max_precip_mm"), 20, 12, 50)
           P4(x) == Points(Over(cfg, x, "precip_prob", "max_precip_prob"), 0, 1, 25)
           P5(x) == Points(Over(cfg, x, "wind_kmh", "max_wind_kmh"), 0, 3, 30)
           P6(x) == Points(Over(cfg, x, "uv_index", "max_uv"), 0, 10, 15)
           P7(x) == Points(Under(cfg, x, "sunshine_hours", "min_sunshine_hours"), 0, 12, 30)
<1>4. P1(v) <= P1(w) /\ P1(v) \in Nat /\ P1(w) \in Nat  BY <1>1, <1>3, PointsOrder, PointsType DEF Limits
<1>5. P2(v) <= P2(w) /\ P2(v) \in Nat /\ P2(w) \in Nat  BY <1>1, <1>2, PointsOrder, PointsType DEF Limits
<1>6. P3(v) <= P3(w) /\ P3(v) \in Nat /\ P3(w) \in Nat  BY <1>1, <1>2, PointsOrder, PointsType DEF Limits
<1>7. P4(v) <= P4(w) /\ P4(v) \in Nat /\ P4(w) \in Nat  BY <1>1, <1>2, PointsOrder, PointsType DEF Limits
<1>8. P5(v) <= P5(w) /\ P5(v) \in Nat /\ P5(w) \in Nat  BY <1>1, <1>2, PointsOrder, PointsType DEF Limits
<1>9. P6(v) <= P6(w) /\ P6(v) \in Nat /\ P6(w) \in Nat  BY <1>1, <1>2, PointsOrder, PointsType DEF Limits
<1>10. P7(v) <= P7(w) /\ P7(v) \in Nat /\ P7(w) \in Nat  BY <1>1, <1>3, PointsOrder, PointsType DEF Limits
<1>11. /\ Penalty(cfg, v) = P1(v) + P2(v) + P3(v) + P4(v) + P5(v) + P6(v) + P7(v)
       /\ Penalty(cfg, w) = P1(w) + P2(w) + P3(w) + P4(w) + P5(w) + P6(w) + P7(w)
  BY DEF Penalty
<1> HIDE DEF P1, P2, P3, P4, P5, P6, P7
<1> QED  BY <1>4, <1>5, <1>6, <1>7, <1>8, <1>9, <1>10, <1>11

--------------------------------------------------------------------------
(* The scores. *)

LEMMA IndoorsOrder ==
  ASSUME NEW cfg, NEW v, NEW w, Block(cfg), cfg.indoor, Readings(v), Readings(w),
         Comfort(v) >= Comfort(w)
  PROVE  /\ Indoors(cfg, v) \in 0 .. 100 /\ Indoors(cfg, w) \in 0 .. 100
         /\ Indoors(cfg, v) <= Indoors(cfg, w)
<1> DEFINE floor == cfg.indoor_floor
           weight == cfg.indoor_weight
           value(x) == 100 * floor + weight * (100 - Comfort(x))
<1>1. floor \in Nat /\ weight \in Nat  BY DEF Block
<1>2. Comfort(v) \in 0 .. 100 /\ Comfort(w) \in 0 .. 100  BY ComfortRange
<1> HIDE DEF floor, weight
<1>3. (100 - Comfort(v)) * weight <= (100 - Comfort(w)) * weight
  <2>1. 100 - Comfort(v) <= 100 - Comfort(w)  BY <1>2
  <2> QED  BY <2>1, <1>1, <1>2, TimesOrder
<1>4. value(v) \in Int /\ value(w) \in Int /\ value(v) <= value(w)
  BY <1>1, <1>2, <1>3
<1> HIDE DEF value
<1>5. Round(value(v)) <= Round(value(w)) /\ Round(value(v)) \in Int /\ Round(value(w)) \in Int
  BY <1>4, RoundOrder, RoundType
<1>6. Indoors(cfg, v) = Clamp(Round(value(v))) /\ Indoors(cfg, w) = Clamp(Round(value(w)))
  BY DEF Indoors, value, floor, weight
<1> QED  BY <1>5, <1>6, ClampRange, ClampOrder

LEMMA IndoorsRange ==
  ASSUME NEW cfg, NEW w, Block(cfg), cfg.indoor, Readings(w)
  PROVE  Indoors(cfg, w) \in 0 .. 100
<1>1. Comfort(w) \in Int  BY ComfortRange
<1> QED  BY <1>1, IndoorsOrder

LEMMA OutdoorsRange ==
  ASSUME NEW cfg, NEW w, Block(cfg), Readings(w)
  PROVE  Outdoors(cfg, w) \in 0 .. 100
<1>1. 100 - Penalty(cfg, w) \in Int  BY PenaltyType
<1> QED  BY <1>1, ClampRange DEF Outdoors

\* A score is a percentage, never above its activity's ceiling; under the sea
\* ceiling of data/activities.yml no land forecast is "good" (_apply_ceiling).
THEOREM ScoresInRange ==
  ASSUME NEW cfg, NEW w, Block(cfg), Readings(w)
  PROVE  InRange(cfg, w)
<1>1. ScoreActivity(cfg, w) = Capped(cfg, IF cfg.indoor THEN Indoors(cfg, w) ELSE Outdoors(cfg, w))
  BY DEF ScoreActivity
<1>2. (IF cfg.indoor THEN Indoors(cfg, w) ELSE Outdoors(cfg, w)) \in 0 .. 100
  BY IndoorsRange, OutdoorsRange
<1>3. \A s \in 0 .. 100 : /\ Capped(cfg, s) \in 0 .. 100
                          /\ "score_ceiling" \in DOMAIN cfg => Capped(cfg, s) <= cfg.score_ceiling
  BY DEF Capped, Least, Block
<1> QED  BY <1>1, <1>2, <1>3 DEF InRange, Band

\* A milder day, or one of which less is known, never scores an outdoor activity
\* lower nor an indoor one higher (score_activity, outdoor_comfort).
THEOREM MilderDaysScoreBetter ==
  ASSUME NEW cfg, NEW v, NEW w, Block(cfg), Readings(v), Readings(w)
  PROVE  Monotone(cfg, v, w)
<1> SUFFICES ASSUME Milder(v, w)
             PROVE  IF cfg.indoor THEN ScoreActivity(cfg, v) <= ScoreActivity(cfg, w)
                    ELSE ScoreActivity(cfg, v) >= ScoreActivity(cfg, w)
  BY DEF Monotone
<1>1. \A s, t \in 0 .. 100 : s <= t => Capped(cfg, s) <= Capped(cfg, t)
  BY DEF Capped, Least, Block
<1>2. CASE cfg.indoor
  <2>1. /\ Indoors(cfg, v) \in 0 .. 100 /\ Indoors(cfg, w) \in 0 .. 100
        /\ Indoors(cfg, v) <= Indoors(cfg, w)
    BY <1>2, ComfortOrder, IndoorsOrder
  <2> QED  BY <2>1, <1>1, <1>2 DEF ScoreActivity
<1>3. CASE ~cfg.indoor
  <2>1. Penalty(cfg, v) \in Nat /\ Penalty(cfg, w) \in Nat /\ Penalty(cfg, v) <= Penalty(cfg, w)
    BY PenaltyType, PenaltyOrder
  <2>2. 100 - Penalty(cfg, w) <= 100 - Penalty(cfg, v)  BY <2>1
  <2>3. Outdoors(cfg, w) <= Outdoors(cfg, v)
    BY <2>1, <2>2, ClampOrder DEF Outdoors
  <2>4. Capped(cfg, Outdoors(cfg, w)) <= Capped(cfg, Outdoors(cfg, v))
    BY <2>3, <1>1, OutdoorsRange
  <2> QED  BY <2>4, <1>3, ScoresInRange DEF ScoreActivity, InRange
<1> QED  BY <1>2, <1>3 DEF Block
==========================================================================
