------------------------------- MODULE Rules -------------------------------
(***************************************************************************)
(* services/common/rules.py: the score of an activity under a day's        *)
(* forecast, which the consumer stores and everything else ranks by.       *)
(*                                                                         *)
(* A forecast is a function from the readings the provider gave, and an    *)
(* activity's block of data/activities.yml one from the keys it carries: a *)
(* reading or a key that is missing is not in the domain.  Readings and    *)
(* limits are counted in halves of their unit, in which every limit of the *)
(* catalogue is whole and the code's floating point is exact.              *)
(***************************************************************************)
EXTENDS Integers

Least(a, b) == IF a <= b THEN a ELSE b
Clamp(v)    == IF v < 0 THEN 0 ELSE Least(v, 100)

Band(score) == IF score >= 70 THEN "good" ELSE IF score >= 40 THEN "fair" ELSE "poor"

\* By how much a reading is over, or under, the limit an activity sets.
Known(cfg, w, reading, key) == reading \in DOMAIN w /\ key \in DOMAIN cfg
Over(cfg, w, reading, key) ==
  IF Known(cfg, w, reading, key) /\ w[reading] > cfg[key] THEN w[reading] - cfg[key] ELSE 0
Under(cfg, w, reading, key) ==
  IF Known(cfg, w, reading, key) /\ w[reading] < cfg[key] THEN cfg[key] - w[reading] ELSE 0

\* int(min(most, base + excess * rate)), the rate in points per 4 halves; no
\* points for a limit that is kept.
Points(excess, base, rate, most) ==
  IF excess = 0 THEN 0 ELSE Least(most, base + (excess * rate) \div 4)

--------------------------------------------------------------------------
\* outdoor_comfort: pleasant is 12 to 26 degrees, a millimetre, 25 km/h.
Pleasant == [low |-> 24, high |-> 52, max_precip_mm |-> 2, max_wind_kmh |-> 50]

Discomfort(w) ==
  Points(Under(Pleasant, w, "temp_max_c", "low"), 0, 6, 40)
  + Points(Over(Pleasant, w, "temp_max_c", "high"), 0, 6, 40)
  + Points(Over(Pleasant, w, "precip_mm", "max_precip_mm"), 15, 10, 45)
  + Points(Over(Pleasant, w, "wind_kmh", "max_wind_kmh"), 0, 3, 30)
Comfort(w) == Clamp(100 - Discomfort(w))

\* Python's round: the nearest whole number of n hundredths, and of two the even one.
Round(n) ==
  LET whole == n \div 100
      rest  == n % 100
  IN IF rest < 50 \/ (rest = 50 /\ whole % 2 = 0) THEN whole ELSE whole + 1

\* An indoor activity gains what the outdoors loses; indoor_weight in hundredths.
Indoors(cfg, w) ==
  Clamp(Round(100 * cfg.indoor_floor + cfg.indoor_weight * (100 - Comfort(w))))

\* An outdoor one starts at 100 and pays for each limit the day breaks.
Penalty(cfg, w) ==
  Points(Under(cfg, w, "temp_max_c", "low"), 0, 12, 45)
  + Points(Over(cfg, w, "temp_max_c", "high"), 0, 12, 45)
  + Points(Over(cfg, w, "precip_mm", "max_precip_mm"), 20, 12, 50)
  + Points(Over(cfg, w, "precip_prob", "max_precip_prob"), 0, 1, 25)
  + Points(Over(cfg, w, "wind_kmh", "max_wind_kmh"), 0, 3, 30)
  + Points(Over(cfg, w, "uv_index", "max_uv"), 0, 10, 15)
  + Points(Under(cfg, w, "sunshine_hours", "min_sunshine_hours"), 0, 12, 30)
Outdoors(cfg, w) == Clamp(100 - Penalty(cfg, w))

\* _apply_ceiling, last and on both paths.
Capped(cfg, score) ==
  IF "score_ceiling" \in DOMAIN cfg THEN Least(score, cfg.score_ceiling) ELSE score

ScoreActivity(cfg, w) ==
  Capped(cfg, IF cfg.indoor THEN Indoors(cfg, w) ELSE Outdoors(cfg, w))

--------------------------------------------------------------------------
\* A city without a coast has no row of an activity that requires one.
ActivitiesForCity(catalogue, coastal) ==
  {a \in DOMAIN catalogue : coastal \/ ~catalogue[a].requires_coast}

\* A typed name is the set of lists its words are on: SEA_WORDS, those of them in
\* EXPLICIT_SEA_WORDS, INLAND_WATER_WORDS, NOT_WATER_WORDS.
Lists == {"sea", "explicit sea", "inland", "not water"}
Names == {n \in SUBSET Lists : "explicit sea" \in n => "sea" \in n}

NamesWater(name) == "not water" \notin name /\ "sea" \in name
NeedsCoast(name) ==
  ("inland" \notin name \/ "explicit sea" \in name) /\ NamesWater(name)

Generic == [indoor |-> FALSE, low |-> 24, high |-> 52, max_precip_mm |-> 4,
            max_precip_prob |-> 100, max_wind_kmh |-> 60]
GenericSea ==
  [key \in DOMAIN Generic \cup {"score_ceiling"} |->
     IF key = "score_ceiling" THEN 69 ELSE Generic[key]]

\* score_requested, for a name the catalogue does not carry.
ScoreRequested(name, w) == ScoreActivity(IF NamesWater(name) THEN GenericSea ELSE Generic, w)

--------------------------------------------------------------------------
(***************************************************************************)
(* What the scores promise; MCWording has TLC evaluate it over a catalogue *)
(* and a grid of forecasts, WordingProofs proves it for all of them.       *)
(***************************************************************************)

\* A score is a percentage, and never above the ceiling of its activity: a block
\* with the catalogue's sea ceiling is never "good", whatever the land forecast.
InRange(cfg, w) ==
  /\ ScoreActivity(cfg, w) \in 0 .. 100
  /\ "score_ceiling" \in DOMAIN cfg => ScoreActivity(cfg, w) <= cfg.score_ceiling
  /\ "score_ceiling" \in DOMAIN cfg /\ cfg.score_ceiling = 69
       => Band(ScoreActivity(cfg, w)) # "good"

\* Day v is as good as w or better: it says less, or less rain, wind and risk of
\* it, a weaker sun to burn in, and as much of it to see, at the same temperature.
Milder(v, w) ==
  /\ DOMAIN v \subseteq DOMAIN w
  /\ \A r \in DOMAIN v : IF r = "temp_max_c" THEN v[r] = w[r]
                         ELSE IF r = "sunshine_hours" THEN v[r] >= w[r] ELSE v[r] <= w[r]

\* A milder day never scores an outdoor activity lower nor an indoor one higher:
\* no reading, and no gap in the readings, counts the wrong way round.
Monotone(cfg, v, w) ==
  Milder(v, w) => IF cfg.indoor THEN ScoreActivity(cfg, v) <= ScoreActivity(cfg, w)
                                ELSE ScoreActivity(cfg, v) >= ScoreActivity(cfg, w)

\* A name refused for want of a coast is one that would be capped where there is
\* one; a word for something that is not water settles that neither happens.
RefusedIsCapped(name) ==
  /\ NeedsCoast(name) => NamesWater(name)
  /\ "not water" \in name => ~NeedsCoast(name) /\ ~NamesWater(name)
=============================================================================
