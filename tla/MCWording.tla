----------------------------- MODULE MCWording -----------------------------
(***************************************************************************)
(* Values of Wording's constants for TLC: a walk and a swim in a city by   *)
(* the sea, which the rules (module Rules) rank differently under the two  *)
(* forecasts; a correction, a request, a re-enrichment and a wipe.  And,   *)
(* before it starts, the rules over a grid of forecasts.                   *)
(***************************************************************************)
EXTENDS Wording, Rules, TLC

CONSTANTS
  walk, swim,                       \* activities
  monday, tuesday,                  \* forecasts
  askWalk,
  everything,                       \* a re-enrichment
  correct, wipe

MCAsOf == [v \in Version |-> IF v = monday THEN 1 ELSE 2]

Walk   == [indoor |-> FALSE, requires_coast |-> FALSE, low |-> 12, high |-> 48,
           max_precip_mm |-> 6, max_precip_prob |-> 90, max_wind_kmh |-> 70, max_uv |-> 18]
Swim   == [indoor |-> FALSE, requires_coast |-> TRUE, score_ceiling |-> 69, low |-> 48,
           high |-> 72, max_precip_mm |-> 2, max_wind_kmh |-> 44, min_sunshine_hours |-> 8]
Museum == [indoor |-> TRUE, requires_coast |-> FALSE, indoor_floor |-> 55,
           indoor_weight |-> 45]

\* A mild Monday and a hot Tuesday.
Day(v) == [temp_max_c |-> IF v = monday THEN 44 ELSE 66, precip_mm |-> 0,
           wind_kmh |-> 20, sunshine_hours |-> 20]

MCCatalogue == [a \in {walk, swim} |-> IF a = walk THEN Walk ELSE Swim]
Catalogued  == ActivitiesForCity(MCCatalogue, TRUE)
MCSupported == Catalogued

Scores(v) == walk :> ScoreActivity(Walk, Day(v)) @@ swim :> ScoreActivity(Swim, Day(v))
Table     == monday :> Scores(monday) @@ tuesday :> Scores(tuesday)
MCScore   == Table

MCAskedFor == [q \in Request |-> walk]
MCSelected == [e \in Reenrich |-> Activity]

--------------------------------------------------------------------------
Blocks == {Walk, Swim, Museum, Generic, GenericSea}
Grid   == [temp_max_c     |-> {8, 66},     precip_mm      |-> {0, 5, 20},
           wind_kmh       |-> {0, 51, 140}, sunshine_hours |-> {0, 9}]

\* Every forecast of the grid, with any of its readings missing.
Forecasts ==
  UNION {{w \in [given -> UNION {Grid[r] : r \in given}] : \A r \in given : w[r] \in Grid[r]} :
           given \in SUBSET DOMAIN Grid}

ASSUME RulesHold ==
  /\ \A cfg \in Blocks, w \in Forecasts : InRange(cfg, w)
  /\ \A cfg \in Blocks, v, w \in Forecasts : Monotone(cfg, v, w)
  /\ \A name \in Names : RefusedIsCapped(name)
==========================================================================
