------------------------------- MODULE MCTrip -------------------------------
(* A small instance of Trip: beach and museum days in one city.            *)
EXTENDS Trip, TLC

CONSTANTS beachDay, museumDay, bay, tate, cup, museums, surfing, kite, lastDay

MCDay == 1..lastDay
MCCategoryOf == bay :> "beach" @@ tate :> "museum"
MCPlaceRank == bay :> 1 @@ tate :> 2
MCActivityRank == beachDay :> 1 @@ kite :> 2 @@ museumDay :> 3 @@ surfing :> 4
MCRuns == cup :> 2..3
MCMatching == museums :> {"museum"}
MCTags == museumDay :> {museums} @@ [a \in {beachDay, surfing, kite} |-> {}]
MCVenues == beachDay :> {"beach"} @@ museumDay :> {"museum"} @@ [a \in {surfing, kite} |-> {}]
\* The second forecast rains on the beach, and on the kites.
MCScore == <<beachDay :> 90 @@ museumDay :> 70 @@ surfing :> 50 @@ kite :> 95,
             beachDay :> 40 @@ museumDay :> 70 @@ surfing :> 50 @@ kite :> 30>>
\* All days, varied, for a traveller who ticked museums; or two days of surfing, in a
\* city that has a beach and no coast.
MCRequest == {
  [from |-> 1, to |-> lastDay, interests |-> {museums}, only |-> {}, varied |-> TRUE],
  [from |-> 1, to |-> 2, interests |-> {}, only |-> {surfing}, varied |-> FALSE]}
==========================================================================
