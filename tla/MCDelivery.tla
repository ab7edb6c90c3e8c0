---------------------------- MODULE MCDelivery ----------------------------
(***************************************************************************)
(* Values of Delivery's constants for TLC: one collected record, one patch *)
(* of it and one wipe from the api, one model result from the enricher.    *)
(* A run names the ones it uses.                                           *)
(***************************************************************************)
EXTENDS Delivery

CONSTANTS place, patch, wipe, wording

MCOwner ==
  [m \in Record |-> CASE m = place   -> "ingestor"
                      [] m = wording -> "enricher"
                      [] OTHER       -> "api"]

MCNeeds == [m \in Record |-> IF m = patch THEN Collected ELSE {}]
==========================================================================
