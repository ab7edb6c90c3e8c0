--------------------------- MODULE MCEgressWindow ---------------------------
(* Two commands that overlap: two re-checks on one network, a window test and  *)
(* a refresh on another, a refresh and a re-check on one each.                 *)
EXTENDS EgressWindow, TLC

CONSTANTS r1, r2

MCMix == {r1 :> "recheck" @@ r2 :> "recheck",
          r1 :> "check"   @@ r2 :> "refresh",
          r1 :> "refresh" @@ r2 :> "recheck"}
=============================================================================
