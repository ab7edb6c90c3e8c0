---------------------------- MODULE MCCollected ----------------------------
(***************************************************************************)
(* Values of Collected's constants for TLC: one concert (an event), one    *)
(* museum (a place) and one generated sample, with two versions of the     *)
(* first two, a curated retraction and a correction of it posted to the    *)
(* api, and a wipe.  A run names the ones it uses.                         *)
(***************************************************************************)
EXTENDS Collected

CONSTANTS
  concert, museum, sample,               \* records
  concert1, concert1short, concert2, museum1, museum2, sample1, sample2,  \* versions
  cancelled, reworded, closed, fake,     \* retractions
  recheck, rename,                       \* patches
  wipe1, wipe2

MCAbout ==
  [m \in Named |->
     CASE m \in {concert1, concert1short, concert2, cancelled, reworded,
                 recheck} -> concert
       [] m \in {museum1, museum2, closed, rename} -> museum
       [] OTHER -> sample]

MCAsOf ==
  [v \in Version |-> IF v \in {concert2, museum2} THEN 2 ELSE 1]

MCCheckedAt ==
  [m \in Version \cup Patch |->
     CASE m = concert2 -> 2 [] m = recheck -> 3 [] OTHER -> 1]

\* concert1 again, accepted under a shorter window.
MCWindowOf == [v \in Version |-> IF v = concert1short THEN 1 ELSE 2]

MCDecidedAt == [r \in Retraction |-> IF r = reworded THEN 2 ELSE 1]
MCWording   == [r \in Retraction |-> r]
==========================================================================
