------------------------- MODULE DeliveryPromise -------------------------
(***************************************************************************)
(* What the write path promises of one accepted record, with the outboxes, *)
(* the broker and the consumer left out.                                   *)
(*                                                                         *)
(* README.md, "The delivery guarantee, and its boundary": from the moment  *)
(* a record is fsynced into a producer's outbox it reaches one of exactly  *)
(* two terminal states, stored in Postgres or quarantined in aow.dlq,      *)
(* visible and redrivable.  The code has one more way out, stated here as  *)
(* Discard: a user-data wipe makes the enricher drop model output it       *)
(* accepted before the wipe (services/enricher/main.py, purge of the       *)
(* outbox at the head of its loop).                                        *)
(***************************************************************************)
CONSTANTS
  Record,        \* envelopes, one per message_id
  Discardable,   \* the records of the enricher
  Wipe           \* the user_data.wipe requests

VARIABLE fate    \* fate[m]: where the promise about record m stands

Fate == {"unknown", "accepted", "stored", "quarantined", "discarded"}

With(S, f) == fate' = [m \in Record |-> IF m \in S THEN f ELSE fate[m]]

All(S, f) == \A m \in S : fate[m] = f

Init == fate = [m \in Record |-> "unknown"]

\* The producer's caller is told 202.
Accept(m) == All({m}, "unknown") /\ With({m}, "accepted")

\* The business write and the message_id are committed.  Final.
Store(m) == All({m}, "accepted") /\ With({m}, "stored")

\* One lost connection can exhaust the delivery limit of several at once.
Quarantine(S) == S # {} /\ All(S, "accepted") /\ With(S, "quarantined")

\* An operator redrives the dead letter, or reconcile replays the envelope.
Retry(m) == All({m}, "quarantined") /\ With({m}, "accepted")

\* Once a wipe is stored the enricher drops model output it still owed; what the
\* broker had meanwhile taken and dead-lettered stays quarantined.
Discard(S) ==
  /\ S # {} /\ S \subseteq Discardable /\ All(S, "accepted")
  /\ \E w \in Wipe : fate[w] = "stored"
  /\ \E f \in [S -> {"discarded", "quarantined"}] :
       fate' = [m \in Record |-> IF m \in S THEN f[m] ELSE fate[m]]

Next ==
  \/ \E m \in Record : Accept(m) \/ Store(m) \/ Retry(m)
  \/ \E S \in SUBSET Record : Quarantine(S) \/ Discard(S)

Spec == Init /\ [][Next]_fate
==========================================================================
