----------------------------- MODULE Delivery -----------------------------
(***************************************************************************)
(* The write path: three producers with a SQLite outbox each, one quorum   *)
(* queue with its dead-letter queue, one consumer that is the only writer  *)
(* of Postgres, and the two operator tools that put a record back on the   *)
(* queue (redrive, reconcile).                                             *)
(*                                                                         *)
(* Data is abstracted to what decides a record's fate: who accepted it,    *)
(* whether it validates, which records must be stored before it can be     *)
(* (a record.patch needs its row), and whether it is a user_data.wipe.     *)
(*                                                                         *)
(* The queue is a set of copies, not a sequence: requeues and reconnects   *)
(* reorder it, so a record can be handled in any order.                    *)
(***************************************************************************)
EXTENDS Naturals, FiniteSets

CONSTANTS
  Record,         \* envelopes, one per message_id
  Owner,          \* Owner[m]: the producer whose outbox accepts m
  Malformed,      \* records no handler will ever accept
  Needs,          \* Needs[m]: m updates a row that any of these creates
  Wipe,           \* the user_data.wipe records
  Collected,      \* ingestor records that a wipe replays (SOURCE_KEYS)
  Slot,           \* bound: copies of one record the broker holds at a time
  DeliveryLimit,  \* x-delivery-limit
  Prefetch,       \* basic_qos(prefetch_count)
  MaxFaults,      \* bound: crashes, outages and lost confirms
  MaxRepairs      \* bound: redrives and replays

Producer == {"ingestor", "api", "enricher"}

ASSUME RecordAssumption ==
  /\ Owner \in [Record -> Producer]
  /\ Needs \in [Record -> SUBSET Record]
  /\ Malformed \subseteq Record
  /\ Wipe \subseteq {m \in Record : Owner[m] = "api"}
  /\ Collected \subseteq {m \in Record : Owner[m] = "ingestor"}

ASSUME BoundAssumption ==
  /\ DeliveryLimit \in Nat
  /\ Prefetch \in Nat
  /\ MaxFaults \in Nat
  /\ MaxRepairs \in Nat

VARIABLES
  accepted,    \* records whose caller was told they are accepted
  seq,         \* seq[m]: the outbox row's AUTOINCREMENT key, 0 for no row
  nextSeq,     \* nextSeq[p]: the next key of p's outbox
  published,   \* rows whose published_at is set
  batch,       \* batch[p]: rows p selected and has not tried to publish yet
  confirmed,   \* rows the broker confirmed that are not marked published yet
  copy,        \* copy[m][s]: where a copy of m stands (CopyState)
  returns,     \* returns[m][s]: times the broker took that copy back
  ingest_log,  \* message_ids committed in Postgres
  applied,     \* applied[m]: how often m's business write was committed
  outdated,    \* enricher rows accepted before a committed wipe
  audited,     \* records reconcile found missing and is about to replay
  faults,      \* faults so far
  repairs      \* redrives and replays so far

outboxVars   == <<accepted, seq, nextSeq, published, outdated>>
publishVars  == <<batch, confirmed>>
brokerVars   == <<copy, returns>>
databaseVars == <<ingest_log, applied>>
vars == <<outboxVars, publishVars, brokerVars, databaseVars, audited, faults,
          repairs>>

(***************************************************************************)
(* A copy is free (does not exist), ready in aow.ingest, held unacked by   *)
(* the consumer, held with the verdict the handler reached ("ack",         *)
(* "requeue", "reject") but not yet sent, dead in aow.dlq, or dead and     *)
(* already republished by a redrive that has not acked it ("redriven").    *)
(***************************************************************************)
Verdict   == {"ack", "requeue", "reject"}
Held      == {"unacked"} \cup Verdict
Live      == {"ready"} \cup Held
CopyState == {"free", "dead", "redriven"} \cup Live

HasRow(m)      == seq[m] # 0
Rows(p)        == {m \in Record : Owner[m] = p /\ HasRow(m)}
Unpublished(p) == Rows(p) \ published

InBroker(m) == \E s \in Slot : copy[m][s] # "free"
IsLive(m)   == \E s \in Slot : copy[m][s] \in Live

Init ==
  /\ accepted = {}
  /\ seq = [m \in Record |-> 0]
  /\ nextSeq = [p \in Producer |-> 1]
  /\ published = {}
  /\ batch = [p \in Producer |-> {}]
  /\ confirmed = {}
  /\ copy = [m \in Record |-> [s \in Slot |-> "free"]]
  /\ returns = [m \in Record |-> [s \in Slot |-> 0]]
  /\ ingest_log = {}
  /\ applied = [m \in Record |-> 0]
  /\ outdated = {}
  /\ audited = {}
  /\ faults = 0
  /\ repairs = 0

Fault  == faults < MaxFaults /\ faults' = faults + 1
Repair == repairs < MaxRepairs /\ repairs' = repairs + 1

(***************************************************************************)
(* Producers.                                                              *)
(***************************************************************************)

\* INSERT OR IGNORE of a new message_id, fsynced before the caller is answered.
Accept(m) ==
  /\ m \notin accepted
  /\ accepted' = accepted \cup {m}
  /\ seq' = [seq EXCEPT ![m] = nextSeq[Owner[m]]]
  /\ nextSeq' = [nextSeq EXCEPT ![Owner[m]] = @ + 1]
  /\ UNCHANGED <<published, outdated, publishVars, brokerVars, databaseVars,
                 audited, faults, repairs>>

PublisherIdle(p) == batch[p] = {} /\ \A m \in confirmed : Owner[m] # p

\* ORDER BY seq LIMIT n: the oldest unpublished rows, for whatever n.
OldestFirst(p, S) ==
  \A m \in S, n \in Unpublished(p) : seq[n] < seq[m] => n \in S

SelectBatch(p) ==
  /\ PublisherIdle(p)
  /\ \E S \in SUBSET Unpublished(p) :
       /\ S # {}
       /\ OldestFirst(p, S)
       /\ batch' = [batch EXCEPT ![p] = S]
  /\ UNCHANGED <<outboxVars, confirmed, brokerVars, databaseVars, audited,
                 faults, repairs>>

NextInBatch(p, m) ==
  /\ m \in batch[p]
  /\ \A n \in batch[p] : seq[m] <= seq[n]
  /\ \A n \in confirmed : Owner[n] # p

HasRoom(m)  == \E s \in Slot : copy[m][s] = "free"
FreeSlot(m) == CHOOSE s \in Slot : copy[m][s] = "free"

Enqueue(m) ==
  /\ HasRoom(m)
  /\ copy' = [copy EXCEPT ![m][FreeSlot(m)] = "ready"]
  /\ UNCHANGED returns

\* basic_publish returned: the broker has the message on disk and said so.
Publish(p, m) ==
  /\ NextInBatch(p, m)
  /\ Enqueue(m)
  /\ batch' = [batch EXCEPT ![p] = @ \ {m}]
  /\ confirmed' = confirmed \cup {m}
  /\ UNCHANGED <<outboxVars, databaseVars, audited, faults, repairs>>

\* The rows of a pass that a failed publish leaves to be tried in that pass.
LeftAfterFailure_Continue(p, m) == batch[p] \ {m}
LeftAfterFailure(p, m) == {}

\* It raised: the broker refused the message, or took it and the confirm was
\* lost.  The row stays unpublished and the loop breaks out of the batch.
PublishFails(p, m) ==
  /\ Fault
  /\ NextInBatch(p, m)
  /\ batch' = [batch EXCEPT ![p] = LeftAfterFailure(p, m)]
  /\ \/ Enqueue(m)
     \/ UNCHANGED brokerVars
  /\ UNCHANGED <<outboxVars, confirmed, databaseVars, audited, repairs>>

\* UPDATE ... WHERE seq: touches nothing if the row is gone.
MarkPublished(m) ==
  /\ m \in confirmed
  /\ confirmed' = confirmed \ {m}
  /\ published' = IF HasRow(m) THEN published \cup {m} ELSE published
  /\ UNCHANGED <<accepted, seq, nextSeq, outdated, batch, brokerVars,
                 databaseVars, audited, faults, repairs>>

\* Only the outbox file survives a producer.
ProducerCrash(p) ==
  /\ Fault
  /\ ~PublisherIdle(p)
  /\ batch' = [batch EXCEPT ![p] = {}]
  /\ confirmed' = {m \in confirmed : Owner[m] # p}
  /\ UNCHANGED <<outboxVars, brokerVars, databaseVars, audited, repairs>>

(***************************************************************************)
(* The consumer: one thread, one delivery at a time, ack after the commit. *)
(***************************************************************************)

HeldCopies   == {c \in Record \X Slot : copy[c[1]][c[2]] \in Held}
ConsumerIdle == \A m \in Record, s \in Slot : copy[m][s] \notin Verdict

Deliver(m, s) ==
  /\ copy[m][s] = "ready"
  /\ Cardinality(HeldCopies) < Prefetch
  /\ copy' = [copy EXCEPT ![m][s] = "unacked"]
  /\ UNCHANGED <<outboxVars, publishVars, returns, databaseVars, audited,
                 faults, repairs>>

Handling(m, s) == ConsumerIdle /\ copy[m][s] = "unacked"
Conclude(m, s, verdict) == copy' = [copy EXCEPT ![m][s] = verdict]

AlreadyStored_Unchecked(m) == FALSE
AlreadyStored(m) == m \in ingest_log

\* apply_patch raises Poison when no row has the record's id.
RowMissing(m) == Needs[m] # {} /\ Needs[m] \cap ingest_log = {}

\* wipe_user_data raises when a committed collected envelope is not available.
WipeRefused(m) ==
  m \in Wipe /\ \E c \in Collected \cap ingest_log : ~HasRow(c)

\* The id and the business write, in one transaction.  Rows the enricher
\* accepted before a wipe's transaction began are outdated from here on; rows
\* accepted while it ran carry a later accepted_at.
Commit(m) ==
  /\ ingest_log' = ingest_log \cup {m}
  /\ applied' = [applied EXCEPT ![m] = @ + 1]
  /\ IF m \in Wipe
     THEN \E young \in SUBSET Rows("enricher") :
            outdated' = outdated \cup (Rows("enricher") \ young)
     ELSE UNCHANGED outdated

Store(m, s) ==
  /\ Handling(m, s)
  /\ m \notin Malformed /\ ~AlreadyStored(m)
  /\ ~RowMissing(m) /\ ~WipeRefused(m)
  /\ Commit(m)
  /\ Conclude(m, s, "ack")
  /\ UNCHANGED <<accepted, seq, nextSeq, published, publishVars, returns,
                 audited, faults, repairs>>

Duplicate(m, s) ==
  /\ Handling(m, s)
  /\ m \notin Malformed /\ AlreadyStored(m)
  /\ Conclude(m, s, "ack")
  /\ UNCHANGED <<outboxVars, publishVars, returns, databaseVars, audited,
                 faults, repairs>>

Poison(m, s) ==
  /\ Handling(m, s)
  /\ m \in Malformed \/ (~AlreadyStored(m) /\ RowMissing(m))
  /\ Conclude(m, s, "reject")
  /\ UNCHANGED <<outboxVars, publishVars, returns, databaseVars, audited,
                 faults, repairs>>

\* What the loop does with a delivery whose handler raised.
AfterError_Ack == "ack"
AfterError == "requeue"

\* Postgres failed before the commit, or the wipe found its source incomplete.
HandlerFails(m, s) ==
  /\ Handling(m, s)
  /\ m \notin Malformed
  /\ IF WipeRefused(m) THEN UNCHANGED faults ELSE Fault
  /\ Conclude(m, s, AfterError)
  /\ UNCHANGED <<outboxVars, publishVars, returns, databaseVars, audited,
                 repairs>>

\* The connection broke during COMMIT: committed, but the handler raised.
CommitUnacknowledged(m, s) ==
  /\ Fault
  /\ Handling(m, s)
  /\ m \notin Malformed /\ ~AlreadyStored(m)
  /\ ~RowMissing(m) /\ ~WipeRefused(m)
  /\ Commit(m)
  /\ Conclude(m, s, AfterError)
  /\ UNCHANGED <<accepted, seq, nextSeq, published, publishVars, returns,
                 audited, repairs>>

Exhausted_OffByOne(m, s) == returns[m][s] > DeliveryLimit
Exhausted(m, s)   == returns[m][s] >= DeliveryLimit
TakenBack(m, s)   == IF Exhausted(m, s) THEN "dead" ELSE "ready"
ReturnCount(m, s) == IF Exhausted(m, s) THEN 0 ELSE returns[m][s] + 1

Settled_PoisonRequeued(m, s) ==
  CASE copy[m][s] = "ack"     -> "free"
    [] copy[m][s] = "reject"  -> "ready"
    [] copy[m][s] = "requeue" -> TakenBack(m, s)

\* The verdict reaches the broker.
Settled(m, s) ==
  CASE copy[m][s] = "ack"     -> "free"
    [] copy[m][s] = "reject"  -> "dead"
    [] copy[m][s] = "requeue" -> TakenBack(m, s)

Settle(m, s) ==
  /\ copy[m][s] \in Verdict
  /\ copy' = [copy EXCEPT ![m][s] = Settled(m, s)]
  /\ returns' = [returns EXCEPT ![m][s] =
                   IF copy[m][s] = "requeue" THEN ReturnCount(m, s) ELSE 0]
  /\ UNCHANGED <<outboxVars, publishVars, databaseVars, audited, faults,
                 repairs>>

\* The consumer dies or its connection drops: every held copy goes back,
\* whatever the handler had concluded about it.
ConsumerDrop ==
  /\ Fault
  /\ HeldCopies # {}
  /\ copy' = [m \in Record |-> [s \in Slot |->
                IF copy[m][s] \in Held THEN TakenBack(m, s) ELSE copy[m][s]]]
  /\ returns' = [m \in Record |-> [s \in Slot |->
                   IF copy[m][s] \in Held THEN ReturnCount(m, s)
                   ELSE returns[m][s]]]
  /\ UNCHANGED <<outboxVars, publishVars, databaseVars, audited, repairs>>

(***************************************************************************)
(* What a stored wipe erases in the outboxes.                              *)
(***************************************************************************)

BlocksPurge_Published(w) == {n \in Rows("api") : seq[n] <= seq[w]}

\* The rows purge_published_through refuses to erase along with row w.
BlocksPurge(w) == {n \in Unpublished("api") : seq[n] <= seq[w]}

\* The api's cleanup thread, for one published and stored wipe.
PurgeWipe(w) ==
  /\ w \in Wipe \cap published \cap ingest_log
  /\ BlocksPurge(w) = {}
  /\ LET gone == {n \in Rows("api") : seq[n] <= seq[w]}
     IN  /\ seq' = [n \in Record |-> IF n \in gone THEN 0 ELSE seq[n]]
         /\ published' = published \ gone
  /\ UNCHANGED <<accepted, nextSeq, outdated, publishVars, brokerVars,
                 databaseVars, audited, faults, repairs>>

\* The enricher, at the head of its loop: DELETE WHERE accepted_at <= the wipe's
\* processed_at, published or not.
PurgeOutdated ==
  /\ PublisherIdle("enricher")
  /\ outdated # {}
  /\ seq' = [m \in Record |-> IF m \in outdated THEN 0 ELSE seq[m]]
  /\ published' = published \ outdated
  /\ outdated' = {}
  /\ UNCHANGED <<accepted, nextSeq, publishVars, brokerVars, databaseVars,
                 audited, faults, repairs>>

(***************************************************************************)
(* Operator tools.                                                         *)
(***************************************************************************)

RedrivePublish_AckFirst(m, s) ==
  /\ Repair
  /\ copy[m][s] = "dead"
  /\ copy' = [copy EXCEPT ![m][s] = "free"]
  /\ audited' = audited \cup {m}
  /\ UNCHANGED <<outboxVars, publishVars, returns, databaseVars, faults>>

\* redrive: publish the dead letter again, confirmed ...
RedrivePublish(m, s) ==
  /\ Repair
  /\ copy[m][s] = "dead" /\ HasRoom(m)
  /\ copy' = [copy EXCEPT ![m][s] = "redriven", ![m][FreeSlot(m)] = "ready"]
  /\ UNCHANGED <<outboxVars, publishVars, returns, databaseVars, audited,
                 faults>>

\* ... and only then ack it in aow.dlq.
RedriveAck(m, s) ==
  /\ copy[m][s] = "redriven"
  /\ copy' = [copy EXCEPT ![m][s] = "free"]
  /\ UNCHANGED <<outboxVars, publishVars, returns, databaseVars, audited,
                 faults, repairs>>

RedriveCrash(m, s) ==
  /\ Fault
  /\ copy[m][s] = "redriven"
  /\ copy' = [copy EXCEPT ![m][s] = "dead"]
  /\ UNCHANGED <<outboxVars, publishVars, returns, databaseVars, audited,
                 repairs>>

\* reconcile reads a published row and does not find its id in ingest_log ...
ReconcileAudit(m) ==
  /\ Repair
  /\ m \in published \ ingest_log
  /\ audited' = audited \cup {m}
  /\ UNCHANGED <<outboxVars, publishVars, brokerVars, databaseVars, faults>>

\* ... and republishes the original bytes, whatever was committed meanwhile.
ReconcileReplay(m) ==
  /\ m \in audited
  /\ Enqueue(m)
  /\ audited' = audited \ {m}
  /\ UNCHANGED <<outboxVars, publishVars, databaseVars, faults, repairs>>

--------------------------------------------------------------------------

PublisherStep(p) ==
  \/ SelectBatch(p)
  \/ \E m \in Record : Publish(p, m) \/ (Owner[m] = p /\ MarkPublished(m))

ConsumerStep ==
  \E m \in Record, s \in Slot :
    \/ Deliver(m, s) \/ Store(m, s) \/ Duplicate(m, s) \/ Poison(m, s)
    \/ HandlerFails(m, s) \/ CommitUnacknowledged(m, s) \/ Settle(m, s)

PurgeStep == PurgeOutdated \/ \E w \in Wipe : PurgeWipe(w)

OperatorStep ==
  \E m \in Record :
    \/ \E s \in Slot :
         RedrivePublish(m, s) \/ RedriveAck(m, s) \/ RedriveCrash(m, s)
    \/ ReconcileAudit(m) \/ ReconcileReplay(m)

Next ==
  \/ \E m \in Record : Accept(m)
  \/ \E p \in Producer : PublisherStep(p) \/ ProducerCrash(p)
  \/ \E p \in Producer, m \in Record : PublishFails(p, m)
  \/ ConsumerStep
  \/ ConsumerDrop
  \/ PurgeStep
  \/ OperatorStep

Spec == Init /\ [][Next]_vars

\* The publisher, consumer and purge loops run forever; faults are bounded, so
\* from some point on the broker and the database answer.  Nobody owes an
\* Accept, and no operator is assumed to act.
Fairness ==
  /\ \A p \in Producer : WF_vars(PublisherStep(p))
  /\ WF_vars(ConsumerStep)
  /\ WF_vars(PurgeStep)

FairSpec == Spec /\ Fairness

(***************************************************************************)
(* Properties.                                                             *)
(***************************************************************************)

TypeOK ==
  /\ accepted \subseteq Record /\ published \subseteq Record
  /\ confirmed \subseteq Record /\ outdated \subseteq Record
  /\ audited \subseteq Record /\ ingest_log \subseteq Record
  /\ seq \in [Record -> Nat]
  /\ nextSeq \in [Producer -> Nat \ {0}]
  /\ batch \in [Producer -> SUBSET Record]
  /\ copy \in [Record -> [Slot -> CopyState]]
  /\ returns \in [Record -> [Slot -> 0..DeliveryLimit]]
  /\ applied \in [Record -> Nat]
  /\ faults \in 0..MaxFaults /\ repairs \in 0..MaxRepairs

\* An accepted record is stored, still owed by its outbox, somewhere in the
\* broker, or model output that a stored wipe allowed the enricher to drop:
\* README.md "none of them lose it", across crashes, lost confirms, redeliveries,
\* redrives, replays and both purges.
NothingLost ==
  \A m \in accepted :
    \/ m \in ingest_log
    \/ m \in Unpublished(Owner[m])
    \/ InBroker(m)
    \/ Owner[m] = "enricher" /\ Wipe \cap ingest_log # {}

\* A record's business write is committed once if its id is in ingest_log and
\* never otherwise, however many copies the broker delivers.
AppliedOnce ==
  \A m \in Record : applied[m] = IF m \in ingest_log THEN 1 ELSE 0

\* Whatever the publisher and the consumer were doing, the cleanup thread never
\* meets "cannot purge an unpublished outbox envelope": the rows published are
\* the oldest ones.
PurgeNeverRefused ==
  \A w \in Wipe \cap published : BlocksPurge(w) = {}

\* The promise's view of a record: stored wins over any copy still around, and a
\* record its outbox or the queue still works on is not quarantined yet.
Fate(m) ==
  IF m \in ingest_log THEN "stored"
  ELSE IF m \notin accepted THEN "unknown"
  ELSE IF m \in Unpublished(Owner[m]) \/ IsLive(m) THEN "accepted"
  ELSE IF InBroker(m) THEN "quarantined"
  ELSE "discarded"

\* The write path implements the promise: stored is final, a quarantined record
\* leaves aow.dlq only by redrive or replay, and nothing is dropped except model
\* output after a wipe.
Promise == INSTANCE DeliveryPromise WITH
  Discardable <- {m \in Record : Owner[m] = "enricher"},
  fate <- [m \in Record |-> Fate(m)]
Implements == Promise!Spec

\* Every accepted record reaches a terminal state once faults stop.
Settles ==
  \A m \in Record :
    (m \in accepted) ~> (Fate(m) \in {"stored", "quarantined", "discarded"})

\* A stored wipe eventually erases the api's own copy of what users sent.
WipeErasesOutbox ==
  \A w \in Wipe : (w \in ingest_log) ~> ~HasRow(w)

==========================================================================
