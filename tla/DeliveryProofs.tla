-------------------------- MODULE DeliveryProofs --------------------------
(***************************************************************************)
(* The invariants of Delivery, for every set of records, every delivery    *)
(* limit and any number of faults and repairs.                             *)
(*                                                                         *)
(* NothingLost is not inductive: that a record out of its outbox is in the *)
(* broker needs the broker never to let go of it before it is stored       *)
(* (BrokerInv); that a purge erases only published rows needs publishing   *)
(* to keep the order of acceptance (OrderInv), which needs the keys of the *)
(* outbox rows to be distinct and below the next key (RowInv).             *)
(***************************************************************************)
EXTENDS Delivery, TLAPS

\* Some copy of m that is neither gone nor about to be acked by a redrive.
Carried(m) == \E s \in Slot : copy[m][s] \notin {"free", "redriven"}

\* Something outside the outbox and Postgres remembers m.
Traced(m) == m \in confirmed \cup published \cup audited \/ InBroker(m)

\* An outbox row belongs to an accepted record and its key is its own.
RowInv ==
  /\ \A m \in Record : HasRow(m) =>
       m \in accepted /\ seq[m] < nextSeq[Owner[m]]
  /\ \A m \in published : HasRow(m)
  /\ \A m \in Record, n \in Record :
       Owner[m] = Owner[n] /\ HasRow(m) /\ seq[m] = seq[n] => m = n
  /\ outdated \subseteq Rows("enricher")
  /\ outdated # {} => Wipe \cap ingest_log # {}

\* Published, then confirmed, then selected, then the rest: the order of
\* acceptance.
OrderInv ==
  /\ \A p \in Producer : batch[p] \subseteq Unpublished(p) \ confirmed
  /\ \A m \in confirmed : m \in Unpublished(Owner[m])
  /\ \A p \in Producer : \A m \in batch[p], n \in Unpublished(p) :
       seq[n] < seq[m] => n \in batch[p] \cup confirmed
  /\ \A m \in confirmed : \A n \in Unpublished(Owner[m]) :
       n # m => seq[m] < seq[n]
  /\ \A m \in published : \A n \in Unpublished(Owner[m]) : seq[m] < seq[n]

\* Only accepted records are traced, an acked delivery is of a stored record,
\* and whatever is traced is stored or carried.
BrokerInv ==
  /\ \A m \in Record \ accepted : m \notin ingest_log /\ ~Traced(m)
  /\ \A m \in Record, s \in Slot : copy[m][s] = "ack" => m \in ingest_log
  /\ \A m \in Record : Traced(m) => m \in ingest_log \/ Carried(m)

IInv == TypeOK /\ RowInv /\ OrderInv /\ BrokerInv /\ NothingLost /\ AppliedOnce

--------------------------------------------------------------------------

LEMMA FreeSlotIsFree ==
  ASSUME NEW m, HasRoom(m)
  PROVE  FreeSlot(m) \in Slot /\ copy[m][FreeSlot(m)] = "free"
BY DEF HasRoom, FreeSlot

\* Writing one copy's state.
LEMMA CopyType ==
  ASSUME copy \in [Record -> [Slot -> CopyState]],
         NEW m \in Record, NEW s \in Slot, NEW v \in CopyState,
         copy' = [copy EXCEPT ![m][s] = v]
  PROVE  copy' \in [Record -> [Slot -> CopyState]]
OBVIOUS

LEMMA EnqueueType ==
  ASSUME copy \in [Record -> [Slot -> CopyState]], NEW m \in Record, Enqueue(m)
  PROVE  copy' \in [Record -> [Slot -> CopyState]] /\ UNCHANGED returns
<1>1. FreeSlot(m) \in Slot
  BY FreeSlotIsFree DEF Enqueue
<1>2. "ready" \in CopyState
  BY DEF CopyState, Live
<1> QED
  BY <1>1, <1>2 DEF Enqueue

LEMMA ReturnType ==
  ASSUME returns \in [Record -> [Slot -> 0..DeliveryLimit]],
         NEW m \in Record, NEW s \in Slot
  PROVE  /\ ReturnCount(m, s) \in 0..DeliveryLimit
         /\ TakenBack(m, s) \in CopyState
BY BoundAssumption DEF ReturnCount, TakenBack, Exhausted, CopyState, Live

LEMMA TypeInit == Init => TypeOK
BY BoundAssumption DEF Init, TypeOK, CopyState

LEMMA TypeStep == TypeOK /\ [Next]_vars => TypeOK'
<1> SUFFICES ASSUME TypeOK, [Next]_vars PROVE TypeOK'
  OBVIOUS
<1> USE RecordAssumption, BoundAssumption
<1>0. CASE UNCHANGED vars
  BY <1>0 DEF TypeOK, vars, outboxVars, publishVars, brokerVars, databaseVars
<1>1. ASSUME NEW m \in Record, Accept(m) PROVE TypeOK'
  <2>1. Owner[m] \in Producer
    OBVIOUS
  <2>2. /\ nextSeq[Owner[m]] \in Nat
        /\ nextSeq[Owner[m]] + 1 \in Nat \ {0}
    <3>1. nextSeq \in [Producer -> Nat \ {0}]
      BY DEF TypeOK
    <3>2. nextSeq[Owner[m]] \in Nat \ {0}
      BY <2>1, <3>1
    <3> QED
      BY <3>2
  <2>3. seq' \in [Record -> Nat]
    BY <1>1, <2>2 DEF TypeOK, Accept
  <2>4. nextSeq' \in [Producer -> Nat \ {0}]
    BY <1>1, <2>1, <2>2 DEF TypeOK, Accept
  <2> QED
    BY <1>1, <2>3, <2>4 DEF TypeOK, Accept, publishVars, brokerVars, databaseVars
<1>2. ASSUME NEW p \in Producer, SelectBatch(p) PROVE TypeOK'
  BY <1>2 DEF TypeOK, SelectBatch, Unpublished, Rows, outboxVars, brokerVars,
              databaseVars
<1>3. ASSUME NEW p \in Producer, NEW m \in Record, Publish(p, m) PROVE TypeOK'
  <2>1. copy' \in [Record -> [Slot -> CopyState]] /\ UNCHANGED returns
    BY <1>3, EnqueueType DEF Publish, TypeOK
  <2> QED
    BY <1>3, <2>1 DEF TypeOK, Publish, outboxVars, databaseVars
<1>4. ASSUME NEW p \in Producer, NEW m \in Record, PublishFails(p, m)
      PROVE  TypeOK'
  <2>1. copy' \in [Record -> [Slot -> CopyState]] /\ UNCHANGED returns
    BY <1>4, EnqueueType DEF PublishFails, TypeOK, brokerVars
  <2> QED
    BY <1>4, <2>1 DEF TypeOK, PublishFails, LeftAfterFailure, Fault, outboxVars,
                      databaseVars
<1>5. ASSUME NEW m \in Record, MarkPublished(m) PROVE TypeOK'
  BY <1>5 DEF TypeOK, MarkPublished, brokerVars, databaseVars
<1>6. ASSUME NEW p \in Producer, ProducerCrash(p) PROVE TypeOK'
  BY <1>6 DEF TypeOK, ProducerCrash, Fault, outboxVars, brokerVars, databaseVars
<1>7. ASSUME NEW m \in Record, NEW s \in Slot,
             \/ Deliver(m, s) \/ Duplicate(m, s) \/ Poison(m, s)
             \/ HandlerFails(m, s)
      PROVE  TypeOK'
  <2>1. copy' \in [Record -> [Slot -> CopyState]]
    <3>1. {"unacked", "ack", "reject", "requeue"} \subseteq CopyState
      BY DEF CopyState, Live, Held, Verdict
    <3> QED
      BY <1>7, <3>1, CopyType DEF TypeOK, Deliver, Duplicate, Poison,
                                  HandlerFails, Conclude, AfterError
  <2>2. faults' \in 0..MaxFaults
    BY <1>7 DEF TypeOK, Deliver, Duplicate, Poison, HandlerFails, Fault
  <2>3. UNCHANGED <<outboxVars, publishVars, returns, databaseVars, audited,
                    repairs>>
    BY <1>7 DEF Deliver, Duplicate, Poison, HandlerFails
  <2> QED
    BY <2>1, <2>2, <2>3 DEF TypeOK, outboxVars, publishVars, databaseVars
<1>8. ASSUME NEW m \in Record, NEW s \in Slot,
             Store(m, s) \/ CommitUnacknowledged(m, s)
      PROVE  TypeOK'
  <2>1. outdated' \subseteq Record
    BY <1>8 DEF TypeOK, Store, CommitUnacknowledged, Commit, Rows
  <2>2. copy' \in [Record -> [Slot -> CopyState]]
    <3>1. {"ack", "requeue"} \subseteq CopyState
      BY DEF CopyState, Live, Held, Verdict
    <3> QED
      BY <1>8, <3>1, CopyType DEF TypeOK, Store, CommitUnacknowledged, Conclude,
                                  AfterError
  <2>3. Commit(m)
    BY <1>8 DEF Store, CommitUnacknowledged
  <2>4. ingest_log' \subseteq Record /\ applied' \in [Record -> Nat]
    BY <2>3 DEF Commit, TypeOK
  <2>5. faults' \in 0..MaxFaults
    BY <1>8 DEF TypeOK, Store, CommitUnacknowledged, Fault
  <2>6. UNCHANGED <<accepted, seq, nextSeq, published, publishVars, returns,
                    audited, repairs>>
    BY <1>8 DEF Store, CommitUnacknowledged
  <2> QED
    BY <2>1, <2>2, <2>4, <2>5, <2>6 DEF TypeOK, publishVars
<1>9. ASSUME NEW m \in Record, NEW s \in Slot, Settle(m, s) PROVE TypeOK'
  <2>1. Settled(m, s) \in CopyState
    BY <1>9, ReturnType DEF Settle, Settled, Verdict, CopyState, Live, TypeOK
  <2>2. (IF copy[m][s] = "requeue" THEN ReturnCount(m, s) ELSE 0)
          \in 0..DeliveryLimit
    BY ReturnType DEF TypeOK
  <2> QED
    BY <1>9, <2>1, <2>2 DEF Settle, TypeOK, outboxVars, publishVars, databaseVars
<1>10. CASE ConsumerDrop
  <2>1. copy' \in [Record -> [Slot -> CopyState]]
    BY <1>10, ReturnType DEF ConsumerDrop, TypeOK
  <2>2. returns' \in [Record -> [Slot -> 0..DeliveryLimit]]
    BY <1>10, ReturnType DEF ConsumerDrop, TypeOK
  <2> QED
    BY <1>10, <2>1, <2>2 DEF ConsumerDrop, TypeOK, Fault, outboxVars,
                             publishVars, databaseVars
<1>11. ASSUME NEW w \in Wipe, PurgeWipe(w) PROVE TypeOK'
  BY <1>11 DEF PurgeWipe, TypeOK, publishVars, brokerVars, databaseVars
<1>12. CASE PurgeOutdated
  BY <1>12 DEF PurgeOutdated, TypeOK, publishVars, brokerVars, databaseVars
<1>13. ASSUME NEW m \in Record, NEW s \in Slot, RedrivePublish(m, s)
       PROVE  TypeOK'
  <2>1. FreeSlot(m) \in Slot
    BY <1>13, FreeSlotIsFree DEF RedrivePublish
  <2>2. copy' \in [Record -> [Slot -> CopyState]]
    BY <1>13, <2>1 DEF RedrivePublish, TypeOK, CopyState, Live
  <2> QED
    BY <1>13, <2>2 DEF RedrivePublish, Repair, TypeOK, outboxVars, publishVars,
                       databaseVars
<1>14. ASSUME NEW m \in Record, NEW s \in Slot,
              RedriveAck(m, s) \/ RedriveCrash(m, s)
       PROVE  TypeOK'
  <2>1. {"free", "dead"} \subseteq CopyState
    BY DEF CopyState
  <2>2. copy' \in [Record -> [Slot -> CopyState]]
    BY <1>14, <2>1, CopyType DEF RedriveAck, RedriveCrash, TypeOK
  <2>3. faults' \in 0..MaxFaults
    BY <1>14 DEF RedriveAck, RedriveCrash, Fault, TypeOK
  <2>4. UNCHANGED <<outboxVars, publishVars, returns, databaseVars, audited,
                    repairs>>
    BY <1>14 DEF RedriveAck, RedriveCrash
  <2> QED
    BY <2>2, <2>3, <2>4 DEF TypeOK, outboxVars, publishVars, databaseVars
<1>15. ASSUME NEW m \in Record, ReconcileAudit(m) PROVE TypeOK'
  BY <1>15 DEF ReconcileAudit, Repair, TypeOK, outboxVars, publishVars,
               brokerVars, databaseVars
<1>16. ASSUME NEW m \in Record, ReconcileReplay(m) PROVE TypeOK'
  <2>1. copy' \in [Record -> [Slot -> CopyState]] /\ UNCHANGED returns
    BY <1>16, EnqueueType DEF ReconcileReplay, TypeOK
  <2> QED
    BY <1>16, <2>1 DEF TypeOK, ReconcileReplay, outboxVars, publishVars,
                       databaseVars
<1> QED
  BY <1>0, <1>1, <1>2, <1>3, <1>4, <1>5, <1>6, <1>7, <1>8, <1>9, <1>10, <1>11,
     <1>12, <1>13, <1>14, <1>15, <1>16
  DEF Next, PublisherStep, ConsumerStep, PurgeStep, OperatorStep

\* The variables keep their types: in particular the broker never counts a copy
\* back more than DeliveryLimit times (x-delivery-limit of aow.ingest).
THEOREM TypeCorrect == Spec => []TypeOK
<1> QED
  BY TypeInit, TypeStep, PTL DEF Spec

--------------------------------------------------------------------------

\* The only steps that touch the outbox rows or ingest_log.
LEMMA RowSteps ==
  ASSUME [Next]_vars
  PROVE  \/ UNCHANGED <<outboxVars, ingest_log>>
         \/ \E m \in Record : Accept(m)
         \/ \E m \in Record : MarkPublished(m)
         \/ \E m \in Record, s \in Slot :
               Store(m, s) \/ CommitUnacknowledged(m, s)
         \/ \E w \in Wipe : PurgeWipe(w)
         \/ PurgeOutdated
<1>1. ASSUME NEW p \in Producer, SelectBatch(p) \/ ProducerCrash(p)
      PROVE  UNCHANGED <<outboxVars, ingest_log>>
  BY <1>1 DEF SelectBatch, ProducerCrash, databaseVars
<1>2. ASSUME NEW p \in Producer, NEW m \in Record,
             Publish(p, m) \/ PublishFails(p, m)
      PROVE  UNCHANGED <<outboxVars, ingest_log>>
  BY <1>2 DEF Publish, PublishFails, databaseVars
<1>3. ASSUME NEW m \in Record, NEW s \in Slot,
             \/ Deliver(m, s) \/ Duplicate(m, s) \/ Poison(m, s)
             \/ HandlerFails(m, s) \/ Settle(m, s)
             \/ RedrivePublish(m, s) \/ RedriveAck(m, s) \/ RedriveCrash(m, s)
      PROVE  UNCHANGED <<outboxVars, ingest_log>>
  BY <1>3 DEF Deliver, Duplicate, Poison, HandlerFails, Settle, RedrivePublish,
              RedriveAck, RedriveCrash, databaseVars
<1>4. ASSUME NEW m \in Record, ReconcileAudit(m) \/ ReconcileReplay(m)
      PROVE  UNCHANGED <<outboxVars, ingest_log>>
  BY <1>4 DEF ReconcileAudit, ReconcileReplay, databaseVars
<1>5. ASSUME ConsumerDrop PROVE UNCHANGED <<outboxVars, ingest_log>>
  BY <1>5 DEF ConsumerDrop, databaseVars
<1>6. ASSUME UNCHANGED vars PROVE UNCHANGED <<outboxVars, ingest_log>>
  BY <1>6 DEF vars, databaseVars
<1> QED
  BY <1>1, <1>2, <1>3, <1>4, <1>5, <1>6
  DEF Next, PublisherStep, ConsumerStep, PurgeStep, OperatorStep

LEMMA RowStep == TypeOK /\ RowInv /\ [Next]_vars => RowInv'
<1> SUFFICES ASSUME TypeOK, RowInv, [Next]_vars PROVE RowInv'
  OBVIOUS
<1>t. /\ seq \in [Record -> Nat] /\ nextSeq \in [Producer -> Nat \ {0}]
      /\ Owner \in [Record -> Producer]
      /\ published \subseteq Record /\ Wipe \subseteq Record
      /\ \A w \in Wipe : Owner[w] = "api"
  BY RecordAssumption DEF TypeOK
<1>1. CASE UNCHANGED <<outboxVars, ingest_log>>
  BY <1>1 DEF RowInv, outboxVars, HasRow, Rows
<1>2. ASSUME NEW m \in Record, Accept(m) PROVE RowInv'
  <2>1. ~HasRow(m) /\ m \notin published
    BY <1>2 DEF Accept, RowInv
  <2>2. /\ nextSeq[Owner[m]] \in Nat \ {0}
        /\ nextSeq' = [nextSeq EXCEPT ![Owner[m]] = @ + 1]
        /\ seq' = [seq EXCEPT ![m] = nextSeq[Owner[m]]]
        /\ accepted' = accepted \cup {m}
        /\ UNCHANGED <<published, outdated, ingest_log>>
    BY <1>2, <1>t DEF Accept, databaseVars
  <2>3. \A n \in Record : n # m => seq'[n] = seq[n]
    BY <2>2, <1>t
  <2>4. seq'[m] = nextSeq[Owner[m]] /\ seq'[m] # 0
    BY <2>2, <1>t
  <2>5. \A n \in Record : nextSeq[Owner[n]] <= nextSeq'[Owner[n]]
    BY <2>2, <1>t
  <2>6. \A n \in Record : HasRow(n)' =>
          n \in accepted' /\ seq'[n] < nextSeq'[Owner[n]]
    <3>1. seq'[m] < nextSeq'[Owner[m]]
      BY <2>2, <2>4, <1>t
    <3>2. ASSUME NEW n \in Record, n # m, HasRow(n)'
          PROVE  n \in accepted' /\ seq'[n] < nextSeq'[Owner[n]]
      <4>1. HasRow(n) /\ seq'[n] = seq[n]
        BY <2>3, <3>2 DEF HasRow
      <4>2. n \in accepted /\ seq[n] < nextSeq[Owner[n]]
        BY <4>1 DEF RowInv
      <4>3. seq[n] \in Nat /\ nextSeq[Owner[n]] \in Nat /\ nextSeq'[Owner[n]] \in Nat
        BY <1>t, <2>2
      <4> QED
        BY <4>1, <4>2, <4>3, <2>2, <2>5
    <3> QED
      BY <3>1, <3>2, <2>2
  <2>7. ASSUME NEW a \in Record, NEW b \in Record,
               Owner[a] = Owner[b], HasRow(a)', seq'[a] = seq'[b]
        PROVE  a = b
    <3>1. ASSUME NEW n \in Record, n # m, Owner[n] = Owner[m]
          PROVE  seq'[n] # seq'[m]
      <4>1. CASE HasRow(n)
        <5>1. seq[n] < nextSeq[Owner[m]]
          BY <3>1, <4>1 DEF RowInv
        <5> QED
          BY <5>1, <2>3, <2>4, <3>1, <1>t
      <4>2. CASE ~HasRow(n)
        BY <4>2, <2>3, <2>4, <3>1 DEF HasRow
      <4> QED
        BY <4>1, <4>2
    <3>2. CASE a # m /\ b # m
      BY <3>2, <2>3, <2>7 DEF RowInv, HasRow
    <3> QED
      BY <3>1, <3>2, <2>7
  <2>8. \A n \in published' : HasRow(n)'
    BY <2>1, <2>2, <2>3, <1>t DEF RowInv, HasRow
  <2>9. outdated' \subseteq Rows("enricher")'
    BY <2>1, <2>2, <2>3, <2>4 DEF RowInv, Rows, HasRow
  <2> QED
    BY <2>2, <2>6, <2>7, <2>8, <2>9 DEF RowInv
<1>3. ASSUME NEW m \in Record, MarkPublished(m) PROVE RowInv'
  BY <1>3 DEF MarkPublished, RowInv, HasRow, Rows, databaseVars
<1>4. ASSUME NEW m \in Record, NEW s \in Slot,
             Store(m, s) \/ CommitUnacknowledged(m, s)
      PROVE  RowInv'
  <2>1. Commit(m) /\ UNCHANGED <<accepted, seq, nextSeq, published>>
    BY <1>4 DEF Store, CommitUnacknowledged
  <2>2. outdated' \subseteq Rows("enricher")'
    BY <2>1 DEF Commit, RowInv, Rows, HasRow
  <2>3. outdated' # {} => Wipe \cap ingest_log' # {}
    BY <2>1 DEF Commit, RowInv
  <2> QED
    BY <2>1, <2>2, <2>3 DEF RowInv, HasRow
<1>5. ASSUME NEW w \in Wipe, PurgeWipe(w) PROVE RowInv'
  <2> DEFINE gone == {n \in Rows("api") : seq[n] <= seq[w]}
  <2>1. /\ seq' = [n \in Record |-> IF n \in gone THEN 0 ELSE seq[n]]
        /\ published' = published \ gone
        /\ UNCHANGED <<accepted, nextSeq, outdated, ingest_log>>
    BY <1>5 DEF PurgeWipe, databaseVars
  <2>2. \A n \in Record : HasRow(n)' <=> HasRow(n) /\ n \notin gone
    BY <2>1 DEF HasRow
  <2>3. \A n \in Record : HasRow(n)' => seq'[n] = seq[n]
    BY <2>1, <2>2
  <2>4. \A n \in gone : Owner[n] = "api"
    BY DEF Rows
  <2> HIDE DEF gone
  <2>5. /\ \A n \in Record : HasRow(n)' =>
             n \in accepted' /\ seq'[n] < nextSeq'[Owner[n]]
        /\ \A n \in published' : HasRow(n)'
    BY <2>1, <2>2, <2>3, <1>t DEF RowInv
  <2>6. ASSUME NEW a \in Record, NEW b \in Record,
               Owner[a] = Owner[b], HasRow(a)', seq'[a] = seq'[b]
        PROVE  a = b
    <3>1. HasRow(b)'
      BY <2>6 DEF HasRow
    <3> QED
      BY <2>2, <2>3, <2>6, <3>1 DEF RowInv
  <2>7. outdated' \subseteq Rows("enricher")'
    BY <2>1, <2>2, <2>4 DEF RowInv, Rows
  <2> QED
    BY <2>1, <2>5, <2>6, <2>7 DEF RowInv
<1>6. CASE PurgeOutdated
  <2>1. /\ seq' = [n \in Record |-> IF n \in outdated THEN 0 ELSE seq[n]]
        /\ published' = published \ outdated /\ outdated' = {}
        /\ UNCHANGED <<accepted, nextSeq, ingest_log>>
    BY <1>6 DEF PurgeOutdated, databaseVars
  <2>2. \A n \in Record : HasRow(n)' <=> HasRow(n) /\ n \notin outdated
    BY <2>1 DEF HasRow
  <2>3. \A n \in Record : HasRow(n)' => seq'[n] = seq[n]
    BY <2>1, <2>2
  <2>5. /\ \A n \in Record : HasRow(n)' =>
             n \in accepted' /\ seq'[n] < nextSeq'[Owner[n]]
        /\ \A n \in published' : HasRow(n)'
    BY <2>1, <2>2, <2>3, <1>t DEF RowInv
  <2>6. ASSUME NEW a \in Record, NEW b \in Record,
               Owner[a] = Owner[b], HasRow(a)', seq'[a] = seq'[b]
        PROVE  a = b
    <3>1. HasRow(b)'
      BY <2>6 DEF HasRow
    <3> QED
      BY <2>2, <2>3, <2>6, <3>1 DEF RowInv
  <2> QED
    BY <2>1, <2>5, <2>6 DEF RowInv
<1> QED
  BY RowSteps, <1>1, <1>2, <1>3, <1>4, <1>5, <1>6

--------------------------------------------------------------------------

\* The only steps that touch the publishers' progress through the outboxes.
LEMMA OrderSteps ==
  ASSUME [Next]_vars
  PROVE  \/ UNCHANGED <<seq, published, publishVars>>
         \/ \E m \in Record : Accept(m) \/ MarkPublished(m)
         \/ \E p \in Producer : SelectBatch(p) \/ ProducerCrash(p)
         \/ \E p \in Producer, m \in Record : Publish(p, m) \/ PublishFails(p, m)
         \/ \E w \in Wipe : PurgeWipe(w)
         \/ PurgeOutdated
<1>1. ASSUME NEW m \in Record, NEW s \in Slot,
             \/ Deliver(m, s) \/ Duplicate(m, s) \/ Poison(m, s)
             \/ HandlerFails(m, s) \/ Settle(m, s)
             \/ RedrivePublish(m, s) \/ RedriveAck(m, s) \/ RedriveCrash(m, s)
      PROVE  UNCHANGED <<seq, published, publishVars>>
  BY <1>1 DEF Deliver, Duplicate, Poison, HandlerFails, Settle, RedrivePublish,
              RedriveAck, RedriveCrash, outboxVars
<1>2. ASSUME NEW m \in Record, NEW s \in Slot,
             Store(m, s) \/ CommitUnacknowledged(m, s)
      PROVE  UNCHANGED <<seq, published, publishVars>>
  BY <1>2 DEF Store, CommitUnacknowledged
<1>3. ASSUME NEW m \in Record, ReconcileAudit(m) \/ ReconcileReplay(m)
      PROVE  UNCHANGED <<seq, published, publishVars>>
  BY <1>3 DEF ReconcileAudit, ReconcileReplay, outboxVars
<1>4. ASSUME ConsumerDrop PROVE UNCHANGED <<seq, published, publishVars>>
  BY <1>4 DEF ConsumerDrop, outboxVars
<1>5. ASSUME UNCHANGED vars PROVE UNCHANGED <<seq, published, publishVars>>
  BY <1>5 DEF vars, outboxVars
<1> QED
  BY <1>1, <1>2, <1>3, <1>4, <1>5
  DEF Next, PublisherStep, ConsumerStep, PurgeStep, OperatorStep

\* Losing unpublished or published rows that no publisher holds keeps the order.
LEMMA OrderKept ==
  ASSUME TypeOK, OrderInv, NEW gone \in SUBSET Record,
         \A m \in gone : m \notin confirmed /\ \A p \in Producer : m \notin batch[p],
         seq' = [n \in Record |-> IF n \in gone THEN 0 ELSE seq[n]],
         published' = published \ gone,
         UNCHANGED publishVars
  PROVE  OrderInv'
<1>t. seq \in [Record -> Nat] /\ published \subseteq Record
      /\ confirmed \subseteq Record /\ batch \in [Producer -> SUBSET Record]
  BY DEF TypeOK
<1>1. \A n \in Record : HasRow(n)' <=> HasRow(n) /\ n \notin gone
  BY DEF HasRow
<1>2. \A n \in Record : n \notin gone => seq'[n] = seq[n]
  OBVIOUS
<1>3. \A p : Unpublished(p)' = Unpublished(p) \ gone
  BY <1>1 DEF Unpublished, Rows
<1>4. UNCHANGED <<batch, confirmed>>
  BY DEF publishVars
<1>5. \A p \in Producer : batch[p] \subseteq Record
  BY <1>t
<1>6. \A p : Unpublished(p) \subseteq Record
  BY DEF Unpublished, Rows
<1>7. (\A p \in Producer : batch[p] \subseteq Unpublished(p) \ confirmed)'
  BY <1>3, <1>4 DEF OrderInv
<1>8. (\A m \in confirmed : m \in Unpublished(Owner[m]))'
  BY <1>3, <1>4 DEF OrderInv
<1>9. (\A p \in Producer : \A m \in batch[p], n \in Unpublished(p) :
         seq[n] < seq[m] => n \in batch[p] \cup confirmed)'
  BY <1>2, <1>3, <1>4, <1>5, <1>6 DEF OrderInv
<1>10. (\A m \in confirmed : \A n \in Unpublished(Owner[m]) :
          n # m => seq[m] < seq[n])'
  BY <1>2, <1>3, <1>4, <1>6, <1>t DEF OrderInv
<1>11. (\A m \in published : \A n \in Unpublished(Owner[m]) : seq[m] < seq[n])'
  BY <1>2, <1>3, <1>4, <1>6, <1>t DEF OrderInv
<1> QED
  BY <1>7, <1>8, <1>9, <1>10, <1>11 DEF OrderInv

LEMMA OrderStep == TypeOK /\ RowInv /\ OrderInv /\ [Next]_vars => OrderInv'
<1> SUFFICES ASSUME TypeOK, RowInv, OrderInv, [Next]_vars PROVE OrderInv'
  OBVIOUS
<1>t. /\ seq \in [Record -> Nat] /\ nextSeq \in [Producer -> Nat \ {0}]
      /\ Owner \in [Record -> Producer]
      /\ published \subseteq Record /\ confirmed \subseteq Record
      /\ batch \in [Producer -> SUBSET Record]
      /\ Wipe \subseteq Record /\ \A w \in Wipe : Owner[w] = "api"
  BY RecordAssumption DEF TypeOK
<1>u. \A p : Unpublished(p) \subseteq Record
  BY DEF Unpublished, Rows
<1>1. CASE UNCHANGED <<seq, published, publishVars>>
  BY <1>1 DEF OrderInv, publishVars, Unpublished, Rows, HasRow
<1>2. ASSUME NEW m \in Record, Accept(m) PROVE OrderInv'
  <2>1. ~HasRow(m)
    BY <1>2 DEF Accept, RowInv
  <2>2. m \notin confirmed /\ m \notin published /\ \A p \in Producer : m \notin batch[p]
    BY <2>1 DEF OrderInv, RowInv, Unpublished, Rows
  <2>3. /\ nextSeq[Owner[m]] \in Nat \ {0}
        /\ seq' = [seq EXCEPT ![m] = nextSeq[Owner[m]]]
        /\ UNCHANGED <<published, batch, confirmed>>
    BY <1>2, <1>t DEF Accept, publishVars
  <2>4. \A n \in Record : n # m => seq'[n] = seq[n] /\ (HasRow(n)' <=> HasRow(n))
    BY <2>3, <1>t DEF HasRow
  <2>5. seq'[m] = nextSeq[Owner[m]]
    BY <2>3, <1>t
  <2>6. \A p, n : n # m => (n \in Unpublished(p)' <=> n \in Unpublished(p))
    BY <2>3, <2>4 DEF Unpublished, Rows
  <2>7. \A n \in Record : Owner[n] = Owner[m] /\ HasRow(n) => seq'[n] < seq'[m]
    BY <2>1, <2>4, <2>5 DEF RowInv
  <2>8. \A p \in Producer : m \in Unpublished(p)' => Owner[m] = p
    BY DEF Unpublished, Rows
  <2>9. (\A p \in Producer : batch[p] \subseteq Unpublished(p) \ confirmed)'
    BY <2>2, <2>3, <2>6 DEF OrderInv
  <2>10. (\A n \in confirmed : n \in Unpublished(Owner[n]))'
    BY <2>2, <2>3, <2>6 DEF OrderInv
  <2>11. \A p \in Producer : \A a \in batch[p] :
           /\ a # m /\ a \in Record /\ Owner[a] = p /\ HasRow(a)
           /\ seq'[a] = seq[a]
    BY <2>2, <2>4 DEF OrderInv, Unpublished, Rows
  <2>12. ASSUME NEW p \in Producer, NEW a \in batch'[p], NEW b \in Unpublished(p)',
                seq'[b] < seq'[a]
         PROVE  b \in batch'[p] \cup confirmed'
    <3>1. a \in batch[p]
      BY <2>3
    <3>2. b # m
      <4>1. seq'[a] \in Nat /\ seq'[m] \in Nat
        BY <2>3, <2>5, <2>11, <3>1, <1>t
      <4> QED
        BY <2>7, <2>8, <2>11, <2>12, <3>1, <4>1
    <3>3. b \in Unpublished(p) /\ seq'[b] = seq[b] /\ seq'[a] = seq[a]
      BY <2>4, <2>6, <2>11, <3>1, <3>2, <1>u
    <3> QED
      BY <2>3, <2>12, <3>1, <3>3 DEF OrderInv
  <2>13. ASSUME NEW a \in confirmed', NEW b \in Unpublished(Owner[a])', b # a
         PROVE  seq'[a] < seq'[b]
    <3>1. a \in confirmed /\ a # m /\ a \in Record /\ HasRow(a)
      BY <2>2, <2>3, <1>t DEF OrderInv, Unpublished, Rows
    <3>2. CASE b = m
      BY <2>7, <2>8, <3>1, <3>2, <1>t
    <3>3. CASE b # m
      BY <2>4, <2>6, <2>13, <3>1, <3>3, <1>u DEF OrderInv
    <3> QED
      BY <3>2, <3>3
  <2>14. ASSUME NEW a \in published', NEW b \in Unpublished(Owner[a])'
         PROVE  seq'[a] < seq'[b]
    <3>1. a \in published /\ a # m /\ a \in Record /\ HasRow(a)
      BY <2>2, <2>3, <1>t DEF RowInv
    <3>2. CASE b = m
      BY <2>7, <2>8, <3>1, <3>2, <1>t
    <3>3. CASE b # m
      BY <2>4, <2>6, <2>14, <3>1, <3>3, <1>u DEF OrderInv
    <3> QED
      BY <3>2, <3>3
  <2> QED
    BY <2>9, <2>10, <2>12, <2>13, <2>14 DEF OrderInv
<1>3. ASSUME NEW m \in Record, MarkPublished(m) PROVE OrderInv'
  <2>1. HasRow(m) /\ m \in confirmed /\ m \in Unpublished(Owner[m])
    BY <1>3 DEF MarkPublished, OrderInv, Unpublished, Rows
  <2>2. /\ confirmed' = confirmed \ {m} /\ published' = published \cup {m}
        /\ UNCHANGED <<seq, batch>>
    BY <1>3, <2>1 DEF MarkPublished
  <2>3. \A p : Unpublished(p)' = Unpublished(p) \ {m}
    BY <2>2 DEF Unpublished, Rows, HasRow
  <2>4. \A p \in Producer : m \notin batch[p]
    BY <2>1 DEF OrderInv
  <2>5. (\A p \in Producer : batch[p] \subseteq Unpublished(p) \ confirmed)'
    BY <2>2, <2>3, <2>4 DEF OrderInv
  <2>6. (\A n \in confirmed : n \in Unpublished(Owner[n]))'
    BY <2>2, <2>3 DEF OrderInv
  <2>7. (\A p \in Producer : \A a \in batch[p], n \in Unpublished(p) :
           seq[n] < seq[a] => n \in batch[p] \cup confirmed)'
    BY <2>2, <2>3 DEF OrderInv
  <2>8. (\A a \in confirmed : \A n \in Unpublished(Owner[a]) :
           n # a => seq[a] < seq[n])'
    BY <2>2, <2>3 DEF OrderInv
  <2>9. (\A a \in published : \A n \in Unpublished(Owner[a]) : seq[a] < seq[n])'
    BY <2>1, <2>2, <2>3 DEF OrderInv
  <2> QED
    BY <2>5, <2>6, <2>7, <2>8, <2>9 DEF OrderInv
<1>4. ASSUME NEW p \in Producer, SelectBatch(p) PROVE OrderInv'
  <2>1. PICK S \in SUBSET Unpublished(p) :
          OldestFirst(p, S) /\ batch' = [batch EXCEPT ![p] = S]
    BY <1>4 DEF SelectBatch
  <2>2. PublisherIdle(p) /\ UNCHANGED <<seq, published, confirmed>>
    BY <1>4 DEF SelectBatch, outboxVars
  <2>3. \A q : Unpublished(q)' = Unpublished(q)
    BY <2>2 DEF Unpublished, Rows, HasRow
  <2>4. batch'[p] = S /\ \A q \in Producer : q # p => batch'[q] = batch[q]
    BY <2>1, <1>t
  <2>5. S \cap confirmed = {}
    BY <2>2 DEF PublisherIdle, Unpublished, Rows
  <2>6. (\A q \in Producer : batch[q] \subseteq Unpublished(q) \ confirmed)'
    BY <2>2, <2>3, <2>4, <2>5 DEF OrderInv
  <2>7. (\A q \in Producer : \A a \in batch[q], n \in Unpublished(q) :
           seq[n] < seq[a] => n \in batch[q] \cup confirmed)'
    BY <2>1, <2>2, <2>3, <2>4 DEF OrderInv, OldestFirst
  <2> QED
    BY <2>2, <2>3, <2>6, <2>7 DEF OrderInv
<1>5. ASSUME NEW p \in Producer, ProducerCrash(p) PROVE OrderInv'
  <2>1. /\ batch' = [batch EXCEPT ![p] = {}]
        /\ confirmed' = {m \in confirmed : Owner[m] # p}
        /\ UNCHANGED <<seq, published>>
    BY <1>5 DEF ProducerCrash, outboxVars
  <2>2. \A q : Unpublished(q)' = Unpublished(q)
    BY <2>1 DEF Unpublished, Rows, HasRow
  <2>3. batch'[p] = {} /\ \A q \in Producer : q # p => batch'[q] = batch[q]
    BY <2>1, <1>t
  <2>4. \A q, n : n \in Unpublished(q) => Owner[n] = q
    BY DEF Unpublished, Rows
  <2>5. (\A q \in Producer : batch[q] \subseteq Unpublished(q) \ confirmed)'
    BY <2>1, <2>2, <2>3 DEF OrderInv
  <2>6. (\A q \in Producer : \A a \in batch[q], n \in Unpublished(q) :
           seq[n] < seq[a] => n \in batch[q] \cup confirmed)'
    BY <2>1, <2>2, <2>3, <2>4 DEF OrderInv
  <2> QED
    BY <2>1, <2>2, <2>5, <2>6 DEF OrderInv
<1>6. ASSUME NEW p \in Producer, NEW m \in Record, Publish(p, m) PROVE OrderInv'
  <2>1. /\ NextInBatch(p, m)
        /\ batch' = [batch EXCEPT ![p] = @ \ {m}]
        /\ confirmed' = confirmed \cup {m}
        /\ UNCHANGED <<seq, published>>
    BY <1>6 DEF Publish, outboxVars
  <2>2. \A q : Unpublished(q)' = Unpublished(q)
    BY <2>1 DEF Unpublished, Rows, HasRow
  <2>3. /\ batch'[p] = batch[p] \ {m}
        /\ \A q \in Producer : q # p => batch'[q] = batch[q]
    BY <2>1, <1>t
  <2>4. m \in Unpublished(p) /\ Owner[m] = p /\ HasRow(m)
    BY <2>1 DEF NextInBatch, OrderInv, Unpublished, Rows
  <2>5. \A q \in Producer : q # p => m \notin batch[q]
    BY <2>4 DEF OrderInv, Unpublished, Rows
  <2>6. (\A q \in Producer : batch[q] \subseteq Unpublished(q) \ confirmed)'
    BY <2>1, <2>2, <2>3, <2>5 DEF OrderInv
  <2>7. (\A q \in Producer : \A a \in batch[q], n \in Unpublished(q) :
           seq[n] < seq[a] => n \in batch[q] \cup confirmed)'
    BY <2>1, <2>2, <2>3 DEF OrderInv
  <2>8. ASSUME NEW n \in Unpublished(p), n # m PROVE seq[m] < seq[n]
    <3>1. n \in Record /\ Owner[n] = p /\ seq[n] \in Nat /\ seq[m] \in Nat
      BY <2>8, <1>t DEF Unpublished, Rows
    <3>2. n \notin confirmed
      BY <2>1, <3>1 DEF NextInBatch
    <3>3. seq[n] # seq[m]
      BY <2>4, <2>8, <3>1 DEF RowInv
    <3>4. CASE seq[n] < seq[m]
      <4>1. n \in batch[p]
        BY <2>1, <2>8, <3>2, <3>4 DEF OrderInv, NextInBatch
      <4> QED
        BY <2>1, <3>1, <3>4, <4>1 DEF NextInBatch
    <3> QED
      BY <3>1, <3>3, <3>4
  <2>9. (\A a \in confirmed : \A n \in Unpublished(Owner[a]) :
           n # a => seq[a] < seq[n])'
    BY <2>1, <2>2, <2>4, <2>8 DEF OrderInv
  <2>10. (\A n \in confirmed : n \in Unpublished(Owner[n]))'
    BY <2>1, <2>2, <2>4 DEF OrderInv
  <2> QED
    BY <2>1, <2>2, <2>6, <2>7, <2>9, <2>10 DEF OrderInv
<1>7. ASSUME NEW p \in Producer, NEW m \in Record, PublishFails(p, m)
      PROVE  OrderInv'
  <2>1. /\ batch' = [batch EXCEPT ![p] = {}]
        /\ UNCHANGED <<seq, published, confirmed>>
    BY <1>7 DEF PublishFails, LeftAfterFailure, outboxVars
  <2>2. \A q : Unpublished(q)' = Unpublished(q)
    BY <2>1 DEF Unpublished, Rows, HasRow
  <2>3. batch'[p] = {} /\ \A q \in Producer : q # p => batch'[q] = batch[q]
    BY <2>1, <1>t
  <2>4. (\A q \in Producer : batch[q] \subseteq Unpublished(q) \ confirmed)'
    BY <2>1, <2>2, <2>3 DEF OrderInv
  <2>5. (\A q \in Producer : \A a \in batch[q], n \in Unpublished(q) :
           seq[n] < seq[a] => n \in batch[q] \cup confirmed)'
    BY <2>1, <2>2, <2>3 DEF OrderInv
  <2> QED
    BY <2>1, <2>2, <2>4, <2>5 DEF OrderInv
<1>8. ASSUME NEW w \in Wipe, PurgeWipe(w) PROVE OrderInv'
  <2> DEFINE gone == {n \in Rows("api") : seq[n] <= seq[w]}
  <2>1. /\ seq' = [n \in Record |-> IF n \in gone THEN 0 ELSE seq[n]]
        /\ published' = published \ gone /\ UNCHANGED publishVars
    BY <1>8 DEF PurgeWipe
  <2>2. gone \subseteq published
    BY <1>8 DEF PurgeWipe, BlocksPurge, Unpublished
  <2>3. gone \in SUBSET Record
    BY DEF Rows
  <2>4. \A m \in gone : m \notin confirmed /\ \A p \in Producer : m \notin batch[p]
    BY <2>2 DEF OrderInv, Unpublished
  <2> QED
    BY <2>1, <2>3, <2>4, OrderKept
<1>9. CASE PurgeOutdated
  <2>1. /\ PublisherIdle("enricher")
        /\ seq' = [n \in Record |-> IF n \in outdated THEN 0 ELSE seq[n]]
        /\ published' = published \ outdated /\ UNCHANGED publishVars
    BY <1>9 DEF PurgeOutdated
  <2>2. \A m \in outdated : Owner[m] = "enricher" /\ m \in Record
    BY DEF RowInv, Rows
  <2>3. \A m \in outdated : m \notin confirmed /\ \A p \in Producer : m \notin batch[p]
    BY <2>1, <2>2 DEF OrderInv, PublisherIdle, Unpublished, Rows
  <2> QED
    BY <2>1, <2>2, <2>3, OrderKept
<1> QED
  BY OrderSteps, <1>1, <1>2, <1>3, <1>4, <1>5, <1>6, <1>7, <1>8, <1>9

--------------------------------------------------------------------------

LEMMA CarriedInBroker ==
  ASSUME NEW m, Carried(m)
  PROVE  InBroker(m)
BY DEF Carried, InBroker

LEMMA EnqueueCarries ==
  ASSUME copy \in [Record -> [Slot -> CopyState]], NEW m \in Record, Enqueue(m)
  PROVE  /\ Carried(m)'
         /\ \A n \in Record : Carried(n) => Carried(n)'
         /\ \A n \in Record : InBroker(n)' => InBroker(n) \/ n = m
         /\ \A n \in Record, s \in Slot : copy'[n][s] = "ack" => copy[n][s] = "ack"
<1>1. PICK s \in Slot :
        copy[m][s] = "free" /\ copy' = [copy EXCEPT ![m][s] = "ready"]
  BY FreeSlotIsFree DEF Enqueue
<1>2. copy'[m][s] = "ready"
  BY <1>1
<1>3. \A n \in Record, t \in Slot :
        <<n, t>> # <<m, s>> => copy'[n][t] = copy[n][t]
  BY <1>1
<1> QED
  BY <1>1, <1>2, <1>3 DEF Carried, InBroker

\* One copy moves from state old to state new and no record changes otherwise.
Moved(m, s, new) == copy' = [copy EXCEPT ![m][s] = new]

LEMMA MoveCarries ==
  ASSUME copy \in [Record -> [Slot -> CopyState]], NEW m \in Record,
         NEW s \in Slot, NEW new, Moved(m, s, new), copy[m][s] # "free"
  PROVE  /\ \A n \in Record : InBroker(n)' => InBroker(n)
         /\ \A n \in Record : n # m /\ Carried(n) => Carried(n)'
         /\ new \notin {"free", "redriven"} => Carried(m)'
         /\ copy[m][s] = "redriven" /\ Carried(m) => Carried(m)'
         /\ new # "ack" => \A n \in Record, t \in Slot :
              copy'[n][t] = "ack" => copy[n][t] = "ack"
<1>1. copy'[m][s] = new
  BY DEF Moved
<1>2. \A n \in Record, t \in Slot :
        <<n, t>> # <<m, s>> => copy'[n][t] = copy[n][t]
  BY DEF Moved
<1> QED
  BY <1>1, <1>2 DEF Carried, InBroker

\* How a step may change what is traced, carried and stored.
Kept(m) ==
  /\ m \in accepted => m \in accepted'
  /\ m \in ingest_log => m \in ingest_log'
  /\ m \in ingest_log' => m \in ingest_log \/ InBroker(m)
  /\ Traced(m)' => Traced(m) \/ (m \in accepted /\ Carried(m)')
  /\ Carried(m) => m \in ingest_log' \/ Carried(m)'
  /\ \A s \in Slot : copy'[m][s] = "ack" =>
       copy[m][s] = "ack" \/ m \in ingest_log'

LEMMA KeptStep ==
  ASSUME TypeOK, RowInv, OrderInv, BrokerInv, [Next]_vars
  PROVE  \A n \in Record : Kept(n)
<1>t. /\ copy \in [Record -> [Slot -> CopyState]]
      /\ batch \in [Producer -> SUBSET Record]
      /\ audited \subseteq Record /\ published \subseteq Record
      /\ confirmed \subseteq Record
  BY DEF TypeOK
<1>0. CASE UNCHANGED vars
  BY <1>0 DEF Kept, Traced, Carried, InBroker, vars, outboxVars, publishVars,
              brokerVars, databaseVars
<1>1. ASSUME NEW m \in Record, Accept(m) PROVE \A n \in Record : Kept(n)
  BY <1>1 DEF Accept, Kept, Traced, Carried, InBroker, publishVars, brokerVars,
              databaseVars
<1>2. ASSUME NEW p \in Producer, SelectBatch(p) \/ ProducerCrash(p)
      PROVE  \A n \in Record : Kept(n)
  BY <1>2 DEF SelectBatch, ProducerCrash, Kept, Traced, Carried, InBroker,
              outboxVars, brokerVars, databaseVars
<1>3. ASSUME NEW p \in Producer, NEW m \in Record,
             Publish(p, m) \/ PublishFails(p, m)
      PROVE  \A n \in Record : Kept(n)
  <2>1. m \in accepted
    BY <1>3 DEF Publish, PublishFails, NextInBatch, OrderInv, Unpublished, Rows,
                RowInv
  <2>2. /\ UNCHANGED <<accepted, published, audited, ingest_log>>
        /\ confirmed' \subseteq confirmed \cup {m}
        /\ Enqueue(m) \/ (UNCHANGED copy /\ UNCHANGED confirmed)
    BY <1>3 DEF Publish, PublishFails, outboxVars, databaseVars, brokerVars
  <2>3. CASE Enqueue(m)
    BY <2>1, <2>2, <2>3, <1>t, EnqueueCarries DEF Kept, Traced
  <2>4. CASE UNCHANGED copy /\ UNCHANGED confirmed
    BY <2>2, <2>4 DEF Kept, Traced, Carried, InBroker
  <2> QED
    BY <2>2, <2>3, <2>4
<1>4. ASSUME NEW m \in Record, MarkPublished(m)
      PROVE  \A n \in Record : Kept(n)
  BY <1>4 DEF MarkPublished, Kept, Traced, Carried, InBroker, brokerVars,
              databaseVars
<1>5. ASSUME NEW m \in Record, NEW s \in Slot,
             \/ Deliver(m, s) \/ Duplicate(m, s) \/ Poison(m, s)
             \/ HandlerFails(m, s)
      PROVE  \A n \in Record : Kept(n)
  <2>1. PICK new \in {"unacked", "ack", "reject", "requeue"} :
          Moved(m, s, new) /\ (new = "ack" => m \in ingest_log)
    BY <1>5 DEF Deliver, Duplicate, Poison, HandlerFails, Conclude, AfterError,
                Moved, AlreadyStored
  <2>2. /\ copy[m][s] # "free"
        /\ UNCHANGED <<accepted, published, confirmed, audited, ingest_log>>
    BY <1>5 DEF Deliver, Duplicate, Poison, HandlerFails, Handling, outboxVars,
                publishVars, databaseVars
  <2>3. \A n \in Record : (Traced(n)' => Traced(n)) /\ (Carried(n) => Carried(n)')
    BY <2>1, <2>2, <1>t, MoveCarries DEF Traced
  <2>4. \A n \in Record, t \in Slot :
          copy'[n][t] = "ack" => copy[n][t] = "ack" \/ n \in ingest_log
    BY <2>1, <1>t DEF Moved
  <2> QED
    BY <2>2, <2>3, <2>4 DEF Kept
<1>6. ASSUME NEW m \in Record, NEW s \in Slot,
             Store(m, s) \/ CommitUnacknowledged(m, s)
      PROVE  \A n \in Record : Kept(n)
  <2>1. PICK new \in {"ack", "requeue"} : Moved(m, s, new)
    BY <1>6 DEF Store, CommitUnacknowledged, Conclude, AfterError, Moved
  <2>2. /\ copy[m][s] # "free" /\ InBroker(m)
        /\ UNCHANGED <<accepted, published, confirmed, audited>>
        /\ ingest_log' = ingest_log \cup {m}
    BY <1>6 DEF Store, CommitUnacknowledged, Handling, Commit, publishVars,
                InBroker
  <2>3. \A n \in Record : (Traced(n)' => Traced(n)) /\ (Carried(n) => Carried(n)')
    BY <2>1, <2>2, <1>t, MoveCarries DEF Traced
  <2>4. \A n \in Record, t \in Slot :
          copy'[n][t] = "ack" => copy[n][t] = "ack" \/ n \in ingest_log'
    BY <2>1, <2>2, <1>t DEF Moved
  <2> QED
    BY <2>2, <2>3, <2>4 DEF Kept
<1>7. ASSUME NEW m \in Record, NEW s \in Slot, Settle(m, s)
      PROVE  \A n \in Record : Kept(n)
  <2>1. /\ copy[m][s] \in Verdict /\ Moved(m, s, Settled(m, s))
        /\ UNCHANGED <<accepted, published, confirmed, audited, ingest_log>>
    BY <1>7 DEF Settle, Moved, outboxVars, publishVars, databaseVars
  <2>2. Settled(m, s) \in {"free", "dead", "ready"}
    BY <2>1 DEF Settled, TakenBack, Verdict
  <2>3. copy[m][s] = "ack" \/ Settled(m, s) \in {"dead", "ready"}
    BY <2>1 DEF Settled, TakenBack, Verdict
  <2>4. copy[m][s] = "ack" => m \in ingest_log'
    BY <2>1 DEF BrokerInv
  <2>5. \A n \in Record :
          (Traced(n)' => Traced(n)) /\ (Carried(n) => n \in ingest_log' \/ Carried(n)')
    <3>1. copy[m][s] # "free"
      BY <2>1 DEF Verdict
    <3> QED
      BY <2>1, <2>3, <2>4, <3>1, <1>t, MoveCarries DEF Traced
  <2>6. \A n \in Record, t \in Slot : copy'[n][t] = "ack" => copy[n][t] = "ack"
    BY <2>1, <2>2, <1>t DEF Moved
  <2> QED
    BY <2>1, <2>5, <2>6 DEF Kept
<1>8. CASE ConsumerDrop
  <2>1. UNCHANGED <<accepted, published, confirmed, audited, ingest_log>>
    BY <1>8 DEF ConsumerDrop, outboxVars, publishVars, databaseVars
  <2>2. \A n \in Record, t \in Slot :
          \/ copy'[n][t] = copy[n][t]
          \/ copy[n][t] \in Held /\ copy'[n][t] \in {"dead", "ready"}
    BY <1>8 DEF ConsumerDrop, TakenBack
  <2>3. "free" \notin Held
    BY DEF Held, Verdict
  <2> QED
    BY <2>1, <2>2, <2>3 DEF Kept, Traced, Carried, InBroker
<1>9. ASSUME NEW w \in Wipe, PurgeWipe(w) PROVE \A n \in Record : Kept(n)
  BY <1>9 DEF PurgeWipe, Kept, Traced, Carried, InBroker, publishVars,
              brokerVars, databaseVars
<1>10. CASE PurgeOutdated
  BY <1>10 DEF PurgeOutdated, Kept, Traced, Carried, InBroker, publishVars,
               brokerVars, databaseVars
<1>11. ASSUME NEW m \in Record, NEW s \in Slot, RedrivePublish(m, s)
       PROVE  \A n \in Record : Kept(n)
  <2>1. PICK t \in Slot :
          copy[m][t] = "free" /\ copy' = [copy EXCEPT ![m][s] = "redriven",
                                                       ![m][t] = "ready"]
    BY <1>11, FreeSlotIsFree DEF RedrivePublish
  <2>2. /\ copy[m][s] = "dead"
        /\ UNCHANGED <<accepted, published, confirmed, audited, ingest_log>>
    BY <1>11 DEF RedrivePublish, outboxVars, publishVars, databaseVars
  <2>3. s # t /\ copy'[m][t] = "ready" /\ copy'[m][s] = "redriven"
    BY <2>1, <2>2, <1>t
  <2>4. \A n \in Record, u \in Slot :
          <<n, u>> # <<m, s>> /\ <<n, u>> # <<m, t>> => copy'[n][u] = copy[n][u]
    BY <2>1, <1>t
  <2> QED
    BY <2>2, <2>3, <2>4 DEF Kept, Traced, Carried, InBroker
<1>12. ASSUME NEW m \in Record, NEW s \in Slot,
              RedriveAck(m, s) \/ RedriveCrash(m, s)
       PROVE  \A n \in Record : Kept(n)
  <2>1. PICK new \in {"free", "dead"} : Moved(m, s, new)
    BY <1>12 DEF RedriveAck, RedriveCrash, Moved
  <2>2. /\ copy[m][s] = "redriven"
        /\ UNCHANGED <<accepted, published, confirmed, audited, ingest_log>>
    BY <1>12 DEF RedriveAck, RedriveCrash, outboxVars, publishVars, databaseVars
  <2>3. /\ \A n \in Record : InBroker(n)' => InBroker(n)
        /\ \A n \in Record : Carried(n) => Carried(n)'
        /\ \A n \in Record, t \in Slot :
             copy'[n][t] = "ack" => copy[n][t] = "ack"
    BY <2>1, <2>2, <1>t, MoveCarries
  <2> QED
    BY <2>2, <2>3 DEF Kept, Traced
<1>13. ASSUME NEW m \in Record, ReconcileAudit(m)
       PROVE  \A n \in Record : Kept(n)
  BY <1>13 DEF ReconcileAudit, Kept, Traced, Carried, InBroker, outboxVars,
               publishVars, brokerVars, databaseVars
<1>14. ASSUME NEW m \in Record, ReconcileReplay(m)
       PROVE  \A n \in Record : Kept(n)
  <2>1. /\ m \in audited /\ Enqueue(m) /\ audited' = audited \ {m}
        /\ UNCHANGED <<accepted, published, confirmed, ingest_log>>
    BY <1>14 DEF ReconcileReplay, outboxVars, publishVars, databaseVars
  <2>2. Traced(m)
    BY <2>1 DEF Traced
  <2> QED
    BY <2>1, <2>2, <1>t, EnqueueCarries DEF Kept, Traced
<1> QED
  BY <1>0, <1>1, <1>2, <1>3, <1>4, <1>5, <1>6, <1>7, <1>8, <1>9, <1>10, <1>11,
     <1>12, <1>13, <1>14
  DEF Next, PublisherStep, ConsumerStep, PurgeStep, OperatorStep

LEMMA BrokerStep ==
  TypeOK /\ RowInv /\ OrderInv /\ BrokerInv /\ [Next]_vars => BrokerInv'
<1> SUFFICES ASSUME TypeOK, RowInv, OrderInv, BrokerInv, [Next]_vars
             PROVE  BrokerInv'
  OBVIOUS
<1>1. \A n \in Record : Kept(n)
  BY KeptStep
<1>2. \A n \in Record \ accepted' : n \notin ingest_log' /\ ~Traced(n)'
  BY <1>1 DEF Kept, BrokerInv, Traced
<1>3. \A n \in Record, s \in Slot : copy'[n][s] = "ack" => n \in ingest_log'
  BY <1>1 DEF Kept, BrokerInv
<1>4. \A n \in Record : Traced(n)' => n \in ingest_log' \/ Carried(n)'
  BY <1>1 DEF Kept, BrokerInv
<1> QED
  BY <1>2, <1>3, <1>4 DEF BrokerInv

--------------------------------------------------------------------------

\* What a step may do to a row still waiting to be published: the broker
\* confirmed it, or a stored wipe outdated it.
LEMMA OwedStep ==
  ASSUME TypeOK, RowInv, OrderInv, [Next]_vars,
         NEW m \in Record, m \in Unpublished(Owner[m])
  PROVE  \/ m \in Unpublished(Owner[m])'
         \/ m \in confirmed
         \/ Owner[m] = "enricher" /\ Wipe \cap ingest_log # {}
<1>t. /\ seq \in [Record -> Nat] /\ nextSeq \in [Producer -> Nat \ {0}]
      /\ Owner \in [Record -> Producer]
  BY RecordAssumption DEF TypeOK
<1>1. HasRow(m) /\ m \notin published
  BY DEF Unpublished, Rows
<1>2. CASE UNCHANGED <<outboxVars, ingest_log>>
  BY <1>1, <1>2 DEF outboxVars, Unpublished, Rows, HasRow
<1>3. ASSUME NEW n \in Record, Accept(n) PROVE m \in Unpublished(Owner[m])'
  BY <1>1, <1>3, <1>t DEF Accept, Unpublished, Rows, HasRow
<1>4. ASSUME NEW n \in Record, MarkPublished(n)
      PROVE  m \in Unpublished(Owner[m])' \/ m \in confirmed
  BY <1>1, <1>4 DEF MarkPublished, Unpublished, Rows, HasRow
<1>5. ASSUME NEW n \in Record, NEW s \in Slot,
             Store(n, s) \/ CommitUnacknowledged(n, s)
      PROVE  m \in Unpublished(Owner[m])'
  BY <1>1, <1>5 DEF Store, CommitUnacknowledged, Unpublished, Rows, HasRow
<1>6. ASSUME NEW w \in Wipe, PurgeWipe(w) PROVE m \in Unpublished(Owner[m])'
  <2> DEFINE gone == {n \in Rows("api") : seq[n] <= seq[w]}
  <2>1. m \notin gone
    BY <1>1, <1>6 DEF PurgeWipe, BlocksPurge, Unpublished, Rows
  <2>2. /\ seq' = [n \in Record |-> IF n \in gone THEN 0 ELSE seq[n]]
        /\ published' = published \ gone
    BY <1>6 DEF PurgeWipe
  <2> HIDE DEF gone
  <2> QED
    BY <1>1, <2>1, <2>2 DEF Unpublished, Rows, HasRow
<1>7. ASSUME PurgeOutdated
      PROVE  \/ m \in Unpublished(Owner[m])'
             \/ Owner[m] = "enricher" /\ Wipe \cap ingest_log # {}
  BY <1>1, <1>7 DEF PurgeOutdated, RowInv, Unpublished, Rows, HasRow
<1> QED
  BY RowSteps, <1>2, <1>3, <1>4, <1>5, <1>6, <1>7

LEMMA LostStep ==
  TypeOK /\ RowInv /\ OrderInv /\ BrokerInv /\ NothingLost /\ [Next]_vars
    => NothingLost'
<1> SUFFICES ASSUME TypeOK, RowInv, OrderInv, BrokerInv, NothingLost, [Next]_vars,
                    NEW m \in accepted'
             PROVE  \/ m \in ingest_log'
                    \/ m \in Unpublished(Owner[m])'
                    \/ InBroker(m)'
                    \/ Owner[m] = "enricher" /\ Wipe \cap ingest_log' # {}
  BY DEF NothingLost
<1>1. \A n \in Record : Kept(n)
  BY KeptStep
<1>2. m \in Record
  BY TypeStep DEF TypeOK
<1>3. Carried(m) => m \in ingest_log' \/ InBroker(m)'
  BY <1>1, <1>2 DEF Kept, Carried, InBroker
<1>4. ASSUME m \in accepted PROVE
        \/ m \in ingest_log' \/ m \in Unpublished(Owner[m])' \/ InBroker(m)'
        \/ Owner[m] = "enricher" /\ Wipe \cap ingest_log' # {}
  <2>1. ingest_log \subseteq ingest_log'
    BY <1>1 DEF Kept, TypeOK
  <2>2. CASE m \in ingest_log
    BY <2>1, <2>2
  <2>3. CASE InBroker(m)
    BY <1>1, <1>2, <1>3, <2>1, <2>3 DEF BrokerInv, Traced
  <2>4. CASE m \in Unpublished(Owner[m])
    BY <1>2, <1>3, <2>1, <2>4, OwedStep DEF BrokerInv, Traced
  <2>5. CASE Owner[m] = "enricher" /\ Wipe \cap ingest_log # {}
    BY <2>1, <2>5
  <2> QED
    BY <1>4, <2>2, <2>3, <2>4, <2>5 DEF NothingLost
<1>5. ASSUME m \notin accepted PROVE m \in Unpublished(Owner[m])'
  <2>1. Accept(m)
    BY <1>5, RowSteps DEF outboxVars, Accept, MarkPublished, Store,
       CommitUnacknowledged, PurgeWipe, PurgeOutdated
  <2>2. m \notin published
    BY <1>5, <1>2 DEF BrokerInv, Traced
  <2>3. seq'[m] # 0
    BY <1>2, <2>1, RecordAssumption DEF Accept, TypeOK
  <2> QED
    BY <1>2, <2>1, <2>2, <2>3 DEF Accept, Unpublished, Rows, HasRow
<1> QED
  BY <1>4, <1>5

LEMMA OnceStep == TypeOK /\ AppliedOnce /\ [Next]_vars => AppliedOnce'
<1> SUFFICES ASSUME TypeOK, AppliedOnce, [Next]_vars PROVE AppliedOnce'
  OBVIOUS
<1>1. ASSUME NEW m \in Record, NEW s \in Slot,
             Store(m, s) \/ CommitUnacknowledged(m, s)
      PROVE  AppliedOnce'
  <2>1. Commit(m) /\ m \notin ingest_log
    BY <1>1 DEF Store, CommitUnacknowledged, AlreadyStored
  <2>2. applied' = [applied EXCEPT ![m] = @ + 1] /\ ingest_log' = ingest_log \cup {m}
    BY <2>1 DEF Commit
  <2>3. applied[m] = 0 /\ applied \in [Record -> Nat]
    BY <2>1 DEF AppliedOnce, TypeOK
  <2>4. applied'[m] = 1
    BY <2>2, <2>3
  <2> QED
    BY <2>2, <2>3, <2>4 DEF AppliedOnce
<1>2. ASSUME \A m \in Record, s \in Slot :
               ~Store(m, s) /\ ~CommitUnacknowledged(m, s)
      PROVE  UNCHANGED databaseVars
  <2>1. ASSUME NEW m \in Record,
               \/ Accept(m) \/ MarkPublished(m) \/ ReconcileAudit(m)
               \/ ReconcileReplay(m)
        PROVE  UNCHANGED databaseVars
    BY <2>1 DEF Accept, MarkPublished, ReconcileAudit, ReconcileReplay
  <2>2. ASSUME NEW p \in Producer, SelectBatch(p) \/ ProducerCrash(p)
        PROVE  UNCHANGED databaseVars
    BY <2>2 DEF SelectBatch, ProducerCrash
  <2>3. ASSUME NEW p \in Producer, NEW m \in Record,
               Publish(p, m) \/ PublishFails(p, m)
        PROVE  UNCHANGED databaseVars
    BY <2>3 DEF Publish, PublishFails
  <2>4. ASSUME NEW m \in Record, NEW s \in Slot,
               \/ Deliver(m, s) \/ Duplicate(m, s) \/ Poison(m, s)
               \/ HandlerFails(m, s) \/ Settle(m, s) \/ RedrivePublish(m, s)
               \/ RedriveAck(m, s) \/ RedriveCrash(m, s)
        PROVE  UNCHANGED databaseVars
    BY <2>4 DEF Deliver, Duplicate, Poison, HandlerFails, Settle,
                RedrivePublish, RedriveAck, RedriveCrash
  <2>5. ASSUME NEW w \in Wipe, PurgeWipe(w) PROVE UNCHANGED databaseVars
    BY <2>5 DEF PurgeWipe
  <2>6. ASSUME ConsumerDrop \/ PurgeOutdated PROVE UNCHANGED databaseVars
    BY <2>6 DEF ConsumerDrop, PurgeOutdated
  <2>7. ASSUME UNCHANGED vars PROVE UNCHANGED databaseVars
    BY <2>7 DEF vars
  <2> QED
    BY <1>2, <2>1, <2>2, <2>3, <2>4, <2>5, <2>6, <2>7
    DEF Next, PublisherStep, ConsumerStep, PurgeStep, OperatorStep
<1>3. ASSUME UNCHANGED databaseVars PROVE AppliedOnce'
  BY <1>3 DEF databaseVars, AppliedOnce
<1> QED
  BY <1>1, <1>2, <1>3

--------------------------------------------------------------------------

LEMMA InvInit == Init => IInv
<1> SUFFICES ASSUME Init PROVE IInv
  OBVIOUS
<1>1. \A m \in Record : ~InBroker(m)
  BY DEF Init, InBroker
<1>2. RowInv
  BY RecordAssumption DEF Init, RowInv, HasRow
<1>3. OrderInv
  BY DEF Init, OrderInv
<1>4. BrokerInv
  BY <1>1 DEF Init, BrokerInv, Traced
<1>5. NothingLost /\ AppliedOnce
  BY DEF Init, NothingLost, AppliedOnce
<1> QED
  BY <1>2, <1>3, <1>4, <1>5, TypeInit DEF IInv

LEMMA InvStep == IInv /\ [Next]_vars => IInv'
BY TypeStep, RowStep, OrderStep, BrokerStep, LostStep, OnceStep DEF IInv

\* Every behaviour keeps the whole inductive invariant.
THEOREM InvariantHolds == Spec => []IInv
<1> QED
  BY InvInit, InvStep, PTL DEF Spec

\* An accepted record is stored, owed by its outbox, in the broker, or model
\* output overtaken by a stored wipe: no crash, lost confirm, redelivery,
\* redrive, replay or purge of the write path loses it.
THEOREM NoAcceptedRecordIsLost == Spec => []NothingLost
<1>1. IInv => NothingLost
  BY DEF IInv
<1> QED
  BY <1>1, InvariantHolds, PTL

\* The consumer commits the business write of a record exactly once for its id
\* in ingest_log, however often the queue delivers it.
THEOREM EveryRecordIsAppliedOnce == Spec => []AppliedOnce
<1>1. IInv => AppliedOnce
  BY DEF IInv
<1> QED
  BY <1>1, InvariantHolds, PTL

\* Outbox.purge_published_through never raises: every row accepted before a
\* published wipe is published.
THEOREM PurgeIsNeverRefused == Spec => []PurgeNeverRefused
<1>1. IInv => PurgeNeverRefused
  <2> SUFFICES ASSUME IInv, NEW w \in Wipe \cap published, NEW n \in BlocksPurge(w)
               PROVE  FALSE
    BY DEF PurgeNeverRefused
  <2>1. Owner[w] = "api" /\ w \in Record
    BY RecordAssumption
  <2>2. n \in Unpublished("api") /\ seq[n] <= seq[w] /\ n \in Record
    BY DEF BlocksPurge, Unpublished, Rows
  <2>3. seq[w] < seq[n]
    BY <2>1, <2>2 DEF IInv, OrderInv
  <2>4. seq[w] \in Nat /\ seq[n] \in Nat
    BY <2>1, <2>2 DEF IInv, TypeOK
  <2> QED
    BY <2>2, <2>3, <2>4
<1> QED
  BY <1>1, InvariantHolds, PTL

--------------------------------------------------------------------------
(***************************************************************************)
(* Delivery implements DeliveryPromise.  A record's fate is a function of  *)
(* five facts about it; every step either leaves all five alone for every  *)
(* record, up to a stutter, or changes the fate of the records it is about *)
(* as one action of the promise allows.                                    *)
(***************************************************************************)
Owed(m) == m \in Unpublished(Owner[m])

\* The facts Fate(m) is computed from, unchanged by a step.
SameFacts(m) ==
  /\ m \in accepted' <=> m \in accepted
  /\ m \in ingest_log' <=> m \in ingest_log
  /\ Owed(m)' <=> Owed(m)
  /\ IsLive(m)' <=> IsLive(m)
  /\ InBroker(m)' <=> InBroker(m)

LEMMA SameFate ==
  ASSUME NEW m, SameFacts(m)
  PROVE  Fate(m)' = Fate(m)
BY DEF SameFacts, Fate, Owed

\* The promise's state function and its stuttering step.
fates == [m \in Record |-> Fate(m)]

LEMMA Stutter ==
  ASSUME \A m \in Record : Fate(m)' = Fate(m)
  PROVE  fates' = fates
BY DEF fates

LEMMA OneMoves ==
  ASSUME NEW m \in Record, NEW f,
         \A n \in Record : n # m => Fate(n)' = Fate(n), Fate(m)' = f
  PROVE  Promise!With({m}, f)
BY DEF fates, Promise!With

LEMMA LiveInBroker ==
  ASSUME NEW m, IsLive(m)
  PROVE  InBroker(m)
BY DEF IsLive, InBroker, Live, Held, Verdict

\* A carried copy is live or dead, so a traced record is in the broker.
LEMMA TracedInBroker ==
  ASSUME BrokerInv, NEW m \in Record, Traced(m), m \notin ingest_log
  PROVE  InBroker(m)
BY CarriedInBroker DEF BrokerInv

\* Records in the broker are accepted, so their fate is one of three.
LEMMA BrokerFate ==
  ASSUME BrokerInv, NEW m \in Record, InBroker(m), m \notin ingest_log
  PROVE  Fate(m) = IF Owed(m) \/ IsLive(m) THEN "accepted" ELSE "quarantined"
BY DEF BrokerInv, Traced, Fate, Owed

LEMMA EnqueueFacts ==
  ASSUME copy \in [Record -> [Slot -> CopyState]], NEW m \in Record, Enqueue(m)
  PROVE  /\ IsLive(m)' /\ InBroker(m)'
         /\ \A n \in Record : n # m =>
              (IsLive(n)' <=> IsLive(n)) /\ (InBroker(n)' <=> InBroker(n))
<1>1. PICK s \in Slot :
        copy[m][s] = "free" /\ copy' = [copy EXCEPT ![m][s] = "ready"]
  BY FreeSlotIsFree DEF Enqueue
<1>2. copy'[m][s] = "ready" /\ "ready" \in Live
  BY <1>1 DEF Live
<1>3. \A n \in Record : n # m => copy'[n] = copy[n]
  BY <1>1
<1>4. IsLive(m)' /\ InBroker(m)'
  BY <1>2 DEF IsLive, InBroker
<1>5. \A n \in Record : n # m =>
        (IsLive(n)' <=> IsLive(n)) /\ (InBroker(n)' <=> InBroker(n))
  BY <1>3 DEF IsLive, InBroker
<1> QED
  BY <1>4, <1>5

LEMMA MoveFacts ==
  ASSUME copy \in [Record -> [Slot -> CopyState]], NEW m \in Record,
         NEW s \in Slot, NEW new, Moved(m, s, new)
  PROVE  /\ \A n \in Record : n # m =>
              (IsLive(n)' <=> IsLive(n)) /\ (InBroker(n)' <=> InBroker(n))
         /\ copy[m][s] \in Live /\ new \in Live =>
              (IsLive(m)' <=> IsLive(m)) /\ (InBroker(m)' <=> InBroker(m))
         /\ new \in Live => IsLive(m)'
         /\ new # "free" => InBroker(m)'
<1>1. copy'[m][s] = new
  BY DEF Moved
<1>2. \A n \in Record, t \in Slot :
        <<n, t>> # <<m, s>> => copy'[n][t] = copy[n][t]
  BY DEF Moved
<1>3. \A x \in Live : x # "free"
  BY DEF Live, Held, Verdict
<1>4. \A n \in Record : n # m =>
        (IsLive(n)' <=> IsLive(n)) /\ (InBroker(n)' <=> InBroker(n))
  BY <1>2 DEF IsLive, InBroker
<1>5. ASSUME copy[m][s] \in Live, new \in Live
      PROVE  IsLive(m)' /\ IsLive(m) /\ InBroker(m)' /\ InBroker(m)
  BY <1>1, <1>3, <1>5 DEF IsLive, InBroker
<1>6. (new \in Live => IsLive(m)') /\ (new # "free" => InBroker(m)')
  BY <1>1 DEF IsLive, InBroker
<1> QED
  BY <1>4, <1>5, <1>6

--------------------------------------------------------------------------

LEMMA RefinesInit == Init => Promise!Init
<1> SUFFICES ASSUME Init PROVE Promise!Init
  OBVIOUS
<1>1. \A m \in Record : Fate(m) = "unknown"
  BY DEF Init, Fate
<1> QED
  BY <1>1 DEF Promise!Init

LEMMA RefinesAccept ==
  ASSUME IInv, NEW m \in Record, Accept(m)
  PROVE  Promise!Accept(m)
<1>t. seq \in [Record -> Nat] /\ nextSeq \in [Producer -> Nat \ {0}]
      /\ Owner \in [Record -> Producer]
  BY RecordAssumption DEF IInv, TypeOK
<1>1. m \notin accepted /\ m \notin ingest_log /\ m \notin published
  BY DEF IInv, BrokerInv, Traced, Accept
<1>2. Fate(m) = "unknown"
  BY <1>1 DEF Fate
<1>3. seq'[m] # 0
  BY <1>t DEF Accept
<1>4. Owed(m)'
  BY <1>1, <1>3 DEF Accept, Owed, Unpublished, Rows, HasRow
<1>5. Fate(m)' = "accepted"
  BY <1>1, <1>4 DEF Accept, databaseVars, Fate, Owed
<1>6. ASSUME NEW n \in Record, n # m PROVE Fate(n)' = Fate(n)
  <2>1. SameFacts(n)
    BY <1>6, <1>t DEF Accept, SameFacts, Owed, Unpublished, Rows, HasRow, IsLive,
       InBroker, databaseVars, brokerVars
  <2> QED
    BY <2>1, SameFate
<1> QED
  BY <1>2, <1>5, <1>6, OneMoves DEF Promise!Accept, Promise!All

\* Store, and a commit the consumer never heard of.
LEMMA RefinesStore ==
  ASSUME IInv, NEW m \in Record, NEW s \in Slot,
         Store(m, s) \/ CommitUnacknowledged(m, s)
  PROVE  Promise!Store(m)
<1>1. PICK new \in {"ack", "requeue"} : Moved(m, s, new)
  BY DEF Store, CommitUnacknowledged, Conclude, AfterError, Moved
<1>2. /\ copy[m][s] = "unacked" /\ m \notin ingest_log
      /\ ingest_log' = ingest_log \cup {m}
      /\ UNCHANGED <<accepted, seq, published>>
  BY DEF Store, CommitUnacknowledged, Handling, Commit, AlreadyStored
<1>3. IsLive(m)
  BY <1>2 DEF IsLive, Live, Held
<1>4. Fate(m) = "accepted"
  BY <1>2, <1>3, LiveInBroker, BrokerFate DEF IInv
<1>5. Fate(m)' = "stored"
  BY <1>2 DEF Fate
<1>6. ASSUME NEW n \in Record, n # m PROVE Fate(n)' = Fate(n)
  <2>1. SameFacts(n)
    BY <1>1, <1>2, <1>6, MoveFacts
    DEF IInv, TypeOK, SameFacts, Owed, Unpublished, Rows, HasRow
  <2> QED
    BY <2>1, SameFate
<1> QED
  BY <1>4, <1>5, <1>6, OneMoves DEF Promise!Store, Promise!All

\* A record no longer owed and no longer live, but in the broker, is dead.
LEMMA RefinesQuarantine ==
  ASSUME IInv, NEW m \in Record, Owed(m) \/ IsLive(m),
         \A n \in Record : n # m => Fate(n)' = Fate(n),
         UNCHANGED ingest_log, m \in accepted', InBroker(m)', InBroker(m)
  PROVE  fates' = fates \/ Promise!Quarantine({m})
<1>1. CASE m \in ingest_log \/ Owed(m)' \/ IsLive(m)'
  <2>1. Fate(m)' = Fate(m)
    BY <1>1, BrokerFate DEF IInv, Fate, Owed
  <2> QED
    BY <2>1, Stutter
<1>2. CASE ~(m \in ingest_log \/ Owed(m)' \/ IsLive(m)')
  <2>1. Fate(m) = "accepted" /\ Fate(m)' = "quarantined"
    BY <1>2, BrokerFate DEF IInv, Fate, Owed
  <2> QED
    BY <2>1, OneMoves DEF Promise!Quarantine, Promise!All
<1> QED
  BY <1>1, <1>2

LEMMA RefinesMarkPublished ==
  ASSUME IInv, NEW m \in Record, MarkPublished(m)
  PROVE  fates' = fates \/ Promise!Quarantine({m})
<1>1. m \in confirmed /\ Owed(m) /\ HasRow(m) /\ m \in accepted
  BY DEF MarkPublished, IInv, OrderInv, RowInv, Owed, Unpublished, Rows
<1>2. /\ published' = published \cup {m}
      /\ UNCHANGED <<accepted, seq, ingest_log, copy>>
  BY <1>1 DEF MarkPublished, databaseVars, brokerVars
<1>3. ASSUME NEW n \in Record, n # m PROVE Fate(n)' = Fate(n)
  <2>1. SameFacts(n)
    BY <1>2, <1>3 DEF SameFacts, Owed, Unpublished, Rows, HasRow, IsLive, InBroker
  <2> QED
    BY <2>1, SameFate
<1>4. CASE m \in ingest_log
  <2>1. Fate(m)' = Fate(m)
    BY <1>2, <1>4 DEF Fate
  <2> QED
    BY <1>3, <2>1, Stutter
<1>5. CASE m \notin ingest_log
  <2>1. InBroker(m)
    BY <1>1, <1>5, TracedInBroker DEF IInv, Traced
  <2>2. InBroker(m)'
    BY <1>2, <2>1 DEF InBroker
  <2> QED
    BY <1>1, <1>2, <1>3, <2>1, <2>2, RefinesQuarantine
<1> QED
  BY <1>4, <1>5

LEMMA RefinesSettle ==
  ASSUME IInv, NEW m \in Record, NEW s \in Slot, Settle(m, s)
  PROVE  fates' = fates \/ Promise!Quarantine({m})
<1>1. /\ copy[m][s] \in Verdict /\ Moved(m, s, Settled(m, s))
      /\ UNCHANGED <<accepted, seq, published, ingest_log>>
  BY DEF Settle, Moved, outboxVars, databaseVars
<1>2. ASSUME NEW n \in Record, n # m PROVE Fate(n)' = Fate(n)
  <2>1. SameFacts(n)
    BY <1>1, <1>2, MoveFacts
    DEF IInv, TypeOK, SameFacts, Owed, Unpublished, Rows, HasRow
  <2> QED
    BY <2>1, SameFate
<1>3. CASE copy[m][s] = "ack"
  <2>1. m \in ingest_log
    BY <1>3 DEF IInv, BrokerInv
  <2>2. Fate(m)' = Fate(m)
    BY <1>1, <2>1 DEF Fate
  <2> QED
    BY <1>2, <2>2, Stutter
<1>4. CASE copy[m][s] # "ack"
  <2>1. Settled(m, s) # "free"
    BY <1>1, <1>4 DEF Verdict, Settled, TakenBack
  <2>2. InBroker(m)'
    BY <1>1, <2>1, MoveFacts DEF IInv, TypeOK
  <2>3. IsLive(m)
    BY <1>1 DEF IsLive, Live, Held
  <2>4. m \in accepted'
    BY <1>1, <2>3, LiveInBroker DEF IInv, BrokerInv, Traced
  <2> QED
    BY <1>1, <1>2, <2>2, <2>3, <2>4, LiveInBroker, RefinesQuarantine
<1> QED
  BY <1>3, <1>4

LEMMA RefinesConsumerDrop ==
  ASSUME IInv, ConsumerDrop
  PROVE  fates' = fates \/ \E S \in SUBSET Record : Promise!Quarantine(S)
<1> DEFINE S == {m \in Record : Fate(m)' # Fate(m)}
<1>1. UNCHANGED <<accepted, seq, published, ingest_log>>
  BY DEF ConsumerDrop, outboxVars, databaseVars
<1>2. \A n \in Record, t \in Slot :
        \/ copy'[n][t] = copy[n][t]
        \/ copy[n][t] \in Held /\ copy'[n][t] \in {"dead", "ready"}
  BY DEF ConsumerDrop, TakenBack
<1>3. "free" \notin Held /\ Held \subseteq Live
  BY DEF Held, Verdict, Live
<1>4. \A n \in Record : InBroker(n)' <=> InBroker(n)
  BY <1>2, <1>3 DEF InBroker
<1>5. \A n \in Record : IsLive(n)' => IsLive(n)
  BY <1>2, <1>3 DEF IsLive
<1>6. \A n \in Record : Owed(n)' <=> Owed(n)
  BY <1>1 DEF Owed, Unpublished, Rows, HasRow
<1>7. ASSUME NEW n \in S
      PROVE  Fate(n) = "accepted" /\ Fate(n)' = "quarantined"
  <2>1. n \notin ingest_log /\ ~(IsLive(n)' <=> IsLive(n))
    <3>1. ~SameFacts(n)
      BY <1>7, SameFate
    <3>2. n \notin ingest_log
      BY <1>1, <1>7 DEF Fate
    <3> QED
      BY <1>1, <1>4, <1>6, <3>1, <3>2 DEF SameFacts
  <2>2. IsLive(n) /\ ~IsLive(n)' /\ InBroker(n) /\ InBroker(n)'
    BY <1>4, <1>5, <2>1, LiveInBroker
  <2>3. n \in accepted
    BY <2>2 DEF IInv, BrokerInv, Traced
  <2>4. Fate(n) = "accepted"
    BY <2>1, <2>2, <2>3 DEF Fate
  <2>5. ~Owed(n)'
    BY <1>1, <1>6, <1>7, <2>1, <2>3, <2>4 DEF Fate, Owed
  <2> QED
    BY <1>1, <2>1, <2>2, <2>3, <2>4, <2>5 DEF Fate, Owed
<1>8. CASE S = {}
  BY <1>8, Stutter
<1>9. CASE S # {}
  <2>1. Promise!All(S, "accepted")
    BY <1>7 DEF Promise!All
  <2>2. Promise!With(S, "quarantined")
    BY <1>7 DEF Promise!With
  <2>3. Promise!Quarantine(S)
    BY <1>9, <2>1, <2>2 DEF Promise!Quarantine
  <2> QED
    BY <2>3
<1> QED
  BY <1>8, <1>9

\* Model output accepted before a stored wipe: dropped, unless the broker has it.
LEMMA RefinesPurgeOutdated ==
  ASSUME IInv, PurgeOutdated
  PROVE  fates' = fates \/ \E S \in SUBSET Record : Promise!Discard(S)
<1> DEFINE S == {m \in Record : Fate(m)' # Fate(m)}
<1>1. /\ seq' = [m \in Record |-> IF m \in outdated THEN 0 ELSE seq[m]]
      /\ published' = published \ outdated
      /\ UNCHANGED <<accepted, ingest_log, copy>>
  BY DEF PurgeOutdated, databaseVars, brokerVars
<1>2. \A n \in Record : (IsLive(n)' <=> IsLive(n)) /\ (InBroker(n)' <=> InBroker(n))
  BY <1>1 DEF IsLive, InBroker
<1>3. \A n \in Record : n \notin outdated => (Owed(n)' <=> Owed(n))
  BY <1>1 DEF Owed, Unpublished, Rows, HasRow
<1>4. \A n \in outdated : ~Owed(n)'
  BY <1>1 DEF Owed, Unpublished, Rows, HasRow
<1>5. ASSUME NEW n \in S
      PROVE  /\ n \in outdated
             /\ Fate(n) = "accepted"
             /\ Fate(n)' \in {"discarded", "quarantined"}
  <2>1. n \notin ingest_log /\ ~(Owed(n)' <=> Owed(n))
    <3>1. ~SameFacts(n)
      BY <1>5, SameFate
    <3>2. n \notin ingest_log
      BY <1>1, <1>5 DEF Fate
    <3> QED
      BY <1>1, <1>2, <3>1, <3>2 DEF SameFacts
  <2>2. n \in outdated /\ Owed(n) /\ ~Owed(n)'
    BY <1>3, <1>4, <2>1
  <2>3. n \in accepted
    BY <2>2 DEF Owed, Unpublished, Rows, IInv, RowInv
  <2>4. Fate(n) = "accepted"
    BY <2>1, <2>2, <2>3 DEF Fate, Owed
  <2>5. Fate(n)' \in {"accepted", "discarded", "quarantined"}
    BY <1>1, <2>1, <2>3 DEF Fate
  <2> QED
    BY <1>5, <2>2, <2>4, <2>5
<1>6. CASE S = {}
  BY <1>6, Stutter
<1>7. CASE S # {}
  <2>1. Promise!All(S, "accepted")
    BY <1>5 DEF Promise!All
  <2>2. S \subseteq {m \in Record : Owner[m] = "enricher"}
    BY <1>5 DEF IInv, RowInv, Rows
  <2>3. PICK w \in Wipe : w \in ingest_log
    BY <1>5, <1>7 DEF IInv, RowInv
  <2>4. w \in Record /\ Fate(w) = "stored"
    BY <2>3, RecordAssumption DEF Fate
  <2> DEFINE g == [m \in S |-> Fate(m)']
  <2>5. g \in [S -> {"discarded", "quarantined"}]
    BY <1>5
  <2>6. fates' = [m \in Record |-> IF m \in S THEN g[m] ELSE fates[m]]
    BY DEF fates
  <2>7. Promise!Discard(S)
    <3>1. \E v \in Wipe : [m \in Record |-> Fate(m)][v] = "stored"
      BY <2>4
    <3> QED
      BY <1>7, <2>1, <2>2, <2>5, <2>6, <3>1 DEF Promise!Discard, fates
  <2> QED
    BY <2>7
<1> QED
  BY <1>6, <1>7

\* A dead letter back on the queue.
LEMMA RefinesRetry ==
  ASSUME IInv, NEW m \in Record, InBroker(m) \/ m \in ingest_log,
         UNCHANGED <<accepted, seq, published, ingest_log>>,
         \A n \in Record : n # m =>
           (IsLive(n)' <=> IsLive(n)) /\ (InBroker(n)' <=> InBroker(n)),
         IsLive(m)'
  PROVE  fates' = fates \/ Promise!Retry(m)
<1>1. \A n \in Record : Owed(n)' <=> Owed(n)
  BY DEF Owed, Unpublished, Rows, HasRow
<1>2. \A n \in Record : n # m => Fate(n)' = Fate(n)
  BY <1>1, SameFate DEF SameFacts
<1>3. CASE m \in ingest_log
  <2>1. Fate(m)' = Fate(m)
    BY <1>3 DEF Fate
  <2> QED
    BY <1>2, <2>1, Stutter
<1>4. CASE m \notin ingest_log
  <2>1. m \in accepted
    BY <1>4 DEF IInv, BrokerInv, Traced
  <2>2. Fate(m)' = "accepted"
    BY <1>4, <2>1 DEF Fate
  <2>3. Fate(m) \in {"accepted", "quarantined"}
    BY <1>4, BrokerFate DEF IInv
  <2>4. CASE Fate(m) = "accepted"
    BY <1>2, <2>2, <2>4, Stutter
  <2>5. CASE Fate(m) = "quarantined"
    BY <1>2, <2>2, <2>5, OneMoves DEF Promise!Retry, Promise!All
  <2> QED
    BY <2>3, <2>4, <2>5
<1> QED
  BY <1>3, <1>4

LEMMA RefinesReconcileReplay ==
  ASSUME IInv, NEW m \in Record, ReconcileReplay(m)
  PROVE  fates' = fates \/ Promise!Retry(m)
<1>1. /\ m \in audited /\ Enqueue(m)
      /\ UNCHANGED <<accepted, seq, published, ingest_log>>
  BY DEF ReconcileReplay, outboxVars, databaseVars
<1>2. InBroker(m) \/ m \in ingest_log
  BY <1>1, TracedInBroker DEF IInv, Traced
<1> QED
  BY <1>1, <1>2, EnqueueFacts, RefinesRetry DEF IInv, TypeOK

LEMMA RefinesRedrivePublish ==
  ASSUME IInv, NEW m \in Record, NEW s \in Slot, RedrivePublish(m, s)
  PROVE  fates' = fates \/ Promise!Retry(m)
<1>t. copy \in [Record -> [Slot -> CopyState]]
  BY DEF IInv, TypeOK
<1>1. PICK t \in Slot :
        copy[m][t] = "free" /\ copy' = [copy EXCEPT ![m][s] = "redriven",
                                                     ![m][t] = "ready"]
  BY FreeSlotIsFree DEF RedrivePublish
<1>2. /\ copy[m][s] = "dead"
      /\ UNCHANGED <<accepted, seq, published, ingest_log>>
  BY DEF RedrivePublish, outboxVars, databaseVars
<1>3. copy'[m][t] = "ready"
  BY <1>1, <1>2, <1>t
<1>4. \A n \in Record : n # m => copy'[n] = copy[n]
  BY <1>1, <1>t
<1>5. InBroker(m)
  BY <1>2 DEF InBroker
<1>6. IsLive(m)'
  BY <1>3 DEF IsLive, Live
<1>7. \A n \in Record : n # m =>
        (IsLive(n)' <=> IsLive(n)) /\ (InBroker(n)' <=> InBroker(n))
  BY <1>4 DEF IsLive, InBroker
<1> QED
  BY <1>2, <1>5, <1>6, <1>7, RefinesRetry

\* The steps the promise does not see.
LEMMA RefinesByStutter ==
  ASSUME IInv,
         \/ UNCHANGED vars
         \/ \E p \in Producer : SelectBatch(p) \/ ProducerCrash(p)
         \/ \E p \in Producer, m \in Record : Publish(p, m) \/ PublishFails(p, m)
         \/ \E m \in Record, s \in Slot :
              \/ Deliver(m, s) \/ Duplicate(m, s) \/ Poison(m, s)
              \/ HandlerFails(m, s) \/ RedriveAck(m, s) \/ RedriveCrash(m, s)
         \/ \E m \in Record : ReconcileAudit(m)
         \/ \E w \in Wipe : PurgeWipe(w)
  PROVE  fates' = fates
<1>t. copy \in [Record -> [Slot -> CopyState]]
  BY DEF IInv, TypeOK
<1>1. CASE \/ UNCHANGED vars
           \/ \E p \in Producer : SelectBatch(p) \/ ProducerCrash(p)
           \/ \E m \in Record : ReconcileAudit(m)
  <2>1. \A n \in Record : SameFacts(n)
    BY <1>1 DEF SelectBatch, ProducerCrash, ReconcileAudit, vars, outboxVars,
                brokerVars, databaseVars, SameFacts, Owed, Unpublished, Rows,
                HasRow, IsLive, InBroker
  <2> QED
    BY <2>1, SameFate, Stutter
<1>2. ASSUME NEW p \in Producer, NEW m \in Record,
             Publish(p, m) \/ PublishFails(p, m)
      PROVE  fates' = fates
  <2>1. /\ UNCHANGED <<accepted, seq, published, ingest_log>>
        /\ Enqueue(m) \/ UNCHANGED copy
    BY <1>2 DEF Publish, PublishFails, outboxVars, databaseVars, brokerVars
  <2>2. \A n \in Record : Owed(n)' <=> Owed(n)
    BY <2>1 DEF Owed, Unpublished, Rows, HasRow
  <2>3. Owed(m) /\ m \in accepted
    BY <1>2 DEF Publish, PublishFails, NextInBatch, IInv, OrderInv, RowInv, Owed,
                Unpublished, Rows
  <2>4. Fate(m)' = Fate(m)
    BY <2>1, <2>2, <2>3 DEF Fate, Owed
  <2>5. ASSUME NEW n \in Record, n # m PROVE Fate(n)' = Fate(n)
    <3>1. (IsLive(n)' <=> IsLive(n)) /\ (InBroker(n)' <=> InBroker(n))
      BY <2>1, <2>5, <1>t, EnqueueFacts DEF IsLive, InBroker
    <3> QED
      BY <2>1, <2>2, <3>1, SameFate DEF SameFacts
  <2> QED
    BY <2>4, <2>5, Stutter
<1>3. ASSUME NEW m \in Record, NEW s \in Slot,
             \/ Deliver(m, s) \/ Duplicate(m, s) \/ Poison(m, s)
             \/ HandlerFails(m, s)
      PROVE  fates' = fates
  <2>1. PICK new \in {"unacked", "ack", "reject", "requeue"} : Moved(m, s, new)
    BY <1>3 DEF Deliver, Duplicate, Poison, HandlerFails, Conclude, AfterError,
                Moved
  <2>2. /\ copy[m][s] \in {"ready", "unacked"}
        /\ UNCHANGED <<accepted, seq, published, ingest_log>>
    BY <1>3 DEF Deliver, Duplicate, Poison, HandlerFails, Handling, outboxVars,
                databaseVars
  <2>3. copy[m][s] \in Live /\ new \in Live
    BY <2>1, <2>2 DEF Live, Held, Verdict
  <2>4. \A n \in Record :
          (IsLive(n)' <=> IsLive(n)) /\ (InBroker(n)' <=> InBroker(n))
    BY <2>1, <2>3, <1>t, MoveFacts
  <2>5. \A n \in Record : SameFacts(n)
    BY <2>2, <2>4 DEF SameFacts, Owed, Unpublished, Rows, HasRow
  <2> QED
    BY <2>5, SameFate, Stutter
<1>4. ASSUME NEW m \in Record, NEW s \in Slot,
             RedriveAck(m, s) \/ RedriveCrash(m, s)
      PROVE  fates' = fates
  <2>1. PICK new \in {"free", "dead"} : Moved(m, s, new)
    BY <1>4 DEF RedriveAck, RedriveCrash, Moved
  <2>2. /\ copy[m][s] = "redriven"
        /\ UNCHANGED <<accepted, seq, published, ingest_log>>
    BY <1>4 DEF RedriveAck, RedriveCrash, outboxVars, databaseVars
  <2>3. \A n \in Record : IsLive(n)' <=> IsLive(n)
    BY <2>1, <2>2, <1>t DEF IsLive, Moved, Live, Held, Verdict
  <2>4. \A n \in Record : Owed(n)' <=> Owed(n)
    BY <2>2 DEF Owed, Unpublished, Rows, HasRow
  <2>5. ASSUME NEW n \in Record, n # m PROVE Fate(n)' = Fate(n)
    BY <2>1, <2>2, <2>3, <2>4, <2>5, <1>t, MoveFacts, SameFate DEF SameFacts
  <2>6. CASE m \in ingest_log
    BY <2>2, <2>5, <2>6, Stutter DEF Fate
  <2>7. CASE m \notin ingest_log
    <3>1. InBroker(m)
      BY <2>2 DEF InBroker
    <3>2. Carried(m)
      BY <2>7, <3>1 DEF IInv, BrokerInv, Traced
    <3>3. InBroker(m)'
      BY <2>1, <2>2, <3>2, <1>t DEF Moved, Carried, InBroker
    <3>4. SameFacts(m)
      BY <2>2, <2>3, <2>4, <3>1, <3>3 DEF SameFacts
    <3> QED
      BY <2>5, <3>4, SameFate, Stutter
  <2> QED
    BY <2>6, <2>7
<1>5. ASSUME NEW w \in Wipe, PurgeWipe(w) PROVE fates' = fates
  <2> DEFINE gone == {n \in Rows("api") : seq[n] <= seq[w]}
  <2>1. /\ seq' = [n \in Record |-> IF n \in gone THEN 0 ELSE seq[n]]
        /\ published' = published \ gone
        /\ UNCHANGED <<accepted, ingest_log, copy>>
    BY <1>5 DEF PurgeWipe, databaseVars, brokerVars
  <2>2. gone \subseteq published
    BY <1>5 DEF PurgeWipe, BlocksPurge, Unpublished
  <2> HIDE DEF gone
  <2>3. \A n \in Record : SameFacts(n)
    BY <2>1, <2>2 DEF SameFacts, Owed, Unpublished, Rows, HasRow, IsLive, InBroker
  <2> QED
    BY <2>3, SameFate, Stutter
<1> QED
  BY <1>1, <1>2, <1>3, <1>4, <1>5

--------------------------------------------------------------------------

LEMMA RefinesNext == IInv /\ [Next]_vars => [Promise!Next]_fates
<1> SUFFICES ASSUME IInv, [Next]_vars PROVE Promise!Next \/ fates' = fates
  OBVIOUS
<1>1. CASE \/ UNCHANGED vars
           \/ \E p \in Producer : SelectBatch(p) \/ ProducerCrash(p)
           \/ \E p \in Producer, m \in Record : Publish(p, m) \/ PublishFails(p, m)
           \/ \E m \in Record, s \in Slot :
                \/ Deliver(m, s) \/ Duplicate(m, s) \/ Poison(m, s)
                \/ HandlerFails(m, s) \/ RedriveAck(m, s) \/ RedriveCrash(m, s)
           \/ \E m \in Record : ReconcileAudit(m)
           \/ \E w \in Wipe : PurgeWipe(w)
  BY <1>1, RefinesByStutter
<1>2. CASE \E m \in Record : Accept(m)
  BY <1>2, RefinesAccept DEF Promise!Next
<1>3. CASE \E m \in Record, s \in Slot : Store(m, s) \/ CommitUnacknowledged(m, s)
  BY <1>3, RefinesStore DEF Promise!Next
<1>4. CASE \E m \in Record : MarkPublished(m)
  BY <1>4, RefinesMarkPublished DEF Promise!Next
<1>5. CASE \E m \in Record, s \in Slot : Settle(m, s)
  BY <1>5, RefinesSettle DEF Promise!Next
<1>6. CASE ConsumerDrop
  BY <1>6, RefinesConsumerDrop DEF Promise!Next
<1>7. CASE PurgeOutdated
  BY <1>7, RefinesPurgeOutdated DEF Promise!Next
<1>8. CASE \E m \in Record : ReconcileReplay(m)
  BY <1>8, RefinesReconcileReplay DEF Promise!Next
<1>9. CASE \E m \in Record, s \in Slot : RedrivePublish(m, s)
  BY <1>9, RefinesRedrivePublish DEF Promise!Next
<1> QED
  BY <1>1, <1>2, <1>3, <1>4, <1>5, <1>6, <1>7, <1>8, <1>9
  DEF Next, PublisherStep, ConsumerStep, PurgeStep, OperatorStep

\* The write path implements its promise: stored is final, a quarantined record
\* leaves aow.dlq only by a redrive or a replay, and nothing is dropped except
\* model output of the enricher once a wipe is stored.
THEOREM WritePathKeepsItsPromise == Spec => Implements
<1>1. IInv /\ [Next]_vars => [Promise!Next]_fates
  BY RefinesNext
<1>2. Init => Promise!Init
  BY RefinesInit
<1> QED
  BY <1>1, <1>2, InvariantHolds, PTL DEF Spec, Implements, Promise!Spec, fates
==========================================================================
