---------------------------- MODULE BackupProofs ----------------------------
(***************************************************************************)
(* What holds of a backup of a running stack, and of what a restore makes  *)
(* of it, for any number of records, wipes and faults and any command line.*)
(***************************************************************************)
EXTENDS Backup, FiniteSetTheorems, TLAPS

-----------------------------------------------------------------------------
(***************************************************************************)
(* The inductive invariant.                                                *)
(***************************************************************************)

\* Steps of a stack: what the broker confirmed was delivered or stored, and a wipe
\* voids only what was there before it.
StackInv ==
  /\ confirmed \subseteq rows /\ published \subseteq rows
  /\ confirmed \cap published = {}
  /\ confirmed \subseteq broker \cup ingest_log
  /\ void \subseteq accepted

\* The live stack before any restore: rows go with a wipe alone, and
\* nothing is delivered that was not accepted.
LiveInv ==
  target = None =>
    /\ accepted \ purged \subseteq rows
    /\ rows \cup broker \cup ingest_log \subseteq accepted

Purged == \A m \in purged : Owner[m] # "ingestor"

\* The order in which the copies are taken.
BackupInv ==
  /\ bpc \in {"idle", "dump", "count", "copy"} => target = None /\ manifest = None
  /\ bpc \in {"idle", "dump"} => bat = 1 /\ \A p \in Producer : copy[p] = NoCopy
  /\ bpc \in {"count", "copy"} => \A i \in 1 .. 3 : i >= bat => copy[Order[i]] = NoCopy
  /\ bpc = "copy" => bat <= 3
  /\ bpc \in {"count", "copy", "done"} => dump # None
  /\ bpc = "done" => bat = 4
  /\ bpc = "failed" => manifest = None
  /\ dump # None => dump \subseteq accepted
  /\ dumpVoid \subseteq accepted
  /\ protects \subseteq accepted
  /\ \A p \in Producer : ~ Copied(p) => copy[p].rows = {}
  /\ \A p \in Producer : copy[p].published \subseteq copy[p].rows
                         /\ copy[p].rows \subseteq Of(p, Record)

\* An outbox is copied after the ledger, and with all that was protected.
CopyInv ==
  /\ \A i \in 1 .. 3 : i < bat =>
       \/ copy[Order[i]].state = "absent"
       \/ Of(Order[i], protects \ purged) \subseteq copy[Order[i]].rows
  /\ dump # None /\ Copied("ingestor") => Collected \cap dump \subseteq copy["ingestor"].rows

\* Somewhere the write path still has it, or no one owes it.
Safe(m)  == Recoverable(m) \/ Erased(m)
Known(m) == m \in rows \cup ingest_log \/ Erased(m)

Restored == rpc \in {"audit", "replay"} \/ rexit \in {0, 4}

\* The restore up to the moment the services start.
SetUpInv ==
  /\ rpc = "idle" <=> target = None
  /\ rexit # None => rpc = "exited"
  /\ rpc \in {"guard", "fresh", "database", "outboxes", "audit", "replay"} => manifest = "sound"
  /\ rpc = "fresh" => ~ Refused
  /\ rpc \in {"idle", "verify", "guard", "fresh", "database"} => rat = 1
  /\ rpc \in {"database", "outboxes"} => phase = "core" /\ confirmed = {} /\ broker = {}
  /\ rpc = "database" => ingest_log = {} /\ rows = {} /\ published = {}
  /\ rpc = "outboxes" =>
       /\ ingest_log = dump
       /\ \A i \in 1 .. 3 : i < rat => copy[Order[i]].rows \subseteq rows

\* From then on: what was copied is known, and what was audited is safe unless the
\* script has noticed that it is not.
RestoredInv ==
  Restored =>
    /\ manifest # None /\ dump \subseteq ingest_log
    /\ \A p \in Producer : \A m \in copy[p].rows : Known(m)
    /\ Copied("ingestor") => Collected \cap (broker \cup ingest_log) \subseteq rows

AuditInv ==
  /\ rpc \in {"audit", "replay"} /\ ~ failed =>
       \A i \in 1 .. 3 : i < rat => \A m \in copy[Order[i]].rows : Safe(m)
  /\ rpc = "replay" =>
       rat <= 3 /\ \A m \in copy[Order[rat]].rows : m \in missing \/ Safe(m)
  /\ rexit = 0 => \A p \in Producer : \A m \in copy[p].rows : Safe(m)

Inv ==
  /\ TypeOK /\ StackInv /\ LiveInv /\ Purged /\ BackupInv /\ CopyInv
  /\ SetUpInv /\ RestoredInv /\ AuditInv

-----------------------------------------------------------------------------
(***************************************************************************)
(* Type correctness.                                                       *)
(***************************************************************************)

LEMMA Three == Len(Order) = 3 /\ \A i \in 1 .. 3 : Order[i] \in Producer
  BY DEF Order, Producer

\* A count is that of a set of records.
LEMMA CountType ==
  ASSUME NEW p, NEW set \in SUBSET Record
  PROVE  Cardinality(Of(p, set)) \in 0 .. Cardinality(Record)
  <1>1. Of(p, set) \subseteq Record /\ IsFiniteSet(Record)
    BY RecordAssumption DEF Of
  <1>2. IsFiniteSet(Of(p, set)) /\ Cardinality(Of(p, set)) <= Cardinality(Record)
    BY <1>1, FS_Subset
  <1>3. Cardinality(Of(p, set)) \in Nat /\ Cardinality(Record) \in Nat
    BY <1>1, <1>2, FS_CardinalityType
  <1> QED BY <1>2, <1>3

LEMMA TypeInit == Init => TypeOK
  <1> SUFFICES ASSUME Init PROVE TypeOK OBVIOUS
  <1>1. 0 \in 0 .. Cardinality(Record)
    BY RecordAssumption, FS_CardinalityType
  <1>2. NoCopy \in [state : {"none", "absent", "taken"}, rows : Sets, published : Sets]
    BY DEF NoCopy, Sets
  <1>3. copy \in [Producer -> [state : {"none", "absent", "taken"}, rows : Sets,
                              published : Sets]]
    BY <1>2 DEF Init
  <1>4. /\ rows \in Sets /\ confirmed \in Sets /\ published \in Sets /\ broker \in Sets
        /\ ingest_log \in Sets /\ accepted \in Sets /\ purged \in Sets /\ protects \in Sets
        /\ missing \in Sets
    BY DEF Init, Sets
  <1>5. bat \in 1 .. 4 /\ rat \in 1 .. 4 /\ counted \in 0 .. Cardinality(Record)
    BY <1>1 DEF Init
  <1>6. /\ phase \in {"gone", "stopped", "core", "up"} /\ up \in SUBSET Producer
        /\ bpc = "idle" /\ dump = None /\ manifest = None /\ rpc = "idle"
        /\ target = None /\ failed \in BOOLEAN /\ rexit = None
    BY DEF Init
  <1>7. void \in SUBSET Of("enricher", Record) /\ dumpVoid \in SUBSET Of("enricher", Record)
    BY DEF Init
  <1> QED BY <1>3, <1>4, <1>5, <1>6, <1>7 DEF TypeOK

LEMMA TypeDeliver ==
  ASSUME TypeOK, NEW m \in Record,
         Accept(m) \/ Publish(m) \/ MarkPublished(m) \/ Store(m) \/ PurgeWipe(m)
  PROVE  TypeOK'
  <1> USE DEF TypeOK, Sets, backupVars, restoreVars
  <1>1. CASE Accept(m)
    BY <1>1 DEF Accept
  <1>2. CASE Publish(m)
    BY <1>2 DEF Publish
  <1>3. CASE MarkPublished(m)
    BY <1>3 DEF MarkPublished
  <1>4. CASE Store(m)
    <2>1. Of("enricher", accepted) \in SUBSET Of("enricher", Record)
      BY DEF Of
    <2> QED BY <1>4, <2>1 DEF Store
  <1>5. CASE PurgeWipe(m)
    <2>1. {n \in Of("api", rows) : n <= m} \subseteq Record
      BY DEF Of
    <2> QED BY <1>5, <2>1 DEF PurgeWipe
  <1> QED BY <1>1, <1>2, <1>3, <1>4, <1>5

LEMMA TypeDiscard == ASSUME TypeOK, DiscardModelOutput PROVE TypeOK'
  <1>1. Of("enricher", rows) \subseteq Record
    BY DEF Of, TypeOK, Sets
  <1> QED BY <1>1 DEF DiscardModelOutput, TypeOK, Sets, backupVars, restoreVars

LEMMA TypeStop ==
  ASSUME TypeOK, Down \/ \E p \in Producer : StopProducer(p)
  PROVE  TypeOK'
  <1> USE DEF TypeOK, Sets, backupVars, restoreVars
  <1>1. CASE Down
    BY <1>1 DEF Down
  <1>2. ASSUME NEW p \in Producer, StopProducer(p) PROVE TypeOK'
    BY <1>2 DEF StopProducer
  <1> QED BY <1>1, <1>2

LEMMA TypeBackup ==
  ASSUME TypeOK, BackupInv, Backup \/ BackupFails \/ Damage
  PROVE  TypeOK'
  <1> USE DEF TypeOK, Sets, stackVars, restoreVars
  <1>1. CASE BackupStarts
    BY <1>1 DEF BackupStarts
  <1>2. CASE Dump
    BY <1>2 DEF Dump
  <1>3. CASE CountRows
    <2>1. Cardinality(Of(Order[bat], rows)) \in 0 .. Cardinality(Record)
      BY CountType
    <2>2. bat \in 1 .. 3 /\ Order[bat] \in Producer
      BY <1>3, Three DEF CountRows
    <2>3. CASE Order[bat] \in up
      BY <1>3, <2>1, <2>3 DEF CountRows
    <2>4. CASE Order[bat] \notin up
      BY <1>3, <2>2, <2>4 DEF CountRows
    <2> QED BY <2>3, <2>4
  <1>4. CASE CopyOutbox
    <2>1. 0 \in 0 .. Cardinality(Record)
      BY RecordAssumption, FS_CardinalityType
    <2>2. bat \in 1 .. 3 /\ Order[bat] \in Producer
      BY <1>4, Three DEF CopyOutbox, BackupInv
    <2> DEFINE p    == Order[bat]
               held == Of(p, rows)
               new  == [state |-> "taken", rows |-> held, published |-> held \cap published]
    <2>3. held \in SUBSET Record
      BY DEF Of
    <2>4. new \in [state : {"none", "absent", "taken"}, rows : Sets, published : Sets]
      BY <2>3
    <2>5. \/ copy' = copy /\ bat' = bat /\ bpc' = "failed"
          \/ copy' = [copy EXCEPT ![p] = new] /\ bat' = bat + 1 /\ bpc' = "count"
      BY <1>4 DEF CopyOutbox
    <2> HIDE DEF new
    <2>6. copy' \in [Producer -> [state : {"none", "absent", "taken"}, rows : Sets,
                                  published : Sets]]
      BY <2>2, <2>4, <2>5
    <2>7. bat' \in 1 .. 4 /\ bpc' \in {"idle", "dump", "count", "copy", "done", "failed"}
      BY <2>2, <2>5
    <2>8. counted' \in 0 .. Cardinality(Record)
      BY <1>4, <2>1 DEF CopyOutbox
    <2> QED BY <1>4, <2>6, <2>7, <2>8 DEF CopyOutbox
  <1>5. CASE WriteManifest
    BY <1>5 DEF WriteManifest
  <1>6. CASE BackupFails
    BY <1>6 DEF BackupFails
  <1>7. CASE Damage
    BY <1>7 DEF Damage
  <1> QED BY <1>1, <1>2, <1>3, <1>4, <1>5, <1>6, <1>7 DEF Backup

\* Only a finished backup has a sound manifest.
LEMMA SoundIsDone ==
  ASSUME TypeOK, BackupInv, manifest # None
  PROVE  bpc = "done" /\ dump # None /\ dump \in SUBSET accepted /\ dump \in Sets
  <1>1. bpc = "done"
    BY DEF TypeOK, BackupInv
  <1> QED BY <1>1 DEF TypeOK, BackupInv

\* What the audit of a producer names.
Found == Of(Order[rat], published) \ ingest_log

\* What a step of the audit may do.
LEMMA AuditStep ==
  ASSUME Audit
  PROVE  /\ rpc = "audit" /\ rat <= 3 /\ rexit' = rexit
         /\ UNCHANGED stackVars /\ UNCHANGED <<accepted, purged, backupVars, target, flags>>
         /\ \/ /\ rpc' = "audit" /\ rat' = rat + 1 /\ missing' = missing
               /\ \/ ~ Copied(Order[rat]) /\ failed' = failed
                  \/ failed' = TRUE
                  \/ Found = {} /\ failed' = failed
            \/ rpc' = "replay" /\ rat' = rat /\ missing' = Found /\ failed' = failed
  BY Three DEF Audit, Found, RKeep, RGoto

\* What a step of the replay may do.
LEMMA ReplayStep ==
  ASSUME Replay
  PROVE  /\ rpc = "replay" /\ rexit' = rexit
         /\ UNCHANGED <<phase, up, rows, confirmed, published, ingest_log, void>>
         /\ UNCHANGED <<accepted, purged, backupVars, target, flags>>
         /\ \/ \E m \in published :
                 /\ broker' = IF m \in ingest_log THEN broker ELSE broker \cup {m}
                 /\ missing' = missing \ {m} /\ failed' = failed
            \/ missing' = {} /\ failed' = TRUE /\ broker' = broker
         /\ \/ missing' = {} /\ rpc' = "audit" /\ rat' = rat + 1
            \/ missing' # {} /\ rpc' = "replay" /\ rat' = rat
  <1> DEFINE m == CHOOSE n \in missing : \A k \in missing : n <= k
  <1>1. /\ rpc = "replay"
        /\ UNCHANGED <<phase, up, rows, confirmed, published, ingest_log, void>>
        /\ UNCHANGED <<accepted, purged, backupVars, target, flags>>
    BY DEF Replay, RKeep
  <1>2. \/ /\ m \in published
           /\ broker' = IF m \in ingest_log THEN broker ELSE broker \cup {m}
           /\ missing' = missing \ {m} /\ failed' = failed
        \/ missing' = {} /\ failed' = TRUE /\ broker' = broker
    BY DEF Replay
  <1>3. /\ rexit' = rexit
        /\ \/ missing' = {} /\ rpc' = "audit" /\ rat' = rat + 1
           \/ missing' # {} /\ rpc' = "replay" /\ rat' = rat
    BY DEF Replay, RGoto
  <1> QED BY <1>1, <1>2, <1>3

LEMMA TypeRestore ==
  ASSUME TypeOK, BackupInv, SetUpInv, AuditInv, Restore \/ RestoreFails
  PROVE  TypeOK'
  <1> USE DEF TypeOK, Sets, stackVars, backupVars, RKeep, RGoto, RExit
  <1>1. CASE VerifyBackup
    BY <1>1 DEF VerifyBackup
  <1>2. CASE CheckTarget
    BY <1>2 DEF CheckTarget
  <1>3. CASE FreshVolumes
    BY <1>3 DEF FreshVolumes
  <1>4. CASE RestoreDatabase
    <2>1. dump \in Sets
      BY <1>4, SoundIsDone, RecordAssumption DEF RestoreDatabase, SetUpInv
    <2> QED BY <1>4, <2>1 DEF RestoreDatabase
  <1>5. CASE RestoreOutbox
    <2>1. rat \in 1 .. 3 /\ Order[rat] \in Producer
      BY <1>5, Three DEF RestoreOutbox
    <2>2. copy[Order[rat]].rows \in Sets /\ copy[Order[rat]].published \in Sets
      BY <2>1
    <2> QED BY <1>5, <2>1, <2>2 DEF RestoreOutbox
  <1>6. ASSUME NEW services \in Services, StartStack(services) PROVE TypeOK'
    BY <1>6, RecordAssumption DEF StartStack
  <1>7. CASE Audit
    <2>1. rat \in 1 .. 3
      BY <1>7, Three DEF Audit
    <2>2. Found \in Sets
      BY DEF Found, Of
    <2>3. rat' \in 1 .. 4 /\ rpc' \in {"audit", "replay"}
      <3>1. /\ rat' = rat + 1 \/ rat' = rat
            /\ rpc' = "audit" \/ rpc' = "replay"
        BY <1>7, AuditStep, Zenon
      <3> QED BY <2>1, <3>1
    <2>4. missing' \in Sets
      <3>1. missing' = missing \/ missing' = Found
        BY <1>7, AuditStep, Zenon
      <3> QED BY <2>2, <3>1
    <2>5. failed' \in BOOLEAN
      <3>1. failed' = failed \/ failed' = TRUE
        BY <1>7, AuditStep, Zenon
      <3> QED BY <3>1
    <2> QED BY <1>7, <2>3, <2>4, <2>5, AuditStep
  <1>8. CASE Replay
    <2>1. rat \in 1 .. 3
      BY <1>8 DEF Replay, AuditInv
    <2>2. rat' \in 1 .. 4 /\ rpc' \in {"audit", "replay"}
      BY <1>8, <2>1, ReplayStep
    <2>3. missing' \in Sets /\ broker' \in Sets
      BY <1>8, ReplayStep
    <2>4. failed' \in BOOLEAN
      BY <1>8, ReplayStep
    <2> QED BY <1>8, <2>2, <2>3, <2>4, ReplayStep
  <1>9. CASE Verdict
    BY <1>9 DEF Verdict
  <1>10. CASE RestoreFails
    BY <1>10 DEF RestoreFails
  <1> QED BY <1>1, <1>2, <1>3, <1>4, <1>5, <1>6, <1>7, <1>8, <1>9, <1>10 DEF Restore

LEMMA TypeRestoreStarts ==
  ASSUME TypeOK, NEW j \in Project, NEW given, RestoreStarts(j, given)
  PROVE  TypeOK'
  BY DEF TypeOK, Sets, RestoreStarts, Target, stackVars, backupVars

-----------------------------------------------------------------------------
(***************************************************************************)
(* A record on its way stays on its way.                                   *)
(***************************************************************************)

\* A step of a stack: no row leaves before its record is stored or erased, and
\* nothing pending or delivered is dropped unless a wipe voided it.
Flow ==
  /\ ingest_log \subseteq ingest_log'
  /\ \A m \in rows \ rows' : m \in ingest_log \/ Erased(m)
  /\ \A m \in rows \ published :
       m \in rows' \ published' \/ m \in broker' \cup ingest_log' \cup void'
  /\ broker \subseteq broker' \cup ingest_log'
  /\ void \subseteq void'

LEMMA FlowKeeps ==
  ASSUME Flow, NEW m
  PROVE  (Known(m) => Known(m)') /\ (Safe(m) => Safe(m)')
  <1>1. Erased(m) => Erased(m)'
    BY DEF Flow, Erased
  <1> QED BY <1>1 DEF Flow, Known, Safe, Recoverable, Erased

LEMMA PublishFlow == ASSUME NEW m \in Record, Publish(m) PROVE Flow
  BY DEF Publish, Flow

LEMMA MarkPublishedFlow ==
  ASSUME StackInv, NEW m \in Record, MarkPublished(m) PROVE Flow
  BY DEF MarkPublished, Flow, StackInv

LEMMA StoreFlow == ASSUME TypeOK, StackInv, NEW m \in Record, Store(m) PROVE Flow
  <1>1. void \subseteq void'
    BY DEF Store, StackInv, TypeOK, Of
  <1> QED BY <1>1 DEF Store, Flow

LEMMA PurgeFlow ==
  ASSUME TypeOK, NEW w \in Record, PurgeWipe(w) PROVE Flow
  <1> DEFINE gone == {m \in Of("api", rows) : m <= w}
  <1>1. /\ w \in Wipe \cap ingest_log /\ gone \subseteq published
        /\ rows' = rows \ gone /\ published' = published \ gone
        /\ broker' = broker /\ ingest_log' = ingest_log /\ void' = void
    BY DEF PurgeWipe
  <1>2. ASSUME NEW m \in gone PROVE m \in ingest_log \/ Erased(m)
    <2>1. m \in Record /\ m <= w /\ Owner[m] = "api"
      BY DEF Of, TypeOK, Sets
    <2>2. m = w \/ m < w
      BY <2>1, RecordAssumption
    <2> QED BY <1>1, <2>1, <2>2 DEF Erased
  <1> HIDE DEF gone
  <1> QED BY <1>1, <1>2 DEF Flow

\* What the enricher discards, a committed wipe has voided.
LEMMA DiscardFlow == ASSUME StackInv, DiscardModelOutput PROVE Flow
  <1>1. /\ ingest_log' = ingest_log /\ broker' = broker /\ void' = void
        /\ \A m \in rows \ rows' : m \in void
        /\ \A m \in rows \ published : m \in rows' \ published' \/ m \in void
    BY DEF DiscardModelOutput, Of
  <1> QED BY <1>1 DEF Flow, Erased

LEMMA StopFlow ==
  ASSUME Down \/ \E p \in Producer : StopProducer(p) PROVE Flow
  BY DEF Down, StopProducer, Flow

LEMMA ReplayFlow == ASSUME Replay PROVE Flow
  <1>1. rows' = rows /\ published' = published /\ ingest_log' = ingest_log
        /\ broker \subseteq broker' /\ void' = void
    BY ReplayStep
  <1> QED BY <1>1 DEF Flow

LEMMA StillFlow == ASSUME UNCHANGED stackVars PROVE Flow
  BY DEF stackVars, Flow

-----------------------------------------------------------------------------
(***************************************************************************)
(* A stack moves, under a backup or a restore.                             *)
(***************************************************************************)

\* The steps of a stack, whoever runs it.
Moving ==
  \/ \E m \in Record : Publish(m) \/ MarkPublished(m) \/ Store(m) \/ PurgeWipe(m)
  \/ DiscardModelOutput
  \/ Down \/ \E p \in Producer : StopProducer(p)

LEMMA MovingFlow == ASSUME Inv, Moving PROVE Flow
  BY PublishFlow, MarkPublishedFlow, StoreFlow, PurgeFlow, DiscardFlow, StopFlow
  DEF Moving, Inv

LEMMA MovingFrame ==
  ASSUME Moving
  PROVE  /\ Moves /\ phase' \in {phase, "stopped"}
         /\ UNCHANGED <<accepted, backupVars, restoreVars>> /\ purged \subseteq purged'
  BY DEF Moving, Publish, MarkPublished, Store, PurgeWipe, DiscardModelOutput, Down,
         StopProducer, Moves

LEMMA MovingStack == ASSUME Inv, Moving PROVE StackInv'
  <1>1. ASSUME NEW m \in Record, Publish(m) PROVE StackInv'
    BY <1>1 DEF Publish, Inv, StackInv
  <1>2. ASSUME NEW m \in Record, MarkPublished(m) PROVE StackInv'
    BY <1>2 DEF MarkPublished, Inv, StackInv
  <1>3. ASSUME NEW m \in Record, Store(m) PROVE StackInv'
    BY <1>3 DEF Store, Inv, StackInv, Of
  <1>4. ASSUME NEW m \in Record, PurgeWipe(m) PROVE StackInv'
    BY <1>4 DEF PurgeWipe, Inv, StackInv
  <1>5. ASSUME Down PROVE StackInv'
    BY <1>5 DEF Down, Inv, StackInv
  <1>6. ASSUME NEW p \in Producer, StopProducer(p) PROVE StackInv'
    BY <1>6 DEF StopProducer, Inv, StackInv
  <1>7. ASSUME DiscardModelOutput PROVE StackInv'
    BY <1>7 DEF DiscardModelOutput, Inv, StackInv, TypeOK, Sets, Of
  <1> QED BY <1>1, <1>2, <1>3, <1>4, <1>5, <1>6, <1>7 DEF Moving

LEMMA MovingLive == ASSUME Inv, Moving PROVE LiveInv' /\ Purged'
  <1>1. ASSUME NEW m \in Record, Publish(m) PROVE LiveInv' /\ Purged'
    BY <1>1 DEF Publish, Inv, LiveInv, Purged, restoreVars
  <1>2. ASSUME NEW m \in Record, MarkPublished(m) PROVE LiveInv' /\ Purged'
    BY <1>2 DEF MarkPublished, Inv, LiveInv, Purged, restoreVars
  <1>3. ASSUME NEW m \in Record, Store(m) PROVE LiveInv' /\ Purged'
    BY <1>3 DEF Store, Inv, LiveInv, Purged, restoreVars
  <1>4. ASSUME NEW m \in Record, PurgeWipe(m) PROVE LiveInv' /\ Purged'
    BY <1>4 DEF PurgeWipe, Inv, LiveInv, Purged, restoreVars, Of
  <1>5. ASSUME Down PROVE LiveInv' /\ Purged'
    BY <1>5 DEF Down, Inv, LiveInv, Purged, restoreVars
  <1>6. ASSUME NEW p \in Producer, StopProducer(p) PROVE LiveInv' /\ Purged'
    BY <1>6 DEF StopProducer, Inv, LiveInv, Purged, restoreVars
  <1>7. ASSUME DiscardModelOutput PROVE LiveInv' /\ Purged'
    BY <1>7 DEF DiscardModelOutput, Inv, LiveInv, Purged, restoreVars, Of
  <1> QED BY <1>1, <1>2, <1>3, <1>4, <1>5, <1>6, <1>7 DEF Moving

\* What the scripts hold is theirs; a purge only makes the backup owe less.
LEMMA MovingBackup == ASSUME Inv, Moving PROVE BackupInv' /\ CopyInv'
  <1>1. UNCHANGED <<accepted, backupVars, target>> /\ purged \subseteq purged'
    BY MovingFrame DEF restoreVars
  <1>2. BackupInv'
    BY <1>1 DEF Inv, BackupInv, backupVars, Copied
  <1>3. CopyInv'
    BY <1>1 DEF Inv, CopyInv, backupVars, Copied, Of
  <1> QED BY <1>2, <1>3

\* No stack moves between down -v and the start of the services.
LEMMA MovingSetUp == ASSUME Inv, Moving PROVE SetUpInv'
  <1>1. /\ Moves /\ phase' \in {phase, "stopped"}
        /\ UNCHANGED <<backupVars, restoreVars>>
    BY MovingFrame
  <1>2. rpc \notin {"database", "outboxes"}
    BY <1>1 DEF Inv, SetUpInv, Moves
  <1>3. ~ Refused => ~ Refused'
    BY <1>1 DEF Refused, Running, restoreVars
  <1> QED BY <1>1, <1>2, <1>3 DEF Inv, SetUpInv, backupVars, restoreVars

LEMMA MovingRestored == ASSUME Inv, Moving PROVE RestoredInv' /\ AuditInv'
  <1>1. UNCHANGED <<backupVars, restoreVars>>
    BY MovingFrame
  <1>2. \A m : (Known(m) => Known(m)') /\ (Safe(m) => Safe(m)')
    BY MovingFlow, FlowKeeps
  <1>3. ASSUME Restored PROVE dump \subseteq ingest_log'
    BY <1>3, MovingFlow DEF Inv, RestoredInv, Flow
  <1>4. Collected \cap (broker \cup ingest_log) \subseteq rows
          => Collected \cap (broker' \cup ingest_log') \subseteq rows'
    <2>1. ASSUME NEW m \in Record, PurgeWipe(m)
          PROVE  /\ broker' = broker /\ ingest_log' = ingest_log
                 /\ Collected \cap rows \subseteq rows'
      BY <2>1, RecordAssumption DEF PurgeWipe, Of
    <2>2. ASSUME NEW m \in Record, Publish(m)
          PROVE  m \in rows /\ broker' = broker \cup {m}
                 /\ ingest_log' = ingest_log /\ rows' = rows
      BY <2>2 DEF Publish
    <2>3. ASSUME NEW m \in Record, MarkPublished(m)
          PROVE  broker' = broker /\ ingest_log' = ingest_log /\ rows' = rows
      BY <2>3 DEF MarkPublished
    <2>4. ASSUME NEW m \in Record, Store(m)
          PROVE  m \in broker /\ broker' \subseteq broker
                 /\ ingest_log' = ingest_log \cup {m} /\ rows' = rows
      BY <2>4 DEF Store
    <2>5. ASSUME Down \/ \E p \in Producer : StopProducer(p)
          PROVE  broker' = broker /\ ingest_log' = ingest_log /\ rows' = rows
      BY <2>5 DEF Down, StopProducer
    <2>6. ASSUME DiscardModelOutput
          PROVE  /\ broker' = broker /\ ingest_log' = ingest_log
                 /\ Collected \cap rows \subseteq rows'
      BY <2>6, RecordAssumption DEF DiscardModelOutput, Of
    <2> QED BY <2>1, <2>2, <2>3, <2>4, <2>5, <2>6 DEF Moving
  <1>5. RestoredInv'
    BY <1>1, <1>2, <1>3, <1>4
    DEF Inv, RestoredInv, Restored, Copied, backupVars, restoreVars
  <1>6. AuditInv'
    BY <1>1, <1>2 DEF Inv, AuditInv, backupVars, restoreVars
  <1> QED BY <1>5, <1>6

LEMMA TypeMoving == ASSUME TypeOK, Moving PROVE TypeOK'
  BY TypeDeliver, TypeDiscard, TypeStop DEF Moving

LEMMA MovingInv == Inv /\ Moving => Inv'
  <1> SUFFICES ASSUME Inv, Moving PROVE Inv' OBVIOUS
  <1>1. TypeOK'
    BY TypeMoving DEF Inv
  <1> QED
    BY <1>1, MovingStack, MovingLive, MovingBackup, MovingSetUp, MovingRestored DEF Inv

LEMMA AcceptInv == ASSUME Inv, NEW m \in Record, Accept(m) PROVE Inv'
  <1> USE DEF Accept
  <1>1. TypeOK'
    BY TypeDeliver DEF Inv
  <1>2. target = None /\ rpc = "idle" /\ rexit = None
    BY DEF Inv, SetUpInv, TypeOK
  <1>3. UNCHANGED <<backupVars, restoreVars>>
    OBVIOUS
  <1>4. StackInv' /\ LiveInv' /\ Purged'
    BY DEF Inv, StackInv, LiveInv, Purged
  <1>5. BackupInv' /\ CopyInv'
    BY <1>3 DEF Inv, BackupInv, CopyInv, backupVars, restoreVars, Copied, Of
  <1>6. SetUpInv' /\ RestoredInv' /\ AuditInv'
    BY <1>2, <1>3, RecordAssumption
    DEF Inv, SetUpInv, RestoredInv, AuditInv, Restored, restoreVars, backupVars
  <1> QED BY <1>1, <1>4, <1>5, <1>6 DEF Inv

-----------------------------------------------------------------------------
(***************************************************************************)
(* backup-state.sh.                                                        *)
(***************************************************************************)

\* The backup reads the stack and changes nothing of it.
LEMMA BackupFrame ==
  ASSUME Inv, Backup \/ BackupFails
  PROVE  /\ UNCHANGED <<stackVars, accepted, purged, restoreVars>>
         /\ bpc \in {"idle", "dump", "count", "copy"}
         /\ target = None /\ rpc = "idle" /\ rexit = None
  <1>1. /\ UNCHANGED <<stackVars, accepted, purged, restoreVars>>
        /\ bpc \in {"idle", "dump", "count", "copy"}
    BY DEF Backup, BackupFails, BackupStarts, Dump, CountRows, CopyOutbox, WriteManifest
  <1>2. target = None /\ rpc = "idle" /\ rexit = None
    BY <1>1 DEF Inv, BackupInv, SetUpInv, TypeOK
  <1> QED BY <1>1, <1>2

LEMMA BackupRest ==
  ASSUME Inv, Backup \/ BackupFails
  PROVE  StackInv' /\ LiveInv' /\ Purged' /\ SetUpInv' /\ RestoredInv' /\ AuditInv'
  <1>1. /\ UNCHANGED <<stackVars, accepted, purged, restoreVars>>
        /\ rpc = "idle" /\ rexit = None
    BY BackupFrame
  <1>2. StackInv' /\ LiveInv' /\ Purged'
    BY <1>1 DEF Inv, StackInv, LiveInv, Purged, stackVars, restoreVars
  <1>3. SetUpInv' /\ RestoredInv' /\ AuditInv'
    BY <1>1, RecordAssumption
    DEF Inv, SetUpInv, RestoredInv, AuditInv, Restored, restoreVars, stackVars
  <1> QED BY <1>2, <1>3

LEMMA BackupStartsKeeps == ASSUME Inv, BackupStarts PROVE BackupInv' /\ CopyInv'
  <1>1. bat = 1 /\ target = None
    BY DEF BackupStarts, Inv, BackupInv
  <1> QED BY <1>1 DEF BackupStarts, Inv, BackupInv, CopyInv, restoreVars, Copied, Of

\* The ledger is dumped before any outbox is copied.
LEMMA DumpKeeps == ASSUME Inv, Dump PROVE BackupInv' /\ CopyInv'
  <1> USE DEF Dump, restoreVars, stackVars
  <1>1. target = None /\ ingest_log \subseteq accepted /\ ingest_log \subseteq Record
    BY DEF Inv, BackupInv, LiveInv, TypeOK, Sets
  <1>2. dump' # None
    BY <1>1, RecordAssumption
  <1>3. bat = 1 /\ \A p \in Producer : copy[p] = NoCopy
    BY DEF Inv, BackupInv
  <1>4. BackupInv'
    BY <1>1, <1>2, <1>3, Three DEF Inv, StackInv, BackupInv, NoCopy, Copied
  <1>5. CopyInv'
    BY <1>3 DEF CopyInv, NoCopy, Copied, Producer
  <1> QED BY <1>4, <1>5

\* The producers come one after the other, each once.
LEMMA OrderOnce ==
  /\ \A i, j \in 1 .. 3 : Order[i] = Order[j] => i = j
  /\ \A p \in Producer : \E i \in 1 .. 3 : p = Order[i]
  BY DEF Order, Producer

LEMMA CountRowsKeeps == ASSUME Inv, CountRows PROVE BackupInv' /\ CopyInv'
  <1>1. /\ bpc = "count" /\ bat \in 1 .. 3 /\ Order[bat] \in Producer
        /\ UNCHANGED <<accepted, purged, dump, dumpVoid, protects, manifest, target>>
    BY Three DEF CountRows, Inv, TypeOK, restoreVars
  <1>2. CASE Order[bat] \in up
    <2>1. bpc' = "copy" /\ bat' = bat /\ copy' = copy
      BY <1>2 DEF CountRows
    <2> QED BY <1>1, <2>1 DEF Inv, BackupInv, CopyInv, Copied, Of
  <1>3. CASE Order[bat] \notin up
    <2>1. /\ bpc' = "count" /\ bat' = bat + 1
          /\ copy' = [copy EXCEPT ![Order[bat]].state = "absent"]
      BY <1>1, <1>3 DEF CountRows
    <2>2. \A p \in Producer :
            /\ copy'[p].rows = copy[p].rows /\ copy'[p].published = copy[p].published
            /\ copy'[p].state = IF p = Order[bat] THEN "absent" ELSE copy[p].state
      BY <1>1, <2>1 DEF Inv, TypeOK
    <2>3. BackupInv'
      <3>1. \A p \in Producer : ~ Copied(p)' => copy'[p].rows = {}
        BY <1>1, <2>2 DEF Inv, BackupInv, Copied, NoCopy
      <3>2. \A i \in 1 .. 3 : i >= bat' => copy'[Order[i]] = NoCopy
        <4> SUFFICES ASSUME NEW i \in 1 .. 3, i >= bat + 1 PROVE copy'[Order[i]] = NoCopy
          BY <2>1
        <4>1. Order[i] # Order[bat] /\ Order[i] \in Producer
          BY <1>1, OrderOnce, Three
        <4>2. copy'[Order[i]] = copy[Order[i]]
          BY <2>1, <4>1 DEF Inv, TypeOK
        <4> QED BY <1>1, <4>2 DEF Inv, BackupInv
      <3> QED BY <1>1, <2>1, <2>2, <3>1, <3>2 DEF Inv, BackupInv, Of
    <2>4. CopyInv'
      BY <1>1, <2>1, <2>2, Three, OrderOnce DEF Inv, CopyInv, Copied, Of, TypeOK, Producer
    <2> QED BY <2>3, <2>4
  <1> QED BY <1>2, <1>3

\* An outbox is copied whole, with the rows its ledger does not have.
LEMMA CopyOutboxKeeps == ASSUME Inv, CopyOutbox PROVE BackupInv' /\ CopyInv'
  <1> DEFINE p    == Order[bat]
             held == Of(p, rows)
             new  == [state |-> "taken", rows |-> held, published |-> held \cap published]
  <1>1. /\ bpc = "copy" /\ bat \in 1 .. 3 /\ p \in Producer /\ target = None
        /\ UNCHANGED <<accepted, purged, dump, dumpVoid, protects, manifest, target>>
        /\ dump # None
    BY Three DEF CopyOutbox, Inv, TypeOK, BackupInv, restoreVars
  <1>2. \/ copy' = copy /\ bat' = bat /\ bpc' = "failed"
        \/ copy' = [copy EXCEPT ![p] = new] /\ bat' = bat + 1 /\ bpc' = "count"
    BY DEF CopyOutbox
  <1>3. CASE copy' = copy /\ bat' = bat /\ bpc' = "failed"
    BY <1>1, <1>3 DEF Inv, BackupInv, CopyInv, Copied, Of
  <1>4. CASE copy' = [copy EXCEPT ![p] = new] /\ bat' = bat + 1 /\ bpc' = "count"
    <2>1. /\ new.state = "taken" /\ new.rows = held
          /\ new.published \subseteq new.rows /\ held \subseteq Of(p, Record)
      BY DEF Inv, TypeOK, Sets, Of
    <2> HIDE DEF new
    <2>2. \A q \in Producer : copy'[q] = IF q = p THEN new ELSE copy[q]
      BY <1>1, <1>4 DEF Inv, TypeOK
    <2>3. BackupInv'
      <3>1. \A i \in 1 .. 3 : i >= bat' => copy'[Order[i]] = NoCopy
        <4> SUFFICES ASSUME NEW i \in 1 .. 3, i >= bat + 1 PROVE copy'[Order[i]] = NoCopy
          BY <1>4
        <4>1. Order[i] # p /\ Order[i] \in Producer
          BY <1>1, OrderOnce, Three
        <4> QED BY <1>1, <2>2, <4>1 DEF Inv, BackupInv
      <3>2. \A q \in Producer : ~ Copied(q)' => copy'[q].rows = {}
        BY <2>1, <2>2 DEF Inv, BackupInv, Copied
      <3>3. \A q \in Producer : /\ copy'[q].published \subseteq copy'[q].rows
                                /\ copy'[q].rows \subseteq Of(q, Record)
        BY <2>1, <2>2 DEF Inv, BackupInv
      <3> QED BY <1>1, <1>4, <3>1, <3>2, <3>3 DEF Inv, BackupInv, Of
    <2>4. Of(p, protects \ purged) \subseteq held
      BY <1>1 DEF Inv, BackupInv, LiveInv, Of
    <2>5. ASSUME NEW i \in 1 .. 3, i < bat'
          PROVE  \/ copy'[Order[i]].state = "absent"
                 \/ Of(Order[i], protects \ purged) \subseteq copy'[Order[i]].rows
      <3>1. CASE i = bat
        BY <1>1, <2>1, <2>2, <2>4, <3>1
      <3>2. CASE i # bat
        <4>1. i < bat /\ Order[i] # p /\ Order[i] \in Producer
          BY <1>1, <1>4, <2>5, <3>2, OrderOnce, Three
        <4> QED BY <2>2, <4>1 DEF Inv, CopyInv
      <3> QED BY <3>1, <3>2
    <2>6. Copied("ingestor")' => Collected \cap dump \subseteq copy'["ingestor"].rows
      <3>1. CASE p = "ingestor"
        <4>1. ASSUME NEW m \in Collected \cap dump PROVE m \in held
          <5>1. m \in Record /\ Owner[m] = "ingestor" /\ m \in accepted
            BY <1>1, RecordAssumption DEF Inv, BackupInv
          <5>2. m \in rows
            BY <1>1, <5>1 DEF Inv, LiveInv, Purged
          <5> QED BY <3>1, <5>1, <5>2 DEF Of
        <4> QED BY <1>1, <2>1, <2>2, <3>1, <4>1
      <3>2. CASE p # "ingestor"
        BY <1>1, <2>2, <3>2 DEF Inv, CopyInv, Copied, Producer
      <3> QED BY <3>1, <3>2
    <2>7. CopyInv'
      BY <1>1, <2>5, <2>6 DEF CopyInv, Of
    <2> QED BY <2>3, <2>7
  <1> QED BY <1>2, <1>3, <1>4

LEMMA BackupInvKept == Inv /\ (Backup \/ BackupFails) => Inv'
  <1> SUFFICES ASSUME Inv, Backup \/ BackupFails PROVE Inv' OBVIOUS
  <1>1. TypeOK'
    BY TypeBackup DEF Inv
  <1>2. ASSUME WriteManifest PROVE BackupInv' /\ CopyInv'
    <2>1. bat = 4 /\ bpc = "count" /\ dump # None
      BY <1>2, Three DEF WriteManifest, Inv, TypeOK, BackupInv
    <2> QED
      BY <1>2, <2>1 DEF WriteManifest, Inv, BackupInv, CopyInv, Copied, Of, restoreVars
  <1>3. ASSUME BackupFails PROVE BackupInv' /\ CopyInv'
    BY <1>3 DEF BackupFails, Inv, BackupInv, CopyInv, Copied, Of, restoreVars
  <1>4. BackupInv' /\ CopyInv'
    BY <1>2, <1>3, BackupStartsKeeps, DumpKeeps, CountRowsKeeps, CopyOutboxKeeps DEF Backup
  <1> QED BY <1>1, <1>4, BackupRest DEF Inv

LEMMA DamageInv == Inv /\ Damage => Inv'
  <1> SUFFICES ASSUME Inv, Damage PROVE Inv' OBVIOUS
  <1> USE DEF Damage
  <1>1. TypeOK'
    BY TypeBackup DEF Inv
  <1>2. UNCHANGED <<stackVars, accepted, purged, restoreVars>> /\ manifest # None
        /\ UNCHANGED <<bpc, bat, counted, dump, dumpVoid, copy, protects>> /\ manifest' # None
    BY RecordAssumption
  <1>3. StackInv' /\ LiveInv' /\ Purged'
    BY <1>2 DEF Inv, StackInv, LiveInv, Purged, stackVars, restoreVars
  <1>4. bpc = "done"
    BY <1>2, SoundIsDone DEF Inv
  <1>5. BackupInv' /\ CopyInv'
    BY <1>2, <1>4 DEF Inv, BackupInv, CopyInv, Copied, Of, restoreVars
  <1>6. rpc \in {"idle", "exited"} /\ rpc' = rpc
    BY DEF restoreVars
  <1>7. SetUpInv'
    BY <1>2, <1>6 DEF Inv, SetUpInv, restoreVars
  <1>8. \A m : (Known(m) => Known(m)') /\ (Safe(m) => Safe(m)')
    BY <1>2, StillFlow, FlowKeeps
  <1>9. RestoredInv' /\ AuditInv'
    BY <1>2, <1>6, <1>8
    DEF Inv, RestoredInv, AuditInv, Restored, Copied, stackVars, restoreVars
  <1> QED BY <1>1, <1>3, <1>5, <1>7, <1>9 DEF Inv

-----------------------------------------------------------------------------
(***************************************************************************)
(* restore-state.sh.                                                       *)
(***************************************************************************)

LEMMA RestoreStartsInv ==
  ASSUME Inv, NEW j \in Project, NEW given, RestoreStarts(j, given)
  PROVE  Inv'
  <1> USE DEF RestoreStarts
  <1>1. TypeOK'
    BY TypeRestoreStarts DEF Inv
  <1>2. /\ rpc = "idle" /\ rpc' = "verify" /\ target' = j /\ j # None
        /\ bpc \in {"done", "failed"} /\ rexit = None /\ rat = 1
        /\ UNCHANGED <<accepted, purged, backupVars, rat, missing, failed, rexit>>
    BY RecordAssumption DEF Inv, SetUpInv, TypeOK
  <1>3. StackInv'
    <2>1. CASE j = Live
      BY <2>1 DEF Target, stackVars, Inv, StackInv
    <2>2. CASE j # Live
      BY <2>2 DEF Target, StackInv
    <2> QED BY <2>1, <2>2
  <1>4. LiveInv' /\ Purged'
    BY <1>2 DEF Inv, LiveInv, Purged
  <1>5. BackupInv' /\ CopyInv'
    BY <1>2 DEF Inv, BackupInv, CopyInv, backupVars, Copied, Of
  <1>6. SetUpInv' /\ RestoredInv' /\ AuditInv'
    BY <1>2, RecordAssumption DEF SetUpInv, RestoredInv, AuditInv, Restored
  <1> QED BY <1>1, <1>3, <1>4, <1>5, <1>6 DEF Inv

\* A restore reads the backup, and the live stack's history stays what it was.
LEMMA RestoreFrame ==
  ASSUME Inv, Restore \/ RestoreFails
  PROVE  /\ rpc # "idle" /\ rpc # "exited" /\ rexit = None /\ target # None
         /\ UNCHANGED <<accepted, purged, backupVars, target>>
  <1>1. /\ rpc # "idle" /\ rpc # "exited"
        /\ UNCHANGED <<accepted, purged, backupVars, target>>
    BY DEF Restore, RestoreFails, VerifyBackup, CheckTarget, FreshVolumes, RestoreDatabase,
           RestoreOutbox, StartStack, Audit, Replay, Verdict, RKeep
  <1>2. rexit = None /\ target # None
    BY <1>1 DEF Inv, SetUpInv
  <1> QED BY <1>1, <1>2

LEMMA RestoreRest ==
  ASSUME Inv, Restore \/ RestoreFails
  PROVE  TypeOK' /\ LiveInv' /\ Purged' /\ BackupInv' /\ CopyInv'
  <1>1. /\ target # None
        /\ UNCHANGED <<accepted, purged, backupVars, target>>
    BY RestoreFrame
  <1>2. TypeOK'
    BY TypeRestore DEF Inv
  <1>3. LiveInv' /\ Purged'
    BY <1>1 DEF Inv, LiveInv, Purged
  <1>4. BackupInv' /\ CopyInv'
    BY <1>1 DEF Inv, BackupInv, CopyInv, backupVars, Copied, Of
  <1> QED BY <1>2, <1>3, <1>4

\* The rest of the invariant.
StepInv == StackInv /\ SetUpInv /\ RestoredInv /\ AuditInv

\* Before anything is destroyed.
LEMMA VerifyInv == ASSUME Inv, VerifyBackup \/ CheckTarget PROVE StepInv'
  <1>1. UNCHANGED stackVars /\ UNCHANGED <<rat, missing, failed>>
        /\ UNCHANGED <<accepted, purged, backupVars, target, flags>> /\ rexit = None
    BY RestoreFrame DEF VerifyBackup, CheckTarget, Restore, RKeep
  <1>2. StackInv'
    BY <1>1 DEF Inv, StackInv, stackVars
  <1>3. Refused' = Refused
    BY <1>1 DEF Refused, Running, stackVars
  <1>4. ASSUME VerifyBackup PROVE SetUpInv' /\ RestoredInv' /\ AuditInv'
    BY <1>1, <1>4, RecordAssumption
    DEF VerifyBackup, RExit, RGoto, Inv, SetUpInv, RestoredInv, AuditInv, Restored, backupVars
  <1>5. ASSUME CheckTarget PROVE SetUpInv' /\ RestoredInv' /\ AuditInv'
    BY <1>1, <1>3, <1>5, RecordAssumption
    DEF CheckTarget, RExit, RGoto, Inv, SetUpInv, RestoredInv, AuditInv, Restored, backupVars
  <1> QED BY <1>2, <1>4, <1>5 DEF StepInv

\* Volumes, database, outboxes: the target holds what the copies hold.
LEMMA FreshInv == ASSUME Inv, FreshVolumes PROVE StepInv'
  <1>1. UNCHANGED <<accepted, purged, backupVars, target>> /\ rexit = None
    BY RestoreFrame DEF Restore
  <1> QED
    BY <1>1, RecordAssumption
    DEF FreshVolumes, RGoto, Inv, StepInv, StackInv, SetUpInv, RestoredInv, AuditInv,
        Restored, backupVars

LEMMA DatabaseInv == ASSUME Inv, RestoreDatabase PROVE StepInv'
  <1>1. UNCHANGED <<accepted, purged, backupVars, target>> /\ rexit = None
    BY RestoreFrame DEF Restore
  <1> QED
    BY <1>1, RecordAssumption
    DEF RestoreDatabase, RGoto, Inv, StepInv, StackInv, SetUpInv, BackupInv, RestoredInv,
        AuditInv, Restored, backupVars

LEMMA OutboxInv == ASSUME Inv, RestoreOutbox PROVE StepInv'
  <1>1. /\ UNCHANGED <<accepted, purged, backupVars, target>> /\ rexit = None
        /\ UNCHANGED <<phase, up, confirmed, broker, ingest_log, void, rpc, rexit, missing, failed>>
        /\ rpc = "outboxes" /\ rat \in 1 .. 3 /\ Order[rat] \in Producer /\ rat' = rat + 1
    BY RestoreFrame, Three DEF Restore, RestoreOutbox, Inv, TypeOK
  <1>2. /\ rows \subseteq rows' /\ published' \subseteq published \cup copy[Order[rat]].published
        /\ published' \ published \subseteq rows'
        /\ copy[Order[rat]].rows \subseteq rows'
    BY <1>1 DEF RestoreOutbox, Inv, BackupInv
  <1>3. StackInv'
    BY <1>1, <1>2 DEF Inv, StackInv, SetUpInv
  <1>4. SetUpInv'
    BY <1>1, <1>2 DEF Inv, SetUpInv, backupVars
  <1>5. RestoredInv' /\ AuditInv'
    BY <1>1, RecordAssumption DEF RestoredInv, AuditInv, Restored
  <1> QED BY <1>3, <1>4, <1>5 DEF StepInv

LEMMA FailsInv == ASSUME Inv, RestoreFails PROVE StepInv'
  <1>1. UNCHANGED <<accepted, purged, backupVars, target>> /\ rexit = None
    BY RestoreFrame
  <1> QED
    BY <1>1, RecordAssumption
    DEF RestoreFails, RExit, Inv, StepInv, StackInv, SetUpInv, RestoredInv, AuditInv,
        Restored, backupVars, stackVars

\* The services start: from here on the copies are accounted for.
LEMMA StartInv ==
  ASSUME Inv, NEW services \in Services, StartStack(services)
  PROVE  StepInv'
  <1> USE DEF StartStack, RGoto
  <1>1. /\ UNCHANGED <<accepted, purged, backupVars, target>> /\ rexit = None
        /\ UNCHANGED <<rows, confirmed, published, broker, ingest_log, void, rexit>>
        /\ rpc = "outboxes" /\ rpc' = "audit" /\ rat = 4 /\ rat' = 1
    BY RestoreFrame, Three DEF Restore, Inv, TypeOK
  <1>2. /\ manifest = "sound" /\ broker = {} /\ ingest_log = dump
        /\ \A p \in Producer : copy[p].rows \subseteq rows
    BY <1>1, OrderOnce DEF Inv, SetUpInv
  <1>3. manifest # None
    BY <1>2, RecordAssumption
  <1>4. Copied("ingestor") => Collected \cap (broker \cup ingest_log) \subseteq rows
    BY <1>2, <1>3, SoundIsDone DEF Inv, CopyInv, Producer
  <1>5. RestoredInv'
    BY <1>1, <1>2, <1>3, <1>4 DEF RestoredInv, Known, backupVars, Copied
  <1>6. StackInv'
    BY <1>1 DEF Inv, StackInv
  <1>7. SetUpInv'
    BY <1>1 DEF Inv, SetUpInv, backupVars
  <1>8. AuditInv'
    BY <1>1, RecordAssumption DEF AuditInv
  <1> QED BY <1>5, <1>6, <1>7, <1>8 DEF StepInv

\* A copied record the audit does not name is safe.
LEMMA UnnamedIsSafe ==
  ASSUME Inv, rpc = "audit", rat \in 1 .. 3, NEW m \in copy[Order[rat]].rows
  PROVE  m \in Found \/ Safe(m)
  <1>1. Known(m) /\ m \in Of(Order[rat], Record)
    BY Three DEF Inv, BackupInv, RestoredInv, Restored
  <1> QED BY <1>1 DEF Known, Safe, Recoverable, Found, Of

LEMMA AuditKeeps == ASSUME Inv, Audit PROVE StepInv'
  <1>1. /\ UNCHANGED stackVars /\ UNCHANGED <<accepted, purged, backupVars, target, flags>>
        /\ rexit' = rexit /\ rexit = None /\ rpc = "audit" /\ rat \in 1 .. 3
    BY AuditStep, RestoreFrame DEF Restore, Inv, TypeOK
  <1>2. StackInv'
    BY <1>1 DEF Inv, StackInv, stackVars
  <1>3. \A m : (Known(m) => Known(m)') /\ (Safe(m) => Safe(m)')
    BY <1>1, StillFlow, FlowKeeps
  <1>4. /\ rpc' \in {"audit", "replay"}
        /\ rpc' = "replay" => rat' = rat /\ missing' = Found /\ failed' = failed
        /\ rpc' = "audit" =>
             /\ rat' = rat + 1
             /\ \/ ~ Copied(Order[rat]) /\ failed' = failed
                \/ failed' = TRUE
                \/ Found = {} /\ failed' = failed
    BY AuditStep
  <1>5. SetUpInv'
    BY <1>1, <1>4, RecordAssumption DEF Inv, SetUpInv, backupVars
  <1>6. RestoredInv'
    BY <1>1, <1>3, <1>4 DEF Inv, RestoredInv, Restored, stackVars, backupVars, Copied
  <1>7. ~ failed' => ~ failed
    BY <1>4
  <1>8. ASSUME ~ failed', NEW i \in 1 .. 3, i < rat', NEW m \in copy'[Order[i]].rows
        PROVE  Safe(m)'
    <2>1. copy' = copy
      BY <1>1 DEF backupVars
    <2>2. CASE i < rat
      BY <1>1, <1>3, <1>7, <1>8, <2>1, <2>2 DEF Inv, AuditInv
    <2>3. CASE ~ (i < rat)
      <3>1. i = rat /\ rpc' = "audit"
        BY <1>1, <1>4, <1>8, <2>3
      <3>2. m \notin Found
        BY <1>1, <1>4, <1>8, <2>1, <3>1, Three DEF Inv, BackupInv
      <3> QED BY <1>1, <1>3, <1>8, <2>1, <3>1, <3>2, UnnamedIsSafe
    <2> QED BY <2>2, <2>3
  <1>9. ASSUME rpc' = "replay", NEW m \in copy'[Order[rat']].rows
        PROVE  m \in missing' \/ Safe(m)'
    BY <1>1, <1>3, <1>4, <1>9, UnnamedIsSafe DEF backupVars
  <1>10. AuditInv'
    BY <1>1, <1>4, <1>8, <1>9, RecordAssumption DEF AuditInv
  <1> QED BY <1>2, <1>5, <1>6, <1>10 DEF StepInv

LEMMA ReplayKeeps == ASSUME Inv, Replay PROVE StepInv'
  <1>1. /\ rpc = "replay" /\ rexit' = rexit /\ rexit = None /\ rat \in 1 .. 3
        /\ UNCHANGED <<phase, up, rows, confirmed, published, ingest_log, void>>
        /\ UNCHANGED <<accepted, purged, backupVars, target, flags>>
    BY ReplayStep, RestoreFrame DEF Restore, Inv, TypeOK, AuditInv
  <1>2. \A m : (Known(m) => Known(m)') /\ (Safe(m) => Safe(m)')
    BY ReplayFlow, FlowKeeps
  <1>3. /\ broker \subseteq broker' /\ broker' \subseteq broker \cup published
        /\ ~ failed' => ~ failed
    <2>1. broker \subseteq broker' /\ broker' \subseteq broker \cup published
      BY ReplayStep
    <2>2. failed' = failed \/ failed' = TRUE
      BY ReplayStep, Zenon
    <2> QED BY <2>1, <2>2
  <1>4. StackInv'
    BY <1>1, <1>3 DEF Inv, StackInv
  <1>5. rpc' \in {"audit", "replay"}
    BY ReplayStep
  <1>6. SetUpInv'
    BY <1>1, <1>5, RecordAssumption DEF Inv, SetUpInv, backupVars
  <1>7. RestoredInv'
    BY <1>1, <1>2, <1>3, <1>5
    DEF Inv, StackInv, RestoredInv, Restored, backupVars, Copied
  <1>8. ASSUME ~ failed' \/ missing' # {}, NEW m \in copy[Order[rat]].rows
        PROVE  m \in missing' \/ Safe(m)'
    <2>1. PICK n \in published :
            /\ broker' = IF n \in ingest_log THEN broker ELSE broker \cup {n}
            /\ missing' = missing \ {n}
      BY <1>8, ReplayStep
    <2>2. n \in broker' \cup ingest_log'
      BY <1>1, <2>1
    <2>3. Safe(n)'
      BY <2>2 DEF Safe, Recoverable
    <2>4. m \in missing \/ Safe(m)
      BY <1>1 DEF Inv, AuditInv
    <2> QED BY <1>2, <2>1, <2>3, <2>4
  <1>9. AuditInv'
    <2>1. CASE missing' = {} /\ rpc' = "audit" /\ rat' = rat + 1
      <3>1. ASSUME ~ failed', NEW i \in 1 .. 3, i < rat', NEW m \in copy[Order[i]].rows
            PROVE  Safe(m)'
        <4>1. CASE i = rat
          BY <1>8, <2>1, <3>1, <4>1
        <4>2. CASE i # rat
          BY <1>1, <1>2, <1>3, <2>1, <3>1, <4>2 DEF Inv, AuditInv
        <4> QED BY <4>1, <4>2
      <3> QED BY <1>1, <2>1, <3>1, RecordAssumption DEF AuditInv, backupVars
    <2>2. CASE missing' # {} /\ rpc' = "replay" /\ rat' = rat
      BY <1>1, <1>2, <1>3, <1>8, <2>2, RecordAssumption DEF Inv, AuditInv, backupVars
    <2> QED BY <2>1, <2>2, ReplayStep
  <1> QED BY <1>4, <1>6, <1>7, <1>9 DEF StepInv

\* A verdict of 0 is given only when nothing was noticed.
LEMMA VerdictKeeps == ASSUME Inv, Verdict PROVE StepInv'
  <1>1. /\ UNCHANGED stackVars /\ UNCHANGED <<accepted, purged, backupVars, target, flags>>
        /\ rexit = None /\ rpc = "audit" /\ rpc' = "exited" /\ rat = 4 /\ failed' = failed
        /\ rexit' \in {0, 1, 4} /\ (rexit' = 0 => ~ failed)
    BY RestoreFrame, Three DEF Restore, Verdict, RExit, RKeep, Inv, TypeOK
  <1>2. StackInv'
    BY <1>1 DEF Inv, StackInv, stackVars
  <1>3. \A m : (Known(m) => Known(m)') /\ (Safe(m) => Safe(m)')
    BY <1>1, StillFlow, FlowKeeps
  <1>4. SetUpInv'
    BY <1>1, RecordAssumption DEF Inv, SetUpInv
  <1>5. RestoredInv'
    BY <1>1, <1>3 DEF Inv, RestoredInv, Restored, stackVars, backupVars, Copied
  <1>6. AuditInv'
    <2>1. ASSUME rexit' = 0, NEW p \in Producer, NEW m \in copy[p].rows PROVE Safe(m)'
      <3>1. PICK i \in 1 .. 3 : p = Order[i]
        BY OrderOnce
      <3> QED BY <1>1, <1>3, <2>1, <3>1 DEF Inv, AuditInv
    <2> QED BY <1>1, <2>1 DEF AuditInv, backupVars
  <1> QED BY <1>2, <1>4, <1>5, <1>6 DEF StepInv

LEMMA RestoreInvKept == Inv /\ (Restore \/ RestoreFails) => Inv'
  <1> SUFFICES ASSUME Inv, Restore \/ RestoreFails PROVE Inv' OBVIOUS
  <1>1. StepInv'
    BY VerifyInv, FreshInv, DatabaseInv, OutboxInv, StartInv, AuditKeeps, ReplayKeeps,
       VerdictKeeps, FailsInv DEF Restore
  <1> QED BY <1>1, RestoreRest DEF Inv, StepInv

-----------------------------------------------------------------------------

LEMMA InitInv == Init => Inv
  <1> SUFFICES ASSUME Init PROVE Inv OBVIOUS
  <1>1. TypeOK
    BY TypeInit
  <1>2. StackInv /\ LiveInv /\ Purged
    BY DEF Init, StackInv, LiveInv, Purged
  <1>3. BackupInv /\ CopyInv
    BY DEF Init, BackupInv, CopyInv, Copied, NoCopy
  <1>4. SetUpInv /\ RestoredInv /\ AuditInv
    BY RecordAssumption DEF Init, SetUpInv, RestoredInv, AuditInv, Restored
  <1> QED BY <1>1, <1>2, <1>3, <1>4 DEF Inv

LEMMA StutterInv == Inv /\ UNCHANGED vars => Inv'
  <1> SUFFICES ASSUME Inv, UNCHANGED vars PROVE Inv' OBVIOUS
  <1> USE DEF vars, stackVars, backupVars, restoreVars
  <1>1. TypeOK' /\ StackInv' /\ LiveInv' /\ Purged'
    BY DEF Inv, TypeOK, StackInv, LiveInv, Purged
  <1>2. BackupInv' /\ CopyInv'
    BY DEF Inv, BackupInv, CopyInv, Copied, Of
  <1>3. SetUpInv'
    BY DEF Inv, SetUpInv, Refused, Running
  <1>4. \A m : (Known(m) => Known(m)') /\ (Safe(m) => Safe(m)')
    BY StillFlow, FlowKeeps
  <1>5. RestoredInv' /\ AuditInv'
    BY <1>4 DEF Inv, RestoredInv, AuditInv, Restored, Copied
  <1> QED BY <1>1, <1>2, <1>3, <1>5 DEF Inv

LEMMA NextInv == Inv /\ [Next]_vars => Inv'
  <1> SUFFICES ASSUME Inv, [Next]_vars PROVE Inv' OBVIOUS
  <1>1. ASSUME NEW m \in Record, Accept(m) PROVE Inv'
    BY <1>1, AcceptInv
  <1>2. CASE Deliver \/ Down \/ \E p \in Producer : StopProducer(p)
    BY <1>2, MovingInv DEF Deliver, Moving
  <1>3. CASE Backup \/ BackupFails
    BY <1>3, BackupInvKept
  <1>4. CASE Damage
    BY <1>4, DamageInv
  <1>5. ASSUME NEW i \in Invocation, RestoreStarts(i[1], i[2]) PROVE Inv'
    <2>1. i[1] \in Project
      BY RecordAssumption
    <2> QED BY <1>5, <2>1, RestoreStartsInv
  <1>6. CASE Restore \/ RestoreFails
    BY <1>6, RestoreInvKept
  <1>7. CASE UNCHANGED vars
    BY <1>7, StutterInv
  <1> QED BY <1>1, <1>2, <1>3, <1>4, <1>5, <1>6, <1>7 DEF Next

LEMMA Invariance == Spec => []Inv
  <1> QED BY InitInv, NextInv, PTL DEF Spec

-----------------------------------------------------------------------------
(***************************************************************************)
(* What a backup and a restore promise.                                    *)
(***************************************************************************)

\* Every variable keeps its type, whatever stops, fails or is damaged.
THEOREM TypeCorrect == Spec => []TypeOK
  <1>1. Inv => TypeOK
    BY DEF Inv
  <1> QED BY <1>1, Invariance, PTL

\* backup-state.sh of a stack that keeps accepting, publishing, storing and wiping:
\* what was accepted before started_at is in the copies, unless a wipe erased it or
\* its producer was down.
THEOREM BackupHoldsWhatItProtects == Spec => []BackupIsWhole
  <1>1. ASSUME Inv PROVE BackupIsWhole
    <2> SUFFICES ASSUME bpc = "done", NEW m \in protects \ purged
                 PROVE  \/ copy[Owner[m]].state = "absent"
                        \/ m \in copy[Owner[m]].rows
      BY DEF BackupIsWhole
    <2>1. m \in Record /\ Owner[m] \in Producer /\ bat = 4
      BY <1>1, RecordAssumption DEF Inv, TypeOK, Sets, BackupInv
    <2>2. PICK i \in 1 .. 3 : Owner[m] = Order[i]
      BY <2>1, OrderOnce
    <2> QED BY <1>1, <2>1, <2>2 DEF Inv, CopyInv, Of
  <1> QED BY <1>1, Invariance, PTL

\* restore-state.sh exits 0 only when everything the copies hold is stored, queued or
\* owed by an outbox, however the stack moved under its audit and its replays.
THEOREM RestoreLosesNothing == Spec => []RestoreKeepsBackup
  <1>1. ASSUME Inv PROVE RestoreKeepsBackup
    <2> SUFFICES ASSUME rexit = 0, NEW m \in Record, m \in dump \cup copy[Owner[m]].rows
                 PROVE  Safe(m)
      BY DEF RestoreKeepsBackup, Safe
    <2>1. CASE m \in dump
      BY <1>1, <2>1 DEF Inv, RestoredInv, Restored, Safe, Recoverable
    <2>2. CASE m \in copy[Owner[m]].rows
      BY <1>1, <2>2, RecordAssumption DEF Inv, AuditInv
    <2> QED BY <2>1, <2>2
  <1> QED BY <1>1, Invariance, PTL

\* A restored ingestor outbox holds every committed envelope, so a wipe is not blocked
\* (wipe_user_data).
THEOREM RestoredStackCanBeWiped == Spec => []WipeStillPossible
  <1>1. Inv => WipeStillPossible
    BY DEF Inv, RestoredInv, Restored, WipeStillPossible, WipeBlocked
  <1> QED BY <1>1, Invariance, PTL

\* The ledger shrinks only by the two steps a restore takes after its guards.
THEOREM NothingDestroyedUnasked == Spec => DestroysOnlyWithConsent
  <1> DEFINE Consent ==
        ~ (ingest_log \subseteq ingest_log') /\ rpc # "idle" =>
          /\ manifest = "sound"
          /\ target = Live => "--overwrite-live-project" \in flags
          /\ target # Live /\ Running => "--overwrite-running-target" \in flags
  <1>1. ASSUME Inv, Next, rpc # "idle", ~ (ingest_log \subseteq ingest_log')
        PROVE  rpc = "fresh"
    <2>1. ASSUME NEW m \in Record, Accept(m) PROVE FALSE
      BY <1>1, <2>1 DEF Accept
    <2>2. CASE Deliver \/ Down \/ \E p \in Producer : StopProducer(p)
      BY <1>1, <2>2, MovingFlow DEF Deliver, Moving, Flow
    <2>3. CASE Backup \/ BackupFails
      BY <1>1, <2>3, BackupFrame
    <2>4. CASE Damage
      BY <1>1, <2>4 DEF Damage, stackVars
    <2>5. ASSUME NEW i \in Invocation, RestoreStarts(i[1], i[2]) PROVE FALSE
      BY <1>1, <2>5 DEF RestoreStarts
    <2>6. CASE RestoreFails
      BY <1>1, <2>6 DEF RestoreFails, stackVars
    <2>7. ASSUME VerifyBackup \/ CheckTarget \/ Verdict PROVE FALSE
      BY <1>1, <2>7 DEF VerifyBackup, CheckTarget, Verdict, stackVars
    <2>8. CASE FreshVolumes
      BY <2>8 DEF FreshVolumes
    <2>9. CASE RestoreDatabase
      BY <1>1, <2>9 DEF RestoreDatabase, Inv, SetUpInv
    <2>10. ASSUME RestoreOutbox \/ \E services \in Services : StartStack(services)
           PROVE  FALSE
      BY <1>1, <2>10 DEF RestoreOutbox, StartStack
    <2>11. ASSUME Audit \/ Replay PROVE FALSE
      BY <1>1, <2>11, AuditStep, ReplayStep DEF stackVars
    <2> QED BY <1>1, <2>1, <2>2, <2>3, <2>4, <2>5, <2>6, <2>7, <2>8, <2>9, <2>10, <2>11
            DEF Next, Restore
  <1>2. ASSUME Inv, [Next]_vars PROVE [Consent]_vars
    <2>1. ASSUME Next PROVE Consent
      BY <1>1, <1>2, <2>1 DEF Inv, SetUpInv, Refused
    <2> QED BY <1>2, <2>1
  <1> QED BY <1>2, Invariance, PTL DEF Spec, DestroysOnlyWithConsent

=============================================================================
