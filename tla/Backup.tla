------------------------------- MODULE Backup -------------------------------
(***************************************************************************)
(* The operational backup and restore: scripts/backup-state.sh copies a    *)
(* stack that keeps running (pg_dump, then one outbox after the other),    *)
(* scripts/restore-state.sh destroys a target project, rebuilds it from    *)
(* the copies and lets reconcile republish what the restored ingest_log    *)
(* does not account for.  Both talk to stacks whose publishers, consumer   *)
(* and wipe cleanup run meanwhile.                                         *)
(*                                                                         *)
(* A record is its number: records are accepted in that order, so it also  *)
(* stands for the row's place in its outbox.  A stack is what its volumes  *)
(* hold.  The write path is the one of module Delivery, cut down to the    *)
(* places a record can be in.                                              *)
(***************************************************************************)
EXTENDS Naturals, Sequences, FiniteSets

CONSTANTS
  Record,       \* numbers, in the order they are accepted
  Histories,    \* bound: the sets of records a behaviour may accept
  Owner,        \* Owner[m]: the producer whose outbox accepts m
  Wipe,         \* the user_data.wipe records
  Collected,    \* ingestor records that a wipe replays
  MaxFaults,    \* bound: stops, failed steps, damaged files
  Invocation,   \* the command lines of restore-state.sh: <<project, options>>
  Services,     \* the producers --services may name
  None

Project  == {"aow", "aow-restore"}
Live     == "aow"                              \* LIVE_PROJECT
Order    == <<"ingestor", "api", "enricher">>  \* both scripts' loops
Producer == {"ingestor", "api", "enricher"}
Option   == {"--overwrite-live-project", "--overwrite-running-target"}

ASSUME RecordAssumption ==
  /\ Record \subseteq Nat \ {0} /\ IsFiniteSet(Record)
  /\ Owner \in [Record -> Producer]
  /\ Wipe \subseteq {m \in Record : Owner[m] = "api"}
  /\ Collected \subseteq {m \in Record : Owner[m] = "ingestor"}
  /\ Invocation \subseteq Project \X SUBSET Option
  /\ Services \subseteq SUBSET Producer
  /\ Histories \subseteq SUBSET Record
  /\ MaxFaults \in Nat
  /\ None \notin 0 .. 4 /\ None \notin Project /\ None \notin {"sound", "damaged"}
  /\ \A set \in SUBSET Record : set # None

VARIABLES
  \* the stack: the live one, and from a restore's start on its target
  phase,       \* "gone", "stopped", "core" (postgres and rabbitmq), "up"
  up,          \* producers whose container runs
  rows,        \* records that have an outbox row
  confirmed,   \* published, published_at not set yet
  published,   \* rows whose published_at is set
  broker,      \* records with a copy in aow.ingest or aow.dlq
  ingest_log,  \* records committed in Postgres
  void,        \* the enricher's records accepted before the latest wipe committed there
  \* history
  accepted,    \* accepted by the live stack
  purged,      \* rows that went with a wipe
  \* backup-state.sh
  bpc, bat, counted,
  dump,        \* postgres.dump, None before it is taken
  dumpVoid,    \* what was void to it: the ledger dates its wipes
  copy,        \* copy[p]: the state of p's artefact, its rows and their marks
  protects,    \* accepted before started_at
  manifest,    \* None, "sound", "damaged"
  \* restore-state.sh
  rpc, rat, target, flags,
  missing,     \* ids an audit named that are not replayed yet
  failed,      \* RECONCILE_FAILED
  rexit,       \* exit status, None while it runs
  faults

stackVars   == <<phase, up, rows, confirmed, published, broker, ingest_log, void>>
backupVars  == <<bpc, bat, counted, dump, dumpVoid, copy, protects, manifest>>
restoreVars == <<rpc, rat, target, flags, missing, failed, rexit>>
vars == <<stackVars, accepted, purged, backupVars, restoreVars, faults>>

NoCopy        == [state |-> "none", rows |-> {}, published |-> {}]
Of(p, set)    == {m \in set : Owner[m] = p}
Fault         == faults < MaxFaults /\ faults' = faults + 1
Running       == phase \in {"core", "up"}

\* What the live stack does between the end of the backup and a restore reaches
\* neither of them: it stands still.
Moves         == phase = "up" /\ (bpc \in {"done", "failed"} => target # None)
Copied(p)     == copy[p].state = "taken"

Init ==
  /\ phase = "up" /\ up = Producer
  /\ rows = {} /\ confirmed = {} /\ published = {} /\ broker = {} /\ ingest_log = {}
  /\ void = {} /\ dumpVoid = {}
  /\ accepted = {} /\ purged = {}
  /\ bpc = "idle" /\ bat = 1 /\ counted = 0 /\ dump = None
  /\ copy = [p \in Producer |-> NoCopy] /\ protects = {} /\ manifest = None
  /\ rpc = "idle" /\ rat = 1 /\ target = None /\ flags = {}
  /\ missing = {} /\ failed = FALSE /\ rexit = None
  /\ faults = 0

(***************************************************************************)
(* A running stack.                                                        *)
(***************************************************************************)

Accept(m) ==
  /\ Moves /\ Owner[m] \in up /\ target = None
  /\ \E set \in Histories : m \in set /\ accepted = {n \in set : n < m}
  /\ accepted' = accepted \cup {m}
  /\ rows' = rows \cup {m}
  /\ UNCHANGED <<phase, up, confirmed, published, broker, ingest_log, void, purged,
                 backupVars, restoreVars, faults>>

Publish(m) ==
  /\ Moves /\ Owner[m] \in up
  /\ m \in rows \ (published \cup confirmed)
  /\ broker' = broker \cup {m}
  /\ confirmed' = confirmed \cup {m}
  /\ UNCHANGED <<phase, up, rows, published, ingest_log, void, accepted, purged,
                 backupVars, restoreVars, faults>>

MarkPublished(m) ==
  /\ Moves /\ Owner[m] \in up /\ m \in confirmed
  /\ published' = published \cup {m}
  /\ confirmed' = confirmed \ {m}
  /\ UNCHANGED <<phase, up, rows, broker, ingest_log, void, accepted, purged,
                 backupVars, restoreVars, faults>>

\* "cannot wipe: ... collected envelopes are missing": the wipe then ends up in
\* aow.dlq.
WipeBlocked == ~ (Collected \cap ingest_log \subseteq rows)

\* The consumer takes one copy: it commits the record, or finds it committed.
Store(m) ==
  /\ Moves /\ m \in broker
  /\ m \in Wipe \ ingest_log => ~ WipeBlocked
  /\ broker' = broker \ {m}
  /\ ingest_log' = ingest_log \cup {m}
  /\ void' = IF m \in Wipe \ ingest_log THEN Of("enricher", accepted) ELSE void
  /\ UNCHANGED <<phase, up, rows, confirmed, published, accepted, purged,
                 backupVars, restoreVars, faults>>

\* The api's cleanup thread erases its rows up to a stored wipe.
PurgeWipe(w) ==
  LET gone == {m \in Of("api", rows) : m <= w}
  IN  /\ Moves /\ "api" \in up
      /\ w \in Wipe \cap published \cap ingest_log
      /\ gone \subseteq published
      /\ rows' = rows \ gone
      /\ published' = published \ gone
      /\ purged' = purged \cup gone
      /\ UNCHANGED <<phase, up, confirmed, broker, ingest_log, void, accepted,
                     backupVars, restoreVars, faults>>

\* The enricher, at the head of its loop and so at every start of its container:
\* DELETE WHERE accepted_at <= the latest wipe's processed_at, published or not.
DiscardModelOutput ==
  LET gone == Of("enricher", rows) \cap void
  IN  /\ Moves /\ "enricher" \in up
      /\ Of("enricher", confirmed) = {}
      /\ gone # {}
      /\ rows' = rows \ gone
      /\ published' = published \ gone
      /\ purged' = purged \cup gone
      /\ UNCHANGED <<phase, up, confirmed, broker, ingest_log, void, accepted,
                     backupVars, restoreVars, faults>>

\* A producer's container stops.
StopProducer(p) ==
  /\ Fault
  /\ Moves /\ p \in up
  /\ up' = up \ {p}
  /\ confirmed' = confirmed \ Of(p, confirmed)
  /\ UNCHANGED <<phase, rows, published, broker, ingest_log, void, accepted, purged,
                 backupVars, restoreVars>>

\* docker compose down: the containers go, the volumes stay.
Down ==
  /\ Fault
  /\ Moves
  /\ phase' = "stopped"
  /\ up' = {}
  /\ confirmed' = {}
  /\ UNCHANGED <<rows, published, broker, ingest_log, void, accepted, purged,
                 backupVars, restoreVars>>

(***************************************************************************)
(* backup-state.sh, always of the live project.                            *)
(***************************************************************************)

\* postgres and rabbitmq run (otherwise it exits 1), and started_at is taken
\* before a single byte is read.
BackupStarts ==
  /\ bpc = "idle" /\ Running
  /\ bpc' = "dump" /\ protects' = accepted
  /\ UNCHANGED <<stackVars, accepted, purged, bat, counted, dump, dumpVoid, copy, manifest,
                 restoreVars, faults>>

\* pg_dump: one snapshot of the database, taken before any outbox is.
Dump ==
  /\ bpc = "dump" /\ Running
  /\ dump' = ingest_log /\ dumpVoid' = void
  /\ bpc' = "count"
  /\ UNCHANGED <<stackVars, accepted, purged, bat, counted, copy, protects, manifest,
                 restoreVars, faults>>

\* The next producer: record_absent when its container is down, otherwise
\* sqlite_backup.py counts the source's rows ...
CountRows ==
  /\ bpc = "count" /\ bat <= Len(Order) /\ Running
  /\ IF Order[bat] \in up
     THEN /\ counted' = Cardinality(Of(Order[bat], rows))
          /\ bpc' = "copy" /\ UNCHANGED <<bat, copy>>
     ELSE /\ copy' = [copy EXCEPT ![Order[bat]].state = "absent"]
          /\ bat' = bat + 1 /\ UNCHANGED <<bpc, counted>>
  /\ UNCHANGED <<stackVars, accepted, purged, dump, dumpVoid, protects, manifest, restoreVars,
                 faults>>

CopyOutbox_WithoutWal ==
  LET p    == Order[bat]
      held == Of(p, published)
  IN  /\ bpc = "copy" /\ p \in up
      /\ IF FALSE
         THEN bpc' = "failed" /\ UNCHANGED <<bat, copy>>
         ELSE /\ copy' = [copy EXCEPT ![p] =
                            [state |-> "taken", rows |-> held,
                             published |-> held \cap published]]
              /\ bpc' = "count" /\ bat' = bat + 1
      /\ counted' = 0
      /\ UNCHANGED <<stackVars, accepted, purged, dump, dumpVoid, protects, manifest,
                     restoreVars, faults>>

\* ... and copies it in one read; fewer rows than were counted is an error.
CopyOutbox ==
  LET p    == Order[bat]
      held == Of(p, rows)
  IN  /\ bpc = "copy" /\ p \in up
      /\ IF Cardinality(held) < counted
         THEN bpc' = "failed" /\ UNCHANGED <<bat, copy>>
         ELSE /\ copy' = [copy EXCEPT ![p] =
                            [state |-> "taken", rows |-> held,
                             published |-> held \cap published]]
              /\ bpc' = "count" /\ bat' = bat + 1
      /\ counted' = 0
      /\ UNCHANGED <<stackVars, accepted, purged, dump, dumpVoid, protects, manifest,
                     restoreVars, faults>>

\* Definitions, queue depths, provenance, the manifest, and its round trip.
WriteManifest ==
  /\ bpc = "count" /\ bat > Len(Order) /\ Running
  /\ manifest' = "sound" /\ bpc' = "done"
  /\ UNCHANGED <<stackVars, accepted, purged, bat, counted, dump, dumpVoid, copy, protects,
                 restoreVars, faults>>

BackupFails ==
  /\ bpc \in {"dump", "count", "copy"}
  /\ \/ Fault
     \/ /\ \/ ~ Running
           \/ bpc = "copy" /\ Order[bat] \notin up
        /\ UNCHANGED faults
  /\ bpc' = "failed"
  /\ UNCHANGED <<stackVars, accepted, purged, bat, counted, dump, dumpVoid, copy, protects,
                 manifest, restoreVars>>

\* A file of the backup rots, or is cut short on its way to another disk, while
\* no restore reads it.
Damage ==
  /\ Fault
  /\ rpc \in {"idle", "exited"}
  /\ manifest = "sound" /\ manifest' = "damaged"
  /\ UNCHANGED <<stackVars, accepted, purged, bpc, bat, counted, dump, dumpVoid, copy,
                 protects, restoreVars>>

Backup == BackupStarts \/ Dump \/ CountRows \/ CopyOutbox \/ WriteManifest

(***************************************************************************)
(* restore-state.sh.                                                       *)
(***************************************************************************)

RGoto(where) == rpc' = where /\ UNCHANGED rexit
RExit(code)  == rpc' = "exited" /\ rexit' = code
RKeep        == UNCHANGED <<accepted, purged, backupVars, target, flags>>

\* The target is the live stack as it is, nothing at all, or an earlier
\* rehearsal, running or not, that holds every record.
Target(j) ==
  IF j = Live THEN UNCHANGED stackVars
  ELSE \E old \in {"gone", "stopped", "up"} :
         LET held == IF old = "gone" THEN {} ELSE accepted
         IN  /\ phase' = old /\ up' = (IF old = "up" THEN Producer ELSE {})
             /\ rows' = held /\ published' = held /\ ingest_log' = held
             /\ confirmed' = {} /\ broker' = {} /\ void' = {}

RestoreStarts(j, given) ==
  /\ rpc = "idle" /\ (bpc = "done" \/ (bpc = "failed" /\ dump = None))
  /\ target' = j /\ flags' = given
  /\ Target(j)
  /\ rpc' = "verify"
  /\ UNCHANGED <<accepted, purged, backupVars, rat, missing, failed, rexit, faults>>

\* 1. Every artefact matches the manifest, or nothing is changed.
VerifyBackup ==
  /\ rpc = "verify"
  /\ \/ manifest = None      /\ RExit(1)
     \/ manifest = "damaged" /\ RExit(2)
     \/ manifest = "sound"   /\ RGoto("guard")
  /\ UNCHANGED <<stackVars, rat, missing, failed, faults>> /\ RKeep

Refused_WhileItRuns ==
  IF target = Live THEN "--overwrite-live-project" \notin flags /\ Running
  ELSE "--overwrite-running-target" \notin flags /\ Running

\* 2. The two guards before down -v.
Refused ==
  IF target = Live THEN "--overwrite-live-project" \notin flags
  ELSE "--overwrite-running-target" \notin flags /\ Running

CheckTarget ==
  /\ rpc = "guard"
  /\ IF Refused THEN RExit(2) ELSE RGoto("fresh")
  /\ UNCHANGED <<stackVars, rat, missing, failed, faults>> /\ RKeep

\* 3. down -v, then postgres and rabbitmq on fresh volumes, and the migrations.  The
\* options are not read again.
FreshVolumes ==
  /\ rpc = "fresh"
  /\ phase' = "core" /\ up' = {}
  /\ rows' = {} /\ confirmed' = {} /\ published' = {} /\ broker' = {} /\ ingest_log' = {}
  /\ void' = {}
  /\ RGoto("database") /\ flags' = {}
  /\ UNCHANGED <<rat, missing, failed, faults, accepted, purged, backupVars, target>>

\* 4, 5. pg_restore and the broker's definitions, which carry no message.
RestoreDatabase ==
  /\ rpc = "database"
  /\ ingest_log' = dump /\ void' = dumpVoid
  /\ RGoto("outboxes")
  /\ UNCHANGED <<phase, up, rows, confirmed, published, broker, rat, missing, failed,
                 faults>>
  /\ RKeep

RestoreOutbox_Pending ==
  LET p == Order[rat]
  IN  /\ rpc = "outboxes" /\ rat <= Len(Order)
      /\ IF Copied(p)
         THEN /\ rows' = rows \cup (copy[p].rows \ copy[p].published)
              /\ published' = published \cup copy[p].published
         ELSE UNCHANGED <<rows, published>>
      /\ rat' = rat + 1
      /\ UNCHANGED <<phase, up, confirmed, broker, ingest_log, void, rpc, rexit,
                     missing,
                     failed, faults>>
      /\ RKeep

\* 6. Containers created but not started; a producer without a copy starts empty.
RestoreOutbox ==
  LET p == Order[rat]
  IN  /\ rpc = "outboxes" /\ rat <= Len(Order)
      /\ IF Copied(p)
         THEN /\ rows' = rows \cup copy[p].rows
              /\ published' = published \cup copy[p].published
         ELSE UNCHANGED <<rows, published>>
      /\ rat' = rat + 1
      /\ UNCHANGED <<phase, up, confirmed, broker, ingest_log, void, rpc, rexit,
                     missing,
                     failed, faults>>
      /\ RKeep

\* 7. docker compose up: every service, or the producers --services names.
StartStack(services) ==
  /\ rpc = "outboxes" /\ rat > Len(Order)
  /\ phase' = "up"
  /\ up' = services
  /\ rat' = 1 /\ RGoto("audit")
  /\ UNCHANGED <<rows, confirmed, published, broker, ingest_log, void, missing,
                 failed, faults>>
  /\ RKeep

\* 8. reconcile in each producer that was backed up: published rows the ledger
\* does not have.
Audit ==
  LET p     == Order[rat]
      found == Of(p, published) \ ingest_log
      skip  == rat' = rat + 1 /\ UNCHANGED <<rpc, rexit, missing>>
  IN  /\ rpc = "audit" /\ rat <= Len(Order)
      /\ \/ ~ Copied(p) /\ skip /\ UNCHANGED <<failed, faults>>
         \/ /\ Copied(p)
            /\ (p \notin up /\ UNCHANGED faults) \/ Fault
            /\ skip /\ failed' = TRUE
         \/ /\ Copied(p) /\ p \in up /\ UNCHANGED <<failed, faults>>
            /\ IF found = {} THEN skip
               ELSE missing' = found /\ RGoto("replay") /\ UNCHANGED rat
      /\ UNCHANGED stackVars /\ RKeep

Replay_LastOfThePipe ==
  LET p     == Order[rat]
      m     == CHOOSE n \in missing : \A k \in missing : n <= k
      ready == p \in up /\ m \in published
      next(ids) == /\ missing' = ids
                   /\ IF ids = {} THEN RGoto("audit") /\ rat' = rat + 1
                      ELSE UNCHANGED <<rpc, rexit, rat>>
  IN  /\ rpc = "replay"
      /\ \/ /\ ready
            /\ broker' = IF m \in ingest_log THEN broker
                         ELSE broker \cup {m}
            /\ next(missing \ {m}) /\ UNCHANGED <<failed, faults>>
         \/ /\ (~ ready /\ UNCHANGED faults) \/ Fault
            /\ next({}) /\ UNCHANGED <<failed, broker>>
      /\ UNCHANGED <<phase, up, rows, confirmed, published, ingest_log, void>> /\ RKeep

\* reconcile --replay --id, one id after the other, up to the first that fails.
Replay ==
  LET p     == Order[rat]
      m     == CHOOSE n \in missing : \A k \in missing : n <= k
      ready == p \in up /\ m \in published
      next(ids) == /\ missing' = ids
                   /\ IF ids = {} THEN RGoto("audit") /\ rat' = rat + 1
                      ELSE UNCHANGED <<rpc, rexit, rat>>
  IN  /\ rpc = "replay"
      /\ \/ /\ ready
            /\ broker' = IF m \in ingest_log THEN broker
                         ELSE broker \cup {m}
            /\ next(missing \ {m}) /\ UNCHANGED <<failed, faults>>
         \/ /\ (~ ready /\ UNCHANGED faults) \/ Fault
            /\ next({}) /\ failed' = TRUE /\ UNCHANGED broker
      /\ UNCHANGED <<phase, up, rows, confirmed, published, ingest_log, void>> /\ RKeep

\* 9. The verdict; a stack that was taken down meanwhile ends the script with
\* docker's own status.
Verdict ==
  /\ rpc = "audit" /\ rat > Len(Order)
  /\ RExit(IF ~ Running THEN 1
           ELSE IF failed \/ ingest_log = {} THEN 4 ELSE 0)
  /\ UNCHANGED <<stackVars, rat, missing, failed, faults>> /\ RKeep

\* die after down -v; a command without an || die of its own (the migrate
\* container's start, the definitions' copy) ends the script through set -e.
RestoreFails ==
  /\ rpc \in {"database", "outboxes"}
  /\ Fault
  /\ RExit(3) \/ (rpc = "database" /\ RExit(1))
  /\ UNCHANGED <<stackVars, rat, missing, failed>> /\ RKeep

Restore ==
  \/ VerifyBackup \/ CheckTarget \/ FreshVolumes \/ RestoreDatabase
  \/ RestoreOutbox \/ Audit \/ Replay \/ Verdict
  \/ \E services \in Services : StartStack(services)

-----------------------------------------------------------------------------

Deliver ==
  \/ \E m \in Record : Publish(m) \/ MarkPublished(m) \/ Store(m) \/ PurgeWipe(m)
  \/ DiscardModelOutput

Next ==
  \/ \E m \in Record : Accept(m)
  \/ Deliver \/ Down
  \/ \E p \in Producer : StopProducer(p)
  \/ Backup \/ BackupFails \/ Damage
  \/ \E i \in Invocation : RestoreStarts(i[1], i[2])
  \/ Restore \/ RestoreFails

Spec == Init /\ [][Next]_vars

(***************************************************************************)
(* Properties.                                                             *)
(***************************************************************************)

Sets == SUBSET Record
TypeOK ==
  /\ phase \in {"gone", "stopped", "core", "up"} /\ up \in SUBSET Producer
  /\ rows \in Sets /\ confirmed \in Sets /\ published \in Sets /\ broker \in Sets
  /\ ingest_log \in Sets /\ accepted \in Sets /\ purged \in Sets /\ protects \in Sets
  /\ missing \in Sets
  /\ bpc \in {"idle", "dump", "count", "copy", "done", "failed"}
  /\ bat \in 1 .. 4 /\ rat \in 1 .. 4 /\ counted \in 0 .. Cardinality(Record)
  /\ dump = None \/ dump \in Sets
  /\ void \in SUBSET Of("enricher", Record) /\ dumpVoid \in SUBSET Of("enricher", Record)
  /\ copy \in [Producer -> [state : {"none", "absent", "taken"}, rows : Sets,
                            published : Sets]]
  /\ manifest \in {None, "sound", "damaged"}
  /\ rpc \in {"idle", "verify", "guard", "fresh", "database", "outboxes", "audit",
              "replay", "exited"}
  /\ target \in Project \cup {None} /\ failed \in BOOLEAN
  /\ rexit \in 0 .. 4 \cup {None}

\* Somewhere the write path still works on it, or has finished with it.
Recoverable(m) ==
  m \in ingest_log \cup broker \cup (rows \ published)

\* Older than a wipe the stack has committed, as a user's record or as the model's
\* words about the scores it rebuilds: nobody owes it to anybody.
Erased(m) == \/ m \in void
             \/ \E w \in Wipe \cap ingest_log : Owner[m] = "api" /\ m < w

\* A finished backup holds every record accepted before its started_at, in the
\* dump or in an outbox copy, though it was taken from a stack that kept moving:
\* all but those of a producer that was down and those a wipe had already erased
\* (backup-state.sh:206-210, RUNBOOK-BACKUP-RESTORE.md section 3).
BackupIsWhole ==
  bpc = "done" =>
    \A m \in protects \ purged :
      \/ m \in dump
      \/ copy[Owner[m]].state = "absent"
      \/ m \in copy[Owner[m]].rows

\* A restore that exits 0 lost nothing its backup held: what the dump lacks is
\* owed by a restored outbox, back in the broker or stored (restore-state.sh's
\* reconcile step), unless it is older than a wipe the restored stack has committed;
\* the enricher drops such rows at its start, stored or not (enricher/main.py:291-297).
RestoreKeepsBackup ==
  rexit = 0 =>
    \A m \in Record :
      m \in dump \cup copy[Owner[m]].rows => Recoverable(m) \/ Erased(m)

\* A wipe can still rebuild a restored stack: the ingestor's outbox was copied
\* after the ledger was dumped, so no committed envelope is missing from it
\* (consumer wipe_user_data, "collected envelopes are missing").
WipeStillPossible ==
  rpc = "exited" /\ rexit \in {0, 4} /\ Copied("ingestor") => ~ WipeBlocked

\* A stack loses its database only to a restore that was given its backup whole
\* and, for the live project or one that runs, told so in as many words.
DestroysOnlyWithConsent ==
  [][~ (ingest_log \subseteq ingest_log') /\ rpc # "idle" =>
       /\ manifest = "sound"
       /\ target = Live => "--overwrite-live-project" \in flags
       /\ target # Live /\ Running => "--overwrite-running-target" \in flags]_vars

\* RUNBOOK-BACKUP-RESTORE.md section 3: "A backup protects everything the stack
\* had accepted before manifest.json's started_at."
ProtectsEverythingAccepted ==
  rexit = 0 =>
    \A m \in protects :
      Copied(Owner[m]) => Recoverable(m) \/ Erased(m)

=============================================================================
