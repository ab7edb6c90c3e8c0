----------------------------- MODULE Collected -----------------------------
(***************************************************************************)
(* Collected records (events, places, facts) in Postgres and their         *)
(* withdrawal: the row and its mark, the retraction ledger, the handlers   *)
(* of the consumer that write them, and the rebuild a user_data.wipe does. *)
(*                                                                         *)
(* Module Delivery supplies what this one assumes of the write path: an    *)
(* accepted envelope is stored at most once and in any order.  A handler   *)
(* is one transaction and there is one consumer, so it is one step.        *)
(***************************************************************************)
EXTENDS Naturals, Sequences, FiniteSets

CONSTANTS
  Id,           \* collected records
  Event,        \* the ones in table events; the others are places and facts
  Sample,       \* generated demo events (is_sample)
  Version,      \* envelopes carrying one version of a record
  Retraction,   \* record.retract envelopes
  Patch,        \* record.patch envelopes
  Wipe,         \* user_data.wipe envelopes
  FromApi,      \* retractions posted to the api; the others are curated
  About,        \* About[m]: the record that m is a version of or names
  AsOf,         \* AsOf[v]: when the source produced version v
  CheckedAt,    \* CheckedAt[m]: the listing check an event's version or patch has
  Window,       \* settings of AOW_EVENT_RECHECK_DAYS
  WindowOf,     \* WindowOf[v]: the window version v was accepted under
  DecidedAt,    \* DecidedAt[r]: the date of decision r
  Wording,      \* Wording[r]: its reason and author
  None,         \* no mark, no ledger entry
  Reinstatable, \* records somebody may write a reinstatement migration for
  MaxBoots      \* bound: starts of the stack

Named   == Version \cup Retraction \cup Patch
Curated == Retraction \ FromApi

Decision ==
  [at : {DecidedAt[r] : r \in Retraction}, wording : {Wording[r] : r \in Retraction}]

ASSUME CollectedAssumption ==
  /\ Event \subseteq Id /\ Sample \subseteq Event
  /\ IsFiniteSet(Version \cup Retraction)
  /\ FromApi \subseteq Retraction
  /\ Retraction \cap (Version \cup Patch \cup Wipe) = {}
  /\ Version \cap (Patch \cup Wipe) = {} /\ Patch \cap Wipe = {}
  /\ About \in [Named -> Id]
  /\ None \notin Decision
  /\ AsOf \in [Version -> Nat] /\ CheckedAt \in [Version \cup Patch -> Nat]
  /\ Window \subseteq Nat /\ WindowOf \in [Version -> Window]
  /\ Reinstatable \subseteq Id
  /\ MaxBoots \in Nat

\* apply_freshness_policy: the expiry is derived from the window, and a place or
\* a fact has none.
ValidUntil(v) == IF About[v] \in Event THEN CheckedAt[v] + WindowOf[v] ELSE 0

\* The ingestor's ids: a version is told apart by its stamp and its expiry, and
\* the samples of each boot by its salt.
ASSUME VersionIds ==
  \A v, w \in Version :
    /\ About[v] = About[w] /\ About[v] \notin Sample
    /\ AsOf[v] = AsOf[w] /\ ValidUntil(v) = ValidUntil(w)
    => v = w

VARIABLES
  up,          \* the consumer is running, so migrate has completed
  demo,        \* AOW_DEMO_EVENTS of the running stack
  window,      \* AOW_EVENT_RECHECK_DAYS of the running stack
  outbox,      \* the ingestor's outbox: envelopes in the order of acceptance
  sent,        \* envelopes the api accepted
  ingest_log,  \* message_ids committed
  row,         \* row[i]: what the table holds of record i, if it has a row
  mark,        \* mark[i]: retracted_at, retraction_reason, retracted_by
  ledger,      \* ledger[i]: the entry of record_retractions
  migrations,  \* records with a reinstatement migration, run on every boot
  lifted,      \* stored retractions that a reinstatement has overturned
  boots

inputVars   == <<outbox, sent>>
stackVars   == <<up, demo, window, migrations, lifted, boots>>
vars == <<inputVars, stackVars, ingest_log, row, mark, ledger>>

Collecting == {outbox[n] : n \in DOMAIN outbox}
Pending    == (Collecting \cup sent) \ ingest_log
Present(i) == i \in DOMAIN row
Marked(i)  == mark[i] # None

Content(v)   == [version |-> v, until |-> ValidUntil(v), patched |-> FALSE]
Decided(r)   == [at |-> DecidedAt[r], wording |-> Wording[r]]

\* upsert_event drops a generated sample unless demo mode is on.
Dropped(v) == About[v] \in Sample /\ ~demo
Overwrites(v, old) ==
  \/ AsOf[v] > AsOf[old.version]
  \/ About[v] \in Event /\ ValidUntil(v) # old.until

Upsert(rows, v) ==
  IF Dropped(v) \/ (About[v] \in DOMAIN rows /\ ~Overwrites(v, rows[About[v]]))
  THEN rows
  ELSE [i \in DOMAIN rows \cup {About[v]} |->
          IF i = About[v] THEN Content(v) ELSE rows[i]]

\* A database upgraded from migration 009 has rows marked before there was a
\* ledger, each of them the work of one version and one retraction.
Legacy ==
  {L \in SUBSET (Version \X Retraction) :
     /\ \A c \in L : About[c[1]] = About[c[2]] /\ About[c[1]] \notin Sample
     /\ \A c, d \in L : About[c[1]] = About[d[1]] => c = d}

Init ==
  \E L \in Legacy :
    LET stored == UNION {{c[1], c[2]} : c \in L}
        of(i)  == CHOOSE c \in L : About[c[1]] = i
        has(i) == \E c \in L : About[c[1]] = i
    IN  /\ up = FALSE /\ demo = FALSE /\ window \in Window
        /\ outbox \in [1..Cardinality(stored \ FromApi) -> stored \ FromApi]
        /\ Collecting = stored \ FromApi
        /\ sent = stored \cap FromApi
        /\ ingest_log = stored
        /\ row = [i \in {j \in Id : has(j)} |-> Content(of(i)[1])]
        /\ mark = [i \in Id |-> IF has(i) THEN Decided(of(i)[2]) ELSE None]
        /\ ledger = [i \in Id |-> None]
        /\ migrations = {} /\ lifted = {}
        /\ boots = 0

--------------------------------------------------------------------------

\* Somebody adds a reinstatement to the migrations of the next boots.
AddMigration(i) ==
  /\ i \in Reinstatable \ migrations
  /\ up /\ Marked(i)
  /\ migrations' = migrations \cup {i}
  /\ UNCHANGED <<up, demo, window, lifted, boots, inputVars, ingest_log, row, mark,
                 ledger>>

\* Migration 010 copies every mark into the ledger that has no entry for it.
Backfill(i) == IF ledger[i] = None THEN mark[i] ELSE ledger[i]

\* A reinstatement clears the mark and deletes the entry, in one transaction.
EntryAfterMigrations_Kept(i) == Backfill(i)
EntryAfterMigrations(i) == IF i \in migrations THEN None ELSE Backfill(i)
MarkAfterMigrations(i)  == IF i \in migrations THEN None ELSE mark[i]

\* The consumer deletes unmarked samples when it starts outside demo mode.
Purged_Never(i, d) == FALSE
Purged(i, d) == i \in Sample /\ ~d /\ MarkAfterMigrations(i) = None

\* compose up: every migration runs, on every boot, then the consumer starts.
Boot(d, days) ==
  /\ boots < MaxBoots
  /\ boots' = boots + 1
  /\ up' = TRUE /\ demo' = d /\ window' = days
  /\ lifted' = lifted \cup
       {r \in ingest_log \cap Retraction : About[r] \in migrations}
  /\ ledger' = [i \in Id |-> EntryAfterMigrations(i)]
  /\ mark' = [i \in Id |-> MarkAfterMigrations(i)]
  /\ row' = [i \in {j \in DOMAIN row : ~Purged(j, d)} |-> row[i]]
  /\ UNCHANGED <<migrations, inputVars, ingest_log>>

\* The ingestor accepts a version or a line of the curated list, once per id.
Collect(m) ==
  /\ m \in Version \cup Curated
  /\ m \notin Collecting
  /\ m \in Version => ~Dropped(m)
  /\ m \in Version /\ About[m] \in Event => WindowOf[m] = window
  /\ outbox' = Append(outbox, m)
  /\ UNCHANGED <<sent, stackVars, ingest_log, row, mark, ledger>>

\* The api accepts a retraction, a patch or a wipe.
Post(m) ==
  /\ m \in FromApi \cup Patch \cup Wipe
  /\ m \notin sent
  /\ sent' = sent \cup {m}
  /\ UNCHANGED <<outbox, stackVars, ingest_log, row, mark, ledger>>

--------------------------------------------------------------------------

\* The envelope's id goes into ingest_log with whatever its handler writes.
Storing(m) == up /\ m \in Pending /\ ingest_log' = ingest_log \cup {m}

\* apply_recorded_retraction: an unmarked row takes its mark from the ledger.
FromLedger_Never(i) == mark[i]
FromLedger(i) == IF mark[i] = None THEN ledger[i] ELSE mark[i]

StoreVersion(v) ==
  /\ v \in Version
  /\ Storing(v)
  /\ row' = Upsert(row, v)
  /\ mark' = IF row' = row THEN mark
             ELSE [mark EXCEPT ![About[v]] = FromLedger(About[v])]
  /\ UNCHANGED <<inputVars, stackVars, ledger>>
Corrected_Redated(old, r) == Decided(r)
Corrected(old, r) ==
  IF old = None THEN Decided(r) ELSE [old EXCEPT !.wording = Wording[r]]
Entered(i, r) == Corrected(ledger[i], r)

StoreRetraction(r) ==
  /\ r \in Retraction
  /\ Storing(r)
  /\ LET i == About[r]
     IN  /\ ledger' = [ledger EXCEPT ![i] = Entered(i, r)]
         /\ mark' = IF Present(i)
                    THEN [mark EXCEPT ![i] = Corrected(mark[i], r)] ELSE mark
  /\ UNCHANGED <<inputVars, stackVars, row>>

\* A patch of an event is a re-check of its listing, which moves the expiry.
Patched(p, content) ==
  [version |-> content.version,
   until   |-> IF About[p] \in Event THEN CheckedAt[p] + window ELSE content.until,
   patched |-> TRUE]

\* A patch that finds no row dead-letters, and stays pending for a redrive.
StorePatch(p) ==
  /\ p \in Patch
  /\ Storing(p)
  /\ Present(About[p])
  /\ row' = [row EXCEPT ![About[p]] = Patched(p, row[About[p]])]
  /\ UNCHANGED <<inputVars, stackVars, mark, ledger>>

--------------------------------------------------------------------------

\* What the wipe replays: committed envelopes of the ingestor.
Committed == ingest_log \cap (Version \cup Curated)

\* Pass 1: the committed versions, in the order of acceptance, into empty tables.
Rebuilt ==
  LET after[n \in 0..Len(outbox)] ==
        IF n = 0 THEN [i \in {} |-> None]
        ELSE IF outbox[n] \in Committed \cap Version
             THEN Upsert(after[n - 1], outbox[n])
             ELSE after[n - 1]
  IN  after[Len(outbox)]

\* Pass 2: the committed curated retractions.  An entry of the ledger stands; a
\* record without one takes the first that was accepted.
FirstAbout(i) ==
  LET about(n) == outbox[n] \in Committed \cap Curated /\ About[outbox[n]] = i
  IN  CHOOSE n \in DOMAIN outbox :
        about(n) /\ \A k \in DOMAIN outbox : about(k) => n <= k

Replayed_Revised(i) ==
  IF \E r \in Committed \cap Curated : About[r] = i
  THEN Decided(CHOOSE r \in Committed \cap Curated : About[r] = i) ELSE ledger[i]

Replayed(i) ==
  IF ledger[i] = None /\ \E r \in Committed \cap Curated : About[r] = i
  THEN Decided(outbox[FirstAbout(i)]) ELSE ledger[i]

\* Rows come back marked from the ledger, else from what was held of their mark.
StoreWipe(w) ==
  /\ w \in Wipe
  /\ Storing(w)
  /\ Committed \subseteq Collecting
  /\ row' = Rebuilt
  /\ ledger' = [i \in Id |-> Replayed(i)]
  /\ mark' = [i \in Id |-> IF i \notin DOMAIN row' THEN None
                           ELSE IF ledger'[i] # None THEN ledger'[i] ELSE mark[i]]
  /\ UNCHANGED <<inputVars, stackVars>>

--------------------------------------------------------------------------

Next ==
  \/ \E d \in BOOLEAN, days \in Window : Boot(d, days)
  \/ \E i \in Id : AddMigration(i)
  \/ \E m \in Version \cup Retraction \cup Patch \cup Wipe :
       \/ Collect(m) \/ Post(m)
       \/ StoreVersion(m) \/ StoreRetraction(m) \/ StorePatch(m) \/ StoreWipe(m)

Spec == Init /\ [][Next]_vars

(***************************************************************************)
(* Properties.                                                             *)
(***************************************************************************)

TypeOK ==
  /\ up \in BOOLEAN /\ demo \in BOOLEAN /\ window \in Window
  /\ outbox \in Seq(Version \cup Curated)
  /\ sent \subseteq FromApi \cup Patch \cup Wipe
  /\ ingest_log \subseteq Collecting \cup sent
  /\ DOMAIN row \subseteq Id
  /\ \A i \in DOMAIN row :
       row[i] \in [version : Version, until : Nat, patched : BOOLEAN]
  /\ mark \in [Id -> Decision \cup {None}]
  /\ ledger \in [Id -> Decision \cup {None}]
  /\ migrations \subseteq Reinstatable
  /\ lifted \subseteq ingest_log \cap Retraction
  /\ boots \in 0..MaxBoots

\* "The ledger covers every marked row" (migration 010), and more: while the
\* consumer runs, a row carries exactly what the ledger says of its record, so a
\* reader sees a record withdrawn if and only if the ledger has an entry for it.
RowFollowsLedger ==
  up => \A i \in Id : mark[i] = IF Present(i) THEN ledger[i] ELSE None

\* "Arrival order does not matter" (README): the record of a stored withdrawal
\* that no reinstatement overturned is not published, whichever arrived first
\* and across rebuilds and changes of demo mode.
WithdrawnIsHidden ==
  \A r \in (ingest_log \cap Retraction) \ lifted :
    Present(About[r]) => Marked(About[r])

\* "Withdrawn again with nobody having decided that" does not happen: a marked
\* row has a stored withdrawal that stands, or a curated one a wipe replayed.
MarkedForAReason ==
  \A i \in Id : Marked(i) =>
    \E r \in ingest_log \cap Retraction :
      About[r] = i /\ (r \notin lifted \/ r \in Curated)

\* "No generated row is stored by default": outside demo mode a sample that is
\* still there is one that was withdrawn.
NoSampleByDefault ==
  up /\ ~demo => \A i \in Sample : Present(i) => Marked(i)

\* Only a reinstatement moves or removes a decision date, on the row or in the
\* ledger; corrections, replays, rebuilds and boots keep the first.
DateKept ==
  [][\A i \in Id \ migrations :
       /\ ledger[i] # None => ledger'[i] # None /\ ledger'[i].at = ledger[i].at
       /\ Marked(i) /\ Present(i)' => Marked(i)' /\ mark'[i].at = mark[i].at]_vars

\* "A rebuild must restore state, never revise it": a wipe brings back the rows
\* that were there, the same version of each place and fact, every mark and every
\* entry, corrected wording included, and no patch.
RebuildRestores ==
  [][(\E w \in Wipe : w \in ingest_log' \ ingest_log) =>
       \A i \in Id \ Sample :
         /\ Present(i)' <=> Present(i)
         /\ Present(i) => ~row'[i].patched
         /\ Present(i) /\ i \notin Event => row'[i].version = row[i].version
         /\ Marked(i) => mark'[i] = mark[i]
         /\ ledger[i] # None => ledger'[i] = ledger[i]]_vars

\* A comment of apply_retraction: a corrected reason is one "that this older
\* envelope must not overwrite".
CorrectionStands ==
  [][\A r, q \in Retraction :
       /\ r \in ingest_log' \ ingest_log /\ q \in ingest_log
       /\ About[q] = About[r] /\ DecidedAt[q] > DecidedAt[r]
       /\ Marked(About[r]) /\ mark[About[r]].wording = Wording[q]
       => mark'[About[r]] = mark[About[r]]]_vars
==========================================================================
