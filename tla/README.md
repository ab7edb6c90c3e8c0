# TLA+ models of act-on-weather

This directory specifies act-on-weather in TLA+, model-checks it with TLC on small
instances and proves its main invariants with TLAPS for instances of every size.

The system: producers (ingestor, API, enricher) accept records into a SQLite
outbox each; a publisher loop moves them to RabbitMQ (`aow.events` ->
quorum queue `aow.ingest`, dead letters in `aow.dlq`); one consumer is the only
writer of Postgres; everything else reads Postgres. The stack has no route to the
internet: an operator's script opens one for the time of a fetch.

## 1. Inventory

| Component | State | Operations | Interacts by |
| --- | --- | --- | --- |
| Outboxes (`common/outbox.py`) | rows with an AUTOINCREMENT `seq`, `published_at` | accept, unpublished, mark_published, two purges | SQLite file per producer; the consumer reads the ingestor's, the API the enricher's |
| Publisher loops (`api`, `ingestor`, `enricher` `drain`) | the batch selected, the confirm not yet recorded | select, publish with confirm, mark, give up on error | broker |
| Broker (`common/rabbit.py`) | copies, delivery counts, dead letters | enqueue, deliver (prefetch 10), ack / requeue / reject, limit 5 | |
| Consumer (`consumer/main.py`) | `ingest_log` and all business tables | one transaction per delivery | broker, Postgres, ingestor outbox (wipe) |
| Redrive, reconcile (`tools/redrive.py`, `common/reconcile.py`) | what they have read | republish, then ack; audit, then replay | dead-letter queue, outboxes, `ingest_log` |
| Collected records (`upsert_by_id`, `upsert_event`, `apply_patch`) | rows of events, places, facts | versions, patches, demo samples | accepted envelopes, recheck window |
| Withdrawals (`apply_retraction`, migrations 009/010) | mark on the row, `record_retractions` | retract, correct, re-mark on write, backfill and reinstatement on boot | |
| Wipe (`wipe_user_data`, `_purge_completed_wipes`) | everything above | rebuild from the ingestor's outbox, purge of the others | consumer, API, enricher |
| Weather, scores, wording (`upsert_weather`, `score_defaults`, `store_llm_recommendation`, `enricher`) | weather rows, recommendation rows and their status | rescore, request, re-word, attempt cap | consumer and enricher through the queue |
| Scoring rules (`common/rules.py`) | none | score of an activity under a forecast, ceilings, refusal without a coast | called by the consumer and the agent |
| Egress window (`scripts/refresh.sh`, `event-recheck.sh`, `refresh_window_guard.sh`) | docker networks, attachments, a detached guard, the filed report | open, fetch, close in the body or in the trap, verdict | overlapping commands, the guard, the docker daemon |
| Listing re-check (`tools/event_recheck.py`) | JSONL ledger of evidence and decisions | probe, apply | `GET /events`, venue pages, `PATCH /records` through the queue |
| Backup / restore (`scripts/backup-state.sh`, `restore-state.sh`) | dump, three outbox copies, manifest | copy a live stack, destroy, rebuild, reconcile | all volumes |
| Itineraries (`agent/main.py` and `planning.py`, UI planner, `queries.py`) | the session's plan, rows of `itineraries` | plan from five queries, save, reopen, rename, delete | read queries, outbox, consumer |
| Agent's answers (`agent/router.py`, `grounding.py`, `dates.py`) | none between questions | resolve, retrieve query by query, answer by code or check the model's wording | read queries, local model |
| Read API and queries (`api/main.py`, `common/queries.py`) | none | one query per endpoint | Postgres, autocommit |
| Fetchers, UI's other pages, metrics, bootstrap and release scripts | none shared | reads, one-shot files | |

What is hard: three retry loops around at-least-once delivery; SQLite rows purged
by other threads and other services; a consumer that may die between commit and
ack; a delivery limit that dead-letters good records; patches and withdrawals that
overtake the records they name; a rebuild that must not revise decisions;
migrations that run again on every boot; configuration (recheck window, demo
mode) that changes what an accepted record means; shell scripts that may be
interrupted between any two docker calls; a backup of a stack that keeps moving;
plans and answers put together from several queries without a transaction, and kept
while the rows move on; and a language model whose sentences are checked by a dozen
overlapping rules.

What makes each part correct is listed with its module in section 3, and every
hazard with the properties that cover it in `PROJECT.json`.

## 2. Plan

All of it is done; the order was the order of importance.

1. `Delivery` + `DeliveryPromise`: the write path and the guarantee it implements;
   `DeliveryProofs`.
2. `Collected`: collected records, withdrawals, demo mode, the wipe's rebuild;
   `CollectedProofs`.
3. `Wording` and `Rules`: the forecast of a day, its scores and how they are computed,
   recommendation statuses, the enricher's batch and its wipe check, the attempt cap;
   `WordingProofs`.
4. `EgressWindow`: the commands that open the route out, their traps and guards;
   `EgressWindowProofs`.
5. `Backup`: backup of a live stack and restore; `BackupProofs`.
6. `Recheck`: the listing re-check and its ledger; `RecheckProofs`.
7. `Published`: what a query sees while the consumer writes; on it `Trip` (planner and
   saved trips) and `Ask` (a question to the agent), with `Dates` beside it; `TripProofs`,
   `AskProofs`.

The modules are composed by what each assumes of the others. `Delivery` says which
records are stored and how often; `Collected`, `Wording`, `Recheck` and `Trip` start
from that: an accepted envelope is stored at most once, at any time, in any order.
`Backup` contains a write path of its own, cut down to the places a record can be in,
because it stops and copies it. `Trip` and `Ask` extend `Published`, which keeps of
`Collected` and `Wording` their effect on a reader: a forecast is replaced together
with the scores of the supported activities, a typed activity's score is stored on
request and then left alone, a withdrawn row leaves every read. `MCWording` scores its activities
with `Rules`; `MCAsk` resolves the days of its questions with `Dates`.

Definitions with a suffix after an underscore (`Newer_Always`) or the comment
"Mutant" are plausible mistakes in the definition that follows them. They are used by
nothing; putting one in the place of the real definition makes a run fail, and
`PROJECT.json` says which property then breaks.

## 3. Modules

### Delivery

`Delivery.tla` models records from `Outbox.accept` to `ingest_log`.

| State | Code |
| --- | --- |
| `accepted` | ids the producer's caller was told are accepted |
| `seq`, `nextSeq`, `published` | outbox rows, the AUTOINCREMENT counter, `published_at` |
| `batch`, `confirmed` | rows a publisher selected; the row whose confirm it has not recorded yet |
| `copy`, `returns` | copies in `aow.ingest` / `aow.dlq` with their `x-delivery-limit` count |
| `ingest_log`, `applied` | committed ids; how often the business write was committed |
| `outdated` | enricher rows with `accepted_at` before a committed wipe |
| `audited` | what `reconcile` read as missing |

Actions: `Accept`; `SelectBatch`, `Publish`, `PublishFails`, `MarkPublished`,
`ProducerCrash` (one publisher loop per producer); `Deliver`, `Store`, `Duplicate`,
`Poison`, `HandlerFails`, `CommitUnacknowledged`, `Settle`, `ConsumerDrop` (the
consumer; the verdict and its arrival at the broker are two steps, so a crash between
commit and ack is a behaviour); `PurgeWipe`, `PurgeOutdated`; `RedrivePublish`,
`RedriveAck`, `RedriveCrash`, `ReconcileAudit`, `ReconcileReplay`.

The queue is a set of copies: requeues and reconnects reorder it, so every order of
handling is allowed. The handler is abstracted to what decides a record's fate:
it never validates (`Malformed`), it needs a row that another record creates
(`Needs`), it is a wipe that finds its source incomplete (`WipeRefused`), or it fails
for a passing reason. An OperationalError *during* COMMIT may leave the transaction
committed: `CommitUnacknowledged`.

`DeliveryPromise.tla` is the abstract specification: one variable `fate`, the two
terminal states README promises, Retry out of quarantine, and the one exception the
code makes (`Discard`: the enricher drops model output after a wipe).

### Collected

`Collected.tla` models the rows of `events`, `places` and `facts` and their
withdrawal.

| State | Code |
| --- | --- |
| `up`, `demo`, `window`, `boots` | the running stack, AOW_DEMO_EVENTS, AOW_EVENT_RECHECK_DAYS |
| `outbox`, `sent` | the ingestor's outbox in order of acceptance; what the API accepted |
| `ingest_log` | committed ids |
| `row` | table contents: a function from the ids that have a row |
| `mark`, `ledger` | `retracted_at/reason/by` of a row; the entry in `record_retractions` |
| `migrations`, `lifted` | reinstatement migrations run on every boot; the decisions they overturned |

Actions: `Boot` (all migrations, then `enforce_event_mode`; one step because every
service waits for `migrate` to complete), `AddMigration`, `Collect` (ingestor,
deduplicated by deterministic id), `Post` (API), `StoreVersion`,
`StoreRetraction`, `StorePatch`, `StoreWipe` (one transaction each, one consumer).
`Init` includes databases upgraded from migration 009: rows marked, ledger empty.
A row's content is abstracted to the version it came from, its expiry and whether a
patch changed it; a decision to its date and its wording.

### Wording

`Wording.tla` models one city and day: its row of `weather_daily`, its rows of
`recommendations`, and the enricher's loop. Days share nothing but the enricher's
batch and the model.

| State | Code |
| --- | --- |
| `stored` | committed ids of forecasts, patches, requests, re-enrichments, wipes |
| `weather` | the forecast that stands (`as_of`) and whether a patch changed it |
| `rec` | per activity with a row: `status`, `requested`, `weather_as_of` (`scored`), `text` with the row it was written from, `invalid_attempts` |
| `latest` | the newest wipe in `ingest_log` |
| `pc`, `seen`, `batch`, `draft` | the enricher's place in its loop, `last_wipe_id`, the rows read and not yet worded, an answer checked and not yet accepted |
| `owed`, `outdated` | its unpublished outbox row; whether `accepted_at` is before a wipe |
| `sent` | results in the queue |

Consumer actions, one transaction each: `StoreForecast` (upsert and, if it replaced
the row, `score_defaults`), `StorePatch`, `StoreRequest`, `StoreReenrich`,
`StoreResult`, `RefuseResult`, `StoreWipe`. Enricher actions: `CheckWipe` (head of the
loop), `Drain`, `Poll`, `Word` (the model's answer and the staleness check), `Accept`
(the outbox insert, a step of its own: a wipe fits in between), and the failures
`BatchAbandoned`, `DrainFails`, `CheckFails`, `Crash`. A score is a natural number
given by a constant; the wording is the pair of what it was written from.

A result without `weather_as_of` belongs to a row without a score: one requested
before the forecast and re-enriched. The guard `%s IS NULL OR weather_as_of <= %s`
binds such a result as an untyped NULL, which the server may accept (a wildcard) or
refuse (dead letter); both are behaviours, `StoreResult` and `RefuseResult`, and
`WordingFitsScore` and `EverythingSettles` speak of rows and wordings with a forecast.

### Rules

`Rules.tla` translates `rules.py`: `Discomfort` and `Comfort` (`outdoor_comfort`),
`Indoors`, `Outdoors`, `Capped`, `ScoreActivity`, `ActivitiesForCity`, and for a typed
name `NamesWater`, `NeedsCoast`, `ScoreRequested`. Readings and limits are counted in
halves of their unit, in which every limit of `data/activities.yml` is whole and the
code's floating point is exact; `int` truncates and `round` goes to the even number as
Python's do. A missing reading is a missing key. `InRange`, `Monotone` and
`RefusedIsCapped` say what the scores promise: a percentage, never above the activity's
ceiling, never "good" at sea; a milder day is never scored lower outdoors nor higher
indoors, missing readings included; a name refused for want of a coast is one that
would be capped where there is one. `MCWording`'s `ASSUME RulesHold` has TLC evaluate
them over a catalogue and a grid of forecasts before `wording_live` starts.

### EgressWindow

`EgressWindow.tla` models the temporary route out of the ingestor. Any number of
commands run at once, each a refresh, a `refresh.sh --check` or a re-check.

| State | Code |
| --- | --- |
| `net`, `route` | the egress networks that exist; those the ingestor is attached to |
| `pc`, `rc`, `cleanupFailed` | the place in the script, its exit status, CLEANUP_FAILED |
| `overlooked` | history: docker did not answer the command's last look, which is read as a window that is gone |
| `fetched`, `counted`, `stored` | fetch.json; whether TOTAL_IDS was taken from it; how many of them `ingest_log` had |
| `persist`, `report` | PERSIST; the file `GET /refresh/last` serves |
| `guard`, `age` | the detached guard and its polls; how long each attachment has stood |

Actions of a command: `Start` (preflight), `Open`, `StartGuard`, `Connect`
(`open_egress`), `Fetch`, `Detach`, `Remove` (`close_egress`, from the body or from
`on_exit`), `Verdict`, `TrapFindsNothing`, `File` (the rest of `on_exit` and
`persist_report`), `Abort` (an interrupt, or `set -e`, anywhere in the body), `Kill`.
Of a guard: `GuardDetaches`, `GuardRemoves`; its polling is in `Tick`, the unit of
time. `Reboot` ends every process and leaves the networks.

`attached` and `network_exists` drop the error of `docker inspect` and answer no, in
the commands and in the guard. So a failing look is a step of its own kind: `Detach`
may leave the attachment without noticing, `Remove` and `TrapFindsNothing` may take a
network that stands for gone and end without exit status 3 (`Overlooks`), and the guard
may leave before its time (`GuardLosesSight`).

### Backup

`Backup.tla` models `backup-state.sh` and `restore-state.sh`. A record is its number,
which stands for its place in its outbox.

| State | Code |
| --- | --- |
| `phase`, `up` | the containers of the target stack |
| `rows`, `confirmed`, `published`, `broker`, `ingest_log` | where the stack's volumes have a record |
| `void`, `dumpVoid` | enricher records accepted before the latest wipe committed; those the dump's ledger dates so |
| `accepted`, `purged` | history: accepted by the live stack; erased from an outbox with a wipe |
| `bpc`, `bat`, `counted`, `dump`, `copy`, `protects`, `manifest` | the backup's progress and its artefacts; what was accepted before `started_at` |
| `rpc`, `rat`, `target`, `flags`, `missing`, `failed`, `rexit` | the restore's progress, its command line, RECONCILE_FAILED, its exit status |

A running stack: `Accept`, `Publish`, `MarkPublished`, `Store`, `PurgeWipe` (the API's
cleanup thread), `DiscardModelOutput` (the enricher, at the head of its loop: rows
accepted before the latest wipe, published or not), `StopProducer`, `Down`. The backup:
`BackupStarts`, `Dump`, `CountRows`, `CopyOutbox` (one producer after the other, two
steps each), `WriteManifest`, `BackupFails`, `Damage`. The restore, in the script's
order: `RestoreStarts`, `VerifyBackup`, `CheckTarget`, `FreshVolumes`, `RestoreDatabase`, `RestoreOutbox`, `StartStack`,
`Audit`, `Replay`, `Verdict`, `RestoreFails`. The stack runs while the backup copies it
and again while reconcile audits it.

### Recheck

`Recheck.tla` models `event_recheck.py`: `ProbeStarts` (`GET /events`), `ProbeReads`
(one GET per distinct page, `classify` in `Verdict`, one line per row), `ProbeEnds`;
`ApplyStarts` (the grounds a row needs), `ApplyAccepted`, `ApplyAppends`, `ApplyFails`
(with or without the API having accepted), `ApplyEnds`, `ApplyCut`; `StorePatch`,
`StoreVersion` and `Day`. State: `row` (content, `as_of`, `checked_at`, `valid_until`),
`seen` (`seen_urls`), `evidence` and `decisions` of each ledger, the running probe and
apply, `accepted` and `stored` patches. A fetch may return any of `Reading`.

### Published, Trip

`Published.tla` keeps what a query sees: `weather` (the forecast of each day), `scored`
(the forecast each stored score was made from: `score_defaults` moves those of the
supported activities with the forecast, `StoreRequest` writes one activity's, a `failed`
row included), `withdrawn`, `stale`. Its steps are what the
consumer stores meanwhile; its operators are the queries (`Window`, `ForecastRows`,
`ScoreRows`, `PlacesIn`, `CurrentEvents`, ...), each a snapshot of its own because the
pools are autocommit.

`Trip.tla` models the planner. `Build`, `ReadScores`, `ReadPlaces`, `ReadCityPlaces`,
`ReadEvents` are the queries of `build_itinerary` in order; `PlanDay` is one turn of its
loop over the covered days (`Extend`, with `Chosen` for `plan_day`: bonus, penalty, ties;
`VenuesFor` for `venue_places`; the rotation of places), and `Present` returns the plan.
A day's activity is picked from every row its query returned, typed activities with the
others (`Ranked`), and a request for activities the city has no rows of leaves the day
without a pick. A table is a total function with 0 or `None` for a missing row.
`Save`, `Delete`, `Rename` put envelopes in `lane`; `StoreSave`, `StoreDelete`, `StoreRename` take
them out in any order; `Reopen`, `LiveEvents`, `LivePlaces`, `Render` are
`GET /itineraries/<id>` and the page, with `Kept` (`_drop_withdrawn`) and `Told` (`render_plan_staleness`).

### Ask, Dates

`Ask.tla` models one question. `AskAgent`, `LookUp` and `ReadKeywords` are `resolve`:
declared names that carry a keyword are looked up one query each and masked, the
keywords are read, and if that found nothing every typed name is looked up, some a second
time; a look-up that fails finds nothing. So a score requested between two look-ups may
put a name among the activities and among the unknown ones, as `router.py:671` and `716`
do. `ReadCoverage` to `ReadExpired` are `retrieve`, one query a step; `ByCode`,
`ModelFails`, `ModelAnswers` are the ways an answer is written, with `WhereAnswer`,
`NamedAnswer`, `Rendered` and the gaps (`OtherGaps`, `ActivityGaps`, `StaleFeed`).

An answer is a set of statements; the model's is any set of at most `MaxClauses` clauses
of `Clause`. A clause is what it says of which row and day, and with which of the
checks' words (`Wordings`): a verdict, a band, an arrangement, an existence, a day behind
the word for a kind; that word may also be part of an activity's label. `Broken` is
`violations` by the numbers of its checks, each as narrow as in the code: check 3b reads
only days behind the claim word, the labels of scored activities are masked from checks
1 and 3b and only an arrangement of them is caught (`Arranged`, check 11), verdicts
count in checks 4, 5 and 10 but bands only in check 5.

`Dates.tla` translates `dates.py`: `Resolve` is the first of a dozen readings that the
question says anything about. `WellFormed` and `OnTheDay` say that a question is about at
least one day, about a month at most when it counts from today, looks back only when it
says so, and that named weekdays, weekends and weeks are those. `MCAsk`'s
`ASSUME DatesHold` has TLC evaluate them over every weekday and some three thousand
combinations of phrases; `AskProofs` proves them for every day and every combination.

## 4. Runs

| Run | Instance | Shows |
| --- | --- | --- |
| `delivery_faults` | a collected record, a patch that needs it, a wipe; limit 1, prefetch 2, 2 faults, 3 copies | `TypeOK`, `NothingLost`, `PurgeNeverRefused` |
| `delivery_live` | a wipe and a malformed model result; 2 faults, 1 repair, 4 copies; `FairSpec` | `AppliedOnce`, `Settles`, `WipeErasesOutbox`, `Implements` (refinement of `DeliveryPromise`) |
| `withdrawal_event` | a concert, a museum and a sample, a version or two each; a curated and an API retraction, a re-check, a wipe, 2 boots, a reinstatement, 2 windows | `RowFollowsLedger`, `MarkedForAReason`, `NoSampleByDefault`, `DateKept`, `RebuildRestores` |
| `withdrawal_correction` | one event, two retractions | a comment the code does not keep (section 7) |
| `wording_live` | a walk and a swim scored by `Rules`, 2 forecasts, a correction, a request, a re-enrichment with the deferred, a wipe; top 1, batch 1, cap 2, 1 fault, 2 results in flight; `FairSpec` | `ScoresFollowForecast`, `WordingFitsScore`, `AskedForIsQueued`, `NewestForecastStands`, `EverythingSettles` |
| `egress_window` | two re-checks, a check and a refresh, or a refresh and a re-check; deadline 2, 1 mishap; `FairSpec` | `LeftOpenOnlyByAKill`, `ExitTellsTruth`, `BoundedWindow`, `FetchKeepsItsRoute`, `SuccessIsWhole`, `WindowCloses` |
| `backup_restore` | a collected record, a user's record and a wipe, or a model result and a wipe; four command lines, 1 fault | `BackupIsWhole`, `RestoreKeepsBackup`, `WipeStillPossible`, `DestroysOnlyWithConsent` |
| `backup_runbook` | the same | a sentence of the runbook the scripts do not keep (section 7) |
| `recheck_ledger` | two listings on one page, three readings, late and newer versions; window 1, 3 days, 1 probe, 2 applies | `OfferedWasLookedAt`, `LedgerTellsAll`, `SharedPageOneReading` |
| `trip_plan` | 3 days, 2 activities the city supports, one it does not and a typed one, 2 places, a listing over two days, 2 forecasts, 2 requests; 3 changes, 1 trip, 1 rename | `TypeOK`, `StalenessTold`, `NothingWithdrawnShown`, `DaysAccounted`, `VenuesOnce`, `DeletedStaysDeleted` |
| `ask_answer` | 6 questions, 18 clauses, any two in an answer; 2 changes during the question | `NoInventedListing`, `NoBorrowedScore`, `GapsSurvive`, `NoDayBothWays` |
| `ask_failed` | the same | a comment the code does not keep (section 7) |

Bounds.

* Delivery. Two faults combine a lost confirm with a crash, or a crash of the consumer
  with one of a producer; a delivery limit of 1 reaches exhaustion within two faults,
  where the code's 5 needs six; prefetch 2 lets one lost connection exhaust two
  deliveries at once, which is why `Quarantine` of the promise takes a set. `Slot`
  bounds the copies of one record; in `delivery_live` it must exceed what faults and
  repairs can create (one original, one per lost confirm, one per repair), otherwise
  `Publish` is disabled by the bound and fairness would not oblige the loop.
* Collected. Everything in the module is per record: the records interact only through
  the wipe and the boot, which treat each alike.
* Wording. Two forecasts that rank two activities differently reach every change of
  the queue (demoted, promoted, kept because asked for); a cap of 2 separates the first
  invalid answer from the last; with a batch of 1 the second row waits while the first
  is worded. `MaxInFlight` bounds the results in the queue: `Poll` waits until the
  batch fits, and the fair consumer always makes room.
* EgressWindow. Two commands overlap in every way on one network and on two; one
  mishap (a failing docker call or look, a kill, a reboot), because each failure of
  docker already voids what the guards promise (`Guarded`); a
  deadline of 2 polls separates the first from the last. The proofs have any number.
* Backup. One record of each kind that a wipe treats differently: collected, a user's,
  the model's. A behaviour accepts one of two sets (`Histories`), the first two with the
  wipe or the last with it, since records meet only through a wipe; the proofs have any.
  One fault stops a producer, the stack, the backup or the restore, or damages the copy.
* Recheck. Two applies of one ledger overlap in every order of storing; a window of one
  day lets a row expire between probe and apply. The proofs have any number.
* Trip. Three days are a first, a middle one that may lack a forecast, and a last; three
  changes put a typed activity's score, a forecast and a withdrawal between any two of
  the queries, the save and the reopening; only what `Wanted` holds is requested. One
  place of each kind runs out at once, so the rotation starts over. Of the two requests,
  one varies its days over all activities and narrows the places by an interest, the
  other wants two days of an activity the city has no rows of. With the last trip of
  `MaxTrips` saved nothing more is built.
* Ask. Two changes fall between any queries of the question, or before it: a store with
  more history differs only in its rows, and any weather may already be missing at the
  start; a request for the typed activity is one of them. Two clauses suffice because
  each check looks at one clause; the gaps ask whether any clause names the activity.
  The clauses hold, for each check, one it catches and one that its narrowness passes.

`CHECK_DEADLOCK FALSE` is set where the system may stop: with every record accepted and
settled, every envelope stored, every boot, probe, question or restore over, it has
nothing to do. `egress_window` never stops: time passes.

Fairness (`FairSpec`). `Delivery` and `Wording`: weak fairness of each publisher loop,
of the consumer loop, of the purge loops and of the enricher's loop, all of which are
`while True` loops that sleep for seconds and retry. No fairness of `Accept`, of faults
or of operators; faults are bounded, so from some point on the broker and the database
answer. Nothing is said of a system whose faults go on for ever, which indeed delivers
nothing. `EgressWindow`: time passes (`Tick`), a guard at its deadline makes its docker
calls, and so does a command between the start of its guard and the attachment; the
commands themselves may hang or die anywhere else, which is what the guard is for.

## 5. Proofs

Checked by TLAPS, for any sets of records, owners, delivery limits and bounds that
satisfy the assumptions of the modules.

* `DeliveryProofs`: `TypeCorrect`, `NoAcceptedRecordIsLost`, `EveryRecordIsAppliedOnce`,
  `PurgeIsNeverRefused`. `NothingLost` is not inductive. That a record whose row is gone
  is still in the broker needs: only published rows are purged, published rows are the
  oldest (`OrderInv`), keys of rows are distinct and below the next key (`RowInv`), and
  whatever was published once, is awaiting its mark, or was audited is stored or in some
  copy that will not be acked unstored (`BrokerInv`). `WritePathKeepsItsPromise`, `Spec
  => Implements`, is by cases on the actions: each is one step of the promise or leaves
  every `Fate` alone; it uses the same invariant.
* `CollectedProofs`: `TypeCorrect`, `RowsFollowTheLedger`, `WithdrawnStaysHidden`,
  `NoMarkWithoutADecision`, `DatesAreKept`, `NoSampleIsPublished`, `RowsStand`,
  `WipesRestore`. The strengthening: before the first boot the ledger is empty and only
  rows are marked, afterwards rows and ledger agree (`Agreement`); a stored decision
  that stands is in the ledger with or without a row (`Remembered`); every entry has a
  stored reason (`Justified`). These do not depend on what `Rebuilt` returns: a rebuild
  marks whatever rows it brings back from the ledger. `LeastNatural` (the least element
  of a set of naturals, from the library's well-foundedness of `<`) gives the first
  retraction a wipe replays. `WipesRestore` (`RebuildRestores`) does depend on it. The
  invariant is `Standing`: the rows are what the stored versions leave of them in some
  order (`Reflects`): a row for each record with a stored version and, of a place or a
  fact, the latest one. One more version is reflected by its upsert whatever came before
  (`UpsertReflects`), a patch or a mark changes nothing that `Reflects` speaks of, and
  the rebuild, which replays the outbox in the order of acceptance, reflects the same
  set (`Replaying`). What reflects a set of versions is unique (`LatestIsUnique`), so
  the rebuilt rows are the old ones without their patches.
* `WordingProofs`: `TypeCorrect`, `ScoresFollow`, `WordingFits`, `RowsInOrder`,
  `NewestStands`. `WordingFitsScore` is not inductive, since an answer that arrives was
  read long before. The strengthening says of every row the enricher holds or has sent
  (`Held`) that it is no newer than the forecast that stands nor than the row it is
  about (`HeldInv`); the guard of `store_llm_recommendation` says it is no older, and no
  two forecasts of a day share an `as_of`. Every consumer step either keeps a row's
  score or takes the standing forecast's, and either keeps a wording beside its score or
  drops it (`ScoreMoves`, `TextMoves`), which is all the invariant asks. A wipe keeps
  the forecast's version because the row always is the newest of the stored ones
  (`NewestInv`). `TypeCorrect` needs an argument at one place, the result that is
  published: it must find a free slot and not overwrite another. `QueueInv` counts the
  results in the queue, the rows read, the answer checked and the outbox row together:
  `Poll` admits a batch only if all of it fits, and each later step moves one unit. Of
  `Rules`: `ScoresInRange`, `MilderDaysScoreBetter`, for every activity block and every
  forecast. `Points` is monotone in the excess, every excess is monotone in the reading,
  and rounding keeps the order.
* `EgressWindowProofs`: `TypeCorrect`, `NothingLeftOpen`, `ExitStatusTrue`, `RouteKept`,
  `SuccessWhole`, `WindowBounded`, for any number of commands and mishaps.
  `LeftOpenOnlyByAKill` needs that a command that has ended has forgotten its failures
  (`CleanEnds`), and that a step of one command leaves the answer of every other alone,
  its failed look included.
  `SuccessIsWhole` needs what the verdict has established when the trap runs with status
  0 (`LeavesWhole`). `BoundedWindow` needs that every attachment is timed by a guard of
  its own network that has polled at least as often as it is old (`TimedRoutes`), that a
  command attaches only after its guard has started (`GuardedConnects`), and that one
  which has not come to that has no guard yet (`NoGuardYet`).
* `RecheckProofs`: `TypeCorrect`, `OfferedRowsWereLookedAt`, `OneReadingPerPage`,
  `LedgersTellAll`. A line of evidence, once written, stands; so a patch's date stays
  the date of its line, whenever it is sent and stored. `LedgerTellsAll` counts: the
  unrecorded patches are at most the applies that were cut and the one being sent
  (`CutInv`). For the types, a run is counted when it starts and cut at most once, and a
  ledger no probe has written yet is empty (`CountInv`).
* `BackupProofs`: `TypeCorrect`, `BackupHoldsWhatItProtects`, `RestoreLosesNothing`,
  `RestoredStackCanBeWiped`, `NothingDestroyedUnasked`. The argument is one of flow: a
  row leaves an outbox only once it is committed or behind a committed wipe, the copies
  are taken after the dump, so what the dump lacks is in a copy (`Flow`, `CopyInv`); what
  the enricher drops is void by the ledger, and what was void to the dump is void to the
  stack restored from it; and
  a restored row is owed, in the broker, committed, or named by an audit that is not
  over (`RestoredInv`, `AuditInv`).
* `TripProofs`: `TypeCorrect`, `StaleScoresAreTold`, `WithdrawnStaysOut`,
  `EveryDayAccounted`, `VenueSpentOnce`, `DeletionsStand`, for any days, catalogue,
  limits and number of trips. What is on the screen was read query by query, so the
  invariant relates the rows read to the store as it is now: withdrawn rows stay
  withdrawn and are in no later result, forecasts and scores only grow, a forecast read
  before the scores is no newer than they are (`ReadInv`), where they are scores of
  supported activities (`RowInv`). The plan so far has planned
  only covered days, names nothing withdrawn, has spent each venue once, and no saved
  copy is ahead of the store (`PlanInv`, `StoredInv`: `Timely`). An id has one save
  under way or stored at most, and none once it was deleted, because the page offers
  only stored trips.
* `AskProofs`: `TypeCorrect`, `NothingInvented`, `NothingBorrowed`, `OneStoryADay`,
  `GapsAreSaid`, for any questions, clauses and catalogue. The invariant: rows read are
  disjoint from what was withdrawn at the start (`RowsInv`), the activities named are
  the question's (`NamesInv`, which lets a name be both found and unknown), the scores
  are theirs alone (`ScoresInv`), and an answer
  is what its route makes of the rows: written by code, or clauses of the model none of
  which `Broken` rejects (`ReplyInv`). `GapsAreSaid` is by cases on the route, for two
  of which it claims less (section 7). `QuestionsAreAboutDays` and `NamedDaysAreThose`
  are about `Dates`: the arithmetic of weekdays, and the first count or date of a set,
  for every day.

The assumptions are properties of the code's data. Envelopes of different kinds have
different ids (`CollectedAssumption`, `WordingAssumption`): an id is random, or a hash
over the routing key and the content. Forecasts of a day with one `as_of` are one
envelope, and ties of scores, of activities and of places are broken by key (`AsOf`,
`Score`, `ActivityRank` one-to-one). The catalogue is finite and not empty. `None`
stands for NULL and is no value.

Only model-checked: liveness (`Settles`, `WipeErasesOutbox`, `EverythingSettles`,
`WindowCloses`), because the prover does not reason about fairness and ENABLED. Every
invariant and every action property of the passing runs is a theorem, and so is the
refinement `Implements`.

## 6. Not modelled

Listed with reasons in `PROJECT.json`. Left out altogether: the content, basemap and
provider fetchers (HTTP and parsing; what they accept enters through the outbox),
metrics (nothing reads them back), bootstrap, packaging, release and CI scripts
(one-shot file and image handling), the UI's pages other than the planner, the queries
for facts, record history, cities and monitoring. Within the modelled parts:

* the content of an event row other than version, expiry and patch flag; the
  revision counter and `record_history` (a wipe clears it);
* a row marked by hand without a reason, which migration 010 skips;
* a migration running while an old consumer still runs: `Boot` is one step;
* the content of a sentence; several days in one enricher batch, and a result stored
  twice (`Delivery`'s `AppliedOnce` excludes it); a request that names no known city;
* broker internals (quorum loss, disk); a confirmed message is durable;
* a docker call that hangs: `EgressWindow` assumes that the calls `open_egress` makes
  between starting its guard and attaching the ingestor fall within one poll;
* in `Backup`, a failing `docker compose ps -q 2>/dev/null`, which reads as a target that
  is not running; file formats and checksums (a manifest is sound or damaged), the
  verification of a single table, and what the live stack does between the end of the
  backup and the restore, which reaches neither;
* text: which words a question or a page contains, how a sentence is cut into clauses,
  HTML and JSON-LD. `Ask` starts from what the words say, `Recheck` from what a reading
  says, `Dates` from the phrases found. Of the checks of a wording, those about titles
  of listings, the background facts and the traveller's own words are left out (no
  clause of `Ask` names a listing by its title), as is a name that carries a keyword
  without being declared in `distinct_names`;
* several questions or browser sessions at once: they share only rows they read.

## 7. Disagreements found

With a run that exhibits it; `PROJECT.json` quotes the lines.

* An older curated retraction stored late overwrites a later correction, which a
  comment of `apply_retraction` says it must not (`withdrawal_correction`).
* A request for a day without weather stores a `failed` row without a score, which the
  comment above it calls wrong, and an answer about it reports the null score
  (`ask_failed`).
* "A backup protects everything the stack had accepted before `started_at`": a wipe
  committed between the dump and the copy of the API's outbox, and purged in between,
  is in neither (`backup_runbook`).

Met while modelling, without a run of their own:

* A reinstatement migration, rerun by every boot, lifts a withdrawal made after it,
  against "match nothing the second time" (`010_retraction_ledger.sql:220`).
* Changing the recheck window and changing it back mints an id already accepted, so the
  old expiry stays, against "the running configuration always wins"
  (`ingestor/main.py:144-171`).
* A connected refresh "invalidates wording for that day", but an activity a visitor
  typed keeps its old score and sentence (`ARCHITECTURE.md:157-158`).
* So a trip may pick a typed activity on a score of an older forecast: the day is
  stamped with the new one, and reopening it tells nothing (`consumer/main.py:239-280`,
  `ui/app.py:776-822`). `StalenessTold` speaks of the catalogue's activities, and of
  typed ones scored from the stamped forecast or a later one.
* "3  the egress window could NOT be closed" (`refresh.sh:53-58`) does not cover a last
  look that docker did not answer (`refresh.sh:146-158`, 242-266, 344-353, and the same
  in `event-recheck.sh`): the command then exits as if the window were closed. The
  properties of `EgressWindow` except it (`overlooked`).
* A name looked up twice, with a request for it stored in between, is in both lists
  (`router.py:671`, 716; line 711 tests one of them): the answer gives its score and says
  that none is on record.
* "What a clause may not do is say one of these is *on*" (`grounding.py:1289-1290`), but
  `SCHEDULE_PREDICATES` lacks "is on", so "the open-air music festival is on" passes
  without a listing. By design a date before the claim word passes check 3b
  (`grounding.py:1351-1355`), and a band given to an activity without a row passes unless
  the question named it: only check 5 reads bands (`grounding.py:117-120`).
* `where_answer` names no day without weather and no kind without a listing
  (`agent/main.py:387-440`), and the answer made when nothing was found appends
  `gap_block`, which leaves the activities out (`agent/main.py:156-161`); `GapsSurvive`
  does not ask it of them.
* A wipe "reverts manual corrections" and the enricher skips results that crossed it,
  but a result already published, or accepted right after the check, words the rebuilt
  row from the removed correction (`ARCHITECTURE.md:111-116`).
* "A row's `checked_at` moves only when a human runs `apply`" (`event_recheck.py:75`):
  an older ledger applied later moves it backwards, and a version of the row with
  another expiry overwrites a re-check (`consumer/main.py:716`).
* Withdrawn copies are "counted and reported rather than silently removed"
  (`queries.py:626-628`), but `plan_from_saved` drops the count.
* Capped sea activities "cannot outrank a land activity that scored on evidence"
  (`planning.py:40-41`), but the interest bonus of 15 and the repeat penalty of 18 are
  applied after the cap; and once every listed place has been shown, the rotation that
  is to avoid repeats (`agent/main.py:743-750`) starts over without noting that day's
  places, so the next day may repeat them.
* A DELETE accepted for a trip whose save is not stored yet is stored first and deletes
  nothing. The page offers only stored trips, the API accepts any id.
* "If it is already the weekend, this one" (`dates.py:223`): on a Sunday it is the next.
* `sqlite_backup.py:37-39` says nothing is ever deleted from an outbox; the purges do.
* `restore-state.sh`: `down -v ... || true` (line 347) goes on over old volumes when it
  fails; commands without an `|| die` end the script with 1 after the volumes are gone,
  where the header says 1 is a bad command line; a stack restored without the
  ingestor's copy refuses every later wipe.

## 8. Running

    tlc -workers 2 -config MCDelivery_faults.cfg MCDelivery
    tlapm DeliveryProofs.tla
