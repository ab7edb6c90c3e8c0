------------------------------ MODULE Recheck ------------------------------
(***************************************************************************)
(* The operator-assisted re-check of stored event listings: probe reads    *)
(* the listing pages into an evidence ledger, a human runs apply, and apply*)
(* renews rows through PATCH /records/events/<id> and the queue.           *)
(*                                                                         *)
(* What a fetch returns is any reading: the venues' sites are not ours.    *)
(* Module Delivery supplies the write path (an accepted patch is stored at *)
(* most once, in any order), module EgressWindow the route out, module     *)
(* Collected the rest of what may happen to a row.                         *)
(***************************************************************************)
EXTENDS Naturals, FiniteSets

CONSTANTS
  Event,       \* stored listings that are not generated samples
  UrlOf,       \* UrlOf[e]: its source_url, or None
  Field,       \* what a listing and a page both state: title, venue, days
  Value,       \* values of a field, after normalise_title and local_day
  Reading,     \* what one GET of a page may produce
  Version,     \* versions of the rows the ingestor may bring
  Window,      \* AOW_EVENT_RECHECK_DAYS
  None,
  MaxClock,    \* bound: days
  MaxProbes,   \* bound: probes, each of which writes one ledger
  MaxApplies   \* bound: runs of apply

Url     == {UrlOf[e] : e \in Event} \ {None}
Content == [Field -> Value \cup {None}]
Verdicts == {"gone", "cancelled", "changed", "unreachable", "unverifiable", "confirmed"}

\* A GET that got no answer, or never left because the row has no source_url.
NoPage == [error |-> TRUE, status |-> 0, html |-> FALSE, event |-> None]

ASSUME RecheckAssumption ==
  /\ IsFiniteSet(Event)
  /\ None \notin Value
  /\ Reading \subseteq [error : BOOLEAN, status : Nat, html : BOOLEAN,
                        event : [says : Content, cancelled : BOOLEAN] \cup {None}]
  /\ NoPage \in Reading
  /\ Version \subseteq [event : Event, content : Content, asof : Nat, checked : Nat]
  /\ \A e \in Event : \E v \in Version : v.event = e /\ v.asof = 0 /\ v.checked = 0
  /\ Window \in Nat /\ MaxClock \in Nat /\ MaxProbes \in Nat /\ MaxApplies \in Nat

Ledgers == 1..MaxProbes

VARIABLES
  clock,      \* the day
  row,        \* row[e]: what table events holds of e
  ingested,   \* versions the consumer has stored
  probe,      \* the running probe
  seen,       \* seen_urls: what the running probe has read
  evidence,   \* evidence[f]: the observation lines of ledger f
  decisions,  \* decisions[f]: the decision lines appended to ledger f
  apply,      \* the running apply
  accepted,   \* patches in the api's outbox, with the run that sent them
  stored,     \* the ones the consumer has applied
  probes, applies, cut   \* starts of each, and applies that were cut short

rowVars   == <<row, ingested, stored>>
probeVars == <<probe, seen, evidence, probes>>
applyVars == <<decisions, apply, accepted, applies, cut>>
vars == <<clock, rowVars, probeVars, applyVars>>

Idle == [state |-> "idle"]

Until(checked) == checked + Window
Row(v) == [content |-> v.content, asof |-> v.asof,
           checked |-> v.checked, until |-> Until(v.checked)]

--------------------------------------------------------------------------
(* Verdicts. *)

\* compare: the fields the page states and we store, where the two disagree.  A
\* field the page leaves out is an absence, never a difference.
Differences(content, says) ==
  {f \in Field : says[f] # None /\ content[f] # None /\ says[f] # content[f]}

Gone(r)     == ~r.error /\ r.status \in {404, 410}
Readable(r) == ~r.error /\ r.status < 400 /\ r.html
Verdict(content, r) ==
  CASE Gone(r)                                   -> "gone"
    [] ~Gone(r) /\ ~Readable(r)                  -> "unreachable"
    [] Readable(r) /\ r.event = None             -> "unverifiable"
    [] Readable(r) /\ r.event # None             ->
         IF r.event.cancelled THEN "cancelled"
         ELSE IF Differences(content, r.event.says) # {} THEN "changed"
         ELSE "confirmed"

\* evidence_line, of what a reader of the ledger uses.
Line(content, url, reading, at) ==
  [url |-> url, at |-> at, reading |-> reading, stored |-> content,
   verdict |-> Verdict(content, reading)]

Observed(f, e)  == e \in DOMAIN evidence[f]
Renewable(f, e) == evidence[f][e].verdict = "confirmed"

--------------------------------------------------------------------------
(* probe: GET /events, one GET per distinct source_url, one line per row.  *)

\* The rows are read once; the pages are read over the days that follow.
ProbeStarts(ids) ==
  /\ probe = Idle /\ probes < MaxProbes
  /\ ids # {}
  /\ probes' = probes + 1
  /\ probe' = [state |-> "reading", listed |-> [e \in ids |-> row[e].content],
               todo |-> ids]
  /\ seen' = [u \in {} |-> None]
  /\ UNCHANGED <<clock, rowVars, evidence, applyVars>>

Page_ReadAgain(url, reading) == reading.at = clock
\* A page is fetched once, and its reading kept for the rows that share it.
Page(url, reading) ==
  IF url \in DOMAIN seen THEN reading = seen[url] ELSE reading.at = clock

ProbeReads(e, reading) ==
  LET url == UrlOf[e]
  IN  /\ probe.state = "reading" /\ e \in probe.todo
      /\ IF url = None THEN reading = [at |-> clock, got |-> NoPage]
                       ELSE Page(url, reading)
      /\ seen' = IF url = None \/ url \in DOMAIN seen THEN seen
                 ELSE [u \in DOMAIN seen \cup {url} |->
                         IF u = url THEN reading ELSE seen[u]]
      /\ evidence' = [evidence EXCEPT ![probes] =
           [d \in DOMAIN evidence[probes] \cup {e} |->
              IF d = e THEN Line(probe.listed[e], url, reading.got, reading.at)
                       ELSE evidence[probes][d]]]
      /\ probe' = [probe EXCEPT !.todo = @ \ {e}]
      /\ UNCHANGED <<clock, rowVars, probes, applyVars>>

\* It ends, or is interrupted: what stdout was given is the ledger.
ProbeEnds ==
  /\ probe.state = "reading"
  /\ probe' = Idle
  /\ UNCHANGED <<clock, rowVars, seen, evidence, probes, applyVars>>

--------------------------------------------------------------------------
(* apply: the only thing that moves checked_at, and it is a patch.         *)
Grounds(f, ids, note) ==
  \A e \in ids : Observed(f, e) /\ (Renewable(f, e) \/ note)

Chosen(f, all, ids) ==
  ids \cup {e \in DOMAIN evidence[f] : all /\ Renewable(f, e)}

\* Without --yes it stops here, having done nothing.
ApplyStarts(f, all, ids, note) ==
  /\ apply = Idle /\ applies < MaxApplies
  /\ Grounds(f, ids, note)
  /\ Chosen(f, all, ids) # {}
  /\ applies' = applies + 1
  /\ apply' = [state |-> "sending", file |-> f, note |-> note,
               todo |-> Chosen(f, all, ids)]
  /\ UNCHANGED <<clock, rowVars, probeVars, decisions, accepted, cut>>

CheckedAt_Now(f, e) == clock
\* "The instant the page was actually read, not now."
CheckedAt(f, e) == evidence[f][e].at

\* The note is kept where it is the grounds: a confirmed row needs none.
Noted(e) == apply.note /\ ~Renewable(apply.file, e)

Patch(e) ==
  [event |-> e, checked |-> CheckedAt(apply.file, e),
   file |-> apply.file, run |-> applies, noted |-> Noted(e)]

Decision(e, action, patch) ==
  [event |-> e, action |-> action, checked |-> CheckedAt(apply.file, e),
   noted |-> Noted(e), message |-> patch]

Decide_Overwriting(line) ==
  decisions' = [decisions EXCEPT ![apply.file] = {line}]
\* append_evidence.
Decide(line) ==
  decisions' = [decisions EXCEPT ![apply.file] = @ \cup {line}]

\* The api accepts the patch and its answer arrives: the decision is still to be
\* appended.
ApplyAccepted(e) ==
  /\ apply.state = "sending" /\ e \in apply.todo
  /\ accepted' = accepted \cup {Patch(e)}
  /\ apply' = [state |-> "accepted", file |-> apply.file, note |-> apply.note,
               todo |-> apply.todo \ {e}, of |-> Patch(e)]
  /\ UNCHANGED <<clock, rowVars, probeVars, decisions, applies, cut>>

ApplyAppends ==
  /\ apply.state = "accepted"
  /\ Decide(Decision(apply.of.event, "recheck-accepted", apply.of))
  /\ apply' = [state |-> "sending", file |-> apply.file, note |-> apply.note,
               todo |-> apply.todo]
  /\ UNCHANGED <<clock, rowVars, probeVars, accepted, applies, cut>>

\* The call fails.  A timeout does not tell whether the api had accepted it.
ApplyFails(e, after) ==
  /\ apply.state = "sending" /\ e \in apply.todo
  /\ accepted' = IF after THEN accepted \cup {Patch(e)} ELSE accepted
  /\ Decide(Decision(e, "patch-failed", None))
  /\ apply' = [apply EXCEPT !.todo = @ \ {e}]
  /\ UNCHANGED <<clock, rowVars, probeVars, applies, cut>>

ApplyEnds ==
  /\ apply.state = "sending" /\ apply.todo = {}
  /\ apply' = Idle
  /\ UNCHANGED <<clock, rowVars, probeVars, decisions, accepted, applies, cut>>

\* The process is killed, or its disk refuses the line.
ApplyCut ==
  /\ apply # Idle
  /\ apply' = Idle
  /\ cut' = cut + 1
  /\ UNCHANGED <<clock, rowVars, probeVars, decisions, accepted, applies>>

--------------------------------------------------------------------------
(* The consumer.                                                           *)

\* apply_patch: the expiry moves with the check date, by the one policy.
StorePatch(m) ==
  /\ m \in accepted \ stored
  /\ stored' = stored \cup {m}
  /\ row' = [row EXCEPT ![m.event].checked = m.checked,
                        ![m.event].until = Until(m.checked)]
  /\ UNCHANGED <<clock, ingested, probeVars, applyVars>>

\* upsert_event: a newer as_of, or another expiry, replaces the row.
StoreVersion(v) ==
  /\ v \in Version \ ingested
  /\ v.asof <= clock /\ v.checked <= clock
  /\ ingested' = ingested \cup {v}
  /\ row' = [row EXCEPT ![v.event] =
               IF v.asof > @.asof \/ Until(v.checked) # @.until THEN Row(v) ELSE @]
  /\ UNCHANGED <<clock, stored, probeVars, applyVars>>

Day ==
  /\ clock < MaxClock
  /\ clock' = clock + 1
  /\ UNCHANGED <<rowVars, probeVars, applyVars>>

--------------------------------------------------------------------------

\* Every row starts as the first version of it that was collected.
First(e) == CHOOSE v \in Version : v.event = e /\ v.asof = 0 /\ v.checked = 0

Init ==
  /\ clock = 0
  /\ row = [e \in Event |-> Row(First(e))]
  /\ ingested = {First(e) : e \in Event}
  /\ probe = Idle /\ seen = [u \in {} |-> None] /\ probes = 0
  /\ evidence = [f \in Ledgers |-> [e \in {} |-> None]]
  /\ decisions = [f \in Ledgers |-> {}]
  /\ apply = Idle /\ accepted = {} /\ stored = {} /\ applies = 0 /\ cut = 0

Next ==
  \/ Day
  \/ \E ids \in SUBSET Event : ProbeStarts(ids)
  \/ \E e \in Event :
       \/ \E got \in Reading, at \in 0..clock :
            ProbeReads(e, [at |-> at, got |-> got])
       \/ ApplyAccepted(e)
       \/ \E after \in BOOLEAN : ApplyFails(e, after)
  \/ ProbeEnds
  \/ \E f \in Ledgers, all, note \in BOOLEAN, ids \in SUBSET Event :
       ApplyStarts(f, all, ids, note)
  \/ ApplyAppends \/ ApplyEnds \/ ApplyCut
  \/ \E m \in accepted : StorePatch(m)
  \/ \E v \in Version : StoreVersion(v)

Spec == Init /\ [][Next]_vars

(***************************************************************************)
(* Properties.                                                             *)
(***************************************************************************)

Instant == 0..MaxClock

Patches ==
  [event : Event, checked : Instant, file : Ledgers, run : 1..MaxApplies, noted : BOOLEAN]

TypeOK ==
  /\ clock \in Instant
  /\ \A e \in Event :
       row[e] \in [content : Content, asof : Nat, checked : Instant, until : Nat]
  /\ ingested \subseteq Version
  /\ DOMAIN seen \subseteq Url
  /\ probes \in 0..MaxProbes /\ applies \in 0..MaxApplies /\ cut \in 0..applies
  /\ \A f \in Ledgers :
       /\ DOMAIN evidence[f] \subseteq Event
       /\ f > probes => evidence[f] = [e \in {} |-> None] /\ decisions[f] = {}
       /\ \A e \in DOMAIN evidence[f] : evidence[f][e].verdict \in Verdicts
  /\ probe # Idle => probe.todo \subseteq DOMAIN probe.listed
  /\ apply # Idle => apply.todo \subseteq DOMAIN evidence[apply.file]
  /\ accepted \subseteq Patches /\ stored \subseteq accepted

\* The page itself supported the row it was read for.
Supported(line) ==
  /\ ~line.reading.error /\ line.reading.status \notin {403, 404, 410, 429, 503}
  /\ line.reading.event # None
  /\ ~line.reading.event.cancelled
  /\ Differences(line.stored, line.reading.event.says) = {}

\* Day t is one on which e was looked at: it was collected then, or a ledger has
\* a reading of its page that supported it or that an operator vouched for.
LookedAt(e, t) ==
  \/ \E v \in ingested : v.event = e /\ v.checked = t
  \/ \E f \in Ledgers :
       /\ Observed(f, e) /\ evidence[f][e].at = t
       /\ \/ Supported(evidence[f][e])
          \/ \E m \in accepted : m.event = e /\ m.file = f /\ m.noted

\* "A row stops being offered as a schedule once nobody has looked at its page
\* for AOW_EVENT_RECHECK_DAYS" (event_recheck.py): whatever ledger is applied, how
\* late, how often, and with whatever answers lost, a row that is offered today
\* was looked at less than the window ago.
OfferedWasLookedAt ==
  \A e \in Event : row[e].until > clock =>
    \E t \in 0..clock : t + Window > clock /\ LookedAt(e, t)

Recorded(m) ==
  \E d \in decisions[m.file] :
    /\ d.event = m.event /\ d.checked = m.checked
    /\ d.message \in {m, None}

\* "What was observed and when survives": every patch the api accepted has its
\* decision in the ledger it came from, and every decision that names a message
\* names an accepted one; what a killed apply leaves out is one line at most.
LedgerTellsAll ==
  /\ Cardinality({m \in accepted : ~Recorded(m)})
       <= cut + (IF apply.state = "accepted" THEN 1 ELSE 0)
  /\ \A f \in Ledgers : \A d \in decisions[f] :
       d.action = "recheck-accepted" => d.message \in accepted

\* Rows that share a page share its reading, "which keeps the two rows' evidence
\* identical" (cmd_probe), however long the probe takes and whatever the site says
\* in between.
SharedPageOneReading ==
  \A f \in Ledgers : \A d, e \in DOMAIN evidence[f] :
    UrlOf[d] = UrlOf[e] /\ UrlOf[d] # None =>
      /\ evidence[f][d].at = evidence[f][e].at
      /\ evidence[f][d].reading = evidence[f][e].reading
==========================================================================
