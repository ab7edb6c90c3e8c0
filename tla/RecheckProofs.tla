---------------------------- MODULE RecheckProofs ----------------------------
(***************************************************************************)
(* What holds of the re-check of listings for any number of listings,      *)
(* pages, ledgers, runs of apply and days.                                 *)
(*                                                                         *)
(* The argument: a line of evidence, once written, stands (LinesStand), so *)
(* the grounds on which a row was renewed are there for as long as the row *)
(* relies on them.                                                         *)
(***************************************************************************)
EXTENDS Recheck, FiniteSetTheorems, TLAPS

-----------------------------------------------------------------------------
(***************************************************************************)
(* The inductive invariant.                                                *)
(***************************************************************************)

ShapeInv ==
  /\ clock \in Nat /\ probes \in 0..MaxProbes
  /\ DOMAIN row = Event /\ DOMAIN evidence = Ledgers /\ DOMAIN decisions = Ledgers
  /\ \A e \in Event : row[e] \in [content : Content, asof : Nat, checked : Nat, until : Nat]
  /\ ingested \subseteq Version

ProbeInv ==
  /\ \/ probe = Idle
     \/ /\ probes > 0
        /\ \E l, t : probe = [state |-> "reading", listed |-> l, todo |-> t]
        /\ probe.todo \subseteq Event
        /\ probe.todo \cap DOMAIN evidence[probes] = {}
  /\ \A f \in Ledgers : f > probes => DOMAIN evidence[f] = {}

\* A line is of a listing, was read on a day that has come, and its verdict is
\* the one classify gives.
LineInv ==
  \A f \in Ledgers : \A e \in DOMAIN evidence[f] :
    /\ e \in Event
    /\ evidence[f][e].at \in 0..clock
    /\ evidence[f][e].reading \in Reading
    /\ evidence[f][e].verdict = Verdict(evidence[f][e].stored, evidence[f][e].reading)

\* What the running probe has written is what it has seen.
SeenInv ==
  probe # Idle =>
    \A e \in DOMAIN evidence[probes] : UrlOf[e] # None =>
      /\ UrlOf[e] \in DOMAIN seen
      /\ evidence[probes][e].at = seen[UrlOf[e]].at
      /\ evidence[probes][e].reading = seen[UrlOf[e]].got

ApplyInv ==
  \/ apply = Idle
  \/ /\ apply.file \in Ledgers
     /\ apply.note \in BOOLEAN
     /\ \A e \in apply.todo : Observed(apply.file, e) /\ (Renewable(apply.file, e) \/ apply.note)
     /\ \/ \E f, n, t : apply = [state |-> "sending", file |-> f, note |-> n, todo |-> t]
        \/ /\ \E f, n, t, o :
                apply = [state |-> "accepted", file |-> f, note |-> n, todo |-> t, of |-> o]
           /\ apply.of \in accepted /\ apply.of.file = apply.file

PatchInv ==
  /\ stored \subseteq accepted
  /\ \A m \in accepted :
       /\ m.file \in Ledgers /\ m.event \in Event
       /\ Observed(m.file, m.event)
       /\ m.checked = evidence[m.file][m.event].at
       /\ Renewable(m.file, m.event) \/ m.noted

\* A row's check date is a day it was looked at, and its expiry follows from it.
RowInv ==
  \A e \in Event :
    /\ row[e].checked \in 0..clock
    /\ row[e].until = Until(row[e].checked)
    /\ LookedAt(e, row[e].checked)

Inv ==
  /\ ShapeInv /\ ProbeInv /\ LineInv /\ SeenInv /\ ApplyInv /\ PatchInv /\ RowInv
  /\ SharedPageOneReading

-----------------------------------------------------------------------------
(***************************************************************************)
(* What was looked at stays looked at.                                     *)
(***************************************************************************)

\* A confirmed line is one whose page supports the row it was read for.
LEMMA ConfirmedIsSupported ==
  ASSUME LineInv, NEW f \in Ledgers, NEW e, Observed(f, e), Renewable(f, e)
  PROVE  Supported(evidence[f][e])
  <1> DEFINE line == evidence[f][e]
             r    == line.reading
  <1>1. r \in Reading /\ Verdict(line.stored, r) = "confirmed"
    BY DEF LineInv, Observed, Renewable
  <1>2. r.error \in BOOLEAN /\ r.status \in Nat
    BY <1>1, RecheckAssumption
  <1> HIDE DEF r
  <1>3. Readable(r) /\ ~Gone(r)
    BY <1>1, <1>2 DEF Verdict, Readable, Gone
  <1>4. r.event # None /\ ~r.event.cancelled
        /\ Differences(line.stored, r.event.says) = {}
    BY <1>1, <1>3 DEF Verdict
  <1>5. ~r.error /\ r.status \notin {403, 404, 410, 429, 503}
    BY <1>2, <1>3 DEF Readable
  <1> QED BY <1>4, <1>5 DEF Supported, r

\* An accepted patch is dated by a day on which its row was looked at.
LEMMA PatchedWasLookedAt ==
  ASSUME LineInv, PatchInv, NEW m \in accepted
  PROVE  LookedAt(m.event, m.checked)
  <1>1. m.file \in Ledgers /\ Observed(m.file, m.event)
        /\ m.checked = evidence[m.file][m.event].at
        /\ (Renewable(m.file, m.event) \/ m.noted)
    BY DEF PatchInv
  <1>2. Renewable(m.file, m.event) => Supported(evidence[m.file][m.event])
    BY <1>1, ConfirmedIsSupported
  <1> QED BY <1>1, <1>2 DEF LookedAt

\* Every line of evidence is still there after a step, unchanged.
LinesKept ==
  /\ DOMAIN evidence' = Ledgers
  /\ \A f \in Ledgers : \A e \in DOMAIN evidence[f] :
       e \in DOMAIN evidence'[f] /\ evidence'[f][e] = evidence[f][e]

LEMMA LookedAtKept ==
  ASSUME LinesKept, accepted \subseteq accepted', ingested \subseteq ingested',
         NEW e, NEW t, LookedAt(e, t)
  PROVE  LookedAt(e, t)'
  <1>1. CASE \E v \in ingested : v.event = e /\ v.checked = t
    BY <1>1 DEF LookedAt
  <1>2. CASE \E f \in Ledgers :
               /\ Observed(f, e) /\ evidence[f][e].at = t
               /\ \/ Supported(evidence[f][e])
                  \/ \E m \in accepted : m.event = e /\ m.file = f /\ m.noted
    <2>1. PICK f \in Ledgers :
               /\ Observed(f, e) /\ evidence[f][e].at = t
               /\ \/ Supported(evidence[f][e])
                  \/ \E m \in accepted : m.event = e /\ m.file = f /\ m.noted
      BY <1>2
    <2>2. Observed(f, e)' /\ evidence'[f][e] = evidence[f][e]
      BY <2>1 DEF LinesKept, Observed
    <2>3. Supported(evidence[f][e]) => Supported(evidence[f][e])'
      BY <2>2 DEF Supported, Differences
    <2> QED BY <2>1, <2>2, <2>3 DEF LookedAt
  <1> QED BY <1>1, <1>2 DEF LookedAt

\* Steps that leave the ledgers and the rows alone leave alone what rests on them.
LEMMA RowsLeftAlone ==
  ASSUME RowInv, ShapeInv, LinesKept, UNCHANGED rowVars,
         accepted \subseteq accepted', clock' \in Nat, clock <= clock'
  PROVE  RowInv'
  <1> SUFFICES ASSUME NEW e \in Event
               PROVE  /\ row'[e].checked \in 0..clock'
                      /\ row'[e].until = Until(row'[e].checked)
                      /\ (LookedAt(e, row[e].checked))'
    BY DEF RowInv, Until
  <1>1. row' = row /\ ingested' = ingested
    BY DEF rowVars
  <1>2. PICK t : t = row[e].checked
    OBVIOUS
  <1>3. LookedAt(e, t)'
    BY <1>1, <1>2, LookedAtKept DEF RowInv
  <1>4. (LookedAt(e, row[e].checked))'
    BY <1>1, <1>2, <1>3
  <1> QED BY <1>1, <1>4 DEF RowInv, ShapeInv

\* Grounds already there are still there.
LEMMA PatchesLeftAlone ==
  ASSUME PatchInv, LinesKept, accepted' = accepted, stored' = stored
  PROVE  PatchInv'
  BY DEF PatchInv, LinesKept, Observed, Renewable

LEMMA ApplyLeftAlone ==
  ASSUME ApplyInv, LinesKept, accepted' = accepted, apply' = apply
  PROVE  ApplyInv'
  BY DEF ApplyInv, LinesKept, Observed, Renewable

-----------------------------------------------------------------------------
(***************************************************************************)
(* Each step keeps the invariant.                                          *)
(***************************************************************************)

\* Steps that write no line keep all that is said of the lines.
LEMMA LedgersLeftAlone ==
  ASSUME Inv, evidence' = evidence, clock' \in Nat, clock <= clock'
  PROVE  LinesKept /\ LineInv' /\ SharedPageOneReading'
  <1>1. LinesKept
    BY DEF Inv, ShapeInv, LinesKept
  <1>2. LineInv'
    BY DEF Inv, ShapeInv, LineInv
  <1>3. SharedPageOneReading'
    BY DEF Inv, SharedPageOneReading
  <1> QED BY <1>1, <1>2, <1>3

LEMMA InitInv == Init => Inv
  <1> SUFFICES ASSUME Init PROVE Inv OBVIOUS
  <1>1. \A e \in Event : First(e) \in Version /\ First(e).event = e
                         /\ First(e).asof = 0 /\ First(e).checked = 0
    BY RecheckAssumption DEF First
  <1>2. ASSUME NEW e \in Event
        PROVE  row[e] \in [content : Content, asof : Nat, checked : Nat, until : Nat]
               /\ row[e].checked = 0 /\ row[e].until = Until(row[e].checked)
    <2>1. First(e) \in [event : Event, content : Content, asof : Nat, checked : Nat]
      BY <1>1, RecheckAssumption
    <2>2. row[e] = [content |-> First(e).content, asof |-> First(e).asof,
                    checked |-> First(e).checked, until |-> Until(First(e).checked)]
      BY DEF Init, Row
    <2> QED BY <1>1, <2>1, <2>2, RecheckAssumption DEF Until
  <1>3. ShapeInv
    BY <1>1, <1>2, RecheckAssumption DEF Init, ShapeInv, Ledgers
  <1>4. RowInv
    BY <1>1, <1>2, RecheckAssumption DEF Init, RowInv, LookedAt
  <1>5. \A f \in Ledgers : DOMAIN evidence[f] = {}
    BY DEF Init
  <1>6. ProbeInv /\ LineInv /\ SeenInv /\ SharedPageOneReading
    BY <1>5 DEF Init, ProbeInv, LineInv, SeenInv, SharedPageOneReading, Idle
  <1>7. ApplyInv /\ PatchInv
    BY DEF Init, ApplyInv, PatchInv
  <1> QED BY <1>3, <1>4, <1>6, <1>7 DEF Inv

LEMMA DayInv == Inv /\ Day => Inv'
  <1> SUFFICES ASSUME Inv, Day PROVE Inv' OBVIOUS
  <1> USE DEF Day, rowVars, probeVars, applyVars
  <1>1. clock' \in Nat /\ clock <= clock'
    BY DEF Inv, ShapeInv
  <1>2. LinesKept /\ LineInv' /\ SharedPageOneReading'
    BY <1>1, LedgersLeftAlone
  <1>3. ShapeInv'
    BY <1>1 DEF Inv, ShapeInv
  <1>4. ProbeInv' /\ SeenInv'
    BY DEF Inv, ProbeInv, SeenInv
  <1>5. ApplyInv' /\ PatchInv'
    BY <1>2, PatchesLeftAlone, ApplyLeftAlone DEF Inv
  <1>6. RowInv'
    BY <1>1, <1>2, RowsLeftAlone DEF Inv
  <1> QED BY <1>2, <1>3, <1>4, <1>5, <1>6 DEF Inv

LEMMA ProbeStartsInv ==
  ASSUME Inv, NEW ids \in SUBSET Event, ProbeStarts(ids)
  PROVE  Inv'
  <1> USE DEF ProbeStarts, rowVars, applyVars
  <1>1. clock' \in Nat /\ clock <= clock'
    BY DEF Inv, ShapeInv
  <1>2. LinesKept /\ LineInv' /\ SharedPageOneReading'
    BY <1>1, LedgersLeftAlone
  <1>3. probes' \in Ledgers /\ probes' > probes
    BY RecheckAssumption DEF Inv, ShapeInv, Ledgers
  <1>4. ShapeInv'
    BY <1>3 DEF Inv, ShapeInv, Ledgers
  <1>5. DOMAIN evidence'[probes'] = {}
    BY <1>3 DEF Inv, ProbeInv
  <1>6. ProbeInv'
    <2>1. \A f \in Ledgers : f > probes' => f > probes
      BY <1>3 DEF Inv, ShapeInv, Ledgers
    <2>2. PICK l : probe' = [state |-> "reading", listed |-> l, todo |-> ids]
      OBVIOUS
    <2>3. \E k, t : probe' = [state |-> "reading", listed |-> k, todo |-> t]
      BY <2>2, Zenon
    <2>4. probe'.todo = ids
      BY <2>2
    <2>5. \A f \in Ledgers : f > probes' => DOMAIN evidence'[f] = {}
      BY <2>1 DEF Inv, ProbeInv
    <2>6. probes' > 0
      BY <1>3 DEF Ledgers
    <2> QED BY <1>5, <2>3, <2>4, <2>5, <2>6 DEF ProbeInv
  <1>7. SeenInv'
    BY <1>5 DEF SeenInv
  <1>8. ApplyInv' /\ PatchInv'
    BY <1>2, PatchesLeftAlone, ApplyLeftAlone DEF Inv
  <1>9. RowInv'
    BY <1>1, <1>2, RowsLeftAlone DEF Inv
  <1> QED BY <1>2, <1>4, <1>6, <1>7, <1>8, <1>9 DEF Inv

LEMMA ProbeEndsInv == Inv /\ ProbeEnds => Inv'
  <1> SUFFICES ASSUME Inv, ProbeEnds PROVE Inv' OBVIOUS
  <1> USE DEF ProbeEnds, rowVars, applyVars
  <1>1. clock' \in Nat /\ clock <= clock'
    BY DEF Inv, ShapeInv
  <1>2. LinesKept /\ LineInv' /\ SharedPageOneReading'
    BY <1>1, LedgersLeftAlone
  <1>3. ShapeInv'
    BY DEF Inv, ShapeInv
  <1>4. ProbeInv' /\ SeenInv'
    BY DEF Inv, ProbeInv, SeenInv
  <1>5. ApplyInv' /\ PatchInv'
    BY <1>2, PatchesLeftAlone, ApplyLeftAlone DEF Inv
  <1>6. RowInv'
    BY <1>1, <1>2, RowsLeftAlone DEF Inv
  <1> QED BY <1>2, <1>3, <1>4, <1>5, <1>6 DEF Inv

\* A line is written once, and says what the page said.
LEMMA ProbeReadsInv ==
  ASSUME Inv, NEW e \in Event, NEW got \in Reading, NEW at \in 0..clock,
         ProbeReads(e, [at |-> at, got |-> got])
  PROVE  Inv'
  <1> DEFINE reading == [at |-> at, got |-> got]
             url     == UrlOf[e]
             line    == Line(probe.listed[e], url, got, at)
             old     == evidence[probes]
  <1>1. /\ probe # Idle /\ probe.state = "reading" /\ e \in probe.todo
        /\ probes \in Ledgers
        /\ e \notin DOMAIN old
    <2>1. probe # Idle /\ probe.state = "reading" /\ e \in probe.todo
      BY DEF ProbeReads, Idle
    <2> QED BY <2>1 DEF Inv, ProbeInv, ShapeInv, Ledgers
  <1>2. /\ line.at = at /\ line.reading = got
        /\ line.verdict = Verdict(line.stored, line.reading)
    BY DEF Line
  <1> HIDE DEF line
  <1>3. /\ DOMAIN evidence' = Ledgers
        /\ \A f \in Ledgers : f # probes => evidence'[f] = evidence[f]
        /\ evidence'[probes] = [d \in DOMAIN old \cup {e} |-> IF d = e THEN line ELSE old[d]]
    BY <1>1 DEF ProbeReads, line, Inv, ShapeInv
  <1>4. /\ UNCHANGED <<clock, row, ingested, probes>>
        /\ UNCHANGED <<decisions, apply, accepted, stored>>
    BY DEF ProbeReads, rowVars, applyVars
  <1>5. LinesKept
    BY <1>1, <1>3 DEF LinesKept
  <1>6. LineInv'
    <2> SUFFICES ASSUME NEW f \in Ledgers, NEW d \in DOMAIN evidence'[f]
                 PROVE  /\ d \in Event
                        /\ evidence'[f][d].at \in 0..clock
                        /\ evidence'[f][d].reading \in Reading
                        /\ evidence'[f][d].verdict
                             = Verdict(evidence'[f][d].stored, evidence'[f][d].reading)
      BY <1>4, Zenon DEF LineInv
    <2>1. CASE f = probes /\ d = e
      BY <1>2, <1>3, <2>1
    <2>2. CASE ~(f = probes /\ d = e)
      <3>1. d \in DOMAIN evidence[f] /\ evidence'[f][d] = evidence[f][d]
        BY <1>3, <2>2
      <3> QED BY <3>1 DEF Inv, LineInv
    <2> QED BY <2>1, <2>2
  <1>7. /\ DOMAIN seen \subseteq DOMAIN seen'
        /\ \A u \in DOMAIN seen : seen'[u] = seen[u]
        /\ url # None => url \in DOMAIN seen' /\ seen'[url] = reading
    BY DEF ProbeReads, Page
  <1>8. ASSUME NEW d \in DOMAIN evidence'[probes], UrlOf[d] # None
        PROVE  /\ UrlOf[d] \in DOMAIN seen'
               /\ evidence'[probes][d].at = seen'[UrlOf[d]].at
               /\ evidence'[probes][d].reading = seen'[UrlOf[d]].got
    <2>1. CASE d = e
      BY <1>2, <1>3, <1>7, <1>8, <2>1
    <2>2. CASE d # e
      <3>1. d \in DOMAIN old /\ evidence'[probes][d] = old[d]
        BY <1>3, <2>2
      <3> QED BY <1>1, <1>7, <1>8, <3>1 DEF Inv, SeenInv
    <2> QED BY <2>1, <2>2
  <1>9. SeenInv'
    BY <1>4, <1>8 DEF SeenInv
  <1>10. SharedPageOneReading'
    <2> SUFFICES ASSUME NEW f \in Ledgers,
                        NEW c \in DOMAIN evidence'[f], NEW d \in DOMAIN evidence'[f],
                        UrlOf[c] = UrlOf[d], UrlOf[c] # None
                 PROVE  /\ evidence'[f][c].at = evidence'[f][d].at
                        /\ evidence'[f][c].reading = evidence'[f][d].reading
      BY DEF SharedPageOneReading
    <2>1. CASE f = probes
      BY <1>8, <2>1
    <2>2. CASE f # probes
      BY <1>3, <2>2 DEF Inv, SharedPageOneReading
    <2> QED BY <2>1, <2>2
  <1>11. ShapeInv'
    BY <1>3, <1>4 DEF Inv, ShapeInv
  <1>12. ProbeInv'
    <2>1. PICK l, t : probe = [state |-> "reading", listed |-> l, todo |-> t]
      BY <1>1 DEF Inv, ProbeInv
    <2>2. probe' = [state |-> "reading", listed |-> l, todo |-> t \ {e}]
      BY <2>1 DEF ProbeReads
    <2>3. \E k, u : probe' = [state |-> "reading", listed |-> k, todo |-> u]
      BY <2>2, Zenon
    <2>4. /\ probe'.todo = probe.todo \ {e}
          /\ probe.todo \subseteq Event /\ probe.todo \cap DOMAIN old = {}
      BY <1>1, <2>1, <2>2 DEF Inv, ProbeInv
    <2>5. DOMAIN evidence'[probes] = DOMAIN old \cup {e}
      BY <1>3
    <2>6. \A f \in Ledgers : f > probes' => DOMAIN evidence'[f] = {}
      BY <1>1, <1>3, <1>4 DEF Inv, ProbeInv, ShapeInv, Ledgers
    <2>7. probes' > 0
      BY <1>1, <1>4 DEF Ledgers
    <2> QED BY <1>4, <2>3, <2>4, <2>5, <2>6, <2>7 DEF ProbeInv
  <1>13. ApplyInv' /\ PatchInv'
    BY <1>4, <1>5, PatchesLeftAlone, ApplyLeftAlone DEF Inv
  <1>14. RowInv'
    BY <1>4, <1>5, RowsLeftAlone DEF Inv, ShapeInv, rowVars
  <1> QED BY <1>6, <1>9, <1>10, <1>11, <1>12, <1>13, <1>14 DEF Inv

\* Apply chooses rows its ledger has lines of, confirmed or vouched for.
LEMMA ApplyStartsInv ==
  ASSUME Inv, NEW f \in Ledgers, NEW all \in BOOLEAN, NEW note \in BOOLEAN,
         NEW ids \in SUBSET Event, ApplyStarts(f, all, ids, note)
  PROVE  Inv'
  <1> USE DEF ApplyStarts, rowVars, probeVars
  <1>1. clock' \in Nat /\ clock <= clock'
    BY DEF Inv, ShapeInv
  <1>2. LinesKept /\ LineInv' /\ SharedPageOneReading'
    BY <1>1, LedgersLeftAlone
  <1>3. ShapeInv' /\ ProbeInv' /\ SeenInv'
    BY DEF Inv, ShapeInv, ProbeInv, SeenInv
  <1>4. ApplyInv'
    <2>1. apply' = [state |-> "sending", file |-> f, note |-> note,
                    todo |-> Chosen(f, all, ids)]
      OBVIOUS
    <2>2. \E g, n, t : apply' = [state |-> "sending", file |-> g, note |-> n, todo |-> t]
      BY <2>1, Zenon
    <2>3. apply'.file = f /\ apply'.note = note /\ apply'.todo = Chosen(f, all, ids)
      BY <2>1
    <2>4. \A e \in Chosen(f, all, ids) : Observed(f, e) /\ (Renewable(f, e) \/ note)
      BY DEF Chosen, Grounds, Observed
    <2>5. \A e \in apply'.todo : Observed(f, e)' /\ (Renewable(f, e)' \/ note)
      BY <2>3, <2>4 DEF Observed, Renewable
    <2> QED BY <2>2, <2>3, <2>5 DEF ApplyInv, Observed, Renewable
  <1>5. PatchInv'
    BY <1>2, PatchesLeftAlone DEF Inv
  <1>6. RowInv'
    BY <1>1, <1>2, RowsLeftAlone DEF Inv
  <1> QED BY <1>2, <1>3, <1>4, <1>5, <1>6 DEF Inv

\* A patch apply sends has its grounds in the ledger apply was given.
LEMMA SentHasGrounds ==
  ASSUME Inv, apply # Idle, NEW e \in apply.todo
  PROVE  /\ Patch(e).file \in Ledgers /\ Patch(e).event \in Event
         /\ Observed(Patch(e).file, Patch(e).event)
         /\ Patch(e).checked = evidence[Patch(e).file][Patch(e).event].at
         /\ Renewable(Patch(e).file, Patch(e).event) \/ Patch(e).noted
         /\ Patch(e).file = apply.file
  <1>1. /\ apply.file \in Ledgers
        /\ Observed(apply.file, e) /\ (Renewable(apply.file, e) \/ apply.note)
    BY DEF Inv, ApplyInv
  <1>2. e \in Event
    BY <1>1 DEF Inv, LineInv, Observed
  <1>3. /\ Patch(e).file = apply.file /\ Patch(e).event = e
        /\ Patch(e).checked = evidence[apply.file][e].at
        /\ Patch(e).noted = (apply.note /\ ~Renewable(apply.file, e))
    BY DEF Patch, CheckedAt, Noted
  <1> QED BY <1>1, <1>2, <1>3

\* What apply does leaves all but its own state, its patches and its decisions.
LEMMA ApplyStepInv ==
  ASSUME Inv, clock' = clock, UNCHANGED rowVars, UNCHANGED probeVars,
         DOMAIN decisions' = Ledgers, accepted \subseteq accepted',
         ApplyInv', PatchInv'
  PROVE  Inv'
  <1> USE DEF rowVars, probeVars
  <1>1. clock' \in Nat /\ clock <= clock'
    BY DEF Inv, ShapeInv
  <1>2. LinesKept /\ LineInv' /\ SharedPageOneReading'
    BY <1>1, LedgersLeftAlone
  <1>3. ShapeInv' /\ ProbeInv' /\ SeenInv'
    BY DEF Inv, ShapeInv, ProbeInv, SeenInv
  <1>4. RowInv'
    BY <1>1, <1>2, RowsLeftAlone DEF Inv
  <1> QED BY <1>2, <1>3, <1>4 DEF Inv

LEMMA AddedPatch ==
  ASSUME Inv, apply # Idle, NEW e \in apply.todo, evidence' = evidence,
         stored' = stored, accepted' = accepted \cup {Patch(e)}
  PROVE  PatchInv'
  BY SentHasGrounds DEF Inv, PatchInv, Observed, Renewable

LEMMA ApplyAcceptedInv ==
  ASSUME Inv, NEW e \in Event, ApplyAccepted(e)
  PROVE  Inv'
  <1> USE DEF ApplyAccepted, rowVars, probeVars
  <1>1. apply # Idle /\ e \in apply.todo
    BY DEF Idle
  <1>2. PatchInv'
    BY <1>1, AddedPatch
  <1>3. ApplyInv'
    <2>1. apply' = [state |-> "accepted", file |-> apply.file, note |-> apply.note,
                    todo |-> apply.todo \ {e}, of |-> Patch(e)]
      OBVIOUS
    <2>2. \E g, n, t, o :
            apply' = [state |-> "accepted", file |-> g, note |-> n, todo |-> t, of |-> o]
      BY <2>1, Zenon
    <2>3. /\ apply'.file = apply.file /\ apply'.note = apply.note
          /\ apply'.todo \subseteq apply.todo /\ apply'.of = Patch(e)
      BY <2>1
    <2>4. apply'.of \in accepted' /\ apply'.of.file = apply'.file
      BY <1>1, <2>3, SentHasGrounds
    <2>5. /\ apply.file \in Ledgers /\ apply.note \in BOOLEAN
          /\ \A d \in apply'.todo : Observed(apply.file, d) /\ (Renewable(apply.file, d) \/ apply.note)
      BY <1>1, <2>3 DEF Inv, ApplyInv
    <2> QED BY <2>2, <2>3, <2>4, <2>5 DEF ApplyInv, Observed, Renewable
  <1>4. DOMAIN decisions' = Ledgers
    BY DEF Inv, ShapeInv
  <1> QED BY <1>2, <1>3, <1>4, ApplyStepInv

\* Back to sending what is left to send.
LEMMA SendingOn ==
  ASSUME Inv, apply # Idle, evidence' = evidence, NEW t, t \subseteq apply.todo,
         apply' = [state |-> "sending", file |-> apply.file, note |-> apply.note, todo |-> t]
  PROVE  ApplyInv'
  <1>1. \E g, n, u : apply' = [state |-> "sending", file |-> g, note |-> n, todo |-> u]
    BY Zenon
  <1>2. apply'.file = apply.file /\ apply'.note = apply.note /\ apply'.todo = t
    OBVIOUS
  <1>3. /\ apply.file \in Ledgers /\ apply.note \in BOOLEAN
        /\ \A d \in t : Observed(apply.file, d) /\ (Renewable(apply.file, d) \/ apply.note)
    BY DEF Inv, ApplyInv
  <1> QED BY <1>1, <1>2, <1>3 DEF ApplyInv, Observed, Renewable

LEMMA DecideShape ==
  ASSUME Inv, NEW line, Decide(line)
  PROVE  DOMAIN decisions' = Ledgers
  BY DEF Decide, Inv, ShapeInv

LEMMA ApplyAppendsInv == Inv /\ ApplyAppends => Inv'
  <1> SUFFICES ASSUME Inv, ApplyAppends PROVE Inv' OBVIOUS
  <1>1. apply # Idle
    BY DEF ApplyAppends, Idle
  <1>2. evidence' = evidence /\ accepted' = accepted /\ stored' = stored
    BY DEF ApplyAppends, rowVars, probeVars
  <1>3. ApplyInv'
    BY <1>1, <1>2, SendingOn DEF ApplyAppends
  <1>4. PatchInv'
    BY <1>2 DEF Inv, PatchInv, Observed, Renewable
  <1>5. DOMAIN decisions' = Ledgers
    BY DecideShape DEF ApplyAppends
  <1> QED BY <1>2, <1>3, <1>4, <1>5, ApplyStepInv DEF ApplyAppends

LEMMA ApplyFailsInv ==
  ASSUME Inv, NEW e \in Event, NEW after \in BOOLEAN, ApplyFails(e, after)
  PROVE  Inv'
  <1>1. apply # Idle /\ apply.state = "sending" /\ e \in apply.todo
    BY DEF ApplyFails, Idle
  <1>2. evidence' = evidence /\ stored' = stored
    BY DEF ApplyFails, rowVars, probeVars
  <1>3. PICK f, n, t :
          apply = [state |-> "sending", file |-> f, note |-> n, todo |-> t]
    BY <1>1 DEF Inv, ApplyInv
  <1>4. apply' = [state |-> "sending", file |-> apply.file, note |-> apply.note,
                  todo |-> apply.todo \ {e}]
    BY <1>3 DEF ApplyFails
  <1>5. ApplyInv'
    BY <1>1, <1>2, <1>4, SendingOn
  <1>6. PatchInv'
    <2>1. CASE after
      BY <1>1, <1>2, <2>1, AddedPatch DEF ApplyFails
    <2>2. CASE ~after
      BY <1>2, <2>2 DEF ApplyFails, Inv, PatchInv, Observed, Renewable
    <2> QED BY <2>1, <2>2
  <1>7. DOMAIN decisions' = Ledgers
    BY DecideShape DEF ApplyFails
  <1> QED BY <1>5, <1>6, <1>7, ApplyStepInv DEF ApplyFails

LEMMA ApplyEndsInv == Inv /\ (ApplyEnds \/ ApplyCut) => Inv'
  <1> SUFFICES ASSUME Inv, ApplyEnds \/ ApplyCut PROVE Inv' OBVIOUS
  <1>1. /\ apply' = Idle /\ clock' = clock /\ UNCHANGED rowVars /\ UNCHANGED probeVars
        /\ decisions' = decisions /\ accepted' = accepted
    BY DEF ApplyEnds, ApplyCut
  <1>2. ApplyInv'
    BY <1>1 DEF ApplyInv
  <1>3. PatchInv'
    BY <1>1 DEF Inv, PatchInv, Observed, Renewable, rowVars, probeVars
  <1>4. DOMAIN decisions' = Ledgers
    BY <1>1 DEF Inv, ShapeInv
  <1> QED BY <1>1, <1>2, <1>3, <1>4, ApplyStepInv

\* A stored patch is one that was accepted, on grounds that still stand.
LEMMA StorePatchInv ==
  ASSUME Inv, NEW m \in accepted, StorePatch(m)
  PROVE  Inv'
  <1> USE DEF StorePatch, probeVars, applyVars
  <1>1. clock' \in Nat /\ clock <= clock'
    BY DEF Inv, ShapeInv
  <1>2. LinesKept /\ LineInv' /\ SharedPageOneReading'
    BY <1>1, LedgersLeftAlone
  <1>3. ProbeInv' /\ SeenInv'
    BY DEF Inv, ProbeInv, SeenInv
  <1>4. ApplyInv'
    BY <1>2, ApplyLeftAlone DEF Inv
  <1>5. PatchInv'
    BY DEF Inv, PatchInv, Observed, Renewable
  <1>6. m.event \in Event /\ m.checked \in 0..clock /\ LookedAt(m.event, m.checked)
    BY PatchedWasLookedAt DEF Inv, PatchInv, LineInv, Observed
  <1>7. ASSUME NEW e \in Event
        PROVE  IF e = m.event
               THEN /\ row'[e] \in [content : Content, asof : Nat, checked : Nat, until : Nat]
                    /\ row'[e].checked = m.checked
                    /\ row'[e].until = Until(m.checked)
               ELSE row'[e] = row[e]
    <2>1. row[e] \in [content : Content, asof : Nat, checked : Nat, until : Nat]
      BY DEF Inv, ShapeInv
    <2>2. m.checked \in Nat /\ Until(m.checked) \in Nat
      BY <1>6, RecheckAssumption DEF Until, Inv, ShapeInv
    <2>3. row' = [row EXCEPT ![m.event] =
                    [[row[m.event] EXCEPT !.checked = m.checked] EXCEPT !.until = Until(m.checked)]]
      BY <1>6 DEF Inv, ShapeInv
    <2> QED BY <1>6, <2>1, <2>2, <2>3 DEF Inv, ShapeInv
  <1>8. ShapeInv'
    <2>1. DOMAIN row' = Event
      BY DEF Inv, ShapeInv
    <2> QED BY <1>7, <2>1 DEF Inv, ShapeInv
  <1>9. RowInv'
    <2> SUFFICES ASSUME NEW e \in Event
                 PROVE  /\ row'[e].checked \in 0..clock'
                        /\ row'[e].until = Until(row'[e].checked)
                        /\ (LookedAt(e, row[e].checked))'
      BY DEF RowInv, Until
    <2>1. PICK t : t = row'[e].checked
      OBVIOUS
    <2>2. t \in 0..clock /\ row'[e].until = Until(t) /\ LookedAt(e, t)
      BY <1>6, <1>7, <2>1 DEF Inv, RowInv
    <2>3. LookedAt(e, t)'
      BY <1>2, <2>2, LookedAtKept
    <2>4. (LookedAt(e, row[e].checked))'
      BY <2>1, <2>3
    <2> QED BY <2>1, <2>2, <2>4
  <1> QED BY <1>2, <1>3, <1>4, <1>5, <1>8, <1>9 DEF Inv

\* A version that replaces the row brings the day its source was read.
LEMMA StoreVersionInv ==
  ASSUME Inv, NEW v \in Version, StoreVersion(v)
  PROVE  Inv'
  <1> USE DEF StoreVersion, probeVars, applyVars
  <1>1. clock' \in Nat /\ clock <= clock'
    BY DEF Inv, ShapeInv
  <1>2. LinesKept /\ LineInv' /\ SharedPageOneReading'
    BY <1>1, LedgersLeftAlone
  <1>3. ProbeInv' /\ SeenInv'
    BY DEF Inv, ProbeInv, SeenInv
  <1>4. ApplyInv' /\ PatchInv'
    BY <1>2, ApplyLeftAlone, PatchesLeftAlone DEF Inv
  <1>5. /\ v \in [event : Event, content : Content, asof : Nat, checked : Nat]
        /\ v.checked <= clock /\ v \in ingested'
    BY RecheckAssumption
  <1>6. /\ Row(v) \in [content : Content, asof : Nat, checked : Nat, until : Nat]
        /\ Row(v).checked = v.checked /\ Row(v).until = Until(v.checked)
    BY <1>5, RecheckAssumption DEF Row, Until
  <1>7. /\ DOMAIN row' = Event
        /\ \A e \in Event : row'[e] = row[e] \/ (e = v.event /\ row'[e] = Row(v))
    BY <1>5 DEF Inv, ShapeInv
  <1>8. ShapeInv'
    BY <1>6, <1>7 DEF Inv, ShapeInv
  <1>9. RowInv'
    <2> SUFFICES ASSUME NEW e \in Event
                 PROVE  /\ row'[e].checked \in 0..clock'
                        /\ row'[e].until = Until(row'[e].checked)
                        /\ (LookedAt(e, row[e].checked))'
      BY DEF RowInv, Until
    <2>1. PICK t : t = row'[e].checked
      OBVIOUS
    <2>2. t \in 0..clock /\ row'[e].until = Until(t) /\ LookedAt(e, t)'
      <3>1. CASE row'[e] = row[e]
        <4>1. t \in 0..clock /\ row'[e].until = Until(t) /\ LookedAt(e, t)
          BY <2>1, <3>1 DEF Inv, RowInv
        <4> QED BY <1>2, <4>1, LookedAtKept
      <3>2. CASE e = v.event /\ row'[e] = Row(v)
        <4>1. t = v.checked /\ row'[e].until = Until(t)
          BY <1>6, <2>1, <3>2
        <4>2. LookedAt(e, t)'
          BY <1>5, <3>2, <4>1 DEF LookedAt
        <4> QED BY <1>5, <4>1, <4>2 DEF Inv, ShapeInv
      <3> QED BY <1>7, <3>1, <3>2
    <2>3. (LookedAt(e, row[e].checked))'
      BY <2>1, <2>2
    <2> QED BY <2>1, <2>2, <2>3
  <1> QED BY <1>2, <1>3, <1>4, <1>8, <1>9 DEF Inv

LEMMA StutterInv == Inv /\ UNCHANGED vars => Inv'
  BY DEF vars, rowVars, probeVars, applyVars, Inv, ShapeInv, ProbeInv, LineInv, SeenInv,
         ApplyInv, PatchInv, RowInv, SharedPageOneReading, LookedAt, Observed, Renewable

LEMMA NextInv == Inv /\ [Next]_vars => Inv'
  <1> SUFFICES ASSUME Inv, [Next]_vars PROVE Inv' OBVIOUS
  <1>1. CASE Day
    BY <1>1, DayInv
  <1>2. ASSUME NEW ids \in SUBSET Event, ProbeStarts(ids) PROVE Inv'
    BY <1>2, ProbeStartsInv
  <1>3. ASSUME NEW e \in Event, NEW got \in Reading, NEW at \in 0..clock,
               ProbeReads(e, [at |-> at, got |-> got])
        PROVE  Inv'
    BY <1>3, ProbeReadsInv
  <1>4. ASSUME NEW e \in Event, ApplyAccepted(e) PROVE Inv'
    BY <1>4, ApplyAcceptedInv
  <1>5. ASSUME NEW e \in Event, NEW after \in BOOLEAN, ApplyFails(e, after) PROVE Inv'
    BY <1>5, ApplyFailsInv
  <1>6. CASE ProbeEnds
    BY <1>6, ProbeEndsInv
  <1>7. ASSUME NEW f \in Ledgers, NEW all \in BOOLEAN, NEW note \in BOOLEAN,
               NEW ids \in SUBSET Event, ApplyStarts(f, all, ids, note)
        PROVE  Inv'
    BY <1>7, ApplyStartsInv
  <1>8. CASE ApplyAppends \/ ApplyEnds \/ ApplyCut
    BY <1>8, ApplyAppendsInv, ApplyEndsInv
  <1>9. ASSUME NEW m \in accepted, StorePatch(m) PROVE Inv'
    BY <1>9, StorePatchInv
  <1>10. ASSUME NEW v \in Version, StoreVersion(v) PROVE Inv'
    BY <1>10, StoreVersionInv
  <1>11. CASE UNCHANGED vars
    BY <1>11, StutterInv
  <1> QED
    BY <1>1, <1>2, <1>3, <1>4, <1>5, <1>6, <1>7, <1>8, <1>9, <1>10, <1>11 DEF Next

LEMMA Invariance == Spec => []Inv
  <1> QED BY InitInv, NextInv, PTL DEF Spec

-----------------------------------------------------------------------------
(***************************************************************************)
(* What the tool promises.                                                 *)
(***************************************************************************)

\* A row that is offered was looked at within the window, whatever pages say,
\* however late a ledger is applied and whatever answers are lost: cmd_probe and
\* cmd_apply of event_recheck.py, apply_patch and upsert_event of the consumer.
THEOREM OfferedRowsWereLookedAt == Spec => []OfferedWasLookedAt
  <1>1. ASSUME Inv PROVE OfferedWasLookedAt
    <2> SUFFICES ASSUME NEW e \in Event, row[e].until > clock
                 PROVE  \E t \in 0..clock : t + Window > clock /\ LookedAt(e, t)
      BY DEF OfferedWasLookedAt
    <2>1. PICK t : t = row[e].checked
      OBVIOUS
    <2>2. t \in 0..clock /\ row[e].until = t + Window /\ LookedAt(e, t)
      BY <1>1, <2>1 DEF Inv, RowInv, Until
    <2> QED BY <2>2
  <1> QED BY <1>1, Invariance, PTL

\* However many rows share a page and however long a probe takes, they are judged
\* by one reading of it (seen_urls of cmd_probe).
THEOREM OneReadingPerPage == Spec => []SharedPageOneReading
  <1>1. Inv => SharedPageOneReading
    BY DEF Inv
  <1> QED BY <1>1, Invariance, PTL

-----------------------------------------------------------------------------
(***************************************************************************)
(* The ledger tells all.  A patch in hand is accepted and not yet recorded; *)
(* only a cut leaves such a patch behind.                                  *)
(***************************************************************************)

Unrecorded == {m \in accepted : ~Recorded(m)}
InHand     == IF apply # Idle /\ apply.state = "accepted" THEN {apply.of} ELSE {}
Left       == Unrecorded \ InHand

CutInv ==
  /\ IsFiniteSet(accepted)
  /\ cut \in Nat
  /\ Cardinality(Left) <= cut

NamedInv ==
  \A f \in Ledgers : \A d \in decisions[f] :
    d.action = "recheck-accepted" => d.message \in accepted

\* A step that leaves no more patches unrecorded than it found.
LEMMA NoMoreLeft ==
  ASSUME CutInv, IsFiniteSet(accepted'), cut' \in Nat, cut <= cut', Left' \subseteq Left
  PROVE  CutInv'
  <1>1. IsFiniteSet(Left)
    BY FS_Subset DEF CutInv, Left, Unrecorded
  <1>2. Cardinality(Left') <= Cardinality(Left) /\ IsFiniteSet(Left')
    BY <1>1, FS_Subset
  <1>3. Cardinality(Left) \in Nat /\ Cardinality(Left') \in Nat
    BY <1>1, <1>2, FS_CardinalityType
  <1> QED BY <1>2, <1>3 DEF CutInv

\* Decisions are appended, never taken back.
LEMMA RecordedStays ==
  ASSUME Inv, NEW line, Decide(line), NEW m \in accepted
  PROVE  Recorded(m) => Recorded(m)'
  BY DEF Decide, Recorded, Inv, ShapeInv, PatchInv

LEMMA DecideNames ==
  ASSUME Inv, NamedInv, NEW line, Decide(line), accepted \subseteq accepted',
         line.action = "recheck-accepted" => line.message \in accepted'
  PROVE  NamedInv'
  <1> SUFFICES ASSUME NEW f \in Ledgers, NEW d \in decisions'[f],
                      d.action = "recheck-accepted"
               PROVE  d.message \in accepted'
    BY DEF NamedInv
  <1>1. d \in decisions[f] \/ d = line
    BY DEF Decide, Inv, ShapeInv
  <1> QED BY <1>1 DEF NamedInv

LEMMA ApplyAcceptedTold ==
  ASSUME Inv, CutInv, NamedInv, NEW e \in Event, ApplyAccepted(e)
  PROVE  CutInv' /\ NamedInv'
  <1> USE DEF ApplyAccepted
  <1>1. IsFiniteSet(accepted')
    BY FS_AddElement DEF CutInv
  <1>2. InHand = {}
    BY DEF InHand
  <1>3. apply'.of = Patch(e) /\ apply'.state = "accepted" /\ apply' # Idle
    BY DEF Idle
  <1>4. InHand' = {Patch(e)}
    BY <1>3 DEF InHand
  <1>5. decisions' = decisions /\ cut' = cut
    OBVIOUS
  <1>6. Left' \subseteq Left
    BY <1>2, <1>4, <1>5 DEF Left, Unrecorded, Recorded
  <1>7. CutInv'
    BY <1>1, <1>5, <1>6, NoMoreLeft DEF CutInv
  <1>8. NamedInv'
    BY <1>5 DEF NamedInv
  <1> QED BY <1>7, <1>8

LEMMA ApplyAppendsTold ==
  ASSUME Inv, CutInv, NamedInv, ApplyAppends
  PROVE  CutInv' /\ NamedInv'
  <1> DEFINE line == Decision(apply.of.event, "recheck-accepted", apply.of)
  <1>1. /\ apply # Idle /\ apply.state = "accepted" /\ Decide(line)
        /\ accepted' = accepted /\ cut' = cut
    BY DEF ApplyAppends, Idle
  <1>2. /\ line.event = apply.of.event /\ line.message = apply.of
        /\ line.checked = evidence[apply.file][apply.of.event].at
    BY DEF Decision, CheckedAt
  <1> HIDE DEF line
  <1>3. apply.of \in accepted /\ apply.of.file = apply.file
    BY <1>1 DEF Inv, ApplyInv
  <1>4. line.checked = apply.of.checked /\ apply.file \in Ledgers
    BY <1>2, <1>3 DEF Inv, PatchInv
  <1>5. line \in decisions'[apply.file]
    BY <1>1, <1>4 DEF Decide, Inv, ShapeInv
  <1>6. PICK m : m = apply.of
    OBVIOUS
  <1>7. Recorded(m)'
    BY <1>2, <1>3, <1>4, <1>5, <1>6 DEF Recorded
  <1>8. ASSUME NEW n \in Left' PROVE n \in Left
    <2>1. n \in accepted /\ ~Recorded(n)'
      BY <1>1 DEF Left, Unrecorded
    <2>2. ~Recorded(n)
      BY <1>1, <2>1, RecordedStays
    <2>3. n # m
      BY <1>7, <2>1
    <2> QED BY <1>1, <1>6, <2>1, <2>2, <2>3 DEF Left, Unrecorded, InHand
  <1>9. CutInv'
    BY <1>1, <1>8, NoMoreLeft DEF CutInv
  <1>10. NamedInv'
    BY <1>1, <1>2, <1>3, DecideNames
  <1> QED BY <1>9, <1>10

\* A call that failed is recorded as one, whether or not the api had accepted it.
LEMMA ApplyFailsTold ==
  ASSUME Inv, CutInv, NamedInv, NEW e \in Event, NEW after \in BOOLEAN, ApplyFails(e, after)
  PROVE  CutInv' /\ NamedInv'
  <1> DEFINE line == Decision(e, "patch-failed", None)
  <1>1. /\ apply # Idle /\ apply.state = "sending" /\ e \in apply.todo /\ Decide(line)
        /\ accepted' = (IF after THEN accepted \cup {Patch(e)} ELSE accepted)
        /\ cut' = cut
    BY DEF ApplyFails, Idle
  <1>2. /\ line.event = e /\ line.message = None /\ line.action = "patch-failed"
        /\ line.checked = evidence[apply.file][e].at
    BY DEF Decision, CheckedAt
  <1> HIDE DEF line
  <1>3. apply.file \in Ledgers
    BY <1>1 DEF Inv, ApplyInv
  <1>4. line \in decisions'[apply.file]
    BY <1>1, <1>3 DEF Decide, Inv, ShapeInv
  <1>5. PICK m : m = Patch(e)
    OBVIOUS
  <1>6. m.file = apply.file /\ m.event = e /\ m.checked = evidence[apply.file][e].at
    BY <1>5 DEF Patch, CheckedAt
  <1>7. Recorded(m)'
    BY <1>2, <1>4, <1>6 DEF Recorded
  <1>8. accepted' \subseteq accepted \cup {m} /\ accepted \subseteq accepted'
    BY <1>1, <1>5
  <1>9. IsFiniteSet(accepted')
    BY <1>8, FS_AddElement, FS_Subset DEF CutInv
  <1>10. ASSUME NEW n \in Left' PROVE n \in Left
    <2>1. n \in accepted' /\ ~Recorded(n)'
      BY DEF Left, Unrecorded
    <2>2. n \in accepted
      BY <1>7, <1>8, <2>1
    <2>3. ~Recorded(n)
      BY <1>1, <2>1, <2>2, RecordedStays
    <2>4. InHand = {}
      BY <1>1 DEF InHand
    <2> QED BY <2>2, <2>3, <2>4 DEF Left, Unrecorded
  <1>11. CutInv'
    BY <1>1, <1>9, <1>10, NoMoreLeft DEF CutInv
  <1>12. NamedInv'
    BY <1>1, <1>2, <1>8, DecideNames
  <1> QED BY <1>11, <1>12

\* A cut leaves at most the patch in hand.
LEMMA ApplyCutTold ==
  ASSUME Inv, CutInv, NamedInv, ApplyCut
  PROVE  CutInv' /\ NamedInv'
  <1> USE DEF ApplyCut
  <1>1. Left' \subseteq Left \cup {apply.of}
    <2> SUFFICES ASSUME NEW n \in Left' PROVE n \in Left \cup {apply.of}
      OBVIOUS
    <2>1. n \in accepted /\ ~Recorded(n)'
      BY DEF Left, Unrecorded
    <2>2. ~Recorded(n)
      BY <2>1 DEF Recorded
    <2>3. InHand \subseteq {apply.of}
      BY DEF InHand
    <2> QED BY <2>1, <2>2, <2>3 DEF Left, Unrecorded
  <1>2. IsFiniteSet(Left) /\ IsFiniteSet(Left \cup {apply.of})
    BY FS_Subset, FS_AddElement DEF CutInv, Left, Unrecorded
  <1>3. /\ Cardinality(Left \cup {apply.of}) <= Cardinality(Left) + 1
        /\ Cardinality(Left) \in Nat
    <2>1. Cardinality(Left) \in Nat
      BY <1>2, FS_CardinalityType
    <2>2. Cardinality(Left \cup {apply.of})
            = (IF apply.of \in Left THEN Cardinality(Left) ELSE Cardinality(Left) + 1)
      BY <1>2, FS_AddElement
    <2> QED BY <2>1, <2>2
  <1>4. /\ Cardinality(Left') <= Cardinality(Left \cup {apply.of})
        /\ Cardinality(Left') \in Nat
    BY <1>1, <1>2, FS_Subset, FS_CardinalityType
  <1>5. Cardinality(Left \cup {apply.of}) \in Nat
    BY <1>2, FS_CardinalityType
  <1>6. CutInv'
    BY <1>3, <1>4, <1>5 DEF CutInv
  <1>7. NamedInv'
    BY DEF NamedInv
  <1> QED BY <1>6, <1>7

\* No other step touches patches, decisions or the count of cuts.
LEMMA ToldLeftAlone ==
  ASSUME CutInv, NamedInv, UNCHANGED <<accepted, decisions, cut>>, InHand \subseteq InHand'
  PROVE  CutInv' /\ NamedInv'
  <1>1. Left' \subseteq Left
    BY DEF Left, Unrecorded, Recorded
  <1> QED BY <1>1, NoMoreLeft DEF CutInv, NamedInv

LEMMA ToldNext == Inv /\ CutInv /\ NamedInv /\ [Next]_vars => CutInv' /\ NamedInv'
  <1> SUFFICES ASSUME Inv, CutInv, NamedInv, [Next]_vars
               PROVE  CutInv' /\ NamedInv'
    OBVIOUS
  <1>1. ASSUME UNCHANGED <<accepted, decisions, cut>>,
               apply' = apply \/ apply = Idle \/ apply.state = "sending"
        PROVE  CutInv' /\ NamedInv'
    BY <1>1, ToldLeftAlone DEF InHand
  <1>2. CASE Day
    BY <1>1, <1>2 DEF Day, applyVars
  <1>3. ASSUME NEW ids \in SUBSET Event, ProbeStarts(ids) PROVE CutInv' /\ NamedInv'
    BY <1>1, <1>3 DEF ProbeStarts, applyVars
  <1>4. ASSUME NEW e \in Event, NEW reading, ProbeReads(e, reading)
        PROVE  CutInv' /\ NamedInv'
    BY <1>1, <1>4 DEF ProbeReads, applyVars
  <1>5. ASSUME NEW e \in Event, ApplyAccepted(e) PROVE CutInv' /\ NamedInv'
    BY <1>5, ApplyAcceptedTold
  <1>6. ASSUME NEW e \in Event, NEW after \in BOOLEAN, ApplyFails(e, after)
        PROVE  CutInv' /\ NamedInv'
    BY <1>6, ApplyFailsTold
  <1>7. CASE ProbeEnds
    BY <1>1, <1>7 DEF ProbeEnds, applyVars
  <1>8. ASSUME NEW f \in Ledgers, NEW all \in BOOLEAN, NEW note \in BOOLEAN,
               NEW ids \in SUBSET Event, ApplyStarts(f, all, ids, note)
        PROVE  CutInv' /\ NamedInv'
    BY <1>1, <1>8 DEF ApplyStarts
  <1>9. CASE ApplyAppends
    BY <1>9, ApplyAppendsTold
  <1>10. CASE ApplyEnds
    BY <1>1, <1>10 DEF ApplyEnds
  <1>11. CASE ApplyCut
    BY <1>11, ApplyCutTold
  <1>12. ASSUME NEW m \in accepted, StorePatch(m) PROVE CutInv' /\ NamedInv'
    BY <1>1, <1>12 DEF StorePatch, applyVars
  <1>13. ASSUME NEW v \in Version, StoreVersion(v) PROVE CutInv' /\ NamedInv'
    BY <1>1, <1>13 DEF StoreVersion, applyVars
  <1>14. CASE UNCHANGED vars
    BY <1>1, <1>14 DEF vars, applyVars
  <1> QED
    BY <1>2, <1>3, <1>4, <1>5, <1>6, <1>7, <1>8, <1>9, <1>10, <1>11, <1>12, <1>13, <1>14
    DEF Next

LEMMA ToldInit == Init => CutInv /\ NamedInv
  <1> SUFFICES ASSUME Init PROVE CutInv /\ NamedInv OBVIOUS
  <1>1. Left = {}
    BY DEF Init, Left, Unrecorded
  <1>2. NamedInv
    BY DEF Init, NamedInv
  <1> QED BY <1>1, <1>2, FS_EmptySet DEF Init, CutInv

LEMMA ToldInvariance == Spec => [](Inv /\ CutInv /\ NamedInv)
  <1> QED BY InitInv, NextInv, ToldInit, ToldNext, PTL DEF Spec

\* "What was observed and when survives": however apply is cut short and however
\* its calls fail, one accepted patch per cut at most has no decision, and no
\* decision names a patch that was not accepted (append_evidence, cmd_apply).
THEOREM LedgersTellAll == Spec => []LedgerTellsAll
  <1>1. ASSUME Inv, CutInv, NamedInv PROVE LedgerTellsAll
    <2>1. {m \in accepted : ~Recorded(m)} \subseteq Left \cup InHand
      BY DEF Left, Unrecorded
    <2>2. Cardinality({m \in accepted : ~Recorded(m)})
            <= cut + (IF apply.state = "accepted" THEN 1 ELSE 0)
      <3> DEFINE U == {m \in accepted : ~Recorded(m)}
      <3>1. IsFiniteSet(Left) /\ Cardinality(Left) \in Nat
        BY <1>1, FS_Subset, FS_CardinalityType DEF CutInv, Left, Unrecorded
      <3>2. CASE InHand = {}
        <4>1. U \subseteq Left
          BY <2>1, <3>2
        <4>2. Cardinality(U) <= Cardinality(Left) /\ Cardinality(U) \in Nat
          BY <3>1, <4>1, FS_Subset, FS_CardinalityType
        <4> QED BY <1>1, <3>1, <4>2 DEF CutInv
      <3>3. CASE InHand # {}
        <4>1. InHand = {apply.of} /\ apply.state = "accepted"
          BY <3>3 DEF InHand
        <4>2. U \subseteq Left \cup {apply.of}
          BY <2>1, <4>1
        <4>3. IsFiniteSet(Left \cup {apply.of})
              /\ Cardinality(Left \cup {apply.of}) <= Cardinality(Left) + 1
          BY <3>1, FS_AddElement
        <4>4. Cardinality(U) <= Cardinality(Left \cup {apply.of}) /\ Cardinality(U) \in Nat
              /\ Cardinality(Left \cup {apply.of}) \in Nat
          BY <4>2, <4>3, FS_Subset, FS_CardinalityType
        <4> QED BY <1>1, <3>1, <4>1, <4>3, <4>4 DEF CutInv
      <3> QED BY <3>2, <3>3
    <2> QED BY <1>1, <2>2 DEF LedgerTellsAll, NamedInv
  <1> QED BY <1>1, ToldInvariance, PTL


-----------------------------------------------------------------------------
(***************************************************************************)
(* Types.  A run of apply has been counted, and will be cut once at most;  *)
(* a ledger no probe has written yet has no decisions either, because a    *)
(* decision is about a line.                                               *)
(***************************************************************************)

CountInv ==
  /\ clock \in Instant /\ DOMAIN seen \subseteq Url
  /\ applies \in 0..MaxApplies /\ cut \in Nat
  /\ cut + (IF apply = Idle THEN 0 ELSE 1) <= applies
  /\ \A f \in Ledgers : f > probes => evidence[f] = [e \in {} |-> None] /\ decisions[f] = {}
  /\ probe # Idle => probe.todo \subseteq DOMAIN probe.listed
  /\ accepted \subseteq Patches

\* A run of apply only sends and decides about listings its ledger has a line of.
LEMMA SentIsTyped ==
  ASSUME Inv, CountInv, apply # Idle, NEW e \in apply.todo
  PROVE  Patch(e) \in Patches /\ apply.file \in Ledgers /\ apply.file <= probes
  <1>1. apply.file \in Ledgers /\ apply.note \in BOOLEAN /\ Observed(apply.file, e)
    BY DEF Inv, ApplyInv
  <1>2. e \in Event /\ evidence[apply.file][e].at \in 0..clock
    BY <1>1 DEF Inv, LineInv, Observed
  <1>3. clock \in 0..MaxClock /\ MaxClock \in Nat
    BY RecheckAssumption DEF CountInv, Instant
  <1>4. evidence[apply.file][e].at \in Instant
    BY <1>2, <1>3 DEF Instant
  <1>5. applies \in 1..MaxApplies
    BY RecheckAssumption DEF CountInv
  <1>6. Noted(e) \in BOOLEAN
    BY <1>1 DEF Noted
  <1>7. Patch(e) \in Patches
    BY <1>1, <1>2, <1>4, <1>5, <1>6 DEF Patch, Patches, CheckedAt
  <1>8. ~(apply.file > probes)
    BY <1>1 DEF Inv, ProbeInv, Observed
  <1>9. apply.file <= probes
    BY <1>1, <1>8 DEF Inv, ShapeInv, Ledgers
  <1> QED BY <1>1, <1>7, <1>9

\* A decision goes to a ledger some probe has written.
LEMMA DecisionsOfWritten ==
  ASSUME Inv, CountInv, NEW line, Decide(line), apply.file \in Ledgers,
         apply.file <= probes, evidence' = evidence, probes' = probes
  PROVE  \A f \in Ledgers : f > probes' => evidence'[f] = [e \in {} |-> None] /\ decisions'[f] = {}
  <1> SUFFICES ASSUME NEW f \in Ledgers, f > probes
               PROVE  evidence[f] = [e \in {} |-> None] /\ decisions'[f] = {}
    OBVIOUS
  <1>1. f # apply.file
    BY DEF Inv, ShapeInv, Ledgers
  <1>2. decisions'[f] = decisions[f]
    BY <1>1 DEF Decide, Inv, ShapeInv
  <1> QED BY <1>2 DEF CountInv

\* A step that counts nothing.
LEMMA CountLeftAlone ==
  ASSUME CountInv, UNCHANGED <<applies, cut, decisions, evidence, probes, accepted, seen>>,
         clock' \in Instant, apply' = apply \/ apply' = Idle \/ apply # Idle,
         probe' = probe \/ probe' = Idle
  PROVE  CountInv'
  BY DEF CountInv

LEMMA ProbesCount ==
  ASSUME Inv, CountInv, NEW ids \in SUBSET Event, ProbeStarts(ids)
  PROVE  CountInv'
  <1>1. /\ UNCHANGED <<clock, evidence, decisions, apply, accepted, applies, cut>>
        /\ probes' = probes + 1 /\ DOMAIN seen' = {}
        /\ probe'.todo = ids /\ DOMAIN probe'.listed = ids
    BY DEF ProbeStarts, rowVars, applyVars
  <1>2. \A f \in Ledgers : f > probes' => f > probes
    BY <1>1 DEF Inv, ShapeInv, Ledgers
  <1> QED BY <1>1, <1>2 DEF CountInv

LEMMA ReadsCount ==
  ASSUME Inv, CountInv, NEW e \in Event, NEW reading, ProbeReads(e, reading)
  PROVE  CountInv'
  <1>1. /\ UNCHANGED <<clock, decisions, apply, accepted, applies, cut, probes>>
        /\ probe # Idle /\ probe' = [probe EXCEPT !.todo = @ \ {e}]
        /\ DOMAIN seen' \subseteq DOMAIN seen \cup ({UrlOf[e]} \ {None})
        /\ \A f \in Ledgers : f > probes => evidence'[f] = evidence[f]
    <2>1. probe.state = "reading" /\ e \in probe.todo
      BY DEF ProbeReads
    <2>2. probe # Idle
      BY <2>1 DEF Inv, ProbeInv, Idle, ProbeReads
    <2>3. \A f \in Ledgers : f > probes => f # probes
      BY DEF Inv, ShapeInv, Ledgers
    <2>4. \A f \in Ledgers : f > probes => evidence'[f] = evidence[f]
      BY <2>3 DEF ProbeReads, Inv, ShapeInv
    <2> QED BY <2>2, <2>4 DEF ProbeReads, rowVars, applyVars
  <1>2. DOMAIN seen' \subseteq Url
    BY <1>1 DEF CountInv, Url
  <1>3. PICK l, t : probe = [state |-> "reading", listed |-> l, todo |-> t]
    BY <1>1 DEF Inv, ProbeInv
  <1>4. probe'.todo \subseteq DOMAIN probe'.listed
    BY <1>1, <1>3 DEF CountInv
  <1> QED BY <1>1, <1>2, <1>4 DEF CountInv

LEMMA AppliesCount ==
  ASSUME Inv, CountInv, NEW f \in Ledgers, NEW all, NEW note, NEW ids,
         ApplyStarts(f, all, ids, note)
  PROVE  CountInv'
  <1>1. /\ UNCHANGED <<clock, seen, probe, probes, evidence, decisions, accepted, cut>>
        /\ apply = Idle /\ applies < MaxApplies /\ applies' = applies + 1
    BY DEF ApplyStarts, probeVars
  <1>2. applies' \in 0..MaxApplies /\ cut + 1 <= applies'
    BY <1>1, RecheckAssumption DEF CountInv
  <1> QED BY <1>1, <1>2 DEF CountInv

LEMMA CountNext == Inv /\ CountInv /\ [Next]_vars => CountInv'
  <1> SUFFICES ASSUME Inv, CountInv, [Next]_vars PROVE CountInv' OBVIOUS
  <1>0. clock \in Instant
    BY DEF CountInv
  <1>1. CASE Day
    <2>1. clock' \in Instant
      BY <1>0, <1>1, RecheckAssumption DEF Day, Instant
    <2> QED BY <1>1, <2>1, CountLeftAlone DEF Day, probeVars, applyVars
  <1>2. ASSUME NEW ids \in SUBSET Event, ProbeStarts(ids) PROVE CountInv'
    BY <1>2, ProbesCount
  <1>3. ASSUME NEW e \in Event, NEW reading, ProbeReads(e, reading) PROVE CountInv'
    BY <1>3, ReadsCount
  <1>4. CASE ProbeEnds
    BY <1>0, <1>4, CountLeftAlone DEF ProbeEnds, applyVars
  <1>5. ASSUME NEW f \in Ledgers, NEW all, NEW note, NEW ids, ApplyStarts(f, all, ids, note)
        PROVE  CountInv'
    BY <1>5, AppliesCount
  <1>6. ASSUME NEW e \in Event, ApplyAccepted(e) PROVE CountInv'
    <2>1. /\ apply # Idle /\ e \in apply.todo /\ accepted' = accepted \cup {Patch(e)}
          /\ UNCHANGED <<clock, seen, probe, probes, evidence, decisions, applies, cut>>
      BY <1>6 DEF ApplyAccepted, probeVars, Idle
    <2>2. Patch(e) \in Patches
      BY <2>1, SentIsTyped
    <2> QED BY <2>1, <2>2 DEF CountInv
  <1>7. CASE ApplyAppends
    <2>1. /\ apply # Idle /\ apply.state = "accepted"
          /\ Decide(Decision(apply.of.event, "recheck-accepted", apply.of))
          /\ UNCHANGED <<clock, seen, probe, probes, evidence, accepted, applies, cut>>
      BY <1>7 DEF ApplyAppends, probeVars, Idle
    <2>2. /\ apply.file \in Ledgers /\ apply.of \in accepted /\ apply.of.file = apply.file
      BY <2>1 DEF Inv, ApplyInv
    <2>3. Observed(apply.file, apply.of.event)
      BY <2>2 DEF Inv, PatchInv
    <2>4. apply.file <= probes
      BY <2>2, <2>3 DEF Inv, ProbeInv, ShapeInv, Ledgers, Observed
    <2>5. \A f \in Ledgers :
            f > probes' => evidence'[f] = [e \in {} |-> None] /\ decisions'[f] = {}
      BY <2>1, <2>2, <2>4, DecisionsOfWritten
    <2> QED BY <2>1, <2>5 DEF CountInv
  <1>8. ASSUME NEW e \in Event, NEW after \in BOOLEAN, ApplyFails(e, after) PROVE CountInv'
    <2>1. /\ apply # Idle /\ e \in apply.todo
          /\ accepted' \subseteq accepted \cup {Patch(e)}
          /\ Decide(Decision(e, "patch-failed", None))
          /\ UNCHANGED <<clock, seen, probe, probes, evidence, applies, cut>>
      BY <1>8 DEF ApplyFails, probeVars, Idle
    <2>2. Patch(e) \in Patches /\ apply.file \in Ledgers /\ apply.file <= probes
      BY <2>1, SentIsTyped
    <2>3. \A f \in Ledgers :
            f > probes' => evidence'[f] = [d \in {} |-> None] /\ decisions'[f] = {}
      BY <2>1, <2>2, DecisionsOfWritten
    <2> QED BY <2>1, <2>2, <2>3 DEF CountInv
  <1>9. CASE ApplyEnds
    BY <1>0, <1>9, CountLeftAlone DEF ApplyEnds, probeVars
  <1>10. CASE ApplyCut
    BY <1>10 DEF ApplyCut, probeVars, CountInv
  <1>11. ASSUME NEW m, StorePatch(m) \/ StoreVersion(m) PROVE CountInv'
    BY <1>0, <1>11, CountLeftAlone DEF StorePatch, StoreVersion, probeVars, applyVars
  <1>12. CASE UNCHANGED vars
    BY <1>0, <1>12, CountLeftAlone DEF vars, probeVars, applyVars
  <1> QED
    BY <1>1, <1>2, <1>3, <1>4, <1>5, <1>6, <1>7, <1>8, <1>9, <1>10, <1>11, <1>12 DEF Next

\* Every verdict is one of the six of event_recheck.py.
LEMMA VerdictOf ==
  ASSUME NEW content, NEW r \in Reading
  PROVE  Verdict(content, r) \in Verdicts
  <1>1. r.error \in BOOLEAN /\ r.status \in Nat
    BY RecheckAssumption
  <1>2. Readable(r) => ~Gone(r)
    BY <1>1 DEF Readable, Gone
  <1> QED BY <1>2 DEF Verdict, Verdicts

\* Every reachable state of the re-check has its types: a ledger is of one probe,
\* an apply is about lines of its ledger, and what it sent is a patch of a day
\* that has come, whatever the pages say and wherever apply is cut.
THEOREM TypeCorrect == Spec => []TypeOK
  <1>1. Init => CountInv
    BY RecheckAssumption DEF Init, CountInv, Instant
  <1>2. ASSUME Inv, CountInv PROVE TypeOK
    <2>1. clock \in 0..MaxClock /\ MaxClock \in Nat
      BY <1>2, RecheckAssumption DEF CountInv, Instant
    <2>2. \A e \in Event :
            row[e] \in [content : Content, asof : Nat, checked : Instant, until : Nat]
      <3> TAKE e \in Event
      <3>1. row[e] \in [content : Content, asof : Nat, checked : Nat, until : Nat]
        BY <1>2 DEF Inv, ShapeInv
      <3>2. row[e].checked \in 0..clock
        BY <1>2 DEF Inv, RowInv
      <3>3. row[e].checked \in Instant
        BY <2>1, <3>2 DEF Instant
      <3> QED BY <3>1, <3>3
    <2>3. \A f \in Ledgers :
            /\ DOMAIN evidence[f] \subseteq Event
            /\ f > probes => evidence[f] = [e \in {} |-> None] /\ decisions[f] = {}
            /\ \A e \in DOMAIN evidence[f] : evidence[f][e].verdict \in Verdicts
      BY <1>2, VerdictOf DEF Inv, LineInv, CountInv
    <2>4. cut \in 0..applies
      BY <1>2 DEF CountInv
    <2>5. apply # Idle => apply.todo \subseteq DOMAIN evidence[apply.file]
      BY <1>2 DEF Inv, ApplyInv, Observed
    <2> QED BY <1>2, <2>2, <2>3, <2>4, <2>5 DEF TypeOK, CountInv, Inv, ShapeInv, PatchInv
  <1>3. Inv /\ CountInv /\ [Next]_vars => CountInv'
    BY CountNext
  <1> QED BY <1>1, <1>2, <1>3, Invariance, PTL DEF Spec
=============================================================================
