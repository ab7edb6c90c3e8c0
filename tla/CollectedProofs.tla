-------------------------- MODULE CollectedProofs --------------------------
(***************************************************************************)
(* The withdrawal invariants of Collected, for every set of records,       *)
(* versions, retractions, patches and wipes and any number of boots.       *)
(*                                                                         *)
(* RowFollowsLedger speaks of a running consumer; what makes the first     *)
(* boot establish it is that the ledger of an upgraded database is empty   *)
(* and only rows carry marks (Agreement).  WithdrawnIsHidden needs that    *)
(* the decision is in the ledger whether or not there is a row             *)
(* (Remembered), MarkedForAReason that an entry has a reason even when no  *)
(* row shows it (Justified).                                               *)
(*                                                                         *)
(* For these, what Rebuilt returns is not used.  The type of the rows and  *)
(* NoSampleByDefault need it: the replay is a function over the outbox,    *)
(* which exists because no length of the outbox is the least without one   *)
(* (ReplayExists), and every envelope of it keeps the rows in order        *)
(* (RebuiltRows).                                                          *)
(***************************************************************************)
EXTENDS Collected, TLAPS, FiniteSetTheorems, SequenceTheorems, WellFoundedInduction

Typed ==
  /\ outbox \in Seq(Version \cup Curated)
  /\ mark \in [Id -> Decision \cup {None}]
  /\ ledger \in [Id -> Decision \cup {None}]
  /\ migrations \subseteq Id
  /\ lifted \subseteq ingest_log \cap Retraction
  /\ up \in BOOLEAN

\* Row and ledger agree while the consumer runs; before the first boot of an
\* upgraded database there is no ledger, no migration and no reinstatement.
Agreement ==
  IF up
  THEN \A i \in Id : mark[i] = IF Present(i) THEN ledger[i] ELSE None
  ELSE /\ \A i \in Id : ledger[i] = None /\ (Marked(i) => Present(i))
       /\ migrations = {} /\ lifted = {}

Remembered ==
  \A r \in (ingest_log \cap Retraction) \ lifted :
    IF up THEN ledger[About[r]] # None ELSE Marked(About[r])

\* A stored withdrawal of i that stands, or that a wipe may replay.
Reason(i) ==
  \E r \in ingest_log \cap Retraction :
    About[r] = i /\ (r \notin lifted \/ r \in Curated)

Justified == \A i \in Id : Marked(i) \/ ledger[i] # None => Reason(i)

IInv == Typed /\ Agreement /\ Remembered /\ Justified

--------------------------------------------------------------------------

LEMMA DecisionOf ==
  ASSUME NEW r \in Retraction
  PROVE  Decided(r) \in Decision /\ Decided(r) # None
BY CollectedAssumption DEF Decided, Decision

\* A correction of a decision is a decision with the first date.
LEMMA CorrectionOf ==
  ASSUME NEW old \in Decision \cup {None}, NEW r \in Retraction
  PROVE  /\ Corrected(old, r) \in Decision /\ Corrected(old, r) # None
         /\ old # None => Corrected(old, r).at = old.at
<1>1. CASE old = None
  BY <1>1, DecisionOf DEF Corrected
<1>2. CASE old # None
  <2>1. old \in [at : {DecidedAt[q] : q \in Retraction},
                 wording : {Wording[q] : q \in Retraction}]
    BY <1>2 DEF Decision
  <2>2. Corrected(old, r) = [old EXCEPT !.wording = Wording[r]]
    BY <1>2 DEF Corrected
  <2>3. Corrected(old, r) = [at |-> old.at, wording |-> Wording[r]]
    BY <2>1, <2>2
  <2> QED  BY <2>1, <2>3, CollectedAssumption DEF Decision
<1> QED  BY <1>1, <1>2

\* A set of natural numbers has a least element, through the library's minimal
\* elements of well-founded relations.
LEMMA LeastNatural ==
  ASSUME NEW S \in SUBSET Nat, S # {}
  PROVE  \E n \in S : \A k \in S : n <= k
<1> DEFINE R == OpToRel(<, Nat)
<1>1. PICK n \in S : \A k \in S : ~(<<k, n>> \in R)
  <2>1. IsWellFoundedOn(R, Nat)
    BY NatLessThanWellFounded, Zenon
  <2> HIDE DEF R
  <2> QED  BY <2>1, WFMin
<1>2. \A k \in Nat : k < n => <<k, n>> \in R
  BY Zenon DEF OpToRel
<1>3. \A k \in S : ~(k < n)
  BY <1>1, <1>2
<1> QED  BY <1>3

\* The envelope a wipe takes a missing entry from is a stored curated retraction.
LEMMA FirstIsStored ==
  ASSUME outbox \in Seq(Version \cup Curated), Committed \subseteq Collecting,
         NEW i, \E r \in Committed \cap Curated : About[r] = i
  PROVE  /\ outbox[FirstAbout(i)] \in Committed \cap Curated
         /\ About[outbox[FirstAbout(i)]] = i
<1> DEFINE about(n) == outbox[n] \in Committed \cap Curated /\ About[outbox[n]] = i
           N == {n \in DOMAIN outbox : about(n)}
<1>1. N # {}
  BY DEF Collecting
<1>2. N \in SUBSET Nat
  <2>1. DOMAIN outbox = 1..Len(outbox) /\ Len(outbox) \in Nat
    OBVIOUS
  <2> QED  BY <2>1
<1>3. PICK n \in N : \A k \in N : n <= k
  <2> HIDE DEF N
  <2> QED  BY <1>1, <1>2, LeastNatural
<1>4. FirstAbout(i) \in DOMAIN outbox /\ about(FirstAbout(i))
  BY <1>3 DEF FirstAbout
<1> QED  BY <1>4

\* A wipe keeps every entry, adds only curated decisions, and misses none.
LEMMA ReplayOf ==
  ASSUME Typed, Committed \subseteq Collecting, NEW i \in Id
  PROVE  /\ Replayed(i) \in Decision \cup {None}
         /\ ledger[i] # None => Replayed(i) = ledger[i]
         /\ Replayed(i) # None /\ ledger[i] = None =>
              \E r \in ingest_log \cap Retraction : About[r] = i /\ r \in Curated
<1>1. CASE ledger[i] = None /\ \E r \in Committed \cap Curated : About[r] = i
  <2>1. Replayed(i) = Decided(outbox[FirstAbout(i)])
    BY <1>1 DEF Replayed
  <2>2. /\ outbox[FirstAbout(i)] \in Committed \cap Curated
        /\ About[outbox[FirstAbout(i)]] = i
    BY <1>1, FirstIsStored DEF Typed
  <2>3. outbox[FirstAbout(i)] \in Retraction
    BY <2>2 DEF Curated
  <2> QED  BY <1>1, <2>1, <2>2, <2>3, DecisionOf DEF Committed
<1>2. CASE ~(ledger[i] = None /\ \E r \in Committed \cap Curated : About[r] = i)
  BY <1>2 DEF Replayed, Typed
<1> QED  BY <1>1, <1>2

--------------------------------------------------------------------------

LEMMA InitIInv == Init => IInv
<1> SUFFICES ASSUME Init PROVE IInv
  OBVIOUS
<1>1. PICK L \in Legacy :
    LET stored == UNION {{c[1], c[2]} : c \in L}
        of(i)  == CHOOSE c \in L : About[c[1]] = i
        has(i) == \E c \in L : About[c[1]] = i
    IN  /\ up = FALSE /\ demo = FALSE /\ window \in Window
        /\ outbox \in [1..Cardinality(stored \ FromApi) -> stored \ FromApi]
        /\ Collecting = stored \ FromApi
        /\ sent = stored \cap FromApi
        /\ ingest_log = stored
        /\ row = [i \in {j \in Id : has(j)} |-> Content(of(i)[1])]
        /\ mark = [i \in Id |-> IF has(i) THEN Decided(of(i)[2]) ELSE None]
        /\ ledger = [i \in Id |-> None]
        /\ migrations = {} /\ lifted = {}
        /\ boots = 0
  BY DEF Init
<1> DEFINE stored == UNION {{c[1], c[2]} : c \in L}
           of(i)  == CHOOSE c \in L : About[c[1]] = i
           has(i) == \E c \in L : About[c[1]] = i
<1>2. /\ L \subseteq Version \X Retraction
      /\ \A c \in L : About[c[1]] = About[c[2]]
      /\ \A c, d \in L : About[c[1]] = About[d[1]] => c = d
  BY DEF Legacy
<1>3. \A i : has(i) => of(i) \in L /\ About[of(i)[1]] = i
  OBVIOUS
<1>4. stored \subseteq Version \cup Retraction
  BY <1>2
<1>5. outbox \in Seq(Version \cup Curated)
  <2>1. IsFiniteSet(stored \ FromApi)
    BY <1>4, FS_Subset, CollectedAssumption
  <2>2. Cardinality(stored \ FromApi) \in Nat
    BY <2>1, FS_CardinalityType
  <2>3. stored \ FromApi \subseteq Version \cup Curated
    BY <1>4 DEF Curated
  <2>4. outbox \in [1..Cardinality(stored \ FromApi) -> Version \cup Curated]
    BY <1>1, <2>3
  <2> HIDE DEF stored
  <2> QED  BY <2>2, <2>4, SeqDef
<1>6. \A i \in Id : has(i) => of(i)[2] \in Retraction /\ of(i)[2] \in stored
                              /\ About[of(i)[2]] = i
  BY <1>2, <1>3
<1>7. mark \in [Id -> Decision \cup {None}] /\ ledger \in [Id -> Decision \cup {None}]
  BY <1>1, <1>6, DecisionOf
<1>8. Typed
  BY <1>1, <1>5, <1>7 DEF Typed
<1>9. Agreement
  BY <1>1 DEF Agreement, Marked, Present
<1>10. Remembered
  <2> SUFFICES ASSUME NEW r \in ingest_log \cap Retraction
               PROVE  Marked(About[r])
    BY <1>1 DEF Remembered
  <2>1. PICK c \in L : r \in {c[1], c[2]}
    BY <1>1
  <2>2. About[c[1]] = About[r] /\ About[r] \in Id
    BY <1>2, <2>1, CollectedAssumption DEF Named
  <2>3. has(About[r])
    BY <2>2
  <2>4. mark[About[r]] = Decided(of(About[r])[2])
    BY <1>1, <2>2, <2>3
  <2> QED  BY <1>6, <2>2, <2>3, <2>4, DecisionOf DEF Marked
<1>11. Justified
  <2> SUFFICES ASSUME NEW i \in Id, Marked(i) \/ ledger[i] # None
               PROVE  Reason(i)
    BY DEF Justified
  <2>1. has(i)
    BY <1>1 DEF Marked
  <2> QED  BY <1>1, <1>6, <2>1 DEF Reason
<1> QED  BY <1>8, <1>9, <1>10, <1>11 DEF IInv

--------------------------------------------------------------------------

\* A step that changes none of what the invariants speak of but the outbox.
LEMMA InputsKeepIInv ==
  ASSUME IInv, outbox' \in Seq(Version \cup Curated),
         UNCHANGED <<up, ingest_log, row, mark, ledger, migrations, lifted>>
  PROVE  IInv'
BY DEF IInv, Typed, Agreement, Remembered, Justified, Reason, Present, Marked

LEMMA AddMigrationIInv ==
  ASSUME IInv, NEW i \in Id, AddMigration(i)
  PROVE  IInv'
BY DEF IInv, Typed, Agreement, Remembered, Justified, Reason, Present, Marked,
       AddMigration, inputVars

\* What a boot does to one record.
LEMMA BootOf ==
  ASSUME IInv, NEW d \in BOOLEAN, NEW days, Boot(d, days), NEW i \in Id
  PROVE  /\ mark'[i] = IF i \in migrations THEN None ELSE mark[i]
         /\ ledger'[i] = IF i \in migrations THEN None
                         ELSE IF ledger[i] = None THEN mark[i] ELSE ledger[i]
         /\ Present(i)' => Present(i)
         /\ Present(i) /\ ~Present(i)' => mark'[i] = None
BY DEF IInv, Typed, Boot, MarkAfterMigrations, EntryAfterMigrations, Backfill,
       Present, Purged

LEMMA BootIInv ==
  ASSUME IInv, NEW d \in BOOLEAN, NEW days \in Window, Boot(d, days)
  PROVE  IInv'
<1>1. Typed'
  <2>1. /\ mark' = [i \in Id |-> MarkAfterMigrations(i)]
        /\ ledger' = [i \in Id |-> EntryAfterMigrations(i)]
    BY DEF Boot
  <2>2. mark' \in [Id -> Decision \cup {None}]
    BY <2>1 DEF IInv, Typed, MarkAfterMigrations
  <2>3. ledger' \in [Id -> Decision \cup {None}]
    BY <2>1 DEF IInv, Typed, EntryAfterMigrations, Backfill
  <2> QED  BY <2>2, <2>3 DEF IInv, Typed, Boot, inputVars
<1>2. Agreement'
  <2> SUFFICES ASSUME NEW i \in Id
               PROVE  mark'[i] = IF Present(i)' THEN ledger'[i] ELSE None
    BY DEF Agreement, Boot, Present
  <2>1. up => mark[i] = IF Present(i) THEN ledger[i] ELSE None
    BY DEF IInv, Agreement
  <2>2. ~up => ledger[i] = None /\ (mark[i] # None => Present(i))
    BY DEF IInv, Agreement, Marked
  <2> QED  BY <2>1, <2>2, BootOf DEF IInv, Typed
<1>3. Remembered'
  <2> SUFFICES ASSUME NEW r \in (ingest_log' \cap Retraction) \ lifted'
               PROVE  ledger'[About[r]] # None
    BY DEF Remembered, Boot
  <2>1. r \in (ingest_log \cap Retraction) \ lifted /\ About[r] \notin migrations
    BY DEF Boot
  <2>2. About[r] \in Id
    BY CollectedAssumption DEF Named
  <2>3. IF up THEN ledger[About[r]] # None ELSE mark[About[r]] # None
    BY <2>1 DEF IInv, Remembered, Marked
  <2> QED  BY <2>1, <2>2, <2>3, BootOf DEF IInv, Agreement
<1>4. Justified'
  <2> SUFFICES ASSUME NEW i \in Id, mark'[i] # None \/ ledger'[i] # None
               PROVE  Reason(i)'
    BY DEF Justified, Marked
  <2>1. i \notin migrations /\ (mark[i] # None \/ ledger[i] # None)
    BY BootOf
  <2>2. PICK r \in ingest_log \cap Retraction :
          About[r] = i /\ (r \notin lifted \/ r \in Curated)
    BY <2>1 DEF IInv, Justified, Reason, Marked
  <2> QED  BY <2>1, <2>2 DEF Reason, Boot
<1> QED  BY <1>1, <1>2, <1>3, <1>4 DEF IInv

--------------------------------------------------------------------------

\* Storing an envelope that is no retraction adds no decision and no reason.
LEMMA NoNewRetraction ==
  ASSUME NEW m \in Version \cup Patch \cup Wipe, ingest_log' = ingest_log \cup {m}
  PROVE  ingest_log' \cap Retraction = ingest_log \cap Retraction
BY CollectedAssumption

LEMMA StoreVersionIInv ==
  ASSUME IInv, NEW v \in Version, StoreVersion(v)
  PROVE  IInv'
<1> DEFINE a == About[v]
<1>1. /\ a \in Id /\ up /\ up' = up
      /\ ledger' = ledger /\ migrations' = migrations /\ lifted' = lifted
      /\ outbox' = outbox
      /\ ingest_log' \cap Retraction = ingest_log \cap Retraction
      /\ ingest_log \subseteq ingest_log'
  BY CollectedAssumption, NoNewRetraction
  DEF StoreVersion, Storing, Named, stackVars, inputVars
<1>2. \A i \in Id : mark[i] = IF Present(i) THEN ledger[i] ELSE None
  BY <1>1 DEF IInv, Agreement
<1>3. \A i \in Id : mark'[i] = IF Present(i)' THEN ledger'[i] ELSE None
  <2>1. CASE row' = row
    BY <1>1, <1>2, <2>1 DEF StoreVersion, Present
  <2>2. CASE row' # row
    <3>1. \A i : Present(i)' <=> Present(i) \/ i = a
      BY <2>2 DEF StoreVersion, Upsert, Present
    <3>2. mark' = [mark EXCEPT ![a] = FromLedger(a)]
      BY <2>2 DEF StoreVersion
    <3>3. FromLedger(a) = ledger[a]
      BY <1>1, <1>2 DEF FromLedger
    <3> QED  BY <1>1, <1>2, <3>1, <3>2, <3>3 DEF IInv, Typed
  <2> QED  BY <2>1, <2>2
<1>4. mark' \in [Id -> Decision \cup {None}]
  BY <1>1 DEF StoreVersion, FromLedger, IInv, Typed
<1>5. Typed'
  BY <1>1, <1>4 DEF IInv, Typed
<1>6. Agreement'
  BY <1>1, <1>3 DEF Agreement, Present
<1>7. Remembered'
  BY <1>1 DEF IInv, Remembered
<1>8. Justified'
  <2> SUFFICES ASSUME NEW i \in Id, mark'[i] # None \/ ledger'[i] # None
               PROVE  Reason(i)'
    BY DEF Justified, Marked
  <2>1. Reason(i)
    BY <1>1, <1>3 DEF IInv, Justified
  <2> QED  BY <1>1, <2>1 DEF Reason
<1> QED  BY <1>5, <1>6, <1>7, <1>8 DEF IInv

LEMMA StoreRetractionIInv ==
  ASSUME IInv, NEW r \in Retraction, StoreRetraction(r)
  PROVE  IInv'
<1> DEFINE a == About[r]
<1>1. /\ a \in Id /\ up /\ up' = up
      /\ migrations' = migrations /\ lifted' = lifted /\ outbox' = outbox
      /\ row' = row /\ r \notin ingest_log /\ ingest_log' = ingest_log \cup {r}
      /\ ledger' = [ledger EXCEPT ![a] = Corrected(ledger[a], r)]
      /\ mark' = IF Present(a) THEN [mark EXCEPT ![a] = Corrected(mark[a], r)]
                 ELSE mark
  BY CollectedAssumption
  DEF StoreRetraction, Storing, Pending, Named, stackVars, inputVars, Entered
<1>2. \A i \in Id : mark[i] = IF Present(i) THEN ledger[i] ELSE None
  BY <1>1 DEF IInv, Agreement
<1>3. /\ Corrected(ledger[a], r) \in Decision /\ Corrected(ledger[a], r) # None
      /\ Corrected(mark[a], r) \in Decision /\ Corrected(mark[a], r) # None
  BY <1>1, CorrectionOf DEF IInv, Typed
<1>4. Typed'
  BY <1>1, <1>3 DEF IInv, Typed
<1>5. \A i \in Id : mark'[i] = IF Present(i)' THEN ledger'[i] ELSE None
  BY <1>1, <1>2 DEF IInv, Typed, Present
<1>6. Agreement'
  BY <1>1, <1>5 DEF Agreement, Present
<1>7. Remembered'
  <2> SUFFICES ASSUME NEW q \in (ingest_log' \cap Retraction) \ lifted'
               PROVE  ledger'[About[q]] # None
    BY <1>1 DEF Remembered
  <2>1. About[q] \in Id
    BY CollectedAssumption DEF Named
  <2>2. q # r => ledger[About[q]] # None
    BY <1>1 DEF IInv, Remembered
  <2> QED  BY <1>1, <1>3, <2>1, <2>2 DEF IInv, Typed
<1>8. Justified'
  <2> SUFFICES ASSUME NEW i \in Id, mark'[i] # None \/ ledger'[i] # None
               PROVE  Reason(i)'
    BY DEF Justified, Marked
  <2>1. CASE i = a
    BY <1>1, <2>1 DEF Reason, IInv, Typed
  <2>2. CASE i # a
    <3>1. Reason(i)
      BY <1>1, <2>2 DEF IInv, Typed, Justified, Marked
    <3> QED  BY <1>1, <3>1 DEF Reason
  <2> QED  BY <2>1, <2>2
<1> QED  BY <1>4, <1>6, <1>7, <1>8 DEF IInv

LEMMA StorePatchIInv ==
  ASSUME IInv, NEW p \in Patch, StorePatch(p)
  PROVE  IInv'
<1>1. /\ UNCHANGED <<up, mark, ledger, migrations, lifted, outbox>>
      /\ \A i : Present(i)' <=> Present(i)
  BY DEF StorePatch, stackVars, inputVars, Present
<1>2. /\ ingest_log' \cap Retraction = ingest_log \cap Retraction
      /\ ingest_log \subseteq ingest_log'
  BY NoNewRetraction DEF StorePatch, Storing
<1>3. Typed' /\ Remembered'
  BY <1>1, <1>2 DEF IInv, Typed, Remembered, Marked
<1>4. Agreement'
  BY <1>1 DEF IInv, Agreement, Marked
<1>5. Justified'
  BY <1>1, <1>2 DEF IInv, Justified, Reason, Marked
<1> QED  BY <1>3, <1>4, <1>5 DEF IInv

LEMMA StoreWipeIInv ==
  ASSUME IInv, NEW w \in Wipe, StoreWipe(w)
  PROVE  IInv'
<1>1. /\ up /\ UNCHANGED <<up, migrations, lifted, outbox>>
      /\ Committed \subseteq Collecting
      /\ ledger' = [i \in Id |-> Replayed(i)]
      /\ mark' = [i \in Id |-> IF i \notin DOMAIN row' THEN None
                               ELSE IF ledger'[i] # None THEN ledger'[i] ELSE mark[i]]
  BY DEF StoreWipe, Storing, stackVars, inputVars
<1>2. /\ ingest_log' \cap Retraction = ingest_log \cap Retraction
      /\ ingest_log \subseteq ingest_log'
  BY NoNewRetraction DEF StoreWipe, Storing
<1>3. \A i \in Id : /\ ledger'[i] \in Decision \cup {None}
                    /\ ledger[i] # None => ledger'[i] = ledger[i]
  BY <1>1, ReplayOf DEF IInv
<1>4. \A i \in Id : mark[i] = IF Present(i) THEN ledger[i] ELSE None
  BY <1>1 DEF IInv, Agreement
<1>5. \A i \in Id : mark'[i] = IF Present(i)' THEN ledger'[i] ELSE None
  BY <1>1, <1>3, <1>4 DEF Present
<1>6. Typed'
  <2>1. ledger' \in [Id -> Decision \cup {None}]
    BY <1>1, <1>3
  <2>2. mark' \in [Id -> Decision \cup {None}]
    BY <1>1, <2>1 DEF IInv, Typed
  <2> QED  BY <1>1, <1>2, <2>1, <2>2 DEF IInv, Typed
<1>7. Agreement'
  BY <1>1, <1>5 DEF Agreement, Present
<1>8. Remembered'
  <2> SUFFICES ASSUME NEW r \in (ingest_log \cap Retraction) \ lifted
               PROVE  ledger'[About[r]] # None
    BY <1>1, <1>2 DEF Remembered
  <2> QED  BY <1>1, <1>3, CollectedAssumption DEF IInv, Remembered, Named
<1>9. Justified'
  <2> SUFFICES ASSUME NEW i \in Id, mark'[i] # None \/ ledger'[i] # None
               PROVE  Reason(i)'
    BY DEF Justified, Marked
  <2>1. ledger'[i] # None /\ ledger'[i] = Replayed(i)
    BY <1>1, <1>5
  <2>2. CASE ledger[i] # None
    <3>1. Reason(i)
      BY <2>2 DEF IInv, Justified
    <3> QED  BY <1>1, <1>2, <3>1 DEF Reason
  <2>3. CASE ledger[i] = None
    BY <1>1, <1>2, <2>1, <2>3, ReplayOf DEF IInv, Reason
  <2> QED  BY <2>2, <2>3
<1> QED  BY <1>6, <1>7, <1>8, <1>9 DEF IInv

--------------------------------------------------------------------------

LEMMA NextIInv == IInv /\ [Next]_vars => IInv'
<1> SUFFICES ASSUME IInv, [Next]_vars PROVE IInv'
  OBVIOUS
<1>1. ASSUME NEW d \in BOOLEAN, NEW days \in Window, Boot(d, days)
      PROVE  IInv'
  BY <1>1, BootIInv
<1>2. ASSUME NEW i \in Id, AddMigration(i)
      PROVE  IInv'
  BY <1>2, AddMigrationIInv
<1>3. ASSUME NEW m, Collect(m)
      PROVE  IInv'
  <2>1. m \in Version \cup Curated /\ outbox' = Append(outbox, m)
    BY <1>3 DEF Collect
  <2>2. outbox' \in Seq(Version \cup Curated)
    BY <2>1 DEF IInv, Typed
  <2> QED  BY <1>3, <2>2, InputsKeepIInv DEF Collect, stackVars
<1>4. ASSUME NEW m, Post(m)
      PROVE  IInv'
  BY <1>4, InputsKeepIInv DEF Post, stackVars, IInv, Typed
<1>5. ASSUME NEW m, StoreVersion(m)
      PROVE  IInv'
  BY <1>5, StoreVersionIInv DEF StoreVersion
<1>6. ASSUME NEW m, StoreRetraction(m)
      PROVE  IInv'
  BY <1>6, StoreRetractionIInv DEF StoreRetraction
<1>7. ASSUME NEW m, StorePatch(m)
      PROVE  IInv'
  BY <1>7, StorePatchIInv DEF StorePatch
<1>8. ASSUME NEW m, StoreWipe(m)
      PROVE  IInv'
  BY <1>8, StoreWipeIInv DEF StoreWipe
<1>9. CASE UNCHANGED vars
  BY <1>9, InputsKeepIInv DEF vars, inputVars, stackVars, IInv, Typed
<1> QED  BY <1>1, <1>2, <1>3, <1>4, <1>5, <1>6, <1>7, <1>8, <1>9 DEF Next

\* Every reachable state satisfies the inductive invariant.
THEOREM InvariantHolds == Spec => []IInv
BY InitIInv, NextIInv, PTL DEF Spec

\* Migration 010, "the ledger covers every marked row": while the consumer runs,
\* a row is marked exactly as the ledger says, whatever the records, the order
\* of arrival, the wipes, the reinstatements and the number of boots.
THEOREM RowsFollowTheLedger == Spec => []RowFollowsLedger
<1>1. IInv => RowFollowsLedger
  BY DEF IInv, Agreement, RowFollowsLedger
<1> QED  BY <1>1, InvariantHolds, PTL

\* README, "Arrival order does not matter": a record with a stored withdrawal
\* that no reinstatement overturned is never published.
THEOREM WithdrawnStaysHidden == Spec => []WithdrawnIsHidden
<1>1. IInv => WithdrawnIsHidden
  <2> SUFFICES ASSUME IInv, NEW r \in (ingest_log \cap Retraction) \ lifted,
                      Present(About[r])
               PROVE  Marked(About[r])
    BY DEF WithdrawnIsHidden
  <2>1. About[r] \in Id
    BY CollectedAssumption DEF Named
  <2> QED  BY <2>1 DEF IInv, Agreement, Remembered, Marked
<1> QED  BY <1>1, InvariantHolds, PTL

\* Migration 010: no record is "withdrawn again with nobody having decided that".
THEOREM NoMarkWithoutADecision == Spec => []MarkedForAReason
<1>1. IInv => MarkedForAReason
  BY DEF IInv, Justified, Reason, MarkedForAReason
<1> QED  BY <1>1, InvariantHolds, PTL

--------------------------------------------------------------------------

\* What DateKept says of one record.
SameDate(i) ==
  /\ ledger[i] # None => ledger'[i] # None /\ ledger'[i].at = ledger[i].at
  /\ Marked(i) /\ Present(i)' => Marked(i)' /\ mark'[i].at = mark[i].at

\* While the consumer runs the date on a row is the date in the ledger.
LEMMA SameDateFromLedger ==
  ASSUME IInv, IInv', up, up', NEW i \in Id,
         ledger[i] # None => ledger'[i] # None /\ ledger'[i].at = ledger[i].at
  PROVE  SameDate(i)
BY DEF SameDate, IInv, Agreement, Marked

\* apply_retraction, "the decision date is never moved": only a reinstatement
\* moves or removes a date, on the row or in the ledger.
THEOREM DatesAreKept == Spec => DateKept
<1>1. IInv /\ IInv' /\ [Next]_vars => [\A i \in Id \ migrations : SameDate(i)]_vars
  <2> SUFFICES ASSUME IInv, IInv', Next, NEW i \in Id \ migrations
               PROVE  SameDate(i)
    OBVIOUS
  <2>1. ASSUME NEW d \in BOOLEAN, NEW days \in Window, Boot(d, days)
        PROVE  SameDate(i)
    BY <2>1, BootOf DEF SameDate, Marked
  <2>2. ASSUME UNCHANGED <<ledger, mark>>
        PROVE  SameDate(i)
    BY <2>2 DEF SameDate, Marked
  <2>3. ASSUME NEW j \in Id, AddMigration(j)
        PROVE  SameDate(i)
    BY <2>2, <2>3 DEF AddMigration
  <2>4. ASSUME NEW m, Collect(m) \/ Post(m) \/ StorePatch(m)
        PROVE  SameDate(i)
    BY <2>2, <2>4 DEF Collect, Post, StorePatch
  <2>5. ASSUME NEW m, StoreVersion(m)
        PROVE  SameDate(i)
    BY <2>5, SameDateFromLedger DEF StoreVersion, Storing, stackVars
  <2>6. ASSUME NEW m, StoreRetraction(m)
        PROVE  SameDate(i)
    <3>1. /\ up /\ up' /\ m \in Retraction
          /\ ledger' = [ledger EXCEPT ![About[m]] = Corrected(ledger[About[m]], m)]
      BY <2>6 DEF StoreRetraction, Storing, stackVars, Entered
    <3>2. ledger[i] \in Decision \cup {None} /\ ledger \in [Id -> Decision \cup {None}]
      BY DEF IInv, Typed
    <3>3. Corrected(ledger[i], m) # None
          /\ (ledger[i] # None => Corrected(ledger[i], m).at = ledger[i].at)
      BY <3>1, <3>2, CorrectionOf
    <3>4. ledger[i] # None => ledger'[i] # None /\ ledger'[i].at = ledger[i].at
      BY <3>1, <3>2, <3>3
    <3> QED  BY <3>1, <3>4, SameDateFromLedger
  <2>7. ASSUME NEW m, StoreWipe(m)
        PROVE  SameDate(i)
    <3>1. /\ up /\ up' /\ Committed \subseteq Collecting
          /\ ledger' = [j \in Id |-> Replayed(j)]
      BY <2>7 DEF StoreWipe, Storing, stackVars
    <3>2. ledger[i] # None => ledger'[i] = ledger[i]
      BY <3>1, ReplayOf DEF IInv
    <3> QED  BY <3>1, <3>2, SameDateFromLedger
  <2> QED  BY <2>1, <2>3, <2>4, <2>5, <2>6, <2>7 DEF Next
<1>2. [\A i \in Id \ migrations : SameDate(i)]_vars
      <=> [\A i \in Id \ migrations :
             /\ ledger[i] # None => ledger'[i] # None /\ ledger'[i].at = ledger[i].at
             /\ Marked(i) /\ Present(i)' => Marked(i)' /\ mark'[i].at = mark[i].at]_vars
  BY DEF SameDate
<1> QED  BY <1>1, <1>2, InvariantHolds, PTL DEF Spec, DateKept

--------------------------------------------------------------------------
(* The rows themselves: their type, and which samples are among them.      *)

Rows(rows) ==
  /\ DOMAIN rows \subseteq Id
  /\ \A i \in DOMAIN rows :
       rows[i] \in [version : Version, until : Nat, patched : BOOLEAN]

Unsampled(rows) == ~demo => DOMAIN rows \cap Sample = {}

LEMMA ContentOf ==
  ASSUME NEW v \in Version
  PROVE  /\ About[v] \in Id
         /\ Content(v) \in [version : Version, until : Nat, patched : BOOLEAN]
<1>1. About[v] \in Id /\ CheckedAt[v] \in Nat /\ WindowOf[v] \in Nat
  BY CollectedAssumption DEF Named
<1>2. ValidUntil(v) \in Nat
  BY <1>1 DEF ValidUntil
<1> QED  BY <1>1, <1>2 DEF Content

LEMMA UpsertOf ==
  ASSUME NEW rows, Rows(rows), NEW v \in Version
  PROVE  Rows(Upsert(rows, v)) /\ (Unsampled(rows) => Unsampled(Upsert(rows, v)))
<1>1. CASE Upsert(rows, v) = rows
  BY <1>1
<1>2. CASE Upsert(rows, v) # rows
  <2>1. /\ ~Dropped(v)
        /\ Upsert(rows, v) = [i \in DOMAIN rows \cup {About[v]} |->
                                IF i = About[v] THEN Content(v) ELSE rows[i]]
    BY <1>2 DEF Upsert
  <2>2. Rows(Upsert(rows, v))
    BY <2>1, ContentOf DEF Rows
  <2>3. Unsampled(rows) => Unsampled(Upsert(rows, v))
    BY <2>1 DEF Unsampled, Dropped
  <2> QED  BY <2>2, <2>3
<1> QED  BY <1>1, <1>2

\* What the versions in V, stored in some order, leave of records that are no
\* samples: a row for each of them and, of a place or a fact, the latest version.
Latest(rows, V, i) ==
  /\ rows[i].version \in V /\ About[rows[i].version] = i
  /\ \A v \in V : About[v] = i => AsOf[v] <= AsOf[rows[i].version]

Reflects(rows, V) ==
  /\ \A i \in Id \ Sample : i \in DOMAIN rows <=> \E v \in V : About[v] = i
  /\ \A i \in DOMAIN rows \ Event : Latest(rows, V, i)

Unpatched(rows) == \A i \in DOMAIN rows : ~rows[i].patched

\* Whatever the order: one more version is reflected by its upsert.
LEMMA UpsertReflects ==
  ASSUME NEW rows, Rows(rows), NEW V \in SUBSET Version, Reflects(rows, V),
         NEW v \in Version
  PROVE  /\ Reflects(Upsert(rows, v), V \cup {v})
         /\ Unpatched(rows) => Unpatched(Upsert(rows, v))
<1> DEFINE a == About[v]
           new == Upsert(rows, v)
<1>0. new = Upsert(rows, v)
  OBVIOUS
<1>1. a \in Id /\ Sample \subseteq Event /\ AsOf \in [Version -> Nat]
  BY CollectedAssumption DEF Named
<1>2. CASE Dropped(v)
  <2>1. new = rows /\ a \in Sample
    BY <1>2 DEF Upsert, Dropped
  <2> HIDE DEF new
  <2> QED  BY <1>0, <1>1, <2>1 DEF Reflects, Latest
<1>3. CASE ~Dropped(v) /\ a \in DOMAIN rows /\ ~Overwrites(v, rows[a])
  <2>1. new = rows
    BY <1>3 DEF Upsert
  <2>2. AsOf[v] <= AsOf[rows[a].version]
    <3>1. AsOf[v] \in Nat /\ AsOf[rows[a].version] \in Nat
      BY <1>1, <1>3 DEF Rows
    <3> QED  BY <1>3, <3>1 DEF Overwrites
  <2>3. \A i \in Id \ Sample : i \in DOMAIN rows <=> \E w \in V \cup {v} : About[w] = i
    BY <1>3 DEF Reflects
  <2>4. \A i \in DOMAIN rows \ Event : Latest(rows, V \cup {v}, i)
    BY <2>2 DEF Reflects, Latest
  <2> HIDE DEF new
  <2> QED  BY <1>0, <2>1, <2>3, <2>4 DEF Reflects
<1>4. CASE ~Dropped(v) /\ (a \in DOMAIN rows => Overwrites(v, rows[a]))
  <2>1. new = [i \in DOMAIN rows \cup {a} |-> IF i = a THEN Content(v) ELSE rows[i]]
    BY <1>4 DEF Upsert
  <2>2. /\ DOMAIN new = DOMAIN rows \cup {a}
        /\ new[a].version = v /\ ~new[a].patched
        /\ \A i \in DOMAIN rows : i # a => new[i] = rows[i]
    BY <2>1 DEF Content
  <2> HIDE DEF new
  <2>3. \A i \in Id \ Sample : i \in DOMAIN new <=> \E w \in V \cup {v} : About[w] = i
    BY <2>2 DEF Reflects
  <2>4. ASSUME a \notin Event, NEW w \in V, About[w] = a
        PROVE  AsOf[w] <= AsOf[v]
    <3>1. a \in DOMAIN rows
      BY <1>1, <2>4 DEF Reflects
    <3>2. /\ AsOf[w] <= AsOf[rows[a].version] /\ rows[a].version \in Version
      BY <2>4, <3>1 DEF Reflects, Latest
    <3>3. AsOf[v] > AsOf[rows[a].version]
      BY <1>4, <2>4, <3>1 DEF Overwrites
    <3>4. AsOf[w] \in Nat /\ AsOf[v] \in Nat /\ AsOf[rows[a].version] \in Nat
      BY <1>1, <3>2
    <3> QED  BY <3>2, <3>3, <3>4
  <2>5. ASSUME NEW i \in DOMAIN new \ Event
        PROVE  Latest(new, V \cup {v}, i)
    <3>1. CASE i = a
      <4>1. AsOf[v] <= AsOf[v]
        BY <1>1
      <4> QED  BY <2>2, <2>4, <2>5, <3>1, <4>1 DEF Latest
    <3>2. CASE i # a
      BY <2>2, <2>5, <3>2 DEF Reflects, Latest
    <3> QED  BY <3>1, <3>2
  <2>6. Unpatched(rows) => Unpatched(new)
    BY <2>2 DEF Unpatched
  <2> QED  BY <1>0, <2>3, <2>5, <2>6 DEF Reflects
<1> QED  BY <1>2, <1>3, <1>4

\* One envelope of the replay, after the rows of the ones before it.
Replay(f, n) ==
  IF n = 0 THEN [i \in {} |-> None]
  ELSE IF outbox[n] \in Committed \cap Version THEN Upsert(f[n - 1], outbox[n])
  ELSE f[n - 1]

\* The replay is well defined: by the least length for which it would not be.
LEMMA ReplayExists ==
  ASSUME NEW k \in Nat
  PROVE  \E f : f = [n \in 0..k |-> Replay(f, n)]
<1> DEFINE Has(m) == \E f : f = [n \in 0..m |-> Replay(f, n)]
           Bad == {m \in Nat : ~Has(m)}
<1>1. SUFFICES ASSUME Bad # {} PROVE FALSE
  OBVIOUS
<1>2. PICK m \in Bad : \A j \in Bad : m <= j
  <2> HIDE DEF Bad
  <2>1. Bad \in SUBSET Nat
    BY DEF Bad
  <2> QED  BY <1>1, <2>1, LeastNatural
<1>3. m # 0
  <2>1. Has(0)
    <3> DEFINE f == [n \in 0..0 |-> [i \in {} |-> None]]
    <3>1. f = [n \in 0..0 |-> Replay(f, n)]
      BY DEF Replay
    <3> QED  BY <3>1
  <2> QED  BY <2>1
<1>4. m - 1 \in Nat /\ m \in Nat /\ m - 1 \notin Bad
  BY <1>2, <1>3
<1>5. PICK f : f = [n \in 0..(m - 1) |-> Replay(f, n)]
  BY <1>4
<1> DEFINE g == [n \in 0..m |-> IF n = m THEN Replay(f, m) ELSE f[n]]
<1>6. \A n \in 0..m : g[n] = Replay(g, n)
  <2> SUFFICES ASSUME NEW n \in 0..m PROVE g[n] = Replay(g, n)
    OBVIOUS
  <2>1. n # 0 => g[n - 1] = f[n - 1]
    BY <1>4
  <2>2. Replay(g, n) = Replay(f, n)
    BY <2>1 DEF Replay
  <2>3. n # m => n \in 0..(m - 1)
    BY <1>4
  <2> QED  BY <1>5, <2>2, <2>3
<1>7. g = [n \in 0..m |-> Replay(g, n)]
  <2> DEFINE h == [n \in 0..m |-> Replay(g, n)]
  <2>1. \A n \in 0..m : g[n] = h[n]
    BY <1>6
  <2>2. g = [n \in 0..m |-> h[n]]
    <3> HIDE DEF h
    <3> QED  BY <2>1
  <2> QED  BY <2>2
<1> QED
  <2> HIDE DEF g
  <2> QED  BY <1>2, <1>7

\* The committed versions among the first n envelopes of the outbox.
Replaying(n) == {outbox[k] : k \in 1..n} \cap Committed \cap Version

\* What a rebuild brings back is rows without a patch, no sample outside demo
\* mode, and what the committed versions of the outbox leave.
LEMMA RebuiltRows ==
  ASSUME Typed
  PROVE  /\ Rows(Rebuilt) /\ Unsampled(Rebuilt) /\ Unpatched(Rebuilt)
         /\ Reflects(Rebuilt, Replaying(Len(outbox)))
<1> DEFINE N == Len(outbox)
           after == CHOOSE f : f = [n \in 0..N |-> Replay(f, n)]
<1>1. N \in Nat
  BY DEF Typed
<1>2. after = [n \in 0..N |-> Replay(after, n)]
  <2> HIDE DEF N
  <2> QED  BY <1>1, ReplayExists
<1>3. Rebuilt = after[N]
  BY DEF Rebuilt, Replay
<1> HIDE DEF after, N
<1> DEFINE Good(n) == /\ Rows(after[n]) /\ Unsampled(after[n]) /\ Unpatched(after[n])
                      /\ Reflects(after[n], Replaying(n))
           Bad == {n \in 0..N : ~Good(n)}
<1>4. SUFFICES ASSUME Bad # {} PROVE FALSE
  BY <1>1, <1>3 DEF N
<1>5. PICK m \in Bad : \A j \in Bad : m <= j
  <2> HIDE DEF Bad
  <2>1. Bad \in SUBSET Nat
    BY <1>1 DEF Bad
  <2> QED  BY <1>4, <2>1, LeastNatural
<1>6. m \in 0..N /\ after[m] = Replay(after, m)
  BY <1>2
<1>7. CASE m = 0
  <2>1. after[m] = [i \in {} |-> None]
    BY <1>6, <1>7 DEF Replay
  <2>2. DOMAIN after[m] = {} /\ Replaying(m) = {}
    BY <1>7, <2>1 DEF Replaying
  <2> QED  BY <1>5, <2>2 DEF Rows, Unsampled, Unpatched, Reflects
<1>8. CASE m # 0
  <2>1. m - 1 \in 0..N /\ m - 1 \notin Bad
    BY <1>1, <1>5, <1>6, <1>8
  <2>2. Good(m - 1)
    BY <2>1
  <2>3. {outbox[k] : k \in 1..m} = {outbox[k] : k \in 1..(m - 1)} \cup {outbox[m]}
    <3>1. \A k \in 1..m : k = m \/ k \in 1..(m - 1)
      BY <1>1, <1>6, <1>8
    <3>2. m \in 1..m /\ \A k \in 1..(m - 1) : k \in 1..m
      BY <1>1, <1>6, <1>8
    <3> QED  BY <3>1, <3>2
  <2>4. CASE outbox[m] \in Committed \cap Version
    <3>1. Replaying(m) = Replaying(m - 1) \cup {outbox[m]}
      BY <2>3, <2>4 DEF Replaying
    <3>2. after[m] = Upsert(after[m - 1], outbox[m])
      BY <1>6, <1>8, <2>4 DEF Replay
    <3>3. Replaying(m - 1) \in SUBSET Version /\ outbox[m] \in Version
      BY <2>4 DEF Replaying
    <3>4. Good(m)
      BY <2>2, <3>1, <3>2, <3>3, UpsertOf, UpsertReflects
    <3> QED  BY <1>5, <3>4
  <2>5. CASE outbox[m] \notin Committed \cap Version
    <3>1. Replaying(m) = Replaying(m - 1)
      BY <2>3, <2>5 DEF Replaying
    <3>2. after[m] = after[m - 1]
      BY <1>6, <1>8, <2>5 DEF Replay
    <3> QED  BY <1>5, <2>2, <3>1, <3>2
  <2> QED  BY <2>4, <2>5
<1> QED  BY <1>7, <1>8

Stocked ==
  /\ demo \in BOOLEAN /\ window \in Window
  /\ sent \subseteq FromApi \cup Patch \cup Wipe
  /\ ingest_log \subseteq Collecting \cup sent
  /\ Rows(row)
  /\ migrations \subseteq Reinstatable
  /\ boots \in 0..MaxBoots

LEMMA InitRows == Init => Stocked /\ NoSampleByDefault
<1> SUFFICES ASSUME Init PROVE Stocked /\ NoSampleByDefault
  OBVIOUS
<1>1. PICK L \in Legacy :
    LET stored == UNION {{c[1], c[2]} : c \in L}
        of(i)  == CHOOSE c \in L : About[c[1]] = i
        has(i) == \E c \in L : About[c[1]] = i
    IN  /\ up = FALSE /\ demo = FALSE /\ window \in Window
        /\ Collecting = stored \ FromApi
        /\ sent = stored \cap FromApi
        /\ ingest_log = stored
        /\ row = [i \in {j \in Id : has(j)} |-> Content(of(i)[1])]
        /\ migrations = {} /\ boots = 0
  BY DEF Init
<1> DEFINE stored == UNION {{c[1], c[2]} : c \in L}
           of(i)  == CHOOSE c \in L : About[c[1]] = i
           has(i) == \E c \in L : About[c[1]] = i
<1>2. L \subseteq Version \X Retraction
  BY DEF Legacy
<1>3. \A i : has(i) => of(i)[1] \in Version
  BY <1>2
<1>4. Rows(row)
  BY <1>1, <1>3, ContentOf DEF Rows
<1>5. Stocked
  <2>1. ingest_log \subseteq Collecting \cup sent
    <3> HIDE DEF stored
    <3> QED  BY <1>1
  <2>2. sent \subseteq FromApi /\ boots \in 0..MaxBoots
    <3> HIDE DEF stored
    <3> QED  BY <1>1, CollectedAssumption
  <2>3. demo \in BOOLEAN /\ window \in Window /\ migrations \subseteq Reinstatable
    BY <1>1
  <2> QED  BY <1>4, <2>1, <2>2, <2>3 DEF Stocked
<1> QED  BY <1>1, <1>5 DEF NoSampleByDefault

\* A step that leaves the rows, the marks and the settings alone.
LEMMA InputsKeepRows ==
  ASSUME Stocked, NoSampleByDefault, Collecting \subseteq Collecting',
         sent \subseteq sent', sent' \subseteq FromApi \cup Patch \cup Wipe,
         ingest_log' \subseteq Collecting' \cup sent',
         migrations' \subseteq Reinstatable,
         UNCHANGED <<up, demo, window, row, mark, boots>>
  PROVE  Stocked' /\ NoSampleByDefault'
BY DEF Stocked, NoSampleByDefault, Rows, Present, Marked

\* What a store adds to ingest_log was in an outbox.
LEMMA StoringKeepsLog ==
  ASSUME Stocked, NEW m, Storing(m), UNCHANGED inputVars
  PROVE  ingest_log' \subseteq Collecting' \cup sent' /\ up
BY DEF Stocked, Storing, Pending, inputVars, Collecting

LEMMA BootRows ==
  ASSUME IInv, Stocked, NEW d \in BOOLEAN, NEW days \in Window, Boot(d, days)
  PROVE  Stocked' /\ NoSampleByDefault'
<1>1. Rows(row')
  BY DEF Boot, Stocked, Rows
<1>2. Stocked'
  BY <1>1, CollectedAssumption DEF Boot, Stocked, Rows, inputVars, Collecting
<1>3. ASSUME ~demo', NEW i \in Sample, Present(i)'
      PROVE  Marked(i)'
  <2>1. i \in Id /\ d = FALSE
    BY <1>3, CollectedAssumption DEF Boot
  <2>2. i \in DOMAIN row /\ ~Purged(i, d)
    BY <1>3 DEF Boot, Present
  <2>3. MarkAfterMigrations(i) # None
    BY <1>3, <2>1, <2>2 DEF Purged
  <2>4. mark'[i] = MarkAfterMigrations(i)
    BY <2>1 DEF Boot
  <2> QED  BY <2>3, <2>4 DEF Marked
<1>4. NoSampleByDefault'
  BY <1>3 DEF NoSampleByDefault, Boot
<1> QED  BY <1>2, <1>4

LEMMA StoreVersionRows ==
  ASSUME IInv, Stocked, NoSampleByDefault, NEW v, StoreVersion(v)
  PROVE  Stocked' /\ NoSampleByDefault'
<1>1. /\ v \in Version /\ UNCHANGED <<up, demo, window, migrations, boots, sent, outbox>>
      /\ row' = Upsert(row, v)
      /\ ingest_log' \subseteq Collecting' \cup sent' /\ up
  BY StoringKeepsLog DEF StoreVersion, stackVars, inputVars
<1>2. Rows(row')
  BY <1>1, UpsertOf DEF Stocked
<1>3. Stocked'
  BY <1>1, <1>2 DEF Stocked, Rows
<1>4. ASSUME ~demo, NEW i \in Sample, Present(i)'
      PROVE  Marked(i)'
  <2>1. CASE row' = row
    BY <1>1, <1>4, <2>1 DEF StoreVersion, NoSampleByDefault, Present, Marked
  <2>2. CASE row' # row
    <3>1. ~Dropped(v) /\ DOMAIN row' = DOMAIN row \cup {About[v]}
      BY <1>1, <2>2 DEF Upsert
    <3>2. About[v] # i
      BY <1>4, <3>1 DEF Dropped
    <3>3. Present(i) /\ mark'[i] = mark[i]
      BY <1>4, <2>2, <3>1, <3>2 DEF StoreVersion, Present, IInv, Typed
    <3> QED  BY <1>1, <1>4, <3>3 DEF NoSampleByDefault, Marked
  <2> QED  BY <2>1, <2>2
<1>5. NoSampleByDefault'
  BY <1>1, <1>4 DEF NoSampleByDefault
<1> QED  BY <1>3, <1>5

LEMMA StoreRetractionRows ==
  ASSUME IInv, Stocked, NoSampleByDefault, NEW r, StoreRetraction(r)
  PROVE  Stocked' /\ NoSampleByDefault'
<1>1. /\ r \in Retraction /\ UNCHANGED <<up, demo, window, migrations, boots, sent, outbox, row>>
      /\ ingest_log' \subseteq Collecting' \cup sent' /\ up
  BY StoringKeepsLog DEF StoreRetraction, stackVars, inputVars
<1>2. Stocked'
  BY <1>1 DEF Stocked, Rows
<1>3. \A i \in Id : Marked(i) => Marked(i)'
  <2>1. \A i \in Id : mark'[i] = mark[i] \/ (i = About[r] /\ mark'[i] = Corrected(mark[i], r))
    BY DEF StoreRetraction, IInv, Typed
  <2> QED  BY <1>1, <2>1, CorrectionOf DEF Marked, IInv, Typed
<1>4. NoSampleByDefault'
  BY <1>1, <1>3, CollectedAssumption DEF NoSampleByDefault, Present
<1> QED  BY <1>2, <1>4

LEMMA StorePatchRows ==
  ASSUME IInv, Stocked, NoSampleByDefault, NEW p, StorePatch(p)
  PROVE  Stocked' /\ NoSampleByDefault'
<1>1. /\ p \in Patch /\ UNCHANGED <<up, demo, window, migrations, boots, sent, outbox, mark>>
      /\ About[p] \in DOMAIN row
      /\ row' = [row EXCEPT ![About[p]] = Patched(p, row[About[p]])]
      /\ ingest_log' \subseteq Collecting' \cup sent' /\ up
  BY StoringKeepsLog DEF StorePatch, stackVars, inputVars, Present
<1>2. Patched(p, row[About[p]]) \in [version : Version, until : Nat, patched : BOOLEAN]
  <2>1. CheckedAt[p] \in Nat /\ window \in Nat
    BY <1>1, CollectedAssumption DEF Stocked
  <2>2. row[About[p]].version \in Version /\ row[About[p]].until \in Nat
    BY <1>1 DEF Stocked, Rows
  <2> QED  BY <2>1, <2>2 DEF Patched
<1>3. Stocked'
  BY <1>1, <1>2 DEF Stocked, Rows
<1>4. NoSampleByDefault'
  BY <1>1 DEF NoSampleByDefault, Present, Marked
<1> QED  BY <1>3, <1>4

LEMMA StoreWipeRows ==
  ASSUME IInv, Stocked, NoSampleByDefault, NEW w, StoreWipe(w)
  PROVE  Stocked' /\ NoSampleByDefault'
<1>1. /\ UNCHANGED <<up, demo, window, migrations, boots, sent, outbox>>
      /\ row' = Rebuilt
      /\ ingest_log' \subseteq Collecting' \cup sent' /\ up
  BY StoringKeepsLog DEF StoreWipe, stackVars, inputVars
<1>2. Rows(row') /\ Unsampled(row')
  BY <1>1, RebuiltRows DEF IInv
<1>3. Stocked'
  BY <1>1, <1>2 DEF Stocked, Rows
<1>4. NoSampleByDefault'
  BY <1>1, <1>2 DEF NoSampleByDefault, Present, Unsampled
<1> QED  BY <1>3, <1>4

LEMMA NextRows ==
  IInv /\ Stocked /\ NoSampleByDefault /\ [Next]_vars => Stocked' /\ NoSampleByDefault'
<1> SUFFICES ASSUME IInv, Stocked, NoSampleByDefault, [Next]_vars
             PROVE  Stocked' /\ NoSampleByDefault'
  OBVIOUS
<1>1. ASSUME NEW d \in BOOLEAN, NEW days \in Window, Boot(d, days)
      PROVE  Stocked' /\ NoSampleByDefault'
  BY <1>1, BootRows
<1>2. ASSUME NEW i \in Id, AddMigration(i)
      PROVE  Stocked' /\ NoSampleByDefault'
  BY <1>2, InputsKeepRows DEF AddMigration, Stocked, inputVars, Collecting
<1>3. ASSUME NEW m, Collect(m)
      PROVE  Stocked' /\ NoSampleByDefault'
  <2>1. outbox' = Append(outbox, m) /\ outbox \in Seq(Version \cup Curated)
    BY <1>3 DEF Collect, IInv, Typed
  <2>2. DOMAIN outbox' = 1..(Len(outbox) + 1) /\ DOMAIN outbox = 1..Len(outbox)
        /\ Len(outbox) \in Nat
    BY <2>1
  <2>3. \A n \in DOMAIN outbox : n \in DOMAIN outbox' /\ outbox'[n] = outbox[n]
    BY <2>1, <2>2
  <2>4. Collecting \subseteq Collecting'
    BY <2>3 DEF Collecting
  <2> QED  BY <1>3, <2>4, InputsKeepRows DEF Collect, stackVars, Stocked
<1>4. ASSUME NEW m, Post(m)
      PROVE  Stocked' /\ NoSampleByDefault'
  <2>1. Collecting' = Collecting
    BY <1>4 DEF Post, Collecting
  <2> QED  BY <1>4, <2>1, InputsKeepRows DEF Post, stackVars, Stocked
<1>5. ASSUME NEW m, StoreVersion(m) \/ StoreRetraction(m) \/ StorePatch(m) \/ StoreWipe(m)
      PROVE  Stocked' /\ NoSampleByDefault'
  BY <1>5, StoreVersionRows, StoreRetractionRows, StorePatchRows, StoreWipeRows
<1>6. CASE UNCHANGED vars
  <2>1. Collecting' = Collecting
    BY <1>6 DEF Collecting, vars, inputVars
  <2> QED  BY <1>6, <2>1, InputsKeepRows DEF vars, inputVars, stackVars, Stocked
<1> QED  BY <1>1, <1>2, <1>3, <1>4, <1>5, <1>6 DEF Next

THEOREM RowsAreKept == Spec => [](Stocked /\ NoSampleByDefault)
<1>1. Init => Stocked /\ NoSampleByDefault
  BY InitRows
<1>2. IInv /\ (Stocked /\ NoSampleByDefault) /\ [Next]_vars
        => (Stocked /\ NoSampleByDefault)'
  BY NextRows
<1> QED  BY <1>1, <1>2, InvariantHolds, PTL DEF Spec

\* Every reachable state is well typed: rows of known versions with an expiry,
\* decisions or nothing as marks and entries, committed envelopes all accepted.
THEOREM TypeCorrect == Spec => []TypeOK
<1>1. IInv /\ Stocked => TypeOK
  BY DEF IInv, Typed, Stocked, Rows, TypeOK
<1> QED  BY <1>1, InvariantHolds, RowsAreKept, PTL

\* "No generated row is stored by default" (consumer, purge_sample_events and
\* upsert_event): outside demo mode no sample is published, across boots in and
\* out of demo mode, redeliveries and rebuilds.
THEOREM NoSampleIsPublished == Spec => []NoSampleByDefault
BY RowsAreKept, PTL

--------------------------------------------------------------------------
(* What a wipe restores.                                                   *)

\* The rows that are no samples are what the stored versions leave of them.
Standing == Reflects(row, ingest_log \cap Version)

LEMMA InitStanding == Init => Standing
<1> SUFFICES ASSUME Init PROVE Standing
  OBVIOUS
<1>1. PICK L \in Legacy :
    LET stored == UNION {{c[1], c[2]} : c \in L}
        of(i)  == CHOOSE c \in L : About[c[1]] = i
        has(i) == \E c \in L : About[c[1]] = i
    IN  /\ ingest_log = stored
        /\ row = [i \in {j \in Id : has(j)} |-> Content(of(i)[1])]
  BY DEF Init
<1> DEFINE stored == UNION {{c[1], c[2]} : c \in L}
           of(i)  == CHOOSE c \in L : About[c[1]] = i
           has(i) == \E c \in L : About[c[1]] = i
<1>2. /\ L \subseteq Version \X Retraction
      /\ \A c, d \in L : About[c[1]] = About[d[1]] => c = d
  BY DEF Legacy
<1>3. stored \cap Version = {c[1] : c \in L}
  BY <1>2, CollectedAssumption
<1>4. \A i : has(i) => of(i) \in L /\ About[of(i)[1]] = i
  OBVIOUS
<1>5. DOMAIN row = {j \in Id : has(j)} /\ \A i \in DOMAIN row : row[i].version = of(i)[1]
  BY <1>1 DEF Content
<1>6. \A i \in Id : has(i) <=> \E v \in ingest_log \cap Version : About[v] = i
  BY <1>1, <1>3
<1>7. ASSUME NEW i \in DOMAIN row
      PROVE  Latest(row, ingest_log \cap Version, i)
  <2>1. of(i) \in L /\ About[of(i)[1]] = i /\ row[i].version = of(i)[1]
    BY <1>4, <1>5, <1>7
  <2>2. ASSUME NEW v \in ingest_log \cap Version, About[v] = i
        PROVE  v = of(i)[1]
    <3>1. PICK c \in L : v = c[1]
      BY <1>1, <1>3, <2>2
    <3> QED  BY <1>2, <2>1, <2>2, <3>1
  <2>3. of(i)[1] \in ingest_log \cap Version /\ AsOf[of(i)[1]] \in Nat
    BY <1>1, <1>2, <1>3, <2>1, CollectedAssumption
  <2>4. AsOf[of(i)[1]] <= AsOf[of(i)[1]]
    BY <2>3
  <2> QED  BY <2>1, <2>2, <2>3, <2>4 DEF Latest
<1> QED  BY <1>5, <1>6, <1>7 DEF Standing, Reflects

\* Every committed version is in the outbox when a wipe replays it.
LEMMA WipeReplaysAll ==
  ASSUME Typed, Committed \subseteq Collecting
  PROVE  Replaying(Len(outbox)) = ingest_log \cap Version
<1>1. DOMAIN outbox = 1..Len(outbox)
  BY DEF Typed
<1> QED  BY <1>1 DEF Replaying, Committed, Collecting

LEMMA NextStanding ==
  IInv /\ Stocked /\ Standing /\ [Next]_vars => Standing'
<1> SUFFICES ASSUME IInv, Stocked, Standing, [Next]_vars
             PROVE  Standing'
  OBVIOUS
<1>1. ASSUME NEW d \in BOOLEAN, NEW days \in Window, Boot(d, days)
      PROVE  Standing'
  <2>1. ingest_log' = ingest_log /\ DOMAIN row' = {j \in DOMAIN row : ~Purged(j, d)}
        /\ \A i \in DOMAIN row' : row'[i] = row[i]
    BY <1>1 DEF Boot
  <2>2. \A i \in DOMAIN row \ DOMAIN row' : i \in Sample
    BY <2>1 DEF Purged
  <2> QED  BY <2>1, <2>2 DEF Standing, Reflects, Latest
<1>2. ASSUME UNCHANGED row, ingest_log' \cap Version = ingest_log \cap Version
      PROVE  Standing'
  BY <1>2 DEF Standing, Reflects, Latest
<1>3. ASSUME NEW i \in Id, AddMigration(i)
      PROVE  Standing'
  BY <1>2, <1>3 DEF AddMigration
<1>4. ASSUME NEW m, Collect(m) \/ Post(m)
      PROVE  Standing'
  BY <1>2, <1>4 DEF Collect, Post
<1>5. ASSUME NEW m, StoreVersion(m)
      PROVE  Standing'
  <2>1. m \in Version /\ row' = Upsert(row, m)
        /\ ingest_log' \cap Version = (ingest_log \cap Version) \cup {m}
    BY <1>5 DEF StoreVersion, Storing
  <2>2. Reflects(Upsert(row, m), (ingest_log \cap Version) \cup {m})
    BY <2>1, UpsertReflects DEF Standing, Stocked
  <2> QED  BY <2>1, <2>2 DEF Standing, Reflects, Latest
<1>6. ASSUME NEW m, StoreRetraction(m)
      PROVE  Standing'
  BY <1>2, <1>6, CollectedAssumption DEF StoreRetraction, Storing
<1>7. ASSUME NEW m, StorePatch(m)
      PROVE  Standing'
  <2>1. ingest_log' \cap Version = ingest_log \cap Version
    BY <1>7, CollectedAssumption DEF StorePatch, Storing
  <2>2. row' = [row EXCEPT ![About[m]] = Patched(m, row[About[m]])]
    BY <1>7 DEF StorePatch
  <2>3. DOMAIN row' = DOMAIN row /\ \A i \in DOMAIN row : row'[i].version = row[i].version
    BY <2>2 DEF Patched
  <2> QED  BY <2>1, <2>3 DEF Standing, Reflects, Latest
<1>8. ASSUME NEW m, StoreWipe(m)
      PROVE  Standing'
  <2>1. /\ row' = Rebuilt /\ Committed \subseteq Collecting
        /\ ingest_log' \cap Version = ingest_log \cap Version
    BY <1>8, CollectedAssumption DEF StoreWipe, Storing
  <2>2. Reflects(Rebuilt, ingest_log \cap Version)
    BY <2>1, RebuiltRows, WipeReplaysAll DEF IInv
  <2> QED  BY <2>1, <2>2 DEF Standing, Reflects, Latest
<1>9. CASE UNCHANGED vars
  BY <1>2, <1>9 DEF vars
<1> QED  BY <1>1, <1>3, <1>4, <1>5, <1>6, <1>7, <1>8, <1>9 DEF Next

\* What RebuildRestores says of one record.
Restored(i) ==
  /\ Present(i)' <=> Present(i)
  /\ Present(i) => ~row'[i].patched
  /\ Present(i) /\ i \notin Event => row'[i].version = row[i].version
  /\ Marked(i) => mark'[i] = mark[i]
  /\ ledger[i] # None => ledger'[i] = ledger[i]

\* Only a wipe commits a wipe envelope.
LEMMA WipeIsStored ==
  ASSUME [Next]_vars, NEW w \in Wipe, w \in ingest_log' \ ingest_log
  PROVE  StoreWipe(w)
<1>1. CASE UNCHANGED vars
  BY <1>1 DEF vars
<1>2. ASSUME NEW m, Collect(m) \/ Post(m)
      PROVE  StoreWipe(w)
  BY <1>2 DEF Collect, Post
<1>3. ASSUME NEW m, StoreVersion(m) \/ StoreRetraction(m) \/ StorePatch(m)
      PROVE  StoreWipe(w)
  BY <1>3, CollectedAssumption DEF StoreVersion, StoreRetraction, StorePatch, Storing
<1>4. ASSUME NEW m, StoreWipe(m)
      PROVE  StoreWipe(w)
  BY <1>4 DEF StoreWipe, Storing
<1>5. ASSUME NEW d, NEW days, Boot(d, days)
      PROVE  StoreWipe(w)
  BY <1>5 DEF Boot
<1>6. ASSUME NEW i, AddMigration(i)
      PROVE  StoreWipe(w)
  BY <1>6 DEF AddMigration
<1> QED  BY <1>1, <1>2, <1>3, <1>4, <1>5, <1>6 DEF Next

\* Two versions of a place or a fact that are both the latest are the same.
LEMMA LatestIsUnique ==
  ASSUME NEW V \in SUBSET Version, NEW rows, NEW others, NEW i \in Id \ Event,
         Latest(rows, V, i), Latest(others, V, i)
  PROVE  rows[i].version = others[i].version
<1> DEFINE v == rows[i].version
           w == others[i].version
<1>1. v \in Version /\ w \in Version /\ About[v] = i /\ About[w] = i
  BY DEF Latest
<1>2. AsOf[v] <= AsOf[w] /\ AsOf[w] <= AsOf[v]
  BY DEF Latest
<1>3. AsOf[v] = AsOf[w]
  <2>1. AsOf[v] \in Nat /\ AsOf[w] \in Nat
    BY <1>1, CollectedAssumption
  <2> QED  BY <1>2, <2>1
<1>4. ValidUntil(v) = ValidUntil(w) /\ About[v] \notin Sample
  BY <1>1, CollectedAssumption DEF ValidUntil
<1> QED  BY <1>1, <1>3, <1>4, VersionIds

LEMMA WipeRestores ==
  ASSUME IInv, IInv', Standing, NEW w \in Wipe, StoreWipe(w), NEW i \in Id \ Sample
  PROVE  Restored(i)
<1> DEFINE V == ingest_log \cap Version
<1>1. /\ up /\ up' /\ row' = Rebuilt /\ Committed \subseteq Collecting
      /\ ledger' = [j \in Id |-> Replayed(j)]
  BY DEF StoreWipe, Storing, stackVars
<1>2. Reflects(row', V) /\ Unpatched(row')
  <2>1. Reflects(Rebuilt, V) /\ Unpatched(Rebuilt)
    BY <1>1, RebuiltRows, WipeReplaysAll DEF IInv
  <2> QED  BY <1>1, <2>1
<1>3. Present(i)' <=> Present(i)
  BY <1>2 DEF Standing, Reflects, Present
<1>4. Present(i) => ~row'[i].patched
  BY <1>2, <1>3 DEF Unpatched, Present
<1>5. ASSUME Present(i), i \notin Event
      PROVE  row'[i].version = row[i].version
  <2>1. Latest(row, V, i) /\ Latest(row', V, i)
    BY <1>2, <1>3, <1>5 DEF Standing, Reflects, Present
  <2> QED  BY <1>5, <2>1, LatestIsUnique
<1>6. ledger[i] # None => ledger'[i] = ledger[i]
  BY <1>1, ReplayOf DEF IInv
<1>7. Marked(i) => mark'[i] = mark[i]
  <2>1. mark[i] = (IF Present(i) THEN ledger[i] ELSE None)
        /\ mark'[i] = (IF Present(i)' THEN ledger'[i] ELSE None)
    BY <1>1 DEF IInv, Agreement
  <2> QED  BY <1>3, <1>6, <2>1 DEF Marked
<1> QED  BY <1>3, <1>4, <1>5, <1>6, <1>7 DEF Restored

THEOREM RowsStand == Spec => []Standing
<1>1. IInv /\ Stocked /\ NoSampleByDefault /\ Standing /\ [Next]_vars => Standing'
  BY NextStanding
<1> QED  BY <1>1, InitStanding, InvariantHolds, RowsAreKept, PTL DEF Spec

\* apply_retraction, "a rebuild must restore state, never revise it": a
\* user_data.wipe brings back the rows that were there, of each place and fact
\* the version it had, every mark and ledger entry, and no patch.
THEOREM WipesRestore == Spec => RebuildRestores
<1>1. IInv /\ IInv' /\ Standing /\ [Next]_vars =>
        [(\E w \in Wipe : w \in ingest_log' \ ingest_log) =>
           \A i \in Id \ Sample : Restored(i)]_vars
  BY WipeIsStored, WipeRestores
<1>2. [(\E w \in Wipe : w \in ingest_log' \ ingest_log) =>
         \A i \in Id \ Sample : Restored(i)]_vars
      <=> [(\E w \in Wipe : w \in ingest_log' \ ingest_log) =>
             \A i \in Id \ Sample :
               /\ Present(i)' <=> Present(i)
               /\ Present(i) => ~row'[i].patched
               /\ Present(i) /\ i \notin Event => row'[i].version = row[i].version
               /\ Marked(i) => mark'[i] = mark[i]
               /\ ledger[i] # None => ledger'[i] = ledger[i]]_vars
  BY DEF Restored
<1> QED  BY <1>1, <1>2, InvariantHolds, RowsStand, PTL DEF Spec, RebuildRestores
==========================================================================
