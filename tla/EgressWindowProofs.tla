------------------------- MODULE EgressWindowProofs -------------------------
(***************************************************************************)
(* What holds of the egress window for any number of commands, whatever    *)
(* their kinds, and any number of faults, kills and restarts.              *)
(***************************************************************************)
EXTENDS EgressWindow, TLAPS

-----------------------------------------------------------------------------
(***************************************************************************)
(* Type correctness.                                                       *)
(***************************************************************************)

\* Every command names one of the two networks.
LEMMA NetworkType == \A r \in Run : Network(r) \in Networks
  BY DEF Network, Networks

\* The clean-up leaves every variable it touches in its type.
LEMMA AfterCloseType ==
  ASSUME NEW r \in Run, NEW failed \in BOOLEAN, TypeOK, AfterClose(r, failed)
  PROVE  pc' \in [Run -> Steps] /\ rc' \in [Run -> 0 .. 4]
  BY DEF AfterClose, Ends, Goto, TypeOK, Steps

\* A guard stays a guard, at any deadline.
LEMMA GuardToType ==
  ASSUME NEW r \in Run, NEW phase \in Phases, TypeOK, GuardTo(r, phase)
  PROVE  guard' \in [Run -> Guards]
  <1>1. GuardIn(phase) \in Guards
    BY WindowAssumption DEF GuardIn, Guards
  <1> QED BY <1>1 DEF GuardTo, TypeOK

\* So does a guard that polled.
LEMMA PollType ==
  ASSUME NEW r \in Run, TypeOK
  PROVE  Poll(r) \in Guards
  <1>1. guard[r] \in Guards /\ guard[r].elapsed \in 0 .. Deadline
                            /\ guard[r].waited \in 0 .. Appear
    BY DEF TypeOK, Guards
  <1>2. \A p \in Phases : GuardIn(p) \in Guards
    BY WindowAssumption DEF GuardIn, Guards
  <1>3. ASSUME NEW e \in 0 .. Deadline PROVE Watch(r, e) \in Guards
    <2>1. GuardIn("done") \in Guards /\ GuardIn("due") \in Guards
      BY <1>2 DEF Phases
    <2>2. ASSUME e + 1 < Deadline
          PROVE  [GuardIn("watch") EXCEPT !.elapsed = e + 1] \in Guards
      <3>1. [GuardIn("watch") EXCEPT !.elapsed = e + 1]
              = [phase |-> "watch", waited |-> 0, elapsed |-> e + 1]
        BY DEF GuardIn
      <3>2. e + 1 \in 0 .. Deadline /\ 0 \in 0 .. Appear /\ "watch" \in Phases
        BY <2>2, WindowAssumption DEF Phases
      <3> QED BY <3>1, <3>2 DEF Guards
    <2> QED BY <2>1, <2>2 DEF Watch
  <1>4. Look(r) \in Guards
    <2>1. Watch(r, 0) \in Guards
      BY <1>3, WindowAssumption
    <2>2. GuardIn("done") \in Guards
      BY <1>2 DEF Phases
    <2>3. ASSUME guard[r].waited < Appear
          PROVE  [guard[r] EXCEPT !.waited = @ + 1] \in Guards
      <3>1. guard[r].waited + 1 \in 0 .. Appear
        BY <1>1, <2>3, WindowAssumption
      <3> QED BY <1>1, <3>1 DEF Guards
    <2> QED BY <2>1, <2>2, <2>3 DEF Look
  <1> QED BY <1>1, <1>3, <1>4 DEF Poll

\* A last look is remembered for the command that took it.
LEMMA OverlooksType ==
  ASSUME NEW r \in Run, NEW unseen \in BOOLEAN, TypeOK, Overlooks(r, unseen)
  PROVE  /\ overlooked' \in [Run -> BOOLEAN]
         /\ overlooked'[r] = unseen
         /\ \A q \in Run \ {r} : overlooked'[q] = overlooked[q]
  BY Zenon DEF Overlooks, TypeOK

LEMMA TypeInit == Init => TypeOK
  <1> SUFFICES ASSUME Init PROVE TypeOK OBVIOUS
  <1>1. GuardIn("none") \in Guards
    BY WindowAssumption DEF GuardIn, Guards, Phases
  <1>2. 0 \in 0 .. TooOld
    BY WindowAssumption DEF TooOld
  <1>3. kind \in [Run -> Kinds]
    BY WindowAssumption DEF Init
  <1> QED BY <1>1, <1>2, <1>3, WindowAssumption DEF Init, TypeOK, Steps, Fetches

\* The counters of mishaps stay within their bound.
LEMMA MishapType ==
  ASSUME TypeOK,
         \/ UNCHANGED limitVars
         \/ Fault /\ UNCHANGED <<kills, reboots>>
         \/ Mishap /\ kills' = kills + 1 /\ UNCHANGED <<faults, reboots>>
         \/ Mishap /\ reboots' = reboots + 1 /\ UNCHANGED <<faults, kills>>
  PROVE  /\ faults' \in Nat /\ kills' \in Nat /\ reboots' \in Nat
         /\ faults' + kills' + reboots' <= MaxMishaps
  BY WindowAssumption DEF TypeOK, limitVars, Fault, Mishap

LEMMA TypeNext == TypeOK /\ [Next]_vars => TypeOK'
  <1> SUFFICES ASSUME TypeOK, [Next]_vars PROVE TypeOK' OBVIOUS
  <1> USE NetworkType
  <1>0. CASE UNCHANGED vars
    BY <1>0 DEF vars, commandVars, windowVars, limitVars, TypeOK
  <1>1. CASE Tick
    <2>1. guard' \in [Run -> Guards]
      BY <1>1, PollType DEF Tick
    <2>2. age' \in [Networks -> 0 .. TooOld]
      BY <1>1, WindowAssumption DEF Tick, TypeOK, TooOld
    <2> QED BY <1>1, <2>1, <2>2 DEF Tick, TypeOK, commandVars, limitVars
  <1>2. CASE Reboot
    <2>1. guard' \in [Run -> Guards]
      <3>1. GuardIn("done") \in Guards
        BY WindowAssumption DEF GuardIn, Guards, Phases
      <3> QED BY <1>2, <3>1 DEF Reboot, TypeOK
    <2>2. /\ pc' \in [Run -> Steps] /\ rc' \in [Run -> 0 .. 4]
          /\ persist' \in [Run -> BOOLEAN]
      BY <1>2 DEF Reboot, TypeOK, Steps
    <2>3. /\ cleanupFailed' \in [Run -> BOOLEAN] /\ fetched' \in [Run -> Fetches]
          /\ counted' \in [Run -> BOOLEAN] /\ stored' \in [Run -> {"zero", "some", "all"}]
      BY <1>2 DEF Reboot, Fetches
    <2> QED BY <1>2, <2>1, <2>2, <2>3, MishapType DEF Reboot, TypeOK, windowVars
  <1>3. ASSUME NEW r \in Run, Command(r) PROVE TypeOK'
    <2>1. CASE Start(r)
      <3>1. pc' \in [Run -> Steps] /\ rc' \in [Run -> 0 .. 4]
        BY <2>1 DEF Start, Ends, Goto, TypeOK, Steps
      <3>2. persist' \in [Run -> BOOLEAN]
        <4>1. \/ UNCHANGED persist
              \/ persist' = [persist EXCEPT ![r] = @ /\ kind[r] # "check"]
          BY <2>1 DEF Start
        <4> QED BY <4>1, Zenon DEF TypeOK
      <3> QED BY <2>1, <3>1, <3>2 DEF Start, TypeOK, windowVars, limitVars
    <2>2. CASE Open(r)
      BY <2>2 DEF Open, Goto, TypeOK, Steps, limitVars
    <2>3. CASE StartGuard(r)
      <3>1. GuardIn("appear") \in Guards
        BY WindowAssumption DEF GuardIn, Guards, Phases
      <3>2. guard' \in [Run -> Guards]
        BY <2>3, <3>1 DEF StartGuard, TypeOK
      <3>3. pc' \in [Run -> Steps]
        BY <2>3 DEF StartGuard, Goto, TypeOK, Steps
      <3>4. faults' \in Nat /\ faults' + kills' + reboots' <= MaxMishaps
        BY <2>3, WindowAssumption DEF StartGuard, Fault, Mishap, TypeOK
      <3> QED BY <2>3, <3>2, <3>3, <3>4 DEF StartGuard, TypeOK, windowVars
    <2>4. CASE Connect(r)
      BY <2>4 DEF Connect, Ends, Goto, TypeOK, Steps, limitVars
    <2>5. CASE Fetch(r)
      BY <2>5 DEF Fetch, Goto, TypeOK, Steps, windowVars, limitVars
    <2>6. CASE Detach(r)
      <3>1. pc' \in [Run -> Steps] /\ rc' \in [Run -> 0 .. 4]
        BY <2>6, AfterCloseType DEF Detach, Goto, TypeOK, Steps
      <3>2. route' \in SUBSET net' /\ age' \in [Networks -> 0 .. TooOld]
        <4>1. UNCHANGED <<route, age>> \/ Disconnect(r)
          BY <2>6 DEF Detach
        <4>2. net' = net
          BY <2>6 DEF Detach
        <4> QED BY <4>1, <4>2, WindowAssumption DEF Disconnect, TypeOK, TooOld
      <3>3. UNCHANGED faults \/ Fault
        BY <2>6 DEF Detach
      <3>4. UNCHANGED <<kills, reboots>>
        BY <2>6 DEF Detach
      <3>5. faults' \in Nat /\ faults' + kills' + reboots' <= MaxMishaps
        BY <3>3, <3>4, MishapType DEF limitVars
      <3>6. overlooked' \in [Run -> BOOLEAN]
        <4>1. Overlooks(r, FALSE)
          BY <2>6 DEF Detach
        <4> QED BY <4>1, OverlooksType
      <3>7. cleanupFailed' \in [Run -> BOOLEAN]
        <4>1. UNCHANGED cleanupFailed \/ cleanupFailed' = [cleanupFailed EXCEPT ![r] = TRUE]
          BY <2>6 DEF Detach
        <4> QED BY <4>1, Zenon DEF TypeOK
      <3> QED BY <2>6, <3>1, <3>2, <3>4, <3>5, <3>6, <3>7 DEF Detach, TypeOK
    <2>7. CASE Remove(r)
      <3>1. pc' \in [Run -> Steps] /\ rc' \in [Run -> 0 .. 4]
        BY <2>7, AfterCloseType DEF Remove, TypeOK
      <3>2. net' \in SUBSET Networks /\ route' \in SUBSET net'
        BY <2>7 DEF Remove, TypeOK
      <3>3. UNCHANGED faults \/ Fault
        BY <2>7 DEF Remove
      <3>4. UNCHANGED <<kills, reboots>>
        BY <2>7 DEF Remove
      <3>5. faults' \in Nat /\ faults' + kills' + reboots' <= MaxMishaps
        BY <3>3, <3>4, MishapType DEF limitVars
      <3>6. overlooked' \in [Run -> BOOLEAN]
        <4>1. Overlooks(r, FALSE) \/ Overlooks(r, TRUE)
          BY <2>7 DEF Remove
        <4> QED BY <4>1, OverlooksType
      <3>7. cleanupFailed' \in [Run -> BOOLEAN]
        <4>1. UNCHANGED cleanupFailed \/ cleanupFailed' = [cleanupFailed EXCEPT ![r] = TRUE]
          BY <2>7 DEF Remove
        <4> QED BY <4>1, Zenon DEF TypeOK
      <3> QED BY <2>7, <3>1, <3>2, <3>4, <3>5, <3>6, <3>7 DEF Remove, TypeOK
    <2>8. CASE Verdict(r)
      BY <2>8 DEF Verdict, Ends, Goto, TypeOK, Steps, windowVars, limitVars
    <2>9. CASE Abort(r)
      <3>1. pc' \in [Run -> Steps] /\ rc' \in [Run -> 0 .. 4]
        BY <2>9 DEF Abort, Ends, Goto, TypeOK, Steps
      <3>2. counted' \in [Run -> BOOLEAN]
        <4>1. UNCHANGED counted \/ counted' = [counted EXCEPT ![r] = TRUE]
          BY <2>9 DEF Abort
        <4> QED BY <4>1, Zenon DEF TypeOK
      <3> QED BY <2>9, <3>1, <3>2 DEF Abort, TypeOK, windowVars, limitVars
    <2>10. CASE TrapFindsNothing(r)
      <3>1. pc' \in [Run -> Steps]
        BY <2>10 DEF TrapFindsNothing, Goto, TypeOK, Steps
      <3>2. overlooked' \in [Run -> BOOLEAN]
        <4>1. Overlooks(r, FALSE) \/ Overlooks(r, TRUE)
          BY <2>10 DEF TrapFindsNothing
        <4> QED BY <4>1, OverlooksType
      <3>3. (UNCHANGED faults \/ Fault) /\ UNCHANGED <<kills, reboots>>
        BY <2>10 DEF TrapFindsNothing
      <3>4. faults' \in Nat /\ faults' + kills' + reboots' <= MaxMishaps
        BY <3>3, MishapType DEF limitVars
      <3> QED BY <2>10, <3>1, <3>2, <3>3, <3>4 DEF TrapFindsNothing, TypeOK, windowVars
    <2>11. CASE File(r)
      <3>1. kind[r] \in Kinds /\ fetched[r] \in Fetches /\ Outcome(r) \in Outcomes
        BY DEF TypeOK, Outcome, Outcomes
      <3>2. report' \in {None} \cup [kind : Kinds, outcome : Outcomes, cities : Fetches]
        BY <2>11, <3>1 DEF File, TypeOK
      <3>3. pc' \in [Run -> Steps] /\ rc' \in [Run -> 0 .. 4]
        BY <2>11 DEF File, Goto, TypeOK, Steps
      <3> QED BY <2>11, <3>2, <3>3
              DEF File, Forget, TypeOK, windowVars, limitVars, Fetches
    <2>12. CASE Kill(r)
      <3>1. pc' \in [Run -> Steps] /\ rc' \in [Run -> 0 .. 4]
        BY <2>12 DEF Kill, Goto, TypeOK, Steps
      <3>2. kills' \in Nat /\ faults' + kills' + reboots' <= MaxMishaps
        BY <2>12, WindowAssumption DEF Kill, Mishap, TypeOK
      <3> QED BY <2>12, <3>1, <3>2 DEF Kill, Forget, TypeOK, windowVars, Fetches
    <2> QED BY <1>3, <2>1, <2>2, <2>3, <2>4, <2>5, <2>6, <2>7, <2>8, <2>9, <2>10, <2>11, <2>12
            DEF Command
  <1>4. ASSUME NEW r \in Run, Guard(r) PROVE TypeOK'
    <2>1. CASE GuardDetaches(r)
      <3>1. guard' \in [Run -> Guards]
        BY <2>1, GuardToType DEF GuardDetaches, Phases
      <3>2. route' \in SUBSET net' /\ age' \in [Networks -> 0 .. TooOld]
        BY <2>1, WindowAssumption DEF GuardDetaches, Disconnect, TypeOK, TooOld
      <3>3. UNCHANGED faults \/ Fault
        BY <2>1 DEF GuardDetaches
      <3>4. UNCHANGED <<kills, reboots>>
        BY <2>1 DEF GuardDetaches
      <3>5. faults' \in Nat /\ faults' + kills' + reboots' <= MaxMishaps
        BY <3>3, <3>4, MishapType DEF limitVars
      <3> QED BY <2>1, <3>1, <3>2, <3>4, <3>5 DEF GuardDetaches, TypeOK, commandVars
    <2>2. CASE GuardRemoves(r)
      <3>1. guard' \in [Run -> Guards]
        BY <2>2, GuardToType DEF GuardRemoves, Phases
      <3>2. net' \in SUBSET Networks /\ route' \in SUBSET net'
        BY <2>2 DEF GuardRemoves, TypeOK
      <3>3. UNCHANGED faults \/ Fault
        BY <2>2 DEF GuardRemoves
      <3>4. UNCHANGED <<kills, reboots>>
        BY <2>2 DEF GuardRemoves
      <3>5. faults' \in Nat /\ faults' + kills' + reboots' <= MaxMishaps
        BY <3>3, <3>4, MishapType DEF limitVars
      <3> QED BY <2>2, <3>1, <3>2, <3>4, <3>5 DEF GuardRemoves, TypeOK, commandVars
    <2> QED BY <1>4, <2>1, <2>2 DEF Guard
  <1>5. ASSUME NEW r \in Run, GuardLosesSight(r) PROVE TypeOK'
    <2>1. guard' \in [Run -> Guards]
      <3>1. CASE guard[r].waited < Appear /\ guard' = [guard EXCEPT ![r].waited = @ + 1]
        <4>1. guard[r] \in Guards /\ guard[r].waited \in 0 .. Appear
          BY DEF TypeOK, Guards
        <4>2. guard[r].waited + 1 \in 0 .. Appear
          BY <3>1, <4>1, WindowAssumption
        <4>3. [guard[r] EXCEPT !.waited = @ + 1] \in Guards
          BY <4>1, <4>2 DEF Guards
        <4> QED BY <3>1, <4>3 DEF TypeOK
      <3>2. CASE GuardTo(r, "done")
        BY <3>2, GuardToType DEF Phases
      <3> QED BY <1>5, <3>1, <3>2 DEF GuardLosesSight
    <2>2. Fault /\ UNCHANGED <<kills, reboots>>
      BY <1>5 DEF GuardLosesSight
    <2>3. faults' \in Nat /\ faults' + kills' + reboots' <= MaxMishaps
      BY <2>2, MishapType
    <2> QED BY <1>5, <2>1, <2>2, <2>3 DEF GuardLosesSight, TypeOK, commandVars, windowVars
  <1> QED BY <1>0, <1>1, <1>2, <1>3, <1>4, <1>5 DEF Next

\* Every variable keeps its type, however many commands there are.
THEOREM TypeCorrect == Spec => []TypeOK
  BY TypeInit, TypeNext, PTL DEF Spec

-----------------------------------------------------------------------------
(***************************************************************************)
(* What a command knows at its ends: nothing before it starts and nothing  *)
(* after it ended; and on its way out with status 0, all of a refresh.     *)
(***************************************************************************)
CleanEnds ==
  \A r \in Run : pc[r] \in {"start", "exited", "killed"} => ~cleanupFailed[r]

\* A command that has not come to its guard has none.
NoGuardYet == \A r \in Run : pc[r] \in {"start", "open", "guard"} => guard[r].phase = "none"

Whole(r) == fetched[r] = "all" /\ counted[r] /\ stored[r] # "zero"

LeavesWhole ==
  \A r \in Run :
    pc[r] \in {"trap", "trapRemove", "file"} /\ rc[r] = 0 /\ kind[r] = "refresh" => Whole(r)

\* Where close_egress leads.
LEMMA AfterCloseStep ==
  ASSUME NEW r \in Run, NEW failed \in BOOLEAN, TypeOK, AfterClose(r, failed)
  PROVE  \/ /\ pc[r] \in {"trap", "trapRemove"}
            /\ pc' = [pc EXCEPT ![r] = "file"] /\ rc' = rc
         \/ /\ pc[r] \notin {"trap", "trapRemove"}
            /\ pc' = [pc EXCEPT ![r] = "trap"]
            /\ \E code \in 0 .. 2 : /\ rc' = [rc EXCEPT ![r] = code]
                                   /\ code = 0 => kind[r] = "check"
         \/ /\ pc[r] \notin {"trap", "trapRemove"}
            /\ pc' = [pc EXCEPT ![r] = "verdict"] /\ rc' = rc
  BY DEF AfterClose, Ends, Goto, TypeOK

\* close_egress moves the run it belongs to and no other.
LEMMA AfterCloseOthers ==
  ASSUME NEW q \in Run, NEW failed \in BOOLEAN, TypeOK, AfterClose(q, failed)
  PROVE  \A r \in Run \ {q} : pc'[r] = pc[r] /\ rc'[r] = rc[r]
  <1>1. /\ \E s \in Steps : pc' = [pc EXCEPT ![q] = s]
        /\ rc' = rc \/ \E code \in 0 .. 2 : rc' = [rc EXCEPT ![q] = code]
    BY DEF AfterClose, Ends, Goto, Steps, TypeOK
  <1> QED BY <1>1 DEF TypeOK

\* It gives status 0 to no refresh that had none.
LEMMA AfterCloseWhole ==
  ASSUME NEW q \in Run, NEW failed \in BOOLEAN, TypeOK, LeavesWhole, AfterClose(q, failed),
         UNCHANGED <<fetched, counted, stored>>, kind[q] = "refresh",
         pc'[q] \in {"trap", "trapRemove", "file"}, rc'[q] = 0
  PROVE  Whole(q)'
  <1> DEFINE Filed == /\ pc[q] \in {"trap", "trapRemove"} /\ rc' = rc
             Stopped == \E code \in 0 .. 2 : /\ rc' = [rc EXCEPT ![q] = code]
                                             /\ code = 0 => kind[q] = "check"
             Judged == pc' = [pc EXCEPT ![q] = "verdict"]
  <1>1. Filed \/ Stopped \/ Judged
    BY DEF AfterClose, Ends, Goto, TypeOK
  <1>2. ~ Stopped /\ ~ Judged
    BY DEF TypeOK
  <1>3. Filed
    BY <1>1, <1>2
  <1> QED BY <1>3 DEF LeavesWhole, Whole

\* A step of one command is the step of no other.
LEMMA OthersStay ==
  ASSUME NEW q \in Run, TypeOK, Command(q)
  PROVE  /\ kind' = kind
         /\ \A r \in Run \ {q} :
              /\ pc'[r] = pc[r] /\ rc'[r] = rc[r] /\ cleanupFailed'[r] = cleanupFailed[r]
              /\ fetched'[r] = fetched[r] /\ counted'[r] = counted[r]
              /\ stored'[r] = stored[r] /\ guard'[r] = guard[r]
              /\ overlooked'[r] = overlooked[r]
  <1>1. CASE Start(q)
    BY <1>1 DEF Start, Ends, Goto, TypeOK
  <1>2. CASE Open(q)
    BY <1>2 DEF Open, Goto, TypeOK
  <1>3. CASE StartGuard(q)
    BY <1>3 DEF StartGuard, Goto, TypeOK
  <1>4. CASE Connect(q)
    BY <1>4 DEF Connect, Ends, Goto, TypeOK
  <1>5. CASE Fetch(q)
    BY <1>5 DEF Fetch, Goto, TypeOK
  <1>6. CASE Detach(q)
    <2>1. \/ AfterClose(q, TRUE)
          \/ rc' = rc /\ \E s \in Steps : pc' = [pc EXCEPT ![q] = s]
      BY <1>6 DEF Detach, Goto, Steps
    <2>2. \A r \in Run \ {q} : pc'[r] = pc[r] /\ rc'[r] = rc[r]
      <3>1. CASE AfterClose(q, TRUE)
        BY <3>1, AfterCloseOthers
      <3>2. CASE rc' = rc /\ \E s \in Steps : pc' = [pc EXCEPT ![q] = s]
        BY <3>2 DEF TypeOK
      <3> QED BY <2>1, <3>1, <3>2
    <2>4. \A r \in Run \ {q} : cleanupFailed'[r] = cleanupFailed[r]
      <3>1. cleanupFailed' = cleanupFailed \/ cleanupFailed' = [cleanupFailed EXCEPT ![q] = TRUE]
        BY <1>6 DEF Detach
      <3> QED BY <3>1, Zenon DEF TypeOK
    <2>5. UNCHANGED <<kind, fetched, counted, stored, guard>> /\ Overlooks(q, FALSE)
      BY <1>6 DEF Detach
    <2> QED BY <2>2, <2>4, <2>5, OverlooksType
  <1>7. CASE Remove(q)
    <2>1. cleanupFailed[q] \in BOOLEAN
      BY DEF TypeOK
    <2>2. AfterClose(q, TRUE) \/ AfterClose(q, cleanupFailed[q])
      BY <1>7 DEF Remove
    <2>3. \A r \in Run \ {q} : pc'[r] = pc[r] /\ rc'[r] = rc[r]
      BY <2>1, <2>2, AfterCloseOthers
    <2>4. \A r \in Run \ {q} : cleanupFailed'[r] = cleanupFailed[r]
      <3>1. cleanupFailed' = cleanupFailed \/ cleanupFailed' = [cleanupFailed EXCEPT ![q] = TRUE]
        BY <1>7 DEF Remove
      <3> QED BY <3>1, Zenon DEF TypeOK
    <2>5. /\ UNCHANGED <<kind, fetched, counted, stored, guard>>
          /\ Overlooks(q, FALSE) \/ Overlooks(q, TRUE)
      BY <1>7 DEF Remove
    <2> QED BY <2>3, <2>4, <2>5, OverlooksType
  <1>8. CASE Verdict(q)
    BY <1>8 DEF Verdict, Ends, Goto, TypeOK
  <1>9. CASE Abort(q)
    BY <1>9 DEF Abort, Ends, Goto, TypeOK
  <1>10. CASE TrapFindsNothing(q)
    <2>1. /\ UNCHANGED <<kind, rc, cleanupFailed, fetched, counted, stored, guard>>
          /\ Goto(q, "file")
          /\ Overlooks(q, FALSE) \/ Overlooks(q, TRUE)
      BY <1>10 DEF TrapFindsNothing, windowVars
    <2>2. \A r \in Run \ {q} : overlooked'[r] = overlooked[r]
      BY <2>1, OverlooksType
    <2> QED BY <2>1, <2>2 DEF Goto, TypeOK
  <1>11. CASE File(q)
    BY <1>11 DEF File, Forget, Goto, TypeOK
  <1>12. CASE Kill(q)
    BY <1>12 DEF Kill, Forget, Goto, TypeOK
  <1> QED BY <1>1, <1>2, <1>3, <1>4, <1>5, <1>6, <1>7, <1>8, <1>9, <1>10, <1>11, <1>12
          DEF Command

\* A guard's step leaves the commands as they are.
LEMMA GuardStay ==
  ASSUME NEW q \in Run, TypeOK, Guard(q)
  PROVE  /\ UNCHANGED commandVars
         /\ \A r \in Run \ {q} : guard'[r] = guard[r]
         /\ guard[q].phase \in {"due", "remove"}
         /\ guard'[q].phase \in {"remove", "done", "failed"}
  <1>1. CASE GuardDetaches(q)
    BY <1>1 DEF GuardDetaches, GuardTo, GuardIn, TypeOK
  <1>2. CASE GuardRemoves(q)
    BY <1>2 DEF GuardRemoves, GuardTo, GuardIn, TypeOK
  <1> QED BY <1>1, <1>2 DEF Guard

\* A guard that docker does not answer leaves the window as it is, and has started.
LEMMA LostStay ==
  ASSUME NEW q \in Run, TypeOK, GuardLosesSight(q)
  PROVE  /\ UNCHANGED <<commandVars, windowVars>>
         /\ \A r \in Run \ {q} : guard'[r] = guard[r]
         /\ guard[q].phase \in {"appear", "watch", "due"}
         /\ guard'[q].phase \in {"appear", "done"}
         /\ guard'[q].phase = "appear" => guard[q].phase = "appear"
         /\ faults' = faults + 1
  BY DEF GuardLosesSight, GuardTo, GuardIn, Fault, TypeOK, Guards

-----------------------------------------------------------------------------
(***************************************************************************)
(* The invariants, each inductive with the ones before it.                 *)
(***************************************************************************)
LEMMA CleanEndsNext == TypeOK /\ CleanEnds /\ [Next]_vars => CleanEnds'
  <1> SUFFICES ASSUME TypeOK, CleanEnds, [Next]_vars PROVE CleanEnds' OBVIOUS
  <1>0. CASE UNCHANGED vars
    BY <1>0 DEF vars, commandVars, CleanEnds
  <1>1. CASE Tick
    BY <1>1 DEF Tick, commandVars, CleanEnds
  <1>2. CASE Reboot
    BY <1>2 DEF Reboot, CleanEnds
  <1>3. ASSUME NEW q \in Run, Command(q) PROVE CleanEnds'
    <2> SUFFICES pc'[q] \in {"start", "exited", "killed"} => ~cleanupFailed'[q]
      BY <1>3, OthersStay DEF CleanEnds
    <2> HAVE pc'[q] \in {"start", "exited", "killed"}
    <2>1. CASE Start(q)
      BY <2>1 DEF Start, CleanEnds
    <2>2. CASE File(q) \/ Kill(q)
      BY <2>2 DEF File, Kill, Forget, TypeOK
    <2>3. CASE Open(q) \/ StartGuard(q) \/ Connect(q) \/ Fetch(q) \/ Verdict(q) \/ Abort(q)
               \/ TrapFindsNothing(q)
      BY <2>3 DEF Open, StartGuard, Connect, Fetch, Verdict, Abort, TrapFindsNothing, Ends,
                  Goto, TypeOK
    <2>4. CASE Detach(q)
      <3>1. AfterClose(q, TRUE) \/ Goto(q, "remove") \/ Goto(q, "trapRemove")
        BY <2>4 DEF Detach
      <3> QED BY <3>1, AfterCloseStep DEF Goto, TypeOK
    <2>5. CASE Remove(q)
      <3>1. cleanupFailed[q] \in BOOLEAN
        BY DEF TypeOK
      <3>2. AfterClose(q, TRUE) \/ AfterClose(q, cleanupFailed[q])
        BY <2>5 DEF Remove
      <3> QED BY <3>1, <3>2, AfterCloseStep DEF TypeOK
    <2> QED BY <1>3, <2>1, <2>2, <2>3, <2>4, <2>5 DEF Command
  <1>4. ASSUME NEW q \in Run, Guard(q) PROVE CleanEnds'
    BY <1>4, GuardStay DEF CleanEnds, commandVars
  <1>5. ASSUME NEW q \in Run, GuardLosesSight(q) PROVE CleanEnds'
    BY <1>5, LostStay DEF CleanEnds, commandVars
  <1> QED BY <1>0, <1>1, <1>2, <1>3, <1>4, <1>5 DEF Next

LEMMA LeftOpenNext ==
  TypeOK /\ CleanEnds /\ LeftOpenOnlyByAKill /\ [Next]_vars => LeftOpenOnlyByAKill'
  <1> SUFFICES ASSUME TypeOK, CleanEnds, LeftOpenOnlyByAKill, [Next]_vars,
                      NEW n \in net'
               PROVE  \E r \in Run : Network(r)' = n /\ AnswersFor(r)'
    BY DEF LeftOpenOnlyByAKill
  <1>0. CASE UNCHANGED vars
    BY <1>0 DEF vars, commandVars, windowVars, LeftOpenOnlyByAKill, AnswersFor, Network
  <1>1. CASE Tick
    BY <1>1 DEF Tick, commandVars, LeftOpenOnlyByAKill, AnswersFor, Network
  <1>2. CASE Reboot
    <2>1. n \in net /\ kind' = kind
      BY <1>2 DEF Reboot, windowVars
    <2>2. PICK r \in Run : Network(r) = n /\ AnswersFor(r)
      BY <2>1 DEF LeftOpenOnlyByAKill
    <2>3. AnswersFor(r)'
      BY <1>2, <2>2 DEF Reboot, AnswersFor, Holding, CleanEnds
    <2> QED BY <2>1, <2>2, <2>3 DEF Network
  <1>3. ASSUME NEW q \in Run, Command(q)
        PROVE  \E r \in Run : Network(r)' = n /\ AnswersFor(r)'
    <2>1. \A r \in Run : Network(r)' = Network(r)
      BY <1>3, OthersStay DEF Network
    <2>2. ASSUME NEW r \in Run \ {q}, AnswersFor(r) PROVE AnswersFor(r)'
      BY <1>3, <2>2, OthersStay DEF AnswersFor
    <2>3. CASE Open(q)
      <3>1. AnswersFor(q)'
        BY <2>3 DEF Open, Goto, AnswersFor, Holding, TypeOK
      <3>2. n \in net \/ n = Network(q)
        BY <2>3 DEF Open
      <3> QED BY <2>1, <2>2, <3>1, <3>2 DEF LeftOpenOnlyByAKill
    <2>4. CASE ~Open(q)
      <3>1. n \in net
        BY <1>3, <2>4 DEF Command, Start, StartGuard, Connect, Fetch, Detach, Remove, Verdict,
                       Abort, TrapFindsNothing, File, Kill, windowVars
      <3>2. PICK r \in Run : Network(r) = n /\ AnswersFor(r)
        BY <3>1 DEF LeftOpenOnlyByAKill
      <3> SUFFICES ASSUME r = q PROVE AnswersFor(q)'
        BY <2>1, <2>2, <3>2
      <3>3. CASE Start(q)
        BY <2>1, <3>2, <3>3 DEF Start, AnswersFor, CleanEnds, Holding
      <3>4. CASE StartGuard(q) \/ Connect(q) \/ Fetch(q) \/ Verdict(q) \/ Abort(q) \/ Kill(q)
        BY <3>4 DEF StartGuard, Connect, Fetch, Verdict, Abort, Kill, Ends, Goto, AnswersFor,
                    Holding, TypeOK
      <3>5. CASE Detach(q)
        <4>1. \/ cleanupFailed' = [cleanupFailed EXCEPT ![q] = TRUE]
              \/ Goto(q, "remove") \/ Goto(q, "trapRemove")
          BY <3>5 DEF Detach
        <4> QED BY <4>1 DEF Goto, AnswersFor, Holding, TypeOK
      <3>6. CASE Remove(q)
        <4>1. \/ cleanupFailed' = [cleanupFailed EXCEPT ![q] = TRUE]
              \/ net' = net \ {Network(q)}
              \/ Overlooks(q, TRUE)
          BY <3>6 DEF Remove
        <4> QED BY <2>1, <3>2, <4>1, OverlooksType DEF AnswersFor, TypeOK
      <3>7. CASE TrapFindsNothing(q)
        <4>1. Overlooks(q, TRUE)
          BY <2>1, <3>1, <3>2, <3>7 DEF TrapFindsNothing
        <4> QED BY <4>1, OverlooksType DEF AnswersFor
      <3>8. CASE File(q)
        BY <3>2, <3>8 DEF File, Goto, AnswersFor, Holding, TypeOK
      <3> QED BY <1>3, <2>4, <3>3, <3>4, <3>5, <3>6, <3>7, <3>8 DEF Command
    <2> QED BY <2>3, <2>4
  <1>4. ASSUME NEW q \in Run, Guard(q)
        PROVE  \E r \in Run : Network(r)' = n /\ AnswersFor(r)'
    <2>1. n \in net
      BY <1>4 DEF Guard, GuardDetaches, GuardRemoves
    <2> QED BY <1>4, <2>1, GuardStay DEF LeftOpenOnlyByAKill, AnswersFor, Network, commandVars
  <1>5. ASSUME NEW q \in Run, GuardLosesSight(q)
        PROVE  \E r \in Run : Network(r)' = n /\ AnswersFor(r)'
    BY <1>5, LostStay
       DEF LeftOpenOnlyByAKill, AnswersFor, Network, commandVars, windowVars
  <1> QED BY <1>0, <1>1, <1>2, <1>3, <1>4, <1>5 DEF Next

\* An egress network that exists is a living command's to close, or that
\* command was killed, or it noticed that it could not close it, or docker did
\* not answer the last time it looked (refresh.sh:146-158): for any number of
\* overlapping commands and any number of mishaps.
THEOREM NothingLeftOpen == Spec => []LeftOpenOnlyByAKill
  <1>1. Init => CleanEnds /\ LeftOpenOnlyByAKill
    BY DEF Init, CleanEnds, LeftOpenOnlyByAKill
  <1>2. TypeOK /\ CleanEnds /\ LeftOpenOnlyByAKill /\ [Next]_vars
          => CleanEnds' /\ LeftOpenOnlyByAKill'
    BY CleanEndsNext, LeftOpenNext
  <1> QED BY <1>1, <1>2, TypeCorrect, PTL DEF Spec

\* When every command ended by itself, none exited 3 and docker answered the last
\* look of each, no network is left.
THEOREM ExitStatusTrue == Spec => []ExitTellsTruth
  <1>1. Init => CleanEnds
    BY DEF Init, CleanEnds
  <1>2. CleanEnds /\ LeftOpenOnlyByAKill => ExitTellsTruth
    BY DEF CleanEnds, LeftOpenOnlyByAKill, AnswersFor, ExitTellsTruth, Holding
  <1> QED BY <1>1, <1>2, CleanEndsNext, NothingLeftOpen, TypeCorrect, PTL DEF Spec

-----------------------------------------------------------------------------
(***************************************************************************)
(* A fetch keeps its route.                                                *)
(***************************************************************************)
\* A command that took a step has started.
LEMMA CommandLeavesStart ==
  ASSUME NEW q \in Run, TypeOK, Command(q)
  PROVE  pc'[q] # "start"
  <1>1. CASE ~(Detach(q) \/ Remove(q))
    BY <1>1 DEF Command, Start, Open, StartGuard, Connect, Fetch, Verdict, Abort,
                TrapFindsNothing, File, Kill, Ends, Goto, TypeOK
  <1>2. CASE Detach(q)
    <2>1. AfterClose(q, TRUE) \/ Goto(q, "remove") \/ Goto(q, "trapRemove")
      BY <1>2 DEF Detach
    <2> QED BY <2>1, AfterCloseStep DEF Goto, TypeOK
  <1>3. CASE Remove(q)
    <2>1. cleanupFailed[q] \in BOOLEAN
      BY DEF TypeOK
    <2>2. AfterClose(q, TRUE) \/ AfterClose(q, cleanupFailed[q])
      BY <1>3 DEF Remove
    <2> QED BY <2>1, <2>2, AfterCloseStep DEF TypeOK
  <1> QED BY <1>1, <1>2, <1>3

LEMMA NoGuardYetNext == TypeOK /\ NoGuardYet /\ [Next]_vars => NoGuardYet'
  <1> SUFFICES ASSUME TypeOK, NoGuardYet, [Next]_vars PROVE NoGuardYet' OBVIOUS
  <1>0. CASE UNCHANGED vars
    BY <1>0 DEF vars, commandVars, NoGuardYet
  <1>1. CASE Tick
    BY <1>1 DEF Tick, Poll, commandVars, NoGuardYet
  <1>2. CASE Reboot
    BY <1>2 DEF Reboot, NoGuardYet, TypeOK
  <1>3. ASSUME NEW q \in Run, Command(q) PROVE NoGuardYet'
    <2>1. pc'[q] \in {"start", "open", "guard"}
            => pc[q] \in {"start", "open", "guard"} /\ guard'[q] = guard[q]
      <3>1. CASE Detach(q)
        <4>1. AfterClose(q, TRUE) \/ Goto(q, "remove") \/ Goto(q, "trapRemove")
          BY <3>1 DEF Detach
        <4> QED BY <4>1, AfterCloseStep DEF Goto, TypeOK
      <3>2. CASE Remove(q)
        <4>1. cleanupFailed[q] \in BOOLEAN
          BY DEF TypeOK
        <4>2. AfterClose(q, TRUE) \/ AfterClose(q, cleanupFailed[q])
          BY <3>2 DEF Remove
        <4> QED BY <4>1, <4>2, AfterCloseStep DEF TypeOK
      <3> QED BY <1>3, <3>1, <3>2
              DEF Command, Start, Open, StartGuard, Connect, Fetch, Verdict, Abort,
                  TrapFindsNothing, File, Kill, Ends, Goto, TypeOK
    <2> QED BY <1>3, <2>1, OthersStay DEF NoGuardYet
  <1>4. ASSUME NEW q \in Run, Guard(q) PROVE NoGuardYet'
    BY <1>4, GuardStay DEF NoGuardYet, commandVars
  <1>5. ASSUME NEW q \in Run, GuardLosesSight(q) PROVE NoGuardYet'
    BY <1>5, LostStay DEF NoGuardYet, commandVars
  <1> QED BY <1>0, <1>1, <1>2, <1>3, <1>4, <1>5 DEF Next

LEMMA FetchKeepsNext ==
  TypeOK /\ NoGuardYet /\ FetchKeepsItsRoute /\ [Next]_vars => FetchKeepsItsRoute'
  <1> SUFFICES ASSUME TypeOK, NoGuardYet, FetchKeepsItsRoute, [Next]_vars, NEW r \in Run,
                      pc'[r] = "fetch",
                      guard'[r].phase \notin {"remove", "done", "failed"},
                      Alone(r)'
               PROVE  Network(r)' \in route'
    BY DEF FetchKeepsItsRoute
  <1>a. pc[r] = "fetch" /\ guard[r].phase \notin {"remove", "done", "failed"} /\ Alone(r)
          => Network(r) \in route
    BY DEF FetchKeepsItsRoute
  <1>b. ASSUME NEW q \in Run, q # r, kind[q] = "recheck" <=> kind[r] # "recheck"
        PROVE  Network(q) # Network(r)
    BY <1>b DEF Network
  <1>0. CASE UNCHANGED vars
    BY <1>0, <1>a DEF vars, commandVars, windowVars, Alone, Network
  <1>1. CASE Tick
    <2>1. guard'[r] = Poll(r) /\ UNCHANGED <<kind, pc, route>>
      BY <1>1 DEF Tick, commandVars
    <2>2. guard[r].phase \notin {"remove", "done", "failed"}
      BY <2>1 DEF Poll
    <2> QED BY <1>a, <2>1, <2>2 DEF Alone, Network
  <1>2. CASE Reboot
    BY <1>2 DEF Reboot
  <1>3. ASSUME NEW q \in Run, Command(q) PROVE Network(r)' \in route'
    <2>1. Network(r)' = Network(r)
      BY <1>3, OthersStay DEF Network
    <2>2. CASE q = r
      <3>1. CASE Connect(q)
        BY <2>1, <2>2, <3>1 DEF Connect, Ends, Goto, TypeOK
      <3>2. CASE ~(Connect(q) \/ Detach(q) \/ Remove(q))
        BY <1>3, <2>2, <3>2 DEF Command, Start, Open, StartGuard, Fetch, Verdict, Abort,
                       TrapFindsNothing, File, Kill, Ends, Goto, TypeOK
      <3>3. CASE Detach(q)
        <4>1. AfterClose(q, TRUE) \/ Goto(q, "remove") \/ Goto(q, "trapRemove")
          BY <3>3 DEF Detach
        <4> QED BY <2>2, <4>1, AfterCloseStep DEF Goto, TypeOK
      <3>4. CASE Remove(q)
        <4>1. cleanupFailed[q] \in BOOLEAN
          BY DEF TypeOK
        <4>2. AfterClose(q, TRUE) \/ AfterClose(q, cleanupFailed[q])
          BY <3>4 DEF Remove
        <4> QED BY <2>2, <4>1, <4>2, AfterCloseStep DEF TypeOK
      <3> QED BY <3>1, <3>2, <3>3, <3>4
    <2>3. CASE q # r
      <3>1. pc[r] = "fetch" /\ guard[r] = guard'[r]
        BY <1>3, <2>3, OthersStay
      <3>2. pc'[q] # "start"
        BY <1>3, CommandLeavesStart
      <3>3. kind[q] = "recheck" <=> kind[r] # "recheck"
        BY <1>3, <2>3, <3>2, OthersStay DEF Alone
      <3>4. Alone(r)
        BY <1>3, <3>3, OthersStay DEF Alone
      <3>5. Network(r) \in route /\ Network(q) # Network(r)
        BY <1>a, <1>b, <2>3, <3>1, <3>3, <3>4
      <3>6. route \ {Network(q)} \subseteq route'
        BY <1>3 DEF Command, Start, Open, StartGuard, Connect, Fetch, Detach, Disconnect, Remove,
                    Verdict, Abort, TrapFindsNothing, File, Kill, windowVars
      <3> QED BY <2>1, <3>5, <3>6
    <2> QED BY <2>2, <2>3
  <1>4. ASSUME NEW q \in Run, Guard(q) PROVE Network(r)' \in route'
    <2>1. kind' = kind /\ pc' = pc
      BY <1>4, GuardStay DEF commandVars
    <2>2. q # r
      BY <1>4, GuardStay
    <2>3. pc[q] # "start"
      BY <1>4, GuardStay DEF NoGuardYet
    <2>4. Alone(r) /\ (kind[q] = "recheck" <=> kind[r] # "recheck")
      BY <2>1, <2>2, <2>3 DEF Alone
    <2>5. Network(r) \in route /\ Network(q) # Network(r)
      BY <1>4, <1>a, <1>b, <2>1, <2>2, <2>4, GuardStay
    <2>6. route \ {Network(q)} \subseteq route'
      BY <1>4 DEF Guard, GuardDetaches, GuardRemoves, Disconnect
    <2> QED BY <2>1, <2>5, <2>6 DEF Network
  <1>5. ASSUME NEW q \in Run, GuardLosesSight(q) PROVE Network(r)' \in route'
    <2>1. UNCHANGED <<kind, pc, route>>
      BY <1>5, LostStay DEF commandVars, windowVars
    <2>2. guard[r].phase \notin {"remove", "done", "failed"}
      BY <1>5, LostStay
    <2> QED BY <1>a, <2>1, <2>2 DEF Alone, Network
  <1> QED BY <1>0, <1>1, <1>2, <1>3, <1>4, <1>5 DEF Next

\* A fetch loses its route only to its own deadline, whatever commands of the
\* other kind do meanwhile.
THEOREM RouteKept == Spec => []FetchKeepsItsRoute
  <1>1. Init => NoGuardYet /\ FetchKeepsItsRoute
    BY DEF Init, NoGuardYet, FetchKeepsItsRoute, GuardIn
  <1>2. TypeOK /\ NoGuardYet /\ FetchKeepsItsRoute /\ [Next]_vars
          => NoGuardYet' /\ FetchKeepsItsRoute'
    BY NoGuardYetNext, FetchKeepsNext
  <1> QED BY <1>1, <1>2, TypeCorrect, PTL DEF Spec

-----------------------------------------------------------------------------
(***************************************************************************)
(* Status 0 means a whole refresh.                                         *)
(***************************************************************************)
LEMMA LeavesWholeNext == TypeOK /\ LeavesWhole /\ [Next]_vars => LeavesWhole'
  <1> SUFFICES ASSUME TypeOK, LeavesWhole, [Next]_vars PROVE LeavesWhole' OBVIOUS
  <1>0. CASE UNCHANGED vars
    BY <1>0 DEF vars, commandVars, LeavesWhole, Whole
  <1>1. CASE Tick
    BY <1>1 DEF Tick, commandVars, LeavesWhole, Whole
  <1>2. CASE Reboot
    BY <1>2 DEF Reboot, LeavesWhole
  <1>3. ASSUME NEW q \in Run, Command(q) PROVE LeavesWhole'
    <2> SUFFICES ASSUME pc'[q] \in {"trap", "trapRemove", "file"}, rc'[q] = 0,
                        kind[q] = "refresh"
                 PROVE  Whole(q)'
      BY <1>3, OthersStay DEF LeavesWhole, Whole
    <2>1. CASE Verdict(q)
      BY <2>1 DEF Verdict, Ends, Goto, TypeOK, Whole
    <2>2. CASE Start(q) \/ Connect(q) \/ Abort(q)
      BY <2>2 DEF Start, Connect, Abort, Ends, Goto, TypeOK
    <2>3. CASE Open(q) \/ StartGuard(q) \/ Fetch(q) \/ File(q) \/ Kill(q)
      BY <2>3 DEF Open, StartGuard, Fetch, File, Kill, Goto, TypeOK
    <2>4. CASE TrapFindsNothing(q)
      BY <2>4 DEF TrapFindsNothing, LeavesWhole, Whole
    <2>5. CASE Detach(q)
      <3>1. UNCHANGED <<fetched, counted, stored>>
        BY <2>5 DEF Detach
      <3>2. \/ AfterClose(q, TRUE)
            \/ rc' = rc /\ pc[q] = "detach" /\ Goto(q, "remove")
            \/ rc' = rc /\ pc[q] = "trap"
        BY <2>5 DEF Detach, Goto
      <3>3. CASE AfterClose(q, TRUE)
        BY <3>1, <3>3, AfterCloseWhole
      <3>4. CASE rc' = rc /\ pc[q] = "detach" /\ Goto(q, "remove")
        BY <3>4 DEF Goto, TypeOK
      <3>5. CASE rc' = rc /\ pc[q] = "trap"
        BY <3>1, <3>5 DEF LeavesWhole, Whole
      <3> QED BY <3>2, <3>3, <3>4, <3>5
    <2>6. CASE Remove(q)
      <3>1. UNCHANGED <<fetched, counted, stored>>
        BY <2>6 DEF Remove
      <3>2. cleanupFailed[q] \in BOOLEAN
        BY DEF TypeOK
      <3>3. AfterClose(q, TRUE) \/ AfterClose(q, cleanupFailed[q])
        BY <2>6 DEF Remove
      <3> QED BY <3>1, <3>2, <3>3, AfterCloseWhole
    <2> QED BY <1>3, <2>1, <2>2, <2>3, <2>4, <2>5, <2>6 DEF Command
  <1>4. ASSUME NEW q \in Run, Guard(q) PROVE LeavesWhole'
    BY <1>4, GuardStay DEF LeavesWhole, Whole, commandVars
  <1>5. ASSUME NEW q \in Run, GuardLosesSight(q) PROVE LeavesWhole'
    BY <1>5, LostStay DEF LeavesWhole, Whole, commandVars
  <1> QED BY <1>0, <1>1, <1>2, <1>3, <1>4, <1>5 DEF Next

\* A refresh that exits 0 got every city, and the report it files says so.
THEOREM SuccessWhole == Spec => SuccessIsWhole
  <1>1. Init => LeavesWhole
    BY DEF Init, LeavesWhole
  <1>2. ASSUME TypeOK, LeavesWhole, [Next]_vars, NEW r \in Run,
               pc[r] = "file", pc'[r] = "exited", rc'[r] = 0, kind[r] = "refresh"
        PROVE  /\ fetched[r] = "all" /\ counted[r] /\ stored[r] # "zero"
               /\ report' # report => report'.outcome \in {"ok", "ok-with-rows-in-flight"}
    <2>1. File(r)
      <3>1. CASE UNCHANGED vars
        BY <1>2, <3>1 DEF vars, commandVars
      <3>2. CASE Tick
        BY <1>2, <3>2 DEF Tick, commandVars
      <3>3. CASE Reboot
        BY <1>2, <3>3 DEF Reboot
      <3>4. ASSUME NEW q \in Run, Command(q) PROVE File(r)
        <4>1. q = r
          BY <1>2, <3>4, OthersStay
        <4> QED BY <1>2, <3>4, <4>1 DEF Command, Start, Open, StartGuard, Connect, Fetch, Detach,
                    Remove, Verdict, Abort, TrapFindsNothing, Kill, Body, Goto, TypeOK
      <3>5. ASSUME NEW q \in Run, Guard(q) PROVE File(r)
        BY <1>2, <3>5, GuardStay DEF commandVars
      <3>6. ASSUME NEW q \in Run, GuardLosesSight(q) PROVE File(r)
        BY <1>2, <3>6, LostStay DEF commandVars
      <3> QED BY <1>2, <3>1, <3>2, <3>3, <3>4, <3>5, <3>6 DEF Next
    <2>2. ~cleanupFailed[r] /\ rc[r] = 0
      BY <1>2, <2>1 DEF File, TypeOK
    <2>3. Whole(r)
      BY <1>2, <2>2 DEF LeavesWhole
    <2>4. Outcome(r) \in {"ok", "ok-with-rows-in-flight"}
      BY <2>2, <2>3 DEF Outcome, Whole
    <2> QED BY <2>1, <2>3, <2>4 DEF File, Whole
  <1>3. TypeOK /\ LeavesWhole /\ [Next]_vars =>
          [\A r \in Run :
             pc[r] = "file" /\ pc'[r] = "exited" /\ rc'[r] = 0 /\ kind[r] = "refresh" =>
               /\ fetched[r] = "all" /\ counted[r] /\ stored[r] # "zero"
               /\ report' # report => report'.outcome \in {"ok", "ok-with-rows-in-flight"}]_vars
    BY <1>2
  <1> QED BY <1>1, <1>3, LeavesWholeNext, TypeCorrect, PTL DEF Spec, SuccessIsWhole

-----------------------------------------------------------------------------
(***************************************************************************)
(* The deadline.  While nothing has happened that the guards cannot answer *)
(* for, every attachment is timed by a guard that started before it.       *)
(***************************************************************************)
Times(r, n) ==
  \/ guard[r].phase = "appear" /\ age[n] = 0
  \/ guard[r].phase = "watch" /\ age[n] <= guard[r].elapsed /\ guard[r].elapsed < Deadline
  \/ guard[r].phase = "due" /\ age[n] <= Deadline

TimedRoutes ==
  \A n \in Networks : IF n \in route THEN \E r \in Run : Network(r) = n /\ Times(r, n)
                                     ELSE age[n] = 0
GuardedConnects == \A r \in Run : pc[r] = "connect" => guard[r].phase = "appear"

Timed == Guarded => TimedRoutes /\ GuardedConnects

\* A guard that times an attachment does so one poll later, or is due.
LEMMA PollTimes ==
  ASSUME TypeOK, NEW r \in Run, NEW n \in route, Network(r) = n, Times(r, n), Tick
  PROVE  Times(r, n)'
  <1>1. guard'[r] = Poll(r) /\ guard[r].phase # "due"
    BY DEF Tick
  <1>2. /\ age[n] \in 0 .. TooOld /\ n \in net
        /\ guard[r].elapsed \in 0 .. Deadline
    BY DEF TypeOK, Guards
  <1>3. age'[n] = age[n] \/ age'[n] = age[n] + 1
    BY <1>2 DEF Tick, TypeOK
  <1>4. ASSUME NEW e \in 0 .. Deadline, e < Deadline, age[n] <= e, guard'[r] = Watch(r, e)
        PROVE  Times(r, n)'
    <2>1. CASE e + 1 < Deadline
      <3>1. guard'[r] = [GuardIn("watch") EXCEPT !.elapsed = e + 1]
        BY <1>2, <1>4, <2>1 DEF Watch
      <3>2. guard'[r].phase = "watch" /\ guard'[r].elapsed = e + 1
        BY <3>1 DEF GuardIn
      <3> QED BY <1>2, <1>3, <1>4, <2>1, <3>2, WindowAssumption DEF Times, TooOld
    <2>2. CASE ~(e + 1 < Deadline)
      <3>1. guard'[r].phase = "due"
        BY <1>2, <1>4, <2>2 DEF Watch, GuardIn
      <3> QED BY <1>2, <1>3, <1>4, <2>2, <3>1, WindowAssumption DEF Times, TooOld
    <2> QED BY <2>1, <2>2
  <1>5. CASE guard[r].phase = "appear" /\ age[n] = 0
    <2>1. guard'[r] = Watch(r, 0)
      BY <1>1, <1>2, <1>5 DEF Poll, Look
    <2> QED BY <1>4, <1>5, <2>1, WindowAssumption
  <1>6. CASE guard[r].phase = "watch" /\ age[n] <= guard[r].elapsed /\ guard[r].elapsed < Deadline
    <2>1. guard'[r] = Watch(r, guard[r].elapsed)
      BY <1>1, <1>6 DEF Poll
    <2> QED BY <1>2, <1>4, <1>6, <2>1
  <1> QED BY <1>1, <1>5, <1>6 DEF Times

\* What a command does to an attachment: it takes it away, it makes one that its own
\* guard has been waiting for, or it leaves every attachment as it is.
LEMMA CommandRoutes ==
  ASSUME TypeOK, Guarded', NEW r \in Run, Command(r)
  PROVE  \/ pc[r] = "connect" /\ route' = route \cup {Network(r)} /\ UNCHANGED <<age, guard>>
         \/ Disconnect(r) /\ UNCHANGED guard
         \/ UNCHANGED <<route, age, guard>>
         \/ UNCHANGED <<route, age>> /\ pc[r] = "guard" /\ guard' = [guard EXCEPT ![r] = GuardIn("appear")]
  BY DEF Command, Start, Open, StartGuard, Connect, Fetch, Detach, Remove, Verdict, Abort,
         TrapFindsNothing, File, Kill, windowVars

LEMMA TimedNext == TypeOK /\ NoGuardYet /\ Timed /\ [Next]_vars => Timed'
  <1> SUFFICES ASSUME TypeOK, NoGuardYet, Timed, [Next]_vars, Guarded' PROVE TimedRoutes' /\ GuardedConnects'
    BY DEF Timed
  <1>1. Guarded
    <2>1. faults' = faults \/ faults' = faults + 1
      BY DEF Next, vars, limitVars, Tick, Reboot, Command, Guard, Start, Open, StartGuard, Connect,
             Fetch, Detach, Remove, Verdict, Abort, TrapFindsNothing, File, Kill, GuardDetaches,
             GuardRemoves, GuardLosesSight, Fault
    <2>2. reboots' = reboots \/ reboots' = reboots + 1
      BY DEF Next, vars, limitVars, Tick, Reboot, Command, Guard, Start, Open, StartGuard, Connect,
             Fetch, Detach, Remove, Verdict, Abort, TrapFindsNothing, File, Kill, GuardDetaches,
             GuardRemoves, GuardLosesSight, Fault
    <2> QED BY <2>1, <2>2 DEF Guarded, TypeOK
  <1>2. TimedRoutes /\ GuardedConnects
    BY <1>1 DEF Timed
  <1>3. \A r \in Run : Network(r)' = Network(r)
    BY DEF Next, vars, commandVars, Tick, Reboot, Command, Guard, Start, Open, StartGuard,
           Connect, Fetch, Detach, Remove, Verdict, Abort, TrapFindsNothing, File, Kill,
           GuardDetaches, GuardRemoves, GuardLosesSight, Network
  <1>4. CASE UNCHANGED vars
    BY <1>2, <1>4 DEF vars, commandVars, windowVars, TimedRoutes, GuardedConnects, Times, Network
  <1>5. CASE Tick
    <2>1. GuardedConnects'
      BY <1>5 DEF Tick, commandVars, GuardedConnects
    <2>2. ASSUME NEW n \in Networks
          PROVE  IF n \in route' THEN \E r \in Run : Network(r)' = n /\ Times(r, n)'
                                 ELSE age'[n] = 0
      <3>1. CASE n \in route
        <4>1. PICK r \in Run : Network(r) = n /\ Times(r, n)
          BY <1>2, <3>1 DEF TimedRoutes
        <4>2. Times(r, n)'
          BY <1>5, <3>1, <4>1, PollTimes
        <4> QED BY <1>3, <1>5, <3>1, <4>1, <4>2 DEF Tick
      <3>2. CASE n \notin route
        BY <1>2, <1>5, <2>2, <3>2 DEF Tick, TimedRoutes, TypeOK
      <3> QED BY <3>1, <3>2
    <2> QED BY <1>3, <2>1, <2>2 DEF TimedRoutes
  <1>6. CASE Reboot
    BY <1>1, <1>6 DEF Reboot, Guarded
  <1>7. ASSUME NEW r \in Run, Command(r) PROVE TimedRoutes' /\ GuardedConnects'
    <2>1. GuardedConnects'
      <3>1. CASE StartGuard(r)
        <4>1. guard' = [guard EXCEPT ![r] = GuardIn("appear")]
          BY <1>1, <3>1 DEF StartGuard, Fault, Guarded
        <4>2. guard'[r].phase = "appear"
          BY <4>1 DEF GuardIn, TypeOK
        <4> QED BY <1>2, <3>1, <4>1, <4>2 DEF StartGuard, Goto, GuardedConnects, TypeOK
      <3>2. CASE ~StartGuard(r)
        <4>1. guard' = guard
          BY <1>7, <3>2 DEF Command, Start, Open, Connect, Fetch, Detach, Remove, Verdict, Abort,
                 TrapFindsNothing, File, Kill
        <4>2. pc' = [pc EXCEPT ![r] = pc'[r]] /\ pc'[r] # "connect"
          BY <1>7, <3>2 DEF Command, Start, Open, Connect, Fetch, Detach, Remove, Verdict, Abort,
                 TrapFindsNothing, File, Kill, Goto, Ends, AfterClose, TypeOK
        <4> QED BY <1>2, <4>1, <4>2 DEF GuardedConnects, TypeOK
      <3> QED BY <3>1, <3>2
    <2>2. CASE pc[r] = "connect" /\ route' = route \cup {Network(r)} /\ UNCHANGED <<age, guard>>
      <3>1. ASSUME NEW n \in Networks, n = Network(r), n \notin route PROVE Times(r, n)'
        BY <1>2, <2>2, <3>1 DEF TimedRoutes, GuardedConnects, Times
      <3> QED BY <1>2, <1>3, <2>1, <2>2, <3>1 DEF TimedRoutes, Times
    <2>3. CASE Disconnect(r) /\ UNCHANGED guard
      BY <1>2, <1>3, <2>1, <2>3 DEF Disconnect, TimedRoutes, Times, TypeOK
    <2>4. CASE UNCHANGED <<route, age, guard>>
      BY <1>2, <1>3, <2>1, <2>4 DEF TimedRoutes, Times
    <2>5. CASE /\ UNCHANGED <<route, age>> /\ pc[r] = "guard"
               /\ guard' = [guard EXCEPT ![r] = GuardIn("appear")]
      <3>1. guard[r].phase = "none"
        BY <2>5 DEF NoGuardYet
      <3> QED BY <1>2, <1>3, <2>1, <2>5, <3>1 DEF TimedRoutes, Times, TypeOK
    <2> QED BY <1>7, <2>2, <2>3, <2>4, <2>5, CommandRoutes
  <1>8. ASSUME NEW r \in Run, Guard(r) PROVE TimedRoutes' /\ GuardedConnects'
    <2>1. pc' = pc
      BY <1>8 DEF Guard, GuardDetaches, GuardRemoves, commandVars
    <2>2. guard[r].phase \in {"due", "remove"} /\ \A q \in Run \ {r} : guard'[q] = guard[q]
      BY <1>8 DEF Guard, GuardDetaches, GuardRemoves, GuardTo, TypeOK
    <2>3. GuardedConnects'
      BY <1>2, <2>1, <2>2 DEF GuardedConnects
    <2>4. CASE UNCHANGED <<route, age>> /\ Network(r) \notin route
      BY <1>2, <1>3, <2>2, <2>3, <2>4 DEF TimedRoutes, Times
    <2>5. CASE UNCHANGED <<route, age>> /\ guard[r].phase = "remove"
      BY <1>2, <1>3, <2>2, <2>3, <2>5 DEF TimedRoutes, Times
    <2>6. CASE Disconnect(r)
      BY <1>2, <1>3, <2>2, <2>3, <2>6 DEF Disconnect, TimedRoutes, Times, TypeOK
    <2>7. \/ UNCHANGED <<route, age>> /\ Network(r) \notin route
          \/ UNCHANGED <<route, age>> /\ guard[r].phase = "remove"
          \/ Disconnect(r)
      BY <1>1, <1>8 DEF Guard, GuardDetaches, GuardRemoves, Fault, Guarded, TypeOK
    <2> QED BY <2>4, <2>5, <2>6, <2>7
  <1>9. ASSUME NEW r \in Run, GuardLosesSight(r) PROVE TimedRoutes' /\ GuardedConnects'
    BY <1>1, <1>9, LostStay DEF Guarded
  <1> QED BY <1>4, <1>5, <1>6, <1>7, <1>8, <1>9 DEF Next

\* As long as every guard started, every docker call of a clean-up worked and the host
\* stayed up, no attachment outlives the deadline, however many commands share a
\* network, overlap, hang or are killed (refresh_window_guard.sh:14-25).
THEOREM WindowBounded == Spec => []BoundedWindow
  <1>1. Init => Timed /\ NoGuardYet
    BY DEF Init, Timed, TimedRoutes, GuardedConnects, NoGuardYet, GuardIn
  <1>2. TypeOK /\ Timed => BoundedWindow
    <2> SUFFICES ASSUME TypeOK, Timed, Guarded, NEW n \in route PROVE age[n] <= Deadline
      BY DEF BoundedWindow
    <2>1. n \in Networks /\ age[n] \in 0 .. TooOld
      BY DEF TypeOK
    <2>2. PICK r \in Run : Times(r, n)
      BY <2>1 DEF Timed, TimedRoutes
    <2> QED BY <2>1, <2>2, WindowAssumption DEF Times, TypeOK, Guards
  <1> QED BY <1>1, <1>2, TimedNext, NoGuardYetNext, TypeCorrect, PTL DEF Spec
=============================================================================
