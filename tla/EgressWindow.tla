---------------------------- MODULE EgressWindow ----------------------------
(***************************************************************************)
(* The temporary route out of the ingestor: scripts/refresh.sh and         *)
(* scripts/event-recheck.sh open it around one fetch, an exit trap closes  *)
(* it on every path the shell survives, and a detached guard               *)
(* (scripts/refresh_window_guard.sh) closes it at a deadline when the      *)
(* shell did not survive.  Several commands may run at once, be            *)
(* interrupted or killed anywhere, and the host may restart under them.    *)
(*                                                                         *)
(* One poll of a guard is the unit of time: Tick is the passing of one.    *)
(***************************************************************************)
EXTENDS Naturals

CONSTANTS
  Run,          \* the invocations of the two commands
  Mix,          \* what they may be: a set of functions from Run to Kinds
  Deadline,     \* REFRESH_WINDOW_MAX_S, in polls
  Appear,       \* APPEAR_S of the guard, in polls
  MaxMishaps,   \* bound: how many things go wrong: docker calls fail where a window is
                \* closed or guarded, a command is killed, the host restarts
  None          \* no report was filed yet

Kinds    == {"refresh", "check", "recheck"}
Networks == {"refresh_egress", "recheck_egress"}

ASSUME WindowAssumption ==
  /\ Mix \subseteq [Run -> Kinds]
  /\ Deadline \in Nat \ {0}
  /\ Appear \in Nat
  /\ MaxMishaps \in Nat

VARIABLES
  kind,           \* what each invocation is: a refresh, a --check, a re-check
  net,            \* the egress networks that exist
  route,          \* those of them the ingestor is attached to
  pc,             \* where each command is
  rc,             \* its exit status so far
  cleanupFailed,  \* its CLEANUP_FAILED
  overlooked,     \* history: the last it looked, docker did not answer, and that is read
                  \* as a window that is gone
  fetched,        \* what its fetch left in fetch.json (or the ledger)
  counted,        \* it wrote failed_cities and TOTAL_IDS
  stored,         \* how many accepted ids it saw in ingest_log
  persist,        \* its PERSIST
  guard,          \* the guard it started
  age,            \* how long the ingestor has been attached to each network
  report,         \* the file GET /refresh/last serves
  faults, kills, reboots    \* what went wrong so far

commandVars == <<kind, pc, rc, cleanupFailed, overlooked, fetched, counted, stored, persist>>
windowVars  == <<net, route, age>>
limitVars   == <<faults, kills, reboots>>
vars == <<commandVars, windowVars, guard, report, limitVars>>

-----------------------------------------------------------------------------
\* Mutant: both commands open a network of the same name.
NetworkShared(r) == "refresh_egress"

\* Each command names its own network, after the project.
Network(r) == IF kind[r] = "recheck" THEN "recheck_egress" ELSE "refresh_egress"

Phases == {"none", "appear", "watch", "due", "remove", "done", "failed"}
Guards == [phase : Phases, waited : 0 .. Appear, elapsed : 0 .. Deadline]
GuardIn(phase) == [phase |-> phase, waited |-> 0, elapsed |-> 0]

Steps == {"start", "open", "guard", "connect", "fetch", "detach", "remove", "verdict",
          "trap", "trapRemove", "file", "exited", "killed"}

\* The steps an interrupt, or a command failing under `set -e`, takes to the trap.
Body == {"open", "guard", "connect", "fetch", "detach", "remove", "verdict"}

\* No report, a report with a refused city, a report without.
Fetches  == {"none", "half", "all"}
Outcomes == {"window-not-closed", "no-fetch-report", "cities-failed",
             "accepted-not-stored", "ok-with-rows-in-flight", "ok"}

Init ==
  /\ kind \in Mix
  /\ net = {} /\ route = {}
  /\ pc = [r \in Run |-> "start"]
  /\ rc = [r \in Run |-> 0]
  /\ cleanupFailed = [r \in Run |-> FALSE]
  /\ overlooked = [r \in Run |-> FALSE]
  /\ fetched = [r \in Run |-> "none"]
  /\ counted = [r \in Run |-> FALSE]
  /\ stored = [r \in Run |-> "zero"]
  /\ persist = [r \in Run |-> kind[r] # "recheck"]
  /\ guard = [r \in Run |-> GuardIn("none")]
  /\ age = [n \in Networks |-> 0]
  /\ report = None
  /\ faults = 0 /\ kills = 0 /\ reboots = 0

-----------------------------------------------------------------------------
(***************************************************************************)
(* The command.                                                            *)
(***************************************************************************)
Goto(r, step) == pc' = [pc EXCEPT ![r] = step]
Ends(r, code) == Goto(r, "trap") /\ rc' = [rc EXCEPT ![r] = code]

Mishap == faults + kills + reboots < MaxMishaps

\* Docker calls of the clean-up go wrong.  `attached` and `network_exists` drop the
\* error of an inspect and answer no, so a look may fail unnoticed.
Fault == Mishap /\ faults' = faults + 1

\* Preflight.  Without an ingestor there is nothing to clean up; without an
\* API, or interrupted here, it ends through the trap.  --check gives up
\* filing a report only once the preflight is over.
Start(r) ==
  /\ pc[r] = "start"
  /\ \/ /\ Goto(r, "exited")
        /\ rc' = [rc EXCEPT ![r] = 1]
        /\ UNCHANGED persist
     \/ Ends(r, 1) /\ UNCHANGED persist
     \/ /\ Goto(r, "open")
        /\ persist' = [persist EXCEPT ![r] = @ /\ kind[r] # "check"]
        /\ UNCHANGED rc
  /\ UNCHANGED <<kind, cleanupFailed, overlooked, fetched, counted, stored, windowVars, guard,
                 report, limitVars>>

\* open_egress: use the network that is there, or make it.  (Losing the race to
\* make it fails the command: an Abort.)
Open(r) ==
  /\ pc[r] = "open"
  /\ Goto(r, "guard")
  /\ net' = net \cup {Network(r)}
  /\ UNCHANGED <<kind, rc, cleanupFailed, overlooked, fetched, counted, stored, persist, route,
                 age, guard, report, limitVars>>

\* start_window_guard: a guard that cannot be started is only a warning.
StartGuard(r) ==
  /\ pc[r] = "guard"
  /\ Goto(r, "connect")
  /\ \/ guard' = [guard EXCEPT ![r] = GuardIn("appear")] /\ UNCHANGED faults
     \/ Fault /\ UNCHANGED guard
  /\ UNCHANGED <<kind, rc, cleanupFailed, overlooked, fetched, counted, stored, persist,
                 windowVars, report, kills, reboots>>

\* The window opens here; an attachment that is already there is adopted.
Connect(r) ==
  /\ pc[r] = "connect"
  /\ IF Network(r) \notin net
       THEN Ends(r, 1) /\ UNCHANGED <<route, age>>
       ELSE /\ Goto(r, IF kind[r] = "check" THEN "detach" ELSE "fetch")
            /\ route' = route \cup {Network(r)}
            /\ UNCHANGED age
            /\ UNCHANGED rc
  /\ UNCHANGED <<kind, cleanupFailed, overlooked, fetched, counted, stored, persist, net,
                 guard, report, limitVars>>

\* The fetch (or probe) returns.  Every city answers only if the route held.
Fetch(r) ==
  /\ pc[r] = "fetch"
  /\ \E result \in Fetches :
       /\ result = "all" => Network(r) \in route
       /\ fetched' = [fetched EXCEPT ![r] = result]
  /\ Goto(r, "detach")
  /\ UNCHANGED <<kind, rc, cleanupFailed, overlooked, counted, stored, persist, windowVars,
                 guard, report, limitVars>>

\* docker network disconnect -f.
Disconnect(r) ==
  /\ route' = route \ {Network(r)}
  /\ age' = [age EXCEPT ![Network(r)] = 0]

\* What follows close_egress: the trap goes on to the report; --check has its
\* verdict; without a fetch report the run fails.
AfterClose(r, failed) ==
  IF pc[r] \in {"trap", "trapRemove"} THEN Goto(r, "file") /\ UNCHANGED rc
  ELSE IF kind[r] = "check" THEN Ends(r, IF failed THEN 1 ELSE 0)
  ELSE IF fetched[r] = "none" THEN Ends(r, 2)
  ELSE Goto(r, "verdict") /\ UNCHANGED rc

\* The last look of the command took a window for gone.
Overlooks(r, unseen) == overlooked' = [overlooked EXCEPT ![r] = unseen]

\* close_egress, first half: detach the ingestor, and look whether it went.
\* The trap gets here only if it sees any of the window.
Detach(r) ==
  /\ pc[r] \in {"detach", "trap"}
  /\ pc[r] = "trap" => Network(r) \in net
  /\ \/ /\ Goto(r, IF pc[r] = "detach" THEN "remove" ELSE "trapRemove")
        /\ \/ Disconnect(r) /\ UNCHANGED faults
           \/ Network(r) \in route /\ Fault /\ UNCHANGED <<route, age>>
        /\ UNCHANGED <<rc, cleanupFailed>>
     \/ /\ Network(r) \in route /\ Fault
        /\ cleanupFailed' = [cleanupFailed EXCEPT ![r] = TRUE]
        /\ AfterClose(r, TRUE)
        /\ UNCHANGED <<route, age>>
  /\ Overlooks(r, FALSE)
  /\ UNCHANGED <<kind, fetched, counted, stored, persist, net, guard, report, kills, reboots>>

\* Mutant: the failure to delete the network goes unnoticed.
RemoveUnverified(r) ==
  /\ pc[r] \in {"remove", "trapRemove"}
  /\ net' \in {net \ ({Network(r)} \ route), net}
  /\ AfterClose(r, cleanupFailed[r])
  /\ Overlooks(r, FALSE)
  /\ UNCHANGED <<kind, cleanupFailed, fetched, counted, stored, persist, route, age, guard,
                 report, limitVars>>

\* Second half: delete the network, which docker refuses while it has a
\* member, and look whether it went.
Remove(r) ==
  /\ pc[r] \in {"remove", "trapRemove"}
  /\ \/ /\ Network(r) \notin route
        /\ net' = net \ {Network(r)}
        /\ Overlooks(r, FALSE)
        /\ AfterClose(r, cleanupFailed[r])
        /\ UNCHANGED <<cleanupFailed, faults>>
     \/ /\ Network(r) \in net
        /\ \/ Network(r) \in route /\ UNCHANGED faults
           \/ Fault
        /\ cleanupFailed' = [cleanupFailed EXCEPT ![r] = TRUE]
        /\ Overlooks(r, FALSE)
        /\ AfterClose(r, TRUE)
        /\ UNCHANGED net
     \/ /\ Network(r) \in net /\ Fault
        /\ Overlooks(r, TRUE)
        /\ AfterClose(r, cleanupFailed[r])
        /\ UNCHANGED <<net, cleanupFailed>>
  /\ UNCHANGED <<kind, fetched, counted, stored, persist, route, age, guard, report, kills,
                 reboots>>

\* Mutant: the refused cities are not part of the verdict.
VerdictForgivesCities(r) ==
  /\ pc[r] = "verdict"
  /\ counted' = [counted EXCEPT ![r] = TRUE]
  /\ \E n \in {"zero", "some", "all"} :
       /\ stored' = [stored EXCEPT ![r] = n]
       /\ Ends(r, IF kind[r] = "refresh" /\ n = "zero" THEN 4 ELSE 0)
  /\ UNCHANGED <<kind, cleanupFailed, overlooked, fetched, persist, windowVars, guard, report,
                 limitVars>>

\* failed_cities and TOTAL_IDS are taken from the fetch report, the accepted ids
\* are followed to ingest_log for as long as WAIT_S, and the run has its status.
Verdict(r) ==
  /\ pc[r] = "verdict"
  /\ counted' = [counted EXCEPT ![r] = TRUE]
  /\ \E n \in IF kind[r] = "refresh" /\ fetched[r] = "all" THEN {"zero", "some", "all"}
                                                           ELSE {"zero"} :
       /\ stored' = [stored EXCEPT ![r] = n]
       /\ Ends(r, CASE fetched[r] # "all" -> 2
                    [] kind[r] = "refresh" /\ n = "zero" -> 4
                    [] OTHER -> 0)
  /\ UNCHANGED <<kind, cleanupFailed, overlooked, fetched, persist, windowVars, guard, report,
                 limitVars>>

\* An interrupt, or a command that fails under `set -e`, anywhere in the body:
\* during the verdict, before or after the cities were counted.
Abort(r) ==
  /\ pc[r] \in Body
  /\ Ends(r, 1)
  /\ \/ UNCHANGED counted
     \/ pc[r] = "verdict" /\ counted' = [counted EXCEPT ![r] = TRUE]
  /\ UNCHANGED <<kind, cleanupFailed, overlooked, fetched, stored, persist, windowVars, guard,
                 report, limitVars>>

\* Mutant: the trap looks for the attachment only.
TrapLooksForRoute(r) ==
  /\ pc[r] = "trap"
  /\ Network(r) \notin route
  /\ Goto(r, "file")
  /\ Overlooks(r, FALSE)
  /\ UNCHANGED <<kind, rc, cleanupFailed, fetched, counted, stored, persist, windowVars,
                 guard, report, limitVars>>

\* on_exit sees nothing to close: there is nothing, or docker does not answer.
TrapFindsNothing(r) ==
  /\ pc[r] = "trap"
  /\ Goto(r, "file")
  /\ \/ Network(r) \notin net /\ Overlooks(r, FALSE) /\ UNCHANGED faults
     \/ Network(r) \in net /\ Overlooks(r, TRUE) /\ Fault
  /\ UNCHANGED <<kind, rc, cleanupFailed, fetched, counted, stored, persist, windowVars,
                 guard, report, kills, reboots>>

\* persist_report's reading of how the run went.
Outcome(r) ==
  CASE cleanupFailed[r] -> "window-not-closed"
    [] fetched[r] = "none" -> "no-fetch-report"
    [] counted[r] /\ fetched[r] = "half" -> "cities-failed"
    [] counted[r] /\ stored[r] = "zero" -> "accepted-not-stored"
    [] counted[r] /\ stored[r] = "some" -> "ok-with-rows-in-flight"
    [] OTHER -> "ok"

\* With the process goes what it knew: its variables and its STATE_DIR.
Forget(r) ==
  /\ cleanupFailed' = [cleanupFailed EXCEPT ![r] = FALSE]
  /\ fetched' = [fetched EXCEPT ![r] = "none"]
  /\ counted' = [counted EXCEPT ![r] = FALSE]
  /\ stored' = [stored EXCEPT ![r] = "zero"]
  /\ persist' = [persist EXCEPT ![r] = FALSE]

\* The rest of on_exit: the status, then the report, which may fail to be filed.
File(r) ==
  /\ pc[r] = "file"
  /\ Goto(r, "exited")
  /\ rc' = [rc EXCEPT ![r] = IF cleanupFailed[r] THEN 3 ELSE @]
  /\ \/ persist[r] /\ report' = [kind |-> kind[r], outcome |-> Outcome(r), cities |-> fetched[r]]
     \/ UNCHANGED report
  /\ Forget(r)
  /\ UNCHANGED <<kind, overlooked, windowVars, guard, limitVars>>

\* SIGKILL, which no trap survives.  A second interrupt inside the trap does
\* the same.
Kill(r) ==
  /\ pc[r] \notin {"start", "exited", "killed"}
  /\ Mishap
  /\ kills' = kills + 1
  /\ Goto(r, "killed")
  /\ rc' = [rc EXCEPT ![r] = 0]
  /\ Forget(r)
  /\ UNCHANGED <<kind, overlooked, windowVars, guard, report, faults, reboots>>

-----------------------------------------------------------------------------
(***************************************************************************)
(* The guard a run started.                                                *)
(***************************************************************************)
GuardTo(r, phase) == guard' = [guard EXCEPT ![r] = GuardIn(phase)]

\* Mutant: the guard leaves when its command is gone, without looking again.
WatchItsRun(r, elapsed) ==
  IF Network(r) \notin net \/ pc[r] = "killed" THEN GuardIn("done")
  ELSE IF elapsed + 1 < Deadline THEN [GuardIn("watch") EXCEPT !.elapsed = elapsed + 1]
  ELSE GuardIn("due")

\* Phase 2, one poll: leave when the window is gone; at the deadline, act.
Watch(r, elapsed) ==
  IF Network(r) \notin net THEN GuardIn("done")
  ELSE IF elapsed + 1 < Deadline THEN [GuardIn("watch") EXCEPT !.elapsed = elapsed + 1]
  ELSE GuardIn("due")

\* Phase 1, one poll: wait a little for the network to exist.
Look(r) ==
  IF Network(r) \in net THEN Watch(r, 0)
  ELSE IF guard[r].waited < Appear THEN [guard[r] EXCEPT !.waited = @ + 1]
  ELSE GuardIn("done")

Poll(r) == CASE guard[r].phase = "appear" -> Look(r)
             [] guard[r].phase = "watch"  -> Watch(r, guard[r].elapsed)
             [] OTHER                     -> guard[r]

\* Mutant: the guard goes straight to deleting the network.
GuardSkipsDetach(r) ==
  /\ guard[r].phase = "due"
  /\ GuardTo(r, IF Network(r) \in net THEN "remove" ELSE "done")
  /\ UNCHANGED <<commandVars, windowVars, report, limitVars>>

\* The deadline: detach the ingestor, unless nothing is left to close.
GuardDetaches(r) ==
  /\ guard[r].phase = "due"
  /\ IF Network(r) \notin net
       THEN GuardTo(r, "done") /\ UNCHANGED <<route, age, faults>>
       ELSE /\ GuardTo(r, "remove")
            /\ \/ Disconnect(r) /\ UNCHANGED faults
               \/ Network(r) \in route /\ Fault /\ UNCHANGED <<route, age>>
  /\ UNCHANGED <<commandVars, net, report, kills, reboots>>

\* Then delete the network, or say that a human has to.
GuardRemoves(r) ==
  /\ guard[r].phase = "remove"
  /\ \/ /\ Network(r) \notin route
        /\ net' = net \ {Network(r)}
        /\ GuardTo(r, "done")
        /\ UNCHANGED faults
     \/ /\ Network(r) \in net
        /\ \/ Network(r) \in route /\ GuardTo(r, "failed") /\ UNCHANGED faults
           \/ Fault /\ (GuardTo(r, "failed") \/ GuardTo(r, "done"))
        /\ UNCHANGED net
  /\ UNCHANGED <<commandVars, route, age, report, kills, reboots>>

\* Docker does not answer a look of the guard, which takes the window for gone and
\* leaves; only before it has seen the window does it look again.
GuardLosesSight(r) ==
  /\ guard[r].phase \in {"appear", "watch", "due"}
  /\ Fault
  /\ IF guard[r].phase = "appear" /\ guard[r].waited < Appear
       THEN guard' = [guard EXCEPT ![r].waited = @ + 1]
       ELSE GuardTo(r, "done")
  /\ UNCHANGED <<commandVars, windowVars, report, kills, reboots>>

-----------------------------------------------------------------------------
\* Bound: beyond this age a window is simply too old.
TooOld == Deadline + 1

\* One poll of every guard goes by.  Docker calls that follow one another do so
\* within a poll: those of a guard at its deadline, and those of open_egress
\* between the start of the guard and the attachment, unless the command dies.
Tick ==
  /\ \A r \in Run : guard[r].phase \notin {"due", "remove"} /\ pc[r] \notin {"guard", "connect"}
  /\ guard' = [r \in Run |-> Poll(r)]
  /\ age' = [n \in Networks |-> IF n \in route /\ age[n] < TooOld THEN age[n] + 1 ELSE age[n]]
  /\ UNCHANGED <<commandVars, net, route, report, limitVars>>

\* The host restarts: every process is gone, the guards (docker run --rm, no
\* restart policy) among them; networks and attachments are the daemon's and stay.
Reboot ==
  /\ Mishap
  /\ reboots' = reboots + 1
  /\ guard' = [r \in Run |-> IF guard[r].phase \in {"none", "failed"} THEN guard[r]
                             ELSE GuardIn("done")]
  /\ LET dead == {r \in Run : pc[r] \notin {"start", "exited"}}
     IN /\ pc' = [r \in Run |-> IF r \in dead THEN "killed" ELSE pc[r]]
        /\ rc' = [r \in Run |-> IF r \in dead THEN 0 ELSE rc[r]]
        /\ cleanupFailed' = [r \in Run |-> FALSE]
        /\ fetched' = [r \in Run |-> "none"]
        /\ counted' = [r \in Run |-> FALSE]
        /\ stored' = [r \in Run |-> "zero"]
        /\ persist' = [r \in Run |-> persist[r] /\ r \notin dead]
  /\ UNCHANGED <<kind, overlooked, windowVars, report, faults, kills>>

Command(r) == \/ Start(r) \/ Open(r) \/ StartGuard(r) \/ Connect(r) \/ Fetch(r)
              \/ Detach(r) \/ Remove(r) \/ Verdict(r) \/ Abort(r)
              \/ TrapFindsNothing(r) \/ File(r) \/ Kill(r)
Guard(r) == GuardDetaches(r) \/ GuardRemoves(r)

Next == Tick \/ Reboot \/ \E r \in Run : Command(r) \/ Guard(r) \/ GuardLosesSight(r)

Spec == Init /\ [][Next]_vars

\* Time passes, a guard at its deadline acts, and the docker calls between its
\* start and the attachment return; nothing else is assumed of the commands,
\* which may hang or die.
FairSpec ==
  /\ Spec
  /\ WF_vars(Tick)
  /\ \A r \in Run : WF_vars(Guard(r)) /\ WF_vars(StartGuard(r) \/ Connect(r))

-----------------------------------------------------------------------------
TypeOK ==
  /\ kind \in [Run -> Kinds]
  /\ net \in SUBSET Networks
  /\ route \in SUBSET net
  /\ pc \in [Run -> Steps]
  /\ rc \in [Run -> 0 .. 4]
  /\ cleanupFailed \in [Run -> BOOLEAN]
  /\ overlooked \in [Run -> BOOLEAN]
  /\ fetched \in [Run -> Fetches]
  /\ counted \in [Run -> BOOLEAN]
  /\ stored \in [Run -> {"zero", "some", "all"}]
  /\ persist \in [Run -> BOOLEAN]
  /\ guard \in [Run -> Guards]
  /\ age \in [Networks -> 0 .. TooOld]
  /\ report \in {None} \cup [kind : Kinds, outcome : Outcomes, cities : Fetches]
  /\ faults \in Nat /\ kills \in Nat /\ reboots \in Nat
  /\ faults + kills + reboots <= MaxMishaps

\* The steps at which a run may leave its network standing behind it.
Holding == {"guard", "connect", "fetch", "detach", "remove", "trap", "trapRemove"}

\* It is not done with its network, was killed before it was, said so, or docker
\* did not answer its last look.
AnswersFor(r) == \/ pc[r] \in Holding \cup {"killed"}
                 \/ cleanupFailed[r] \/ overlooked[r]
                 \/ pc[r] = "exited" /\ rc[r] = 3

\* A network that exists is some living command's to close, or that command was
\* killed, or it noticed that it could not close it, or it looked a last time while
\* docker did not answer (refresh.sh:146-158, 239-266, 344-358): an interrupt, a
\* failing command or a failed look in the body leaves nothing behind.
LeftOpenOnlyByAKill == \A n \in net : \E r \in Run : Network(r) = n /\ AnswersFor(r)

\* When every command has ended by itself, none of them exited 3 and docker answered
\* the last look of each, no egress network is left, however the commands overlapped.
\* "3  the egress window could NOT be closed" (refresh.sh:53-58) does not cover a last
\* look that failed: such a command exits as if the window were closed.
ExitTellsTruth ==
  (\A r \in Run : /\ pc[r] = "start" \/ (pc[r] = "exited" /\ rc[r] # 3)
                  /\ ~overlooked[r]) => net = {}

\* Nothing the guards cannot answer for has happened: every guard started,
\* every docker call of a clean-up worked, and the host stayed up.
Guarded == faults = 0 /\ reboots = 0

\* However the commands die, the ingestor is never attached to an egress
\* network for longer than the deadline and the poll in which the guard finds
\* out (refresh_window_guard.sh:14-25).
BoundedWindow == Guarded => \A n \in route : age[n] <= Deadline

\* No other command of its kind has started: a --check is a kind of refresh.
Alone(r) ==
  \A q \in Run \ {r} : pc[q] = "start" \/ (kind[q] = "recheck" <=> kind[r] # "recheck")

\* A fetch loses its route only to its own deadline, as long as no second
\* command of the same kind was started: the two commands' windows are
\* independent (event-recheck.sh:139-144).
FetchKeepsItsRoute ==
  \A r \in Run :
    /\ pc[r] = "fetch"
    /\ guard[r].phase \notin {"remove", "done", "failed"}
    /\ Alone(r)
    => Network(r) \in route

\* A refresh that exits 0 got every city, knew it and saw rows stored, and what
\* it files says so (refresh.sh:592-609).
SuccessIsWhole ==
  [][\A r \in Run :
       pc[r] = "file" /\ pc'[r] = "exited" /\ rc'[r] = 0 /\ kind[r] = "refresh" =>
         /\ fetched[r] = "all" /\ counted[r] /\ stored[r] # "zero"
         /\ report' # report => report'.outcome \in {"ok", "ok-with-rows-in-flight"}]_vars

\* Every window closes, whatever happens to the command that opened it.
WindowCloses ==
  \A n \in Networks : (n \in route) ~> (n \notin route \/ ~Guarded)
=============================================================================
