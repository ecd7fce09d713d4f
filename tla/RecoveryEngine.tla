--------------------------- MODULE RecoveryEngine ---------------------------
(***************************************************************************)
(* The self-repair scheduler (tuntop/core/recovery.py): reporters open an  *)
(* incident, one worker thread waits out its backoff, runs a repair with   *)
(* no lock held, and judges the result.  Every action is one critical      *)
(* section of the engine lock, or one step between two of them.            *)
(*                                                                         *)
(* Time is abstract: an armed incident becomes due in a step of its own,   *)
(* and a success ages from "recent" to "sustained" when the stability      *)
(* window has passed.  The machine is the shared TunnelStateMachine, which *)
(* other threads move at any moment.                                       *)
(***************************************************************************)
EXTENDS TunnelState

CONSTANTS Kinds,          \* the failure kinds that have a ladder
          CrashLoopKinds, \* those whose exhaustion feeds the crash-loop guard
          None,           \* no kind
          MaxAttempts,    \* attempts per incident
          GiveUpAfter,    \* exhausted incidents in a row before giving up
          MaxAnnounce     \* bound: RUNNING events committed, not yet delivered

ASSUME KindsAssumption    == None \notin Kinds /\ CrashLoopKinds \subseteq Kinds
ASSUME AttemptsAssumption == MaxAttempts \in Nat \ {0}
ASSUME GiveUpAssumption   == GiveUpAfter \in Nat \ {0}
ASSUME AnnounceAssumption == MaxAnnounce \in Nat

VARIABLES
    stopped,           \* shutdown() was called
    paused,            \* pause() without a later resume()
    gaveUp,            \* the crash-loop guard engaged
    incident,          \* the incident waiting out its backoff, or NoIncident
    inAttempt,         \* a repair is executing
    pending,           \* the report absorbed during that repair, or None
    carried,           \* absorbed reports a reporter took out to report again
    consecutiveFailed, \* exhausted incidents in a row
    lastSuccess,       \* "never", "recent" or "sustained"
    machine,           \* the TunnelStateMachine's current state
    announcing,        \* RUNNING events whose observer has not run yet
    workerPc,          \* where the worker thread is
    current,           \* the incident the worker took
    wakeup             \* the worker's threading.Event

reportVars  == <<incident, pending, carried>>
guardVars   == <<stopped, paused, gaveUp, consecutiveFailed, lastSuccess>>
workerVars  == <<inAttempt, workerPc, current>>
machineVars == <<machine, announcing>>
vars == <<reportVars, guardVars, workerVars, machineVars, wakeup>>

Incident   == [kind : Kinds \cup {None}, attempt : Nat, due : BOOLEAN]
NoIncident == [kind |-> None, attempt |-> 0, due |-> FALSE]
Fresh(k)   == [kind |-> k, attempt |-> 0, due |-> FALSE]

Suppressed == stopped \/ paused \/ gaveUp

Init ==
    /\ stopped = FALSE /\ paused = FALSE /\ gaveUp = FALSE
    /\ incident = NoIncident /\ current = NoIncident
    /\ inAttempt = FALSE /\ pending = None /\ carried = {}
    /\ consecutiveFailed = 0 /\ lastSuccess = "never"
    /\ machine = "STOPPED" /\ announcing = 0
    /\ workerPc = "plan" /\ wakeup = FALSE

-----------------------------------------------------------------------------
(* The user's controls. *)

\* Faulty: the flag is set, but the sleeping worker is not woken.
ShutdownUnheard ==
    /\ stopped' = TRUE
    /\ incident' = NoIncident
    /\ UNCHANGED <<paused, gaveUp, consecutiveFailed, lastSuccess, pending,
                   carried, workerVars, machineVars, wakeup>>

Shutdown ==
    /\ stopped' = TRUE
    /\ incident' = NoIncident
    /\ wakeup' = TRUE
    /\ UNCHANGED <<paused, gaveUp, consecutiveFailed, lastSuccess, pending,
                   carried, workerVars, machineVars>>

Pause ==
    /\ paused' = TRUE
    /\ incident' = NoIncident
    /\ wakeup' = TRUE
    /\ UNCHANGED <<stopped, gaveUp, consecutiveFailed, lastSuccess, pending,
                   carried, workerVars, machineVars>>

Resume ==
    /\ paused' = FALSE
    /\ incident' = NoIncident
    /\ consecutiveFailed' = 0
    /\ gaveUp' = FALSE
    /\ UNCHANGED <<stopped, lastSuccess, pending, carried, workerVars,
                   machineVars, wakeup>>

-----------------------------------------------------------------------------
(* Reports.  rest is what the reporter still has to report again. *)

ReportIgnored(rest) ==
    /\ Suppressed \/ (~inAttempt /\ incident # NoIncident)
    /\ carried' = rest
    /\ UNCHANGED <<incident, pending, wakeup>>

ReportAbsorbed(k, rest) ==
    /\ ~Suppressed /\ inAttempt
    /\ pending' = k
    /\ carried' = rest
    /\ UNCHANGED <<incident, wakeup>>

\* Faulty: a report during a repair is scheduled instead of absorbed.
OpensInAttempt(k, rest) ==
    /\ ~Suppressed /\ incident = NoIncident
    /\ incident' = Fresh(k)
    /\ pending' = None
    /\ carried' = rest \cup ({pending} \ {None})
    /\ wakeup' = TRUE

\* Faulty: a report replaces the armed incident, and its attempt count.
OpensOverArmed(k, rest) ==
    /\ ~Suppressed /\ ~inAttempt
    /\ incident' = Fresh(k)
    /\ pending' = None
    /\ carried' = rest \cup ({pending} \ {None})
    /\ wakeup' = TRUE

\* Faulty: the absorbed report is taken out without looking if there is one.
OpensCarryingNone(k, rest) ==
    /\ ~Suppressed /\ ~inAttempt /\ incident = NoIncident
    /\ incident' = Fresh(k)
    /\ pending' = None
    /\ carried' = rest \cup {pending}
    /\ wakeup' = TRUE

\* Faulty: the incident is armed behind the sleeping worker's back.
OpensUnheard(k, rest) ==
    /\ ~Suppressed /\ ~inAttempt /\ incident = NoIncident
    /\ incident' = Fresh(k)
    /\ pending' = None
    /\ carried' = rest \cup ({pending} \ {None})
    /\ UNCHANGED wakeup

ReportOpens(k, rest) ==
    /\ ~Suppressed /\ ~inAttempt /\ incident = NoIncident
    /\ incident' = Fresh(k)
    /\ pending' = None
    /\ carried' = rest \cup ({pending} \ {None})
    /\ wakeup' = TRUE

ReportFailure(k, rest) ==
    /\ \/ ReportIgnored(rest)
       \/ ReportAbsorbed(k, rest)
       \/ ReportOpens(k, rest)
    /\ UNCHANGED <<guardVars, workerVars>>

Report(k) == ReportFailure(k, carried) /\ UNCHANGED machineVars

ReReport(k) ==
    /\ k \in carried
    /\ ReportFailure(k, carried \ {k})
    /\ UNCHANGED machineVars

\* report_success: the streak is forgiven only if no success came before, or
\* the last one held for the stability window.
SuccessReported ==
    /\ incident' = NoIncident
    /\ consecutiveFailed' =
          IF lastSuccess = "recent" THEN consecutiveFailed ELSE 0
    /\ lastSuccess' = IF lastSuccess = "sustained" THEN "recent" ELSE lastSuccess
    /\ wakeup' = TRUE

-----------------------------------------------------------------------------
(* The shared machine and its announcements.  An observer runs after the   *)
(* machine's lock is released, on the thread that made the transition.     *)

\* A transition by another thread: a legal edge, or reset() to STOPPED.
MachineMoves(target) ==
    /\ CanMove(machine, target) \/ (target = "STOPPED" /\ machine # "STOPPED")
    /\ target = "RUNNING" => announcing < MaxAnnounce
    /\ machine' = target
    /\ announcing' = announcing + (IF target = "RUNNING" THEN 1 ELSE 0)
    /\ UNCHANGED <<reportVars, guardVars, workerVars, wakeup>>

\* The dashboard's observer feeds a RUNNING event to report_success.
RunningAnnounced ==
    /\ announcing > 0
    /\ announcing' = announcing - 1
    /\ SuccessReported
    /\ UNCHANGED <<stopped, paused, gaveUp, pending, carried, workerVars, machine>>

-----------------------------------------------------------------------------
(* Time. *)

BackoffElapses ==
    /\ incident # NoIncident /\ ~incident.due
    /\ incident' = [incident EXCEPT !.due = TRUE]
    /\ UNCHANGED <<pending, carried, guardVars, workerVars, machineVars, wakeup>>

WindowElapses ==
    /\ lastSuccess = "recent"
    /\ lastSuccess' = "sustained"
    /\ UNCHANGED <<stopped, paused, gaveUp, consecutiveFailed, reportVars,
                   workerVars, machineVars, wakeup>>

-----------------------------------------------------------------------------
(* The worker's loop: read the plan under the lock, then sleep or run. *)

WorkerIdles ==
    /\ workerPc = "plan"
    /\ ~(incident.due /\ ~stopped)
    /\ workerPc' = IF stopped THEN "exited"
                   ELSE IF incident = NoIncident THEN "asleep" ELSE "timed"
    /\ UNCHANGED <<reportVars, guardVars, inAttempt, current, machineVars, wakeup>>

WorkerTakes ==
    /\ workerPc = "plan"
    /\ ~stopped /\ incident # NoIncident /\ incident.due
    /\ workerPc' = "taken"
    /\ current' = incident
    /\ incident' = NoIncident
    /\ inAttempt' = TRUE
    /\ UNCHANGED <<pending, carried, guardVars, machineVars, wakeup>>

\* The wait on the event returns: it is set, or a timed wait ran out.
WorkerWakes ==
    /\ workerPc \in {"asleep", "timed"}
    /\ workerPc = "asleep" => wakeup
    /\ workerPc' = "woken"
    /\ UNCHANGED <<reportVars, guardVars, inAttempt, current, machineVars, wakeup>>

WorkerClears ==
    /\ workerPc = "woken"
    /\ wakeup' = FALSE
    /\ workerPc' = "plan"
    /\ UNCHANGED <<reportVars, guardVars, inAttempt, current, machineVars>>

\* One rung starts: RECOVERING is claimed from an operational state only,
\* which are the states that have an edge to it.
AttemptBegins ==
    /\ workerPc = "taken"
    /\ current' = [current EXCEPT !.attempt = @ + 1]
    /\ machine' = TryMove(machine, "RECOVERING")
    /\ workerPc' = "repairing"
    /\ UNCHANGED <<reportVars, guardVars, inAttempt, announcing, wakeup>>

\* Faulty: the absorbed report is armed although the guard has just engaged.
DrainedDespiteGuard(sameKind, givenUp) ==
    /\ pending' = None
    /\ incident' = IF pending \in {None, sameKind} \/ stopped \/ paused
                   THEN NoIncident ELSE Fresh(pending)

\* _drain_pending: the absorbed report becomes the next incident.  sameKind is
\* the kind the attempt has just fixed (None when it fixed nothing), and
\* givenUp is whether the guard has engaged by now.
Drained(sameKind, givenUp) ==
    /\ pending' = None
    /\ incident' = IF pending \in {None, sameKind} \/ stopped \/ paused \/ givenUp
                   THEN NoIncident ELSE Fresh(pending)

\* Faulty: an attempt leaves its flag behind.
EndsStillInAttempt ==
    /\ workerPc = "repairing"
    /\ workerPc' = "plan"
    /\ UNCHANGED <<inAttempt, current, carried, stopped, paused, announcing>>

AttemptEnds ==
    /\ workerPc = "repairing"
    /\ workerPc' = "plan"
    /\ inAttempt' = FALSE
    /\ UNCHANGED <<current, carried, stopped, paused, announcing>>

\* Faulty: a verified repair claims RUNNING from whatever state it finds.
VerifiedFromAnyState ==
    /\ AttemptEnds
    /\ consecutiveFailed' =
          IF lastSuccess = "recent" THEN consecutiveFailed ELSE 0
    /\ lastSuccess' = "recent"
    /\ machine' = "RUNNING"
    /\ wakeup' = TRUE
    /\ Drained(current.kind, gaveUp)
    /\ UNCHANGED gaveUp

\* The repair verified.  The RUNNING it publishes runs report_success on this
\* thread inside the engine lock: it finds no incident and a success that has
\* just begun, so it only sets the wake-up event.
RepairVerified ==
    /\ AttemptEnds
    /\ consecutiveFailed' =
          IF lastSuccess = "recent" THEN consecutiveFailed ELSE 0
    /\ lastSuccess' = "recent"
    /\ machine' = IF machine \in {"RECOVERING", "DEGRADED"}
                  THEN "RUNNING" ELSE machine
    /\ wakeup' = (wakeup \/ machine' # machine)
    /\ Drained(current.kind, gaveUp)
    /\ UNCHANGED gaveUp

\* Faulty: the guard engages one exhausted incident late.
ExhaustedOffByOne ==
    /\ AttemptEnds
    /\ current.attempt >= MaxAttempts
    /\ LET counts == current.kind \in CrashLoopKinds IN
       /\ consecutiveFailed' = consecutiveFailed + (IF counts THEN 1 ELSE 0)
       /\ gaveUp' = (gaveUp \/ (counts /\ consecutiveFailed' > GiveUpAfter))
    /\ machine' = IF machine = "RECOVERING" THEN "DEGRADED" ELSE machine
    /\ Drained(None, gaveUp')
    /\ UNCHANGED <<lastSuccess, wakeup>>

\* The last allowed attempt failed: the incident is dropped, RECOVERING is
\* walked back, and enough of these in a row engage the guard.
RepairExhausted ==
    /\ AttemptEnds
    /\ current.attempt >= MaxAttempts
    /\ LET counts == current.kind \in CrashLoopKinds IN
       /\ consecutiveFailed' = consecutiveFailed + (IF counts THEN 1 ELSE 0)
       /\ gaveUp' = (gaveUp \/ (counts /\ consecutiveFailed' >= GiveUpAfter))
    /\ machine' = IF machine = "RECOVERING" THEN "DEGRADED" ELSE machine
    /\ Drained(None, gaveUp')
    /\ UNCHANGED <<lastSuccess, wakeup>>

\* Faulty: the incident is re-armed once more after its last attempt.
RearmedOffByOne ==
    /\ AttemptEnds
    /\ current.attempt <= MaxAttempts /\ ~Suppressed
    /\ incident' = [current EXCEPT !.due = FALSE]
    /\ wakeup' = TRUE
    /\ UNCHANGED <<pending, gaveUp, consecutiveFailed, lastSuccess, machine>>

\* An earlier attempt failed: the same incident waits out the next backoff.
RepairRearmed ==
    /\ AttemptEnds
    /\ current.attempt < MaxAttempts /\ ~Suppressed
    /\ incident' = [current EXCEPT !.due = FALSE]
    /\ wakeup' = TRUE
    /\ UNCHANGED <<pending, gaveUp, consecutiveFailed, lastSuccess, machine>>

\* ... unless recovery was paused, stopped or gave up meanwhile.
RepairAbandoned ==
    /\ AttemptEnds
    /\ current.attempt < MaxAttempts /\ Suppressed
    /\ UNCHANGED <<incident, pending, gaveUp, consecutiveFailed, lastSuccess,
                   machine, wakeup>>

RepairFailed == RepairExhausted \/ RepairRearmed \/ RepairAbandoned

Worker == WorkerIdles \/ WorkerTakes \/ WorkerWakes \/ WorkerClears
             \/ AttemptBegins \/ RepairVerified \/ RepairFailed

Users     == Shutdown \/ Pause \/ Resume
Reporters == RunningAnnounced \/ (\E k \in Kinds : Report(k) \/ ReReport(k))
Others    == \E target \in TunnelStates : MachineMoves(target)
Clock     == BackoffElapses \/ WindowElapses

Next == Users \/ Reporters \/ Others \/ Clock \/ Worker

Spec == Init /\ [][Next]_vars

\* The worker is a live thread and its repairs return; time passes.  Nothing
\* is assumed of users, reporters and the machine's other movers.
FairSpec == Spec /\ WF_vars(Worker) /\ WF_vars(BackoffElapses)

-----------------------------------------------------------------------------
WorkerPcs == {"plan", "asleep", "timed", "woken", "taken", "repairing", "exited"}

\* Every variable keeps to its values (fields set in __init__).
TypeOK ==
    /\ stopped \in BOOLEAN /\ paused \in BOOLEAN /\ gaveUp \in BOOLEAN
    /\ incident \in Incident /\ current \in Incident
    /\ inAttempt \in BOOLEAN
    /\ pending \in Kinds \cup {None}
    /\ carried \subseteq Kinds
    /\ consecutiveFailed \in Nat
    /\ lastSuccess \in {"never", "recent", "sustained"}
    /\ machine \in TunnelStates
    /\ announcing \in 0..MaxAnnounce
    /\ workerPc \in WorkerPcs
    /\ wakeup \in BOOLEAN

\* No incident waits in the schedule while a repair runs: whatever reporters,
\* pause and resume do meanwhile, a failure is never scheduled twice (the
\* worker takes its incident "off the books" before the repair).
NoDoubleScheduling == inAttempt => incident = NoIncident

\* _in_attempt is set exactly while the worker owns an attempt: were it to stay
\* set, every later report would be absorbed and recovery silently dead.
AttemptFlagTracksWorker == inAttempt <=> workerPc \in {"taken", "repairing"}

\* After pause(), shutdown() or giving up nothing is armed, not even by a
\* repair that was in flight when it happened.
NothingArmedWhileSuppressed == Suppressed => incident = NoIncident

\* The attempt count of an incident never passes max_attempts, however often
\* it is re-armed.
AttemptsBounded ==
    /\ incident # NoIncident => incident.attempt < MaxAttempts
    /\ workerPc = "taken" => current.attempt < MaxAttempts
    /\ workerPc = "repairing" => current.attempt \in 1..MaxAttempts

\* give_up_after exhausted incidents in a row leave the guard engaged, whatever
\* successes, pauses and resumes happened in between.
StreakEngagesGuard == consecutiveFailed >= GiveUpAfter => gaveUp

\* A report flood neither replaces nor re-times an armed incident, and never
\* resets its attempt count ("absorbed, NOT rescheduled").
FloodKeepsSchedule ==
    [][ incident # NoIncident /\ incident' # NoIncident =>
          /\ incident'.kind = incident.kind
          /\ incident'.attempt = incident.attempt
          /\ incident.due => incident'.due ]_vars

\* Every armed incident leaves the schedule: the worker cannot sleep through
\* it, because each change of the plan sets the wake-up event after it.
ArmedIncidentLeaves ==
    \A k \in Kinds : \A n \in 0..MaxAttempts :
        (incident.kind = k /\ incident.attempt = n)
            ~> (incident.kind # k \/ incident.attempt # n)

\* shutdown() ends the worker thread, even from its untimed sleep: a recovery
\* attempt must never keep the process alive.
ShutdownEndsWorker == stopped ~> workerPc = "exited"

\* shutdown()'s docstring: an attempt must never fire while the route table is
\* being torn down.
NoRepairAfterShutdown ==
    [][ workerPc = "taken" /\ workerPc' = "repairing" => ~stopped ]_vars
=============================================================================
