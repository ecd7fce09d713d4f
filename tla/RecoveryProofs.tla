-------------------------- MODULE RecoveryProofs --------------------------
(***************************************************************************)
(* Theorems about the recovery engine, alone and inside the dashboard, for *)
(* any kinds of failure, any choice of those that restart the helper, and  *)
(* any attempt limit and give-up limit.                                    *)
(*                                                                         *)
(* One inductive invariant carries the engine's: none of its parts but the *)
(* type is inductive alone.  That nothing is armed while a repair runs     *)
(* rests on the flag being up exactly then; that nothing is armed while    *)
(* recovery is suppressed rests on the schedule being empty when a repair  *)
(* that is abandoned leaves it alone.                                      *)
(*                                                                         *)
(* What the engine keeps alone it keeps when its own repairs pause and     *)
(* resume it and move the machine, and what the dashboard shows of a dead  *)
(* helper is never that it is up.                                          *)
(***************************************************************************)
EXTENDS SelfHealing, TLAPS

EngineInv ==
    /\ TypeOK
    /\ AttemptFlagTracksWorker
    /\ NoDoubleScheduling
    /\ NothingArmedWhileSuppressed
    /\ AttemptsBounded
    /\ StreakEngagesGuard

USE DEF Incident, NoIncident, Fresh, Suppressed

-----------------------------------------------------------------------------
(* Facts about the operators the actions are built from. *)

\* An incident that has just been opened is an incident, not the empty one, and
\* has all its attempts left.
LEMMA FreshIncident ==
    ASSUME NEW k \in Kinds
    PROVE  /\ Fresh(k) \in Incident
           /\ Fresh(k) # NoIncident
           /\ Fresh(k).attempt = 0
BY KindsAssumption

\* The empty schedule is a schedule, and is not due.
LEMMA EmptySchedule == NoIncident \in Incident /\ ~NoIncident.due
OBVIOUS

\* The states the engine itself asks the machine for exist.
LEMMA HealthStates == {"RUNNING", "DEGRADED", "RECOVERING", "STOPPED"} \subseteq TunnelStates
BY DEF TunnelStates, Health, Operational, Terminal

\* A refused transition leaves the machine in a state of its graph.
LEMMA TryMoveType ==
    ASSUME NEW source \in TunnelStates, NEW target \in TunnelStates
    PROVE  TryMove(source, target) \in TunnelStates
BY DEF TryMove
-----------------------------------------------------------------------------

\* The invariant holds at the start.
LEMMA InitEstablishes == Init => EngineInv
<1> SUFFICES ASSUME Init PROVE EngineInv
    OBVIOUS
<1>1. TypeOK
  <2>1. incident \in Incident /\ current \in Incident
    BY EmptySchedule DEF Init
  <2>2. machine \in TunnelStates
    BY HealthStates DEF Init
  <2>3. announcing \in 0..MaxAnnounce /\ consecutiveFailed \in Nat
    BY AnnounceAssumption DEF Init
  <2> QED
    BY <2>1, <2>2, <2>3 DEF Init, TypeOK, WorkerPcs
<1>2. AttemptFlagTracksWorker /\ NoDoubleScheduling /\ NothingArmedWhileSuppressed
    BY DEF Init, AttemptFlagTracksWorker, NoDoubleScheduling,
           NothingArmedWhileSuppressed
<1>3. AttemptsBounded /\ StreakEngagesGuard
    BY GiveUpAssumption DEF Init, AttemptsBounded, StreakEngagesGuard
<1> QED
    BY <1>1, <1>2, <1>3 DEF EngineInv

-----------------------------------------------------------------------------
(* The inductive step, by groups of actions. *)

\* The user's controls empty the schedule; only resume() lowers a guard, and it
\* forgets the streak with it.
LEMMA UsersPreserve == EngineInv /\ Users => EngineInv'
<1> SUFFICES ASSUME EngineInv, Users PROVE EngineInv'
    OBVIOUS
<1> USE EmptySchedule, GiveUpAssumption
        DEF EngineInv, TypeOK, AttemptFlagTracksWorker, NoDoubleScheduling,
            NothingArmedWhileSuppressed, AttemptsBounded, StreakEngagesGuard,
            reportVars, guardVars, workerVars, machineVars
<1>1. CASE Shutdown
    BY <1>1 DEF Shutdown
<1>2. CASE Pause
    BY <1>2 DEF Pause
<1>3. CASE Resume
  <2>1. consecutiveFailed' = 0 /\ ~(0 >= GiveUpAfter)
    BY <1>3 DEF Resume
  <2>2. StreakEngagesGuard'
    BY <2>1
  <2>3. (TypeOK /\ AttemptFlagTracksWorker /\ NoDoubleScheduling
           /\ NothingArmedWhileSuppressed /\ AttemptsBounded)'
    BY <1>3 DEF Resume
  <2> QED
    BY <2>2, <2>3
<1> QED
    BY <1>1, <1>2, <1>3 DEF Users

\* A report arms a fresh incident only when nothing suppresses recovery, no
\* repair runs and nothing is armed - whatever the reporter does to the machine.
LEMMA ReportPreserves ==
    ASSUME EngineInv, NEW k \in Kinds, NEW rest \in SUBSET Kinds,
           ReportFailure(k, rest),
           machine' \in TunnelStates, announcing' \in 0..MaxAnnounce
    PROVE  EngineInv'
<1> USE FreshIncident, AttemptsAssumption
        DEF EngineInv, TypeOK, AttemptFlagTracksWorker, NoDoubleScheduling,
            NothingArmedWhileSuppressed, AttemptsBounded, StreakEngagesGuard,
            guardVars, workerVars
<1>1. UNCHANGED <<guardVars, workerVars>>
    BY DEF ReportFailure
<1>2. CASE ReportIgnored(rest)
    BY <1>1, <1>2 DEF ReportIgnored
<1>3. CASE ReportAbsorbed(k, rest)
    BY <1>1, <1>3 DEF ReportAbsorbed
<1>4. CASE ReportOpens(k, rest)
    BY <1>1, <1>4 DEF ReportOpens
<1> QED
    BY <1>2, <1>3, <1>4 DEF ReportFailure

LEMMA ReportersPreserve == EngineInv /\ Reporters => EngineInv'
<1> SUFFICES ASSUME EngineInv, Reporters PROVE EngineInv'
    OBVIOUS
<1>1. CASE RunningAnnounced
  <2>1. announcing' \in 0..MaxAnnounce
    BY <1>1, AnnounceAssumption DEF RunningAnnounced, EngineInv, TypeOK
  <2> QED
    BY <1>1, <2>1, EmptySchedule, GiveUpAssumption
       DEF EngineInv, TypeOK, AttemptFlagTracksWorker, NoDoubleScheduling,
           NothingArmedWhileSuppressed, AttemptsBounded, StreakEngagesGuard,
           RunningAnnounced, SuccessReported, workerVars
<1>2. ASSUME NEW k \in Kinds, Report(k) PROVE EngineInv'
  <2>1. carried \in SUBSET Kinds /\ UNCHANGED machineVars
    BY <1>2 DEF EngineInv, TypeOK, Report
  <2> QED
    BY <1>2, <2>1, ReportPreserves DEF Report, EngineInv, TypeOK, machineVars
<1>3. ASSUME NEW k \in Kinds, ReReport(k) PROVE EngineInv'
  <2>1. carried \ {k} \in SUBSET Kinds /\ UNCHANGED machineVars
    BY <1>3 DEF EngineInv, TypeOK, ReReport
  <2> QED
    BY <1>3, <2>1, ReportPreserves DEF ReReport, EngineInv, TypeOK, machineVars
<1> QED
    BY <1>1, <1>2, <1>3 DEF Reporters

\* The machine's other movers and the clock leave everything but the machine,
\* the due flag and the age of the last success alone.
LEMMA SurroundingsPreserve == EngineInv /\ (Others \/ Clock) => EngineInv'
<1> SUFFICES ASSUME EngineInv, Others \/ Clock PROVE EngineInv'
    OBVIOUS
<1> USE DEF EngineInv, TypeOK, AttemptFlagTracksWorker, NoDoubleScheduling,
            NothingArmedWhileSuppressed, AttemptsBounded, StreakEngagesGuard,
            reportVars, guardVars, workerVars, machineVars
<1>1. ASSUME NEW target \in TunnelStates, MachineMoves(target) PROVE EngineInv'
  <2>1. announcing' \in 0..MaxAnnounce
    BY <1>1, AnnounceAssumption DEF MachineMoves
  <2> QED
    BY <1>1, <2>1 DEF MachineMoves
<1>2. CASE BackoffElapses
    BY <1>2 DEF BackoffElapses
<1>3. CASE WindowElapses
    BY <1>3 DEF WindowElapses
<1> QED
    BY <1>1, <1>2, <1>3 DEF Others, Clock

\* The worker's loop raises the attempt flag exactly when it takes an incident.
LEMMA LoopPreserves ==
    EngineInv /\ (WorkerIdles \/ WorkerTakes \/ WorkerWakes \/ WorkerClears)
        => EngineInv'
<1> SUFFICES ASSUME EngineInv,
                    WorkerIdles \/ WorkerTakes \/ WorkerWakes \/ WorkerClears
             PROVE  EngineInv'
    OBVIOUS
<1> USE DEF EngineInv, TypeOK, AttemptFlagTracksWorker, NoDoubleScheduling,
            NothingArmedWhileSuppressed, AttemptsBounded, StreakEngagesGuard,
            reportVars, guardVars, machineVars, WorkerPcs
<1>1. CASE WorkerIdles
    BY <1>1 DEF WorkerIdles
<1>2. CASE WorkerTakes
    BY <1>2, EmptySchedule DEF WorkerTakes
<1>3. CASE WorkerWakes
    BY <1>3 DEF WorkerWakes
<1>4. CASE WorkerClears
    BY <1>4 DEF WorkerClears
<1> QED
    BY <1>1, <1>2, <1>3, <1>4

\* Starting a rung spends one of the attempts that were left.
LEMMA AttemptBeginsPreserves == EngineInv /\ AttemptBegins => EngineInv'
<1> SUFFICES ASSUME EngineInv, AttemptBegins PROVE EngineInv'
    OBVIOUS
<1>1. machine' \in TunnelStates
    BY TryMoveType, HealthStates DEF EngineInv, TypeOK, AttemptBegins
<1>2. current' \in Incident /\ current'.attempt \in 1..MaxAttempts
    BY AttemptsAssumption DEF EngineInv, TypeOK, AttemptsBounded, AttemptBegins
<1> QED
    BY <1>1, <1>2
       DEF EngineInv, TypeOK, AttemptFlagTracksWorker, NoDoubleScheduling,
           NothingArmedWhileSuppressed, AttemptsBounded, StreakEngagesGuard,
           AttemptBegins, reportVars, guardVars, WorkerPcs

\* What an attempt hands back to the schedule: nothing, or a fresh incident of
\* the absorbed kind, and the latter only if nothing suppresses recovery.
LEMMA DrainedSchedule ==
    ASSUME TypeOK, NEW fixed, NEW givenUp \in BOOLEAN, Drained(fixed, givenUp)
    PROVE  /\ incident' \in Incident
           /\ pending' \in Kinds \cup {None}
           /\ incident' # NoIncident =>
                incident'.attempt = 0 /\ ~stopped /\ ~paused /\ ~givenUp
<1>1. pending' = None
    BY DEF Drained
<1>2. CASE pending \in {None, fixed} \/ stopped \/ paused \/ givenUp
    BY <1>1, <1>2, EmptySchedule DEF Drained
<1>3. CASE ~(pending \in {None, fixed} \/ stopped \/ paused \/ givenUp)
  <2>1. pending \in Kinds /\ incident' = Fresh(pending)
    BY <1>3 DEF Drained, TypeOK
  <2> QED
    BY <1>1, <1>3, <2>1, FreshIncident
<1> QED
    BY <1>2, <1>3

\* A verified repair closes the attempt and may forgive the streak.
LEMMA VerifiedPreserves == EngineInv /\ RepairVerified => EngineInv'
<1> SUFFICES ASSUME EngineInv, RepairVerified PROVE EngineInv'
    OBVIOUS
<1>1. Drained(current.kind, gaveUp) /\ TypeOK /\ gaveUp \in BOOLEAN
    BY DEF EngineInv, TypeOK, RepairVerified
<1>2. /\ incident' \in Incident
      /\ pending' \in Kinds \cup {None}
      /\ incident' # NoIncident =>
            incident'.attempt = 0 /\ ~stopped /\ ~paused /\ ~gaveUp
    BY <1>1, DrainedSchedule
<1>3. consecutiveFailed' \in Nat /\ (consecutiveFailed' >= GiveUpAfter => gaveUp)
    BY GiveUpAssumption DEF EngineInv, TypeOK, StreakEngagesGuard, RepairVerified
<1>4. machine' \in TunnelStates /\ wakeup' \in BOOLEAN
    BY HealthStates DEF EngineInv, TypeOK, RepairVerified
<1>5. UNCHANGED <<current, carried, stopped, paused, announcing, gaveUp>>
      /\ workerPc' = "plan" /\ inAttempt' = FALSE /\ lastSuccess' = "recent"
    BY DEF RepairVerified, AttemptEnds
<1>6. TypeOK'
    BY <1>2, <1>3, <1>4, <1>5 DEF EngineInv, TypeOK, WorkerPcs
<1>7. NothingArmedWhileSuppressed'
    BY <1>2, <1>5 DEF NothingArmedWhileSuppressed
<1>8. AttemptsBounded'
    BY <1>2, <1>5, AttemptsAssumption DEF AttemptsBounded
<1> QED
    BY <1>3, <1>5, <1>6, <1>7, <1>8
       DEF EngineInv, AttemptFlagTracksWorker, NoDoubleScheduling,
           StreakEngagesGuard

\* An exhausted incident lengthens the streak and engages the guard at the
\* limit, before the absorbed report is looked at.
LEMMA ExhaustedPreserves == EngineInv /\ RepairExhausted => EngineInv'
<1> SUFFICES ASSUME EngineInv, RepairExhausted PROVE EngineInv'
    OBVIOUS
<1>1. /\ consecutiveFailed' \in Nat
      /\ gaveUp' \in BOOLEAN
      /\ gaveUp => gaveUp'
      /\ consecutiveFailed' >= GiveUpAfter => gaveUp'
  <2>1. CASE current.kind \in CrashLoopKinds
    <3>1. /\ consecutiveFailed' = consecutiveFailed + 1
          /\ gaveUp' = (gaveUp \/ consecutiveFailed' >= GiveUpAfter)
      BY <2>1 DEF RepairExhausted
    <3>2. consecutiveFailed' \in Nat
      BY <3>1 DEF EngineInv, TypeOK
    <3>3. gaveUp' = TRUE \/ gaveUp' = FALSE
      BY <3>1, Zenon
    <3>4. (gaveUp \/ consecutiveFailed' >= GiveUpAfter) => gaveUp'
      BY <3>1, Zenon
    <3> QED
      BY <3>2, <3>3, <3>4
  <2>2. CASE current.kind \notin CrashLoopKinds
    <3>1. consecutiveFailed' = consecutiveFailed /\ gaveUp' = gaveUp
      BY <2>2 DEF EngineInv, TypeOK, RepairExhausted
    <3> QED
      BY <3>1 DEF EngineInv, TypeOK, StreakEngagesGuard
  <2> QED
      BY <2>1, <2>2
<1>2. Drained(None, gaveUp') /\ TypeOK
    BY DEF EngineInv, RepairExhausted
<1>3. /\ incident' \in Incident
      /\ pending' \in Kinds \cup {None}
      /\ incident' # NoIncident =>
            incident'.attempt = 0 /\ ~stopped /\ ~paused /\ ~gaveUp'
    BY <1>1, <1>2, DrainedSchedule
<1>4. machine' \in TunnelStates
    BY HealthStates DEF EngineInv, TypeOK, RepairExhausted
<1>5. UNCHANGED <<current, carried, stopped, paused, announcing, lastSuccess, wakeup>>
      /\ workerPc' = "plan" /\ inAttempt' = FALSE
    BY DEF RepairExhausted, AttemptEnds
<1>6. TypeOK'
    BY <1>1, <1>3, <1>4, <1>5 DEF EngineInv, TypeOK, WorkerPcs
<1>7. NothingArmedWhileSuppressed'
    BY <1>3, <1>5 DEF NothingArmedWhileSuppressed
<1>8. AttemptsBounded'
    BY <1>3, <1>5, AttemptsAssumption DEF AttemptsBounded
<1> QED
    BY <1>1, <1>5, <1>6, <1>7, <1>8
       DEF EngineInv, AttemptFlagTracksWorker, NoDoubleScheduling,
           StreakEngagesGuard

\* A failed attempt re-arms its incident unless recovery is suppressed, and
\* otherwise leaves the schedule as the invariant says it is: empty.
LEMMA FailedPreserves ==
    EngineInv /\ (RepairRearmed \/ RepairAbandoned) => EngineInv'
<1> SUFFICES ASSUME EngineInv, RepairRearmed \/ RepairAbandoned PROVE EngineInv'
    OBVIOUS
<1> USE DEF EngineInv, TypeOK, AttemptFlagTracksWorker, NoDoubleScheduling,
            NothingArmedWhileSuppressed, AttemptsBounded, StreakEngagesGuard,
            AttemptEnds, WorkerPcs
<1>1. CASE RepairRearmed
    BY <1>1 DEF RepairRearmed
<1>2. CASE RepairAbandoned
    BY <1>2 DEF RepairAbandoned
<1> QED
    BY <1>1, <1>2

LEMMA StepPreserves == EngineInv /\ [Next]_vars => EngineInv'
<1> SUFFICES ASSUME EngineInv, [Next]_vars PROVE EngineInv'
    OBVIOUS
<1>1. CASE Worker
    BY <1>1, LoopPreserves, AttemptBeginsPreserves, VerifiedPreserves,
       ExhaustedPreserves, FailedPreserves DEF Worker, RepairFailed
<1>2. CASE UNCHANGED vars
    BY <1>2
       DEF EngineInv, TypeOK, AttemptFlagTracksWorker, NoDoubleScheduling,
           NothingArmedWhileSuppressed, AttemptsBounded, StreakEngagesGuard,
           vars, reportVars, guardVars, workerVars, machineVars
<1> QED
    BY <1>1, <1>2, UsersPreserve, ReportersPreserve, SurroundingsPreserve DEF Next

-----------------------------------------------------------------------------
(* The theorems. *)

\* The inductive invariant is an invariant of the engine.
THEOREM EngineInvariant == Spec => []EngineInv
BY InitEstablishes, StepPreserves, PTL DEF Spec

\* Every variable of the engine keeps its type.
THEOREM TypesHold == Spec => []TypeOK
<1>1. EngineInv => TypeOK
    BY DEF EngineInv
<1> QED
    BY <1>1, EngineInvariant, PTL

\* A failure is never scheduled while a repair runs (_run_attempt).
THEOREM NeverDoublyScheduled == Spec => []NoDoubleScheduling
<1>1. EngineInv => NoDoubleScheduling
    BY DEF EngineInv
<1> QED
    BY <1>1, EngineInvariant, PTL

\* The in-attempt flag is never left behind by an attempt (_run_attempt).
THEOREM FlagTracksWorker == Spec => []AttemptFlagTracksWorker
<1>1. EngineInv => AttemptFlagTracksWorker
    BY DEF EngineInv
<1> QED
    BY <1>1, EngineInvariant, PTL

\* pause(), shutdown() and giving up leave nothing armed, however they
\* interleave with a repair in flight (_run_attempt_inner's last branch).
THEOREM SuppressionHolds == Spec => []NothingArmedWhileSuppressed
<1>1. EngineInv => NothingArmedWhileSuppressed
    BY DEF EngineInv
<1> QED
    BY <1>1, EngineInvariant, PTL

\* No incident is ever attempted more than max_attempts times.
THEOREM AttemptLimitHolds == Spec => []AttemptsBounded
<1>1. EngineInv => AttemptsBounded
    BY DEF EngineInv
<1> QED
    BY <1>1, EngineInvariant, PTL

\* give_up_after exhausted incidents in a row leave the guard engaged.
THEOREM GuardEngages == Spec => []StreakEngagesGuard
<1>1. EngineInv => StreakEngagesGuard
    BY DEF EngineInv
<1> QED
    BY <1>1, EngineInvariant, PTL

\* A report flood neither replaces nor re-times an armed incident: no step
\* takes the schedule from one incident to another, because whatever arms an
\* incident finds the schedule empty.
THEOREM FloodIsAbsorbed == Spec => FloodKeepsSchedule
<1>1. EngineInv /\ [Next]_vars =>
        [ incident # NoIncident /\ incident' # NoIncident =>
            /\ incident'.kind = incident.kind
            /\ incident'.attempt = incident.attempt
            /\ incident.due => incident'.due ]_vars
  <2> SUFFICES ASSUME EngineInv, Next, incident # NoIncident, incident' # NoIncident
               PROVE  /\ incident'.kind = incident.kind
                      /\ incident'.attempt = incident.attempt
                      /\ incident.due => incident'.due
    OBVIOUS
  <2>1. ~inAttempt /\ workerPc \notin {"taken", "repairing"}
    BY DEF EngineInv, NoDoubleScheduling, AttemptFlagTracksWorker
  <2>2. incident \in Incident
    BY DEF EngineInv, TypeOK
  <2>3. CASE Users
    BY <2>3 DEF Users, Shutdown, Pause, Resume
  <2>4. ASSUME NEW k \in Kinds, NEW rest, ReportFailure(k, rest)
        PROVE  incident' = incident
    BY <2>1, <2>4 DEF ReportFailure, ReportIgnored, ReportAbsorbed, ReportOpens
  <2>5. CASE Reporters
    BY <2>4, <2>5
       DEF Reporters, Report, ReReport, RunningAnnounced, SuccessReported
  <2>6. CASE Others
    BY <2>6 DEF Others, MachineMoves, reportVars
  <2>7. CASE Clock
    BY <2>2, <2>7 DEF Clock, BackoffElapses, WindowElapses, reportVars
  <2>8. CASE Worker
    BY <2>1, <2>8
       DEF Worker, WorkerIdles, WorkerTakes, WorkerWakes, WorkerClears,
           AttemptBegins, RepairVerified, RepairFailed, RepairExhausted,
           RepairRearmed, RepairAbandoned, AttemptEnds, reportVars
  <2> QED
    BY <2>3, <2>5, <2>6, <2>7, <2>8 DEF Next
<1> QED
  BY <1>1, EngineInvariant, PTL DEF Spec, FloodKeepsSchedule

HIDE DEF Incident, NoIncident, Fresh, Suppressed

-----------------------------------------------------------------------------
(* The engine inside the dashboard. *)

\* A restart is under way only while the worker repairs a kind that restarts:
\* without it a verdict could overtake the restart it judges.
StepTracksRestart == step # "begin" => Restarting

\* The states that claim nothing of the helper.
Quiet == Terminal \cup {"STOPPING"}

DashInv ==
    /\ EngineInv
    /\ DashInvariant
    /\ StepTracksRestart
    /\ RestartRearmsRecovery

-----------------------------------------------------------------------------
(* Facts about the lifecycle graph, as this component uses it. *)

LEMMA StatesSplit ==
    /\ TunnelStates = StartPhases \cup Health \cup Quiet
    /\ Quiet = {"STOPPED", "FAILED", "STOPPING"}
    /\ Health = {"RUNNING", "DEGRADED", "RECOVERING"}
    /\ Quiet \cap (StartPhases \cup Health) = {}
    /\ Health \cap StartPhases = {}
<1>1. StartPhases \subseteq {"STARTING", "RESOLVING", "STARTING_TUN",
                             "STARTING_TUN2SOCKS", "INSTALLING_ROUTES", "VERIFYING"}
    BY DEF StartPhases, StartSeq
<1> QED
    BY <1>1 DEF TunnelStates, Quiet, Terminal, Health, Operational

\* A start phase can fail and can be stopped, whichever it is.
LEMMA StartExits ==
    ASSUME NEW s \in StartPhases
    PROVE  {"FAILED", "STOPPING"} \subseteq Transitions[s]
<1> DEFINE i == CHOOSE i \in 1..6 : StartSeq[i] = s
<1>1. {"FAILED", "STOPPING"} \subseteq StartEdges(i)
    BY DEF StartEdges
<1>2. Transitions[s] = StartEdges(i)
    BY DEF Transitions, TunnelStates
<1> QED
    BY <1>1, <1>2

\* Of the states that claim nothing, none has an edge to an operational one.
LEMMA RestExits ==
    /\ Transitions["STOPPED"] = {"STARTING"}
    /\ Transitions["STOPPING"] = {"STOPPED", "FAILED"}
    /\ Transitions["FAILED"] = {"STARTING", "STOPPING", "STOPPED"}
    /\ \A s \in Health : {"STOPPING", "FAILED"} \subseteq Transitions[s]
<1>1. \A s \in Health \cup Quiet :
        s \in TunnelStates /\ s \notin StartPhases /\ Transitions[s] = RestEdges[s]
    BY StatesSplit DEF Transitions
<1> QED
    BY <1>1, StatesSplit DEF RestEdges

\* STOPPING and then STOPPED, each only if the graph allows it, ends STOPPED
\* from every state.
LEMMA DownIsStopped ==
    ASSUME NEW s \in TunnelStates
    PROVE  Down(s) = "STOPPED"
<1>1. TryMove(s, "STOPPING") \in {"STOPPING", "STOPPED"}
    BY StatesSplit, StartExits, RestExits DEF TryMove, CanMove
<1> QED
    BY <1>1, RestExits DEF Down, TryMove, CanMove

\* A failed launch leaves no claim behind.
LEMMA FailedIsTerminal ==
    ASSUME NEW s \in TunnelStates
    PROVE  TryMove(s, "FAILED") \in {"STOPPED", "FAILED"}
BY StatesSplit, StartExits, RestExits DEF TryMove, CanMove

\* A repair that begins claims RECOVERING only where something was claimed.
LEMMA QuietStaysQuiet ==
    ASSUME NEW s \in Quiet
    PROVE  TryMove(s, "RECOVERING") = s
BY StatesSplit, RestExits DEF TryMove, CanMove

LEMMA RequestTypes ==
    ASSUME NEW s \in TunnelStates
    PROVE  /\ TryMove(s, "STARTING") \in TunnelStates
           /\ TryMove(s, "DEGRADED") \in TunnelStates
           /\ TryMove(s, "FAILED") \in TunnelStates
           /\ Down(s) \in TunnelStates
<1>1. {"STARTING", "DEGRADED", "FAILED", "STOPPED"} \subseteq TunnelStates
    BY StatesSplit DEF StartPhases, StartSeq
<1> QED
    BY <1>1, TryMoveType, DownIsStopped

-----------------------------------------------------------------------------
(* The engine keeps its invariant inside the dashboard. *)

\* The engine's own part does not depend on what others do to the machine.
LEMMA MachineAloneKeepsEngine ==
    ASSUME EngineInv, UNCHANGED <<reportVars, guardVars, workerVars, wakeup>>,
           machine' \in TunnelStates, announcing' \in 0..MaxAnnounce
    PROVE  EngineInv'
BY DEF EngineInv, TypeOK, AttemptFlagTracksWorker, NoDoubleScheduling,
       NothingArmedWhileSuppressed, AttemptsBounded, StreakEngagesGuard,
       Suppressed, reportVars, guardVars, workerVars

\* A report can come with a forced stop of the machine in the same step.
LEMMA AnnouncedDeathKeepsEngine ==
    ASSUME DashInv, NEW counts \in BOOLEAN, DeathAnnounced(counts)
    PROVE  EngineInv'
<1>1. EngineInv /\ TypeOK /\ Process \in Kinds /\ carried \in SUBSET Kinds
    BY RestartAssumption DEF DashInv, EngineInv, TypeOK
<1>2. machine' \in TunnelStates /\ announcing' \in 0..MaxAnnounce
    BY <1>1, RequestTypes DEF DeathAnnounced, TypeOK
<1>3. CASE ReportFailure(Process, carried)
    BY <1>1, <1>2, <1>3, ReportPreserves
<1>4. CASE UNCHANGED <<reportVars, guardVars, workerVars, wakeup>>
    BY <1>1, <1>2, <1>4, MachineAloneKeepsEngine
<1> QED
    BY <1>3, <1>4 DEF DeathAnnounced

LEMMA WatchKeepsEngine == DashInv /\ Watch => EngineInv'
<1> SUFFICES ASSUME DashInv, Watch PROVE EngineInv'
    OBVIOUS
<1>1. EngineInv /\ TypeOK /\ Process \in Kinds /\ carried \in SUBSET Kinds
    BY RestartAssumption DEF DashInv, EngineInv, TypeOK
<1>2. CASE HelperDies
    BY <1>1, <1>2, StepPreserves DEF HelperDies
<1>3. CASE ReaderSeesExit
  <2>1. named \in BOOLEAN
    BY DEF DashInv, DashInvariant, DashTypeOK
  <2> QED
    BY <1>3, <2>1, AnnouncedDeathKeepsEngine DEF ReaderSeesExit
<1>4. CASE UiPolls
    BY <1>4, AnnouncedDeathKeepsEngine DEF UiPolls
<1>5. CASE ReaderMoves
  <2>1. {"VERIFYING", "RUNNING"} \subseteq TunnelStates
    BY StatesSplit DEF StartPhases, StartSeq
  <2>2. Others
    BY <1>5, <2>1 DEF ReaderMoves, Others
  <2> QED
    BY <1>1, <2>2, SurroundingsPreserve
<1>6. CASE ReaderReports
  <2>1. PICK k \in Kinds \ {Process} : ReportFailure(k, carried)
    BY <1>6 DEF ReaderReports
  <2>2. machine' \in TunnelStates /\ announcing' \in 0..MaxAnnounce
    BY <1>1, <1>6, RequestTypes DEF ReaderReports, TypeOK
  <2> QED
    BY <1>1, <2>1, <2>2, ReportPreserves
<1>7. CASE ForwarderDies
  <2>1. machine' \in TunnelStates /\ announcing' \in 0..MaxAnnounce
    BY <1>1, <1>7, RequestTypes DEF ForwarderDies, TypeOK
  <2> QED
    BY <1>1, <1>7, <2>1, ReportPreserves DEF ForwarderDies
<1>8. CASE SuccessDelivered
    BY <1>1, <1>8, ReportersPreserve DEF SuccessDelivered, Reporters
<1>9. CASE ReporterRetries
    BY <1>1, <1>9, ReportersPreserve DEF ReporterRetries, Reporters
<1> QED
    BY <1>2, <1>3, <1>4, <1>5, <1>6, <1>7, <1>8, <1>9 DEF Watch

\* stop() pauses and launch() resumes the engine that may be running them: both
\* leave the worker and its attempt alone.
LEMMA StopAndLaunchKeepEngine ==
    ASSUME DashInv, machine' \in TunnelStates, TearDown \/ Rearm,
           announcing' = announcing
    PROVE  EngineInv'
<1>1. EngineInv
    BY DEF DashInv
<1> USE DEF EngineInv, TypeOK, AttemptFlagTracksWorker, NoDoubleScheduling,
            NothingArmedWhileSuppressed, AttemptsBounded, StreakEngagesGuard,
            Suppressed, workerVars
<1>2. CASE TearDown
    BY <1>1, <1>2, EmptySchedule DEF TearDown
<1>3. CASE Rearm
  <2>1. consecutiveFailed' = 0 /\ ~(0 >= GiveUpAfter)
    BY <1>3, GiveUpAssumption DEF Rearm
  <2>2. StreakEngagesGuard'
    BY <2>1
  <2>3. (TypeOK /\ AttemptFlagTracksWorker /\ NoDoubleScheduling
           /\ NothingArmedWhileSuppressed /\ AttemptsBounded)'
    BY <1>1, <1>3, EmptySchedule DEF Rearm
  <2> QED
    BY <2>2, <2>3
<1> QED
    BY <1>2, <1>3

LEMMA UserAndRepairsKeepEngine ==
    DashInv /\ (UserStops \/ UserStarts \/ Repairs) => EngineInv'
<1> SUFFICES ASSUME DashInv, UserStops \/ UserStarts \/ Repairs PROVE EngineInv'
    OBVIOUS
<1>1. EngineInv /\ machine \in TunnelStates
    BY DEF DashInv, EngineInv, TypeOK
<1>2. CASE UserStops \/ RestartStops
  <2>1. TearDown /\ machine' = Down(machine) /\ announcing' = announcing
    BY <1>2 DEF UserStops, RestartStops, TearDown
  <2> QED
    BY <1>1, <2>1, RequestTypes, StopAndLaunchKeepEngine
<1>3. CASE UserStarts
  <2>1. Rearm /\ machine' = "STARTING" /\ announcing' = announcing
    BY <1>3 DEF UserStarts, Rearm
  <2>2. machine' \in TunnelStates
    BY <2>1, StatesSplit DEF StartPhases, StartSeq
  <2> QED
    BY <2>1, <2>2, StopAndLaunchKeepEngine
<1>4. CASE RestartLaunches
  <2>1. Rearm /\ machine' = TryMove(machine, "STARTING") /\ announcing' = announcing
    BY <1>4 DEF RestartLaunches, Rearm
  <2> QED
    BY <1>1, <2>1, RequestTypes, StopAndLaunchKeepEngine
<1>5. CASE RestartSpawns
  <2>1. machine' \in TunnelStates /\ announcing' \in 0..MaxAnnounce
    BY <1>1, <1>5, RequestTypes DEF RestartSpawns, EngineInv, TypeOK
  <2>2. UNCHANGED <<reportVars, guardVars, workerVars, wakeup>>
    BY <1>5 DEF RestartSpawns
  <2> QED
    BY <1>1, <2>1, <2>2, MachineAloneKeepsEngine
<1>6. CASE Judge
    BY <1>1, <1>6, VerifiedPreserves, ExhaustedPreserves, FailedPreserves DEF Judge
<1> QED
    BY <1>2, <1>3, <1>4, <1>5, <1>6 DEF Repairs

LEMMA EngineKept == DashInv /\ [DashNext]_allVars => EngineInv'
<1> SUFFICES ASSUME DashInv, [DashNext]_allVars PROVE EngineInv'
    OBVIOUS
<1>1. EngineInv
    BY DEF DashInv
<1>2. CASE WorkerLoop
    BY <1>1, <1>2, LoopPreserves, AttemptBeginsPreserves DEF WorkerLoop
<1>3. CASE Passing
    BY <1>1, <1>3, SurroundingsPreserve DEF Passing
<1>4. CASE UNCHANGED allVars
  <2>1. UNCHANGED vars
    BY <1>4 DEF allVars
  <2> QED
    BY <1>1, <2>1, StepPreserves
<1> QED
    BY <1>2, <1>3, <1>4, WatchKeepsEngine, UserAndRepairsKeepEngine DEF DashNext

-----------------------------------------------------------------------------
(* The dashboard's own part of the invariant. *)

\* Only the worker moves itself, and only a verdict ends a repair.
LEMMA RestartKept == DashInv /\ [DashNext]_allVars => StepTracksRestart'
<1> SUFFICES ASSUME DashInv, [DashNext]_allVars PROVE StepTracksRestart'
    OBVIOUS
<1>1. StepTracksRestart /\ current \in Incident
    BY DEF DashInv, EngineInv, TypeOK
<1> USE DEF StepTracksRestart, Restarting
<1>2. CASE UNCHANGED <<workerVars, step>>
    BY <1>1, <1>2 DEF workerVars
<1>3. CASE Watch
  <2>1. UNCHANGED <<workerVars, step>>
    BY <1>3 DEF Watch, HelperDies, ReaderSeesExit, UiPolls, DeathAnnounced,
                ReportFailure, ReaderMoves, MachineMoves, ReaderReports,
                ForwarderDies, SuccessDelivered, RunningAnnounced,
                ReporterRetries, ReReport, vars, dashVars
  <2> QED
    BY <1>2, <2>1
<1>4. CASE UserStops \/ UserStarts
    BY <1>2, <1>4 DEF UserStops, UserStarts, TearDown, Rearm
<1>5. CASE RestartStops \/ RestartLaunches \/ RestartSpawns
    BY <1>1, <1>5 DEF RestartStops, RestartLaunches, RestartSpawns, TearDown,
                      Rearm, workerVars
<1>6. CASE Judge
    BY <1>6 DEF Judge
<1>7. CASE WorkerLoop
  <2>1. step' = step /\ (workerPc' # "repairing" => workerPc # "repairing")
    BY <1>7 DEF WorkerLoop, WorkerIdles, WorkerTakes, WorkerWakes, WorkerClears,
                AttemptBegins, dashVars
  <2>2. ASSUME step # "begin" PROVE FALSE
    BY <1>1, <1>7, <2>2
       DEF WorkerLoop, WorkerIdles, WorkerTakes, WorkerWakes, WorkerClears,
           AttemptBegins
  <2> QED
    BY <2>1, <2>2
<1>8. CASE Passing
    BY <1>2, <1>8 DEF Passing, Clock, BackoffElapses, WindowElapses, dashVars
<1>9. CASE UNCHANGED allVars
    BY <1>2, <1>9 DEF allVars, vars, dashVars
<1> QED
    BY <1>3, <1>4, <1>5, <1>6, <1>7, <1>8, <1>9 DEF DashNext, Repairs

\* A pause outlives a step of a restart only between its stop() and its
\* launch(): no verdict is passed in between.
LEMMA RearmKept == DashInv /\ [DashNext]_allVars => RestartRearmsRecovery'
<1> SUFFICES ASSUME DashInv, [DashNext]_allVars PROVE RestartRearmsRecovery'
    OBVIOUS
<1>1. RestartRearmsRecovery /\ StepTracksRestart
    BY DEF DashInv
<1> USE DEF RestartRearmsRecovery
<1>2. CASE UNCHANGED <<paused, step, userDown>>
    BY <1>1, <1>2
<1>3. CASE Watch
  <2>1. UNCHANGED <<paused, step, userDown>>
    BY <1>3 DEF Watch, HelperDies, ReaderSeesExit, UiPolls, DeathAnnounced,
                ReportFailure, ReaderMoves, MachineMoves, ReaderReports,
                ForwarderDies, SuccessDelivered, RunningAnnounced,
                ReporterRetries, ReReport, vars, dashVars, guardVars, historyVars
  <2> QED
    BY <1>2, <2>1
<1>4. CASE UserStops \/ UserStarts
    BY <1>4 DEF UserStops, UserStarts, Rearm
<1>5. CASE RestartStops \/ RestartLaunches
    BY <1>5 DEF RestartStops, RestartLaunches, Rearm
<1>6. CASE RestartSpawns
    BY <1>1, <1>6 DEF RestartSpawns, guardVars, historyVars
<1>7. CASE Judge
  <2>1. step # "stopped"
    BY <1>1, <1>7 DEF Judge, StepTracksRestart
  <2>2. paused' = paused /\ userDown' = userDown
    BY <1>7 DEF Judge, RepairVerified, RepairRearmed, RepairAbandoned,
                RepairExhausted, AttemptEnds
  <2> QED
    BY <1>1, <2>1, <2>2
<1>8. CASE WorkerLoop
    BY <1>2, <1>8 DEF WorkerLoop, WorkerIdles, WorkerTakes, WorkerWakes,
                      WorkerClears, AttemptBegins, guardVars, dashVars, historyVars
<1>9. CASE Passing
    BY <1>2, <1>9 DEF Passing, Clock, BackoffElapses, WindowElapses, guardVars,
                      dashVars, historyVars
<1>10. CASE UNCHANGED allVars
    BY <1>2, <1>10 DEF allVars, vars, guardVars, dashVars, historyVars
<1> QED
    BY <1>3, <1>4, <1>5, <1>6, <1>7, <1>8, <1>9, <1>10 DEF DashNext, Repairs

\* The dashboard's variables keep to their values.
OwnTypes ==
    /\ helper \in {"off", "up", "dead"}
    /\ eof \in BOOLEAN /\ named \in BOOLEAN
    /\ unserved \in BOOLEAN /\ userDown \in BOOLEAN
    /\ step \in {"begin", "stopped", "launching", "launched"}
    /\ streak \in 0..GiveUpAfter

LEMMA OwnTypesKept == DashInv /\ [DashNext]_allVars => OwnTypes'
<1> SUFFICES ASSUME DashInv, [DashNext]_allVars PROVE OwnTypes'
    OBVIOUS
<1>1. OwnTypes /\ stopped \in BOOLEAN /\ paused \in BOOLEAN /\ gaveUp \in BOOLEAN
    BY DEF DashInv, DashInvariant, DashTypeOK, OwnTypes, TypeOK
<1>2. Suppressed \in BOOLEAN
    BY <1>1 DEF Suppressed
<1>3. CASE UNCHANGED dashVars
    BY <1>1, <1>3 DEF OwnTypes, dashVars, helperVars, historyVars
<1>4. ASSUME NEW counts \in BOOLEAN, DeathAnnounced(counts)
      PROVE  unserved' \in BOOLEAN /\ UNCHANGED <<streak, userDown>>
  <2>1. (unserved \/ ~Suppressed) \in BOOLEAN /\ unserved \in BOOLEAN
    BY <1>1, <1>2, Zenon DEF OwnTypes
  <2> QED
    BY <1>4, <2>1 DEF DeathAnnounced
<1>5. CASE HelperDies
    BY <1>1, <1>5 DEF HelperDies, OwnTypes, historyVars
<1>6. CASE ReaderSeesExit
  <2>1. unserved' \in BOOLEAN /\ UNCHANGED <<streak, userDown>>
    BY <1>1, <1>4, <1>6 DEF ReaderSeesExit, OwnTypes
  <2> QED
    BY <1>1, <1>6, <2>1 DEF ReaderSeesExit, OwnTypes
<1>7. CASE UiPolls
  <2>1. unserved' \in BOOLEAN /\ UNCHANGED <<streak, userDown>>
    BY <1>4, <1>7 DEF UiPolls
  <2> QED
    BY <1>1, <1>7, <2>1 DEF UiPolls, OwnTypes, helperVars
<1>8. CASE ForwarderDies
  <2>1. (unserved \/ ~Suppressed) \in BOOLEAN
    BY <1>1, <1>2, Zenon DEF OwnTypes
  <2> QED
    BY <1>1, <1>8, <2>1 DEF ForwarderDies, OwnTypes
<1>9. CASE SuccessDelivered
  <2>1. streak' \in 0..GiveUpAfter
    BY <1>9, GiveUpAssumption DEF SuccessDelivered
  <2> QED
    BY <1>1, <1>9, <2>1 DEF SuccessDelivered, OwnTypes, helperVars
<1>10. CASE Watch
    BY <1>3, <1>5, <1>6, <1>7, <1>8, <1>9, <1>10
       DEF Watch, ReaderMoves, ReaderReports, ReporterRetries, dashVars
<1>11. CASE UserStops \/ RestartStops
    BY <1>1, <1>11 DEF UserStops, RestartStops, TearDown, OwnTypes
<1>12. CASE UserStarts
  <2>1. streak' \in 0..GiveUpAfter
    BY <1>12, GiveUpAssumption DEF UserStarts
  <2> QED
    BY <1>1, <1>12, <2>1 DEF UserStarts, OwnTypes
<1>13. CASE RestartLaunches \/ RestartSpawns
    BY <1>1, <1>13 DEF RestartLaunches, RestartSpawns, OwnTypes, helperVars,
                       historyVars
<1>14. CASE Judge
  <2>1. streak' \in 0..GiveUpAfter
    BY <1>1, <1>14, GiveUpAssumption DEF Judge, OwnTypes
  <2> QED
    BY <1>1, <1>14, <2>1 DEF Judge, OwnTypes, helperVars
<1>15. CASE WorkerLoop \/ Passing \/ UNCHANGED allVars
    BY <1>3, <1>15 DEF WorkerLoop, Passing, allVars
<1> QED
    BY <1>10, <1>11, <1>12, <1>13, <1>14, <1>15 DEF DashNext, Repairs

\* What the machine shows of a helper whose exit is handled.
LEMMA ShownKept == DashInv /\ [DashNext]_allVars => DeadHelperNotShownUp'
<1> SUFFICES ASSUME DashInv, [DashNext]_allVars PROVE DeadHelperNotShownUp'
    OBVIOUS
<1>1. /\ DeadHelperNotShownUp
      /\ StepTracksRestart
      /\ machine \in TunnelStates
    BY DEF DashInv, DashInvariant, EngineInv, TypeOK
<1>2. helper # "up" /\ ~eof /\ step # "launching" => machine \in Quiet
    BY <1>1, StatesSplit DEF DeadHelperNotShownUp
<1>3. ASSUME machine' \in Quiet \/ helper' = "up" \/ eof' \/ step' = "launching"
      PROVE  DeadHelperNotShownUp'
    BY <1>3, StatesSplit DEF DeadHelperNotShownUp
<1>4. CASE UNCHANGED <<machine, helper, eof, step>>
    BY <1>1, <1>4 DEF DeadHelperNotShownUp
<1>5. Down(machine) \in Quiet
    BY <1>1, DownIsStopped, StatesSplit
<1>6. CASE ReaderSeesExit \/ UiPolls \/ UserStops \/ RestartStops
    BY <1>3, <1>5, <1>6 DEF ReaderSeesExit, UiPolls, UserStops, RestartStops,
                            DeathAnnounced, TearDown
<1>7. CASE HelperDies \/ UserStarts \/ RestartLaunches
    BY <1>3, <1>7 DEF HelperDies, UserStarts, RestartLaunches
<1>8. CASE ReaderMoves \/ ReaderReports \/ ForwarderDies
    BY <1>3, <1>8 DEF ReaderMoves, ReaderReports, ForwarderDies, dashVars, helperVars
<1>9. CASE SuccessDelivered \/ ReporterRetries
    BY <1>4, <1>9 DEF SuccessDelivered, RunningAnnounced, ReporterRetries,
                      ReReport, machineVars, dashVars, helperVars
<1>10. CASE RestartSpawns
  <2>1. TryMove(machine, "FAILED") \in Quiet
    BY <1>1, FailedIsTerminal, StatesSplit
  <2> QED
    BY <1>3, <1>10, <2>1 DEF RestartSpawns
<1>11. CASE Judge
  <2>1. step # "launching"
    BY <1>1, <1>11 DEF Judge, StepTracksRestart
  <2>2. machine \in Quiet => machine' = machine
    BY <1>11, StatesSplit
       DEF Judge, RepairVerified, RepairRearmed, RepairAbandoned, RepairExhausted
  <2>3. UNCHANGED <<helper, eof>>
    BY <1>11 DEF Judge, helperVars
  <2> QED
    BY <1>2, <1>3, <2>1, <2>2, <2>3, OwnTypesKept DEF OwnTypes
<1>12. CASE WorkerLoop
  <2>1. UNCHANGED <<helper, eof, step>>
    BY <1>12 DEF WorkerLoop, dashVars, helperVars
  <2>2. machine \in Quiet => machine' = machine
    BY <1>12, QuietStaysQuiet
       DEF WorkerLoop, WorkerIdles, WorkerTakes, WorkerWakes, WorkerClears,
           AttemptBegins, machineVars
  <2> QED
    BY <1>2, <1>3, <2>1, <2>2
<1>13. CASE Passing
    BY <1>4, <1>13 DEF Passing, Clock, BackoffElapses, WindowElapses,
                       machineVars, dashVars, helperVars
<1>14. CASE UNCHANGED allVars
    BY <1>4, <1>14 DEF allVars, vars, machineVars, dashVars, helperVars
<1> QED
    BY <1>6, <1>7, <1>8, <1>9, <1>10, <1>11, <1>12, <1>13, <1>14
       DEF DashNext, Watch, Repairs

-----------------------------------------------------------------------------
(* The theorems. *)

LEMMA DashInitEstablishes == DashInit => DashInv
<1> SUFFICES ASSUME DashInit PROVE DashInv
    OBVIOUS
<1>1. EngineInv
    BY InitEstablishes DEF DashInit
<1>2. OwnTypes
  <2>1. 0 \in 0..GiveUpAfter
    BY GiveUpAssumption
  <2> QED
    BY <2>1 DEF DashInit, OwnTypes
<1>3. DeadHelperNotShownUp
    BY StatesSplit DEF DashInit, Init, DeadHelperNotShownUp
<1>4. StepTracksRestart /\ RestartRearmsRecovery
    BY DEF DashInit, Init, StepTracksRestart, RestartRearmsRecovery
<1> QED
    BY <1>1, <1>2, <1>3, <1>4
       DEF DashInv, DashInvariant, DashTypeOK, OwnTypes, EngineInv

LEMMA DashStepPreserves == DashInv /\ [DashNext]_allVars => DashInv'
BY EngineKept, OwnTypesKept, ShownKept, RestartKept, RearmKept
   DEF DashInv, DashInvariant, DashTypeOK, OwnTypes, EngineInv

\* The whole inductive invariant holds of the dashboard's self-healing.
THEOREM SelfHealingInvariance == DashSpec => []DashInv
BY DashInitEstablishes, DashStepPreserves, PTL DEF DashSpec

\* Every variable keeps its type, and once a dead helper's exit is handled the
\* machine claims neither that the tunnel is up nor that it is starting
\* (_reader, _reconcile_dead_process, _run_attempt_inner).
THEOREM DeadNeverShownUp == DashSpec => []DashInvariant
<1>1. DashInv => DashInvariant
    BY DEF DashInv
<1> QED
    BY <1>1, SelfHealingInvariance, PTL

\* A recovery restart never leaves recovery paused: a pause that outlasts it is
\* the user's (stop() and launch() as called by _recovery_restart).
THEOREM RestartRearms == DashSpec => []RestartRearmsRecovery
<1>1. DashInv => RestartRearmsRecovery
    BY DEF DashInv
<1> QED
    BY <1>1, SelfHealingInvariance, PTL

\* What the engine promises alone it keeps when its own repairs pause and
\* resume it: nothing is scheduled twice, nothing is armed while suppressed, no
\* incident is attempted past the limit, and a full streak engages the guard.
THEOREM EngineSurvivesRestarts == DashSpec => []EngineInv
<1>1. DashInv => EngineInv
    BY DEF DashInv
<1> QED
    BY <1>1, SelfHealingInvariance, PTL
=============================================================================
