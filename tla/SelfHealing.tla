---------------------------- MODULE SelfHealing ----------------------------
(***************************************************************************)
(* The recovery engine as the dashboard wires it (tuntop/ui/dashboard.py): *)
(* its ladders, the helper process they restart, the reader thread and the *)
(* UI poll that report the helper's death, and the user's [S], [T], [Q].   *)
(*                                                                         *)
(* A restart ladder's repair is stop() then launch(), which pause and      *)
(* resume the engine that is running it.  A teardown is one step here; its *)
(* inside is the business of module Lifecycle.                             *)
(***************************************************************************)
EXTENDS RecoveryEngine

CONSTANTS RestartKinds,  \* kinds whose ladder restarts the helper
          Process        \* the kind a dead helper is reported as

ASSUME RestartAssumption == Process \in RestartKinds /\ RestartKinds \subseteq Kinds

VARIABLES
    helper,   \* "off" (torn down or never started), "up", or "dead" (by itself)
    eof,      \* the reader has a dead helper's end of output still to handle
    named,    \* _helper_exit_reason is set: the death was reported by a marker
    step,     \* how far the running restart is
    streak,   \* history: exhausted incidents since a success or a user start
    unserved, \* history: a reported death no restart has answered yet
    userDown  \* history: the user's last word was stop

helperVars  == <<helper, eof, named>>
historyVars == <<streak, unserved, userDown>>
dashVars    == <<helperVars, step, historyVars>>
allVars     == <<vars, dashVars>>

DashInit ==
    /\ Init
    /\ helper = "off" /\ eof = FALSE /\ named = FALSE /\ step = "begin"
    /\ streak = 0 /\ unserved = FALSE /\ userDown = FALSE

Down(source) == TryMove(TryMove(source, "STOPPING"), "STOPPED")

\* The reader is a thread: it delivers a RUNNING it published before it goes on.
ReaderFree == announcing = 0

-----------------------------------------------------------------------------
(* The helper and the threads that watch it. *)

HelperDies ==
    /\ helper = "up"
    /\ helper' = "dead" /\ eof' = TRUE
    /\ UNCHANGED <<vars, named, step, historyVars>>

\* A dead helper is reported by the STOPPED event: only by a thread whose
\* transition was accepted, and only under a "helper process ..." reason.
DeathAnnounced(counts) ==
    /\ machine' = Down(machine)
    /\ UNCHANGED announcing
    /\ IF machine' # machine /\ counts
       THEN ReportFailure(Process, carried) /\ unserved' = (unserved \/ ~Suppressed)
       ELSE UNCHANGED <<reportVars, guardVars, workerVars, wakeup, unserved>>
    /\ UNCHANGED <<streak, userDown>>

ReaderSeesExit ==
    /\ eof /\ ReaderFree
    /\ eof' = FALSE /\ named' = FALSE
    /\ DeathAnnounced(~named)
    /\ UNCHANGED <<helper, step>>

\* Each frame reads `state`, which reconciles the machine with the process; a
\* frame drawn while a launch is in flight is in Lifecycle.
UiPolls ==
    /\ machine \in Operational \cup {"STARTING"} /\ helper # "up"
    /\ step # "launching"
    /\ DeathAnnounced(TRUE)
    /\ UNCHANGED <<helperVars, step>>

\* A progress or success marker from a live helper.
ReaderMoves ==
    /\ helper = "up" /\ ReaderFree
    /\ \E target \in {"VERIFYING", "RUNNING"} : MachineMoves(target)
    /\ UNCHANGED dashVars

\* A failure marker: DEGRADED is requested and the marker's kind reported.
ReaderReports ==
    /\ helper = "up" /\ ReaderFree
    /\ machine' = TryMove(machine, "DEGRADED")
    /\ \E k \in Kinds \ {Process} : ReportFailure(k, carried)
    /\ UNCHANGED <<announcing, dashVars>>

\* The helper says its forwarder died; it exits by itself a little later.
ForwarderDies ==
    /\ helper = "up" /\ ReaderFree /\ ~named
    /\ named' = TRUE
    /\ machine' = TryMove(machine, "FAILED")
    /\ ReportFailure(Process, carried)
    /\ unserved' = (unserved \/ ~Suppressed)
    /\ UNCHANGED <<announcing, helper, eof, step, streak, userDown>>

\* The RUNNING event reaches the observer: a verified success.
SuccessDelivered ==
    /\ RunningAnnounced
    /\ streak' = 0
    /\ UNCHANGED <<helperVars, step, unserved, userDown>>

ReporterRetries ==
    /\ \E k \in Kinds : ReReport(k)
    /\ UNCHANGED dashVars

-----------------------------------------------------------------------------
(* The user. *)

\* stop(): recovery is paused, the helper ended, and its exit and reader are
\* taken care of.
TearDown ==
    /\ paused' = TRUE /\ incident' = NoIncident /\ wakeup' = TRUE
    /\ machine' = Down(machine)
    /\ helper' = "off" /\ eof' = FALSE /\ named' = FALSE
    /\ unserved' = FALSE
    /\ UNCHANGED <<stopped, gaveUp, consecutiveFailed, lastSuccess, pending,
                   carried, workerVars, announcing, streak>>

\* Faulty: the streak is forgotten, but the pause of the last stop stays.
RearmStillPaused ==
    /\ gaveUp' = FALSE
    /\ incident' = NoIncident /\ consecutiveFailed' = 0
    /\ UNCHANGED <<stopped, paused, lastSuccess, pending, carried, workerVars,
                   announcing, wakeup>>

\* launch() re-arms recovery before anything else.
Rearm ==
    /\ paused' = FALSE /\ gaveUp' = FALSE
    /\ incident' = NoIncident /\ consecutiveFailed' = 0
    /\ UNCHANGED <<stopped, lastSuccess, pending, carried, workerVars,
                   announcing, wakeup>>

\* [T] acts on a live helper only.
UserStops ==
    /\ helper = "up"
    /\ TearDown
    /\ userDown' = TRUE
    /\ UNCHANGED step

\* [S] acts on a dead helper only; a start racing a restart is in Lifecycle.
UserStarts ==
    /\ helper # "up" /\ step = "begin"
    /\ Rearm
    /\ machine' = "STARTING"
    /\ helper' = "up" /\ eof' = FALSE /\ named' = FALSE
    /\ streak' = 0 /\ unserved' = FALSE /\ userDown' = FALSE
    /\ UNCHANGED step

-----------------------------------------------------------------------------
(* The repairs, run by the worker between AttemptBegins and its verdict. *)

Restarting == workerPc = "repairing" /\ current.kind \in RestartKinds

RestartStops ==
    /\ Restarting /\ step = "begin"
    /\ step' = "stopped"
    /\ TearDown
    /\ UNCHANGED userDown

RestartLaunches ==
    /\ step = "stopped"
    /\ step' = "launching"
    /\ Rearm
    /\ machine' = TryMove(machine, "STARTING")
    /\ UNCHANGED <<helperVars, historyVars>>

\* Popen: the helper is up and STARTING is claimed again, or the launch failed.
RestartSpawns ==
    /\ step = "launching"
    /\ step' = "launched"
    /\ \/ helper' = "up" /\ machine' = TryMove(machine, "STARTING")
       \/ helper' = helper /\ machine' = TryMove(machine, "FAILED")
    /\ UNCHANGED <<reportVars, guardVars, workerVars, announcing, wakeup, eof,
                   named, historyVars>>

\* The repair returned and was verified: a restart worked iff the helper is
\* alive, waiting for the proxy worked iff its port answers.
Judge ==
    /\ workerPc = "repairing"
    /\ Restarting => step = "launched"
    /\ step' = "begin"
    /\ \/ /\ Restarting => helper = "up"
          /\ RepairVerified
          /\ streak' = 0
       \/ /\ Restarting => helper # "up"
          /\ RepairRearmed \/ RepairAbandoned
          /\ UNCHANGED streak
       \/ /\ Restarting => helper # "up"
          /\ RepairExhausted
          /\ streak' = IF current.kind \in CrashLoopKinds /\ streak < GiveUpAfter
                       THEN streak + 1 ELSE streak
    /\ UNCHANGED <<helperVars, unserved, userDown>>

WorkerLoop ==
    /\ WorkerIdles \/ WorkerTakes \/ WorkerWakes \/ WorkerClears \/ AttemptBegins
    /\ UNCHANGED dashVars

Passing ==
    /\ Clock
    /\ UNCHANGED dashVars

Repairs == RestartStops \/ RestartLaunches \/ RestartSpawns \/ Judge
Watch   == HelperDies \/ ReaderSeesExit \/ UiPolls \/ ReaderMoves
              \/ ReaderReports \/ ForwarderDies \/ SuccessDelivered
              \/ ReporterRetries

DashNext == UserStops \/ UserStarts \/ Watch \/ Repairs \/ WorkerLoop \/ Passing

DashSpec == DashInit /\ [][DashNext]_allVars
-----------------------------------------------------------------------------
\* Every variable keeps to its values.
DashTypeOK ==
    /\ TypeOK
    /\ helper \in {"off", "up", "dead"}
    /\ eof \in BOOLEAN /\ named \in BOOLEAN
    /\ unserved \in BOOLEAN /\ userDown \in BOOLEAN
    /\ step \in {"begin", "stopped", "launching", "launched"}
    /\ streak \in 0..GiveUpAfter

\* Once a dead helper's exit is handled no thread - a repair that verifies late,
\* a poll, a marker - leaves the machine claiming the tunnel is up or starting
\* ("a dead helper can never leave the dashboard claiming RUNNING").
DeadHelperNotShownUp ==
    helper # "up" /\ ~eof /\ step # "launching"
        => machine \notin StartPhases \cup Health

\* The two together, as the run checks them.
DashInvariant == DashTypeOK /\ DeadHelperNotShownUp

\* A recovery restart, whose own stop() pauses recovery, never leaves it paused
\* behind the user's back: only the user's stop outlasts the restart.
RestartRearmsRecovery == paused => userDown \/ step = "stopped"

\* recovery.py's module docstring: N incidents in a row that exhaust their
\* attempts without a verified success make the engine demand a human.
CrashLoopEngagesGuard == streak >= GiveUpAfter => gaveUp

\* report_failure's comment: the reader reports a dead helper only once, so a
\* report thrown away leaves the tunnel down with nothing scheduled to fix it.
ReportedDeathIsServed ==
    unserved => Suppressed \/ incident # NoIncident \/ inAttempt \/ carried # {}

\* report_success's docstring: it is called when the tunnel is verified healthy,
\* so it never closes the incident of a helper that is dead.
OnlyHealthClosesIncident ==
    [][ SuccessDelivered /\ incident.kind = Process => helper = "up" ]_allVars

\* _stop_async's closing line: after [T] the tunnel stays down until [S].
UserStopSticks == [][ RestartSpawns => ~userDown ]_allVars
=============================================================================
