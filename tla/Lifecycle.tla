----------------------------- MODULE Lifecycle -----------------------------
(***************************************************************************)
(* Starting, stopping and cleaning up after the tunnel helper, as the      *)
(* dashboard's threads interleave (tuntop/ui/dashboard.py): the UI thread  *)
(* with its keys and its frames, the [T] worker, the restart worker (the   *)
(* recovery engine's repair, or a bypass restart), one reader per helper   *)
(* and the clean-up thread that reader may spawn.                          *)
(*                                                                         *)
(* A step ends where another thread can get in between: at the lock, at    *)
(* the _stopping event, at a transition of the machine, at the start or    *)
(* the end of a process.  A sweep is two steps, ending the helper and then *)
(* wiping the system: every route, adapter and rule of any helper.         *)
(***************************************************************************)
EXTENDS TunnelState

CONSTANT MaxHelpers   \* bound: helpers launched; a later launch fails

ASSUME MaxHelpersAssumption == MaxHelpers \in Nat \ {0}

Helpers == 1..MaxHelpers

Ui         == <<"ui", 0>>
Stopper    == <<"stopper", 0>>
Restarter  == <<"restarter", 0>>
Cleaner(h) == <<"cleaner", h>>
Cleaners   == {Cleaner(h) : h \in Helpers}
Threads    == {Ui, Stopper, Restarter} \cup Cleaners
Nobody     == <<"nobody", 0>>

VARIABLES
    pc,            \* where each thread is
    stopping,      \* the _stopping event
    lock,          \* the thread inside _teardown_guard, or Nobody
    machine,       \* the TunnelStateMachine
    helper,        \* each helper: "none", "alive" or "dead"
    proc,          \* self.proc, and the generation: the newest helper, or 0
    reader,        \* each helper's reader thread
    installed,     \* helpers with something of theirs left in the system
    queued,        \* _start_after_stop
    stopRequested, \* _stop_requested
    shuttingDown,  \* _shutting_down
    cleanupDone,   \* _cleanup_done
    paused         \* the recovery engine is paused

flags == <<queued, stopRequested, shuttingDown, cleanupDone>>
procs == <<helper, proc, reader, installed>>
vars  == <<pc, stopping, lock, machine, procs, flags, paused>>

Init ==
    /\ pc = [t \in Threads |-> "idle"]
    /\ stopping = FALSE /\ lock = Nobody
    /\ machine = "STOPPED"
    /\ helper = [h \in Helpers |-> "none"] /\ proc = 0
    /\ reader = [h \in Helpers |-> "none"] /\ installed = {}
    /\ queued = FALSE /\ stopRequested = FALSE
    /\ shuttingDown = FALSE /\ cleanupDone = FALSE
    /\ paused = FALSE

At(t, label)   == pc[t] = label
Goto(t, label) == pc' = [pc EXCEPT ![t] = label]
Alive          == proc # 0 /\ helper[proc] = "alive"
Running        == pc[Ui] # "gone"

\* What a thread does once its stop() has returned.
AfterStop(t) == IF t = Stopper THEN "stopped"
                ELSE IF t = Restarter THEN "start" ELSE "idle"

-----------------------------------------------------------------------------
(* stop() and _cleanup_after_helper_exit(): the same claim, the same lock.  *)

StopChecks(t) ==
    /\ At(t, "stop")
    /\ Goto(t, IF cleanupDone THEN AfterStop(t)
               ELSE IF stopping THEN "wait" ELSE "claim")
    /\ UNCHANGED <<stopping, lock, machine, procs, flags, paused>>

\* An owner is at work: queue behind it on the lock, then return.
StopWaits(t) ==
    /\ At(t, "wait") /\ lock = Nobody
    /\ Goto(t, AfterStop(t))
    /\ UNCHANGED <<stopping, lock, machine, procs, flags, paused>>

StopClaims(t) ==
    /\ At(t, "claim")
    /\ stopping' = TRUE
    /\ Goto(t, "lock")
    /\ UNCHANGED <<lock, machine, procs, flags, paused>>

\* Faulty: the lock is not waited for.
StopLocksAtOnce(t) ==
    /\ At(t, "lock")
    /\ lock' = t
    /\ IF t \in Cleaners
       THEN UNCHANGED <<machine, paused>>
       ELSE machine' = TryMove(machine, "STOPPING") /\ paused' = TRUE
    /\ Goto(t, "end helper")
    /\ UNCHANGED <<stopping, procs, flags>>

\* _stop_locked pauses recovery and claims STOPPING; the clean-up does neither.
StopLocks(t) ==
    /\ At(t, "lock") /\ lock = Nobody
    /\ lock' = t
    /\ IF t \in Cleaners
       THEN UNCHANGED <<machine, paused>>
       ELSE machine' = TryMove(machine, "STOPPING") /\ paused' = TRUE
    /\ Goto(t, "end helper")
    /\ UNCHANGED <<stopping, procs, flags>>

SweepEndsHelper(t) ==
    /\ At(t, "end helper")
    /\ helper' = IF Alive THEN [helper EXCEPT ![proc] = "dead"] ELSE helper
    /\ Goto(t, "wipe")
    /\ UNCHANGED <<stopping, lock, machine, proc, reader, installed, flags,
                   paused>>

SweepWipes(t) ==
    /\ At(t, "wipe")
    /\ installed' = {}
    /\ Goto(t, IF t = Ui THEN "quit done" ELSE "unlock")
    /\ UNCHANGED <<stopping, lock, machine, helper, proc, reader, flags,
                   paused>>

\* Faulty: a clean-up, which has nothing to publish, leaves with the lock.
StopKeepsLock(t) ==
    /\ At(t, "unlock")
    /\ lock' = IF t \in Cleaners THEN lock ELSE Nobody
    /\ machine' = IF t \in Cleaners THEN machine ELSE TryMove(machine, "STOPPED")
    /\ Goto(t, "release")
    /\ UNCHANGED <<stopping, procs, flags, paused>>

StopUnlocks(t) ==
    /\ At(t, "unlock")
    /\ lock' = Nobody
    /\ machine' = IF t \in Cleaners THEN machine ELSE TryMove(machine, "STOPPED")
    /\ Goto(t, "release")
    /\ UNCHANGED <<stopping, procs, flags, paused>>

StopReleases(t) ==
    /\ At(t, "release")
    /\ stopping' = FALSE
    /\ Goto(t, AfterStop(t))
    /\ UNCHANGED <<lock, machine, procs, flags, paused>>

Teardown(t) == StopChecks(t) \/ StopWaits(t) \/ StopClaims(t) \/ StopLocks(t)
                  \/ SweepEndsHelper(t) \/ SweepWipes(t) \/ StopUnlocks(t)
                  \/ StopReleases(t)

-----------------------------------------------------------------------------
(* _managed_start() and launch().                                          *)

StartBlocked == Alive \/ stopping \/ machine = "STOPPING"

StartChecks(t) ==
    /\ At(t, "start")
    /\ Goto(t, IF StartBlocked THEN "idle" ELSE "request")
    /\ UNCHANGED <<stopping, lock, machine, procs, flags, paused>>

\* request_start: accepted where the machine may move to STARTING.
StartRequested(t) ==
    /\ At(t, "request")
    /\ machine' = TryMove(machine, "STARTING")
    /\ Goto(t, IF CanMove(machine, "STARTING") THEN "launch" ELSE "refused")
    /\ UNCHANGED <<stopping, lock, procs, flags, paused>>

\* Faulty: the stranded machine is forced to a state outside its graph.
StartForcedIdle(t) ==
    /\ At(t, "refused")
    /\ IF machine = "STOPPING" \/ stopping
       THEN Goto(t, "idle") /\ UNCHANGED machine
       ELSE Goto(t, "launch") /\ machine' = "IDLE"
    /\ UNCHANGED <<stopping, lock, procs, flags, paused>>

\* A refusal outside a teardown: the machine is taken to be stranded, reset to
\* STOPPED and the request repeated, which then succeeds.
StartForced(t) ==
    /\ At(t, "refused")
    /\ IF machine = "STOPPING" \/ stopping
       THEN Goto(t, "idle") /\ UNCHANGED machine
       ELSE Goto(t, "launch") /\ machine' = "STARTING"
    /\ UNCHANGED <<stopping, lock, procs, flags, paused>>

\* launch(): the route snapshot is taken, recovery re-armed.
LaunchRearms(t) ==
    /\ At(t, "launch")
    /\ paused' = FALSE
    /\ Goto(t, "spawn")
    /\ UNCHANGED <<stopping, lock, machine, procs, flags>>

\* Popen, the new generation and its reader; or the launch fails.
LaunchSpawns(t) ==
    /\ At(t, "spawn") /\ proc < MaxHelpers
    /\ proc' = proc + 1
    /\ helper' = [helper EXCEPT ![proc + 1] = "alive"]
    /\ reader' = [reader EXCEPT ![proc + 1] = "reading"]
    /\ installed' = installed \cup {proc + 1}
    /\ machine' = TryMove(machine, "STARTING")
    /\ Goto(t, "idle")
    /\ UNCHANGED <<stopping, lock, flags, paused>>

LaunchFails(t) ==
    /\ At(t, "spawn")
    /\ machine' = TryMove(machine, "FAILED")
    /\ Goto(t, "idle")
    /\ UNCHANGED <<stopping, lock, procs, flags, paused>>

Start(t) == StartChecks(t) \/ StartRequested(t) \/ StartForced(t)
               \/ LaunchRearms(t) \/ LaunchSpawns(t) \/ LaunchFails(t)

-----------------------------------------------------------------------------
(* The helper and its reader.                                              *)

HelperDies(h) ==
    /\ helper[h] = "alive"
    /\ helper' = [helper EXCEPT ![h] = "dead"]
    /\ UNCHANGED <<pc, stopping, lock, machine, proc, reader, installed, flags,
                   paused>>

\* A progress marker of the current helper.
ReaderMoves(h) ==
    /\ reader[h] = "reading" /\ helper[h] = "alive" /\ h = proc
    /\ \E target \in {"VERIFYING", "RUNNING"} :
          CanMove(machine, target) /\ machine' = target
    /\ UNCHANGED <<pc, stopping, lock, procs, flags, paused>>

\* End of output.  A superseded reader just ends; so does one that finds a
\* teardown in flight, whose owner will publish STOPPED.
ReaderEnds(h) ==
    /\ reader[h] = "reading" /\ helper[h] = "dead"
    /\ reader' = [reader EXCEPT ![h] =
                    IF h # proc \/ stopping \/ shuttingDown \/ cleanupDone
                    THEN "done" ELSE "publish"]
    /\ UNCHANGED <<pc, stopping, lock, machine, helper, proc, installed, flags,
                   paused>>

ReaderPublishes(h) ==
    /\ reader[h] = "publish"
    /\ machine' = TryMove(TryMove(machine, "STOPPING"), "STOPPED")
    /\ reader' = [reader EXCEPT ![h] = "spawn"]
    /\ UNCHANGED <<pc, stopping, lock, helper, proc, installed, flags, paused>>

ReaderCleans(h) ==
    /\ reader[h] = "spawn"
    /\ reader' = [reader EXCEPT ![h] = "done"]
    /\ IF shuttingDown THEN UNCHANGED pc ELSE Goto(Cleaner(h), "stop")
    /\ UNCHANGED <<stopping, lock, machine, helper, proc, installed, flags,
                   paused>>

Reader(h) == ReaderEnds(h) \/ ReaderPublishes(h) \/ ReaderCleans(h)

-----------------------------------------------------------------------------
(* The UI thread: keys and frames, one at a time.                          *)

\* [S]: queued while any teardown is in flight, else a start if none is up.
PressS ==
    /\ At(Ui, "idle")
    /\ \/ stopping /\ queued' = TRUE /\ UNCHANGED pc
       \/ ~stopping /\ ~Alive /\ Goto(Ui, "start") /\ UNCHANGED queued
    /\ UNCHANGED <<stopping, lock, machine, procs, stopRequested, shuttingDown,
                   cleanupDone, paused>>

\* [T]: the claim is made on the UI thread, the stop on a worker.
PressT ==
    /\ At(Ui, "idle") /\ At(Stopper, "idle")
    /\ Alive /\ ~stopRequested /\ machine # "STOPPING"
    /\ stopRequested' = TRUE
    /\ Goto(Stopper, "stop")
    /\ UNCHANGED <<stopping, lock, machine, procs, queued, shuttingDown,
                   cleanupDone, paused>>

\* Faulty: the claim on [T] outlives a stop that goes on to a queued start.
StopperEndsClaimed ==
    /\ At(Stopper, "stopped")
    /\ stopRequested' = queued
    /\ queued' = (queued /\ shuttingDown)
    /\ Goto(Stopper, IF queued /\ ~shuttingDown /\ ~Alive THEN "start" ELSE "idle")
    /\ UNCHANGED <<stopping, lock, machine, procs, shuttingDown, cleanupDone,
                   paused>>

\* The [T] worker, its stop() over: a queued start is its business.
StopperEnds ==
    /\ At(Stopper, "stopped")
    /\ stopRequested' = FALSE
    /\ queued' = (queued /\ shuttingDown)
    /\ Goto(Stopper, IF queued /\ ~shuttingDown /\ ~Alive THEN "start" ELSE "idle")
    /\ UNCHANGED <<stopping, lock, machine, procs, shuttingDown, cleanupDone,
                   paused>>

\* [Q]: the event is set, not claimed, and the lock is never taken.
PressQ ==
    /\ At(Ui, "idle")
    /\ shuttingDown' = TRUE /\ stopping' = TRUE
    /\ Goto(Ui, "quit")
    /\ UNCHANGED <<lock, machine, procs, queued, stopRequested, cleanupDone,
                   paused>>

\* A running [T] worker is awaited first, up to a deadline that only a teardown
\* holding the lock can outlast.
QuitBegins ==
    /\ At(Ui, "quit")
    /\ At(Stopper, "idle") \/ lock # Nobody
    /\ paused' = TRUE
    /\ machine' = TryMove(machine, "STOPPING")
    /\ Goto(Ui, "end helper")
    /\ UNCHANGED <<stopping, lock, procs, flags>>

QuitEnds ==
    /\ At(Ui, "quit done")
    /\ cleanupDone' = TRUE /\ stopping' = FALSE
    /\ machine' = TryMove(machine, "STOPPED")
    /\ Goto(Ui, "exit")
    /\ UNCHANGED <<lock, procs, queued, stopRequested, shuttingDown, paused>>

\* The loop's exit path: recovery is shut down, a queued start forgotten, and
\* the process ends with its daemon threads and, by its job object, its helpers.
ProcessExits ==
    /\ At(Ui, "exit")
    /\ queued' = FALSE /\ paused' = TRUE
    /\ pc' = [t \in Threads |-> "gone"]
    /\ helper' = [h \in Helpers |-> IF helper[h] = "none" THEN "none" ELSE "dead"]
    /\ reader' = [h \in Helpers |-> "done"]
    /\ UNCHANGED <<stopping, lock, machine, proc, installed, stopRequested,
                   shuttingDown, cleanupDone>>

\* A frame reads `state`: a machine that claims a live helper which is not
\* there is driven down, to STOPPED unless a teardown is in flight.
PollFindsHelperGone ==
    /\ At(Ui, "idle")
    /\ machine \in Operational \cup {"STARTING"} /\ ~Alive
    /\ machine' = TryMove(machine, "STOPPING")
    /\ Goto(Ui, "poll")
    /\ UNCHANGED <<stopping, lock, procs, flags, paused>>

PollPublishes ==
    /\ At(Ui, "poll")
    /\ machine' = IF stopping \/ shuttingDown THEN machine
                  ELSE TryMove(machine, "STOPPED")
    /\ Goto(Ui, "idle")
    /\ UNCHANGED <<stopping, lock, procs, flags, paused>>

UiKeys  == PressS \/ PressT \/ PressQ
UiSteps == QuitBegins \/ QuitEnds \/ ProcessExits \/ PollFindsHelperGone
              \/ PollPublishes

-----------------------------------------------------------------------------
\* The restart worker begins: a repair of an armed recovery engine, or a bypass
\* restart of a live helper.  _restart_lock admits one at a time.
RestartBegins ==
    /\ At(Restarter, "idle") /\ proc # 0
    /\ ~paused \/ Alive
    /\ ~shuttingDown /\ ~cleanupDone
    /\ Goto(Restarter, "stop")
    /\ UNCHANGED <<stopping, lock, machine, procs, flags, paused>>

Exited == ~Running /\ UNCHANGED vars

Steps(t) == Teardown(t) \/ Start(t)

Next ==
    \/ UiKeys \/ UiSteps \/ StopperEnds \/ RestartBegins
    \/ \E t \in Threads : Steps(t)
    \/ \E h \in Helpers : HelperDies(h) \/ ReaderMoves(h) \/ Reader(h)
    \/ Exited

Spec == Init /\ [][Next]_vars

\* Threads are scheduled, their blocking calls return and the [T] worker is not
\* passed over at the lock for ever; keys, helper deaths and restarts are
\* nobody's duty.
FairSpec ==
    /\ Spec
    /\ WF_vars(UiSteps) /\ WF_vars(StopperEnds)
    /\ \A t \in Threads : WF_vars(Steps(t))
    /\ SF_vars(StopLocks(Stopper) \/ StopWaits(Stopper))
    /\ \A h \in Helpers : WF_vars(Reader(h))

-----------------------------------------------------------------------------
Labels == {"idle", "stop", "wait", "claim", "lock", "end helper", "wipe",
           "unlock", "release", "stopped", "start", "request", "refused",
           "launch", "spawn", "quit", "quit done", "exit", "gone", "poll"}

StopLabels == {"stop", "wait", "claim", "lock", "end helper", "wipe", "unlock",
               "release", "stopped"}

Sweeping(t) == pc[t] \in {"end helper", "wipe"}
Quiet == Running /\ (\A t \in Threads : At(t, "idle"))
            /\ (\A h \in Helpers : reader[h] \notin {"publish", "spawn"})

\* Every variable keeps to its values.
TypeOK ==
    /\ pc \in [Threads -> Labels]
    /\ stopping \in BOOLEAN
    /\ lock \in Threads \cup {Nobody}
    /\ machine \in TunnelStates
    /\ helper \in [Helpers -> {"none", "alive", "dead"}]
    /\ proc \in 0..MaxHelpers
    /\ reader \in [Helpers -> {"none", "reading", "publish", "spawn", "done"}]
    /\ installed \subseteq Helpers
    /\ queued \in BOOLEAN /\ stopRequested \in BOOLEAN
    /\ shuttingDown \in BOOLEAN /\ cleanupDone \in BOOLEAN
    /\ paused \in BOOLEAN

\* [T], the restart's own stop() and post-exit clean-ups never sweep together:
\* whichever of them wins the race on _stopping, the lock serialises them.
LockedSweepsExclude ==
    \A t, u \in Threads \ {Ui} : Sweeping(t) /\ Sweeping(u) => t = u

\* _stop_requested is set exactly while a [T] worker is stopping: were it left
\* set, every later [T] would be answered "stop already in progress".
StopClaimTracksWorker ==
    Running => (stopRequested <=> pc[Stopper] \in StopLabels)

\* No teardown waits for ever, whatever teardowns it waits behind: a [T] worker
\* comes back, _stopping is not left set, where it would refuse every later
\* start, and [Q] ends the process.
TeardownsEnd ==
    /\ ~At(Stopper, "idle") ~> (At(Stopper, "idle") \/ ~Running)
    /\ []<>(~stopping \/ ~Running)
    /\ shuttingDown ~> ~Running

\* _managed_start's docstring: a start requested while another phase is in
\* flight is rejected instead of spawning a second helper racing the first.
SingleHelper ==
    \A g, h \in Helpers : helper[g] = "alive" /\ helper[h] = "alive" => g = h

\* _managed_start's comment: no fresh helper is launched while a sweep is still
\* deleting routes, so a live helper's installation is never wiped.
LiveHelperKeepsRoutes ==
    \A h \in Helpers : helper[h] = "alive" => h \in installed

\* _cleanup_after_helper_exit's docstring: it can never overlap a [T] teardown,
\* a [Q] shutdown or a recovery restart's own stop().
CleanupNeverOverlaps ==
    \A c \in Cleaners : \A t \in Threads : Sweeping(c) /\ Sweeping(t) => t = c

\* The `state` property's comment: a teardown that is already running owns the
\* final transition and publishes STOPPED only after its sweeps have finished.
StoppedMeansSwept ==
    [][ machine # "STOPPED" /\ machine' = "STOPPED"
          => \A t \in {Ui, Stopper, Restarter} : ~Sweeping(t) ]_vars

\* [S] during a stop: "the tunnel will launch automatically when the sweep
\* finishes", so at rest no start is still queued.
QueuedStartRuns == Quiet => ~queued

\* The reader's comment on the post-exit clean-up: a dead helper's leftovers do
\* not survive until [Q] or the next launch while the dashboard says STOPPED.
DeadHelperIsSwept ==
    Quiet /\ (\A h \in Helpers : reader[h] # "reading") => installed = {}
=============================================================================
