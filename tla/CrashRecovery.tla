--------------------------- MODULE CrashRecovery ---------------------------
(***************************************************************************)
(* What a session leaves in the system when its dashboard ends, and who    *)
(* removes it: the exit paths of the dashboard, the detached clean-up      *)
(* watchdog (tuntop/core/cleanup_watchdog.py) and the next launch          *)
(* (tuntop/core/startup_recovery.py).  They agree through the crash        *)
(* marker, a file that names the session whose things may be left.         *)
(*                                                                         *)
(* A dashboard or a watchdog runs a program: the tasks it still has to do, *)
(* in the order of the code.  One step does one task; a kill or a power    *)
(* loss can come between any two.                                          *)
(***************************************************************************)
EXTENDS Naturals, Sequences, SequencesExt

CONSTANTS
    Sessions,    \* a dashboard process each
    None,        \* no session, no marker
    MaxFaults,   \* bound: removals that fail or are cut short
    Overlap,     \* may a session start beside a live one or during a sweep?
    Gap          \* may a helper outlive a crash before its PID is recorded?

ASSUME CrashAssumption ==
    /\ None \notin Sessions /\ MaxFaults \in Nat
    /\ Overlap \in BOOLEAN /\ Gap \in BOOLEAN

VARIABLES
    todo,     \* each dashboard: the tasks left of its program
    dash,     \* each dashboard: "new", "starting", "up", "leaving", "gone"
    sound,    \* each dashboard: cleanup_ok, the verdict of its exit sweep
    wtodo,    \* each watchdog: the tasks left of its program
    watch,    \* each watchdog: "none", "watching" or "gone"
    wsound,   \* each watchdog: sweeps_ok
    helper,   \* each helper: "none", "alive" or "dead"
    marker,   \* the crash marker: its owner and the helper it records
    left,     \* what each session has in the system
    snap,     \* _route_snapshot: the leftover routes in the table at launch
    faults

dashes   == <<todo, dash, sound>>
watchers == <<wtodo, watch, wsound>>
vars     == <<dashes, watchers, helper, marker, left, snap, faults>>

\* What a helper puts in the system, in the order it does: the DoH templates
\* and the lowered metric; the servers' host routes; the adapter, its routes
\* and tun2socks; the DNS guard; the country and LAN routes on the physical
\* adapter.  Its cleanup() removes them in the other order.
HelperInstalls == <<"residue", "host", "adapter", "guard", "geo">>
HelperRemoves  == <<"residue", "guard", "host", "adapter", "geo">>
Kinds          == ToSet(HelperInstalls)
Routes         == {"host", "geo"}            \* rows a route snapshot holds
Lasting        == {"guard", "residue", "adapter"}  \* what a reboot leaves

\* A program is written out with the recovery in full: its scan leaves out
\* the sweeps that it finds no reason for.
StartProgram == <<"scan", "guard", "residue", "adapter", "host",
                  "mark", "watchdog", "geo", "launch", "record">>
\* The interpreter's exit handler, whose verdict decides on the marker.
AtExitProgram == <<"atexit", "stop", "geo", "host", "verify", "restore",
                   "residue", "adapter", "clear">>
\* [Q]'s checklist comes first; an unhandled exception skips it.
QuitProgram  == <<"stop", "adapter", "guard", "geo", "host", "restore",
                  "residue">> \o AtExitProgram
\* The console's close event: the system kills the process when it is over.
CloseProgram == <<"stop", "host", "guard", "geo", "adapter", "restore",
                  "residue">>
WatchProgram == <<"check", "recheck", "kill", "scan", "guard", "residue",
                  "adapter", "host", "geo", "residue", "retire">>

\* Removals whose failure reaches the verdict of the one who tried.
HeardByWatchdog  == {"guard", "residue", "geo"}
HeardByDashboard == {"host", "residue", "adapter"}
VerifiedRows     == {"adapter", "geo"}

NoRows == [o \in Sessions |-> {}]

Init ==
    /\ todo = [s \in Sessions |-> <<>>] /\ dash = [s \in Sessions |-> "new"]
    /\ sound = [s \in Sessions |-> TRUE]
    /\ wtodo = [s \in Sessions |-> <<>>] /\ watch = [s \in Sessions |-> "none"]
    /\ wsound = [s \in Sessions |-> TRUE]
    /\ helper = [s \in Sessions |-> "none"]
    /\ marker = [owner |-> None, helper |-> None]
    /\ left = [s \in Sessions |-> {}] /\ snap = [s \in Sessions |-> NoRows]
    /\ faults = 0

Lives(s)       == dash[s] \in {"starting", "up", "leaving"}
Present(kinds) == kinds \cap UNION {left[s] : s \in Sessions}
Swept(k)       == [s \in Sessions |-> left[s] \ {k}]
NoMarker       == [owner |-> None, helper |-> None]

\* The tasks of a recovery that scan() finds a reason for.  The residue
\* record is cleared by emptying it, so once written it is always a reason.
Needed(task) ==
    \/ task = "residue"
    \/ task = "adapter" /\ marker # NoMarker
    \/ task \in Present(Kinds)
Once(task)  == IF Needed(task) THEN <<task>> ELSE <<>>
RecoveryNow == Once("guard") \o Once("residue") \o Once("adapter") \o Once("host")

-----------------------------------------------------------------------------
(* The dashboard.                                                           *)

CanLaunch == Overlap \/ \A s \in Sessions :
    /\ ~Lives(s)
    /\ watch[s] = "watching" => Len(wtodo[s]) + 1 >= Len(WatchProgram)

Launch(s) ==
    /\ dash[s] = "new" /\ CanLaunch
    /\ dash' = [dash EXCEPT ![s] = "starting"]
    /\ todo' = [todo EXCEPT ![s] = StartProgram]
    /\ UNCHANGED <<sound, watchers, helper, marker, left, snap, faults>>

\* The end of the process, with what it held in memory.
Gone(s) == /\ dash' = [dash EXCEPT ![s] = "gone"]
           /\ sound' = [sound EXCEPT ![s] = TRUE]
           /\ snap' = [snap EXCEPT ![s] = NoRows]

Doing(s, task) == Lives(s) /\ todo[s] # <<>> /\ Head(todo[s]) = task
Done(s)        == todo' = [todo EXCEPT ![s] = Tail(@)]

\* A marker whose dashboard still runs: nothing is touched and no marker of
\* our own is written.  The launch goes on all the same.
DashScans(s) ==
    /\ Doing(s, "scan")
    /\ todo' = [todo EXCEPT ![s] =
          IF marker # NoMarker /\ Lives(marker.owner)
          THEN <<"watchdog", "geo", "launch", "record">>
          ELSE RecoveryNow \o <<"mark", "watchdog", "geo", "launch", "record">>]
    /\ UNCHANGED <<dash, sound, watchers, helper, marker, left, snap, faults>>

DashSweeps(s) == \E k \in Kinds :
    /\ Doing(s, k) /\ Done(s)
    /\ left' = Swept(k)
    /\ UNCHANGED <<dash, sound, watchers, helper, marker, snap, faults>>

DashSweepFails(s) == \E k \in Present(Kinds) :
    /\ Doing(s, k) /\ Done(s)
    /\ faults < MaxFaults /\ faults' = faults + 1
    /\ sound' = [sound EXCEPT ![s] = @ /\ (dash[s] = "leaving" => k \notin HeardByDashboard)]
    /\ UNCHANGED <<dash, watchers, helper, marker, left, snap>>

DashMarks(s) ==
    /\ Doing(s, "mark") /\ Done(s)
    /\ marker' = [owner |-> s, helper |-> None]
    /\ UNCHANGED <<dash, sound, watchers, helper, left, snap, faults>>

DashSpawnsWatchdog(s) ==
    /\ Doing(s, "watchdog") /\ Done(s)
    /\ watch' = [watch EXCEPT ![s] = "watching"]
    /\ wtodo' = [wtodo EXCEPT ![s] = WatchProgram]
    /\ UNCHANGED <<dash, sound, wsound, helper, marker, left, snap, faults>>

\* Faulty: the snapshot is of everything, not of routes alone.
DashSnapsAll(s) ==
    /\ Doing(s, "launch") /\ Done(s)
    /\ snap' = [snap EXCEPT ![s] = left]
    /\ helper' = [helper EXCEPT ![s] = "alive"]
    /\ UNCHANGED <<dash, sound, watchers, marker, left, faults>>

\* The snapshot is taken first: what a sweep left is taken for the user's own.
DashLaunchesHelper(s) ==
    /\ Doing(s, "launch") /\ Done(s)
    /\ snap' = [snap EXCEPT ![s] = [o \in Sessions |-> left[o] \cap Routes]]
    /\ helper' = [helper EXCEPT ![s] = "alive"]
    /\ UNCHANGED <<dash, sound, watchers, marker, left, faults>>

DashRecordsHelper(s) ==
    /\ Doing(s, "record") /\ Done(s)
    /\ dash' = [dash EXCEPT ![s] = "up"]
    /\ marker' = IF marker = NoMarker THEN marker
                 ELSE [marker EXCEPT !.helper = s]
    /\ UNCHANGED <<sound, watchers, helper, left, snap, faults>>

\* The helper, or its self-healing, puts the next missing thing in place.
HelperActs(s) ==
    /\ helper[s] = "alive"
    /\ \E i \in 1..Len(HelperInstalls) :
          /\ HelperInstalls[i] \notin left[s]
          /\ \A j \in 1..(i - 1) : HelperInstalls[j] \in left[s]
          /\ left' = [left EXCEPT ![s] = @ \cup {HelperInstalls[i]}]
    /\ UNCHANGED <<dashes, watchers, helper, marker, snap, faults>>

\* tun2socks dies and the helper with it: it clears what it installed, or it
\* is cut short and the rest of its list stays.
HelperEnds(s) ==
    /\ helper[s] = "alive"
    /\ helper' = [helper EXCEPT ![s] = "dead"]
    /\ \/ left' = [left EXCEPT ![s] = {}] /\ UNCHANGED faults
       \/ /\ faults < MaxFaults /\ faults' = faults + 1
          /\ \E i \in 1..Len(HelperRemoves) :
               left' = [left EXCEPT ![s] = @ \cap
                   ToSet(SubSeq(HelperRemoves, i, Len(HelperRemoves)))]
    /\ UNCHANGED <<dashes, watchers, marker, snap>>

Leave(s, program) ==
    /\ dash[s] = "up"
    /\ dash' = [dash EXCEPT ![s] = "leaving"]
    /\ todo' = [todo EXCEPT ![s] = program]
    /\ UNCHANGED <<sound, watchers, helper, marker, left, snap, faults>>

Quit(s)  == Leave(s, QuitProgram)
Abort(s) == Leave(s, AtExitProgram)
Close(s) == Leave(s, CloseProgram)

\* A signal, and a bounded wait.  The helper's handler has raised the latch
\* that makes its cleanup() return at once: everything stays.
DashStopsHelper(s) ==
    /\ Doing(s, "stop") /\ Done(s)
    /\ helper' = [helper EXCEPT ![s] = IF @ = "none" THEN @ ELSE "dead"]
    /\ UNCHANGED <<dash, sound, watchers, marker, left, snap, faults>>

AtExit(s) ==
    /\ Doing(s, "atexit") /\ Done(s)
    /\ sound' = [sound EXCEPT ![s] = TRUE]
    /\ UNCHANGED <<dash, watchers, helper, marker, left, snap, faults>>

\* Faulty: only what the sweeps reported counts.
DashTrustsSweeps(s) ==
    /\ Doing(s, "verify") /\ Done(s)
    /\ UNCHANGED <<dash, sound, watchers, helper, marker, left, snap, faults>>

\* _verify_routes_clear: the table decides, whatever the sweeps said.
DashVerifies(s) ==
    /\ Doing(s, "verify") /\ Done(s)
    /\ sound' = [sound EXCEPT ![s] = @ /\ Present(VerifiedRows) = {}]
    /\ UNCHANGED <<dash, watchers, helper, marker, left, snap, faults>>

\* Rows of the snapshot that are gone are added again, whoever's they were.
DashRestores(s) ==
    /\ Doing(s, "restore") /\ Done(s)
    /\ left' = [o \in Sessions |-> left[o] \cup snap[s][o]]
    /\ UNCHANGED <<dash, sound, watchers, helper, marker, snap, faults>>

\* clear_marker() unlinks the file, whoever wrote it.
DashClears(s) ==
    /\ Doing(s, "clear") /\ Done(s)
    /\ Gone(s)
    /\ marker' = IF sound[s] THEN NoMarker ELSE marker
    /\ UNCHANGED <<watchers, helper, left, faults>>

\* Killed, crashed, or closed: the job object usually takes the helper and
\* its tun2socks along.
Crash(s) ==
    /\ Lives(s)
    /\ Gone(s) /\ todo' = [todo EXCEPT ![s] = <<>>]
    /\ \E reaped \in BOOLEAN :
          /\ helper[s] = "alive" /\ ~Gap /\ marker.helper # s => reaped
          /\ helper' = IF reaped THEN [helper EXCEPT ![s] = "dead"] ELSE helper
    /\ UNCHANGED <<watchers, marker, left, faults>>

-----------------------------------------------------------------------------
(* The watchdog of a session.                                               *)

Watching(s, task) ==
    /\ watch[s] = "watching" /\ dash[s] = "gone"
    /\ wtodo[s] # <<>> /\ Head(wtodo[s]) = task
WatchDone(s) == wtodo' = [wtodo EXCEPT ![s] = Tail(@)]
WatchGone(s) == /\ watch' = [watch EXCEPT ![s] = "gone"]
                /\ wtodo' = [wtodo EXCEPT ![s] = <<>>]
                /\ wsound' = [wsound EXCEPT ![s] = TRUE]

\* A launch that has not written its marker yet, its own recovery not over.
Unmarked(n) == dash[n] = "starting" /\ "mark" \in ToSet(todo[n])

\* Faulty: the marker is read once.
WatchChecksOnce(s) == \E task \in {"check", "recheck"} :
    /\ Watching(s, task)
    /\ task = "recheck" /\ ~Overlap => \A n \in Sessions : ~Unmarked(n)
    /\ IF marker.owner = s \/ task = "recheck"
       THEN WatchDone(s) /\ UNCHANGED <<watch, wsound>>
       ELSE WatchGone(s)
    /\ UNCHANGED <<dashes, helper, marker, left, snap, faults>>

\* Read twice, after the grace period and again before the first removal:
\* a marker that is gone or another session's ends the watch.
WatchChecks(s) == \E task \in {"check", "recheck"} :
    /\ Watching(s, task)
    /\ task = "recheck" /\ ~Overlap => \A n \in Sessions : ~Unmarked(n)
    /\ IF marker.owner = s THEN WatchDone(s) /\ UNCHANGED <<watch, wsound>>
       ELSE WatchGone(s)
    /\ UNCHANGED <<dashes, helper, marker, left, snap, faults>>

\* The helper first, or it would put back what is swept.
WatchKillsHelper(s) ==
    /\ Watching(s, "kill") /\ WatchDone(s)
    /\ LET h == marker.helper
       IN IF h \in Sessions /\ helper[h] = "alive"
          THEN helper' = [helper EXCEPT ![h] = "dead"]
          ELSE UNCHANGED helper
    /\ UNCHANGED <<dashes, watch, wsound, marker, left, snap, faults>>

WatchScans(s) ==
    /\ Watching(s, "scan")
    /\ wtodo' = [wtodo EXCEPT ![s] =
          IF marker # NoMarker /\ Lives(marker.owner)
          THEN <<"geo", "residue", "retire">>
          ELSE RecoveryNow \o <<"geo", "residue", "retire">>]
    /\ UNCHANGED <<dashes, watch, wsound, helper, marker, left, snap, faults>>

WatchSweeps(s) == \E k \in Kinds :
    /\ Watching(s, k) /\ WatchDone(s)
    /\ left' = Swept(k)
    /\ UNCHANGED <<dashes, watch, wsound, helper, marker, snap, faults>>

WatchSweepFails(s) == \E k \in Present(Kinds) :
    /\ Watching(s, k) /\ WatchDone(s)
    /\ faults < MaxFaults /\ faults' = faults + 1
    /\ wsound' = [wsound EXCEPT ![s] = @ /\ k \notin HeardByWatchdog]
    /\ UNCHANGED <<dashes, watch, helper, marker, left, snap>>

\* Faulty: the verdict of the sweeps is not asked for.
WatchRetiresAnyway(s) ==
    /\ Watching(s, "retire") /\ WatchGone(s)
    /\ marker' = IF marker.owner = s THEN NoMarker ELSE marker
    /\ UNCHANGED <<dashes, helper, left, snap, faults>>

WatchRetires(s) ==
    /\ Watching(s, "retire") /\ WatchGone(s)
    /\ marker' = IF marker.owner = s /\ wsound[s] THEN NoMarker ELSE marker
    /\ UNCHANGED <<dashes, helper, left, snap, faults>>

WatchKilled(s) ==
    /\ watch[s] = "watching" /\ WatchGone(s)
    /\ UNCHANGED <<dashes, helper, marker, left, snap, faults>>

\* Power loss: files, the registry and devices stay; routes do not.
Reboot ==
    /\ \E s \in Sessions : Lives(s) \/ watch[s] = "watching"
    /\ dash' = [s \in Sessions |-> IF dash[s] = "new" THEN "new" ELSE "gone"]
    /\ todo' = [s \in Sessions |-> <<>>]
    /\ watch' = [s \in Sessions |-> IF watch[s] = "none" THEN "none" ELSE "gone"]
    /\ wtodo' = [s \in Sessions |-> <<>>]
    /\ helper' = [s \in Sessions |-> IF helper[s] = "none" THEN "none" ELSE "dead"]
    /\ left' = [s \in Sessions |-> left[s] \cap Lasting]
    /\ sound' = [s \in Sessions |-> TRUE] /\ wsound' = [s \in Sessions |-> TRUE]
    /\ snap' = [s \in Sessions |-> NoRows]
    /\ UNCHANGED <<marker, faults>>

-----------------------------------------------------------------------------

DashActs(s) ==
    \/ DashScans(s) \/ DashSweeps(s) \/ DashSweepFails(s) \/ DashMarks(s)
    \/ DashSpawnsWatchdog(s) \/ DashLaunchesHelper(s) \/ DashRecordsHelper(s)
    \/ DashStopsHelper(s) \/ AtExit(s) \/ DashVerifies(s) \/ DashRestores(s)
    \/ DashClears(s)

WatchActs(s) ==
    \/ WatchChecks(s) \/ WatchKillsHelper(s) \/ WatchScans(s)
    \/ WatchSweeps(s) \/ WatchSweepFails(s) \/ WatchRetires(s)

Next ==
    \/ \E s \in Sessions :
          \/ Launch(s) \/ Quit(s) \/ Abort(s) \/ Close(s) \/ Crash(s)
          \/ WatchKilled(s) \/ HelperActs(s) \/ HelperEnds(s) \/ DashActs(s) \/ WatchActs(s)
    \/ Reboot

\* A process that is not killed runs on.  Nothing is asked of the user, of
\* crashes or of the helper.
Spec == Init /\ [][Next]_vars
        /\ \A s \in Sessions : WF_vars(WatchActs(s)) /\ WF_vars(DashActs(s))

-----------------------------------------------------------------------------
(* Properties.                                                              *)

\* Every variable stays in its set.
TypeOK ==
    /\ dash \in [Sessions -> {"new", "starting", "up", "leaving", "gone"}]
    /\ watch \in [Sessions -> {"none", "watching", "gone"}]
    /\ sound \in [Sessions -> BOOLEAN] /\ wsound \in [Sessions -> BOOLEAN]
    /\ helper \in [Sessions -> {"none", "alive", "dead"}]
    /\ marker \in [owner : Sessions \cup {None}, helper : Sessions \cup {None}]
    /\ left \in [Sessions -> SUBSET Kinds] /\ snap \in [Sessions -> [Sessions -> SUBSET Routes]]
    /\ faults \in 0..MaxFaults

\* Whoever retires the marker of a session leaves nothing of that session,
\* but for what its sweeps have no verdict on: the watchdog takes the adapter
\* and the host routes on trust, the exit handler the DNS guard.
RetiredOnlyWhenClean ==
    [][\A s \in Sessions : marker.owner = s /\ marker' = NoMarker =>
          left'[s] \subseteq IF watch[s] = "watching" /\ watch'[s] = "gone"
                             THEN Kinds \ HeardByWatchdog
                             ELSE {"guard"}]_vars

\* Nothing of a session that is up and stays up is swept from under it, by a
\* late watchdog of the session before it above all; only its own helper does.
LiveSessionUntouched ==
    [][\A s \in Sessions : dash[s] = "up" /\ dash'[s] = "up" =>
          left[s] \subseteq left'[s] \/ helper'[s] # helper[s]]_vars

\* A session that ends with its marker in place and its watchdog on watch:
\* in the end the watch is over and what it had is swept, or a marker still
\* says that it may not be, or the user has started another session instead.
CrashSweptOrMarked == \A s \in Sessions :
    dash[s] = "gone" /\ watch[s] = "watching" /\ marker.owner = s
        ~> \/ /\ watch[s] = "gone"
              /\ left[s] \subseteq Kinds \ HeardByWatchdog \/ marker # NoMarker
           \/ \E n \in Sessions \ {s} : dash[n] = "starting"

\* What an earlier session left does not come back once it is removed.
NoResurrection ==
    [][\A s \in Sessions : helper[s] = "dead" => left'[s] \subseteq left[s]]_vars

=============================================================================
