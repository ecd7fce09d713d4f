# TunTop, specified

TunTop is a Windows terminal dashboard that runs a VLESS/SOCKS tunnel: it launches
a *helper* process which brings up a Wintun adapter and `tun2socks`, installs
routes, and prints progress markers; the dashboard follows the markers, repairs
what breaks, and cleans up on stop, exit or crash. What can go wrong in it is rarely
inside one function. It is two threads on one process handle, a repair that races
the user's stop, a route change of which the third step fails.

This directory holds TLA+ modules translated from the Python source, TLC
configurations that check them on small instances, and proofs that TLAPS checks.
Paths below are relative to `src/tuntop/`.

## 1. Inventory

| Part | State | Operations | Talks to |
|---|---|---|---|
| Tunnel state machine (`core/state.py`) | current state, observers, history | `transition`, `try_transition`, `reset`, `subscribe` | observers, called after its lock is released, on the thread that moved it |
| Recovery engine (`core/recovery.py`) | armed incident, `_in_attempt`, pending report, three guards (`_stopped`, `_paused`, `_gave_up`), streak, one worker thread and its event | `report_failure`, `report_success`, `pause`, `resume`, `shutdown`, worker loop | state machine; ladders of repairs registered by the dashboard |
| Dashboard: self-healing wiring (`ui/dashboard.py`) | ladders, observer, `_helper_exit_reason` | observer, marker reports, restart repair, `state` poll | engine, machine, helper |
| Dashboard: lifecycle (`ui/dashboard.py`, `core/tunnel_manager.py`) | `proc`, generation, `_stopping`, `_teardown_lock`, `_stop_requested`, `_start_after_stop`, `_shutting_down`, `_cleanup_done` | [S], [T], [Q], `_managed_start`, `launch`, `stop`, reader, post-exit clean-up, restarts | helper process, machine, engine, Windows routes and adapters |
| Dashboard: live reconfiguration (`ui/dashboard.py`) | `ns` (what it believes the tunnel does), the control file | [V], [Y], [N], [U], the VPN's arrival in the telemetry | the helper, by a file rewritten whole |
| Dashboard: live bypass (`ui/dashboard.py`) | the bypass list, what is known of each entry, `_live_bypass_added`, `_live_geo_added`, `_gw_geo_pending` | resolver pass, [A], [X], [R], re-point of entries and of the country at a change of gateway, sweeps of [Q] | name servers, route transactions, the helper's `[GATEWAY]` marker, netsh |
| Route transactions (`core/routes_txn.py` over `network/routing.py`) | plan, applied operations, result | `add`, `remove`, `commit`, `_rollback` | netsh and PowerShell |
| Startup recovery, crash marker (`core/startup_recovery.py`, `procidentity.py`) | marker file with the session and its helper, pid and creation time of each; route snapshot | scan, recover, write, clear | leftovers of a dead session |
| Cleanup watchdog (`core/cleanup_watchdog.py`) | its own process, the watched session, the verdict of its sweeps | wait, grace, re-check, kill, sweep, retire | marker, helper, routes, adapters |
| DNS guard (`network/dns_guard.py`) | one catch-all name-resolution rule in the registry, an install record, a task for the next boot | install, re-assert, remove, recover | Windows DNS client, Task Scheduler |
| Residue record (`network/residue.py`) | a JSON record, with an owner, of the lowered metric and the registered DoH templates | note, forget, recall | helper, dashboard, startup recovery, watchdog |
| Helper: routes (`tunnel/helper.py`) | `added_routes`, `geoip_added`, the two shadow ledgers, `_live_mode["phys"]`, `_geo_install_cancel` | set-up, shadow, geo batches, gateway change, clean-up, signals | netsh |
| Helper: live mode (`tunnel/helper.py`) | `_live_mode`, `last_vpn_status`, tracked endpoint | poll of the control file, switches, server change, endpoint repair | dashboard, netsh |
| Helper: verification and monitor (`tunnel/helper.py`, `core/markers.py`) | probe counts, last leak verdict, the resolver in use | stability wait, verification, probes, leak check, self-heal, escalation to DoH | dashboard, by markers on stdout that the reader classifies |
| Process guard (`tunnel/exec.py`, `network/procguard.py`) | job objects | spawn, kill tree | Windows |
| Geo data, probes, config, profiles, updates, rendering, build | caches and files | parsing, measuring, drawing | they report to the parts above |

What makes these parts correct, and hard:

* **State machine.** Only edges of its graph are taken. Hard: observers run outside its
  lock, so two threads' events arrive in either order.
* **Recovery engine.** A failure is scheduled once, never lost, attempted at most
  `max_attempts` times; nothing is armed while recovery is off; after `give_up_after`
  exhausted incidents it demands a human. Hard: the repair runs with no lock held, while
  reports, pause, resume and shutdown arrive; the worker sleeps without timeout.
* **Self-healing wiring.** A dead helper is noticed exactly once and restarted; the
  restart calls `stop()` and `launch()`, which pause and resume the engine that runs it;
  the user's stop wins. Hard: four threads move the machine on what they saw.
* **Lifecycle.** One helper at a time; teardowns exclude one another and exclude starts;
  every teardown ends; every queued start happens. Hard: an event, a lock, a thread
  handle and a process handle, tested and set in separate steps.
* **Live reconfiguration.** Dashboard and helper end in agreement, and the proxy's
  server is never without a host route outside the tunnel. Hard: three threads write one
  file, the helper reads it once a second, the VPN goes up and down meanwhile.
* **Live bypass.** What is listed is routed past the tunnel, on the gateway there is,
  and nothing of it outlives the program. Hard: resolver, delete and re-point workers,
  [R] and [Q] share one table and its ledgers with no lock, and each is seconds in
  netsh.
* **Route transactions.** All of the plan or none of it. Hard: netsh refuses, lies and
  leaves other routes in front; undo can fail too.
* **Crash recovery and watchdog.** Whatever a killed session left is removed by
  somebody, and nothing of a live session is. Hard: two dashboards, two watchdogs and a
  helper that outlives them, which agree through one file.
* **DNS guard.** A rule that outlives the tunnel takes the machine's name resolution
  away. A power loss between any two calls must leave it with a remover.
* **Residue.** A change is on record before it is made and stays there until it is
  undone. Hard: read, change and write of one file, by four threads in three processes.
* **Helper routes.** Every route it installs is in a ledger that its clean-up reads, and
  a change of gateway moves all of them without a gap. Hard: gateway workers, geo
  installer, switch and clean-up are threads of their own.
* **Monitor.** The tunnel that works is shown as working, the one that does not as not
  working. Hard: markers cross a pipe, arrive after the helper has died, and meet a
  machine that other threads move.

`PROJECT.json` lists every part with its status, and under `hazards` each of the
difficulties above at the line where it bites.

## 2. Modules

```
TunnelState                 the lifecycle graph, TryMove
  |-- RecoveryEngine        the scheduler and its worker
  |     `-- SelfHealing     the engine wired to helper, reader, poll and user
  |           `-- RecoveryProofs       theorems about both
  |-- Lifecycle             start, stop, quit, clean-up: threads and their lock
  |     `-- LifecycleProofs        theorems about it
  `-- HelperMonitor         probes, markers, pipe, reader, machine
AtomicChange                what a route transaction promises
  `-- RouteTransaction      commit and rollback over the netsh primitives
        |-- MCRouteTransaction     an instance of it
        `-- RouteProofs            theorems about it and LiveReconfig, the refinement
                                   among them
HelperRoutes                the helper's ledgers and the threads that fill them
  `-- HelperProofs          theorems about it and HelperMonitor
LiveReconfig                keys, control file, live mode, endpoint repair
LiveBypass                  list, resolver, two ledgers, re-point, [R], [Q]
  `-- LiveBypassProofs      theorems about it
CrashRecovery               exits, crashes, marker, watchdog, next launch
  `-- CrashRecoveryProofs   theorems about it
DnsGuard                    the catch-all rule, its record and its boot task
  `-- DnsGuardProofs        theorems about it
ResidueRecord               the lowered metric, DoH templates and their record
  `-- ResidueRecordProofs   theorems about it
```

**TunnelState** (`core/state.py`). The states, their classes and the edges, computed
as `_build_transitions` does. `TryMove(s, t)` is the state after `try_transition`:
a refused request changes nothing.

**RecoveryEngine** (`core/recovery.py`). One action per critical section of the
engine lock, or per step between two of them. `incident`, `pending`, `inAttempt`,
`consecutiveFailed` and the three guards are the fields of the same names;
`workerPc` is the place in `_work` (reading the plan, in a timed or untimed wait,
woken but the event not yet cleared, an incident taken, repairing), `wakeup` its
event. `carried` holds reports that `report_failure` took out of `_pending_report`
and passes to itself again after it has released the lock. `announcing` counts
RUNNING transitions whose observer has not run yet. Time is abstract: an armed
incident becomes due in a step of its own, a success ages from "recent" to
"sustained" in another. The machine is shared: `MachineMoves` lets any other thread
take any edge at any moment.

**SelfHealing** (`ui/dashboard.py`). EXTENDS the engine and adds the helper and
everyone who reports about it: the reader at the end of its output, `state` polled
by each frame, progress and failure markers, and the repair `_recover_restart_tunnel`
in its steps: stop, re-arm, spawn, judge. A teardown is one step here. `streak`,
`unserved` and `userDown` are history variables: what happened, as an observer would
count it, for properties about what the docs promise.

**Lifecycle** (`ui/dashboard.py`). The threads as program counters: the UI thread,
the [T] worker, one restart worker, and for each helper a reader and the clean-up
thread it may start. A step ends where another thread can get in between: at the
lock, the `_stopping` event, a transition, the start or end of a process. `Teardown(t)`
is `stop()` or `_cleanup_after_helper_exit()` on thread `t`, `Start(t)` is
`_managed_start()` and `launch()`. A sweep is two steps: ending the helper, then
wiping every route, adapter and rule, of whichever helper. `installed` says whose
installation is left.

**HelperMonitor** (`tunnel/helper.py`, `core/markers.py`, `ui/dashboard.py`). The way
of a measurement to the screen. `phase` is where the helper is: starting, verifying,
in the monitor loop, its leak check or its self-heal. Each probe prints a marker of
the rule table `Verdict` into `pipe`, a bounded queue whose writer waits when it is full;
the reader takes them one by one, moves the machine as `TryMove` allows and reports
failures to an engine reduced to its incident. A dead helper's unread markers go to
`stale`, from where they are still applied. `verified` is history: this helper has
seen its own traffic pass.

**RouteTransaction** (`core/routes_txn.py`, `network/routing.py`). The table maps a
route (prefix, interface and next hop) to its metric, 0 for absent. `AddRoute`,
`DeleteRoute`, `Verify` and `Shadow` are *sets of outcomes*: netsh adds, refuses, or
says Ok and adds nothing; an add over a live route deletes first; a delete that does
not find its route clears the prefix off the interface. `OpSucceeds`, `OpFails`,
`RollbackStep` are the loop bodies of `commit` and `_rollback`. Constants say whether
deletes and probes may fail and which plans may meet which tables.

**AtomicChange** is the abstract specification: from the caller's point of view
one step, to the goal, or nowhere, or, said out loud, to a damaged table.
`RouteTransaction` implements it under the refinement mapping `Atomic`: the caller
sees the old table until the transaction is done.

**HelperRoutes** (`tunnel/helper.py`). A row is a prefix and an egress. `own`, `geo`,
`over` and `saved` are `added_routes`, `geoip_added`, `vpn_override_routes` and
`vpn_saved_routes`. Three kinds of thread work on one `table`: the main thread (shadow
pass, its undoing by a switch, gateway check, clean-up), the installer of the country
routes with its sub-batches, and one worker for each change of gateway, which adds the
new row before it takes the old one. `ending` is how the process ended. `Perils` names
orders of events that break the ledgers; it is empty in the passing run.

**LiveReconfig** (`ui/dashboard.py`, `tunnel/helper.py`). `want` is the dashboard's
`ns`, `mode` the helper's `_live_mode`. A writer opens the control file, writes it and
closes it; two that are open together may leave it `Torn`. The helper's poll takes a
payload (`got`) and applies its keys one at a time in the order of the code (`todo`),
each with the routes it moves. `row` says for each server on which adapter its host
route is; programs beside the tunnel may steal it, and the endpoint repair brings it
back. [U] also removes and installs rows from the dashboard.

**LiveBypass** (`ui/dashboard.py`, `network/routing.py`, `tunnel/helper.py`). A row is a
prefix and an adapter, ours are on one of the `Gateways`, another program's on `"tun"`.
`list`, `st` and `cache` are `ns.bypass_ip`, `_bypass_res_state` and
`_bypass_res_cache`; `ledger` and `geo` are the two ledgers. Each thread is a record
that says where it is and what it has read: `res` the resolver (look up, install,
commit, settle, perhaps once more), `drop` the prefixes the workers of [X] have yet to
delete, `move[k]` the worker of the k-th change of gateway, `gmove` and `gnext` the
worker of the country and the change that waits for it, `gjob` the one of [R], `stop`
how far [Q] is. A step is one round of PowerShell or netsh, or the bookkeeping between
two. What the code does, with its lookups of the egress that may answer with a stale row
of ours, its ledger rewritten from an older reading and its KeyError, is in the actions;
`Perils` names the coincidences it has no answer to. None is in the passing run;
admitted alone, each refutes a property.

**CrashRecovery** (`core/startup_recovery.py`, `core/cleanup_watchdog.py`,
`ui/dashboard.py`, `procidentity.py`). Each dashboard and each watchdog runs a
*program*: the sequence of tasks still before it (`StartProgram`, `QuitProgram`,
`CloseProgram`, `AtExitProgram`, `WatchProgram`), in the order of the code. One step
does one task; a kill or a power loss comes between any two. `left` is what each session
has in the system, `marker` whose things may be left, `snap` the rows recorded at a
launch, which the exit puts back. A removal may fail: a verdict hears of it or does not,
as in the code.

**DnsGuard** (`network/dns_guard.py` and its callers). One step is one PowerShell
call: `arm` (register the boot task), `write`, `record` for an install; `look`,
`sweep`, `forget`, `disarm` for a removal. `armed` is what an installer knows of its
own call, `warned` that the user was told that the rule is not crash-safe.

**ResidueRecord** (`network/residue.py` and its callers). A thread has a sequence of
steps before it (`job`): lowering the metric is `see`, `keep`, `set`; raising it from
memory `unset`, `drop`; from the record `recall`, `reset`, `drop`; a DoH template is
`register`, `note`, `save` and `find`, `remove`, `forget`. `note` and `save` are the
read and the write of one update of the file.

Operators that begin with the comment "Faulty:" are bugs of the kind this code
invites (a dropped guard, an off-by-one, a forgotten wake-up). No specification uses
them. Each is put in the place of a definition after it to see that a property
notices.

### Simplifications

* Logging, statistics, wording and layout are left out everywhere.
* Engine: a ladder has one rung, as all registered ladders do; no caller passes a
  `delay`; every kind reported has a ladder; setting the event is one step with the
  critical section it follows (nothing between them is visible to the worker, which
  clears the event before it reads the plan); the branch for a repair machinery that
  raises is left out (each repair and verify is already guarded).
* SelfHealing: `TearDown` and each of the launch's two halves are one step; Lifecycle
  opens them up.
* Lifecycle: spawning, the generation and STARTING are one step, as are a reader's
  marker and its transition; [Q]'s 60 s wait for the [T] worker may run out only while a
  teardown holds the lock; the exit path's wait for a running stop is left out. Not
  modelled: the startup watchdog. The crash handler of `main` is in CrashRecovery, the
  VPN and bypass toggles in LiveReconfig; here they restart.
* HelperMonitor: time is counted in probe intervals; the engine has one incident and its
  repair is a restart or a wait for the proxy; a user's stop is Lifecycle's.
* RouteTransaction: every prefix is a host prefix, the kind whose shadowing is checked;
  a failing probe reads as an empty table, which is what the code makes of it.
* HelperRoutes: a country prefix stands for one sub-batch, what one netsh call adds; a
  prefix the VPN injects may be among them. Live mode and server routes other than the
  one pinned at the start are LiveReconfig's.
* LiveReconfig: a payload is its keys; the geo keys of it change no state that another
  key reads and are left out. The helper runs: its end is HelperRoutes'.
* LiveBypass: the lists for the second proxy and for a Windows VPN are left out, and so
  is the transport over a VPN; an entry resolves to one address, the families are one;
  each gateway has an adapter of its own; the country is one prefix. The ledger is a
  set: rows that a repeated install appends again are deleted together. Deletes are
  obeyed (RouteTransaction has those that are not), a look-up of the egress always
  answers. `MoveReads` is the reading of the lists and the rewriting of the ledger,
  `GeoSweeps` the sweep and the capture of what is to be put back, `SweepsLedgers` the
  capture and the deletion: one step each. [T]'s sweep is Lifecycle's; the helper runs
  throughout.
* CrashRecovery: what a session leaves is one element per kind; pids are exact, because
  pid and creation time are compared together; the helper of a crashed dashboard has its
  pid recorded (constant `Gap` says otherwise).
* DnsGuard: the rule's content is the helper that wrote it last; `dns.py`'s display
  cache is left out. That a refresh opens no gap rests on what `dns_guard.py:278` says
  of the registry call: it opens an existing key.
* ResidueRecord: a metric is the user's or lowered; the watchdog runs while no dashboard
  does, a marker that is taken over is CrashRecovery's.
* Two dashboards at once are refused by `dashboard.py:10938`; hence `Overlap` is FALSE
  in CrashRecovery and, since the callers then take turns, in DnsGuard and
  ResidueRecord. Configurations named below set it.

## 3. Runs

Passing runs:

| Run | What it asks | Bounds, and why they are enough |
|---|---|---|
| `engine` | does the scheduler keep its promises under any interleaving, and lose no wake-up | two kinds, of which one feeds the guard: a report can be of the kind in repair or not; 2 attempts (first, last), 2 exhausted incidents (below and at the limit), one undelivered RUNNING |
| `healing` | do engine, reader, poll, restart and user agree on the helper | process and proxy kinds, limits as above |
| `lifecycle` | do sweeps under the lock exclude, is [T] never stuck, does every teardown end | one helper, the second launch fails: the waits are among threads, not helpers, and for any number of helpers what is not liveness is proved |
| `routes` | is a commit all or nothing | three routes, two of them with one prefix on two interfaces, plans of up to 3 operations, metrics 1 and 2: a shadowing route, a rollback of two |
| `crash` | is what a dead session left swept or marked, and a live one spared | two sessions, each with helper and watchdog: a session, and the one after it; one removal that fails, so that each verdict is once wrong; a kill of either process and a power loss between any two tasks, without bound |
| `guard` | does the rule always have a remover, and never a gap | two helpers (one that dies, the one after it) and one sweeper; two failing calls, so that arming and a later call can both fail; one wipe by another program |
| `live` | does a change of a running tunnel arrive, and strand no server | two servers (the one kept, the one added or dropped), two resolvers, the three writers of the code; two keys, so that a second overtakes the first; one flip of the VPN, one stolen route, one failure |
| `helper` | is every row in a ledger, does it follow the gateway | two country prefixes of which one is injected by the VPN too, two injected ones; two gateways and two roams (there and back); one undoing of the shadow; two failing calls: an addition, and its roll-back |
| `monitor` | does the display follow the tunnel | a self-heal at the second failed probe, a DNS ladder of three intervals, a pipe of two markers (a writer that waits), one restart, two changes of the world: an outage and its end |
| `bypass` | does the table follow the list, and does nothing outlive [Q] | one entry with two addresses, since entries share only the ledger's lock-free rows, which are disjoint; two gateways, two roams (there and back); three keys, so that an entry is added, removed and added again, or [R] comes between; one changed address, one stolen route, two failures: an addition and its repetition; no peril |
| `residue` | is a lowered metric always on record, and does it come back | two resolvers, one [R] of the dashboard, one refused removal, two kills: the process that made the change, and the one that was to undo it |

What they show.

In the engine: nothing is armed while a repair runs
(`NoDoubleScheduling`); the in-attempt flag is up exactly while the worker owns an
attempt; nothing is armed while recovery is off, not even by a repair that was in
flight when it was turned off; attempts never pass the limit; the streak engages the
guard; a flood of reports never re-times an armed incident. With fairness, an armed
incident always leaves the schedule and shutdown ends the worker even from its
untimed sleep.

In the dashboard: once a death is handled no late repair, poll or
marker leaves the machine claiming that the tunnel is up; a restart, whose own
`stop()` pauses recovery, never leaves it paused. In the lifecycle: of [T], restart
and clean-ups at most one sweeps, although several may pass the check on `_stopping`
together; the [T] claim is dropped on every path; and no teardown waits for ever
(`TeardownsEnd`): [T] returns, `_stopping` is released and [Q] ends the process.

In the routes: at every moment the table is what
the operations still standing describe, and the transaction implements AtomicChange.
The last holds for plans that describe the table they meet and for deletes that are
obeyed; the next section shows why both are needed.

Across crashes: a marker is retired only over a system that is clean but for what the
retiring process has no verdict on (`RetiredOnlyWhenClean` names those kinds, which is
the strongest that holds: the watchdog takes the adapter and the host routes on trust,
the exit handler the DNS guard); a late watchdog spares the session that follows; what
a killed session leaves is swept, or stays marked.

DNS guard: whichever call the machine loses power in, the rule it leaves is one the
boot task removes or one the user was warned of (`PowerLossSafe`). A later install
may rely on an earlier one's task, a removal may disarm a task that a later install has
armed: that they do not is a matter of turns. A refresh opens no gap; a rule that
another program wipes comes back.

Live changes: no switch and no repair takes the host route of a server that goes on
being served; the last payload written is applied, but for a switch to the VPN, which
the helper may refuse; stolen routes come back on the adapter the mode asks for.

Helper routes: every row is in a ledger, or in the hand of a thread that the clean-up
waits for (`RoutesTracked`), so that a clean-up leaves none; a change of gateway
opens no gap; once the network is quiet and no call has failed, all is pinned to the
gateway in use and nothing of the country is in the shadow.

Live bypass: when [Q] is done, no host or country route of the dashboard is left
on a physical adapter (`QuitLeavesNothing`), although the sweeps read ledgers that others
still write; a route the panel shows as direct stays direct through a re-point and through
[R] (`NoGapOnMove`); once user, network and thieves are still, every listed name is routed
at its address over the gateway in use and no other, a name taken off the list is not,
and the country is where its ledger says (`SettlesAsListed`). The run admits the
resolver's installs beside [A], [R] and the sweeps of [Q], its look-ups beside a re-point,
[X]'s deletes beside [R] and the resolver, the entries' re-point beside the country's, and
stripped routes anywhere; what it keeps apart are the perils, listed in
`LiveBypassPerils.cfg` and below.

Monitor: the first RUNNING of a start is the word of the helper that now runs, never of
the one it replaced; the display follows the path (`DisplayFollowsPath`): a tunnel that
works is shown as RUNNING in the end, whatever outages, self-heals and late markers came
before, and a path that stays dead behind a live proxy DEGRADED again and again.

Residue: wherever the process that lowered the metric is killed, the record says so;
a template's record is not dropped while the template is there; the metric comes back.

### Promises the code does not keep

Each line is one sentence of a doc, comment or message, and a behaviour of the code
against it which TLC finds. The first is a run (`helper_signal`) and a finding in
`PROJECT.json`, which quotes the sentence; the others are configurations kept beside
their modules. Each checks the one property named, and is violated; a configuration
with several lines names them in its comment, to be checked one at a time. The lines of
`LiveBypassPerils` are perils, to be put in place of the one it has.

| Configuration, property | The behaviour |
|---|---|
| `HelperRoutesSignal`: `SignalCleansUp` | `_on_signal` sets the latch that makes `cleanup()` return at once: a helper that is signalled exits with all its routes in place |
| `RecoveryEngineShutdown`: `NoRepairAfterShutdown` | the worker has taken an incident; `shutdown()`; the repair starts |
| `SelfHealingCrashLoop`: `CrashLoopEngagesGuard` | every restart's `launch()` calls `resume()`, which zeroes the streak: the guard counts to `give_up_after` only if no restart gets as far as launching |
| `SelfHealingUserStop`: `UserStopSticks` | [T] between a restart's stop and its launch: the tunnel comes up again |
| `SelfHealingProxy`: `ReportedDeathIsServed` | a death reported while a proxy incident is armed is dropped |
| `SelfHealingStale`: `OnlyHealthClosesIncident` | a late RUNNING event closes the incident of a helper that died since |
| `LifecycleTwoHelpers`: `SingleHelper` | a start refused because another is in flight takes the machine to be stranded, resets it and launches a second helper |
| `LifecycleQueued`: `QueuedStartRuns` | [S] during a post-exit clean-up queues a start that nobody will launch |
| `LifecycleWipe`: `LiveHelperKeepsRoutes` | a start that passed the gate before a stop claimed it launches into the sweep |
| `LifecycleOverlap`: `CleanupNeverOverlaps` | [Q] never takes the lock, so a clean-up sweeps beside it |
| `LifecycleEarlyStopped`: `StoppedMeansSwept` | the reader publishes STOPPED in the middle of another owner's sweep |
| `LifecycleDirty`: `DeadHelperIsSwept` | a helper that dies after the sweep but before `_stopping` is cleared is never cleaned up after |
| `RouteTransactionStale`: `FailedMeansUnchanged` | the plan adds a route that is already there, a later operation fails, the rollback deletes it |
| `RouteTransactionLeak`: `FailedOpLeaksNothing` | the delete that cleans up a failed add is refused, unnoticed |
| `RouteTransactionProbe`: `OkMeansApplied` | a refused delete verifies because the probe read no rows |
| `CrashRecoveryTwoSessions`: `LiveSessionUntouched` | a second dashboard's recovery sweeps the first one's things, if the single-instance check is passed (`Overlap`) |
| `CrashRecoveryRevived`: `NoResurrection` | a leftover route that a launch did not manage to sweep is in its snapshot, and its exit puts it back |
| `DnsGuardOverlap`: `PowerLossSafe` | an install writes its rule between a removal's sweep and its disarming of the boot task |
| `LiveReconfigRefuted`: `EndInAgreement` | the control file's write fails in silence, or the helper refuses the switch: the dashboard goes on believing in it |
| `LiveReconfigRefuted`: `KeptServerStaysTracked` | a server that does not resolve while [U] is at work is left out of the payload, and the helper takes away the host route of a server that is still configured |
| `LiveReconfigRefuted`: `NeverStranded` | the VPN goes down under the transport, the one return to the physical adapter fails, and is not tried again |
| `HelperRoutesStale`: `EndsDirect` | the gateway changes before the installer has registered its ledger, or a shadow pass adds a prefix that the installer has just taken out: rows stay on the old egress or in the shadow |
| `HelperRoutesUntracked`: `RoutesTracked` | two gateway workers overlap, or one fails half-way and cannot take back what it added: a row is in no ledger; the change before the registration ("roam early") does this too |
| `HelperMonitorRefuted`: `LeakStaysShown` | a leak that stays is printed once; a passing probe then returns the machine to RUNNING |
| `HelperMonitorRefuted`: `EscalationHappens` | a self-heal that claims success closes the DNS incident, each time before its ladder is due |
| `HelperMonitorRefuted`: `RunningWasProbed` | the engine's wait for the proxy ends in RUNNING, as a self-heal's OK does, before anything was probed through the tunnel |
| `HelperMonitorRefuted`: `DeadProxyShown` | a proxy that dies before the monitor's first look is taken for one that was down already: no marker says so |
| `LiveBypassPerils` "turn first": `QuitLeavesNothing` | a name changes its address, then the gateway changes: the re-point knows the old address no more, and forgets its row without deleting it |
| "late remove": `QuitLeavesNothing`, `SettlesAsListed` | [X] while the resolver has the entry due, or while [R] holds a copy of the ledger: the route comes back after it was removed |
| "roam at work": all three | the gateway changes while the resolver or [R] installs: the row for the old gateway goes in after the re-point |
| "roam twice": `QuitLeavesNothing`, `SettlesAsListed` | two re-point workers overlap, and the second claims nothing of what it moved; or the second marker comes after the country's worker has looked for one and before it is gone, and is lost |
| "theft at work": `SettlesAsListed` | another program's row appears beside the one being put in: the health check asks only for some row off the tunnels |
| "quit at work": `QuitLeavesNothing` | [R] then [Q]: the process ends between the install and the ledger |
| "refused batch": `QuitLeavesNothing`, `SettlesAsListed` | netsh refuses a row of a re-point: the old rows stay, the new ones that went in are nobody's, and it is not tried again |
| `ResidueRecordPreset`: `PresetKept` | a template the user had before is recorded as ours, and removed |
| `ResidueRecordPerils` `Overlap`: `MetricAccounted`, `RecordOutlivesTemplate` | two threads in the read and write of the file: one writes back what the other has changed |
| `SetFails`: `MetricAccounted` | the call that puts the metric back fails in silence, and the record is dropped |
| `MaxLive` = 2: `MetricAccounted` | after a sweep the dashboard still thinks that it has saved the metric: its next [R] lowers it without a record |

Seen while reading, without a run: the comment at `ui/dashboard.py:4220` says that [Q]
still matches by destination what a removal leaves behind, but its sweep takes the
names that are still listed; the docstring of `_reroute_own_bypass_live` leaves the rows of
the VPN and the second proxy alone, the code drops the former together with stale
rows and moves the latter; `_on_vpn_arrived` starts a geo worker without the gate that
keeps [R] from starting a second.

### Fairness

`RecoveryEngine!FairSpec`: weak fairness of the worker, a live thread whose repairs
return (each is bounded by timeouts), and of the backoff running out. Nothing is
assumed of reporters, users or the machine's other movers.

`Lifecycle!FairSpec`: weak fairness of every thread in the middle of a teardown or
start (its blocking calls have timeouts), of the UI loop's own steps, and of readers.
Strong fairness only for the [T] worker at the lock: the lock is released again and
again, and a waiter is not passed over for ever. Keys, deaths and restarts are under
no obligation.

`HelperMonitor!FairSpec`: weak fairness of the helper's loop, of the readers, of the
engine's clock and repair. The proxy, the path and the adapter change as they like,
a bounded number of times. `ResidueRecord!FairSpec`: weak fairness of each thread in
the middle of its steps and of processes that have nothing left to do; no key is owed.

The other specifications state it in `Spec` or `LiveSpec`. CrashRecovery: each dashboard and each
watchdog goes on with its program; a kill ends that, and no start is owed. DnsGuard: a
process goes on with its calls; strong fairness only for `Reassert`, since the monitor,
which looks once in so many probes, comes round again and again. LiveReconfig: the
threads that are writing, the poll, the application of a payload, the repairs and the
VPN check, all loops of the code; no key, no flip, no theft is owed. HelperRoutes:
installer, main thread and gateway workers go on, and an undoing once begun is finished;
no roam and no switch is owed. LiveBypass: the resolver's loop, the workers and [Q] go
on, an entry comes due again, a marker is read; no key, roam, theft or changed address
is owed.

## 4. Proofs

`RecoveryProofs` proves the engine's safety for every set of kinds, every
`MaxAttempts` and `GiveUpAfter` of at least 1, and every `MaxAnnounce`, from the
assumptions named in RecoveryEngine.

The invariant `EngineInv` is the conjunction of the type invariant and five named
parts. Only the type is inductive alone. `NoDoubleScheduling` needs
`AttemptFlagTracksWorker`: a report opens an incident only while the flag is down, and
the worker takes one only from its plan, where the flag is down.
`NothingArmedWhileSuppressed` needs `NoDoubleScheduling`: a repair abandoned because
recovery was paused leaves the schedule alone, so it must have been empty.
`AttemptsBounded` needs its three parts together, along the life of an incident:
armed, taken, repairing. `StreakEngagesGuard` is about two writers, the exhausted
attempt that raises both and `resume` which lowers both. The lemmas go group by group
(`UsersPreserve`, the reports, the clock, the worker), one step per action, and
`EngineInvariant` puts them together. Each part is then a theorem of its own.
`FloodIsAbsorbed` is an action property: from `EngineInv` each step either leaves the
armed incident, empties the schedule, makes it due, or fills an empty one.

`LifecycleProofs` proves, for every number of helpers, and so of readers and clean-up
threads, that at most one of [T], restart and clean-ups sweeps, and that the claim
on [T] follows its worker. Mutual exclusion is not inductive as stated. `LifecycleInv`
adds that a thread that sweeps, or has swept and not unlocked, holds the lock
(`SweeperHoldsLock`); that the UI thread, whose [Q] sweeps without the lock, is never
on the path that releases it (`UiNeverUnlocks`: otherwise its unlock would free
another's lock); and that threads and readers end with the process (`AllGone`: a
reader left over would start a clean-up in a process that is gone). The argument
that is common to all steps is one lemma, `OneThreadMoves`: a step of one thread
which takes the lock only when it is free, gives up only its own, is inside only
with the lock, and moves the claim only with the [T] worker, keeps all of it. Each
action then needs only its types and the side conditions of that lemma. Nothing
is claimed of `_stopping`: the proof shows that the lock alone does the work, and
the runs above show that the event alone would not.

`DnsGuardProofs` proves, for any helpers, sweepers, numbers of failing calls and
wipes, that the rule which survives a power loss is one the boot task removes or one
the user was warned of (`PowerLossIsSafe`), and that a refresh has no gap
(`RefreshHasNoGap`), both for processes that take turns (`~Overlap`; a single
dashboard starts and stops its helpers one after the other, and `DnsGuardOverlap.cfg`
shows the promise broken without it). `PowerLossSafe` alone is
not inductive: that a write is safe depends on what the arming call before it did, and
that a disarming is depends on what the sweep before it found. The invariant
`GuardInv` adds three parts. `Turns`: at most one process is in the middle of an operation.
`ArmedKeepsTask`: between an installer's successful arming and its write the task is
there. `DisarmsNothing`: a removal that has reached the step which disarms has left no
rule. One lemma per call; the theorems put them together.

`RecoveryProofs` also carries the engine over to the dashboard, with no hypothesis but the
assumptions of the two modules: `DashSpec => []EngineInv`
(`EngineSurvivesRestarts`), although the engine's repairs here pause and resume it and
move its machine. Its step lemmas are those of the engine alone; what the dashboard
adds (`TearDown`, the launches, the reader, the poll, the user) is new. The invariant
`DashInv` is `EngineInv`, the panel's claim, the re-arming, and `StepTracksRestart`: a
restart is under way only while the worker repairs a kind that restarts; without it a
verdict on one repair could come in the middle of another's restart. The panel's claim
is about the graph of states: from those that claim nothing there is no edge to one that
does, save through a launch.

`RouteProofs` proves, for any routes, interfaces, metrics and plans of any
length, that the table is at every step what the standing operations describe, that a
failed operation leaves nothing, that failure means unchanged and success means applied,
and that the transaction implements AtomicChange (`CommitIsAtomic`). Hypotheses:
`Dependable`, deletes are obeyed and probes read what is there, and `PlansFit`, a plan is
about different routes, as it found them. Each is needed: `RouteTransactionLeak.cfg`,
`RouteTransactionProbe.cfg` and `RouteTransactionStale.cfg` break the promises without
them. The table alone is not inductive: `TxnInv` adds that what stands is a prefix of the
plan and that the plan's routes differ. So an operation about to run finds its route as
the transaction found it, and one about to be undone finds it as it left it. What a
sequence of operations describes is not computed by induction: it is the last operation
on each route, and on different routes there is only one.

`RouteProofs` also proves of LiveReconfig, for any servers and resolvers and any number
of keys, flips of the VPN, thefts and failures, that no switch and no repair leaves a
server which goes on being served without its route, unless an addition failed or the VPN
it rides is down (`RoutesKept`), and that every variable stays in its set (`LiveTypes`).
There is no hypothesis but `LiveAssumption`, part of which is that "nothing" and "torn"
are no payloads. The invariant `LiveInv` is one of
types, of those who hold something as well: an open file holds a whole payload, what
the helper applies was whole when it was read. What makes `RoutesKept` true is then in one
lemma on additions (`AddAllServes`) and one on switches (`SwitchServes`): a switch onto a
VPN that is not routed is refused before it has touched a route, and everything else that
removes a route adds it in the same step.

`HelperProofs` proves, for any prefixes and egresses and any number of roams,
switches and failing calls, that no row of the helper's is out of reach of its clean-up
(`RoutesNeverLost`) and that a re-point leaves no gap (`MoveLeavesNoGap`), without the
three perils that break the former: `Settled` excludes "roam early", "roam twice" and "half
move", and allows "late shadow". The country rests on what a move knows (`MoveKnows`): it
is alone, the ledger holds exactly the rows it puts in, none of them is in the table before
it adds them, all are before it drops the old ones. That it is alone is `InOrder`, that
the clean-up finds no thread at work is `Joins`. Of the shadow, `ShadowInv` says that a
row in the tunnel is in the shadow's ledger unless it is being given back, and that what
is being given back no pass is about to shadow.

`HelperProofs` also proves of HelperMonitor, for any size of the pipe and any number of
retries, restarts and changes of the world, that every variable stays in its set
(`MonitorTypes`) and that the first RUNNING of a start was earned by the helper that runs
(`FirstRunning`), with no hypothesis but `MonitorAssumption`. The second is about markers
far apart: `verified` is set when READY is printed,
and the machine moves when it is read, after any number of restarts. `OpeningInOrder`
says where in the pipe the announcement is: ACTIVE is first, READY or what stands for it
second, and the machine is VERIFYING only as long as the announcement is the next to be
read. So no later OK of a probe or a self-heal can be the first to say RUNNING. What a
replaced helper left unread is in none of this: its reader leaves at its next line
(`StaleLeaves`), and if it read on the property fails, as the mutant `StaleReads` shows.

`ResidueRecordProofs` proves, for any resolvers and numbers of kills and refused removals,
that the record of a template is not dropped while the template is registered
(`RecordKept`), for one operation at a time (`InTurn`), and that a lowered metric is always on
record (`LoweredIsOnRecord`), if also putting it back works and a dashboard lowers it once
(`Dependable`). `ResidueRecordPerils.cfg` refutes both without the former and the second
without either of the latter. A thread has a sequence of steps before it, so the first
half of the proof is about sequences: what is left of a program is `Planned`, each step
followed by one that follows it in the code (`SuffixHead`, `ProgramsPlanned`). `Turns` says
who may be between two steps: one thread, and at most a sweep that waits to end the
helper; a sweep that goes on has ended it. Then what a merge has read is still in the file
(`CopiesFresh`), and each step finds what the step before it left (`TemplatesReady`,
`MetricReady`: a `set` finds the record, a `drop` the user's metric, a `forget` no
template). One lemma per step, per beginning and per end; `EndedKeeps` is common to the
deaths, which may come between any two steps.

`LiveBypassProofs` proves, for any entries, addresses and gateways and any number of
keys, roams, turns, thefts and failures, that nothing of the dashboard's is left when
[Q] is done (`NothingLeft`) and that a route shown as direct stays direct while it is
moved (`StaysDirect`). `Calm` excludes the perils but "theft at work"; with each of the
others one of the two is refuted by TLC. Neither is inductive: [Q] clears the table from
ledgers, so it catches everything only if every row was at all times in somebody's hands.
`BypassInv` says whose. `Covered`: a host row is in the ledger, or the resolver is about
to note it, a worker to delete it, or a move to claim it. `Steady`: it is on the gateway
there is, unless a change has yet to be followed; so the resolver and the deletes, which
look up where a row is, find it. `MoveKnows`: a move holds exactly the ledger's rows that
are elsewhere, and after its deletes no other is left. `Answered`: until a name changes
its address the ledger names only addresses that are known, so a move forgets no row, and
a removal drops all rows of its entry. `Undisturbed` and `OneRoam` say who may be at work
meanwhile. One lemma per action, on frames that say what each group of them leaves alone;
`RowsGoWhenReplaced` gives `StaysDirect`: a row leaves the table only by a thread that has
the entry in hand, or when another of the same prefix is in. The latter needs `Replaced`,
and that what [R] puts back is in the ledger (`JobKnows`).

`CrashRecoveryProofs` proves, for any sessions, in any number, and any number of
removals that fail, with a kill or a power loss between any two tasks, that a marker is
retired only over a system that holds nothing of its session but what the one who
retires it has no verdict on (`MarkerRetiredClean`), and that nothing is swept from
under a session that is up (`LiveSessionSpared`). Hypothesis `InTurn`: sessions do not
overlap (`~Overlap`, the single-instance mutex; `CrashRecoveryTwoSessions.cfg` refutes
the second without it), and no helper outlives a crash before its PID is recorded
(`~Gap`). Both promises are about single steps and say nothing of what led there;
`CrashInv` does. A process is known by its place in its program, counted from the end:
`Planned` says which task has how many after it, whichever sweeps a scan left out
(`AfterScanShape`, `AfterRescanShape`). `OneLive`: at most one dashboard lives; the
marker is its own from the moment it writes it (`Owned`). `WatchKnows`: a watchdog
past its second reading of the marker is the only one, its session is dead and none
lives; past the kill its helper is dead; past the scan, whatever it has a verdict on is
swept or is still to be swept, or the verdict is bad. `ExitKnows` is the same of the exit
handler. That the kill ends the helper is `Recorded`: one that outlives its dashboard is
the one in the marker. That an exit puts back nothing of its own is `Unused`: its
snapshot is older than its helper. A living dashboard leaves a watchdog nothing to know,
a watchdog at work leaves no dashboard to know anything, so each step disturbs one of
the two: `DoneKeeps`, `ExitLearns`, `WatchLearns` say so once for all tasks, and each
action has a lemma on them.

Only model-checked is liveness, which is out of the prover's reach: that shutdown ends the
engine's worker and teardowns end, that an armed incident leaves, that a crash is swept or
marked, that the helper's routes end on the gateway it has, that the guard is kept, that
the metric comes back, that a control file is applied and endpoints are healed, that the
list settles and the display follows the path. Every safety property of a passing run is
proved. What fails is only refuted by TLC.

## 5. Not modelled, and what is next

Not modelled:

* the startup watchdog (`ui/dashboard.py:9013`): a thread that ends a helper which is
  not ready in time;
* the helper's `configure_tun` and its pre-flight checks: sequences of netsh calls, of
  which only the routes matter to the modules above; its second proxy's pipe;
* job objects and process trees (`tunnel/exec.py`, `network/procguard.py`), seen as the
  death of a helper with its dashboard;
* geo parsing, probes of the outside world, configuration, profiles, updates, drawing,
  build scripts: they hold no state that two threads of the tunnel share, or are pure
  input and output;
* the texts of PowerShell and netsh commands: what they do is in the actions.

Next: the startup watchdog in Lifecycle; what the helper knows of a roam that comes
early or twice; the second proxy's pipe.

## 6. Running

    tlc -config RecoveryEngine.cfg RecoveryEngine.tla     # and so for each run of PROJECT.json
    tlapm RecoveryProofs.tla
    tlapm LifecycleProofs.tla
    tlapm DnsGuardProofs.tla
    tlapm RouteProofs.tla
    tlapm HelperProofs.tla
    tlapm ResidueRecordProofs.tla
    tlapm LiveBypassProofs.tla
    tlapm CrashRecoveryProofs.tla
