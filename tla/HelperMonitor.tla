--------------------------- MODULE HelperMonitor ---------------------------
(***************************************************************************)
(* How the dashboard knows how the tunnel is.  The helper verifies its     *)
(* start, then monitors the local proxy and the path through the TUN and   *)
(* prints markers (tuntop/tunnel/helper.py); they cross the stdout pipe;   *)
(* the reader thread of that helper classifies each one                    *)
(* (tuntop/core/markers.py) and moves the machine or reports a failure     *)
(* (tuntop/ui/dashboard.py); the recovery engine restarts the helper.      *)
(*                                                                         *)
(* The engine is reduced to its one incident, its age in probe intervals,  *)
(* and the report absorbed by a running repair; its inside is module       *)
(* RecoveryEngine's, and a user's stop is module Lifecycle's.              *)
(***************************************************************************)
EXTENDS TunnelState, Sequences

CONSTANTS Retries,      \* --monitor-retries: failed probes before a self-heal
          DnsCycles,    \* first_delay of the DNS ladder, in probe intervals
          MaxPipe,      \* bound: markers the pipe holds before the writer waits
          MaxRestarts,  \* bound: restarts without a success in between
          MaxShocks     \* bound: changes of the world

ASSUME MonitorAssumption ==
    /\ Retries \in Nat \ {0} /\ DnsCycles \in Nat \ {0} /\ MaxPipe \in Nat \ {0}
    /\ MaxRestarts \in Nat /\ MaxShocks \in Nat

VARIABLES
    proxy,      \* the local SOCKS5 port accepts connections
    path,       \* what the TUN does with traffic
    adapter,    \* the Wintun adapter exists
    forwarder,  \* tun2socks runs
    shocks,     \* changes of the world so far
    phase,      \* where the helper is
    proxyUp,    \* proxy_up: the last SOCKS answer
    fails,      \* consecutive failed probes
    lastLeak,   \* last_leak: the last leak verdict printed
    dns,        \* the resolver: plain, DoH asked for but not registered, or DoH
    fresh,      \* the SOCKS port was looked at since the last probe
    pipe,       \* markers the reader has not read
    stale,      \* markers of the previous helper its reader has not read
    machine,    \* the tunnel's state
    incident,   \* the engine's incident; WAITING while it waits for the proxy
    waiting,    \* the report absorbed by that wait
    age,        \* probe intervals since the incident opened
    restarts,   \* restarts since the last success
    verified    \* history: this helper saw its own traffic pass

worldVars  == <<proxy, path, adapter, forwarder, shocks>>
helperVars == <<phase, proxyUp, fails, lastLeak, dns, fresh, verified>>
engineVars == <<incident, waiting, age, restarts>>
dashVars   == <<stale, machine, engineVars>>
monitorVars == <<worldVars, helperVars, pipe, dashVars>>

Paths      == {"ok", "nodns", "dead", "leak"}
Kinds      == {"DNS", "PROXY", "ROUTES", "ADAPTER", "PROCESS"}
Monitoring == {"monitor", "leak", "heal"}

-----------------------------------------------------------------------------
(* The markers and their verdicts: the state asked for, and the failure    *)
(* kind reported.                                                          *)

Verdict ==
    [ ACTIVE           |-> [target |-> "VERIFYING",  kind |-> "none"],
      READY            |-> [target |-> "RUNNING",    kind |-> "none"],
      START_DEGRADED   |-> [target |-> "DEGRADED",   kind |-> "DNS"],
      START_LOOP       |-> [target |-> "DEGRADED",   kind |-> "ROUTES"],
      SELF_HEALING     |-> [target |-> "RECOVERING", kind |-> "none"],
      SELF_HEAL_OK     |-> [target |-> "RUNNING",    kind |-> "none"],
      ADAPTER_GONE     |-> [target |-> "FAILED",     kind |-> "ADAPTER"],
      SELF_HEAL_FAILED |-> [target |-> "DEGRADED",   kind |-> "ROUTES"],
      PROXY_DOWN       |-> [target |-> "DEGRADED",   kind |-> "PROXY"],
      PROXY_UP         |-> [target |-> "none",       kind |-> "none"],
      TUN2SOCKS_DEAD   |-> [target |-> "FAILED",     kind |-> "PROCESS"],
      PROBE_FAILED     |-> [target |-> "DEGRADED",   kind |-> "DNS"],
      PROBE_OK         |-> [target |-> "RUNNING",    kind |-> "none"],
      LEAK             |-> [target |-> "DEGRADED",   kind |-> "none"],
      LEAK_OK          |-> [target |-> "RUNNING",    kind |-> "none"] ]

Markers == DOMAIN Verdict

\* applies_in: a passed leak check speaks only to a tunnel that is DEGRADED.
Target(m) ==
    IF m = "LEAK_OK" /\ machine # "DEGRADED" THEN "none" ELSE Verdict[m].target

\* How long a ladder leaves the helper to repair itself.
FirstDelay(kind) ==
    CASE kind = "DNS" -> DnsCycles [] kind = "ROUTES" -> 1 [] OTHER -> 0

MonitorTypeOK ==
    /\ proxy \in BOOLEAN /\ path \in Paths /\ adapter \in BOOLEAN
    /\ forwarder \in BOOLEAN /\ shocks \in 0..MaxShocks
    /\ phase \in {"pipe", "routes", "verify", "settle", "gone", "off"} \cup Monitoring
    /\ proxyUp \in BOOLEAN /\ fails \in 0..(Retries - 1) /\ fresh \in BOOLEAN
    /\ lastLeak \in {"none", "ok", "leak", "inconclusive"}
    /\ dns \in {"auto", "wanted", "doh"} /\ verified \in BOOLEAN
    /\ pipe \in Seq(Markers) /\ Len(pipe) <= MaxPipe
    /\ stale \in Seq(Markers) /\ Len(stale) <= MaxPipe
    /\ machine \in TunnelStates
    /\ incident \in Kinds \cup {"none", "WAITING"}
    /\ waiting \in Kinds \cup {"none"}
    /\ age \in 0..DnsCycles /\ restarts \in 0..MaxRestarts

MonitorInit ==
    /\ proxy \in BOOLEAN /\ path \in Paths /\ adapter = TRUE /\ forwarder = TRUE
    /\ shocks = 0
    /\ phase = "pipe" /\ proxyUp = TRUE /\ fails = 0 /\ lastLeak = "none"
    /\ dns = "auto" /\ fresh = FALSE /\ verified = FALSE
    /\ pipe = <<>> /\ stale = <<>> /\ machine = "STARTING"
    /\ incident = "none" /\ waiting = "none" /\ age = 0 /\ restarts = 0

-----------------------------------------------------------------------------
(* The world. *)

WorldChanges ==
    /\ shocks < MaxShocks /\ shocks' = shocks + 1
    /\ \/ proxy' = ~proxy /\ UNCHANGED <<path, adapter, forwarder>>
       \/ path' \in Paths \ {path} /\ UNCHANGED <<proxy, adapter, forwarder>>
       \/ /\ phase \in Monitoring /\ adapter
          /\ adapter' = FALSE /\ UNCHANGED <<proxy, path, forwarder>>
       \/ /\ phase \in Monitoring /\ forwarder
          /\ forwarder' = FALSE /\ UNCHANGED <<proxy, path, adapter>>
    /\ UNCHANGED <<helperVars, pipe, dashVars>>

\* A TCP connect to a literal address passes; a request by name passes.
Carries  == proxy /\ forwarder /\ adapter /\ path # "dead"
Resolves == Carries /\ (path = "nodns" => dns = "doh")

-----------------------------------------------------------------------------
(* The helper: one thread. *)

Prints(m) == Len(pipe) < MaxPipe /\ pipe' = Append(pipe, m)

\* start_tun2socks_pipe: a refused port ends the helper.
PipeStarts ==
    /\ phase = "pipe"
    /\ phase' = IF proxy THEN "routes" ELSE "gone"
    /\ UNCHANGED <<worldVars, proxyUp, fails, lastLeak, dns, fresh, verified,
                   pipe, dashVars>>

RoutesIn ==
    /\ phase = "routes"
    /\ Prints("ACTIVE")
    /\ phase' = "verify"
    /\ UNCHANGED <<worldVars, proxyUp, fails, lastLeak, dns, fresh, verified, dashVars>>

\* wait_for_tunnel_stable: names that do not resolve over a path that carries
\* packets ask for DoH, once, and the second round is run if it registered.
Stable ==
    IF Carries /\ ~Resolves /\ dns = "auto"
    THEN dns' \in {"wanted", "doh"} /\ verified' = (dns' = "doh")
    ELSE verified' = Resolves /\ UNCHANGED dns

\* The start is announced by what verify_endpoints_off_tun and the probes
\* found.  Whether the endpoints loop is module LiveReconfig's business.
Verified ==
    /\ phase = "verify"
    /\ Stable
    /\ \E endpointsOk \in BOOLEAN :
          Prints(IF ~endpointsOk THEN "START_LOOP"
                 ELSE IF verified' THEN "READY" ELSE "START_DEGRADED")
    /\ phase' = "settle"
    /\ UNCHANGED <<worldVars, proxyUp, fails, lastLeak, fresh, dashVars>>

MonitorBegins ==
    /\ phase = "settle"
    /\ proxyUp' = proxy
    /\ phase' = "monitor"
    /\ UNCHANGED <<worldVars, fails, lastLeak, dns, fresh, verified, pipe, dashVars>>

\* The 5 s clock: the port is looked at between two probes, and a change of
\* its answer is printed.
SocksChecked ==
    /\ phase = "monitor" /\ forwarder
    /\ ~fresh \/ proxy # proxyUp
    /\ fresh' = TRUE
    /\ proxyUp' = proxy
    /\ IF proxy = proxyUp THEN UNCHANGED <<pipe, fails>>
       ELSE /\ Prints(IF proxy THEN "PROXY_UP" ELSE "PROXY_DOWN")
            /\ fails' = IF proxy THEN 0 ELSE fails
    /\ UNCHANGED <<worldVars, phase, lastLeak, dns, verified, dashVars>>

\* The monitor interval has passed, on the engine's clock as well.
ProbeDue ==
    /\ phase = "monitor" /\ fresh
    /\ fresh' = FALSE
    /\ age' = IF incident = "none" \/ age = DnsCycles THEN age ELSE age + 1
    /\ UNCHANGED <<worldVars, proxyUp, stale, machine, incident, waiting, restarts>>

\* No upstream: neither the probe nor the self-heal could say anything.
ProbeSkipped ==
    /\ ProbeDue /\ ~proxyUp
    /\ lastLeak' = "none"
    /\ UNCHANGED <<phase, fails, dns, verified, pipe>>

ProbePasses ==
    /\ ProbeDue /\ proxyUp /\ Resolves
    /\ Prints("PROBE_OK")
    /\ fails' = 0 /\ verified' = TRUE
    /\ phase' = "leak"
    /\ UNCHANGED <<lastLeak, dns>>

\* Faulty: only the first failure of a row is printed, as a leak is.
FailsOnChange ==
    /\ ProbeDue /\ proxyUp /\ ~Resolves
    /\ IF lastLeak = "inconclusive" THEN UNCHANGED pipe ELSE Prints("PROBE_FAILED")
    /\ lastLeak' = "inconclusive"
    /\ fails' = (fails + 1) % Retries
    /\ phase' = IF fails' = 0 THEN "heal" ELSE "monitor"
    /\ UNCHANGED <<dns, verified>>

\* Faulty: one failure more than allowed before the self-heal.
FailsOneMore ==
    /\ ProbeDue /\ proxyUp /\ ~Resolves
    /\ Prints("PROBE_FAILED")
    /\ lastLeak' = "none"
    /\ fails' = IF fails = Retries THEN 0 ELSE fails + 1
    /\ phase' = IF fails' = 0 THEN "heal" ELSE "monitor"
    /\ dns' = IF fails' = 0 /\ dns = "auto" THEN "wanted" ELSE dns
    /\ UNCHANGED verified

\* The last allowed failure asks for DoH and for the self-heal.
ProbeFails ==
    /\ ProbeDue /\ proxyUp /\ ~Resolves
    /\ Prints("PROBE_FAILED")
    /\ lastLeak' = "none"
    /\ fails' = (fails + 1) % Retries
    /\ phase' = IF fails' = 0 THEN "heal" ELSE "monitor"
    /\ dns' = IF fails' = 0 /\ dns = "auto" THEN "wanted" ELSE dns
    /\ UNCHANGED verified

\* The leak verdict is printed only when it changes.
LeakChecked ==
    /\ phase = "leak"
    /\ \E status \in {"inconclusive"}
                     \cup (IF Resolves THEN {IF path = "leak" THEN "leak" ELSE "ok"}
                           ELSE {}) :
          /\ lastLeak' = status
          /\ IF status \in {lastLeak, "inconclusive"} THEN UNCHANGED pipe
             ELSE Prints(IF status = "leak" THEN "LEAK" ELSE "LEAK_OK")
    /\ phase' = "monitor"
    /\ UNCHANGED <<worldVars, proxyUp, fails, dns, fresh, verified, dashVars>>

\* self_heal_tunnel, in two steps: the announcement, then the work and its
\* outcome.  configure_tun registers DoH if it can, and re-adding the routes
\* may bring a dead path back.
HealBegins ==
    /\ phase = "heal" /\ fresh = FALSE
    /\ Prints("SELF_HEALING")
    /\ fresh' = TRUE
    /\ UNCHANGED <<worldVars, phase, proxyUp, fails, lastLeak, dns, verified, dashVars>>

HealEnds ==
    /\ phase = "heal" /\ fresh
    /\ \/ ~adapter /\ Prints("ADAPTER_GONE") /\ UNCHANGED <<dns, path>>
       \/ adapter /\ Prints("SELF_HEAL_FAILED") /\ UNCHANGED <<dns, path>>
       \/ /\ adapter /\ Prints("SELF_HEAL_OK")
          /\ dns' \in {dns} \cup (IF dns = "wanted" THEN {"doh"} ELSE {})
          /\ path' \in {path} \cup (IF path = "dead" THEN {"ok"} ELSE {})
    /\ fresh' = FALSE
    /\ phase' = "monitor"
    /\ UNCHANGED <<proxy, adapter, forwarder, shocks, proxyUp, fails, lastLeak,
                   verified, dashVars>>

\* The loop ends with tun2socks; cleanup follows.
ForwarderMissed ==
    /\ phase = "monitor" /\ ~forwarder
    /\ Prints("TUN2SOCKS_DEAD")
    /\ phase' = "gone"
    /\ UNCHANGED <<worldVars, proxyUp, fails, lastLeak, dns, fresh, verified, dashVars>>

HelperStep ==
    \/ PipeStarts \/ RoutesIn \/ Verified \/ MonitorBegins
    \/ SocksChecked \/ ProbeSkipped \/ ProbePasses \/ ProbeFails
    \/ LeakChecked \/ HealBegins \/ HealEnds \/ ForwarderMissed

-----------------------------------------------------------------------------
(* The dashboard. *)

\* report_failure: an open incident keeps its place; a report during a wait
\* for the proxy is absorbed.
Reports(kind) ==
    IF kind = "none" THEN UNCHANGED <<incident, waiting, age>>
    ELSE IF incident = "WAITING"
    THEN waiting' = kind /\ UNCHANGED <<incident, age>>
    ELSE IF incident = "none"
    THEN incident' = kind /\ age' = 0 /\ UNCHANGED waiting
    ELSE UNCHANGED <<incident, waiting, age>>

\* A verdict is applied; a RUNNING it reaches is a success, which closes an
\* incident that is not being repaired.
Applied(m) ==
    /\ machine' = TryMove(machine, Target(m))
    /\ IF machine' = "RUNNING" /\ machine # "RUNNING"
       THEN /\ incident' = IF incident = "WAITING" THEN incident ELSE "none"
            /\ age' = 0 /\ restarts' = 0
            /\ UNCHANGED waiting
       ELSE Reports(Verdict[m].kind) /\ UNCHANGED restarts

ReaderApplies ==
    /\ pipe # <<>>
    /\ Applied(Head(pipe))
    /\ pipe' = Tail(pipe)
    /\ UNCHANGED <<worldVars, helperVars, stale>>

\* Faulty: the reader of the previous helper reads on.
StaleReads ==
    /\ stale # <<>>
    /\ Applied(Head(stale))
    /\ stale' = Tail(stale)
    /\ UNCHANGED <<worldVars, helperVars, pipe>>

\* The reader of a superseded helper leaves at its next line.
StaleLeaves ==
    /\ stale # <<>>
    /\ stale' = <<>>
    /\ UNCHANGED <<worldVars, helperVars, pipe, machine, engineVars>>

\* End of output: the machine is walked down, and a death no marker explained
\* is reported.
ReaderSeesExit ==
    /\ phase = "gone" /\ pipe = <<>>
    /\ phase' = "off"
    /\ machine' = TryMove(TryMove(machine, "STOPPING"), "STOPPED")
    /\ Reports(IF forwarder THEN "PROCESS" ELSE "none")
    /\ UNCHANGED <<worldVars, proxyUp, fails, lastLeak, dns, fresh, verified,
                   pipe, stale, restarts>>

\* Without a helper to probe, the ladder's delay runs on.
DelayRuns ==
    /\ phase = "off" /\ incident \in Kinds /\ age < FirstDelay(incident)
    /\ age' = age + 1
    /\ UNCHANGED <<worldVars, helperVars, pipe, stale, machine, incident,
                   waiting, restarts>>

\* stop() and launch(): a new helper, adapter and forwarder, and a new reader;
\* what the old helper printed last stays with the old reader.
Relaunch ==
    /\ phase' = "pipe" /\ machine' = "STARTING"
    /\ proxyUp' = TRUE /\ fails' = 0 /\ lastLeak' = "none" /\ dns' = "auto"
    /\ fresh' = FALSE /\ verified' = FALSE
    /\ adapter' = TRUE /\ forwarder' = TRUE
    /\ path' \in {path} \cup (IF path = "dead" THEN {"ok"} ELSE {})
    /\ pipe' = <<>> /\ stale' = pipe
    /\ incident' = "none" /\ waiting' = "none" /\ age' = 0
    /\ UNCHANGED <<proxy, shocks>>

EngineRestarts ==
    /\ incident \in Kinds \ {"PROXY"} /\ age >= FirstDelay(incident)
    /\ restarts < MaxRestarts /\ restarts' = restarts + 1
    /\ Relaunch

\* [S] on a tunnel that is down re-arms the engine.
UserStarts ==
    /\ phase = "off"
    /\ restarts' = 0
    /\ Relaunch

\* The PROXY ladder waits; it restarts nothing.
ProxyWaitBegins ==
    /\ incident = "PROXY"
    /\ incident' = "WAITING"
    /\ machine' = TryMove(machine, "RECOVERING")
    /\ UNCHANGED <<worldVars, helperVars, pipe, stale, waiting, age, restarts>>

\* The wait ends, and the absorbed report takes its turn.  If the port
\* answered the repair is verified, and the engine itself says RUNNING.
ProxyWaitEnds ==
    /\ incident = "WAITING"
    /\ incident' = IF waiting = "PROXY" THEN "none" ELSE waiting
    /\ waiting' = "none" /\ age' = 0
    /\ machine' = IF proxy /\ machine \in {"RECOVERING", "DEGRADED"} THEN "RUNNING"
                  ELSE IF machine = "RECOVERING" THEN "DEGRADED" ELSE machine
    /\ UNCHANGED <<worldVars, helperVars, pipe, stale, restarts>>

DashStep ==
    \/ ReaderApplies \/ StaleLeaves \/ ReaderSeesExit
    \/ DelayRuns \/ EngineRestarts \/ ProxyWaitBegins \/ ProxyWaitEnds

MonitorNext == WorldChanges \/ HelperStep \/ DashStep \/ UserStarts

MonitorSpec == MonitorInit /\ [][MonitorNext]_monitorVars

\* Every thread goes on; the world and the user owe nothing.
FairSpec ==
    /\ MonitorSpec
    /\ WF_monitorVars(HelperStep) /\ WF_monitorVars(ReaderApplies)
    /\ WF_monitorVars(StaleLeaves) /\ WF_monitorVars(ReaderSeesExit)
    /\ WF_monitorVars(DelayRuns) /\ WF_monitorVars(EngineRestarts)
    /\ WF_monitorVars(ProxyWaitBegins) /\ WF_monitorVars(ProxyWaitEnds)

-----------------------------------------------------------------------------
(* Properties. *)

\* What the panel shows follows the path in the end, by whatever outages,
\* self-heals and late markers it got there: a tunnel that works is shown as
\* RUNNING, and a path that stays dead behind a live proxy as DEGRADED, again
\* and again, whatever the self-heals claim.
Monitored == phase \in Monitoring /\ adapter /\ forwarder /\ proxy
Works     == Monitored /\ path = "ok"
PathDead  == Monitored /\ path = "dead"

DisplayFollowsPath ==
    /\ <>[]Works => <>[](machine = "RUNNING")
    /\ <>[]PathDead => []<>(machine = "DEGRADED")

\* The first RUNNING of a start is the word of the helper that now runs and
\* has seen its own traffic pass, never of the one it replaced.
FirstRunningVerified ==
    [][machine = "VERIFYING" /\ machine' = "RUNNING" => verified]_monitorVars

\* What the helper says of leaks: a leak that stays keeps leaving RUNNING.
LeakStays == Monitored /\ path = "leak"

LeakStaysShown == <>[]LeakStays => []<>(machine # "RUNNING")

\* What the wiring says of the DNS ladder: a path the self-heal cannot repair
\* is answered with a restart.
EscalationHappens == ~<>[](PathDead /\ restarts < MaxRestarts)

\* What markers.py says of RUNNING: only a probe that passed returns to it.
RunningWasProbed ==
    [][ (machine \in {"DEGRADED", "RECOVERING"} /\ machine' = "RUNNING")
            => (pipe # << >> /\ Head(pipe) \in {"PROBE_OK", "LEAK_OK"}) ]_monitorVars

\* What the helper says of the proxy: one that stays down is shown.
ProxyGone == phase \in Monitoring /\ adapter /\ forwarder /\ ~proxy

DeadProxyShown == <>[]ProxyGone => <>[](machine # "RUNNING")
=============================================================================
