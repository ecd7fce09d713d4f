---------------------------- MODULE LiveReconfig ----------------------------
(***************************************************************************)
(* Changing a running tunnel: the dashboard's [V], [Y], [N] and [U] keys   *)
(* reach the helper through the control file, which the helper polls once  *)
(* a second between its other periodic jobs (tuntop/ui/dashboard.py,       *)
(* tuntop/tunnel/helper.py).  The file is rewritten whole by whichever     *)
(* thread has something to say, and a key it lacks means "no change".      *)
(*                                                                         *)
(* What a change is about is where the proxy's own servers are reached:    *)
(* over the physical adapter or the Windows VPN, never through the tunnel. *)
(***************************************************************************)
EXTENDS Naturals, Sequences, SequencesExt

CONSTANTS
    Servers, First,   \* the proxy's servers, and the one configured at start
    Resolvers,        \* choices of name servers
    None, Torn,       \* no payload; a control file that does not parse
    Writers,          \* threads that write the control file
    MaxOps,           \* bound: keys pressed
    MaxFlips,         \* bound: times the VPN comes up or goes down
    MaxSteals,        \* bound: times a foreign program takes a server's route
    MaxFaults         \* bound: route additions, writes and look-ups that fail

\* What a whole control file says, and what the [U] worker is to do.
Payloads == [keys : SUBSET {"over", "nobypass", "servers", "reapply"},
             dns : Resolvers, over : BOOLEAN, nobypass : BOOLEAN,
             servers : SUBSET Servers]
Jobs     == [old : SUBSET Servers, new : Servers, at : {"remove", "install"}]

ASSUME LiveAssumption ==
    /\ First \in Servers /\ Writers = {"keys", "worker", "telemetry"}
    /\ Resolvers # {} /\ None # Torn
    /\ None \notin Payloads \cup Jobs /\ Torn \notin Payloads
    /\ {MaxOps, MaxFlips, MaxSteals, MaxFaults} \subseteq Nat

VARIABLES
    want,      \* ns: what the dashboard believes the tunnel does
    job,       \* the [U] worker: the routes it removes and installs, or None
    binding,   \* the [N] thread has yet to set the adapter's resolvers
    writing,   \* each writer: the payload of its open file, or None
    crossed,   \* writers whose file was open while another's was
    arrived,   \* the telemetry has yet to notice that the VPN came up
    file,      \* the control file
    fresh,     \* its time stamp is not the one the helper has seen
    got,       \* the payload the helper is applying
    todo,      \* the keys of it that are left, in the order of the code
    mode,      \* _live_mode: what the helper runs
    ride,      \* args.vless_over_vpn: what the helper returns to
    seen,      \* last_vpn_status
    row,       \* each server: the adapter its host route is on, or "none"
    vpnrow,    \* the same for the VPN's own endpoint
    tracked,   \* the helper installs and heals the endpoint's route
    shadow,    \* the VPN's injected routes are shadowed
    bound,     \* the resolvers of the tunnel's adapter
    vpn,       \* the Windows VPN: "down", "connected", "routed"
    ops, flips, steals, faults

dashboard == <<want, job, binding, arrived>>
channel   == <<writing, crossed, file, fresh>>
helper    == <<got, todo, mode, ride, seen>>
routes    == <<row, vpnrow, tracked, shadow>>
counts    == <<ops, flips, steals>>
liveVars == <<dashboard, channel, helper, routes, bound, vpn, counts, faults>>

Keys   == <<"over", "nobypass", "servers", "reapply">>
Fault  == faults < MaxFaults /\ faults' = faults + 1
Sound  == UNCHANGED faults
Pinned == {"phys", "vpn"}

LiveInit ==
    /\ \E d \in Resolvers :
         /\ want = [over |-> FALSE, nobypass |-> FALSE, dns |-> d, servers |-> {First}]
         /\ bound = d
    /\ mode = want /\ ride = FALSE /\ seen = None
    /\ job = None /\ binding = FALSE /\ arrived = FALSE
    /\ writing = [w \in Writers |-> None] /\ crossed = {}
    /\ file = Torn /\ fresh = FALSE /\ got = None /\ todo = <<>>
    /\ row = [s \in Servers |-> IF s = First THEN "phys" ELSE "none"]
    /\ vpnrow = "phys" /\ tracked = TRUE
    /\ vpn \in {"down", "routed"} /\ shadow = (vpn = "routed")
    /\ ops = 0 /\ flips = 0 /\ steals = 0 /\ faults = 0

-----------------------------------------------------------------------------
(* _write_control_file(): truncate, then dump.                              *)

Payload(keys, choice) ==
    [keys |-> keys, dns |-> choice.dns,
     over     |-> "over" \in keys /\ choice.over,
     nobypass |-> "nobypass" \in keys /\ choice.nobypass,
     servers  |-> IF "servers" \in keys THEN choice.servers ELSE {}]

\* A file that cannot be opened is logged, and the key counts as pressed.
Writes(w, payload) ==
    /\ writing[w] = None
    /\ \/ /\ Sound
          /\ writing' = [writing EXCEPT ![w] = payload]
          /\ LET others == {v \in Writers \ {w} : writing[v] # None}
             IN crossed' = IF others = {} THEN crossed
                           ELSE crossed \cup others \cup {w}
          /\ file' = Torn /\ fresh' = TRUE
       \/ Fault /\ UNCHANGED channel

\* The dump may bear the time stamp of the truncation before it.  Two dumps
\* into one file may leave neither of them whole.
WriteEnds(w) ==
    /\ writing[w] # None
    /\ \/ file' = writing[w]
       \/ w \in crossed /\ file' = Torn
    /\ \/ fresh' = TRUE
       \/ w \notin crossed /\ UNCHANGED fresh
    /\ writing' = [writing EXCEPT ![w] = None] /\ crossed' = crossed \ {w}
    /\ UNCHANGED <<dashboard, helper, routes, bound, vpn, counts, faults>>

-----------------------------------------------------------------------------
(* The dashboard.                                                           *)

Press == ops < MaxOps /\ ops' = ops + 1 /\ UNCHANGED <<flips, steals>>

\* A mode that needs a VPN that is not there is taken back, and not written.
ApplyModeLive(new) ==
    IF new.over /\ vpn # "routed"
    THEN /\ want' = [new EXCEPT !.over = FALSE, !.nobypass = TRUE]
         /\ UNCHANGED channel /\ Sound
    ELSE want' = new /\ Writes("keys", Payload({"over", "nobypass"}, new))

ToggleOverVpn ==
    /\ Press /\ writing["keys"] = None
    /\ ApplyModeLive([want EXCEPT !.over = ~@, !.nobypass = @ /\ want.over])
    /\ UNCHANGED <<job, binding, arrived, helper, routes, bound, vpn>>

ToggleBypass ==
    /\ Press /\ writing["keys"] = None
    /\ ApplyModeLive([want EXCEPT !.nobypass = ~@])
    /\ UNCHANGED <<job, binding, arrived, helper, routes, bound, vpn>>

\* The adapter is set at once by a thread of its own as well.
ChangeDns ==
    /\ Press
    /\ \E d \in Resolvers \ {want.dns} :
         /\ want' = [want EXCEPT !.dns = d]
         /\ Writes("keys", Payload({}, want'))
    /\ binding' = TRUE
    /\ UNCHANGED <<job, arrived, helper, routes, bound, vpn>>

DashBinds ==
    /\ binding /\ binding' = FALSE
    /\ bound' = want.dns
    /\ UNCHANGED <<want, job, arrived, channel, helper, routes, vpn, counts, faults>>

\* [U]: replace the servers, or add one.
EditServers ==
    /\ Press /\ job = None
    /\ \E s \in Servers, replace \in BOOLEAN :
         /\ s \notin want.servers
         /\ want' = [want EXCEPT !.servers = IF replace THEN {s} ELSE @ \cup {s}]
         /\ job' = [old |-> IF replace THEN want.servers ELSE {}, new |-> s,
                    at  |-> "remove"]
    /\ Sound
    /\ UNCHANGED <<binding, arrived, channel, helper, routes, bound, vpn>>

RehostRemoves ==
    /\ job # None /\ job.at = "remove"
    /\ row' = [s \in Servers |-> IF s \in job.old THEN "none" ELSE row[s]]
    /\ job' = [job EXCEPT !.at = "install"]
    /\ UNCHANGED <<want, binding, arrived, channel, helper, vpnrow, tracked,
                   shadow, bound, vpn, counts, faults>>

\* The new server's route is direct, whatever the mode.  The helper is told
\* the servers that resolve, those that were left alone included.
RehostInstalls ==
    /\ job # None /\ job.at = "install"
    /\ row' = [row EXCEPT ![job.new] = "phys"]
    /\ job' = None
    /\ Writes("worker", Payload({"servers"}, want))
    /\ UNCHANGED <<want, binding, arrived, helper, vpnrow, tracked, shadow,
                   bound, vpn, counts>>

RehostUnresolved ==
    /\ job # None /\ job.at = "install" /\ writing["worker"] = None
    /\ Fault
    /\ \E r \in SUBSET want.servers :
         /\ r # want.servers
         /\ row' = IF job.new \in r THEN [row EXCEPT ![job.new] = "phys"] ELSE row
         /\ writing' = [writing EXCEPT !["worker"] =
                          Payload({"servers"}, [want EXCEPT !.servers = r])]
    /\ crossed' = crossed \cup {w \in Writers : writing'[w] # None /\ \E v \in Writers \ {w} :
                                    writing'[v] # None}
    /\ file' = Torn /\ fresh' = TRUE /\ job' = None
    /\ UNCHANGED <<want, binding, arrived, helper, vpnrow, tracked, shadow,
                   bound, vpn, counts>>

VpnArrived ==
    /\ arrived /\ arrived' = FALSE
    /\ IF want.nobypass \/ want.over THEN UNCHANGED channel /\ Sound
       ELSE Writes("telemetry", Payload({"reapply"}, want))
    /\ UNCHANGED <<want, job, binding, helper, routes, bound, vpn, counts>>

-----------------------------------------------------------------------------
(* The helper's monitor loop: one thread, one job at a time.                *)

Idle == todo = <<>>

\* Faulty: the time stamp is taken before the file is parsed.
PollMarksFirst ==
    /\ Idle /\ fresh /\ fresh' = FALSE
    /\ IF file = Torn THEN UNCHANGED <<got, todo, mode>>
       ELSE /\ got' = file
            /\ mode' = [mode EXCEPT !.dns = file.dns]
            /\ todo' = SelectSeq(Append(Keys, "bind"), LAMBDA k :
                          k \in file.keys \/ (k = "bind" /\ file.dns # mode.dns))
    /\ UNCHANGED <<dashboard, writing, crossed, file, ride, seen, routes, bound,
                   vpn, counts, faults>>

PollReads ==
    /\ Idle /\ fresh /\ file # Torn
    /\ fresh' = FALSE
    /\ got' = file
    /\ mode' = [mode EXCEPT !.dns = file.dns]
    /\ todo' = SelectSeq(Append(Keys, "bind"), LAMBDA k :
                  k \in file.keys \/ (k = "bind" /\ file.dns # mode.dns))
    /\ UNCHANGED <<dashboard, writing, crossed, file, ride, seen, routes, bound,
                   vpn, counts, faults>>

Applying(key) == todo # <<>> /\ Head(todo) = key /\ todo' = Tail(todo)

Egress(over) == IF over THEN "vpn" ELSE "phys"

\* add_v4(), which replaces what there is: a server without an egress keeps
\* its route, one whose addition is refused has none.
AddAll(ips, eg, rows, ok) ==
    \/ /\ ~(eg = "vpn" /\ vpn = "down") /\ ok /\ Sound
       /\ row' = [s \in Servers |-> IF s \in ips THEN eg ELSE rows[s]]
    \/ /\ eg = "vpn" /\ vpn = "down" /\ ~ok /\ Sound
       /\ row' = [s \in Servers |-> IF s \in ips THEN "none" ELSE rows[s]]
    \/ /\ ~ok /\ Fault
       /\ \E f \in ips : \E r \in {"none", rows[f]} :
            /\ eg = "vpn" => r = "none"
            /\ row' = [s \in Servers |-> IF s = f THEN r
                                         ELSE IF s \in ips THEN eg ELSE rows[s]]

\* Faulty: the old route is removed before the new egress is known.
SwitchPreCleans(over, ok) ==
    LET rows == [s \in Servers |-> IF s \in mode.servers THEN "none" ELSE row[s]]
    IN  IF over THEN /\ shadow' = FALSE
                     /\ IF vpn = "routed" THEN AddAll(mode.servers, "vpn", rows, ok)
                        ELSE ~ok /\ row' = rows /\ Sound
        ELSE /\ shadow' = (shadow \/ (~mode.nobypass /\ vpn = "routed"))
             /\ AddAll(mode.servers, "phys", rows, ok)

\* _live_switch_vless(): the shadow goes first, also when the switch is then
\* refused, and comes back with direct mode.
SwitchVless(over, ok) ==
    IF over THEN /\ shadow' = FALSE
                 /\ IF vpn = "routed" THEN AddAll(mode.servers, "vpn", row, ok)
                    ELSE ~ok /\ UNCHANGED row /\ Sound
    ELSE /\ shadow' = (shadow \/ (~mode.nobypass /\ vpn = "routed"))
         /\ AddAll(mode.servers, "phys", row, ok)

ApplyOver ==
    /\ Applying("over")
    /\ IF got.over = mode.over
       THEN Sound /\ UNCHANGED <<mode, ride, row, shadow>>
       ELSE \E ok \in BOOLEAN :
              /\ SwitchVless(got.over, ok)
              /\ mode' = [mode EXCEPT !.over = IF ok THEN got.over ELSE @]
              /\ ride' = IF ok THEN got.over ELSE ride
    /\ UNCHANGED <<dashboard, channel, got, seen, vpnrow, tracked, bound, vpn, counts>>

\* Faulty: the VPN's endpoint is reached as the proxy's servers are.
BypassVpnAsServers ==
    /\ tracked' = TRUE
    /\ \/ vpnrow' = Egress(mode.over) /\ Sound
       \/ vpnrow' = "none" /\ Fault
    /\ shadow' = (shadow \/ (~mode.over /\ vpn = "routed"))

\* The endpoint's route, or the wish for it, and the shadow that only ever
\* goes with it.
BypassVpn ==
    /\ tracked' = TRUE
    /\ \/ vpnrow' = "phys" /\ Sound
       \/ vpnrow' = "none" /\ Fault
    /\ shadow' = (shadow \/ (~mode.over /\ vpn = "routed"))

ApplyBypass ==
    /\ Applying("nobypass")
    /\ IF got.nobypass = mode.nobypass THEN Sound /\ UNCHANGED <<mode, vpnrow, tracked, shadow>>
       ELSE /\ mode' = [mode EXCEPT !.nobypass = got.nobypass]
            /\ IF ~got.nobypass THEN BypassVpn
               ELSE /\ tracked' = FALSE /\ vpnrow' = "none" /\ Sound
                    /\ shadow' = (shadow /\ mode.over)
    /\ UNCHANGED <<dashboard, channel, got, ride, seen, row, bound, vpn, counts>>

\* A list that resolves to nothing leaves the tracked servers alone.
ApplyServers ==
    /\ Applying("servers")
    /\ IF got.servers = {} THEN Sound /\ UNCHANGED <<mode, row>>
       ELSE /\ mode' = [mode EXCEPT !.servers = got.servers]
            /\ \E ok \in BOOLEAN :
                 AddAll(got.servers, Egress(mode.over),
                        [s \in Servers |-> IF s \in mode.servers \ got.servers
                                           THEN "none" ELSE row[s]], ok)
    /\ UNCHANGED <<dashboard, channel, got, ride, seen, vpnrow, tracked, shadow,
                   bound, vpn, counts>>

ApplyReapply ==
    /\ Applying("reapply")
    /\ IF mode.nobypass \/ mode.over THEN Sound /\ UNCHANGED <<vpnrow, tracked, shadow>>
       ELSE BypassVpn
    /\ UNCHANGED <<dashboard, channel, got, mode, ride, seen, row, bound, vpn, counts>>

ApplyBind ==
    /\ Applying("bind")
    /\ bound' = mode.dns
    /\ UNCHANGED <<dashboard, channel, got, mode, ride, seen, routes, vpn, counts, faults>>

\* Faulty: any adapter but a tunnel will do.
HealthyOffTun(s) == row[s] \in Pinned

\* _bad_endpoint_rows(): on a tunnel, or against the transport mode.
Healthy(s) == row[s] = Egress(mode.over)

HealServer ==
    /\ Idle
    /\ \E s \in mode.servers : ~Healthy(s) /\ \E ok \in BOOLEAN :
         AddAll({s}, Egress(mode.over), [row EXCEPT ![s] = "none"], ok)
    /\ UNCHANGED <<dashboard, channel, helper, vpnrow, tracked, shadow, bound, vpn, counts>>

HealEndpoint ==
    /\ Idle /\ tracked /\ vpnrow # "phys"
    /\ \/ vpnrow' = "phys" /\ Sound
       \/ Fault /\ UNCHANGED vpnrow
    /\ UNCHANGED <<dashboard, channel, helper, row, tracked, shadow, bound, vpn, counts>>

\* A change of the VPN's status is acted on once.
VpnChecked ==
    /\ Idle /\ ride
    /\ LET up == vpn # "down"
       IN /\ seen # up /\ seen' = up
          /\ IF up = mode.over THEN Sound /\ UNCHANGED <<mode, row, shadow>>
             ELSE \E ok \in BOOLEAN :
                    /\ SwitchVless(up, ok)
                    /\ mode' = [mode EXCEPT !.over = IF ok THEN up ELSE @]
    /\ UNCHANGED <<dashboard, channel, got, todo, ride, vpnrow, tracked, bound, vpn, counts>>

-----------------------------------------------------------------------------
(* The machine.                                                             *)

\* A VPN that goes takes the routes on its adapter along.
VpnFlips ==
    /\ flips < MaxFlips /\ flips' = flips + 1
    /\ IF vpn = "down" THEN vpn' = "connected" /\ UNCHANGED row
       ELSE /\ vpn' = "down"
            /\ row' = [s \in Servers |-> IF row[s] = "vpn" THEN "none" ELSE row[s]]
    /\ arrived' = (vpn' = "connected")
    /\ UNCHANGED <<want, job, binding, channel, helper, vpnrow, tracked, shadow,
                   bound, ops, steals, faults>>

VpnRoutes ==
    /\ vpn = "connected" /\ vpn' = "routed"
    /\ UNCHANGED <<dashboard, channel, helper, routes, bound, counts, faults>>

\* Another tunnel takes a route over, or it vanishes with that tunnel.
Steal ==
    /\ steals < MaxSteals /\ steals' = steals + 1
    /\ \/ /\ \E s \in Servers, r \in {"none", "tun"} :
               row[s] \in Pinned /\ row' = [row EXCEPT ![s] = r]
          /\ UNCHANGED vpnrow
       \/ vpnrow = "phys" /\ vpnrow' \in {"none", "tun"} /\ UNCHANGED row
    /\ UNCHANGED <<dashboard, channel, helper, tracked, shadow, bound, vpn, ops,
                   flips, faults>>

-----------------------------------------------------------------------------

Threads == DashBinds \/ RehostRemoves \/ RehostInstalls \/ RehostUnresolved
           \/ VpnArrived \/ \E w \in Writers : WriteEnds(w)

Applies == ApplyOver \/ ApplyBypass \/ ApplyServers \/ ApplyReapply \/ ApplyBind

Monitor == PollReads \/ Applies \/ HealServer \/ HealEndpoint \/ VpnChecked

LiveNext ==
    \/ ToggleOverVpn \/ ToggleBypass \/ ChangeDns \/ EditServers
    \/ Threads \/ Monitor
    \/ VpnFlips \/ VpnRoutes \/ Steal

\* Threads end what they have begun, the monitor loop comes round to each of
\* its jobs, and a VPN that has connected gets its routes.
LiveSpec ==
    /\ LiveInit /\ [][LiveNext]_liveVars
    /\ WF_liveVars(DashBinds) /\ WF_liveVars(RehostRemoves) /\ WF_liveVars(VpnArrived)
    /\ WF_liveVars(RehostInstalls \/ RehostUnresolved)
    /\ \A w \in Writers : WF_liveVars(WriteEnds(w))
    /\ WF_liveVars(PollReads) /\ WF_liveVars(Applies)
    /\ WF_liveVars(HealServer) /\ WF_liveVars(HealEndpoint) /\ WF_liveVars(VpnChecked)
    /\ WF_liveVars(VpnRoutes)

-----------------------------------------------------------------------------
(* Properties.                                                              *)

Settings == [over : BOOLEAN, nobypass : BOOLEAN, dns : Resolvers,
            servers : SUBSET Servers]

\* Every variable stays in its set.
LiveTypeOK ==
    /\ want \in Settings /\ mode \in Settings
    /\ binding \in BOOLEAN /\ arrived \in BOOLEAN /\ fresh \in BOOLEAN
    /\ crossed \subseteq {w \in Writers : writing[w] # None}
    /\ todo # <<>> => got # None
    /\ ride \in BOOLEAN /\ seen \in BOOLEAN \cup {None}
    /\ row \in [Servers -> Pinned \cup {"none", "tun"}]
    /\ vpnrow \in {"phys", "none", "tun"}
    /\ tracked \in BOOLEAN /\ shadow \in BOOLEAN /\ bound \in Resolvers
    /\ vpn \in {"down", "connected", "routed"}

\* No switch of the helper, and no repair, takes away the route of a server
\* it goes on serving, unless an addition was refused: a server without its
\* route is swallowed by the tunnel that needs it.
SwitchKeepsRoutes ==
    [][\A s \in mode.servers \cap mode'.servers :
          /\ row[s] \in Pinned /\ row'[s] = "none"
          /\ UNCHANGED <<want, job, vpn, steals, faults>>
          => mode.over /\ vpn = "down"]_liveVars

\* However the threads that write the control file and the loop that reads it
\* interleave: a payload that stays is applied, but for a switch onto a VPN,
\* which may be refused, and one that met a failure.
FileIsApplied ==
    <>[](file # Torn =>
            /\ mode.dns = file.dns /\ (want.dns = file.dns => bound = file.dns)
            /\ "nobypass" \in file.keys => mode.nobypass = file.nobypass
            /\ "servers" \in file.keys /\ file.servers # {} => mode.servers = file.servers
            /\ "over" \in file.keys /\ ~file.over /\ faults = 0 => ~mode.over)

\* Whatever takes the routes of the servers, and of the VPN's endpoint while
\* it is bypassed: they come back on the adapter the mode asks for, as long
\* as it is there.
EndpointsHealed ==
    <>[](/\ (mode.over /\ vpn = "down")
            \/ \A s \in mode.servers : row[s] = (IF mode.over THEN "vpn" ELSE "phys")
         /\ tracked => vpnrow = "phys")

\* The dashboard and the helper come to agree about the transport mode.
EndInAgreement ==
    <>[](mode.over = want.over /\ mode.nobypass = want.nobypass)

\* A server that the user keeps stays among those the helper looks after.
KeptServerStaysTracked ==
    [][mode.servers \cap want.servers \subseteq mode'.servers]_liveVars

\* The transport is never stranded for good on a VPN that is down.
NeverStranded == <>[](mode.over => vpn # "down")

=============================================================================
