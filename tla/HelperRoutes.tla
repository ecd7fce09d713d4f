---------------------------- MODULE HelperRoutes ----------------------------
(***************************************************************************)
(* The routes of a running helper and the threads that change them         *)
(* (tuntop/tunnel/helper.py): the main thread with its shadow pass, its    *)
(* gateway check and its clean-up, the thread that installs the country    *)
(* routes, and the workers that move those to a new gateway.  What each    *)
(* thread has put in the table it owes to a ledger, for the clean-up to    *)
(* find; the ledgers die with the process.                                 *)
(*                                                                         *)
(* A row is a prefix and the egress it points at.  A country prefix stands *)
(* for a sub-batch of the installer: what one netsh call adds.             *)
(***************************************************************************)
EXTENDS Naturals, FiniteSets, FiniteSetsExt

CONSTANTS
    Country,      \* the geo prefixes
    Injected,     \* the prefixes that the Windows VPN injects
    Server,       \* the proxy's server, a host route
    Gateways,     \* physical egresses
    MaxRoams,     \* bound: changes of the physical egress
    MaxSwitches,  \* bound: times the shadow is undone
    MaxFaults,    \* bound: netsh calls that fail
    Perils        \* what else may happen; the properties name what each breaks

ASSUME RoutesAssumption ==
    /\ Server \notin Country \cup Injected
    /\ {"tun", "vpn"} \cap Gateways = {} /\ IsFiniteSet(Gateways)
    /\ {MaxRoams, MaxSwitches, MaxFaults} \subseteq Nat
    /\ Perils \subseteq {"roam early", "roam twice", "half move",
                         "late shadow"}

VARIABLES
    table,     \* the rows in the system's routing table
    own,       \* added_routes
    geo,       \* geoip_added
    over,      \* vpn_override_routes: the prefixes shadowed
    saved,     \* vpn_saved_routes: the receipts to give back
    phys,      \* _live_mode["phys"], the egress all is pinned to
    gateway,   \* the machine's
    pending,   \* _gw_pending, or the egress in use
    main,      \* what the main thread is at
    todo,      \* the prefixes left of its shadow pass
    inst,      \* what the install thread is at
    base,      \* the egress the install thread was given
    batches,   \* the sub-batches left, and those refused
    refused,
    freed,     \* the prefixes it is taking out of the shadow
    move,      \* the workers that move the country, one for each roam
    cancel,    \* _geo_install_cancel
    ending,    \* how the process ended: "running", "normal",
               \* "unjoined" or "signal"
    roams, switches, faults

helper  == <<own, geo, over, saved>>
mains   == <<phys, pending, main, todo>>
install == <<inst, base, batches, refused, freed>>
counts  == <<ending, roams, switches>>
vars    == <<table, helper, gateway, mains, install, move, cancel, counts, faults>>

Dests(rows)   == {r[1] : r \in rows}
Via(ps, e)    == ps \X {e}
Fault         == faults < MaxFaults /\ faults' = faults + 1
Sound         == UNCHANGED faults
Alive         == main # "done"
Moves         == Cardinality({k \in DOMAIN move : move[k].at # "unused"})
NoMove        == [at |-> "unused", from |-> phys, to |-> phys, rows |-> {}]

Init ==
    /\ gateway \in Gateways /\ phys = gateway /\ pending = gateway /\ base = gateway
    /\ own = Via({Server}, phys)
    /\ table = own \cup Via(Injected, "vpn")
    /\ geo = {} /\ over = {} /\ saved = {}
    /\ main = "run" /\ todo = {} /\ inst = "parse" /\ batches = {} /\ refused = {}
    /\ freed = {} /\ cancel = FALSE /\ ending = "running"
    /\ move = [k \in 1..MaxRoams |-> NoMove]
    /\ roams = 0 /\ switches = 0 /\ faults = 0

-----------------------------------------------------------------------------
(* The shadow over the VPN's own routes.                                    *)

\* override_vpn_routes(): the geo ledger is read once, before the pass.
ShadowBegins ==
    /\ main = "run" /\ over \cup saved = {}
    /\ todo' = {p \in Injected \ Dests(geo) : <<p, "vpn">> \in table}
    /\ todo' # {} /\ main' = "shadow"
    /\ UNCHANGED <<table, helper, gateway, phys, pending, install, move, cancel,
                   counts, faults>>

\* The receipt follows a confirmed add; a refused one leaves none.
ShadowAdds == \E p \in todo :
    /\ main = "shadow" /\ todo' = todo \ {p}
    /\ main' = IF todo' = {} THEN "run" ELSE main
    /\ \/ /\ table' = table \cup Via({p}, "tun")
          /\ over' = over \cup {p} /\ saved' = saved \cup {p} /\ Sound
       \/ Fault /\ UNCHANGED <<table, over, saved>>
    /\ UNCHANGED <<own, geo, gateway, phys, pending, install, move, cancel,
                   counts>>

\* _live_set_vpn_shadow(False), in the two steps that a thread fits between.
ShadowUndone ==
    \/ /\ main = "run" /\ over \cup saved # {} /\ switches < MaxSwitches
       /\ main' = "undo" /\ switches' = switches + 1
       /\ table' = table \ Via(over, "tun") /\ over' = {}
       /\ UNCHANGED saved
    \/ /\ main = "undo" /\ main' = "run"
       /\ table' = table \cup Via(saved, "vpn") /\ saved' = {}
       /\ UNCHANGED <<over, switches>>

UndoShadow == ShadowUndone /\ UNCHANGED <<own, geo, gateway, phys, pending, todo,
                                          install, move, cancel, ending, roams, faults>>

-----------------------------------------------------------------------------
(* The install thread.                                                      *)

Installing(at) == Alive /\ inst = at

\* Rows of ours from an earlier run, and the VPN's own for these prefixes.
GeoSweeps ==
    /\ Installing("parse") /\ inst' = "register"
    /\ table' = {r \in table : r[1] \notin Country \/ r[2] = "tun"}
    /\ UNCHANGED <<helper, gateway, mains, base, batches, refused, freed, move,
                   cancel, counts, faults>>

\* Faulty: what is installed is registered when it is in the table.
GeoRegistersLate ==
    /\ Installing("register") /\ inst' = "install"
    /\ batches' = Country
    /\ UNCHANGED <<table, helper, gateway, mains, base, refused, freed, move,
                   cancel, counts, faults>>

\* Before the first netsh runs, so that a clean-up always sees it.
GeoRegisters ==
    /\ Installing("register") /\ inst' = "install"
    /\ geo' = geo \cup Via(Country, base) /\ batches' = Country
    /\ UNCHANGED <<table, own, over, saved, gateway, mains, base, refused, freed,
                   move, cancel, counts, faults>>

\* A sub-batch that finds the flag set is skipped, its rows stay registered.
GeoInstalls == \E c \in batches :
    /\ Installing("install") /\ batches' = batches \ {c}
    /\ \/ cancel /\ UNCHANGED <<table, refused>> /\ Sound
       \/ ~cancel /\ table' = table \cup Via({c}, base) /\ UNCHANGED refused /\ Sound
       \/ ~cancel /\ Fault /\ refused' = refused \cup {c} /\ UNCHANGED table
    /\ UNCHANGED <<helper, gateway, mains, inst, base, freed, move, cancel,
                   counts>>

GeoWithdraws ==
    /\ Installing("install") /\ batches = {} /\ inst' = "unshadow"
    /\ geo' = geo \ Via(refused, base)
    /\ UNCHANGED <<table, own, over, saved, gateway, mains, base, batches, refused,
                   freed, move, cancel, counts, faults>>

\* Faulty: a prefix that is shadowed by now is left to the tunnel.
UnshadowSkips ==
    /\ Installing("unshadow") /\ inst' = "done"
    /\ "late shadow" \notin Perils => main # "shadow"
    /\ UNCHANGED <<table, helper, gateway, mains, base, batches, refused, freed,
                   move, cancel, counts, faults>>

\* unshadow_geo_prefixes(): the victims are chosen from one look at the
\* receipts; what is given back, from the next.
UnshadowBegins ==
    /\ Installing("unshadow") /\ freed' = saved \cap Dests(geo)
    /\ "late shadow" \notin Perils => main # "shadow"
    /\ table' = table \ Via(freed', "tun")
    /\ inst' = IF freed' = {} THEN "done" ELSE "give back"
    /\ UNCHANGED <<helper, gateway, mains, base, batches, refused, move, cancel,
                   counts, faults>>

UnshadowEnds ==
    /\ Installing("give back") /\ inst' = "done" /\ freed' = {}
    /\ table' = table \cup Via(saved \cap freed, "vpn")
    /\ over' = over \ freed /\ saved' = saved \ freed
    /\ UNCHANGED <<own, geo, gateway, mains, base, batches, refused, move, cancel,
                   counts, faults>>

-----------------------------------------------------------------------------
(* A changed gateway.                                                       *)

\* add_v4() has deleted the old row by the time the new one is refused; the
\* old egress is then pinned again, which may be refused as well.
RepointPinned(e) ==
    LET old == {r \in own : r[2] = phys}
        new == Via(Dests(old), e)
    IN  \/ own' = (own \ old) \cup new /\ table' = (table \ old) \cup new /\ Sound
        \/ Fault /\ UNCHANGED <<own, table>>
        \/ faults + 1 < MaxFaults /\ faults' = faults + 2
           /\ table' = table \ old /\ UNCHANGED own

\* Seen twice before it is believed.
GatewaySeen ==
    /\ main = "run" /\ pending # gateway
    /\ pending' = gateway
    /\ UNCHANGED <<table, helper, gateway, phys, main, todo, install, move, cancel,
                   counts, faults>>

\* The handle of an earlier worker is overwritten.  The new egress counts as
\* the one in use whatever became of the routes.
GatewayChanged ==
    /\ main = "run" /\ pending = gateway /\ gateway # phys
    /\ "roam twice" \notin Perils => \A k \in DOMAIN move : move[k].at \in {"unused", "over"}
    /\ RepointPinned(gateway)
    /\ LET k == Moves + 1
       IN move' = IF \E r \in geo : r[2] = phys
                  THEN [move EXCEPT ![k] = [at |-> "queued", from |-> phys,
                                            to |-> gateway, rows |-> {}]]
                  ELSE move
    /\ phys' = gateway
    /\ UNCHANGED <<geo, over, saved, gateway, pending, main, todo, install, cancel,
                   counts>>

Moving(k, at)  == Alive /\ move[k].at = at
Goes(k, at)    == move' = [move EXCEPT ![k].at = at]
Locked         == \E k \in DOMAIN move : move[k].at \in {"add", "roll back", "drop"}
New(k)         == Via(Dests(move[k].rows), move[k].to)

MoveStarts(k) ==
    /\ Moving(k, "queued") /\ Goes(k, IF cancel THEN "over" ELSE "lock")
    /\ UNCHANGED <<table, helper, gateway, mains, install, cancel, counts, faults>>

\* _repoint_geo_routes() under its lock: register, then install.
MoveRegisters(k) ==
    /\ Moving(k, "lock") /\ ~Locked
    /\ LET rows == {r \in geo : r[2] = move[k].from}
       IN IF cancel \/ rows = {} THEN Goes(k, "over") /\ UNCHANGED geo
          ELSE /\ move' = [move EXCEPT ![k].at = "add", ![k].rows = rows]
               /\ geo' = (geo \ rows) \cup Via(Dests(rows), move[k].to)
    /\ UNCHANGED <<table, own, over, saved, gateway, mains, install, cancel,
                   counts, faults>>

\* Faulty: the old rows go before the new ones come.
MoveDropsFirst(k) ==
    /\ Moving(k, "add") /\ Goes(k, "drop")
    /\ table' = table \ move[k].rows
    /\ UNCHANGED <<helper, gateway, mains, install, cancel, counts, faults>>

\* Some of it may be in the table when the move is found to have failed.
MoveAdds(k) ==
    /\ Moving(k, "add")
    /\ \/ table' = table \cup New(k) /\ Goes(k, "drop") /\ Sound
       \/ /\ Fault /\ Goes(k, "roll back")
          /\ \E some \in SUBSET New(k) :
               /\ "half move" \notin Perils => some = {}
               /\ table' = table \cup some
    /\ UNCHANGED <<helper, gateway, mains, install, cancel, counts>>

MoveRollsBack(k) ==
    /\ Moving(k, "roll back") /\ Goes(k, "over")
    /\ geo' = (geo \ New(k)) \cup move[k].rows
    /\ UNCHANGED <<table, own, over, saved, gateway, mains, install, cancel,
                   counts, faults>>

MoveDrops(k) ==
    /\ Moving(k, "drop") /\ Goes(k, "over")
    /\ table' = table \ move[k].rows
    /\ UNCHANGED <<helper, gateway, mains, install, cancel, counts, faults>>

-----------------------------------------------------------------------------
(* The end of the process.                                                  *)

\* tun2socks has died, and the interpreter runs cleanup().
Exit ==
    /\ main = "run" /\ main' = "join" /\ cancel' = TRUE
    /\ UNCHANGED <<table, helper, gateway, phys, pending, todo, install, move,
                   counts, faults>>

Joined(cond) ==
    /\ main = "join" /\ main' = "vpn"
    /\ \/ cond /\ UNCHANGED ending /\ Sound
       \/ Fault /\ ending' = "unjoined"
    /\ UNCHANGED <<table, helper, gateway, phys, pending, todo, install, move,
                   cancel, roams, switches>>

\* _stop_geo_installer(): the install thread, and the worker whose handle is
\* there.  After 150 seconds the clean-up warns, and goes on.
Join == Joined(inst = "done" /\ (Moves > 0 => move[Moves].at = "over"))

CleanVpn ==
    /\ main = "vpn" /\ main' = "own"
    /\ table' = (table \ Via(over, "tun")) \cup Via(saved, "vpn")
    /\ over' = {} /\ saved' = {}
    /\ UNCHANGED <<own, geo, gateway, phys, pending, todo, install, move, cancel,
                   counts, faults>>

CleanOwn ==
    /\ main = "own" /\ main' = "geo"
    /\ table' = table \ own /\ own' = {}
    /\ UNCHANGED <<geo, over, saved, gateway, phys, pending, todo, install, move,
                   cancel, counts, faults>>

CleanGeo ==
    /\ main = "geo" /\ main' = "done"
    /\ ending' = IF ending = "running" THEN "normal" ELSE ending
    /\ table' = table \ geo /\ geo' = {}
    /\ UNCHANGED <<own, over, saved, gateway, phys, pending, todo, install, move,
                   cancel, roams, switches, faults>>

\* _on_signal(): it raises _cleanup_in_progress, which cleanup() takes for a
\* clean-up that is under way: it returns, and the process exits.  A signal
\* during a clean-up is ignored.
Signal ==
    /\ main \in {"run", "shadow", "undo"}
    /\ main' = "done" /\ ending' = "signal" /\ cancel' = TRUE
    /\ UNCHANGED <<table, helper, gateway, phys, pending, todo, install, move,
                   roams, switches, faults>>

\* The user moves to another network; the rows stay where they are.
Roam ==
    /\ Alive /\ roams < MaxRoams /\ roams' = roams + 1
    /\ "roam early" \notin Perils => inst = "done"
    /\ gateway' \in Gateways \ {gateway}
    /\ UNCHANGED <<table, helper, mains, install, move, cancel, ending, switches,
                   faults>>

-----------------------------------------------------------------------------

Installer == GeoSweeps \/ GeoRegisters \/ GeoInstalls \/ GeoWithdraws
             \/ UnshadowBegins \/ UnshadowEnds

Mover(k) == MoveStarts(k) \/ MoveRegisters(k) \/ MoveAdds(k)
            \/ MoveRollsBack(k) \/ MoveDrops(k)

Main == GatewaySeen \/ GatewayChanged \/ ShadowAdds
        \/ Join \/ CleanVpn \/ CleanOwn \/ CleanGeo

Next ==
    \/ Installer \/ Main \/ ShadowBegins \/ UndoShadow
    \/ \E k \in DOMAIN move : Mover(k)
    \/ Exit \/ Signal \/ Roam

\* The threads run on and the monitor comes round to its gateway check.
Spec == /\ Init /\ [][Next]_vars
        /\ WF_vars(Installer) /\ WF_vars(Main) /\ WF_vars(UndoShadow /\ main = "undo")
        /\ \A k \in 1..MaxRoams : WF_vars(Mover(k))

-----------------------------------------------------------------------------
(* Properties.                                                              *)

Rows == (Country \cup Injected \cup {Server}) \X (Gateways \cup {"tun", "vpn"})

\* Every variable stays in its set.
TypeOK ==
    /\ table \subseteq Rows
    /\ own \subseteq Via({Server}, phys) \cup (Rows \cap ({Server} \X Gateways))
    /\ geo \subseteq Country \X Gateways
    /\ over \subseteq Injected /\ saved \subseteq Injected
    /\ {phys, gateway, pending, base} \subseteq Gateways
    /\ main \in {"run", "shadow", "undo", "join", "vpn", "own", "geo", "done"}
    /\ todo \subseteq Injected /\ freed \subseteq Country \cap Injected
    /\ inst \in {"parse", "register", "install", "unshadow", "give back", "done"}
    /\ batches \subseteq Country /\ refused \subseteq Country
    /\ \A k \in DOMAIN move :
          move[k].at \in {"unused", "queued", "lock", "add", "roll back", "drop", "over"}

\* What a worker or a pass under way still answers for.
InHand ==
    IF main \in {"run", "shadow", "undo", "join"}
    THEN UNION {move[k].rows : k \in {k \in DOMAIN move :
                                  move[k].at \in {"add", "roll back", "drop"}}}
    ELSE {}

\* Whichever threads are at work, every row of ours is in a ledger or in the
\* hand of a thread that the clean-up waits for; so that, when the clean-up
\* is over, none is left.
RoutesTracked ==
    ending \in {"running", "normal"} =>
        {r \in table : r[2] # "vpn"} \subseteq own \cup geo \cup Via(over, "tun") \cup InHand

\* The two together, as the run checks them.
HelperInvariant == TypeOK /\ RoutesTracked

\* Moving the country to another gateway opens no gap through which it would
\* fall into the tunnel.
RepointNoGap ==
    [][\A c \in Country : main' = "run" /\ (\E g \in Gateways : <<c, g>> \in table)
          => \E g \in Gateways : <<c, g>> \in table']_vars

\* When the network has settled and no call failed, everything is pinned to
\* the egress the machine has now, and no country prefix is in the shadow.
EndsDirect ==
    <>[](main = "run" /\ faults = 0 =>
            /\ own = Via({Server}, gateway) /\ own \subseteq table
            /\ geo \subseteq Country \X {gateway} /\ geo \subseteq table
            /\ over \cap Dests(geo) = {})

\* A helper that is signalled removes its routes before it exits.
SignalCleansUp == ending = "signal" => \A r \in table : r[2] = "vpn"

=============================================================================
